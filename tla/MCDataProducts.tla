--------------------------- MODULE MCDataProducts ---------------------------
(***************************************************************************)
(* Small instances of DataProducts.  alice and bob are in the team that    *)
(* owns p1, bob's token spelling it in another case; carl is in no team    *)
(* and created the unassigned p2; root is a master admin.                  *)
(***************************************************************************)
EXTENDS DataProducts, TLC

CONSTANTS r1, r2, r3, p1, p2, p3

MCUsers   == {"alice", "bob", "carl", "root"}
MCMasters == {"root"}
MCTeams   == {"Vault", "vault", "prism"}
MCTeamsOf == [u \in MCUsers |->
                CASE u = "alice" -> {"Vault", "prism"}
                  [] u = "bob"   -> {"vault"}
                  [] OTHER       -> {}]
MCLower   == [t \in MCTeams |-> IF t = "Vault" THEN "vault" ELSE t]

MCNames      == {"Logins", "Events", "Flows"}
MCTexts      == {"a", "b"}
MCSchedules  == {"daily"}
MCTableLists == {<<"t", "", "t", "s">>, <<"t", "s">>, <<>>}

Row(name, text, team, user) ==
    [c \in Columns |->
        CASE c = "name"            -> name
          [] c = "description"     -> text
          [] c = "documentation"   -> None
          [] c = "schedule_type"   -> None
          [] c = "tables"          -> <<>>
          [] c = "team"            -> team
          [] c = "created_by"      -> user
          [] c = "last_updated_by" -> user
          [] c = "last_updated_at" -> Seeded]

MCSeedProducts ==
    [p \in Products |-> CASE p = p1 -> Row("Logins", "a", "Vault", "alice")
                          [] p = p2 -> Row("Events", None, None, "carl")
                          [] OTHER  -> None]

SeedRevision(p, content) ==
    [request |-> Seeded, product |-> p, field |-> "description",
     content |-> content, changed_by |-> "alice", change_source |-> "user"]

MCSeedRevisions == {SeedRevision(p1, "a"), SeedRevision(p1, "b"), SeedRevision(p2, "a")}

NewProduct(name) ==
    [c \in BodyColumns |->
        CASE c = "name" -> name [] c = "tables" -> <<"t", "", "t", "s">> [] OTHER -> None]

MCNewProducts == {NewProduct("Events"), NewProduct("Flows")}

\* Saves of one text, of both, a rename alone, with a text, and with a null name.
MCPatches ==
    { [description |-> "b"],
      [name |-> None, description |-> None, documentation |-> "a"],
      [name |-> "Flows", schedule_type |-> "daily"],
      [name |-> "Events", description |-> "b"],
      [name |-> "Logins", documentation |-> "b"] }

\* Fewer inputs, for three concurrent requests.
FewUsers       == {"alice", "carl"}
FewTeamsOf     == [u \in FewUsers |-> IF u = "alice" THEN {"vault"} ELSE {}]
FewTableLists  == {<<>>, <<"t">>}
FewNewProducts == {[NewProduct("Events") EXCEPT !["tables"] = <<"t">>]}
FewPatches     ==
    { [description |-> "b"],
      [name |-> "Events", description |-> "b"],
      [name |-> "Logins", documentation |-> "b"] }
FewSeedRevisions == {SeedRevision(p1, "b")}

RequestSymmetry == Permutations(Requests)

=============================================================================
