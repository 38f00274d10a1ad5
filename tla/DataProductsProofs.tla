------------------------- MODULE DataProductsProofs -------------------------
(***************************************************************************)
(* Proofs that every safety property of DataProducts holds for any number  *)
(* of requests, users, products and names.  IInv is inductive: each of its *)
(* conjuncts is shown to be preserved by every action, the actions grouped *)
(* by what they change (StepKinds).                                        *)
(***************************************************************************)
EXTENDS DataProducts, WellFoundedInduction, TLAPS

USE SentinelsAssumption

-----------------------------------------------------------------------------
(* Facts about the derived state                                           *)

\* A row is not the missing row.
LEMMA RowsExist == ~ IsRow(None)
  <1> SUFFICES ASSUME IsRow(None) PROVE FALSE
    OBVIOUS
  <1> DEFINE rec == [name |-> None["name"], description |-> None["description"],
                     documentation |-> None["documentation"],
                     schedule_type |-> None["schedule_type"], tables |-> None["tables"],
                     team |-> None["team"], created_by |-> None["created_by"],
                     last_updated_by |-> None["last_updated_by"],
                     last_updated_at |-> None["last_updated_at"]]
  <1>1. None = [c \in Columns |-> None[c]] /\ \A c \in Columns : None[c] \in ValuesOf(c)
    BY DEF IsRow, IsChange
  <1>2. /\ None["name"] \in Names /\ None["description"] \in Texts \cup {None}
        /\ None["documentation"] \in Texts \cup {None}
        /\ None["schedule_type"] \in Schedules \cup {None}
        /\ None["tables"] \in TableLists /\ None["team"] \in Teams \cup {None}
        /\ None["created_by"] \in Users /\ None["last_updated_by"] \in Users
        /\ None["last_updated_at"] \in Stamps
    BY <1>1 DEF ValuesOf, Columns, BodyColumns, EditColumns, TextFields
  <1>3. None = rec
    BY <1>1 DEF Columns, BodyColumns, EditColumns, TextFields
  <1>4. rec \in [name : Names, description : Texts \cup {None},
                 documentation : Texts \cup {None}, schedule_type : Schedules \cup {None},
                 tables : TableLists, team : Teams \cup {None}, created_by : Users,
                 last_updated_by : Users, last_updated_at : Stamps]
    BY <1>2
  <1>5. QED
    BY <1>3, <1>4

\* A session changes only columns it was asked to assign, to the asked value.
LEMMA ChangesFacts ==
    ASSUME NEW r \in Requests
    PROVE  /\ DOMAIN Changes(r) \subseteq DOMAIN call[r].wanted
           /\ \A c \in DOMAIN Changes(r) : Changes(r)[c] = call[r].wanted[c]
           /\ Changes(r) = [c \in DOMAIN Changes(r) |-> Changes(r)[c]]
           /\ loaded[r] = None => DOMAIN Changes(r) = DOMAIN call[r].wanted
           /\ \A c \in DOMAIN call[r].wanted :
                 loaded[r] # None /\ call[r].wanted[c] # loaded[r][c] => c \in DOMAIN Changes(r)
  BY DEF Changes

\* What a request has written depends on its own call and loaded row only.
LEMMA DerivedFrame ==
    ASSUME NEW r \in Requests, call'[r] = call[r], loaded'[r] = loaded[r]
    PROVE  /\ Changes(r)' = Changes(r)
           /\ Drafts(r)' = Drafts(r)
           /\ Renames(r)' <=> Renames(r)
           /\ Exclusive(r)' <=> Exclusive(r)
  <1>1. Changes(r)' = Changes(r)
    BY DEF Changes
  <1>2. \A f, s : Draft(r, f, s)' = Draft(r, f, s)
    BY DEF Draft
  <1>3. Drafts(r)' = Drafts(r)
    BY <1>1, <1>2 DEF Drafts
  <1>4. QED
    BY <1>1, <1>3 DEF Renames, Exclusive


-----------------------------------------------------------------------------
(* What a step can be                                                      *)

\* A step of r that writes nothing and moves r to l.
Moves(r, l) ==
    \/ l = "done"
    \/ pc[r] = "load" /\ ReadsNothing(r) /\ l = AfterLoad(call[r].op)
    \/ /\ pc[r] = "revision" /\ l = "snapshot"
       /\ call[r].revision \in revisions
       /\ call[r].revision.product = call[r].product
    \/ /\ pc[r] = "snapshot" /\ l = "write"
       /\ SnapshotBlockers(r) = {}
       /\ Drafts(r) = {} \/ products[call[r].product] # None
    \/ /\ pc[r] = "write" /\ l = IF Renames(r) THEN "claim" ELSE "commit"
       /\ call[r].op = "delete" \/ DOMAIN Changes(r) # {} =>
             WriteBlockers(r) = {} /\ products[call[r].product] # None
    \/ /\ pc[r] = "claim" /\ l = "commit"
       /\ NameBlockers(r) = {} /\ ~ NameTaken(r)

Quiet(r, l) ==
    /\ Moves(r, l)
    /\ pc' = [pc EXCEPT ![r] = l]
    /\ UNCHANGED <<products, revisions, born, call, loaded>>

\* The successful branch of LoadProduct.
LoadsRow(r) ==
    /\ pc[r] = "load" /\ ~ ReadsNothing(r)
    /\ products[call[r].product] # None
    /\ loaded' = [loaded EXCEPT ![r] = IF loaded[r] = None
                                       THEN products[call[r].product] ELSE loaded[r]]
    /\ pc' = [pc EXCEPT ![r] = AfterLoad(call[r].op)]
    /\ UNCHANGED <<products, revisions, born, call, answer>>

Ends(r, l) == Commit(r) /\ pc' = [pc EXCEPT ![r] = l] /\ l \in {"committed", "done"}

\* An arrival that is not refused, with a well-shaped call c.
Arrives(r, c) ==
    /\ pc[r] = "idle"
    /\ CallShape(r, c) /\ c # Idle
    /\ call' = [call EXCEPT ![r] = c]
    /\ UNCHANGED <<products, revisions, born>>
    /\ \/ /\ c.op = "create" /\ c.product \notin born
          /\ \A s \in Requests : call[s].op = "create" => call[s].product # c.product
          /\ pc' = [pc EXCEPT ![r] = "claim"]
          /\ UNCHANGED <<loaded, answer>>
       \/ /\ c.op \in Edits /\ c.product \in born
          /\ Authorize(r, c.user, c.product)

\* What update_metadata assigns is well-typed: what the body gives, and two stamps.
LEMMA MetadataFacts ==
    ASSUME NEW r \in Requests, NEW u \in Users, NEW patch,
           IsChange(Given(patch), EditColumns)
    PROVE  /\ IsChange(Metadata(r, u, patch),
                       EditColumns \cup {"last_updated_by", "last_updated_at"})
           /\ DOMAIN Metadata(r, u, patch)
                 = DOMAIN Given(patch) \cup {"last_updated_by", "last_updated_at"}
  <1> DEFINE w == Metadata(r, u, patch)
  <1>1. /\ DOMAIN Given(patch) \subseteq EditColumns
        /\ \A c \in DOMAIN Given(patch) : Given(patch)[c] \in ValuesOf(c)
    BY DEF IsChange
  <1>2. DOMAIN w = DOMAIN Given(patch) \cup {"last_updated_by", "last_updated_at"}
    BY DEF Metadata
  <1>3. w["last_updated_by"] = u /\ w["last_updated_at"] = r
    BY DEF Metadata
  <1>4. \A c \in DOMAIN Given(patch) : w[c] = Given(patch)[c]
    BY <1>1 DEF Metadata, EditColumns, TextFields
  <1>5. u \in ValuesOf("last_updated_by") /\ r \in ValuesOf("last_updated_at")
    BY DEF ValuesOf, Stamps
  <1>6. w = [c \in DOMAIN w |-> w[c]]
    BY DEF Metadata
  <1>7. IsChange(w, EditColumns \cup {"last_updated_by", "last_updated_at"})
    BY <1>1, <1>2, <1>3, <1>4, <1>5, <1>6 DEF IsChange
  <1>8. QED
    BY <1>2, <1>3, <1>4, <1>7

\* Every handler step is one of these kinds.
LEMMA StepKinds ==
    ASSUME TypeOK, NEW r \in Requests, Begin(r) \/ Step(r) \/ CommitLost(r) \/ Fail(r)
                                         \/ DeadlockVictim(r)
    PROVE  \/ \E c : Arrives(r, c)
           \/ LoadsRow(r)
           \/ \E l \in Labels : Quiet(r, l)
           \/ \E l \in Labels : Ends(r, l)
  <1> USE DEF NoWrite, Goto, Answer, Abort, Labels
  <1>1. CASE Begin(r)
    <2>1. ASSUME NEW u \in Users, NEW chosen \in Teams \cup {None}, RefuseCreate(r, u, chosen)
          PROVE  Quiet(r, "done")
      BY <2>1 DEF RefuseCreate, Quiet, Moves
    <2>2. ASSUME NEW u \in Users, NEW chosen \in Teams \cup {None},
                 NEW body \in NewProducts, NEW p \in Products,
                 BeginCreate(r, u, chosen, body, p)
          PROVE  \E c : Arrives(r, c)
      <3>1. PICK team \in TeamChoices(u, chosen) :
              call' = [call EXCEPT ![r] =
                 [op |-> "create", user |-> u, product |-> p, revision |-> None,
                  wanted |-> [c \in Columns |->
                    CASE c = "team"            -> team
                      [] c = "created_by"      -> u
                      [] c = "last_updated_by" -> u
                      [] c = "last_updated_at" -> r
                      [] c = "tables"          -> Dedupe(body["tables"])
                      [] OTHER                 -> body[c]]]]
        BY <2>2 DEF BeginCreate
      <3> DEFINE w == [c \in Columns |->
                    CASE c = "team"            -> team
                      [] c = "created_by"      -> u
                      [] c = "last_updated_by" -> u
                      [] c = "last_updated_at" -> r
                      [] c = "tables"          -> Dedupe(body["tables"])
                      [] OTHER                 -> body[c]]
                 cc == [op |-> "create", user |-> u, product |-> p, revision |-> None,
                        wanted |-> w]
      <3>2. team \in Teams \cup {None}
        BY UsersAssumption DEF TeamChoices
      <3>3. /\ w["team"] = team /\ w["created_by"] = u /\ w["last_updated_by"] = u
            /\ w["last_updated_at"] = r /\ w["tables"] = Dedupe(body["tables"])
            /\ \A c \in EditColumns : w[c] = body[c]
        BY DEF Columns, BodyColumns, EditColumns, TextFields
      <3>4. IsChange(body, BodyColumns) /\ DOMAIN body = BodyColumns
        BY BodiesAssumption
      <3>5. /\ body["tables"] \in TableLists
            /\ \A c \in EditColumns : body[c] \in ValuesOf(c)
        BY <3>4 DEF IsChange, BodyColumns, ValuesOf
      <3>6. Dedupe(body["tables"]) \in TableLists
        BY <3>5, BodiesAssumption
      <3>7. \A c \in Columns : w[c] \in ValuesOf(c)
        <4>1. /\ w["team"] \in ValuesOf("team") /\ w["created_by"] \in ValuesOf("created_by")
              /\ w["last_updated_by"] \in ValuesOf("last_updated_by")
              /\ w["last_updated_at"] \in ValuesOf("last_updated_at")
              /\ w["tables"] \in ValuesOf("tables")
          BY <3>2, <3>3, <3>6 DEF ValuesOf, Stamps
        <4>2. QED
          BY <4>1, <3>3, <3>5 DEF Columns, BodyColumns
      <3>8. IsRow(w)
        BY <3>7 DEF IsRow, IsChange
      <3>9. MayEdit(u, w)
        <4>1. CASE chosen # None
          BY <3>1, <3>3, <4>1 DEF TeamChoices, MayEdit
        <4>2. CASE chosen = None /\ TeamsOf[u] = {}
          BY <3>1, <3>3, <4>2 DEF TeamChoices, MayEdit
        <4>3. CASE chosen = None /\ TeamsOf[u] # {}
          <5>1. team \in TeamsOf[u] /\ team \in Teams
            BY <3>1, <4>3, UsersAssumption DEF TeamChoices
          <5>2. team # None /\ SameTeam(team, TeamsOf[u])
            BY <5>1 DEF SameTeam
          <5>3. QED
            BY <3>3, <5>2 DEF MayEdit
        <4>4. QED
          BY <4>1, <4>2, <4>3
      <3>10. /\ pc[r] = "idle" /\ p \notin born
             /\ \A s \in Requests : call[s].op = "create" => call[s].product # p
             /\ call' = [call EXCEPT ![r] = cc] /\ pc' = [pc EXCEPT ![r] = "claim"]
             /\ UNCHANGED <<products, revisions, born, loaded, answer>>
        BY <2>2, <3>1 DEF BeginCreate
      <3> HIDE DEF w
      <3>11. CallShape(r, cc) /\ cc # Idle
        BY <3>3, <3>8, <3>9 DEF CallShape, Idle
      <3>12. Arrives(r, cc)
        BY <3>10, <3>11 DEF Arrives
      <3>13. QED
        BY <3>12
    <2>3. ASSUME NEW u \in Users, NEW p \in Products, NEW patch \in Patches,
                 BeginUpdate(r, u, p, patch)
          PROVE  \E c : Arrives(r, c)
      <3> DEFINE w == Metadata(r, u, patch)
                 cc == [op |-> "update", user |-> u, product |-> p,
                        wanted |-> w, revision |-> None]
      <3>1. IsChange(Given(patch), EditColumns)
        BY BodiesAssumption
      <3>2. /\ IsChange(w, EditColumns \cup {"last_updated_by", "last_updated_at"})
            /\ {"last_updated_by", "last_updated_at"} \subseteq DOMAIN w
            /\ w["last_updated_by"] = u /\ w["last_updated_at"] = r
        <4>1. IsChange(w, EditColumns \cup {"last_updated_by", "last_updated_at"})
          BY <3>1, MetadataFacts
        <4>2. DOMAIN w = DOMAIN Given(patch) \cup {"last_updated_by", "last_updated_at"}
          BY <3>1, MetadataFacts
        <4>3. w["last_updated_by"] = u
          BY DEF Metadata
        <4>4. w["last_updated_at"] = r
          BY DEF Metadata
        <4>5. QED
          BY <4>1, <4>2, <4>3, <4>4
      <3>3. /\ pc[r] = "idle" /\ p \in born
            /\ call' = [call EXCEPT ![r] = cc]
            /\ Authorize(r, u, p)
            /\ UNCHANGED <<products, revisions, born>>
        BY <2>3 DEF BeginUpdate, BeginEdit
      <3> HIDE DEF w
      <3>4. CallShape(r, cc) /\ cc # Idle
        BY <3>2 DEF CallShape, Idle
      <3>5. Arrives(r, cc)
        BY <3>3, <3>4 DEF Arrives, Edits
      <3>6. QED
        BY <3>5
    <2>4. ASSUME NEW u \in Users, NEW p \in Products, NEW tables \in TableLists,
                 BeginSetTables(r, u, p, tables)
          PROVE  \E c : Arrives(r, c)
      <3> DEFINE w == [c \in {"tables", "last_updated_by"} |->
                          IF c = "tables" THEN Dedupe(tables) ELSE u]
                 cc == [op |-> "set_tables", user |-> u, product |-> p,
                        wanted |-> w, revision |-> None]
      <3>1. /\ w["tables"] \in ValuesOf("tables")
            /\ w["last_updated_by"] \in ValuesOf("last_updated_by")
        BY BodiesAssumption DEF ValuesOf
      <3>2. IsChange(w, {"tables", "last_updated_by"})
        BY <3>1 DEF IsChange
      <3>3. CallShape(r, cc) /\ cc # Idle
        BY <3>2 DEF CallShape, Idle
      <3>4. Arrives(r, cc)
        BY <2>4, <3>3 DEF BeginSetTables, BeginEdit, Arrives, Edits
      <3>5. QED
        BY <3>4
    <2>5. ASSUME NEW u \in Users, NEW p \in Products, NEW v \in revisions,
                 BeginRestore(r, u, p, v)
          PROVE  \E c : Arrives(r, c)
      <3> DEFINE patch == [c \in {v.field} |-> v.content]
                 w == Metadata(r, u, patch)
                 cc == [op |-> "restore", user |-> u, product |-> p,
                        wanted |-> w, revision |-> v]
      <3>1. v \in Revision /\ v.field \in TextFields /\ v.content \in Texts \cup {None}
        BY DEF TypeOK, Revision
      <3>2. /\ v.field \in EditColumns /\ v.field # "name"
            /\ v.content \in ValuesOf(v.field)
        BY <3>1 DEF EditColumns, TextFields, ValuesOf
      <3>3. IsChange(Given(patch), EditColumns)
        BY <3>2 DEF Given, IsChange
      <3>4. DOMAIN Given(patch) = {v.field} /\ Given(patch)[v.field] = v.content
        BY <3>2 DEF Given
      <3> HIDE DEF patch
      <3>5. /\ IsChange(w, EditColumns \cup {"last_updated_by", "last_updated_at"})
            /\ DOMAIN w = {v.field, "last_updated_by", "last_updated_at"}
            /\ w["last_updated_by"] = u /\ w["last_updated_at"] = r
        <4>1. IsChange(w, EditColumns \cup {"last_updated_by", "last_updated_at"})
          BY <3>3, MetadataFacts
        <4>2. DOMAIN w = DOMAIN Given(patch) \cup {"last_updated_by", "last_updated_at"}
          BY <3>3, MetadataFacts
        <4>3. w["last_updated_by"] = u
          BY DEF Metadata
        <4>4. w["last_updated_at"] = r
          BY DEF Metadata
        <4>5. QED
          BY <3>4, <4>1, <4>2, <4>3, <4>4
      <3>6. w[v.field] = v.content
        BY <3>1, <3>4 DEF Metadata, TextFields
      <3> HIDE DEF w
      <3>7. CallShape(r, cc) /\ cc # Idle
        BY <3>1, <3>5, <3>6 DEF CallShape, Idle
      <3>8. /\ pc[r] = "idle" /\ p \in born
            /\ call' = [call EXCEPT ![r] = cc]
            /\ Authorize(r, u, p)
            /\ UNCHANGED <<products, revisions, born>>
        BY <2>5 DEF BeginRestore, BeginEdit, w, patch
      <3>9. Arrives(r, cc)
        BY <3>7, <3>8 DEF Arrives, Edits
      <3>10. QED
        BY <3>9
    <2>6. ASSUME NEW u \in Users, NEW p \in Products, BeginDelete(r, u, p)
          PROVE  \E c : Arrives(r, c)
      <3> DEFINE cc == [op |-> "delete", user |-> u, product |-> p,
                        wanted |-> [c \in {} |-> None], revision |-> None]
      <3>1. CallShape(r, cc) /\ cc # Idle
        BY DEF CallShape, Idle
      <3>2. Arrives(r, cc)
        BY <2>6, <3>1 DEF BeginDelete, BeginEdit, Arrives, Edits
      <3>3. QED
        BY <3>2
    <2>7. QED
      BY <1>1, <2>1, <2>2, <2>3, <2>4, <2>5, <2>6 DEF Begin
  <1>2. CASE SkipLoad(r)
    <2>1. Quiet(r, AfterLoad(call[r].op))
      BY <1>2 DEF SkipLoad, Quiet, Moves
    <2>2. AfterLoad(call[r].op) \in Labels
      BY <1>2 DEF SkipLoad, ReadsNothing, AfterLoad
    <2>3. QED
      BY <2>1, <2>2
  <1>3. CASE LoadProduct(r)
    <2>1. Quiet(r, "done") \/ LoadsRow(r)
      BY <1>3 DEF LoadProduct, LoadsRow, Quiet, Moves
    <2>2. QED
      BY <2>1
  <1>4. CASE FindRevision(r)
    <2>1. Quiet(r, "done") \/ Quiet(r, "snapshot")
      BY <1>4 DEF FindRevision, Quiet, Moves
    <2>2. QED
      BY <2>1
  <1>5. CASE Snapshot(r)
    <2>1. Quiet(r, "done") \/ Quiet(r, "write")
      BY <1>5 DEF Snapshot, Quiet, Moves
    <2>2. QED
      BY <2>1
  <1>6. CASE WriteRow(r)
    <2>1. Quiet(r, "done") \/ Quiet(r, IF Renames(r) THEN "claim" ELSE "commit")
      BY <1>6 DEF WriteRow, Quiet, Moves
    <2>2. QED
      BY <2>1
  <1>7. CASE ClaimName(r)
    <2>1. Quiet(r, "done") \/ Quiet(r, "commit")
      BY <1>7 DEF ClaimName, Quiet, Moves
    <2>2. QED
      BY <2>1
  <1>8. CASE CommitOk(r) \/ CommitLost(r)
    BY <1>8 DEF CommitOk, CommitLost, Ends
  <1>9. CASE Respond(r) \/ Fail(r) \/ DeadlockVictim(r)
    <2>1. Quiet(r, "done")
      BY <1>9 DEF Respond, Fail, DeadlockVictim, Quiet, Moves
    <2>2. QED
      BY <2>1
  <1>10. QED
    BY <1>1, <1>2, <1>3, <1>4, <1>5, <1>6, <1>7, <1>8, <1>9 DEF Step


-----------------------------------------------------------------------------
(* What a step does to its own request and leaves of the others            *)

Kind(r) == \/ \E c : Arrives(r, c)
           \/ LoadsRow(r)
           \/ \E l \in Labels : Quiet(r, l)
           \/ \E l \in Labels : Ends(r, l)

\* A step of r changes nothing another request has read, written or locked.
LEMMA OthersFrame ==
    ASSUME TypeOK, NEW r \in Requests, Kind(r), NEW s \in Requests \ {r}
    PROVE  /\ pc'[s] = pc[s] /\ call'[s] = call[s] /\ loaded'[s] = loaded[s]
           /\ Changes(s)' = Changes(s) /\ Drafts(s)' = Drafts(s)
           /\ Renames(s)' <=> Renames(s)
           /\ Exclusive(s)' <=> Exclusive(s)
           /\ HoldsKeyShare(s)' <=> HoldsKeyShare(s)
           /\ Written(s)' <=> Written(s)
           /\ Claimed(s)' <=> Claimed(s)
  <1>1. pc'[s] = pc[s] /\ call'[s] = call[s] /\ loaded'[s] = loaded[s]
    <2>1. ASSUME NEW c, Arrives(r, c)
          PROVE  pc'[s] = pc[s] /\ call'[s] = call[s] /\ loaded'[s] = loaded[s]
      BY <2>1 DEF Arrives, Authorize, Answer, Goto, TypeOK
    <2>2. CASE LoadsRow(r)
      BY <2>2 DEF LoadsRow, TypeOK
    <2>3. ASSUME NEW l \in Labels, Quiet(r, l) \/ Ends(r, l)
          PROVE  pc'[s] = pc[s] /\ call'[s] = call[s] /\ loaded'[s] = loaded[s]
      BY <2>3 DEF Quiet, Ends, Commit, TypeOK
    <2>4. QED
      BY <2>1, <2>2, <2>3 DEF Kind
  <1>2. /\ Changes(s)' = Changes(s) /\ Drafts(s)' = Drafts(s)
        /\ Renames(s)' <=> Renames(s)
        /\ Exclusive(s)' <=> Exclusive(s)
    BY <1>1, DerivedFrame
  <1>3. QED
    BY <1>1, <1>2 DEF HoldsKeyShare, InTransaction, Written, Claimed

\* A step that neither arrives, loads nor commits keeps what r has read.
Keeps(r) ==
    /\ UNCHANGED <<products, revisions, born, call, loaded>>
    /\ Changes(r)' = Changes(r) /\ Drafts(r)' = Drafts(r)
    /\ Renames(r)' <=> Renames(r)
    /\ Exclusive(r)' <=> Exclusive(r)

\* A step that neither locks nor commits leaves the derived state of every request.
LEMMA QuietKeeps ==
    ASSUME NEW r \in Requests, NEW l, Quiet(r, l)
    PROVE  Keeps(r)
  BY DerivedFrame DEF Quiet, Keeps

\* No other step than Snapshot, WriteRow and ClaimName acquires a lock, and each
\* finds nobody in its way.
LEMMA Acquires ==
    ASSUME TypeOK, ControlOK, NEW r \in Requests, Kind(r)
    PROVE  /\ HoldsKeyShare(r)' =>
                 /\ Keeps(r)
                 /\ \/ HoldsKeyShare(r)
                    \/ /\ SnapshotBlockers(r) = {} /\ Drafts(r) # {}
                       /\ products[call[r].product] # None
           /\ Written(r)' =>
                 /\ Keeps(r)
                 /\ \/ Written(r)
                    \/ WriteBlockers(r) = {} /\ products[call[r].product] # None
           /\ Claimed(r)' =>
                 /\ Keeps(r)
                 /\ \/ Claimed(r)
                    \/ NameBlockers(r) = {} /\ ~ NameTaken(r)
  <1>1. ASSUME NEW c, Arrives(r, c)
        PROVE  ~ HoldsKeyShare(r)' /\ ~ Written(r)' /\ ~ Claimed(r)'
    <2>1. call'[r] = c
      BY <1>1 DEF Arrives, TypeOK
    <2>2. CASE c.op = "create"
      <3>1. pc'[r] = "claim"
        BY <1>1, <2>2 DEF Arrives, TypeOK, Edits
      <3>2. Drafts(r)' = {}
        BY <2>1, <2>2 DEF Drafts
      <3>3. QED
        BY <2>1, <2>2, <3>1, <3>2 DEF HoldsKeyShare, Written, Claimed
    <2>3. CASE c.op # "create"
      <3>1. pc'[r] \in {"load", "done"}
        BY <1>1, <2>3 DEF Arrives, Authorize, Answer, Goto, TypeOK
      <3>2. QED
        BY <3>1 DEF HoldsKeyShare, InTransaction, Written, Claimed
    <2>4. QED
      BY <2>2, <2>3
  <1>2. ASSUME LoadsRow(r)
        PROVE  ~ HoldsKeyShare(r)' /\ ~ Written(r)' /\ ~ Claimed(r)'
    <2>1. /\ pc'[r] = AfterLoad(call[r].op) /\ call'[r] = call[r]
          /\ call[r].op \in Edits \ {"delete"}
      BY <1>2 DEF LoadsRow, TypeOK, ControlOK, ControlOf, ReadsNothing
    <2>2. pc'[r] \in {"snapshot", "revision"} \/ (pc'[r] = "write" /\ call[r].op = "set_tables")
      BY <2>1 DEF AfterLoad, Edits
    <2>3. call[r].op = "set_tables" => Drafts(r)' = {}
      BY <2>1 DEF Drafts
    <2>4. QED
      BY <2>2, <2>3 DEF HoldsKeyShare, InTransaction, Written, Claimed
  <1>3. ASSUME NEW l \in Labels, Ends(r, l)
        PROVE  ~ HoldsKeyShare(r)' /\ ~ Written(r)' /\ ~ Claimed(r)'
    <2>1. pc'[r] \in {"committed", "done"}
      BY <1>3 DEF Ends, TypeOK
    <2>2. QED
      BY <2>1 DEF HoldsKeyShare, InTransaction, Written, Claimed
  <1>4. ASSUME NEW l \in Labels, Quiet(r, l)
        PROVE  /\ HoldsKeyShare(r)' =>
                     \/ HoldsKeyShare(r)
                     \/ /\ SnapshotBlockers(r) = {} /\ Drafts(r) # {}
                        /\ products[call[r].product] # None
               /\ Written(r)' =>
                     \/ Written(r)
                     \/ WriteBlockers(r) = {} /\ products[call[r].product] # None
               /\ Claimed(r)' =>
                     \/ Claimed(r)
                     \/ NameBlockers(r) = {} /\ ~ NameTaken(r)
    <2>1. Keeps(r) /\ pc'[r] = l /\ call'[r] = call[r]
      BY <1>4, QuietKeeps DEF Quiet, TypeOK
    <2>2. CASE pc[r] = "load" /\ ReadsNothing(r) /\ l = AfterLoad(call[r].op)
      <3>1. l = "snapshot" \/ (l = "write" /\ call[r].op = "delete")
        BY <2>2 DEF ReadsNothing, AfterLoad
      <3>2. call[r].op = "delete" => Drafts(r)' = {}
        BY <2>1 DEF Drafts
      <3>3. QED
        BY <2>1, <3>1, <3>2 DEF HoldsKeyShare, InTransaction, Written, Claimed
    <2>3. CASE /\ pc[r] = "snapshot" /\ l = "write"
               /\ SnapshotBlockers(r) = {}
               /\ Drafts(r) = {} \/ products[call[r].product] # None
      BY <2>1, <2>3 DEF Keeps, HoldsKeyShare, InTransaction, Written, Claimed
    <2>4. CASE /\ pc[r] = "write" /\ l = IF Renames(r) THEN "claim" ELSE "commit"
               /\ call[r].op = "delete" \/ DOMAIN Changes(r) # {} =>
                     WriteBlockers(r) = {} /\ products[call[r].product] # None
      BY <2>1, <2>4 DEF Keeps, HoldsKeyShare, InTransaction, Written, Claimed
    <2>5. CASE /\ pc[r] = "claim" /\ l = "commit"
               /\ NameBlockers(r) = {} /\ ~ NameTaken(r)
      BY <2>1, <2>5 DEF Keeps, HoldsKeyShare, InTransaction, Written, Claimed
    <2>6. CASE l \in {"done", "snapshot"}
      BY <2>1, <2>6 DEF HoldsKeyShare, InTransaction, Written, Claimed
    <2>7. QED
      BY <1>4, <2>2, <2>3, <2>4, <2>5, <2>6 DEF Quiet, Moves
  <1>5. QED
    BY <1>1, <1>2, <1>3, <1>4, QuietKeeps DEF Kind

-----------------------------------------------------------------------------
(* What a commit does to a row                                             *)

\* A committed row comes from a create of an unborn id, a delete, or an edit of a
\* row that is still there; a new name is one that the request has claimed.
LEMMA CommitEffect ==
    ASSUME TypeOK, ControlOK, FreshIds, LockedRowsExist,
           NEW r \in Requests, NEW l, Ends(r, l), NEW p \in Products,
           products'[p] # products[p]
    PROVE  /\ p = call[r].product
           /\ \/ /\ call[r].op = "create" /\ p \notin born
                 /\ IsRow(products'[p]) /\ products'[p] = call[r].wanted
                 /\ Claimed(r) /\ products'[p]["name"] = Changes(r)["name"]
              \/ /\ call[r].op = "delete" /\ Written(r)
                 /\ products[p] # None /\ products'[p] = None
              \/ /\ call[r].op \in Edits \ {"delete"} /\ Written(r)
                 /\ products[p] # None /\ IsRow(products'[p])
                 /\ products'[p] = Overlay(products[p], Changes(r))
                 /\ products'[p]["team"] = products[p]["team"]
                 /\ products'[p]["created_by"] = products[p]["created_by"]
                 /\ IF Renames(r)
                    THEN Claimed(r) /\ products'[p]["name"] = Changes(r)["name"]
                    ELSE products'[p]["name"] = products[p]["name"]
  <1>1. pc[r] = "commit" /\ Commit(r)
    BY DEF Ends, Commit
  <1>2. CASE CommitCreate(r)
    <2>1. p = call[r].product /\ products'[p] = call[r].wanted /\ call[r].op = "create"
      BY <1>2 DEF CommitCreate, TypeOK
    <2>2. p \notin born /\ loaded[r] = None
      BY <1>1, <2>1 DEF FreshIds, ControlOK, ControlOf
    <2>3. IsRow(call[r].wanted)
      BY <2>1 DEF TypeOK, CallShape, Idle
    <2>4. "name" \in DOMAIN Changes(r) /\ Changes(r)["name"] = call[r].wanted["name"]
      BY <2>2, <2>3, ChangesFacts DEF IsRow, Columns, BodyColumns, EditColumns
    <2>5. QED
      BY <1>1, <2>1, <2>2, <2>3, <2>4 DEF Claimed, Renames
  <1>3. CASE CommitDelete(r)
    <2>1. p = call[r].product /\ products'[p] = None /\ call[r].op = "delete"
      BY <1>3 DEF CommitDelete, TypeOK
    <2>2. Written(r)
      BY <1>1, <2>1 DEF Written
    <2>3. QED
      BY <2>1, <2>2
  <1>4. CASE CommitEdit(r)
    <2>1. /\ p = call[r].product /\ call[r].op \in Edits \ {"delete"}
          /\ DOMAIN Changes(r) # {}
          /\ products'[p] = Overlay(products[p], Changes(r))
      BY <1>4 DEF CommitEdit, TypeOK, Edits
    <2>2. Written(r)
      BY <1>1, <2>1 DEF Written, Edits
    <2>3. products[p] # None /\ IsRow(products[p])
      BY <2>1, <2>2 DEF LockedRowsExist, TypeOK
    <2>4. DOMAIN Changes(r) \subseteq DOMAIN call[r].wanted
          /\ \A c \in DOMAIN Changes(r) : Changes(r)[c] = call[r].wanted[c]
      BY ChangesFacts
    <2>5. /\ DOMAIN call[r].wanted \subseteq
                 EditColumns \cup {"tables", "last_updated_by", "last_updated_at"}
          /\ \A c \in DOMAIN call[r].wanted : call[r].wanted[c] \in ValuesOf(c)
      <3>1. CallShape(r, call[r]) /\ call[r] # Idle
        BY <2>1 DEF TypeOK, Idle, Edits
      <3>2. \/ IsChange(call[r].wanted, EditColumns \cup {"last_updated_by", "last_updated_at"})
            \/ IsChange(call[r].wanted, {"tables", "last_updated_by"})
        BY <2>1, <3>1 DEF CallShape, Edits
      <3>3. QED
        BY <3>2 DEF IsChange
    <2>6. \A c \in DOMAIN Changes(r) : Changes(r)[c] \in ValuesOf(c)
      BY <2>4, <2>5
    <2>7. IsRow(products'[p])
      <3>1. \A c \in Columns : Overlay(products[p], Changes(r))[c] \in ValuesOf(c)
        BY <2>3, <2>6 DEF Overlay, IsRow, IsChange
      <3>2. QED
        BY <2>1, <3>1 DEF Overlay, IsRow, IsChange
    <2>8. /\ products'[p]["team"] = products[p]["team"]
          /\ products'[p]["created_by"] = products[p]["created_by"]
      <3>1. "team" \notin DOMAIN Changes(r) /\ "created_by" \notin DOMAIN Changes(r)
        BY <2>4, <2>5 DEF EditColumns, TextFields
      <3>2. QED
        BY <2>1, <3>1 DEF Overlay, Columns
    <2>9. CASE Renames(r)
      <3>1. products'[p]["name"] = Changes(r)["name"]
        BY <2>1, <2>9 DEF Renames, Overlay, Columns, BodyColumns, EditColumns
      <3>2. QED
        BY <1>1, <2>1, <2>2, <2>3, <2>7, <2>8, <2>9, <3>1 DEF Claimed
    <2>10. CASE ~ Renames(r)
      <3>1. products'[p]["name"] = products[p]["name"]
        BY <2>1, <2>10 DEF Renames, Overlay, Columns, BodyColumns, EditColumns
      <3>2. QED
        BY <2>1, <2>2, <2>3, <2>7, <2>8, <2>10, <3>1
    <2>11. QED
      BY <2>9, <2>10
  <1>5. QED
    BY <1>1, <1>2, <1>3, <1>4 DEF Commit

\* Only a commit changes the tables.
LEMMA OnlyEndsWrite ==
    ASSUME NEW r \in Requests, Kind(r)
    PROVE  \/ UNCHANGED <<products, revisions, born>>
           \/ \E l \in Labels : Ends(r, l)
  BY DEF Kind, Arrives, LoadsRow, Quiet

-----------------------------------------------------------------------------
(* Each part of the invariant is preserved                                 *)

\* Whoever takes a lock finds no conflicting one (SnapshotBlockers, WriteBlockers).
LEMMA LocksCompatibleKept ==
    ASSUME IInv, NEW r \in Requests, Kind(r)
    PROVE  LocksCompatible'
  <1> USE DEF IInv
  <1> SUFFICES ASSUME NEW a \in Requests, NEW b \in Requests,
                      a # b, (call[a].product = call[b].product)', Written(a)'
               PROVE  ~ Written(b)' /\ ~ (Exclusive(a)' /\ HoldsKeyShare(b)')
    BY DEF LocksCompatible
  <1>1. CASE a # r /\ b # r
    BY <1>1, OthersFrame DEF LocksCompatible
  <1>2. CASE a = r
    <2>1. b \in Requests \ {r}
      BY <1>2
    <2>2. Keeps(r) /\ (Written(r) \/ WriteBlockers(r) = {})
      BY <1>2, Acquires
    <2>3. call[a].product = call[b].product
      BY <2>2 DEF Keeps
    <2>4. Written(r) => ~ Written(b) /\ ~ (Exclusive(a) /\ HoldsKeyShare(b))
      BY <1>2, <2>3 DEF LocksCompatible
    <2>5. WriteBlockers(r) = {} => ~ Written(b) /\ ~ (Exclusive(a) /\ HoldsKeyShare(b))
      BY <1>2, <2>1, <2>3 DEF WriteBlockers, Rivals
    <2>6. QED
      BY <1>2, <2>1, <2>2, <2>4, <2>5, OthersFrame DEF Keeps
  <1>3. CASE b = r
    <2>1. a \in Requests \ {r} /\ Written(a) /\ (Exclusive(a)' <=> Exclusive(a))
      BY <1>3, OthersFrame
    <2>2. ASSUME Written(b)' PROVE FALSE
      <3>1. Keeps(r) /\ (Written(r) \/ WriteBlockers(r) = {})
        BY <1>3, <2>2, Acquires
      <3>2. call[a].product = call[b].product
        BY <3>1 DEF Keeps
      <3>3. ~ Written(r)
        BY <1>3, <2>1, <3>2 DEF LocksCompatible
      <3>4. QED
        BY <1>3, <2>1, <3>1, <3>2, <3>3 DEF WriteBlockers, Rivals
    <2>3. ASSUME Exclusive(a)', HoldsKeyShare(b)' PROVE FALSE
      <3>1. Keeps(r) /\ (HoldsKeyShare(r) \/ (SnapshotBlockers(r) = {} /\ Drafts(r) # {}))
        BY <1>3, <2>3, Acquires
      <3>2. call[a].product = call[b].product
        BY <3>1 DEF Keeps
      <3>3. ~ HoldsKeyShare(r)
        BY <1>3, <2>1, <2>3, <3>2 DEF LocksCompatible
      <3>4. QED
        BY <1>3, <2>1, <2>3, <3>1, <3>2, <3>3 DEF SnapshotBlockers, Rivals
    <2>4. QED
      BY <2>2, <2>3
  <1>4. QED
    BY <1>1, <1>2, <1>3

\* Nobody deletes a row another request has locked.
LEMMA LockedRowsExistKept ==
    ASSUME IInv, NEW r \in Requests, Kind(r)
    PROVE  LockedRowsExist'
  <1> USE DEF IInv
  <1> SUFFICES ASSUME NEW a \in Requests, HoldsKeyShare(a)' \/ Written(a)'
               PROVE  (products[call[a].product])' # None
    BY DEF LockedRowsExist
  <1>1. CASE a = r
    <2>1. Keeps(r) /\ products[call[r].product] # None
      BY <1>1, Acquires DEF LockedRowsExist
    <2>2. QED
      BY <1>1, <2>1 DEF Keeps
  <1>2. CASE a # r
    <2> DEFINE p == call[a].product
    <2>1. /\ HoldsKeyShare(a) \/ Written(a)
          /\ call'[a] = call[a]
      BY <1>2, OthersFrame
    <2>2. products[p] # None
      BY <2>1 DEF LockedRowsExist
    <2>3. p \in Products
      <3>1. call[a].op # "none"
        BY <2>1 DEF HoldsKeyShare, Written, InTransaction, ControlOK, ControlOf, Edits
      <3>2. QED
        BY <3>1 DEF TypeOK, CallShape, Idle
    <2>4. ASSUME products'[p] = None PROVE FALSE
      <3>1. PICK l \in Labels : Ends(r, l)
        BY <2>2, <2>4, OnlyEndsWrite
      <3>2. /\ p = call[r].product
            /\ call[r].op = "delete" /\ Written(r)
        BY <2>2, <2>3, <2>4, <3>1, CommitEffect, RowsExist
      <3>3. QED
        BY <1>2, <2>1, <3>2 DEF LocksCompatible, Exclusive
    <2>5. QED
      BY <2>1, <2>4
  <1>3. QED
    BY <1>1, <1>2

\* What the claimed name of r is to the rest, for r that claims it in this step
\* or claimed it before.
LEMMA ClaimedNamesFreeKept ==
    ASSUME IInv, NEW r \in Requests, Kind(r)
    PROVE  ClaimedNamesFree'
  <1> USE DEF IInv
  <1> SUFFICES ASSUME NEW a \in Requests, Claimed(a)'
               PROVE  /\ ~ NameTaken(a)'
                      /\ \A s \in Requests \ {a} :
                            Claimed(s)' => Changes(s)'["name"] # Changes(a)'["name"]
    BY DEF ClaimedNamesFree
  <1>1. CASE a = r
    <2>1. Keeps(r) /\ (Claimed(r) \/ (NameBlockers(r) = {} /\ ~ NameTaken(r)))
      BY <1>1, Acquires
    <2>2. ~ NameTaken(r)
      BY <2>1 DEF ClaimedNamesFree
    <2>3. ~ NameTaken(a)'
      BY <1>1, <2>1, <2>2 DEF NameTaken, Keeps
    <2>4. ASSUME NEW s \in Requests \ {a}, Claimed(s)'
          PROVE  Changes(s)'["name"] # Changes(a)'["name"]
      <3>1. Claimed(s) /\ Changes(s)' = Changes(s)
        BY <1>1, <2>4, OthersFrame
      <3>2. Changes(s)["name"] # Changes(a)["name"]
        BY <1>1, <2>1, <3>1 DEF ClaimedNamesFree, NameBlockers
      <3>3. QED
        BY <1>1, <2>1, <3>1, <3>2 DEF Keeps
    <2>5. QED
      BY <2>3, <2>4
  <1>2. CASE a # r
    <2>1. Claimed(a) /\ Changes(a)' = Changes(a) /\ call'[a] = call[a]
      BY <1>2, OthersFrame
    <2>2. ~ NameTaken(a)'
      <3>1. SUFFICES ASSUME NEW q \in Products \ {call[a].product},
                            products'[q] # None,
                            products'[q]["name"] = Changes(a)["name"]
                     PROVE  FALSE
        BY <2>1 DEF NameTaken
      <3>2. ~ (products[q] # None /\ products[q]["name"] = Changes(a)["name"])
        BY <2>1 DEF ClaimedNamesFree, NameTaken
      <3>3. PICK l \in Labels : Ends(r, l)
        BY <3>1, <3>2, OnlyEndsWrite
      <3>4. Claimed(r) /\ products'[q]["name"] = Changes(r)["name"]
        BY <3>1, <3>2, <3>3, CommitEffect
      <3>5. QED
        BY <1>2, <2>1, <3>1, <3>4 DEF ClaimedNamesFree
    <2>3. ASSUME NEW s \in Requests \ {a}, Claimed(s)'
          PROVE  Changes(s)'["name"] # Changes(a)'["name"]
      <3>1. CASE s # r
        BY <1>2, <2>1, <2>3, <3>1, OthersFrame DEF ClaimedNamesFree
      <3>2. CASE s = r
        <4>1. Keeps(r) /\ (Claimed(r) \/ NameBlockers(r) = {})
          BY <2>3, <3>2, Acquires
        <4>2. Changes(s)["name"] # Changes(a)["name"]
          BY <1>2, <2>1, <3>2, <4>1 DEF ClaimedNamesFree, NameBlockers
        <4>3. QED
          BY <2>1, <3>2, <4>1, <4>2 DEF Keeps
      <3>3. QED
        BY <3>1, <3>2
    <2>4. QED
      BY <2>2, <2>3
  <1>3. QED
    BY <1>1, <1>2

\* A committed name was claimed, so it is no other row's.
LEMMA UniqueNamesKept ==
    ASSUME IInv, NEW r \in Requests, Kind(r)
    PROVE  UniqueNames'
  <1> USE DEF IInv
  \* A product whose name a commit set has it to itself.
  <1>1. ASSUME NEW p \in Products, NEW q \in Products, p # q,
               products'[p] # None, products'[q] # None,
               products'[p] # products[p], products'[q] = products[q],
               products'[p]["name"] = products'[q]["name"]
        PROVE  FALSE
    <2>1. PICK l \in Labels : Ends(r, l)
      BY <1>1, OnlyEndsWrite
    <2>2. p = call[r].product
      BY <1>1, <2>1, CommitEffect
    <2>3. CASE Claimed(r) /\ products'[p]["name"] = Changes(r)["name"]
      BY <1>1, <2>2, <2>3 DEF ClaimedNamesFree, NameTaken
    <2>4. CASE products[p] # None /\ products'[p]["name"] = products[p]["name"]
      BY <1>1, <2>4 DEF UniqueNames
    <2>5. QED
      BY <1>1, <2>1, <2>3, <2>4, CommitEffect
  <1>2. ASSUME NEW p \in Products, NEW q \in Products, p # q
        PROVE  products'[p] = products[p] \/ products'[q] = products[q]
    BY <1>2, OnlyEndsWrite, CommitEffect
  <1>3. QED
    BY <1>1, <1>2 DEF UniqueNames

\* What r inserts is about the product it locks.
LEMMA DraftsOfCall ==
    ASSUME NEW r \in Requests, NEW v \in Drafts(r)
    PROVE  /\ v.product = call[r].product /\ v.request = r
           /\ call[r].op \in {"update", "restore"}
  BY DEF Drafts, Draft

\* A committed revision's product is locked, and a delete takes its revisions along.
LEMMA RevisionsHaveProductKept ==
    ASSUME IInv, NEW r \in Requests, Kind(r)
    PROVE  RevisionsHaveProduct'
  <1> USE DEF IInv
  <1> SUFFICES ASSUME NEW v \in revisions', products'[v.product] = None
               PROVE  FALSE
    BY DEF RevisionsHaveProduct
  <1>1. CASE UNCHANGED <<products, revisions, born>>
    BY <1>1 DEF RevisionsHaveProduct
  <1>2. ASSUME NEW l \in Labels, Ends(r, l) PROVE FALSE
    <2>1. CASE v \in revisions
      <3>1. v.product \in Products /\ products[v.product] # None
        BY <2>1 DEF RevisionsHaveProduct, TypeOK, Revision
      <3>2. v.product = call[r].product /\ call[r].op = "delete"
        BY <1>2, <3>1, CommitEffect, RowsExist
      <3>3. QED
        BY <1>2, <3>2 DEF Ends, Commit, CommitCreate, CommitDelete, CommitEdit
    <2>2. CASE v \notin revisions
      <3>1. v \in Drafts(r) /\ call[r].op # "delete"
        BY <1>2, <2>2 DEF Ends, Commit, CommitCreate, CommitDelete, CommitEdit
      <3>2. HoldsKeyShare(r)
        BY <1>2, <3>1 DEF Ends, Commit, HoldsKeyShare, InTransaction
      <3>3. v.product = call[r].product /\ products[v.product] # None
        BY <3>1, <3>2, DraftsOfCall DEF LockedRowsExist
      <3>4. v.product \in Products
        BY <3>1, <3>3, DraftsOfCall DEF TypeOK, CallShape, Idle
      <3>5. QED
        BY <1>2, <3>1, <3>3, <3>4, CommitEffect, RowsExist
    <2>3. QED
      BY <2>1, <2>2
  <1>3. QED
    BY <1>1, <1>2, OnlyEndsWrite

\* A creation takes an id nobody has, and only its own commit makes it known.
LEMMA FreshIdsKept ==
    ASSUME IInv, NEW r \in Requests, Kind(r)
    PROVE  FreshIds'
  <1> USE DEF IInv
  <1>1. ASSUME NEW c, Arrives(r, c) PROVE FreshIds'
    <2>1. /\ UNCHANGED <<products, revisions, born>>
          /\ call'[r] = c /\ c.op \in Edits \cup {"create"}
          /\ c.op \in Edits => c.product \in born
          /\ c.op = "create" => c.product \notin born
          /\ c.op = "create" =>
                \A s \in Requests : call[s].op = "create" => call[s].product # c.product
      BY <1>1 DEF Arrives, TypeOK, Edits
    <2>2. \A s \in Requests \ {r} : pc'[s] = pc[s] /\ call'[s] = call[s]
      BY OthersFrame
    <2>3. QED
      BY <2>1, <2>2 DEF FreshIds, Edits
  <1>2. CASE LoadsRow(r)
    <2>1. pc'[r] \notin {"claim", "commit"}
      BY <1>2 DEF LoadsRow, TypeOK, ControlOK, ControlOf, Edits, AfterLoad
    <2>2. \A s \in Requests \ {r} : pc'[s] = pc[s]
      BY OthersFrame
    <2>3. QED
      BY <1>2, <2>1, <2>2 DEF LoadsRow, FreshIds
  <1>3. ASSUME NEW l \in Labels, Quiet(r, l) PROVE FreshIds'
    <2>1. pc'[r] \in {"claim", "commit"} /\ call[r].op = "create" => pc[r] \in {"claim", "commit"}
      BY <1>3 DEF Quiet, Moves, TypeOK, ControlOK, ControlOf, Edits, AfterLoad, ReadsNothing
    <2>2. \A s \in Requests \ {r} : pc'[s] = pc[s]
      BY OthersFrame
    <2>3. UNCHANGED <<products, born, call>>
      BY <1>3 DEF Quiet
    <2>4. QED
      BY <2>1, <2>2, <2>3 DEF FreshIds
  <1>4. ASSUME NEW l \in Labels, Ends(r, l) PROVE FreshIds'
    <2>1. call' = call /\ pc'[r] \notin {"claim", "commit"}
      BY <1>4 DEF Ends, Commit, TypeOK
    <2>2. \A s \in Requests \ {r} : pc'[s] = pc[s]
      BY OthersFrame
    <2>3. /\ born' = IF call[r].op = "create" THEN born \cup {call[r].product} ELSE born
      BY <1>4 DEF Ends, Commit, CommitCreate, CommitDelete, CommitEdit
    <2>4. \A p \in Products : products'[p] # None => p \in born'
      BY <1>4, <2>3, CommitEffect DEF FreshIds
    <2>5. QED
      BY <2>1, <2>2, <2>3, <2>4 DEF FreshIds
  <1>5. QED
    BY <1>1, <1>2, <1>3, <1>4 DEF Kind

\* No edit touches the columns the permission depends on.
LEMMA PermissionHoldsKept ==
    ASSUME IInv, NEW r \in Requests, Kind(r)
    PROVE  PermissionHolds'
  <1> USE DEF IInv
  <1> SUFFICES ASSUME NEW a \in Requests, pc'[a] \notin {"idle", "done"},
                      call'[a].op \in Edits, products'[call'[a].product] # None
               PROVE  MayEdit(call'[a].user, products'[call'[a].product])
    BY DEF PermissionHolds, MayEdit
  \* Neither team nor creator of a row ever changes, so neither does its answer.
  <1>1. ASSUME call'[a] = call[a], pc[a] \notin {"idle", "done"}
        PROVE  MayEdit(call'[a].user, products'[call'[a].product])
    <2> DEFINE p == call[a].product
    <2>1. p \in born /\ p \in Products
      BY <1>1 DEF FreshIds, TypeOK
    <2>2. products[p] # None => MayEdit(call[a].user, products[p])
      BY <1>1 DEF PermissionHolds
    <2>3. CASE products'[p] = products[p]
      BY <1>1, <2>2, <2>3
    <2>4. CASE products'[p] # products[p]
      <3>1. PICK l \in Labels : Ends(r, l)
        BY <2>4, OnlyEndsWrite
      <3>2. /\ products[p] # None
            /\ products'[p]["team"] = products[p]["team"]
            /\ products'[p]["created_by"] = products[p]["created_by"]
        BY <1>1, <2>1, <2>4, <3>1, CommitEffect
      <3>3. QED
        BY <1>1, <2>2, <3>2 DEF MayEdit
    <2>5. QED
      BY <2>3, <2>4
  <1>2. CASE a # r
    BY <1>1, <1>2, OthersFrame
  <1>3. ASSUME a = r, NEW c, Arrives(r, c)
        PROVE  MayEdit(call'[a].user, products'[call'[a].product])
    <2>1. call'[a] = c /\ products' = products
      BY <1>3 DEF Arrives, TypeOK
    <2>2. Authorize(r, c.user, c.product) /\ pc'[r] # "done"
      BY <1>3, <2>1 DEF Arrives, Edits
    <2>3. QED
      BY <1>3, <2>1, <2>2 DEF Authorize, Answer, Goto, TypeOK, MayEdit
  <1>4. ASSUME a = r, ~ \E c : Arrives(r, c)
        PROVE  MayEdit(call'[a].user, products'[call'[a].product])
    <2>1. call' = call
      BY <1>4 DEF Kind, LoadsRow, Quiet, Ends, Commit
    <2>2. pc[r] # "idle" /\ pc[r] # "done"
      BY <1>4, <2>1 DEF Kind, LoadsRow, Quiet, Moves, Ends, Commit, ControlOK, ControlOf, Edits, TypeOK
    <2>3. QED
      BY <1>1, <1>4, <2>1, <2>2
  <1>5. QED
    BY <1>2, <1>3, <1>4

\* A revision goes with its product only, and the id of a deleted product is not
\* used again.
LEMMA RestoresOwnRevisionKept ==
    ASSUME IInv, NEW r \in Requests, Kind(r)
    PROVE  RestoresOwnRevision'
  <1> USE DEF IInv
  <1> SUFFICES ASSUME NEW a \in Requests, call'[a].op = "restore",
                      pc'[a] \in {"snapshot", "write", "claim", "commit"},
                      products'[call'[a].product] # None
               PROVE  /\ call'[a].revision \in revisions'
                      /\ call'[a].revision.product = call'[a].product
    BY DEF RestoresOwnRevision
  <1> DEFINE p == call[a].product
             v == call[a].revision
  \* The tables lose the revision of no product that stays.
  <1>1. ASSUME call'[a] = call[a], v \in revisions, v.product = p
        PROVE  v \in revisions'
    <2>1. CASE UNCHANGED <<products, revisions, born>>
      BY <1>1, <2>1
    <2>2. ASSUME NEW l \in Labels, Ends(r, l), v \notin revisions'
          PROVE  FALSE
      <3>1. CommitDelete(r) /\ p = call[r].product
        BY <1>1, <2>2 DEF Ends, Commit, CommitCreate, CommitDelete, CommitEdit
      <3>2. call[r].product \in Products
        BY <3>1 DEF CommitDelete, TypeOK, CallShape, Idle
      <3>3. products'[p] = None
        BY <3>1, <3>2 DEF CommitDelete, TypeOK
      <3>4. QED
        BY <1>1, <3>3
    <2>3. QED
      BY <2>1, <2>2, OnlyEndsWrite
  \* A product that is there was there before.
  <1>2. ASSUME call'[a] = call[a] PROVE products[p] # None
    <2>1. p \in born /\ p \in Products
      BY <1>2 DEF FreshIds, Edits, TypeOK
    <2>2. CASE products'[p] = products[p]
      BY <1>2, <2>2
    <2>3. CASE products'[p] # products[p]
      BY <2>1, <2>3, OnlyEndsWrite, CommitEffect
    <2>4. QED
      BY <2>2, <2>3
  <1>3. CASE a # r
    BY <1>1, <1>2, <1>3, OthersFrame DEF RestoresOwnRevision
  <1>4. CASE a = r
    <2>1. ASSUME NEW c, Arrives(r, c) PROVE FALSE
      <3>1. pc'[r] \in {"load", "done"} \/ call'[r].op = "create"
        BY <2>1 DEF Arrives, Authorize, Answer, Goto, TypeOK
      <3>2. QED
        BY <1>4, <3>1
    <2>2. ASSUME LoadsRow(r) PROVE FALSE
      <3>1. pc'[r] = AfterLoad(call[r].op) /\ call'[r] = call[r]
        BY <2>2 DEF LoadsRow, TypeOK
      <3>2. QED
        BY <1>4, <3>1 DEF AfterLoad
    <2>3. ASSUME NEW l \in Labels, Ends(r, l) PROVE FALSE
      BY <1>4, <2>3 DEF Ends, TypeOK
    <2>4. ASSUME NEW l \in Labels, Quiet(r, l)
          PROVE  /\ call'[a].revision \in revisions'
                 /\ call'[a].revision.product = call'[a].product
      <3>1. Keeps(r) /\ pc'[r] = l /\ Moves(r, l)
        BY <2>4, QuietKeeps DEF Quiet, TypeOK
      <3>2. CASE pc[r] \in {"snapshot", "write", "claim"}
        BY <1>4, <3>1, <3>2 DEF Keeps, RestoresOwnRevision
      <3>3. CASE pc[r] = "load" /\ ReadsNothing(r)
        BY <1>4, <3>1, <3>3 DEF Keeps, ReadsNothing
      <3>4. CASE pc[r] = "revision" /\ l = "snapshot"
        BY <1>4, <3>1, <3>4 DEF Keeps, Moves
      <3>5. QED
        BY <1>4, <3>1, <3>2, <3>3, <3>4 DEF Moves
    <2>5. QED
      BY <2>1, <2>2, <2>3, <2>4 DEF Kind
  <1>5. QED
    BY <1>3, <1>4

\* Each step takes its request to a statement its operation has.
LEMMA ControlOKKept ==
    ASSUME IInv, NEW r \in Requests, Kind(r)
    PROVE  ControlOK'
  <1> USE DEF IInv
  <1>1. \A s \in Requests : ControlOf(s)
    BY DEF ControlOK
  <1>2. ASSUME NEW s \in Requests \ {r} PROVE ControlOf(s)'
    BY <1>1, <1>2, OthersFrame DEF ControlOf
  <1>3. ASSUME NEW c, Arrives(r, c) PROVE ControlOf(r)'
    <2>1. pc[r] = "idle" /\ loaded[r] = None /\ call'[r] = c
      BY <1>1, <1>3 DEF Arrives, ControlOf, TypeOK
    <2>2. CASE c.op = "create"
      <3>1. pc'[r] = "claim" /\ loaded'[r] = None
        BY <1>3, <2>1, <2>2 DEF Arrives, TypeOK, Edits
      <3>2. "name" \in DOMAIN c.wanted
        BY <1>3, <2>2 DEF Arrives, CallShape, Idle, IsRow, Columns, BodyColumns, EditColumns
      <3>3. Renames(r)'
        BY <2>1, <3>1, <3>2 DEF Renames, Changes
      <3>4. QED
        BY <2>1, <2>2, <3>1, <3>3 DEF ControlOf, Edits
    <2>3. CASE c.op # "create"
      <3>1. c.op \in Edits /\ pc'[r] \in {"load", "done"}
        BY <1>3, <2>3 DEF Arrives, Authorize, Answer, Goto, TypeOK
      <3>2. QED
        BY <2>1, <2>3, <3>1 DEF ControlOf
    <2>4. QED
      BY <2>2, <2>3
  <1>4. ASSUME LoadsRow(r) PROVE ControlOf(r)'
    <2>1. /\ pc'[r] = AfterLoad(call[r].op) /\ call'[r] = call[r]
          /\ call[r].op \in Edits \ {"delete"}
          /\ loaded'[r] # None
      BY <1>4 DEF LoadsRow, TypeOK, ControlOK, ControlOf, ReadsNothing
    <2>2. \/ call[r].op = "update" /\ pc'[r] = "snapshot"
          \/ call[r].op = "restore" /\ pc'[r] = "revision"
          \/ call[r].op = "set_tables" /\ pc'[r] = "write"
      BY <2>1 DEF AfterLoad, Edits
    <2>3. QED
      BY <2>1, <2>2 DEF ControlOf, Edits
  <1>5. ASSUME NEW l \in Labels, Quiet(r, l) PROVE ControlOf(r)'
    <2>1. Keeps(r) /\ pc'[r] = l /\ Moves(r, l)
      BY <1>5, QuietKeeps DEF Quiet, TypeOK
    <2>2. /\ call'[r] = call[r] /\ loaded'[r] = loaded[r]
          /\ Renames(r)' <=> Renames(r)
      BY <2>1 DEF Keeps
    <2>3. QED
      BY <1>1, <2>1, <2>2 DEF ControlOf, Moves, AfterLoad, ReadsNothing, Edits
  <1>6. ASSUME NEW l \in Labels, Ends(r, l) PROVE ControlOf(r)'
    <2>1. pc'[r] \in {"committed", "done"} /\ UNCHANGED <<call, loaded>>
      BY <1>6 DEF Ends, Commit, TypeOK
    <2>2. QED
      BY <1>1, <2>1 DEF ControlOf
  <1>7. ControlOf(r)'
    BY <1>3, <1>4, <1>5, <1>6 DEF Kind
  <1>8. QED
    BY <1>2, <1>7 DEF ControlOK

\* The answers of a request whose transaction committed.
Durables == {"200", "lost_commit", "expired_read"}

\* A step commits, or is the response to a commit, or changes no table and moves
\* its request on or ends it with an error.
LEMMA Outcomes ==
    ASSUME TypeOK, ControlOK, NEW r \in Requests, Begin(r) \/ Step(r) \/ CommitLost(r) \/ Fail(r)
                                         \/ DeadlockVictim(r)
    PROVE  \/ CommitOk(r) \/ CommitLost(r) \/ Respond(r)
           \/ /\ NoWrite /\ pc[r] \notin {"committed", "done"}
              /\ \/ /\ UNCHANGED answer
                    /\ \E l \in Labels \ {"idle", "committed", "done"} : Goto(r, l)
                 \/ \E a \in Codes \ Durables : Answer(r, a)
  <1> DEFINE Silent == UNCHANGED answer
                         /\ \E l \in Labels \ {"idle", "committed", "done"} : Goto(r, l)
             Speaks == \E a \in Codes \ Durables : Answer(r, a)
  <1>1. CASE Begin(r)
    <2>1. pc[r] = "idle" /\ NoWrite /\ (Silent \/ Speaks)
      <3>1. ASSUME NEW u, NEW p, Authorize(r, u, p) PROVE Silent \/ Speaks
        BY <3>1 DEF Authorize, Labels, Codes, Durables
      <3>2. ASSUME NEW u, NEW p, NEW op, NEW w, NEW v, BeginEdit(r, u, p, op, w, v)
            PROVE  pc[r] = "idle" /\ NoWrite /\ (Silent \/ Speaks)
        BY <3>1, <3>2 DEF BeginEdit
      <3>3. ASSUME NEW u, NEW chosen, NEW body, NEW p, BeginCreate(r, u, chosen, body, p)
            PROVE  pc[r] = "idle" /\ NoWrite /\ (Silent \/ Speaks)
        BY <3>3 DEF BeginCreate, Labels
      <3>4. ASSUME NEW u, NEW chosen, RefuseCreate(r, u, chosen)
            PROVE  pc[r] = "idle" /\ NoWrite /\ (Silent \/ Speaks)
        BY <3>4 DEF RefuseCreate, Abort, Codes, Durables
      <3>5. ASSUME NEW u, NEW p, NEW x,
                   BeginUpdate(r, u, p, x) \/ BeginSetTables(r, u, p, x)
                     \/ BeginRestore(r, u, p, x) \/ BeginDelete(r, u, p)
            PROVE  \E op, w, v : BeginEdit(r, u, p, op, w, v)
        BY <3>5 DEF BeginUpdate, BeginSetTables, BeginRestore, BeginDelete
      <3>6. QED
        <4> HIDE DEF Silent, Speaks
        <4>1. QED
          BY <1>1, <3>2, <3>3, <3>4, <3>5 DEF Begin
    <2>2. QED
      BY <2>1
  <1>2. CASE SkipLoad(r) \/ LoadProduct(r)
    <2>1. /\ pc[r] = "load" /\ NoWrite
          /\ Speaks \/ (UNCHANGED answer /\ Goto(r, AfterLoad(call[r].op)))
      BY <1>2 DEF SkipLoad, LoadProduct, Abort, Codes, Durables
    <2>2. AfterLoad(call[r].op) \in Labels \ {"idle", "committed", "done"}
      BY <2>1 DEF AfterLoad, ControlOK, ControlOf, Edits, Labels
    <2>3. QED
      BY <2>1, <2>2
  <1>3. CASE FindRevision(r) \/ Snapshot(r) \/ WriteRow(r) \/ ClaimName(r)
    BY <1>3 DEF FindRevision, Snapshot, WriteRow, ClaimName, Abort, Codes, Durables, Labels
  <1>4. CASE Fail(r)
    BY <1>4 DEF Fail, Abort, Codes, Durables
  <1>5. CASE DeadlockVictim(r)
    <2>1. Blockers(r) # {} /\ Abort(r, "deadlock")
      BY <1>5 DEF DeadlockVictim, WaitCycle, AllWait
    <2>2. pc[r] \in {"snapshot", "write", "claim"}
      BY <2>1 DEF Blockers
    <2>3. QED
      BY <2>1, <2>2 DEF Abort, Codes, Durables
  <1>6. QED
    BY <1>1, <1>2, <1>3, <1>4, <1>5 DEF Step

\* A request is answered once, when it ends, and a request that has changed the
\* tables has committed.
LEMMA Answering ==
    ASSUME TypeOK, ControlOK, NEW r \in Requests, Begin(r) \/ Step(r) \/ CommitLost(r) \/ Fail(r)
                                         \/ DeadlockVictim(r)
    PROVE  /\ pc[r] # "done"
           /\ \/ answer' = answer /\ pc'[r] # "done"
              \/ \E a \in Codes : answer' = [answer EXCEPT ![r] = a] /\ pc'[r] = "done"
           /\ pc[r] = "committed" => answer'[r] \in {"200", "expired_read"}
           /\ products' # products \/ revisions' # revisions =>
                 pc'[r] = "committed" \/ answer'[r] = "lost_commit"
  <1>1. CASE Respond(r)
    BY <1>1 DEF Respond, NoWrite, Answer, Goto, TypeOK, Codes
  <1>2. CASE CommitOk(r) \/ CommitLost(r)
    BY <1>2 DEF CommitOk, CommitLost, Commit, Answer, Goto, TypeOK, Codes
  <1>3. CASE /\ NoWrite /\ pc[r] \notin {"committed", "done"}
             /\ UNCHANGED answer
             /\ \E l \in Labels \ {"idle", "committed", "done"} : Goto(r, l)
    BY <1>3 DEF NoWrite, Goto, TypeOK
  <1>4. CASE /\ NoWrite /\ pc[r] \notin {"committed", "done"}
             /\ \E a \in Codes \ Durables : Answer(r, a)
    BY <1>4 DEF NoWrite, Answer, Goto, TypeOK
  <1>5. QED
    BY <1>1, <1>2, <1>3, <1>4, Outcomes

\* Each step keeps every variable in its type.
LEMMA TypeOKKept ==
    ASSUME IInv, NEW r \in Requests, Kind(r), answer' \in [Requests -> Answers]
    PROVE  TypeOK'
  <1> USE DEF IInv
  <1>1. (DOMAIN products = Products /\ born \subseteq Products)'
    <2>1. ASSUME NEW l \in Labels, Ends(r, l)
          PROVE  DOMAIN products' = Products /\ born' \subseteq Products
      <3>1. call[r].op = "create" => call[r].product \in Products
        BY DEF TypeOK, CallShape, Idle
      <3>2. QED
        BY <2>1, <3>1 DEF Ends, Commit, CommitCreate, CommitDelete, CommitEdit, TypeOK
    <2>2. QED
      BY <2>1, OnlyEndsWrite DEF TypeOK
  <1>2. ASSUME NEW p \in Products PROVE products'[p] = None \/ IsRow(products'[p])
    <2>1. CASE products'[p] = products[p]
      BY <2>1 DEF TypeOK
    <2>2. CASE products'[p] # products[p]
      BY <2>2, OnlyEndsWrite, CommitEffect
    <2>3. QED
      BY <2>1, <2>2
  <1>3. (revisions \subseteq Revision)'
    <2>1. ASSUME NEW l \in Labels, Ends(r, l), NEW v \in Drafts(r) PROVE v \in Revision
      <3>1. pc[r] = "commit" /\ call[r].op \in {"update", "restore"}
        BY <2>1, DraftsOfCall DEF Ends, Commit
      <3>2. IsRow(loaded[r])
        BY <3>1 DEF ControlOK, ControlOf, TypeOK, Edits
      <3>3. /\ call[r].product \in Products /\ call[r].user \in Users
            /\ call[r].op = "restore" => call[r].revision.field \in TextFields
        BY <3>1 DEF TypeOK, CallShape, Idle, Revision
      <3>4. \A f \in TextFields : loaded[r][f] \in Texts \cup {None}
        BY <3>2 DEF IsRow, IsChange, ValuesOf, TextFields, Columns, BodyColumns, EditColumns
      <3>5. PICK f \in TextFields, source \in {"user", "restore"} : v = Draft(r, f, source)
        BY <2>1, <3>1, <3>3 DEF Drafts
      <3>6. QED
        BY <3>3, <3>4, <3>5 DEF Draft, Revision, Stamps
    <2>2. ASSUME NEW l \in Labels, Ends(r, l) PROVE revisions' \subseteq Revision
      BY <2>1, <2>2 DEF Ends, Commit, CommitCreate, CommitDelete, CommitEdit, TypeOK
    <2>3. QED
      BY <2>2, OnlyEndsWrite DEF TypeOK
  <1>4. (pc \in [Requests -> Labels])'
    <2>1. ASSUME NEW c, Arrives(r, c) PROVE pc' \in [Requests -> Labels]
      BY <2>1 DEF Arrives, Authorize, Answer, Goto, TypeOK, Labels
    <2>2. ASSUME LoadsRow(r) PROVE pc' \in [Requests -> Labels]
      <3>1. AfterLoad(call[r].op) \in Labels
        BY <2>2 DEF LoadsRow, ReadsNothing, ControlOK, ControlOf, Edits, AfterLoad, Labels
      <3>2. QED
        BY <2>2, <3>1 DEF LoadsRow, TypeOK
    <2>3. ASSUME NEW l \in Labels, Quiet(r, l) \/ Ends(r, l) PROVE pc' \in [Requests -> Labels]
      BY <2>3 DEF Quiet, Ends, TypeOK
    <2>4. QED
      BY <2>1, <2>2, <2>3 DEF Kind
  <1>5. (DOMAIN call = Requests /\ \A s \in Requests : CallShape(s, call[s]))'
    <2>1. ASSUME NEW c, Arrives(r, c) PROVE DOMAIN call' = Requests /\ CallShape(r, call'[r])
      BY <2>1 DEF Arrives, TypeOK
    <2>2. ASSUME ~ \E c : Arrives(r, c) PROVE call' = call
      BY <2>2 DEF Kind, LoadsRow, Quiet, Ends, Commit
    <2>3. \A s \in Requests \ {r} : call'[s] = call[s]
      BY OthersFrame
    <2>4. \A s \in Requests : CallShape(s, call'[s]) /\ DOMAIN call' = Requests
      BY <2>1, <2>2, <2>3 DEF TypeOK
    <2>5. DOMAIN call' = Requests
      BY <2>1, <2>2 DEF TypeOK
    <2>6. QED
      BY <2>4, <2>5 DEF CallShape
  <1>6. (loaded = [s \in Requests |-> loaded[s]]
          /\ \A s \in Requests : loaded[s] = None \/ IsRow(loaded[s]))'
    <2>1. ASSUME NEW c, Arrives(r, c)
          PROVE  \E x : (x = None \/ IsRow(x)) /\ loaded' = [loaded EXCEPT ![r] = x]
      <3>1. c.product \in Products
        BY <2>1 DEF Arrives, CallShape
      <3>2. loaded = [loaded EXCEPT ![r] = loaded[r]]
        BY DEF TypeOK
      <3>3. loaded' = loaded \/ loaded' = [loaded EXCEPT ![r] = products[c.product]]
        BY <2>1 DEF Arrives, Authorize
      <3>4. QED
        BY <3>1, <3>2, <3>3 DEF TypeOK
    <2>2. ASSUME LoadsRow(r)
          PROVE  \E x : (x = None \/ IsRow(x)) /\ loaded' = [loaded EXCEPT ![r] = x]
      <3>1. call[r].product \in Products
        BY <2>2 DEF LoadsRow, TypeOK, CallShape, Idle, ControlOK, ControlOf, Edits
      <3>2. QED
        BY <2>2, <3>1 DEF LoadsRow, TypeOK
    <2>3. ASSUME NEW l \in Labels, Quiet(r, l) \/ Ends(r, l) PROVE loaded' = loaded
      BY <2>3 DEF Quiet, Ends, Commit
    <2>4. ASSUME NEW x, x = None \/ IsRow(x), loaded' = [loaded EXCEPT ![r] = x]
          PROVE  /\ loaded' = [s \in Requests |-> loaded'[s]]
                 /\ \A s \in Requests : loaded'[s] = None \/ IsRow(loaded'[s])
      BY <2>4 DEF TypeOK
    <2>5. CASE loaded' = loaded
      BY <2>5 DEF TypeOK, IsRow, IsChange
    <2>6. /\ loaded' = [s \in Requests |-> loaded'[s]]
          /\ \A s \in Requests : loaded'[s] = None \/ IsRow(loaded'[s])
      BY <2>1, <2>2, <2>3, <2>4, <2>5 DEF Kind
    <2>7. QED
      BY <2>6 DEF IsRow, IsChange
  <1>7. QED
    BY <1>1, <1>2, <1>3, <1>4, <1>5, <1>6 DEF TypeOK

-----------------------------------------------------------------------------
(* The invariant                                                           *)

\* The invariant holds of the seed.
LEMMA InitIInv == Init => IInv
  <1> SUFFICES ASSUME Init PROVE IInv
    OBVIOUS
  <1> USE DEF Init
  <1>1. TypeOK
    <2>1. \A r \in Requests : CallShape(r, call[r])
      BY DEF CallShape
    <2>2. QED
      BY <2>1, SeedAssumption DEF TypeOK, Labels, Answers, Codes
  <1>2. /\ ControlOK /\ PermissionHolds
    BY DEF ControlOK, ControlOf, PermissionHolds, Idle
  <1>3. FreshIds
    BY DEF FreshIds, Idle, Edits
  <1>4. LocksCompatible /\ LockedRowsExist /\ ClaimedNamesFree
    BY DEF LocksCompatible, LockedRowsExist, ClaimedNamesFree, HoldsKeyShare,
           InTransaction, Written, Claimed
  <1>5. UniqueNames /\ RevisionsHaveProduct /\ RestoresOwnRevision
    BY SeedAssumption DEF UniqueNames, RevisionsHaveProduct, RestoresOwnRevision, Idle
  <1>6. QED
    BY <1>1, <1>2, <1>3, <1>4, <1>5 DEF IInv

\* Every step of a request, and a stutter, keeps the invariant.
LEMMA NextIInv == IInv /\ [Next]_vars => IInv'
  <1> SUFFICES ASSUME IInv, [Next]_vars PROVE IInv'
    OBVIOUS
  <1>1. CASE UNCHANGED vars
    <2> USE <1>1 DEF vars, IInv
    <2>1. ASSUME NEW r \in Requests
          PROVE  /\ Changes(r)' = Changes(r)
                 /\ Renames(r)' <=> Renames(r)
                 /\ Exclusive(r)' <=> Exclusive(r)
                 /\ HoldsKeyShare(r)' <=> HoldsKeyShare(r)
                 /\ Written(r)' <=> Written(r)
                 /\ Claimed(r)' <=> Claimed(r)
      BY DerivedFrame DEF HoldsKeyShare, InTransaction, Written, Claimed
    <2>2. TypeOK'
      <3>1. \A r \in Requests : CallShape(r, call'[r])
        BY DEF TypeOK
      <3>2. \A x : (x = None \/ IsRow(x))' <=> (x = None \/ IsRow(x))
        BY DEF IsRow, IsChange
      <3>3. \A r \in Requests : CallShape(r, call[r])'
        BY <3>1 DEF CallShape
      <3>4. QED
        BY <3>2, <3>3 DEF TypeOK, IsRow, IsChange
    <2>3. ControlOK'
      BY <2>1 DEF ControlOK, ControlOf
    <2>4. FreshIds' /\ UniqueNames' /\ RevisionsHaveProduct' /\ RestoresOwnRevision'
      BY DEF FreshIds, UniqueNames, RevisionsHaveProduct, RestoresOwnRevision
    <2>5. LocksCompatible' /\ LockedRowsExist'
      BY <2>1 DEF LocksCompatible, LockedRowsExist
    <2>6. ClaimedNamesFree'
      BY <2>1 DEF ClaimedNamesFree, NameTaken
    <2>7. PermissionHolds'
      BY DEF PermissionHolds, MayEdit
    <2>8. QED
      BY <2>2, <2>3, <2>4, <2>5, <2>6, <2>7
  <1>2. ASSUME NEW r \in Requests,
               Begin(r) \/ Step(r) \/ CommitLost(r) \/ Fail(r) \/ DeadlockVictim(r)
        PROVE  IInv'
    <2>1. Kind(r) /\ answer' \in [Requests -> Answers]
      BY <1>2, StepKinds, Answering DEF IInv, Kind, TypeOK, Answers
    <2>2. TypeOK' /\ ControlOK' /\ FreshIds'
      BY <2>1, TypeOKKept, ControlOKKept, FreshIdsKept
    <2>3. LocksCompatible' /\ LockedRowsExist' /\ ClaimedNamesFree'
      BY <2>1, LocksCompatibleKept, LockedRowsExistKept, ClaimedNamesFreeKept
    <2>4. /\ PermissionHolds' /\ UniqueNames' /\ RevisionsHaveProduct'
          /\ RestoresOwnRevision'
      BY <2>1, PermissionHoldsKept, UniqueNamesKept, RevisionsHaveProductKept,
         RestoresOwnRevisionKept
    <2>5. QED
      BY <2>2, <2>3, <2>4 DEF IInv
  <1>3. QED
    BY <1>1, <1>2 DEF Next, Terminated

\* The invariant holds in every reachable state, for any requests, users, products
\* and well-formed seed: locks are compatible, claimed names free, permissions
\* still valid when a write commits.
THEOREM Invariance == Spec => []IInv
  BY InitIInv, NextIInv, PTL DEF Spec

-----------------------------------------------------------------------------
(* The properties                                                          *)

\* Every variable keeps its type, for any number of requests of any kind.
THEOREM TypeCorrect == Spec => []TypeOK
  BY Invariance, PTL DEF IInv

\* However creations and renames interleave, no two products share a name.
THEOREM NamesStayUnique == Spec => []UniqueNames
  BY Invariance, PTL DEF IInv

\* However saves, restores and deletes interleave, no revision is left without
\* its product.
THEOREM NoOrphanRevision == Spec => []RevisionsHaveProduct
  BY Invariance, PTL DEF IInv

\* Whoever changes or deletes a row may edit the row as it is at that moment.
THEOREM WritesArePermitted == Spec => OnlyEditorsWrite
  <1>1. ASSUME IInv, [Next]_vars PROVE [\A p \in Products : WrittenByEditor(p)]_vars
    <2>1. SUFFICES ASSUME NEW p \in Products, products[p] # None, products'[p] # products[p]
                   PROVE  \E r \in Requests : Commits(r, p) /\ MayEdit(call[r].user, products[p])
      BY DEF WrittenByEditor
    <2>2. PICK r \in Requests :
             Begin(r) \/ Step(r) \/ CommitLost(r) \/ Fail(r) \/ DeadlockVictim(r)
      BY <1>1, <2>1 DEF Next, Terminated, vars
    <2>3. Kind(r)
      BY <1>1, <2>2, StepKinds DEF IInv, Kind
    <2>4. PICK l \in Labels : Ends(r, l)
      BY <2>1, <2>3, OnlyEndsWrite
    <2>5. p = call[r].product /\ call[r].op \in Edits
      BY <1>1, <2>1, <2>4, CommitEffect DEF IInv, FreshIds, Edits
    <2>6. pc[r] = "commit" /\ Commit(r)
      BY <2>4 DEF Ends, Commit
    <2>7. MayEdit(call[r].user, products[p])
      BY <1>1, <2>1, <2>5, <2>6 DEF IInv, PermissionHolds
    <2>8. QED
      BY <2>5, <2>6, <2>7 DEF Commits
  <1>2. QED
    BY <1>1, Invariance, PTL DEF Spec, OnlyEditorsWrite

\* Only what ended has been answered.
AnsweredIsDone == \A r \in Requests : answer[r] # None => pc[r] = "done"

\* What is in the tables was committed by an ended or ending request.
LEMMA Traceless == Spec => [](AnsweredIsDone /\ ErrorLeavesNoTrace)
  <1>1. Init => AnsweredIsDone /\ ErrorLeavesNoTrace
    BY SeedAssumption DEF Init, AnsweredIsDone, ErrorLeavesNoTrace
  <1>2. ASSUME IInv, AnsweredIsDone, ErrorLeavesNoTrace, [Next]_vars
        PROVE  AnsweredIsDone' /\ ErrorLeavesNoTrace'
    <2> USE <1>2
    <2>1. CASE UNCHANGED vars
      BY <2>1 DEF vars, AnsweredIsDone, ErrorLeavesNoTrace, Durable
    <2>2. ASSUME NEW r \in Requests,
                 Begin(r) \/ Step(r) \/ CommitLost(r) \/ Fail(r) \/ DeadlockVictim(r)
          PROVE  AnsweredIsDone' /\ ErrorLeavesNoTrace'
      <3>1. Kind(r)
        BY <2>2, StepKinds DEF IInv, Kind
      <3>2. \A s \in Requests \ {r} : pc'[s] = pc[s] /\ answer'[s] = answer[s]
        BY <2>2, <3>1, OthersFrame, Answering DEF IInv, TypeOK
      <3>3. AnsweredIsDone'
        BY <2>2, <3>2, Answering DEF IInv, TypeOK, AnsweredIsDone
      <3>4. ASSUME NEW s \in Requests, Durable(s) PROVE Durable(s)'
        <4>1. CASE s # r
          BY <3>2, <3>4, <4>1 DEF Durable
        <4>2. CASE s = r
          <5>1. pc[r] = "committed"
            BY <2>2, <3>4, <4>2, Answering DEF IInv, Durable, AnsweredIsDone, Codes
          <5>2. QED
            BY <2>2, <4>2, <5>1, Answering DEF IInv, Durable
        <4>3. QED
          BY <4>1, <4>2
      <3>5. ASSUME NEW v \in revisions', v.request # Seeded PROVE Durable(v.request)'
        <4>1. CASE v \in revisions
          <5>1. v.request \in Requests
            BY <3>5, <4>1 DEF IInv, TypeOK, Revision, Stamps
          <5>2. QED
            BY <3>4, <3>5, <4>1, <5>1 DEF ErrorLeavesNoTrace
        <4>2. CASE v \notin revisions
          <5>1. v \in Drafts(r)
            BY <3>1, <4>2, OnlyEndsWrite
               DEF Ends, Commit, CommitCreate, CommitDelete, CommitEdit
          <5>2. QED
            BY <2>2, <4>2, <5>1, DraftsOfCall, Answering DEF IInv, Durable
        <4>3. QED
          BY <4>1, <4>2
      <3>6. ASSUME NEW p \in Products, products'[p] # None,
                   NEW x, x = products'[p]["last_updated_at"], x # Seeded
            PROVE  Durable(x)'
        <4>1. CASE products[p] # None
                   /\ products'[p]["last_updated_at"] = products[p]["last_updated_at"]
          <5>1. IsRow(products[p])
            BY <4>1 DEF IInv, TypeOK
          <5>2. x \in Requests
            BY <3>6, <4>1, <5>1 DEF IsRow, IsChange, Columns, ValuesOf, Stamps
          <5>3. QED
            BY <3>4, <3>6, <4>1, <5>2 DEF ErrorLeavesNoTrace
        <4>2. CASE ~ (products[p] # None
                      /\ products'[p]["last_updated_at"] = products[p]["last_updated_at"])
          <5>1. products'[p] # products[p]
            BY <3>6, <4>2
          <5>2. PICK l \in Labels : Ends(r, l)
            BY <3>1, <5>1, OnlyEndsWrite
          <5>3. products'[p]["last_updated_at"] = r
            <6>1. CASE call[r].op = "create" /\ products'[p] = call[r].wanted
              BY <6>1 DEF IInv, TypeOK, CallShape, Idle
            <6>2. CASE /\ call[r].op \in Edits \ {"delete"} /\ products[p] # None
                       /\ products'[p] = Overlay(products[p], Changes(r))
              <7>1. /\ "last_updated_at" \in DOMAIN Changes(r)
                    /\ products'[p]["last_updated_at"] = Changes(r)["last_updated_at"]
                BY <4>2, <6>2 DEF Overlay, Columns
              <7>2. /\ "last_updated_at" \in DOMAIN call[r].wanted
                    /\ Changes(r)["last_updated_at"] = call[r].wanted["last_updated_at"]
                BY <7>1, ChangesFacts
              <7>3. CallShape(r, call[r]) /\ call[r] # Idle
                BY <6>2 DEF IInv, TypeOK, Idle, Edits
              <7>4. call[r].wanted["last_updated_at"] = r
                BY <6>2, <7>2, <7>3 DEF CallShape, IsChange, Edits
              <7>5. QED
                BY <7>1, <7>2, <7>4
            <6>3. QED
              BY <3>6, <5>1, <5>2, <6>1, <6>2, CommitEffect DEF IInv
          <5>4. QED
            BY <2>2, <3>6, <5>1, <5>3, Answering DEF IInv, Durable
        <4>3. QED
          BY <4>1, <4>2
      <3>7. QED
        BY <3>3, <3>5, <3>6 DEF ErrorLeavesNoTrace, Durable
    <2>3. QED
      BY <2>1, <2>2 DEF Next, Terminated
  <1>3. QED
    BY <1>1, <1>2, Invariance, PTL DEF Spec

\* Neither a revision nor a stamp of a request that did not commit is in the
\* tables, whatever failed and whoever was aborted.
THEOREM ErrorsLeaveNoTrace == Spec => []ErrorLeavesNoTrace
  BY Traceless, PTL

-----------------------------------------------------------------------------
(* What an edit leaves                                                     *)

\* An edited row is committed by a request that edits it, and a column changes
\* only to what that request was asked to write there.
LEMMA EditedBy ==
    ASSUME IInv, [Next]_vars, NEW p \in Products, Edited(p)
    PROVE  \E r \in Requests :
              /\ Commits(r, p) /\ CommitEdit(r)
              /\ call[r].op \in {"update", "set_tables", "restore"} /\ Written(r)
              /\ \A c \in Columns : products'[p][c] # products[p][c] =>
                    /\ c \in DOMAIN Changes(r) /\ c \in DOMAIN call[r].wanted
                    /\ products'[p][c] = call[r].wanted[c]
  <1>1. PICK r \in Requests :
           Begin(r) \/ Step(r) \/ CommitLost(r) \/ Fail(r) \/ DeadlockVictim(r)
    BY DEF Next, Terminated, vars, Edited
  <1>2. PICK l \in Labels : Ends(r, l)
    BY <1>1, StepKinds, OnlyEndsWrite DEF IInv, Kind, Edited
  <1>3. /\ p = call[r].product
        /\ call[r].op \in Edits \ {"delete"} /\ Written(r)
        /\ products'[p] = Overlay(products[p], Changes(r))
    BY <1>2, CommitEffect DEF IInv, FreshIds, Edited
  <1>4. pc[r] = "commit" /\ Commit(r) /\ CommitEdit(r)
    BY <1>2, <1>3 DEF Ends, Commit, CommitCreate, CommitDelete, Edits
  <1>5. ASSUME NEW c \in Columns, products'[p][c] # products[p][c]
        PROVE  /\ c \in DOMAIN Changes(r) /\ c \in DOMAIN call[r].wanted
               /\ products'[p][c] = call[r].wanted[c]
    BY <1>3, <1>5, ChangesFacts DEF Overlay
  <1>6. QED
    BY <1>3, <1>4, <1>5 DEF Commits, Edits

\* Concurrent saves of different columns of one product merge, however many and
\* whatever each of them read.
THEOREM ColumnsMerge == Spec => SavesMergeByColumn
  <1>1. ASSUME IInv, [Next]_vars
        PROVE  [\A p \in Products : Edited(p) =>
                  \E r \in Requests :
                      /\ Commits(r, p)
                      /\ \A c \in Columns : products'[p][c] # products[p][c] =>
                            c \in DOMAIN call[r].wanted
                            /\ products'[p][c] = call[r].wanted[c]]_vars
    BY <1>1, EditedBy
  <1>2. QED
    BY <1>1, Invariance, PTL DEF Spec, SavesMergeByColumn

\* No text changes without a revision in the same commit.
THEOREM TextChangesRecorded == Spec => EveryTextChangeRecorded
  <1>1. ASSUME IInv, AnsweredIsDone, ErrorLeavesNoTrace, [Next]_vars
        PROVE  [\A p \in Products, f \in TextFields :
                  Edited(p) /\ products'[p][f] # products[p][f] =>
                    \E v \in revisions' \ revisions :
                      /\ v.product = p /\ v.field = f
                      /\ Commits(v.request, p) /\ v.changed_by = call[v.request].user
                      /\ loaded[v.request][f] = products[p][f] =>
                            v.content = products[p][f]]_vars
    <2>1. SUFFICES ASSUME NEW p \in Products, NEW f \in TextFields,
                          Edited(p), products'[p][f] # products[p][f]
                   PROVE  \E v \in revisions' \ revisions :
                      /\ v.product = p /\ v.field = f
                      /\ Commits(v.request, p) /\ v.changed_by = call[v.request].user
                      /\ loaded[v.request][f] = products[p][f] => v.content = products[p][f]
      OBVIOUS
    <2>2. PICK r \in Requests :
             /\ Commits(r, p) /\ CommitEdit(r)
             /\ call[r].op \in {"update", "set_tables", "restore"}
             /\ \A c \in Columns : products'[p][c] # products[p][c] =>
                   c \in DOMAIN Changes(r) /\ c \in DOMAIN call[r].wanted
      BY <1>1, <2>1, EditedBy
    <2>3. f \in Columns /\ f \in DOMAIN Changes(r) /\ f \in DOMAIN call[r].wanted
      BY <2>1, <2>2 DEF Columns, BodyColumns, EditColumns
    <2>4. CallShape(r, call[r]) /\ call[r] # Idle
      BY <1>1, <2>2 DEF IInv, TypeOK, Idle
    <2>5. PICK source \in {"user", "restore"} : Draft(r, f, source) \in Drafts(r)
      <3>1. CASE call[r].op = "update"
        BY <2>3, <3>1 DEF Drafts
      <3>2. CASE call[r].op = "restore"
        <4>1. f = call[r].revision.field
          BY <2>3, <2>4, <3>2 DEF CallShape, TextFields
        <4>2. QED
          BY <3>2, <4>1 DEF Drafts
      <3>3. CASE call[r].op = "set_tables"
        BY <2>3, <2>4, <3>3 DEF CallShape, IsChange, TextFields
      <3>4. QED
        BY <2>2, <3>1, <3>2, <3>3
    <2> DEFINE v == Draft(r, f, source)
    <2>6. /\ v.request = r /\ v.product = p /\ v.field = f
          /\ v.changed_by = call[r].user /\ v.content = loaded[r][f]
      BY <2>2 DEF Draft, Commits
    <2>7. v \in revisions'
      BY <2>2, <2>5 DEF CommitEdit
    <2>8. v \notin revisions
      <3>1. r # Seeded /\ pc[r] = "commit" /\ answer[r] = None
        BY <1>1, <2>2 DEF Commits, AnsweredIsDone
      <3>2. ~ Durable(r)
        BY <3>1 DEF Durable, Codes
      <3>3. QED
        BY <1>1, <2>6, <3>1, <3>2 DEF ErrorLeavesNoTrace
    <2> HIDE DEF v
    <2>9. QED
      BY <2>2, <2>6, <2>7, <2>8
  <1>2. QED
    BY <1>1, Invariance, Traceless, PTL DEF Spec, EveryTextChangeRecorded

\* A restore writes into a field what the history of that field and product
\* holds at the commit, whatever saves, restores and deletes came between.
THEOREM RestoresComeFromHistory == Spec => RestoreFromOwnHistory
  <1>1. ASSUME IInv, [Next]_vars
        PROVE  [\A p \in Products, f \in TextFields :
                  Edited(p) /\ products'[p][f] # products[p][f] =>
                    \E r \in Requests :
                      /\ Commits(r, p)
                      /\ call[r].op = "restore" =>
                           \E v \in revisions : v.product = p /\ v.field = f
                                                /\ v.content = products'[p][f]]_vars
    <2>1. SUFFICES ASSUME NEW p \in Products, NEW f \in TextFields,
                          Edited(p), products'[p][f] # products[p][f]
                   PROVE  \E r \in Requests :
                      /\ Commits(r, p)
                      /\ call[r].op = "restore" =>
                           \E v \in revisions : v.product = p /\ v.field = f
                                                /\ v.content = products'[p][f]
      OBVIOUS
    <2>2. PICK r \in Requests :
             /\ Commits(r, p)
             /\ \A c \in Columns : products'[p][c] # products[p][c] =>
                   c \in DOMAIN call[r].wanted /\ products'[p][c] = call[r].wanted[c]
      BY <1>1, <2>1, EditedBy
    <2>3. f \in DOMAIN call[r].wanted /\ products'[p][f] = call[r].wanted[f]
      BY <2>1, <2>2 DEF Columns, BodyColumns, EditColumns
    <2>4. ASSUME call[r].op = "restore"
          PROVE  \E v \in revisions : v.product = p /\ v.field = f
                                       /\ v.content = products'[p][f]
      <3> DEFINE v == call[r].revision
      <3>1. CallShape(r, call[r]) /\ call[r] # Idle
        BY <1>1, <2>4 DEF IInv, TypeOK, Idle
      <3>2. v.field = f /\ v.content = call[r].wanted[f]
        BY <2>3, <2>4, <3>1 DEF CallShape, TextFields
      <3>3. v \in revisions /\ v.product = p
        BY <1>1, <2>1, <2>2, <2>4 DEF IInv, RestoresOwnRevision, Commits, Edited
      <3>4. QED
        BY <2>3, <3>2, <3>3
    <2>5. QED
      BY <2>2, <2>4
  <1>2. QED
    BY <1>1, Invariance, PTL DEF Spec, RestoreFromOwnHistory

-----------------------------------------------------------------------------
(* Lock waits                                                              *)

\* In a minimal circle everybody also keeps somebody waiting.
LEMMA EachBlocks ==
    ASSUME NEW S \in SUBSET Requests, WaitCycle(S), NEW r \in S
    PROVE  \E s \in S : r \in Blockers(s)
  <1>1. SUFFICES ASSUME \A s \in S : r \notin Blockers(s) PROVE FALSE
    OBVIOUS
  <1> DEFINE T == S \ {r}
  <1>2. \A s \in S : Blockers(s) \cap T # {}
    BY <1>1 DEF WaitCycle, AllWait
  <1>3. AllWait(T)
    BY <1>2 DEF AllWait
  <1>4. QED
    BY <1>3 DEF WaitCycle

\* A request that waits, and has changed the name in its row already, renames.
LEMMA WaitingWriterRenames ==
    ASSUME IInv, NEW r \in Requests,
           \/ Written(r) /\ pc[r] \in {"snapshot", "write", "claim"}
           \/ Drafts(r) # {} /\ Renames(r)
    PROVE  call[r].op = "update" /\ Renames(r)
  <1>1. Renames(r) /\ call[r].op \in Edits
    BY DEF Written, IInv, ControlOK, ControlOf, Drafts, Edits
  <1>2. "name" \in DOMAIN call[r].wanted
    BY <1>1, ChangesFacts DEF Renames
  <1>3. CallShape(r, call[r]) /\ call[r] # Idle
    BY <1>1 DEF IInv, TypeOK, Idle, Edits
  <1>4. call[r].op # "delete"
    BY <1>2, <1>3 DEF CallShape
  <1>5. call[r].op # "set_tables"
    BY <1>2, <1>3 DEF CallShape, IsChange
  <1>6. call[r].op # "restore"
    BY <1>2, <1>3 DEF CallShape, Revision, TextFields
  <1>7. QED
    BY <1>1, <1>4, <1>5, <1>6 DEF Edits

\* Requests that wait in a circle all rename a product: nothing else is held by
\* one that waits, except a key share, and that hinders renames and deletes
\* only, while its holder waits for a row that another request has renamed.
THEOREM OnlyRenamesDeadlock == Spec => []DeadlockOnlyAmongRenames
  <1>1. ASSUME IInv PROVE DeadlockOnlyAmongRenames
    <2> SUFFICES ASSUME NEW S \in SUBSET Requests, WaitCycle(S), NEW r \in S
                 PROVE  call[r].op = "update" /\ Renames(r)
      BY DEF DeadlockOnlyAmongRenames
    <2> USE <1>1
    <2>1. ASSUME NEW x \in S PROVE pc[x] \in {"snapshot", "write", "claim"}
      <3>1. Blockers(x) # {}
        BY DEF WaitCycle, AllWait
      <3>2. QED
        BY <3>1 DEF Blockers
    <2>2. PICK s \in S : r \in Blockers(s)
      BY EachBlocks
    <2> S \subseteq Requests
      OBVIOUS
    <2>3. PICK t \in S : t \in Blockers(r)
      BY DEF WaitCycle, AllWait
    <2>4. \/ Written(r)
          \/ pc[s] = "write" /\ Exclusive(s) /\ HoldsKeyShare(r)
      <3>1. ~ Claimed(r)
        BY <2>1 DEF Claimed
      <3>2. \/ pc[s] = "snapshot" /\ r \in SnapshotBlockers(s)
            \/ pc[s] = "write" /\ r \in WriteBlockers(s)
            \/ pc[s] = "claim" /\ r \in NameBlockers(s)
        BY <2>1, <2>2 DEF Blockers
      <3>3. QED
        BY <3>1, <3>2 DEF SnapshotBlockers, WriteBlockers, NameBlockers
    <2>5. CASE Written(r)
      BY <2>1, <2>5, WaitingWriterRenames
    <2>6. CASE HoldsKeyShare(r) /\ ~ Written(r)
      <3>1. pc[r] \in {"write", "claim"} /\ Drafts(r) # {}
        BY <2>1, <2>6 DEF HoldsKeyShare, InTransaction
      <3>2. CASE Renames(r)
        BY <3>1, <3>2, WaitingWriterRenames
      <3>3. CASE ~ Renames(r)
        <4>1. pc[r] = "write" /\ call[r].op # "delete"
          BY <3>1, <3>3 DEF IInv, ControlOK, ControlOf, Drafts
        <4>2. t \in Rivals(r) /\ Written(t)
          BY <2>3, <3>3, <4>1 DEF Blockers, WriteBlockers, Exclusive
        <4>3. Renames(t)
          BY <2>1, <4>2, WaitingWriterRenames
        <4>4. QED
          BY <2>6, <4>2, <4>3 DEF IInv, LocksCompatible, Rivals, Exclusive
      <3>4. QED
        BY <3>2, <3>3
    <2>7. QED
      BY <2>4, <2>5, <2>6
  <1>2. QED
    BY <1>1, Invariance, PTL

-----------------------------------------------------------------------------
(* The refinement of ProductCatalog                                        *)

\* Both modules speak of the same rows, calls and editors.
LEMMA SameVocabulary ==
    /\ Catalog!Columns = Columns /\ Catalog!TextFields = TextFields
    /\ Catalog!Idle = Idle
    /\ \A u, row : Catalog!MayEdit(u, row) <=> MayEdit(u, row)
    /\ \A r, c : CallShape(r, c) => Catalog!CallShape(r, c)
  <1> USE DEF Columns, BodyColumns, EditColumns, TextFields, Catalog!Columns,
              Catalog!BodyColumns, Catalog!EditColumns, Catalog!TextFields
  <1>1. Catalog!Columns = Columns /\ Catalog!EditColumns = EditColumns
        /\ Catalog!TextFields = TextFields
    OBVIOUS
  <1>2. Catalog!Idle = Idle
    BY DEF Idle, Catalog!Idle
  <1>3. \A u, row : Catalog!MayEdit(u, row) <=> MayEdit(u, row)
    BY DEF MayEdit, SameTeam, Catalog!MayEdit, Catalog!SameTeam
  <1>4. \A c : Catalog!ValuesOf(c) = ValuesOf(c)
    BY DEF ValuesOf, Catalog!ValuesOf, Stamps, Catalog!Stamps
  <1>5. \A w, cs : Catalog!IsChange(w, cs) <=> IsChange(w, cs)
    BY <1>4 DEF IsChange, Catalog!IsChange
  <1>6. Catalog!Revision = Revision
    BY DEF Revision, Catalog!Revision, Stamps, Catalog!Stamps
  <1>7. QED
    BY <1>1, <1>2, <1>3, <1>5, <1>6 DEF CallShape, Catalog!CallShape, IsRow, Catalog!IsRow

\* A step changes the fate of its own request only: a commit applies it, a failure
\* refuses it, and only a commit writes.
LEMMA Fates ==
    ASSUME IInv, AnsweredIsDone, NEW r \in Requests,
           Begin(r) \/ Step(r) \/ CommitLost(r) \/ Fail(r) \/ DeadlockVictim(r)
    PROVE  /\ fate' = [fate EXCEPT ![r] = Fate(r)']
           /\ \/ /\ Commit(r) /\ Fate(r) = "open" /\ Fate(r)' = "applied"
              \/ /\ NoWrite /\ UNCHANGED <<call, loaded>>
                 /\ Fate(r)' = Fate(r)
              \/ /\ NoWrite /\ pc[r] # "done"
                 /\ Fate(r) = IF pc[r] = "idle" THEN "new" ELSE "open"
                 /\ Fate(r)' = IF pc'[r] = "done" THEN "refused" ELSE "open"
  <1>1. TypeOK /\ ControlOK
    BY DEF IInv
  <1>2. Kind(r)
    BY StepKinds DEF IInv, Kind
  <1>3. fate' = [fate EXCEPT ![r] = Fate(r)']
    <2>1. \A s \in Requests \ {r} : pc'[s] = pc[s] /\ answer'[s] = answer[s]
      BY <1>1, <1>2, OthersFrame, Answering DEF TypeOK
    <2>2. \A s \in Requests \ {r} : Fate(s)' = Fate(s)
      BY <2>1 DEF Fate, Durable
    <2>3. QED
      BY <2>2 DEF fate
  <1>4. pc[r] # "done" /\ answer[r] = None
    BY <1>1, Answering DEF AnsweredIsDone
  <1>5. CASE CommitOk(r) \/ CommitLost(r)
    <2>1. pc[r] = "commit" /\ Commit(r)
      BY <1>5 DEF CommitOk, CommitLost, Commit
    <2>2. Fate(r) = "open"
      BY <1>4, <2>1 DEF Fate, Durable, Codes
    <2>3. Durable(r)'
      BY <1>1, <1>5 DEF CommitOk, CommitLost, Answer, Goto, Durable, TypeOK
    <2>4. Fate(r)' = "applied"
      BY <2>3 DEF Fate
    <2>5. QED
      BY <1>3, <2>1, <2>2, <2>4
  <1>6. CASE Respond(r)
    <2>1. Durable(r)
      BY <1>6 DEF Respond, Durable
    <2>2. Durable(r)'
      BY <1>1, <1>6 DEF Respond, Answer, Goto, Durable, TypeOK
    <2>3. QED
      BY <1>3, <1>6, <2>1, <2>2 DEF Fate, Respond
  <1>7. CASE /\ NoWrite /\ pc[r] \notin {"committed", "done"}
             /\ \/ /\ UNCHANGED answer
                   /\ \E l \in Labels \ {"idle", "committed", "done"} : Goto(r, l)
                \/ \E a \in Codes \ Durables : Answer(r, a)
    <2>1. ~ Durable(r)
      BY <1>4, <1>7 DEF Durable, Codes
    <2>2. /\ ~ Durable(r)' /\ pc'[r] # "idle"
      <3>1. CASE /\ UNCHANGED answer
                 /\ \E l \in Labels \ {"idle", "committed", "done"} : Goto(r, l)
        BY <1>1, <1>4, <3>1 DEF Goto, Durable, TypeOK, Codes
      <3>2. CASE \E a \in Codes \ Durables : Answer(r, a)
        BY <1>1, <3>2 DEF Answer, Goto, Durable, Durables, TypeOK
      <3>3. QED
        BY <1>7, <3>1, <3>2
    <2>3. QED
      BY <1>3, <1>4, <1>7, <2>1, <2>2 DEF Fate
  <1>8. QED
    BY <1>1, <1>5, <1>6, <1>7, Outcomes

\* A call in flight is well-formed and about a product.
LEMMA CallInFlight ==
    ASSUME IInv, NEW r \in Requests, pc[r] = "commit"
    PROVE  /\ CallShape(r, call[r]) /\ call[r] # Idle
           /\ call[r].product \in Products /\ call[r].op \in Edits \cup {"create"}
  <1>1. CallShape(r, call[r]) /\ call[r].op \in Edits \cup {"create"}
    BY DEF IInv, TypeOK, ControlOK, ControlOf
  <1>2. call[r] # Idle
    BY <1>1 DEF Idle, Edits
  <1>3. QED
    BY <1>1, <1>2 DEF CallShape

\* The commit of a creation: the id is fresh and the name claimed.
LEMMA CreatesAsCatalog ==
    ASSUME IInv, NEW r \in Requests, Commit(r), CommitCreate(r),
           Fate(r) = "open", fate' = [fate EXCEPT ![r] = "applied"]
    PROVE  Catalog!Create(r)
  <1>1. /\ pc[r] = "commit" /\ call[r].op = "create" /\ loaded[r] = None
        /\ call[r].product \notin born /\ IsRow(call[r].wanted)
    BY CallInFlight DEF Commit, CommitCreate, IInv, ControlOK, ControlOf, FreshIds, CallShape
  <1>2. "name" \in DOMAIN Changes(r) /\ Changes(r)["name"] = call[r].wanted["name"]
    BY <1>1, ChangesFacts DEF IsRow, Columns, BodyColumns, EditColumns
  <1>3. ~ NameTaken(r)
    BY <1>1, <1>2 DEF IInv, ClaimedNamesFree, Claimed, Renames
  <1>4. Catalog!NameFree(call[r].wanted["name"], call[r].product)
    BY <1>2, <1>3 DEF NameTaken, Catalog!NameFree
  <1>5. fate[r] = "open"
    BY DEF fate
  <1>6. QED
    BY <1>1, <1>4, <1>5 DEF Commit, CommitCreate, Catalog!Create, Catalog!Becomes

\* The commit of a delete: the row is locked, and its user may still edit it.
LEMMA DeletesAsCatalog ==
    ASSUME IInv, NEW r \in Requests, Commit(r), CommitDelete(r),
           Fate(r) = "open", fate' = [fate EXCEPT ![r] = "applied"]
    PROVE  Catalog!Delete(r)
  <1>1. pc[r] = "commit" /\ call[r].op = "delete"
    BY DEF Commit, CommitDelete
  <1>2. products[call[r].product] # None
    BY <1>1 DEF IInv, LockedRowsExist, Written
  <1>3. Catalog!Permitted(r)
    BY <1>1, <1>2, SameVocabulary DEF IInv, PermissionHolds, Edits, Catalog!Permitted
  <1>4. fate[r] = "open"
    BY DEF fate
  <1>5. QED
    BY <1>1, <1>2, <1>3, <1>4 DEF Commit, CommitDelete, Catalog!Delete, Catalog!Becomes

\* The commit of an edit sets the columns that differed from the row as it was
\* read, and records the texts of that row.
LEMMA EditSets ==
    ASSUME IInv, NEW r \in Requests, pc[r] = "commit",
           call[r].op \in {"update", "set_tables", "restore"}
    PROVE  /\ loaded[r] # None
           /\ Catalog!Set(r) = DOMAIN Changes(r)
           /\ \A d \in Catalog!Set(r) : Changes(r)[d] = call[r].wanted[d]
           /\ {Catalog!Record(r, f) : f \in Catalog!Recorded(r)} = Drafts(r)
           /\ Catalog!Recorded(r) = {} <=> Drafts(r) = {}
  <1>1. loaded[r] # None
    BY DEF IInv, ControlOK, ControlOf, Edits
  <1>2. /\ Catalog!Set(r) = DOMAIN Changes(r)
        /\ \A d \in Catalog!Set(r) : Changes(r)[d] = call[r].wanted[d]
    BY <1>1 DEF Catalog!Set, Changes
  <1>3. \A f : Catalog!Record(r, f)
                 = Draft(r, f, IF call[r].op = "restore" THEN "restore" ELSE "user")
    BY DEF Catalog!Record, Draft
  <1>4. Catalog!TextFields = TextFields
    BY SameVocabulary
  <1>5. CASE call[r].op = "update"
    <2>1. Catalog!Recorded(r) = TextFields \cap DOMAIN Changes(r)
      BY <1>2, <1>4, <1>5 DEF Catalog!Recorded
    <2>2. Drafts(r) = {Draft(r, f, "user") : f \in TextFields \cap DOMAIN Changes(r)}
      BY <1>5 DEF Drafts
    <2>3. {Catalog!Record(r, f) : f \in Catalog!Recorded(r)} = Drafts(r)
      BY <1>3, <1>5, <2>1, <2>2
    <2>4. QED
      BY <1>1, <1>2, <2>1, <2>2, <2>3
  <1>6. CASE call[r].op = "restore"
    <2>1. Catalog!Recorded(r) = {call[r].revision.field}
      BY <1>6 DEF Catalog!Recorded
    <2>2. Drafts(r) = {Draft(r, call[r].revision.field, "restore")}
      BY <1>6 DEF Drafts
    <2>3. {Catalog!Record(r, f) : f \in Catalog!Recorded(r)} = Drafts(r)
      BY <1>3, <1>6, <2>1, <2>2
    <2>4. QED
      BY <1>1, <1>2, <2>1, <2>2, <2>3
  <1>7. CASE call[r].op = "set_tables"
    <2>1. DOMAIN call[r].wanted \subseteq {"tables", "last_updated_by"}
      BY <1>7, CallInFlight DEF CallShape, IsChange
    <2>2. Catalog!Recorded(r) = {}
      BY <1>4, <1>7, <2>1 DEF Catalog!Recorded, Catalog!Set, TextFields
    <2>3. Drafts(r) = {}
      BY <1>7 DEF Drafts
    <2>4. QED
      BY <1>1, <1>2, <2>2, <2>3
  <1>8. QED
    BY <1>5, <1>6, <1>7

\* The commit of an edit: what it writes is locked, the name it gives is claimed,
\* the permission holds, and so does the revision it restores.
LEMMA EditsAsCatalog ==
    ASSUME IInv, NEW r \in Requests, Commit(r), CommitEdit(r),
           Fate(r) = "open", fate' = [fate EXCEPT ![r] = "applied"]
    PROVE  Catalog!Edit(r)
  <1> DEFINE p == call[r].product
  <1>1. /\ pc[r] = "commit" /\ call[r].op \in {"update", "set_tables", "restore"}
        /\ call[r].op \in Edits
    BY DEF Commit, CommitEdit, Edits
  <1>2. p \in Products
    BY <1>1, CallInFlight
  <1>3. fate[r] = "open"
    BY DEF fate
  <1>4. Catalog!Permitted(r)
    BY <1>1, SameVocabulary DEF IInv, PermissionHolds, Catalog!Permitted
  <1>5. Catalog!Set(r) # {} \/ Catalog!Recorded(r) # {} => products[p] # None
    BY <1>1, EditSets DEF IInv, LockedRowsExist, Written, HoldsKeyShare, InTransaction
  <1>6. "name" \in Catalog!Set(r) => Catalog!NameFree(call[r].wanted["name"], p)
    <2>1. "name" \in Catalog!Set(r) =>
             ~ NameTaken(r) /\ Changes(r)["name"] = call[r].wanted["name"]
      BY <1>1, EditSets DEF IInv, ClaimedNamesFree, Claimed, Renames
    <2>2. QED
      BY <2>1 DEF NameTaken, Catalog!NameFree
  <1>7. call[r].op = "restore" => call[r].revision \in revisions /\ call[r].revision.product = p
    <2>1. call[r].op = "restore" => Catalog!Recorded(r) # {}
      BY DEF Catalog!Recorded
    <2>2. QED
      BY <1>1, <1>5, <2>1 DEF IInv, RestoresOwnRevision
  <1>8. products' = IF Catalog!Set(r) = {} THEN products
                    ELSE [products EXCEPT ![p] =
                            [d \in Catalog!Columns |->
                                IF d \in Catalog!Set(r) THEN call[r].wanted[d] ELSE @[d]]]
    <2>1. products' = IF Catalog!Set(r) = {} THEN products
                      ELSE [products EXCEPT ![p] = Overlay(products[p], Changes(r))]
      BY <1>1, EditSets DEF CommitEdit
    <2>2. Overlay(products[p], Changes(r))
            = [d \in Catalog!Columns |->
                  IF d \in Catalog!Set(r) THEN call[r].wanted[d] ELSE products[p][d]]
      BY <1>1, EditSets, SameVocabulary DEF Overlay
    <2>3. QED
      BY <2>1, <2>2
  <1>9. revisions' = revisions \cup {Catalog!Record(r, f) : f \in Catalog!Recorded(r)}
    BY <1>1, EditSets DEF CommitEdit
  <1>10. QED
    BY <1>1, <1>3, <1>4, <1>5, <1>6, <1>7, <1>8, <1>9, EditSets
       DEF Commit, CommitEdit, Catalog!Edit, Catalog!Becomes

\* An arrival asks, with the fate the permission check leaves it.
LEMMA ArrivesAsCatalog ==
    ASSUME NEW r \in Requests, NEW c, Arrives(r, c), TypeOK,
           Fate(r) = "new", NEW f \in {"open", "refused"},
           fate' = [fate EXCEPT ![r] = f]
    PROVE  Catalog!Ask(r)
  <1>1. call'[r] = c /\ call' = [call EXCEPT ![r] = call'[r]]
    BY DEF Arrives, TypeOK
  <1>2. Catalog!CallShape(r, call'[r]) /\ call'[r] # Catalog!Idle
    BY <1>1, SameVocabulary DEF Arrives
  <1>3. UNCHANGED loaded \/ loaded' = [loaded EXCEPT ![r] = products[call'[r].product]]
    BY <1>1 DEF Arrives, Authorize
  <1>4. fate[r] = "new"
    BY DEF fate
  <1>5. QED
    BY <1>1, <1>2, <1>3, <1>4 DEF Arrives, Catalog!Ask, Catalog!Becomes

\* Every step is one of the catalog's, or none: the statement that commits is
\* where a request takes effect.
LEMMA StepsAsCatalog ==
    ASSUME IInv, AnsweredIsDone, NEW r \in Requests,
           Begin(r) \/ Step(r) \/ CommitLost(r) \/ Fail(r) \/ DeadlockVictim(r)
    PROVE  \/ Catalog!Ask(r) \/ Catalog!Read(r) \/ Catalog!Refuse(r) \/ Catalog!Create(r)
           \/ Catalog!Edit(r) \/ Catalog!Delete(r)
           \/ UNCHANGED <<products, revisions, born, call, loaded, fate>>
  <1>1. fate' = [fate EXCEPT ![r] = Fate(r)'] /\ fate[r] = Fate(r)
    BY Fates DEF fate
  <1>2. fate = [fate EXCEPT ![r] = Fate(r)]
    BY DEF fate
  <1>3. CASE Commit(r) /\ Fate(r) = "open" /\ Fate(r)' = "applied"
    BY <1>1, <1>3, CreatesAsCatalog, DeletesAsCatalog, EditsAsCatalog DEF Commit
  <1>4. CASE /\ NoWrite /\ UNCHANGED <<call, loaded>>
             /\ Fate(r)' = Fate(r)
    BY <1>1, <1>2, <1>4 DEF NoWrite
  <1>5. CASE /\ NoWrite /\ pc[r] # "done"
             /\ Fate(r) = IF pc[r] = "idle" THEN "new" ELSE "open"
             /\ Fate(r)' = IF pc'[r] = "done" THEN "refused" ELSE "open"
    <2>1. ASSUME NEW c, Arrives(r, c) PROVE Catalog!Ask(r)
      <3>1. Fate(r) = "new" /\ Fate(r)' \in {"open", "refused"}
        BY <1>5, <2>1 DEF Arrives
      <3>2. QED
        BY <1>1, <2>1, <3>1, ArrivesAsCatalog DEF IInv
    <2>2. CASE LoadsRow(r)
      <3>1. /\ pc[r] = "load" /\ pc'[r] = AfterLoad(call[r].op) /\ call[r].op \in Edits
        BY <2>2 DEF LoadsRow, IInv, TypeOK, ControlOK, ControlOf
      <3>2. pc'[r] # "done"
        BY <3>1 DEF AfterLoad, Edits
      <3>3. Fate(r) = "open" /\ UNCHANGED fate
        BY <1>1, <1>2, <1>5, <3>1, <3>2
      <3>4. CASE loaded[r] = None
        BY <1>1, <2>2, <3>3, <3>4 DEF LoadsRow, Catalog!Read
      <3>5. CASE loaded[r] # None
        <4>1. loaded' = loaded
          BY <2>2, <3>5 DEF LoadsRow, IInv, TypeOK
        <4>2. QED
          BY <2>2, <3>3, <4>1 DEF LoadsRow
      <3>6. QED
        BY <3>4, <3>5
    <2>3. ASSUME NEW l \in Labels, Quiet(r, l) \/ Ends(r, l)
          PROVE  \/ Catalog!Refuse(r)
                 \/ UNCHANGED <<products, revisions, born, call, loaded, fate>>
      <3>1. UNCHANGED <<call, loaded>>
        BY <2>3 DEF Quiet, Ends, Commit
      <3>2. CASE pc'[r] = "done"
        BY <1>1, <1>5, <3>1, <3>2 DEF NoWrite, Catalog!Refuse, Catalog!Becomes
      <3>3. CASE pc'[r] # "done"
        <4>1. pc[r] # "idle"
          BY <2>3, <3>3 DEF Quiet, Moves, Ends, Commit, IInv, TypeOK
        <4>2. QED
          BY <1>1, <1>2, <1>5, <3>1, <3>3, <4>1 DEF NoWrite
      <3>4. QED
        BY <3>2, <3>3
    <2>4. QED
      BY <2>1, <2>2, <2>3, StepKinds DEF IInv
  <1>6. QED
    BY <1>3, <1>4, <1>5, Fates

\* The endpoints are the catalog that ProductCatalog describes: a request takes
\* effect at its COMMIT, as a whole, or never, for any number of them.
THEOREM ImplementsCatalog == Spec => ActsAsCatalog
  <1>1. Init => Catalog!Init
    <2>1. Init => fate = [r \in Requests |-> "new"]
      BY DEF Init, fate, Fate, Durable, Codes
    <2>2. QED
      BY <2>1, SameVocabulary DEF Init, Catalog!Init
  <1>2. ASSUME IInv, AnsweredIsDone, [Next]_vars
        PROVE  [Catalog!Next]_(Catalog!vars)
    <2>1. CASE UNCHANGED vars
      BY <2>1 DEF vars, Catalog!vars, fate, Fate, Durable
    <2>2. ASSUME NEW r \in Requests,
                 Begin(r) \/ Step(r) \/ CommitLost(r) \/ Fail(r) \/ DeadlockVictim(r)
          PROVE  [Catalog!Next]_(Catalog!vars)
      BY <1>2, <2>2, StepsAsCatalog DEF Catalog!Next, Catalog!vars
    <2>3. QED
      BY <1>2, <2>1, <2>2 DEF Next, Terminated
  <1>3. QED
    BY <1>1, <1>2, Invariance, Traceless, PTL DEF Spec, ActsAsCatalog, Catalog!Spec

-----------------------------------------------------------------------------
(* The lists of tables                                                     *)

\* A set of numbers has a least one.
LEMMA LeastNumber ==
    ASSUME NEW S \in SUBSET Nat, S # {}
    PROVE  \E m \in S : \A n \in S : ~ (n < m)
  <1> DEFINE R == OpToRel(<, Nat)
  <1>1. PICK m \in S : \A n \in S : <<n, m>> \notin R
    <2>1. IsWellFoundedOn(R, Nat)
      BY NatLessThanWellFounded
    <2> HIDE DEF R
    <2>2. QED
      BY <2>1, WFMin
  <1>2. QED
    BY <1>1 DEF OpToRel

\* Induction, over a set of numbers: the least one outside it has a predecessor.
LEMMA Reaches ==
    ASSUME NEW G \in SUBSET Nat, 0 \in G, \A n \in Nat : n \in G => n + 1 \in G
    PROVE  Nat \subseteq G
  <1> SUFFICES ASSUME Nat \ G # {} PROVE FALSE
    OBVIOUS
  <1>1. PICK m \in Nat \ G : \A n \in Nat \ G : ~ (n < m)
    BY LeastNumber
  <1>2. m - 1 \in Nat /\ m - 1 \notin G
    BY <1>1
  <1>3. QED
    BY <1>1, <1>2

NoName == ""

LEMMA SkippedNames ==
    \A tables, i : Skipped(tables, i) <=>
        tables[i] = NoName \/ \E j \in 1..(i - 1) : tables[j] = tables[i]
  BY Zenon DEF Skipped, NoName

\* f is what _dedupe has kept after each of the first n names.
KeptBy(tables, n, f) ==
    /\ f[0] = <<>>
    /\ \A i \in 1..n : f[i] = IF Skipped(tables, i) THEN f[i - 1]
                                                 ELSE Append(f[i - 1], tables[i])

\* The loop of _dedupe has a result.
LEMMA DedupeRuns ==
    ASSUME NEW T, NEW tables \in Seq(T)
    PROVE  \E f : KeptBy(tables, Len(tables), f) /\ Dedupe(tables) = f[Len(tables)]
  <1> DEFINE n == Len(tables)
             rec(h) == [i \in 0..n |->
                          IF i = 0 THEN <<>>
                          ELSE IF Skipped(tables, i) THEN h[i - 1]
                               ELSE Append(h[i - 1], tables[i])]
             kept == CHOOSE h : h = rec(h)
             G == {m \in Nat : m <= n => \E f : f = [i \in 0..m |-> f[i]] /\ KeptBy(tables, m, f)}
  <1>1. n \in Nat
    OBVIOUS
  <1>2. 0 \in G
    <2>1. KeptBy(tables, 0, [i \in 0..0 |-> <<>>])
      BY DEF KeptBy
    <2>2. [i \in 0..0 |-> <<>>] = [i \in 0..0 |-> [k \in 0..0 |-> <<>>][i]]
      OBVIOUS
    <2>3. QED
      BY <2>1, <2>2
  <1>3. ASSUME NEW m \in Nat, m \in G
        PROVE  m + 1 \in G
    <2> SUFFICES ASSUME m + 1 <= n
                 PROVE  \E g : g = [i \in 0..(m + 1) |-> g[i]] /\ KeptBy(tables, m + 1, g)
      OBVIOUS
    <2>1. PICK f : f = [i \in 0..m |-> f[i]] /\ KeptBy(tables, m, f)
      <3>1. m <= n
        BY <1>1
      <3>2. QED
        BY <1>3, <3>1, Zenon
    <2> DEFINE last == IF Skipped(tables, m + 1) THEN f[m] ELSE Append(f[m], tables[m + 1])
               g == [i \in 0..(m + 1) |-> IF i = m + 1 THEN last ELSE f[i]]
    <2>2. last = IF Skipped(tables, m + 1) THEN f[m] ELSE Append(f[m], tables[m + 1])
      OBVIOUS
    <2> HIDE DEF last
    <2>3. /\ g = [i \in 0..(m + 1) |-> g[i]]
          /\ g[m + 1] = last /\ \A i \in 0..m : g[i] = f[i]
      OBVIOUS
    <2> HIDE DEF g
    <2>4. ASSUME NEW i \in 1..(m + 1)
          PROVE  g[i] = IF Skipped(tables, i) THEN g[i - 1] ELSE Append(g[i - 1], tables[i])
      <3>1. i - 1 \in 0..m /\ (i # m + 1 => i \in 1..m) /\ (i = m + 1 => i - 1 = m)
        OBVIOUS
      <3>2. CASE i = m + 1
        BY <2>2, <2>3, <3>1, <3>2
      <3>3. CASE i # m + 1
        <4>1. g[i] = f[i] /\ g[i - 1] = f[i - 1]
          <5>1. i \in 0..m
            BY <3>3
          <5>2. \A j \in 0..m : g[j] = f[j]
            BY <2>3
          <5>3. QED
            BY <3>1, <5>1, <5>2
        <4>2. f[i] = IF Skipped(tables, i) THEN f[i - 1] ELSE Append(f[i - 1], tables[i])
          BY <2>1, <3>1, <3>3 DEF KeptBy
        <4>3. QED
          BY <4>1, <4>2
      <3>4. QED
        BY <3>2, <3>3
    <2>5. g[0] = <<>>
      BY <2>1, <2>3 DEF KeptBy
    <2>6. QED
      BY <2>3, <2>4, <2>5 DEF KeptBy
  <1>4. PICK f : f = [i \in 0..n |-> f[i]] /\ KeptBy(tables, n, f)
    <2>1. G \in SUBSET Nat /\ \A m \in Nat : m \in G => m + 1 \in G
      BY <1>3, Zenon
    <2>2. n \in G
      <3> HIDE DEF G
      <3>1. Nat \subseteq G
        BY <1>2, <2>1, Reaches, Zenon
      <3>2. QED
        BY <1>1, <3>1
    <2>3. n <= n
      BY <1>1
    <2>4. QED
      BY <2>2, <2>3, Zenon
  <1> HIDE DEF G
  <1>5. f = rec(f)
    <2>1. ASSUME NEW i \in 0..n
          PROVE  f[i] = IF i = 0 THEN <<>>
                        ELSE IF Skipped(tables, i) THEN f[i - 1]
                             ELSE Append(f[i - 1], tables[i])
      <3>1. i = 0 \/ (i \in 1..n /\ i # 0)
        BY <1>1
      <3>2. QED
        BY <1>4, <3>1 DEF KeptBy
    <2>2. f = [i \in 0..n |-> f[i]]
      BY <1>4
    <2>3. QED
      BY <2>1, <2>2
  <1>6. kept = rec(kept)
    <2> HIDE DEF rec
    <2>1. QED
      BY <1>5
  <1>7. Dedupe(tables) = kept[n]
    BY DEF Dedupe
  <1> HIDE DEF kept
  <1>8. KeptBy(tables, n, kept)
    <2>1. \A i \in 0..n : kept[i] = rec(kept)[i]
      <3> HIDE DEF rec
      <3>1. QED
        BY <1>6
    <2>2. \A i \in 0..n : kept[i] = IF i = 0 THEN <<>>
                                   ELSE IF Skipped(tables, i) THEN kept[i - 1]
                                        ELSE Append(kept[i - 1], tables[i])
      BY <2>1
    <2>3. 0 \in 0..n /\ \A i \in 1..n : i \in 0..n /\ i # 0
      BY <1>1
    <2>4. QED
      BY <2>2, <2>3 DEF KeptBy
  <1>9. QED
    BY <1>7, <1>8

\* d has the non-empty names among the first n, each once, in the order in which
\* they first occur.
KeepsFirsts(tables, n, d) ==
    /\ \A i \in 1..n : tables[i] # NoName => \E k \in 1..Len(d) : d[k] = tables[i]
    /\ \A k \in 1..Len(d) : d[k] # NoName /\ \E i \in 1..n : tables[i] = d[k]
    /\ \A k, l \in 1..Len(d) : d[k] = d[l] => k = l
    /\ \A k, l \in 1..Len(d) : k < l =>
          \A j \in 1..n : tables[j] = d[l] => \E i \in 1..(j - 1) : tables[i] = d[k]

\* One more name.
LEMMA KeepsOneMore ==
    ASSUME NEW T, NEW tables \in Seq(T), NEW n \in Nat, n + 1 <= Len(tables),
           NEW d \in Seq(T), KeepsFirsts(tables, n, d),
           NEW e, e = IF Skipped(tables, n + 1) THEN d ELSE Append(d, tables[n + 1])
    PROVE  e \in Seq(T) /\ KeepsFirsts(tables, n + 1, e)
  <1> DEFINE t == tables[n + 1]
  <1>1. t \in T
    OBVIOUS
  <1>2. CASE Skipped(tables, n + 1)
    <2>1. e = d
      BY <1>2
    <2>2. t # NoName => \E i \in 1..n : tables[i] = t
      BY <1>2, SkippedNames
    <2>3. \A i \in 1..(n + 1) : i \in 1..n \/ tables[i] = t
      OBVIOUS
    <2>4. \A i \in 1..(n + 1) : tables[i] # NoName => \E k \in 1..Len(d) : d[k] = tables[i]
      <3>1. \A i \in 1..n : tables[i] # NoName => \E k \in 1..Len(d) : d[k] = tables[i]
        BY DEF KeepsFirsts
      <3>2. t # NoName => \E k \in 1..Len(d) : d[k] = t
        BY <2>2, <3>1
      <3> HIDE DEF t
      <3>3. QED
        BY <2>3, <3>1, <3>2
    <2>5. \A k \in 1..Len(d) : d[k] # NoName /\ \E i \in 1..(n + 1) : tables[i] = d[k]
      BY DEF KeepsFirsts
    <2>6. ASSUME NEW k \in 1..Len(d), NEW l \in 1..Len(d), k < l,
                 NEW j \in 1..(n + 1), tables[j] = d[l]
          PROVE  \E i \in 1..(j - 1) : tables[i] = d[k]
      <3>1. CASE j \in 1..n
        BY <2>6, <3>1 DEF KeepsFirsts
      <3>2. CASE j = n + 1
        <4>1. PICK h \in 1..n : tables[h] = d[l]
          BY <2>2, <2>6, <3>2 DEF KeepsFirsts
        <4>2. PICK i \in 1..(h - 1) : tables[i] = d[k]
          BY <2>6, <4>1 DEF KeepsFirsts
        <4>3. i \in 1..(j - 1)
          BY <3>2
        <4>4. QED
          BY <4>2, <4>3
      <3>3. QED
        BY <3>1, <3>2
    <2>7. QED
      BY <2>1, <2>4, <2>5, <2>6 DEF KeepsFirsts
  <1>3. CASE ~ Skipped(tables, n + 1)
    <2>1. /\ e = Append(d, t) /\ t # NoName /\ \A i \in 1..n : tables[i] # t
      BY <1>3, SkippedNames
    <2>2. /\ e \in Seq(T) /\ Len(e) = Len(d) + 1 /\ e[Len(e)] = t
          /\ \A k \in 1..Len(d) : e[k] = d[k]
          /\ \A k \in 1..Len(e) : k \in 1..Len(d) \/ k = Len(e)
          /\ Len(e) \in 1..Len(e) /\ \A k \in 1..Len(d) : k \in 1..Len(e)
      BY <1>1, <2>1
    <2>3. \A i \in 1..(n + 1) : tables[i] # NoName => \E k \in 1..Len(e) : e[k] = tables[i]
      <3>1. \A i \in 1..(n + 1) : i \in 1..n \/ tables[i] = t
        OBVIOUS
      <3>2. QED
        BY <2>2, <3>1 DEF KeepsFirsts
    <2>4. \A k \in 1..Len(e) : e[k] # NoName /\ \E i \in 1..(n + 1) : tables[i] = e[k]
      BY <2>1, <2>2 DEF KeepsFirsts
    <2>5. \A k \in 1..Len(d) : d[k] # t
      BY <2>1 DEF KeepsFirsts
    <2>6. \A k, l \in 1..Len(e) : e[k] = e[l] => k = l
      BY <2>2, <2>5 DEF KeepsFirsts
    <2>7. ASSUME NEW k \in 1..Len(e), NEW l \in 1..Len(e), k < l,
                 NEW j \in 1..(n + 1), tables[j] = e[l]
          PROVE  \E i \in 1..(j - 1) : tables[i] = e[k]
      <3>1. k \in 1..Len(d) /\ e[k] = d[k]
        BY <2>2, <2>7
      <3>2. CASE l \in 1..Len(d)
        <4>1. j \in 1..n /\ e[l] = d[l]
          BY <2>2, <2>5, <2>7, <3>2
        <4>2. QED
          BY <2>7, <3>1, <3>2, <4>1 DEF KeepsFirsts
      <3>3. CASE l = Len(e)
        <4>1. j = n + 1
          BY <2>1, <2>2, <2>7, <3>3
        <4>2. PICK i \in 1..n : tables[i] = d[k]
          BY <3>1 DEF KeepsFirsts
        <4>3. i \in 1..(j - 1)
          BY <4>1
        <4>4. QED
          BY <3>1, <4>2, <4>3
      <3>4. QED
        BY <2>2, <3>2, <3>3
    <2>8. QED
      BY <2>2, <2>3, <2>4, <2>6, <2>7 DEF KeepsFirsts
  <1>4. QED
    BY <1>2, <1>3

\* _dedupe keeps every non-empty name of a list, once, in the order in which the
\* names first occur, and nothing else, for any list.
THEOREM DedupeKeepsFirsts ==
    ASSUME NEW T, NEW tables \in Seq(T)
    PROVE  /\ Dedupe(tables) \in Seq(T)
           /\ KeepsFirsts(tables, Len(tables), Dedupe(tables))
  <1> DEFINE n == Len(tables)
  <1>1. n \in Nat
    OBVIOUS
  <1>2. PICK f : KeptBy(tables, n, f) /\ Dedupe(tables) = f[n]
    BY DedupeRuns
  <1> DEFINE G == {m \in Nat : m <= n => f[m] \in Seq(T) /\ KeepsFirsts(tables, m, f[m])}
  <1>3. 0 \in G
    <2>1. f[0] = <<>>
      BY <1>2 DEF KeptBy
    <2>2. <<>> \in Seq(T) /\ KeepsFirsts(tables, 0, <<>>)
      BY DEF KeepsFirsts
    <2>3. QED
      BY <2>1, <2>2
  <1>4. ASSUME NEW m \in Nat, m \in G
        PROVE  m + 1 \in G
    <2> SUFFICES ASSUME m + 1 <= n
                 PROVE  f[m + 1] \in Seq(T) /\ KeepsFirsts(tables, m + 1, f[m + 1])
      OBVIOUS
    <2>1. f[m] \in Seq(T) /\ KeepsFirsts(tables, m, f[m])
      BY <1>1, <1>4
    <2>2. m + 1 \in 1..n /\ (m + 1) - 1 = m
      BY <1>1
    <2>3. f[m + 1] = IF Skipped(tables, m + 1) THEN f[m] ELSE Append(f[m], tables[m + 1])
      BY <1>2, <2>2 DEF KeptBy
    <2>4. QED
      BY <2>1, <2>3, KeepsOneMore
  <1>5. G \in SUBSET Nat /\ \A m \in Nat : m \in G => m + 1 \in G
    BY <1>4, Zenon
  <1>6. n \in G
    <2> HIDE DEF G
    <2>1. Nat \subseteq G
      BY <1>3, <1>5, Reaches, Zenon
    <2>2. QED
      BY <1>1, <2>1
  <1>7. QED
    BY <1>1, <1>2, <1>6

Deduped(tables) == \E t \in TableLists : tables = Dedupe(t)

AsSeeded(p) == SeedProducts[p] # None /\ products[p]["tables"] = SeedProducts[p]["tables"]

\* What is stored or about to be has passed through _dedupe.
TablesDeduped ==
    /\ \A p \in Products :
          products[p] # None => AsSeeded(p) \/ Deduped(products[p]["tables"])
    /\ \A r \in Requests :
          "tables" \in DOMAIN call[r].wanted => Deduped(call[r].wanted["tables"])

\* What an arriving call would write to the tables of a product was deduplicated.
LEMMA CallsDedupe ==
    ASSUME TypeOK, NEW r \in Requests, Begin(r)
    PROVE  \/ call' = call
           \/ \E c : /\ call' = [call EXCEPT ![r] = c]
                     /\ "tables" \in DOMAIN c.wanted => Deduped(c.wanted["tables"])
  <1> DEFINE Dedupes(c) == "tables" \in DOMAIN c.wanted => Deduped(c.wanted["tables"])
             Goal == call' = call \/ \E c : call' = [call EXCEPT ![r] = c] /\ Dedupes(c)
  <1>1. ASSUME NEW u, NEW p, NEW op, NEW w, NEW v, BeginEdit(r, u, p, op, w, v),
               "tables" \in DOMAIN w => Deduped(w["tables"])
        PROVE  Goal
    <2> DEFINE c == [op |-> op, user |-> u, product |-> p, wanted |-> w, revision |-> v]
    <2>1. call' = [call EXCEPT ![r] = c]
      BY <1>1 DEF BeginEdit
    <2>2. c.wanted = w
      OBVIOUS
    <2> HIDE DEF c
    <2>3. QED
      BY <1>1, <2>1, <2>2
  <1>2. ASSUME NEW u, NEW chosen, RefuseCreate(r, u, chosen) PROVE Goal
    BY <1>2 DEF RefuseCreate, Abort
  <1>3. ASSUME NEW u, NEW chosen, NEW body \in NewProducts, NEW p,
               BeginCreate(r, u, chosen, body, p)
        PROVE  Goal
    <2> DEFINE w(team) == [d \in Columns |->
                             CASE d = "team"            -> team
                               [] d = "created_by"      -> u
                               [] d = "last_updated_by" -> u
                               [] d = "last_updated_at" -> r
                               [] d = "tables"          -> Dedupe(body["tables"])
                               [] OTHER                 -> body[d]]
               call1(team) == [op |-> "create", user |-> u, product |-> p, revision |-> None,
                               wanted |-> w(team)]
    <2>1. PICK c : call' = [call EXCEPT ![r] = c] /\ c.wanted["tables"] = Dedupe(body["tables"])
      <3>1. PICK team : call' = [call EXCEPT ![r] = call1(team)]
        BY <1>3 DEF BeginCreate
      <3>2. w(team)["tables"] = Dedupe(body["tables"])
        BY DEF Columns, BodyColumns
      <3>3. call1(team).wanted = w(team)
        OBVIOUS
      <3> HIDE DEF w, call1
      <3>4. call1(team).wanted["tables"] = Dedupe(body["tables"])
        BY <3>2, <3>3
      <3>5. QED
        BY <3>1, <3>4
    <2>2. body["tables"] \in TableLists
      BY BodiesAssumption DEF IsChange, BodyColumns, ValuesOf
    <2>3. QED
      BY <2>1, <2>2 DEF Deduped
  <1>4. ASSUME NEW u \in Users, NEW p, NEW patch \in Patches, BeginUpdate(r, u, p, patch)
        PROVE  Goal
    <2>1. IsChange(Given(patch), EditColumns)
      BY BodiesAssumption
    <2>2. /\ DOMAIN Given(patch) \subseteq EditColumns
          /\ DOMAIN Metadata(r, u, patch)
                = DOMAIN Given(patch) \cup {"last_updated_by", "last_updated_at"}
      BY <2>1, MetadataFacts DEF IsChange
    <2>3. "tables" \notin DOMAIN Metadata(r, u, patch)
      BY <2>2 DEF EditColumns, TextFields
    <2>4. QED
      BY <1>1, <1>4, <2>3 DEF BeginUpdate
  <1>5. ASSUME NEW u \in Users, NEW p, NEW v \in revisions, BeginRestore(r, u, p, v)
        PROVE  Goal
    <2> DEFINE patch == [c \in {v.field} |-> v.content]
    <2>1. v.field \in TextFields
      BY DEF TypeOK, Revision
    <2>2. "tables" \notin DOMAIN Metadata(r, u, patch)
      BY <2>1 DEF Metadata, Given, TextFields
    <2>3. QED
      BY <1>1, <1>5, <2>2 DEF BeginRestore
  <1>6. ASSUME NEW u, NEW p, NEW tables \in TableLists, BeginSetTables(r, u, p, tables)
        PROVE  Goal
    <2> DEFINE w == [c \in {"tables", "last_updated_by"} |->
                        IF c = "tables" THEN Dedupe(tables) ELSE u]
    <2>1. Deduped(w["tables"])
      BY DEF Deduped
    <2>2. QED
      BY <1>1, <1>6, <2>1 DEF BeginSetTables
  <1>7. ASSUME NEW u, NEW p, BeginDelete(r, u, p) PROVE Goal
    BY <1>1, <1>7 DEF BeginDelete
  <1>8. QED
    <2> HIDE DEF Goal
    <2>1. Goal
      BY <1>2, <1>3, <1>4, <1>5, <1>6, <1>7 DEF Begin
    <2>2. QED
      BY <2>1 DEF Goal

\* A commit stores the tables it was asked to, or leaves them.
LEMMA TablesDedupedKept ==
    ASSUME IInv, TablesDeduped, NEW r \in Requests,
           Begin(r) \/ Step(r) \/ CommitLost(r) \/ Fail(r) \/ DeadlockVictim(r)
    PROVE  TablesDeduped'
  <1>1. Kind(r)
    BY StepKinds DEF IInv, Kind
  <1>2. ASSUME NEW p \in Products, products'[p] # None
        PROVE  AsSeeded(p)' \/ Deduped(products'[p]["tables"])
    <2>1. CASE products'[p] = products[p]
      BY <1>2, <2>1 DEF TablesDeduped, AsSeeded
    <2>2. CASE products'[p] # products[p]
      <3>1. PICK l \in Labels : Ends(r, l)
        BY <1>1, <2>2, OnlyEndsWrite
      <3>2. CASE call[r].op = "create" /\ products'[p] = call[r].wanted
        <4>1. "tables" \in DOMAIN call[r].wanted
          BY <3>2 DEF IInv, TypeOK, CallShape, Idle, IsRow, Columns, BodyColumns
        <4>2. QED
          BY <3>2, <4>1 DEF TablesDeduped
      <3>3. CASE products[p] # None /\ products'[p] = Overlay(products[p], Changes(r))
        <4>1. CASE "tables" \in DOMAIN Changes(r)
          <5>1. /\ "tables" \in DOMAIN call[r].wanted
                /\ products'[p]["tables"] = call[r].wanted["tables"]
            BY <3>3, <4>1, ChangesFacts DEF Overlay, Columns, BodyColumns
          <5>2. QED
            BY <5>1 DEF TablesDeduped
        <4>2. CASE "tables" \notin DOMAIN Changes(r)
          <5>1. products'[p]["tables"] = products[p]["tables"]
            BY <3>3, <4>2 DEF Overlay, Columns, BodyColumns
          <5>2. QED
            BY <3>3, <5>1 DEF TablesDeduped, AsSeeded
        <4>3. QED
          BY <4>1, <4>2
      <3>4. QED
        BY <1>2, <2>2, <3>1, <3>2, <3>3, CommitEffect DEF IInv
    <2>3. QED
      BY <2>1, <2>2
  <1>3. ASSUME NEW s \in Requests, "tables" \in DOMAIN call'[s].wanted
        PROVE  Deduped(call'[s].wanted["tables"])
    <2>1. CASE Begin(r)
      <3>1. CASE call' = call
        BY <1>3, <3>1 DEF TablesDeduped
      <3>2. CASE call' # call
        <4>1. PICK c : /\ call' = [call EXCEPT ![r] = c]
                       /\ "tables" \in DOMAIN c.wanted => Deduped(c.wanted["tables"])
          <5>1. TypeOK
            BY DEF IInv
          <5>2. QED
            BY <2>1, <3>2, <5>1, CallsDedupe
        <4>2. call'[s] = c \/ call'[s] = call[s]
          BY <4>1 DEF IInv, TypeOK
        <4>3. QED
          BY <1>3, <4>1, <4>2 DEF TablesDeduped
      <3>3. QED
        BY <3>1, <3>2
    <2>2. CASE Step(r) \/ CommitLost(r) \/ Fail(r) \/ DeadlockVictim(r)
      <3>1. call' = call
        BY <2>2 DEF Step, SkipLoad, LoadProduct, FindRevision, Snapshot, WriteRow, ClaimName,
                    CommitOk, CommitLost, Commit, Respond, Fail, DeadlockVictim, Abort
      <3>2. QED
        BY <1>3, <3>1 DEF TablesDeduped
    <2>3. QED
      BY <2>1, <2>2
  <1>4. QED
    BY <1>2, <1>3 DEF TablesDeduped, AsSeeded, Deduped

\* A list of tables that is not as it was seeded names no table twice, and none
\* that is empty.
TablesListedOnce ==
    \A p \in Products : products[p] # None =>
        \/ AsSeeded(p)
        \/ LET tables == products[p]["tables"] IN
           /\ \A k \in 1..Len(tables) : tables[k] # NoName
           /\ \A k, l \in 1..Len(tables) : tables[k] = tables[l] => k = l

\* Whatever lists are sent, by creations and saves of any number, every list that
\* is committed names a table once (_dedupe of data_product_repo.py).
THEOREM TablesAreListedOnce == Spec => []TablesListedOnce
  <1>1. Init => TablesDeduped
    BY DEF Init, TablesDeduped, AsSeeded, Idle
  <1>2. ASSUME IInv, TablesDeduped, [Next]_vars PROVE TablesDeduped'
    <2>1. CASE UNCHANGED vars
      BY <1>2, <2>1 DEF vars, TablesDeduped, AsSeeded, Deduped
    <2>2. QED
      BY <1>2, <2>1, TablesDedupedKept DEF Next, Terminated
  <1>3. TablesDeduped => TablesListedOnce
    <2> SUFFICES ASSUME TablesDeduped, NEW p \in Products, products[p] # None, ~ AsSeeded(p)
                 PROVE  LET tables == products[p]["tables"] IN
                        /\ \A k \in 1..Len(tables) : tables[k] # NoName
                        /\ \A k, l \in 1..Len(tables) : tables[k] = tables[l] => k = l
      BY DEF TablesListedOnce
    <2>1. PICK t \in TableLists : products[p]["tables"] = Dedupe(t)
      BY DEF TablesDeduped, Deduped
    <2>2. KeepsFirsts(t, Len(t), Dedupe(t))
      BY BodiesAssumption, DedupeKeepsFirsts
    <2>3. QED
      BY <2>1, <2>2 DEF KeepsFirsts
  <1>4. QED
    BY <1>1, <1>2, <1>3, Invariance, PTL DEF Spec

=============================================================================
