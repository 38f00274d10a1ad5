---------------------------- MODULE DataProducts ----------------------------
(***************************************************************************)
(* The write side of the catalog: the data-product endpoints of            *)
(* backend/app/routers/data_products.py, the service and repositories they *)
(* call, and the two PostgreSQL tables they write.                         *)
(*                                                                         *)
(* A request is one HTTP call.  It owns one SQLAlchemy session, hence one  *)
(* READ COMMITTED transaction, and gives up the event loop at every        *)
(* statement, so the statements of concurrent requests interleave.  One    *)
(* action stands for one statement with the Python code up to the next.    *)
(*                                                                         *)
(*   idle -> load -> [revision ->] snapshot -> write -> [claim ->] commit  *)
(*        -> committed -> done                                             *)
(*                                                                         *)
(* products and revisions hold what is committed.  What a request has      *)
(* written but not committed, and the locks it holds for it, follow from   *)
(* its pc, its call and the row it loaded (Changes, Drafts, Written ...).  *)
(***************************************************************************)
EXTENDS ProductData, Naturals, Sequences

CONSTANTS
    NewProducts,   \* the bodies of POST: a value for each BodyColumn
    Patches,       \* the bodies of PATCH: a value for some EditColumns
    SeedProducts,  \* the products table as the requests find it
    SeedRevisions  \* the revisions table as the requests find it

\* The responses: HTTP statuses, and the kinds of 500 told apart.
Codes == {"200", "400", "403", "404", "409", "fk_violation", "stale_data",
          "unhandled_duplicate", "failed", "deadlock", "lost_commit", "expired_read"}

\* The i-th name is empty or was seen before.
Skipped(tables, i) == tables[i] = "" \/ \E j \in 1..(i - 1) : tables[j] = tables[i]

\* _dedupe: the non-empty names in order of their first occurrence.
Dedupe(tables) ==
    LET kept[i \in 0..Len(tables)] ==
            IF i = 0 THEN <<>>
            ELSE IF Skipped(tables, i) THEN kept[i - 1]
                 ELSE Append(kept[i - 1], tables[i])
    IN  kept[Len(tables)]

\* What a PATCH body gives: a null name is ignored.
Given(patch) ==
    [c \in {d \in DOMAIN patch : d # "name" \/ patch[d] # None} |-> patch[c]]

ASSUME SentinelsAssumption ==
    /\ None \notin Requests \cup Users \cup Teams \cup Products \cup Names
    /\ None \notin Texts \cup Schedules \cup Codes
    /\ None \notin [name : Names, description : Texts \cup {None},
                    documentation : Texts \cup {None}, schedule_type : Schedules \cup {None},
                    tables : TableLists, team : Teams \cup {None}, created_by : Users,
                    last_updated_by : Users, last_updated_at : Stamps]
    /\ Seeded \notin Requests

ASSUME UsersAssumption ==
    /\ Masters \subseteq Users
    /\ TeamsOf \in [Users -> SUBSET Teams]
    /\ Lower \in [Teams -> Teams]

ASSUME BodiesAssumption ==
    /\ \A t \in TableLists : t \in Seq(STRING) /\ Dedupe(t) \in TableLists
    /\ \A b \in NewProducts : IsChange(b, BodyColumns) /\ DOMAIN b = BodyColumns
    /\ \A b \in Patches : IsChange(Given(b), EditColumns)

ASSUME SeedAssumption ==
    /\ SeedProducts = [p \in Products |-> SeedProducts[p]]
    /\ \A p \in Products : SeedProducts[p] = None \/ IsRow(SeedProducts[p])
    /\ \A p, q \in Products :
          SeedProducts[p] # None /\ SeedProducts[q] # None
            /\ SeedProducts[p]["name"] = SeedProducts[q]["name"] => p = q
    /\ \A p \in Products :
          SeedProducts[p] # None => SeedProducts[p]["last_updated_at"] = Seeded
    /\ SeedRevisions \subseteq Revision
    /\ \A v \in SeedRevisions : v.request = Seeded /\ SeedProducts[v.product] # None

VARIABLES
    products,   \* products[p]: the committed row of p, or None
    revisions,  \* the committed revisions
    born,       \* ids whose creation was ever committed: those a client can know
    pc,         \* pc[r]: the statement r executes next
    call,       \* call[r]: what r was asked to do
    loaded,     \* loaded[r]: the row in r's identity map, as first read
    answer      \* answer[r]: the response of r, or None

vars == <<products, revisions, born, pc, call, loaded, answer>>

Init ==
    /\ products  = SeedProducts
    /\ revisions = SeedRevisions
    /\ born      = {p \in Products : SeedProducts[p] # None}
    /\ pc        = [r \in Requests |-> "idle"]
    /\ call      = [r \in Requests |-> Idle]
    /\ loaded    = [r \in Requests |-> None]
    /\ answer    = [r \in Requests |-> None]

-----------------------------------------------------------------------------
(* What a request has written and which locks it holds                     *)

\* The columns the session's UPDATE names: those assigned a value other than
\* the one loaded (all of them for an INSERT, which loads no row).
Changes(r) ==
    LET w == call[r].wanted
    IN  [c \in {d \in DOMAIN w : loaded[r] = None \/ w[d] # loaded[r][d]} |-> w[c]]

\* The revisions the session inserts.
Draft(r, f, source) ==
    [request |-> r, product |-> call[r].product, field |-> f,
     content |-> loaded[r][f], changed_by |-> call[r].user,
     change_source |-> source]

\* A plausible bug: documentation is left out of the history.
DraftsOfDescription(r) ==
    CASE call[r].op = "update" ->
            {Draft(r, f, "user") : f \in {"description"} \cap DOMAIN Changes(r)}
      [] call[r].op = "restore" -> {Draft(r, call[r].revision.field, "restore")}
      [] OTHER                  -> {}

Drafts(r) ==
    CASE call[r].op = "update"  ->
            {Draft(r, f, "user") : f \in TextFields \cap DOMAIN Changes(r)}
      [] call[r].op = "restore" -> {Draft(r, call[r].revision.field, "restore")}
      [] OTHER                  -> {}

InTransaction(r) == pc[r] \in {"write", "claim", "commit"}

Renames(r) == "name" \in DOMAIN Changes(r)

\* A plausible change: every UPDATE locks as if it changed the key.
ExclusiveAlways(r) == TRUE

\* The row is locked FOR UPDATE by a DELETE and by an UPDATE of the unique name,
\* FOR NO KEY UPDATE by any other UPDATE.
Exclusive(r) == call[r].op = "delete" \/ Renames(r)

\* A plausible bug: a failed request's session is not rolled back.
WrittenUntilRollback(r) ==
    /\ pc[r] \in {"claim", "commit"} \/ answer[r] = "failed"
    /\ call[r].op \notin {"none", "create"}
    /\ call[r].op = "delete" \/ DOMAIN Changes(r) # {}

\* r's UPDATE or DELETE has run and holds the row's lock.
Written(r) ==
    /\ pc[r] \in {"claim", "commit"}
    /\ call[r].op # "create"
    /\ call[r].op = "delete" \/ DOMAIN Changes(r) # {}

\* The foreign key of an inserted revision holds its product FOR KEY SHARE.
HoldsKeyShare(r) == InTransaction(r) /\ Drafts(r) # {}

\* r's entry is in the unique index on name.
Claimed(r) == pc[r] = "commit" /\ Renames(r)

Rivals(r) == {s \in Requests \ {r} : call[s].product = call[r].product}

SnapshotBlockers(r) ==
    {s \in Rivals(r) : Drafts(r) # {} /\ Written(s) /\ Exclusive(s)}

WriteBlockers(r) ==
    {s \in Rivals(r) : \/ Written(s)
                       \/ Exclusive(r) /\ HoldsKeyShare(s)}

\* A unique index waits for an uncommitted equal entry and for an equal entry
\* whose row an uncommitted transaction renames or deletes.
NameBlockers(r) ==
    {s \in Requests \ {r} :
        \/ Claimed(s) /\ Changes(s)["name"] = Changes(r)["name"]
        \/ /\ Written(s) /\ Exclusive(s)
           /\ products[call[s].product] # None
           /\ products[call[s].product]["name"] = Changes(r)["name"]}

\* A plausible change: the column name without unique=True.
NeverTaken(r) == FALSE

NameTaken(r) ==
    \E q \in Products \ {call[r].product} :
        products[q] # None /\ products[q]["name"] = Changes(r)["name"]

Blockers(r) ==
    CASE pc[r] = "snapshot" -> SnapshotBlockers(r)
      [] pc[r] = "write"    -> WriteBlockers(r)
      [] pc[r] = "claim"    -> NameBlockers(r)
      [] OTHER              -> {}

-----------------------------------------------------------------------------
(* Steps every handler shares                                              *)

Goto(r, l) == pc' = [pc EXCEPT ![r] = l]

Answer(r, a) == Goto(r, "done") /\ answer' = [answer EXCEPT ![r] = a]

NoWrite == UNCHANGED <<products, revisions, born>>

\* An error before COMMIT: get_db_session rolls the transaction back.
Abort(r, a) == Answer(r, a) /\ NoWrite /\ UNCHANGED <<call, loaded>>

-----------------------------------------------------------------------------
(* Arrival of a request: authentication, the permission check              *)

\* create_data_product: the owning team, None, or a refusal.
TeamChoices(u, chosen) ==
    IF chosen # None
    THEN IF u \in Masters \/ SameTeam(chosen, TeamsOf[u]) THEN {chosen} ELSE {}
    ELSE IF TeamsOf[u] = {} THEN {None}
         ELSE {t \in TeamsOf[u] : TeamsOf[u] = {t}}

BeginCreate(r, u, chosen, body, p) ==
    /\ pc[r] = "idle"
    /\ p \notin born
    /\ \A s \in Requests : call[s].op = "create" => call[s].product # p
    /\ \E team \in TeamChoices(u, chosen) :
          call' = [call EXCEPT ![r] =
             [op |-> "create", user |-> u, product |-> p, revision |-> None,
              wanted |-> [c \in Columns |->
                CASE c = "team"            -> team
                  [] c = "created_by"      -> u
                  [] c = "last_updated_by" -> u
                  [] c = "last_updated_at" -> r
                  [] c = "tables"          -> Dedupe(body["tables"])
                  [] OTHER                 -> body[c]]]]
    /\ Goto(r, "claim")
    /\ NoWrite /\ UNCHANGED <<loaded, answer>>

\* 403: not one of the user's teams; 400: several teams and none chosen.
RefuseCreate(r, u, chosen) ==
    /\ pc[r] = "idle"
    /\ TeamChoices(u, chosen) = {}
    /\ Abort(r, IF chosen = None THEN "400" ELSE "403")

\* A plausible bug: an unassigned product is anybody's to edit.
AuthorizeUnassigned(r, u, p) ==
    /\ loaded' = [loaded EXCEPT ![r] = IF u \in Masters THEN None ELSE products[p]]
    /\ IF \/ products[p] = None \/ MayEdit(u, products[p])
          \/ products[p]["team"] = None
       THEN Goto(r, "load") /\ UNCHANGED answer
       ELSE Answer(r, "403")

\* require_team_membership: a master's product is not loaded, a missing one is
\* left to the endpoint, any other stays in the session's identity map.
Authorize(r, u, p) ==
    \/ /\ u \in Masters \/ products[p] = None
       /\ Goto(r, "load")
       /\ UNCHANGED <<loaded, answer>>
    \/ /\ u \notin Masters /\ products[p] # None /\ MayEdit(u, products[p])
       /\ loaded' = [loaded EXCEPT ![r] = products[p]]
       /\ Goto(r, "load")
       /\ UNCHANGED answer
    \/ /\ products[p] # None /\ ~ MayEdit(u, products[p])
       /\ Answer(r, "403")
       /\ UNCHANGED loaded

BeginEdit(r, u, p, op, wanted, v) ==
    /\ pc[r] = "idle"
    /\ p \in born
    /\ call' = [call EXCEPT ![r] =
                 [op |-> op, user |-> u, product |-> p,
                  wanted |-> wanted, revision |-> v]]
    /\ Authorize(r, u, p)
    /\ NoWrite

\* The columns update_metadata assigns.
Metadata(r, u, patch) ==
    [c \in DOMAIN Given(patch) \cup {"last_updated_by", "last_updated_at"} |->
        CASE c = "last_updated_by" -> u
          [] c = "last_updated_at" -> r
          [] OTHER                 -> Given(patch)[c]]

BeginUpdate(r, u, p, patch) ==
    BeginEdit(r, u, p, "update", Metadata(r, u, patch), None)

BeginRestore(r, u, p, v) ==
    BeginEdit(r, u, p, "restore",
              Metadata(r, u, [c \in {v.field} |-> v.content]), v)

BeginSetTables(r, u, p, tables) ==
    BeginEdit(r, u, p, "set_tables",
              [c \in {"tables", "last_updated_by"} |->
                  IF c = "tables" THEN Dedupe(tables) ELSE u], None)

BeginDelete(r, u, p) ==
    BeginEdit(r, u, p, "delete", [c \in {} |-> None], None)

Begin(r) ==
    \/ \E u \in Users, chosen \in Teams \cup {None} :
          \/ RefuseCreate(r, u, chosen)
          \/ \E body \in NewProducts, p \in Products :
                BeginCreate(r, u, chosen, body, p)
    \/ \E u \in Users, p \in Products :
          \/ \E patch \in Patches     : BeginUpdate(r, u, p, patch)
          \/ \E tables \in TableLists : BeginSetTables(r, u, p, tables)
          \/ \E v \in revisions       : BeginRestore(r, u, p, v)
          \/ BeginDelete(r, u, p)

-----------------------------------------------------------------------------
(* The statements of a handler                                             *)

AfterLoad(op) == CASE op = "update"     -> "snapshot"
                   [] op = "restore"    -> "revision"
                   [] op = "set_tables" -> "write"
                   [] op = "delete"     -> "write"

\* update reuses the preloaded product and delete reads nothing.
ReadsNothing(r) == \/ call[r].op = "delete"
                   \/ call[r].op = "update" /\ loaded[r] # None

SkipLoad(r) ==
    /\ pc[r] = "load"
    /\ ReadsNothing(r)
    /\ Goto(r, AfterLoad(call[r].op))
    /\ NoWrite /\ UNCHANGED <<call, loaded, answer>>

\* get_by_id: a row already in the identity map keeps the values first read.
LoadProduct(r) ==
    LET p == call[r].product
    IN  /\ pc[r] = "load"
        /\ ~ ReadsNothing(r)
        /\ \/ /\ products[p] = None
              /\ Abort(r, "404")
           \/ /\ products[p] # None
              /\ loaded' = [loaded EXCEPT ![r] =
                              IF loaded[r] = None THEN products[p] ELSE loaded[r]]
              /\ Goto(r, AfterLoad(call[r].op))
              /\ NoWrite /\ UNCHANGED <<call, answer>>

\* A plausible bug: the revision is not compared with the product of the path.
FindAnyRevision(r) ==
    /\ pc[r] = "revision"
    /\ \/ call[r].revision \notin revisions /\ Abort(r, "404")
       \/ /\ call[r].revision \in revisions
          /\ Goto(r, "snapshot")
          /\ NoWrite /\ UNCHANGED <<call, loaded, answer>>

\* restore_revision: the revision must exist and be of this product.
FindRevision(r) ==
    /\ pc[r] = "revision"
    /\ LET v == call[r].revision
       IN  \/ /\ v \notin revisions \/ v.product # call[r].product
              /\ Abort(r, "404")
           \/ /\ v \in revisions /\ v.product = call[r].product
              /\ Goto(r, "snapshot")
              /\ NoWrite /\ UNCHANGED <<call, loaded, answer>>

\* A plausible bug: the repository commits the revision it inserts.
SnapshotAndCommit(r) ==
    /\ pc[r] = "snapshot"
    /\ SnapshotBlockers(r) = {}
    /\ Drafts(r) = {} \/ products[call[r].product] # None
    /\ revisions' = revisions \cup Drafts(r)
    /\ Goto(r, "write")
    /\ UNCHANGED <<products, born, call, loaded, answer>>

\* RevisionRepository.create, once per changed text field.  The first INSERT
\* takes the key-share lock, so nothing can come between it and the second.
Snapshot(r) ==
    /\ pc[r] = "snapshot"
    /\ SnapshotBlockers(r) = {}
    /\ \/ /\ Drafts(r) # {} /\ products[call[r].product] = None
          /\ Abort(r, "fk_violation")
       \/ /\ Drafts(r) = {} \/ products[call[r].product] # None
          /\ Goto(r, "write")
          /\ NoWrite /\ UNCHANGED <<call, loaded, answer>>

\* A plausible bug: the number of rows found is not looked at.
WriteAnyRow(r) ==
    /\ pc[r] = "write"
    /\ call[r].op = "delete" \/ DOMAIN Changes(r) # {} => WriteBlockers(r) = {}
    /\ Goto(r, IF Renames(r) THEN "claim" ELSE "commit")
    /\ NoWrite /\ UNCHANGED <<call, loaded, answer>>

\* The UPDATE of the changed columns, or the DELETE.
WriteRow(r) ==
    LET writes  == call[r].op = "delete" \/ DOMAIN Changes(r) # {}
        missing == products[call[r].product] = None
    IN  /\ pc[r] = "write"
        /\ writes => WriteBlockers(r) = {}
        /\ \/ /\ writes /\ missing
              /\ Abort(r, IF call[r].op = "delete" THEN "404" ELSE "stale_data")
           \/ /\ writes => ~ missing
              /\ Goto(r, IF Renames(r) THEN "claim" ELSE "commit")
              /\ NoWrite /\ UNCHANGED <<call, loaded, answer>>

\* The unique-index insertion of an INSERT or a rename.  create_product turns
\* the IntegrityError into a 409; update_metadata flushes outside the try block.
ClaimName(r) ==
    /\ pc[r] = "claim"
    /\ NameBlockers(r) = {}
    /\ \/ /\ NameTaken(r)
          /\ Abort(r, IF call[r].op = "create" THEN "409" ELSE "unhandled_duplicate")
       \/ /\ ~ NameTaken(r)
          /\ Goto(r, "commit")
          /\ NoWrite /\ UNCHANGED <<call, loaded, answer>>

\* COMMIT makes the request's row and revisions visible together.
Overlay(row, changes) ==
    [c \in Columns |-> IF c \in DOMAIN changes THEN changes[c] ELSE row[c]]

CommitCreate(r) ==
    /\ call[r].op = "create"
    /\ products' = [products EXCEPT ![call[r].product] = call[r].wanted]
    /\ born' = born \cup {call[r].product}
    /\ UNCHANGED revisions

\* A plausible change: the foreign key does not cascade.
CommitDeleteAlone(r) ==
    /\ call[r].op = "delete"
    /\ products' = [products EXCEPT ![call[r].product] = None]
    /\ UNCHANGED <<revisions, born>>

CommitDelete(r) ==
    /\ call[r].op = "delete"
    /\ products' = [products EXCEPT ![call[r].product] = None]
    /\ revisions' = {v \in revisions : v.product # call[r].product}
    /\ UNCHANGED born

\* A plausible change: the row is merged into the session and written whole.
CommitWholeRow(r) ==
    /\ call[r].op \in {"update", "set_tables", "restore"}
    /\ products' = [products EXCEPT ![call[r].product] = Overlay(loaded[r], Changes(r))]
    /\ revisions' = revisions \cup Drafts(r)
    /\ UNCHANGED born

CommitEdit(r) ==
    /\ call[r].op \in {"update", "set_tables", "restore"}
    /\ products' = IF DOMAIN Changes(r) = {} THEN products
                   ELSE [products EXCEPT ![call[r].product] = Overlay(@, Changes(r))]
    /\ revisions' = revisions \cup Drafts(r)
    /\ UNCHANGED born

Commit(r) ==
    /\ pc[r] = "commit"
    /\ CommitCreate(r) \/ CommitDelete(r) \/ CommitEdit(r)
    /\ UNCHANGED <<call, loaded>>

CommitOk(r) == Commit(r) /\ Goto(r, "committed") /\ UNCHANGED answer

\* The server committed and the connection broke before it said so.
CommitLost(r) == Commit(r) /\ Answer(r, "lost_commit")

\* product_list_cache.clear(), then the response.  An UPDATE leaves updated_at,
\* which the database computes, expired; _to_detail reads it outside an await.
Respond(r) ==
    /\ pc[r] = "committed"
    /\ Answer(r, IF call[r].op = "set_tables" /\ DOMAIN Changes(r) # {}
                 THEN "expired_read" ELSE "200")
    /\ NoWrite /\ UNCHANGED <<call, loaded>>

\* A statement fails: connection lost, command_timeout, process killed.
Fail(r) ==
    /\ pc[r] \in {"load", "revision", "snapshot", "write", "claim", "commit"}
    /\ Abort(r, "failed")

\* PostgreSQL aborts one member of a minimal set of transactions that all wait
\* for a member of the set.
AllWait(S) == S # {} /\ \A s \in S : Blockers(s) \cap S # {}

WaitCycle(S) == AllWait(S) /\ \A T \in SUBSET S : AllWait(T) => T = S

DeadlockVictim(r) ==
    /\ \E S \in SUBSET Requests : r \in S /\ WaitCycle(S)
    /\ Abort(r, "deadlock")

-----------------------------------------------------------------------------

Step(r) ==
    \/ SkipLoad(r) \/ LoadProduct(r) \/ FindRevision(r) \/ Snapshot(r)
    \/ WriteRow(r) \/ ClaimName(r)   \/ CommitOk(r)     \/ Respond(r)

Terminated == (\A r \in Requests : pc[r] = "done") /\ UNCHANGED vars

Next ==
    \/ \E r \in Requests :
          Begin(r) \/ Step(r) \/ CommitLost(r) \/ Fail(r) \/ DeadlockVictim(r)
    \/ Terminated

Spec == Init /\ [][Next]_vars

\* The event loop resumes every handler whose statement returned, and the
\* database's deadlock detector breaks every cycle of waiting statements.
FairSpec ==
    /\ Spec
    /\ \A r \in Requests : WF_vars(Step(r)) /\ WF_vars(DeadlockVictim(r))

-----------------------------------------------------------------------------
(* Properties                                                              *)

Labels  == {"idle", "load", "revision", "snapshot", "write",
            "claim", "commit", "committed", "done"}
Answers == Codes \cup {None}

\* Every variable keeps its type and every call the shape its operation gives it.
TypeOK ==
    /\ \A p \in Products : products[p] = None \/ IsRow(products[p])
    /\ DOMAIN products = Products
    /\ revisions \subseteq Revision
    /\ born \subseteq Products
    /\ pc \in [Requests -> Labels]
    /\ DOMAIN call = Requests
    /\ \A r \in Requests : CallShape(r, call[r])
    /\ loaded = [r \in Requests |-> loaded[r]]
    /\ \A r \in Requests : loaded[r] = None \/ IsRow(loaded[r])
    /\ answer \in [Requests -> Answers]

\* No two products of the catalog share a name, however creations and renames
\* interleave (models/data_product.py:22, repo.create, update_metadata).
UniqueNames ==
    \A p, q \in Products :
        /\ products[p] # None /\ products[q] # None
        /\ products[p]["name"] = products[q]["name"]
        => p = q

\* The history never outlives its product, even when a delete races the save
\* that writes the revision (delete_product, models/product_revision.py:21).
RevisionsHaveProduct == \A v \in revisions : products[v.product] # None

\* r's transaction committed, whether or not its client was told so.
Durable(r) == pc[r] = "committed" \/ answer[r] \in {"200", "lost_commit", "expired_read"}

\* A request whose transaction did not commit has left nothing behind: neither a
\* revision nor its stamp on a row (get_db_session).
ErrorLeavesNoTrace ==
    /\ \A v \in revisions : v.request # Seeded => Durable(v.request)
    /\ \A p \in Products :
          products[p] # None /\ products[p]["last_updated_at"] # Seeded =>
              Durable(products[p]["last_updated_at"])

\* Statements wait for each other in a circle only when every one of them
\* renames a product: saves of texts and tables, restores and deletes of any
\* number never deadlock (order of the INSERTs and the UPDATE in the service).
DeadlockOnlyAmongRenames ==
    \A S \in SUBSET Requests :
        WaitCycle(S) => \A r \in S : call[r].op = "update" /\ Renames(r)

\* r's transaction commits in this step and it is about p.
Commits(r, p) == pc[r] = "commit" /\ Commit(r) /\ call[r].product = p

Edited(p) == products[p] # None /\ products'[p] # None /\ products'[p] # products[p]

\* A row only changes, or goes, by the commit of a user who may edit the row as
\* it is at that moment, not only as it was when the permission was checked.
WrittenByEditor(p) ==
    products[p] # None /\ products'[p] # products[p] =>
        \E r \in Requests : Commits(r, p) /\ MayEdit(call[r].user, products[p])

OnlyEditorsWrite == [][\A p \in Products : WrittenByEditor(p)]_vars

\* A save touches the columns it was asked to save and no other: concurrent
\* saves of different columns of one product merge (the UPDATE names only the
\* attributes the handler assigned).
SavesMergeByColumn ==
    [][\A p \in Products : Edited(p) =>
          \E r \in Requests :
              /\ Commits(r, p)
              /\ \A c \in Columns : products'[p][c] # products[p][c] =>
                    c \in DOMAIN call[r].wanted /\ products'[p][c] = call[r].wanted[c]
      ]_vars

\* A description or documentation never changes without a revision of the same
\* field committed with it, and the revision holds the overwritten value
\* whenever nobody else changed the field since the request read it.
EveryTextChangeRecorded ==
    [][\A p \in Products, f \in TextFields :
          Edited(p) /\ products'[p][f] # products[p][f] =>
              \E v \in revisions' \ revisions :
                  /\ v.product = p /\ v.field = f
                  /\ Commits(v.request, p) /\ v.changed_by = call[v.request].user
                  /\ loaded[v.request][f] = products[p][f] => v.content = products[p][f]
      ]_vars

\* What a restore writes into a field was recorded in the history of that field
\* of that product, whichever revision id the client put in the path.
RestoreFromOwnHistory ==
    [][\A p \in Products, f \in TextFields :
          Edited(p) /\ products'[p][f] # products[p][f] =>
              \E r \in Requests :
                  /\ Commits(r, p)
                  /\ call[r].op = "restore" =>
                        \E v \in revisions :
                            v.product = p /\ v.field = f /\ v.content = products'[p][f]
      ]_vars

\* What has become of r's request.
Fate(r) == IF Durable(r) THEN "applied"
           ELSE CASE pc[r] = "idle" -> "new"
                  [] pc[r] = "done" -> "refused"
                  [] OTHER          -> "open"

fate == [r \in Requests |-> Fate(r)]

Catalog == INSTANCE ProductCatalog

\* However the statements of requests interleave, fail and wait for each other,
\* a request takes effect as a whole at its COMMIT, with the name free, the
\* permission valid and the restored revision present then, or not at all
\* (get_db_session, the service's handlers and the constraints of models/).
ActsAsCatalog == Catalog!Spec

\* Every request is answered: lock waits end, deadlocks are broken.
EveryRequestAnswered == \A r \in Requests : pc[r] # "idle" ~> pc[r] = "done"

-----------------------------------------------------------------------------
(* The inductive invariant behind the safety properties                    *)

Edits == {"update", "set_tables", "restore", "delete"}

\* Where each kind of call can be, and what it has read by then.
ControlOf(r) ==
    /\ pc[r] = "idle" => call[r].op = "none" /\ loaded[r] = None
    /\ pc[r] \in {"load", "snapshot", "revision", "write"} => call[r].op \in Edits
    /\ pc[r] = "snapshot" => call[r].op \in {"update", "restore"}
    /\ pc[r] = "revision" => call[r].op = "restore"
    /\ pc[r] = "claim" => Renames(r)
    /\ pc[r] \in {"claim", "commit"} => call[r].op \in Edits \cup {"create"}
    /\ call[r].op = "create" => loaded[r] = None
    /\ pc[r] \in {"revision", "snapshot", "write", "claim", "commit"}
         /\ call[r].op \in Edits \ {"delete"} => loaded[r] # None

ControlOK == \A r \in Requests : ControlOf(r)

\* The id of a creation in flight is nobody else's.
FreshIds ==
    /\ \A p \in Products : products[p] # None => p \in born
    /\ \A r \in Requests :
          call[r].op = "create" /\ pc[r] \in {"claim", "commit"} => call[r].product \notin born
    /\ \A r \in Requests : call[r].op \in Edits => call[r].product \in born
    /\ \A r, s \in Requests :
          call[r].op = "create" /\ call[s].op = "create"
            /\ call[r].product = call[s].product => r = s

\* Two requests never hold conflicting locks on one row.
LocksCompatible ==
    \A r, s \in Requests :
        r # s /\ call[r].product = call[s].product /\ Written(r) =>
            ~ Written(s) /\ ~ (Exclusive(r) /\ HoldsKeyShare(s))

\* A locked row is still there.
LockedRowsExist ==
    \A r \in Requests :
        HoldsKeyShare(r) \/ Written(r) => products[call[r].product] # None

\* A name in flight is no other product's and no other request's.
ClaimedNamesFree ==
    \A r \in Requests : Claimed(r) =>
        /\ ~ NameTaken(r)
        /\ \A s \in Requests \ {r} :
              Claimed(s) => Changes(s)["name"] # Changes(r)["name"]

\* The permission checked on arrival still holds for the row as it is.
PermissionHolds ==
    \A r \in Requests :
        /\ pc[r] \notin {"idle", "done"} /\ call[r].op \in Edits
        /\ products[call[r].product] # None
        => MayEdit(call[r].user, products[call[r].product])

\* The revision that a restore has found is of its product, and is there as long
\* as the product is: a delete takes both, and no creation brings the id back.
RestoresOwnRevision ==
    \A r \in Requests :
        /\ call[r].op = "restore" /\ pc[r] \in {"snapshot", "write", "claim", "commit"}
        /\ products[call[r].product] # None
        => call[r].revision \in revisions /\ call[r].revision.product = call[r].product

IInv ==
    /\ TypeOK /\ ControlOK /\ FreshIds
    /\ LocksCompatible /\ LockedRowsExist /\ ClaimedNamesFree
    /\ PermissionHolds /\ UniqueNames /\ RevisionsHaveProduct
    /\ RestoresOwnRevision

-----------------------------------------------------------------------------
(* What the repository says and the code does not do                       *)

\* "Snapshots the previous value of description / documentation before each
\* change" (models/product_revision.py:3): the revision committed with a change
\* holds the value the change overwrites.
HistoryIsComplete ==
    [][\A p \in Products, f \in TextFields :
          Edited(p) /\ products'[p][f] # products[p][f] =>
              \E v \in revisions' \ revisions :
                  v.product = p /\ v.field = f /\ v.content = products[p][f]
      ]_vars

\* "Restore a pipeline field to a previous revision's content"
\* (docs/API_REFERENCE.md:321): a restore that commits leaves the field with the
\* content of the revision it was asked for.
RestoreRestores ==
    [][\A r \in Requests, p \in Products :
          Commits(r, p) /\ call[r].op = "restore" =>
              products'[p][call[r].revision.field] = call[r].revision.content
      ]_vars

=============================================================================
