---------------------------- MODULE CatalogCache ----------------------------
(***************************************************************************)
(* The read side of the catalog: product_list_cache and                    *)
(* catalog_context_cache of backend/app/cache.py, the list and chat        *)
(* requests that fill them and the writes that clear the first.            *)
(*                                                                         *)
(* Every process keeps caches of its own.  The catalog is known by its     *)
(* version, the number of committed writes.  A statement is sent, executed *)
(* by the database and answered, three moments that anything may separate; *)
(* a Tick lets a second go by.  Ages stop growing when they have outgrown  *)
(* everything they are compared with (Horizon, Expired).                   *)
(*                                                                         *)
(*   page of the list:  idle -> count -> counted -> items -> fetched       *)
(*   catalog context :  idle -> items -> fetched                           *)
(***************************************************************************)
EXTENDS Naturals, Sequences, FiniteSets

CONSTANTS
    Processes,     \* backend processes
    Readers,       \* coroutines serving list and chat requests, again and again
    Writers,       \* requests that write the catalog, once each
    Pages,         \* keys of product_list_cache: skip and limit
    Context,       \* the one key of catalog_context_cache
    EmptyVersions, \* the versions at which the catalog has no product
    TTL,           \* cache_ttl_short
    Timeout,       \* db_command_timeout
    Capacity,      \* _MAX_ENTRIES
    None           \* Python's None

Keys == Pages \cup {Context}

ASSUME TimesAssumption == TTL \in Nat /\ Timeout \in Nat /\ Capacity \in Nat

ASSUME KeysAssumption ==
    /\ Context \notin Pages /\ None \notin Keys \cup Processes \cup Nat
    /\ None \notin [age : Nat, total : Nat \cup {None}, items : Nat]

VARIABLES
    since,   \* since[v]: ticks since version v was committed
    store,   \* store[p][k]: the entry of key k in process p, or None
    reader,  \* reader[r]: where r is and what it has read
    writer   \* writer[w]: where w is and the version it committed

vars == <<since, store, reader, writer>>

Version == Len(since)

\* How long ago the version v was superseded.
Staleness(v) == IF v < Version THEN since[v + 1] ELSE 0

Horizon == TTL + 2 * Timeout + 1
Expired == TTL + 1

Older(a, bound) == IF a < bound THEN a + 1 ELSE a

Waiting   == [pc |-> "idle", process |-> None, key |-> None,
              total |-> None, items |-> None, age |-> 0]
Unwritten == [pc |-> "idle", process |-> None, version |-> 0]

Init ==
    /\ since  = <<>>
    /\ store  = [p \in Processes |-> [k \in Keys |-> None]]
    /\ reader = [r \in Readers |-> Waiting]
    /\ writer = [w \in Writers |-> Unwritten]

-----------------------------------------------------------------------------
(* TTLCache                                                                *)

\* A plausible bug: entries are never compared with the clock.
LiveForever(e) == e # None

\* get returns the entry: it is there and has not expired.
Live(e) == e # None /\ e.age <= TTL

\* The keys that share a cache with k.
CacheOf(k) == IF k = Context THEN {Context} ELSE Pages

Entries(p, k) == {j \in CacheOf(k) : store[p][j] # None}

\* A plausible bug: a full cache keeps what expired and drops what has not.
EvictsLive(p, k) ==
    IF Cardinality(Entries(p, k)) >= Capacity
    THEN {j \in Entries(p, k) : Live(store[p][j])}
    ELSE {}

\* set drops what has expired, but only from a cache that is full.
Evicted(p, k) ==
    IF Cardinality(Entries(p, k)) >= Capacity
    THEN {j \in Entries(p, k) : ~ Live(store[p][j])}
    ELSE {}

Set(p, k, total, items) ==
    store' = [store EXCEPT ![p] =
                [j \in Keys |->
                    IF j = k THEN [age |-> 0, total |-> total, items |-> items]
                    ELSE IF j \in Evicted(p, k) THEN None
                    ELSE store[p][j]]]

-----------------------------------------------------------------------------
(* list_products and _build_catalog_context                                *)

\* A page is counted first; the context is one statement.
FirstStatement(k) == IF k = Context THEN "items" ELSE "count"

\* A request that finds no live entry, or whose filters give it no key, sends
\* its first statement.  One that finds an entry answers with it and changes
\* nothing here.
Miss(r, p, k) ==
    /\ reader[r].pc = "idle"
    /\ k # None => ~ Live(store[p][k])
    /\ reader' = [reader EXCEPT ![r] =
                    [Waiting EXCEPT !.pc = FirstStatement(k), !.process = p, !.key = k]]
    /\ UNCHANGED <<since, store, writer>>

\* A plausible change: the session's transaction is REPEATABLE READ.
ExecuteOnSnapshot(r) ==
    /\ \/ /\ reader[r].pc = "count"
          /\ reader' = [reader EXCEPT ![r].pc = "counted", ![r].total = Version]
       \/ /\ reader[r].pc = "items"
          /\ reader' = [reader EXCEPT ![r].pc = "fetched",
                          ![r].items =
                            IF reader[r].total = None THEN Version ELSE reader[r].total]
    /\ UNCHANGED <<since, store, writer>>

\* The database executes the statement: READ COMMITTED, the version of now.
Execute(r) ==
    /\ \/ /\ reader[r].pc = "count"
          /\ reader' = [reader EXCEPT ![r].pc = "counted", ![r].total = Version]
       \/ /\ reader[r].pc = "items"
          /\ reader' = [reader EXCEPT ![r].pc = "fetched", ![r].items = Version]
    /\ UNCHANGED <<since, store, writer>>

\* The count is answered and the second statement sent.
SendItems(r) ==
    /\ reader[r].pc = "counted"
    /\ reader' = [reader EXCEPT ![r].pc = "items", ![r].age = 0]
    /\ UNCHANGED <<since, store, writer>>

\* The rows are answered: cached under the key, if there is one; an empty
\* catalog's context is not cached.
Finish(r) ==
    LET m == reader[r]
    IN  /\ m.pc = "fetched"
        /\ IF m.key = None \/ (m.key = Context /\ m.items \in EmptyVersions)
           THEN UNCHANGED store
           ELSE Set(m.process, m.key, m.total, m.items)
        /\ reader' = [reader EXCEPT ![r] = Waiting]
        /\ UNCHANGED <<since, writer>>

\* The statement fails or outlives command_timeout.
FailRead(r) ==
    /\ reader[r].pc # "idle"
    /\ reader' = [reader EXCEPT ![r] = Waiting]
    /\ UNCHANGED <<since, store, writer>>

-----------------------------------------------------------------------------
(* The writes: commit, clear the list, answer                              *)

CommitWrite(w, p) ==
    /\ writer[w].pc = "idle"
    /\ since' = Append(since, 0)
    /\ \/ writer' = [writer EXCEPT ![w] =
                       [pc |-> "committed", process |-> p, version |-> Version + 1]]
       \* The answer to COMMIT is lost: the handler raises before the clear.
       \/ writer' = [writer EXCEPT ![w] =
                       [pc |-> "lost", process |-> p, version |-> Version + 1]]
    /\ UNCHANGED <<store, reader>>

\* product_list_cache.clear(), in the process that served the write.  The
\* catalog context is left to expire.
ClearAndAnswer(w) ==
    LET p == writer[w].process
    IN  /\ writer[w].pc = "committed"
        /\ store' = [store EXCEPT ![p] =
                       [k \in Keys |-> IF k \in Pages THEN None ELSE store[p][k]]]
        /\ writer' = [writer EXCEPT ![w].pc = "done"]
        /\ UNCHANGED <<since, reader>>

-----------------------------------------------------------------------------

\* A second goes by: no statement is left waiting longer than command_timeout.
Tick ==
    /\ \A r \in Readers : reader[r].pc # "idle" => reader[r].age < Timeout
    /\ since'  = [v \in 1..Version |-> Older(since[v], Horizon)]
    /\ store'  = [p \in Processes |-> [k \in Keys |->
                    IF store[p][k] = None THEN None
                    ELSE [store[p][k] EXCEPT !.age = Older(@, Expired)]]]
    /\ reader' = [r \in Readers |->
                    IF reader[r].pc = "idle" THEN reader[r]
                    ELSE [reader[r] EXCEPT !.age = @ + 1]]
    /\ UNCHANGED writer

Answered(r) == SendItems(r) \/ Finish(r) \/ FailRead(r)

Next ==
    \/ Tick
    \/ \E r \in Readers :
          \/ \E p \in Processes, k \in Keys \cup {None} : Miss(r, p, k)
          \/ Execute(r) \/ Answered(r)
    \/ \E w \in Writers : ClearAndAnswer(w) \/ \E p \in Processes : CommitWrite(w, p)

Spec == Init /\ [][Next]_vars

\* Time passes, and every statement ends: answered, failed or timed out.
FairSpec == Spec /\ WF_vars(Tick) /\ \A r \in Readers : WF_vars(Answered(r))

-----------------------------------------------------------------------------
(* Properties                                                              *)

Versions == 0..Version

EntryOK(k, e) ==
    /\ e \in [age : 0..Expired, total : Versions \cup {None}, items : Versions]
    /\ e.total = None <=> k = Context

ReaderState ==
    [pc : {"idle", "count", "counted", "items", "fetched"},
     process : Processes \cup {None}, key : Keys \cup {None},
     total : Versions \cup {None}, items : Versions \cup {None}, age : 0..Timeout]

ReaderOK(m) ==
    /\ m \in ReaderState
    /\ m.pc = "idle" => m = Waiting
    /\ m.pc # "idle" => m.process # None
    /\ m.pc \in {"count", "counted"} => m.key # Context
    /\ m.pc \in {"counted", "items", "fetched"} => (m.total = None <=> m.key = Context)
    /\ m.pc = "fetched" => m.items # None

WriterOK(m) ==
    /\ m \in [pc : {"idle", "committed", "lost", "done"}, process : Processes \cup {None},
              version : Versions]
    /\ m.pc # "idle" => m.process # None

\* Every variable keeps its type; a page always carries the total of some version.
TypeOK ==
    /\ since \in Seq(0..Horizon)
    /\ store = [p \in Processes |-> [k \in Keys |-> store[p][k]]]
    /\ \A p \in Processes, k \in Keys : store[p][k] = None \/ EntryOK(k, store[p][k])
    /\ reader = [r \in Readers |-> reader[r]] /\ \A r \in Readers : ReaderOK(reader[r])
    /\ writer = [w \in Writers |-> writer[w]] /\ \A w \in Writers : WriterOK(writer[w])

\* What is served from a cache is at most TTL old plus the time its statements
\* took: the items were the catalog's no longer than TTL + Timeout ago, the
\* total no longer than TTL + 2 * Timeout ago, in every process, also when a
\* read that began before a write fills the cache the write has just cleared.
BoundedStaleness ==
    \A p \in Processes, k \in Keys :
        Live(store[p][k]) =>
            /\ Staleness(store[p][k].items) <= TTL + Timeout
            /\ k \in Pages => Staleness(store[p][k].total) <= TTL + 2 * Timeout

\* The steps behind it: what a statement has read is no staler than the time
\* since it was sent, and an entry carries that on with its age.
RecentRead(m) ==
    /\ m.pc = "counted" => Staleness(m.total) <= m.age
    /\ m.pc \in {"items", "fetched"} /\ m.key # Context =>
          Staleness(m.total) <= m.age + Timeout
    /\ m.pc = "fetched" => Staleness(m.items) <= m.age

RecentEntry(k, e) ==
    Live(e) => /\ Staleness(e.items) <= e.age + Timeout
               /\ k \in Pages => Staleness(e.total) <= e.age + 2 * Timeout

ReadsAreRecent == \A r \in Readers : RecentRead(reader[r])

EntriesAreRecent == \A p \in Processes, k \in Keys : RecentEntry(k, store[p][k])

IInv == TypeOK /\ ReadsAreRecent /\ EntriesAreRecent

\* A cache never drops an entry that could still be served, unless a write
\* clears it, and grows past Capacity only with entries that could.
EvictionSound ==
    [][\A p \in Processes, k \in Keys :
          /\ Live(store[p][k]) /\ store'[p][k] = None =>
                k \in Pages /\ \E w \in Writers : ClearAndAnswer(w) /\ writer[w].process = p
          /\ store[p][k] = None /\ store'[p][k] # None
               /\ Cardinality(Entries(p, k)) >= Capacity =>
                \A j \in CacheOf(k) : store'[p][j] # None => Live(store'[p][j])
      ]_vars

\* "They converge through TTL expiry" (cache.py:5): once the writes are over,
\* every process ends up serving the last version only.
Converged ==
    <>[](\A p \in Processes, k \in Keys :
            Live(store[p][k]) => /\ store[p][k].items = Version
                                 /\ k \in Pages => store[p][k].total = Version)
=============================================================================
