------------------------- MODULE CatalogCacheProofs -------------------------
(***************************************************************************)
(* The bound on the staleness of the caches, for any TTL, timeout,         *)
(* capacity, set of pages and number of processes and requests.            *)
(***************************************************************************)
EXTENDS CatalogCache, SequenceTheorems, TLAPS

-----------------------------------------------------------------------------
(* Time and versions                                                       *)

\* A version is superseded a bounded number of ticks ago.
LEMMA StalenessType ==
    ASSUME TypeOK, NEW v \in Versions
    PROVE  Version \in Nat /\ v \in Nat /\ Staleness(v) \in 0..Horizon
  <1>1. Version \in Nat /\ since \in [1..Version -> 0..Horizon]
    BY LenProperties DEF TypeOK, Version
  <1>2. Horizon \in Nat
    BY TimesAssumption DEF Horizon
  <1>3. QED
    BY <1>1, <1>2 DEF Versions, Staleness

\* A commit supersedes the version before it now, and changes no other's age.
LEMMA CommitStaleness ==
    ASSUME TypeOK, since' = Append(since, 0), NEW v \in Versions
    PROVE  /\ Version' = Version + 1 /\ v \in Versions'
           /\ since' \in Seq(0..Horizon)
           /\ Staleness(v)' = Staleness(v)
  <1>0. Version \in Nat /\ Horizon \in Nat /\ v \in 0..Version
    BY TimesAssumption, LenProperties DEF TypeOK, Version, Horizon, Versions
  <1>1. /\ since' \in Seq(0..Horizon)
        /\ Len(since') = Len(since) + 1
        /\ \A i \in 1..Len(since) : since'[i] = since[i]
        /\ since'[Len(since) + 1] = 0
    BY <1>0, AppendProperties DEF TypeOK
  <1>2. QED
    BY <1>0, <1>1 DEF Version, Versions, Staleness

\* A tick makes every superseded version a tick older, up to Horizon.
LEMMA TickStaleness ==
    ASSUME TypeOK, since' = [v \in 1..Version |-> Older(since[v], Horizon)]
    PROVE  /\ Version' = Version
           /\ since' \in Seq(0..Horizon)
           /\ \A v \in Versions : Staleness(v)' <= Staleness(v) + 1
  <1>0. Version \in Nat /\ Horizon \in Nat /\ since \in [1..Version -> 0..Horizon]
    BY TimesAssumption, LenProperties DEF TypeOK, Version, Horizon
  <1>1. since' \in [1..Version -> 0..Horizon]
    BY <1>0 DEF Older
  <1>2. since' \in Seq(0..Horizon)
    BY <1>0, <1>1, SeqDef
  <1>3. Version' = Version
    BY <1>0, <1>1, <1>2, LenProperties DEF Version
  <1>4. \A v \in Versions : Staleness(v)' <= Staleness(v) + 1
    BY <1>0, <1>3 DEF Staleness, Versions, Older
  <1>5. QED
    BY <1>2, <1>3, <1>4

-----------------------------------------------------------------------------
(* The initial state                                                       *)

\* Empty caches and idle requests satisfy the invariant.
LEMMA InitIInv == Init => IInv
  <1> SUFFICES ASSUME Init PROVE IInv
    OBVIOUS
  <1> USE TimesAssumption, KeysAssumption
  <1>1. since \in Seq(0..Horizon) /\ Version = 0 /\ Versions = {0}
    BY DEF Init, Version, Versions
  <1>2. \A r \in Readers : ReaderOK(reader[r]) /\ RecentRead(reader[r])
    BY DEF Init, Waiting, ReaderOK, ReaderState, RecentRead
  <1>3. \A w \in Writers : WriterOK(writer[w])
    BY <1>1 DEF Init, Unwritten, WriterOK
  <1>4. \A p \in Processes, k \in Keys : store[p][k] = None
    BY DEF Init
  <1>5. TypeOK
    BY <1>1, <1>2, <1>3, <1>4 DEF Init, TypeOK
  <1>6. QED
    BY <1>2, <1>4, <1>5 DEF IInv, ReadsAreRecent, EntriesAreRecent, RecentEntry, Live

-----------------------------------------------------------------------------
(* Steps of one reader                                                     *)

\* A step that changes one reader only keeps the invariant if that reader's new
\* state is well-typed and recent.
LEMMA ReaderStep ==
    ASSUME IInv, NEW r \in Readers, NEW m,
           reader' = [reader EXCEPT ![r] = m],
           UNCHANGED <<since, store, writer>>,
           ReaderOK(m), RecentRead(m)
    PROVE  IInv'
  <1>1. Version' = Version /\ \A v : Staleness(v)' = Staleness(v)
    BY DEF Version, Staleness
  <1>2. Versions' = Versions
    BY <1>1 DEF Versions
  <1>3. \A s \in Readers : reader'[s] = IF s = r THEN m ELSE reader[s]
    BY DEF IInv, TypeOK
  <1>4. ASSUME NEW s \in Readers PROVE ReaderOK(reader[s])' /\ RecentRead(reader[s])'
    <2>1. ReaderOK(reader'[s]) /\ RecentRead(reader'[s])
      BY <1>3 DEF IInv, TypeOK, ReadsAreRecent
    <2>2. QED
      BY <2>1, <1>1, <1>2 DEF ReaderOK, ReaderState, RecentRead
  <1>5. TypeOK'
    <2>1. \A p \in Processes, k \in Keys : (store[p][k] = None \/ EntryOK(k, store[p][k]))'
      BY <1>2 DEF IInv, TypeOK, EntryOK
    <2>2. \A w \in Writers : WriterOK(writer[w])'
      BY <1>2 DEF IInv, TypeOK, WriterOK
    <2>3. reader' = [s \in Readers |-> reader'[s]]
      BY DEF IInv, TypeOK
    <2>4. QED
      BY <1>2, <1>4, <2>1, <2>2, <2>3 DEF IInv, TypeOK
  <1>6. EntriesAreRecent'
    BY <1>1 DEF IInv, EntriesAreRecent, RecentEntry, Live
  <1>7. QED
    BY <1>4, <1>5, <1>6 DEF IInv, ReadsAreRecent

\* A request that misses has read nothing yet.
LEMMA MissKeeps ==
    ASSUME IInv, NEW r \in Readers, NEW p \in Processes, NEW k \in Keys \cup {None},
           Miss(r, p, k)
    PROVE  IInv'
  <1> USE TimesAssumption, KeysAssumption
  <1> DEFINE m == [Waiting EXCEPT !.pc = FirstStatement(k), !.process = p, !.key = k]
  <1>1. FirstStatement(k) \in {"count", "items"} /\ (FirstStatement(k) = "count" <=> k # Context)
    BY DEF FirstStatement
  <1>2. /\ m.pc = FirstStatement(k) /\ m.process = p /\ m.key = k
        /\ m.total = None /\ m.items = None /\ m.age = 0
    BY DEF Waiting
  <1>3. m \in ReaderState
    <2>1. Waiting \in ReaderState
      BY DEF Waiting, ReaderState
    <2>2. [Waiting EXCEPT !.pc = FirstStatement(k)] \in ReaderState
      BY <1>1, <2>1 DEF ReaderState
    <2>3. [[Waiting EXCEPT !.pc = FirstStatement(k)] EXCEPT !.process = p] \in ReaderState
      BY <2>2 DEF ReaderState
    <2>4. [[[Waiting EXCEPT !.pc = FirstStatement(k)] EXCEPT !.process = p] EXCEPT !.key = k]
             \in ReaderState
      BY <2>3 DEF ReaderState
    <2>5. QED
      BY <2>4
  <1>4. ReaderOK(m)
    BY <1>1, <1>2, <1>3 DEF ReaderOK, ReaderState
  <1>5. RecentRead(m)
    BY <1>1, <1>2 DEF RecentRead
  <1>6. QED
    BY <1>4, <1>5, ReaderStep DEF Miss

\* What is read now is not stale.
LEMMA ExecuteKeeps ==
    ASSUME IInv, NEW r \in Readers, Execute(r) PROVE IInv'
  <1> USE TimesAssumption, KeysAssumption
  <1> DEFINE m == reader[r]
             c == [m EXCEPT !.pc = "counted", !.total = Version]
             f == [m EXCEPT !.pc = "fetched", !.items = Version]
  <1>1. ReaderOK(m) /\ RecentRead(m) /\ Version \in Versions /\ Version \in Nat
    BY LenProperties DEF IInv, TypeOK, ReadsAreRecent, Version, Versions
  <1>2. Staleness(Version) = 0
    BY <1>1 DEF Staleness
  <1>3. CASE m.pc = "count" /\ reader' = [reader EXCEPT ![r] = c]
    <2>1. /\ c.pc = "counted" /\ c.total = Version /\ c.age = m.age /\ c.key = m.key
          /\ c.process = m.process /\ c.items = m.items
      BY <1>1 DEF ReaderOK, ReaderState
    <2>2. RecentRead(c)
      BY <1>1, <1>2, <2>1 DEF RecentRead, ReaderOK, ReaderState
    <2>3. ReaderOK(c)
      BY <1>1, <1>3, <2>1 DEF ReaderOK, ReaderState, Waiting
    <2>4. QED
      BY <1>3, <2>2, <2>3, ReaderStep DEF Execute
  <1>4. CASE m.pc = "items" /\ reader' = [reader EXCEPT ![r] = f]
    <2>1. /\ f.pc = "fetched" /\ f.items = Version /\ f.age = m.age /\ f.key = m.key
          /\ f.process = m.process /\ f.total = m.total
      BY <1>1 DEF ReaderOK, ReaderState
    <2>2. RecentRead(f)
      BY <1>1, <1>2, <1>4, <2>1 DEF RecentRead, ReaderOK, ReaderState
    <2>3. ReaderOK(f)
      BY <1>1, <1>4, <2>1 DEF ReaderOK, ReaderState, Waiting
    <2>4. QED
      BY <1>4, <2>2, <2>3, ReaderStep DEF Execute
  <1>5. QED
    BY <1>3, <1>4 DEF Execute, IInv, TypeOK

\* The total of a page waited at most Timeout before the second statement.
LEMMA SendItemsKeeps ==
    ASSUME IInv, NEW r \in Readers, SendItems(r) PROVE IInv'
  <1> USE TimesAssumption, KeysAssumption
  <1> DEFINE m == reader[r]
             n == [m EXCEPT !.pc = "items", !.age = 0]
  <1>1. ReaderOK(m) /\ RecentRead(m) /\ m.pc = "counted"
    BY DEF IInv, TypeOK, ReadsAreRecent, SendItems
  <1>2. /\ n.pc = "items" /\ n.total = m.total /\ n.age = 0 /\ n.key = m.key
        /\ n.process = m.process /\ n.items = m.items
    BY <1>1 DEF ReaderOK, ReaderState
  <1>3. m.total \in Versions /\ m.age \in 0..Timeout /\ Staleness(m.total) <= m.age
    BY <1>1 DEF ReaderOK, ReaderState, RecentRead
  <1>4. Staleness(m.total) \in 0..Horizon
    BY <1>3, StalenessType DEF IInv
  <1>5. RecentRead(n)
    BY <1>2, <1>3, <1>4 DEF RecentRead, Horizon
  <1>6. ReaderOK(n)
    <2>1. m \in ReaderState /\ 0 \in 0..Timeout
      BY <1>1 DEF ReaderOK
    <2>2. \A x \in ReaderState : [x EXCEPT !.pc = "items"] \in ReaderState
      BY DEF ReaderState
    <2>3. \A x \in ReaderState : [x EXCEPT !.age = 0] \in ReaderState
      BY <2>1 DEF ReaderState
    <2>4. n \in ReaderState
      BY <2>1, <2>2, <2>3, Zenon
    <2>5. QED
      BY <1>1, <1>2, <2>4 DEF ReaderOK, ReaderState
  <1>7. reader' = [reader EXCEPT ![r] = n]
    BY DEF SendItems, IInv, TypeOK
  <1>8. QED
    BY <1>5, <1>6, <1>7, ReaderStep DEF SendItems

\* A request that failed has read nothing.
LEMMA FailReadKeeps ==
    ASSUME IInv, NEW r \in Readers, FailRead(r) PROVE IInv'
  <1>1. ReaderOK(Waiting) /\ RecentRead(Waiting)
    BY TimesAssumption, KeysAssumption DEF ReaderOK, ReaderState, RecentRead, Waiting
  <1>2. QED
    BY <1>1, ReaderStep DEF FailRead

-----------------------------------------------------------------------------
(* Steps that change a cache                                               *)

\* A step that changes no version keeps the invariant if what it stores is
\* well-typed and recent.
LEMMA StoreStep ==
    ASSUME IInv, since' = since,
           reader' = [r \in Readers |-> reader'[r]],
           \A r \in Readers : ReaderOK(reader'[r]) /\ RecentRead(reader'[r]),
           writer' = [w \in Writers |-> writer'[w]],
           \A w \in Writers : WriterOK(writer'[w]),
           store' = [p \in Processes |-> [k \in Keys |-> store'[p][k]]],
           \A p \in Processes, k \in Keys :
              \/ store'[p][k] = None
              \/ EntryOK(k, store'[p][k]) /\ RecentEntry(k, store'[p][k])
    PROVE  IInv'
  <1>1. Version' = Version /\ \A v : Staleness(v)' = Staleness(v)
    BY DEF Version, Staleness
  <1>2. Versions' = Versions
    BY <1>1 DEF Versions
  <1>3. \A r \in Readers : ReaderOK(reader[r])' /\ RecentRead(reader[r])'
    BY <1>1, <1>2 DEF ReaderOK, ReaderState, RecentRead
  <1>4. \A w \in Writers : WriterOK(writer[w])'
    BY <1>2 DEF WriterOK
  <1>5. ASSUME NEW p \in Processes, NEW k \in Keys
        PROVE  (store[p][k] = None \/ EntryOK(k, store[p][k]))' /\ RecentEntry(k, store[p][k])'
    BY <1>1, <1>2 DEF EntryOK, RecentEntry, Live
  <1>6. QED
    BY <1>2, <1>3, <1>4, <1>5 DEF IInv, TypeOK, ReadsAreRecent, EntriesAreRecent

\* A fresh entry is as stale as its statements made it.
LEMMA FinishKeeps ==
    ASSUME IInv, NEW r \in Readers, Finish(r) PROVE IInv'
  <1> USE TimesAssumption, KeysAssumption
  <1> DEFINE m == reader[r]
  <1>1. ReaderOK(m) /\ RecentRead(m) /\ m.pc = "fetched"
    BY DEF IInv, TypeOK, ReadsAreRecent, Finish
  <1>2. ReaderOK(Waiting) /\ RecentRead(Waiting)
    BY DEF ReaderOK, ReaderState, RecentRead, Waiting
  <1>3. /\ reader' = [s \in Readers |-> reader'[s]]
        /\ \A s \in Readers : ReaderOK(reader'[s]) /\ RecentRead(reader'[s])
    BY <1>2 DEF Finish, IInv, TypeOK, ReadsAreRecent
  <1>4. /\ writer' = [w \in Writers |-> writer'[w]]
        /\ \A w \in Writers : WriterOK(writer'[w])
        /\ since' = since
    BY DEF Finish, IInv, TypeOK
  <1>5. CASE UNCHANGED store
    <2>1. \A p \in Processes, k \in Keys :
              \/ store'[p][k] = None
              \/ EntryOK(k, store'[p][k]) /\ RecentEntry(k, store'[p][k])
      BY <1>5 DEF IInv, TypeOK, EntriesAreRecent
    <2>2. store' = [p \in Processes |-> [k \in Keys |-> store'[p][k]]]
      BY <1>5 DEF IInv, TypeOK
    <2>3. QED
      BY <1>3, <1>4, <2>1, <2>2, StoreStep
  <1>6. CASE m.key # None /\ Set(m.process, m.key, m.total, m.items)
    <2> DEFINE e == [age |-> 0, total |-> m.total, items |-> m.items]
    <2>1. m.key \in Keys /\ m.process \in Processes /\ m.items \in Versions
            /\ m.total \in Versions \cup {None} /\ (m.total = None <=> m.key = Context)
      BY <1>1, <1>6 DEF ReaderOK, ReaderState
    <2>2. EntryOK(m.key, e)
      BY <2>1 DEF EntryOK, Expired
    <2>3. m.age \in 0..Timeout /\ Staleness(m.items) <= m.age
      BY <1>1 DEF ReaderOK, ReaderState, RecentRead
    <2>4. Staleness(m.items) \in Int
      BY <2>1, StalenessType DEF IInv, Horizon
    <2>5. m.key \in Pages => Staleness(m.total) <= 2 * Timeout
      <3> SUFFICES ASSUME m.key \in Pages PROVE Staleness(m.total) <= 2 * Timeout
        OBVIOUS
      <3>1. m.total \in Versions /\ m.key # Context
        BY <2>1
      <3>2. Staleness(m.total) <= m.age + Timeout
        BY <1>1, <3>1 DEF RecentRead
      <3>3. Staleness(m.total) \in Int
        BY <3>1, StalenessType DEF IInv, Horizon
      <3>4. QED
        BY <2>3, <3>2, <3>3
    <2>6. RecentEntry(m.key, e)
      BY <2>3, <2>4, <2>5 DEF RecentEntry
    <2>7. \A p \in Processes, k \in Keys :
             store'[p][k] \in {store[p][k], None} \/ (k = m.key /\ store'[p][k] = e)
      BY <1>6, <2>1 DEF Set, IInv, TypeOK
    <2>8. store' = [p \in Processes |-> [k \in Keys |-> store'[p][k]]]
      BY <1>6, <2>1 DEF Set, IInv, TypeOK
    <2>9. \A p \in Processes, k \in Keys :
              \/ store'[p][k] = None
              \/ EntryOK(k, store'[p][k]) /\ RecentEntry(k, store'[p][k])
      BY <2>2, <2>6, <2>7 DEF IInv, TypeOK, EntriesAreRecent
    <2>10. QED
      BY <1>3, <1>4, <2>8, <2>9, StoreStep
  <1>7. QED
    BY <1>5, <1>6 DEF Finish

\* A clear leaves only what was there.
LEMMA ClearAndAnswerKeeps ==
    ASSUME IInv, NEW w \in Writers, ClearAndAnswer(w) PROVE IInv'
  <1> USE TimesAssumption, KeysAssumption
  <1> DEFINE n == [writer[w] EXCEPT !.pc = "done"]
  <1>1. WriterOK(writer[w]) /\ writer[w].pc = "committed"
    BY DEF IInv, TypeOK, ClearAndAnswer
  <1>2. writer[w].process \in Processes /\ writer[w].version \in Versions
    BY <1>1 DEF WriterOK
  <1>3. WriterOK(n)
    <2>1. n.pc = "done" /\ n.process = writer[w].process /\ n.version = writer[w].version
      BY <1>1 DEF WriterOK
    <2>2. QED
      BY <1>1, <1>2, <2>1 DEF WriterOK
  <1>4. /\ writer' = [x \in Writers |-> writer'[x]]
        /\ \A x \in Writers : WriterOK(writer'[x])
    BY <1>3 DEF ClearAndAnswer, IInv, TypeOK
  <1>5. \A p \in Processes, k \in Keys : store'[p][k] \in {store[p][k], None}
    BY <1>2 DEF ClearAndAnswer, IInv, TypeOK
  <1>6. store' = [p \in Processes |-> [k \in Keys |-> store'[p][k]]]
    BY <1>2 DEF ClearAndAnswer, IInv, TypeOK
  <1>7. \A p \in Processes, k \in Keys :
            \/ store'[p][k] = None
            \/ EntryOK(k, store'[p][k]) /\ RecentEntry(k, store'[p][k])
    BY <1>5 DEF IInv, TypeOK, EntriesAreRecent
  <1>8. /\ since' = since /\ reader' = [r \in Readers |-> reader'[r]]
        /\ \A r \in Readers : ReaderOK(reader'[r]) /\ RecentRead(reader'[r])
    BY DEF ClearAndAnswer, IInv, TypeOK, ReadsAreRecent
  <1>9. QED
    BY <1>4, <1>6, <1>7, <1>8, StoreStep

-----------------------------------------------------------------------------
(* Steps that change the versions and their age                            *)

\* Every version there is stays as stale as it was.
LEMMA CommitWriteKeeps ==
    ASSUME IInv, NEW w \in Writers, NEW p \in Processes, CommitWrite(w, p) PROVE IInv'
  <1> USE TimesAssumption, KeysAssumption
  <1>1. /\ Version' = Version + 1 /\ Version \in Nat /\ since' \in Seq(0..Horizon)
        /\ Versions \subseteq Versions'
        /\ \A v \in Versions : Staleness(v)' = Staleness(v)
    <2>1. Version \in Nat /\ 0 \in Versions
      BY LenProperties DEF IInv, TypeOK, Version, Versions
    <2>2. QED
      BY <2>1, CommitStaleness DEF CommitWrite, IInv
  <1>2. \A r \in Readers : ReaderOK(reader[r])' /\ RecentRead(reader[r])'
    <2> SUFFICES ASSUME NEW r \in Readers PROVE ReaderOK(reader[r])' /\ RecentRead(reader[r])'
      OBVIOUS
    <2>1. reader'[r] = reader[r] /\ ReaderOK(reader[r]) /\ RecentRead(reader[r])
      BY DEF CommitWrite, IInv, TypeOK, ReadsAreRecent
    <2>2. ReaderOK(reader[r])'
      BY <1>1, <2>1 DEF ReaderOK, ReaderState
    <2>3. RecentRead(reader[r])'
      BY <1>1, <2>1 DEF RecentRead, ReaderOK, ReaderState
    <2>4. QED
      BY <2>2, <2>3
  <1>3. ASSUME NEW q \in Processes, NEW k \in Keys
        PROVE  (store[q][k] = None \/ EntryOK(k, store[q][k]))' /\ RecentEntry(k, store[q][k])'
    <2>1. store' = store /\ (store[q][k] = None \/ EntryOK(k, store[q][k]))
            /\ RecentEntry(k, store[q][k])
      BY DEF CommitWrite, IInv, TypeOK, EntriesAreRecent
    <2>2. CASE store[q][k] = None
      BY <2>1, <2>2 DEF RecentEntry, Live
    <2>3. CASE EntryOK(k, store[q][k])
      BY <1>1, <2>1, <2>3 DEF EntryOK, RecentEntry, Live
    <2>4. QED
      BY <2>1, <2>2, <2>3
  <1>4. /\ writer' = [x \in Writers |-> writer'[x]]
        /\ \A x \in Writers : WriterOK(writer[x])'
    <2> DEFINE n(l) == [pc |-> l, process |-> p, version |-> Version + 1]
    <2>1. \A x \in Writers \ {w} : writer'[x] = writer[x] /\ WriterOK(writer[x])
      BY DEF CommitWrite, IInv, TypeOK
    <2>2. \A x \in Writers \ {w} : WriterOK(writer[x])'
      BY <1>1, <2>1 DEF WriterOK
    <2>3. \E l \in {"committed", "lost"} : writer'[w] = n(l)
      BY DEF CommitWrite, IInv, TypeOK
    <2>4. WriterOK(writer[w])'
      BY <1>1, <2>3 DEF WriterOK, Versions
    <2>5. QED
      BY <2>2, <2>4 DEF CommitWrite, IInv, TypeOK
  <1>5. /\ store' = [q \in Processes |-> [k \in Keys |-> store'[q][k]]]
        /\ reader' = [r \in Readers |-> reader'[r]]
    BY DEF CommitWrite, IInv, TypeOK
  <1>6. QED
    BY <1>1, <1>2, <1>3, <1>4, <1>5 DEF IInv, TypeOK, ReadsAreRecent, EntriesAreRecent

\* Versions, statements and live entries grow older together.
LEMMA TickKeeps == ASSUME IInv, Tick PROVE IInv'
  <1> USE TimesAssumption, KeysAssumption
  <1>1. /\ Version' = Version /\ since' \in Seq(0..Horizon)
        /\ \A v \in Versions : Staleness(v)' <= Staleness(v) + 1
    BY TickStaleness DEF Tick, IInv
  <1>2. Versions' = Versions /\ 0 \in Versions
    BY <1>1, LenProperties DEF Versions, IInv, TypeOK, Version
  <1>3. \A v \in Versions : Staleness(v) \in Nat /\ Staleness(v)' \in Nat
    <2>1. \A v \in Versions : Staleness(v) \in Nat
      BY StalenessType DEF IInv, Horizon
    <2>2. \A v \in Versions : Staleness(v)' \in Nat
      <3>1. Version \in Nat /\ since' \in [1..Version -> 0..Horizon]
        BY <1>1, LenProperties DEF Version, IInv, TypeOK
      <3>2. QED
        BY <1>1, <3>1 DEF Staleness, Versions, Horizon
    <2>3. QED
      BY <2>1, <2>2
  <1>4. ASSUME NEW r \in Readers PROVE ReaderOK(reader[r])' /\ RecentRead(reader[r])'
    <2> DEFINE m == reader[r]
    <2>1. ReaderOK(m) /\ RecentRead(m)
      BY DEF IInv, TypeOK, ReadsAreRecent
    <2>2. CASE m.pc = "idle"
      <3>1. reader'[r] = m
        BY <2>2 DEF Tick
      <3>2. QED
        BY <1>2, <2>1, <2>2, <3>1 DEF ReaderOK, ReaderState, RecentRead
    <2>3. CASE m.pc # "idle"
      <3>1. reader'[r] = [m EXCEPT !.age = m.age + 1] /\ m.age < Timeout
        BY <2>3 DEF Tick
      <3>2. /\ reader'[r].pc = m.pc /\ reader'[r].process = m.process
            /\ reader'[r].key = m.key /\ reader'[r].total = m.total
            /\ reader'[r].items = m.items /\ reader'[r].age = m.age + 1
            /\ m.age \in 0..Timeout
        BY <2>1, <3>1 DEF ReaderOK, ReaderState
      <3>3. ReaderOK(reader'[r])
        BY <2>1, <2>3, <3>1, <3>2 DEF ReaderOK, ReaderState, Waiting
      <3>4. ReaderOK(reader[r])'
        BY <1>2, <3>3 DEF ReaderOK, ReaderState
      <3>5. RecentRead(reader[r])'
        BY <1>1, <1>3, <2>1, <3>2 DEF RecentRead, ReaderOK, ReaderState
      <3>6. QED
        BY <3>4, <3>5
    <2>4. QED
      BY <2>2, <2>3
  <1>5. ASSUME NEW p \in Processes, NEW k \in Keys
        PROVE  (store[p][k] = None \/ EntryOK(k, store[p][k]))' /\ RecentEntry(k, store[p][k])'
    <2> DEFINE e == store[p][k]
    <2>1. (e = None \/ EntryOK(k, e)) /\ RecentEntry(k, e)
      BY DEF IInv, TypeOK, EntriesAreRecent
    <2>2. CASE e = None
      <3>1. store'[p][k] = None
        BY <2>2 DEF Tick
      <3>2. QED
        BY <3>1 DEF RecentEntry, Live
    <2>3. CASE e # None
      <3>1. store'[p][k] = [e EXCEPT !.age = Older(e.age, Expired)]
        BY <2>3 DEF Tick
      <3>2. EntryOK(k, e)
        BY <2>1, <2>3
      <3>3. /\ store'[p][k].age = Older(e.age, Expired)
            /\ store'[p][k].total = e.total /\ store'[p][k].items = e.items
            /\ e.age \in 0..Expired
        BY <3>1, <3>2 DEF EntryOK
      <3>4. EntryOK(k, store'[p][k])
        BY <3>1, <3>2, <3>3 DEF EntryOK, Older, Expired
      <3>5. EntryOK(k, store[p][k])'
        BY <1>2, <3>4 DEF EntryOK
      <3>6. RecentEntry(k, store[p][k])'
        <4>1. CASE ~ Live(store'[p][k])
          BY <4>1 DEF RecentEntry, Live
        <4>2. CASE Live(store'[p][k])
          <5>1. store'[p][k].age = e.age + 1 /\ Live(e)
            BY <2>3, <3>3, <4>2 DEF Live, Older, Expired
          <5>2. PICK i \in Versions : i = e.items
            BY <3>2 DEF EntryOK
          <5>3. Staleness(i)' <= store'[p][k].age + Timeout
            <6>1. Staleness(i) <= e.age + Timeout
              BY <2>1, <5>1, <5>2 DEF RecentEntry
            <6>2. QED
              BY <1>1, <1>3, <3>3, <5>1, <6>1 DEF Expired
          <5>4. CASE k \in Pages
            <6>1. PICK t \in Versions : t = e.total
              BY <3>2, <5>4 DEF EntryOK
            <6>2. Staleness(t) <= e.age + 2 * Timeout
              BY <2>1, <5>1, <5>4, <6>1 DEF RecentEntry
            <6>3. Staleness(t)' <= store'[p][k].age + 2 * Timeout
              BY <1>1, <1>3, <3>3, <5>1, <6>2 DEF Expired
            <6>4. QED
              BY <3>3, <5>2, <5>3, <6>1, <6>3 DEF RecentEntry
          <5>5. CASE k \notin Pages
            BY <3>3, <5>2, <5>3, <5>5 DEF RecentEntry
          <5>6. QED
            BY <5>4, <5>5
        <4>3. QED
          BY <4>1, <4>2
      <3>7. QED
        BY <3>5, <3>6
    <2>4. QED
      BY <2>2, <2>3
  <1>6. \A w \in Writers : WriterOK(writer[w])'
    BY <1>2 DEF Tick, IInv, TypeOK, WriterOK
  <1>7. /\ store' = [q \in Processes |-> [k \in Keys |-> store'[q][k]]]
        /\ reader' = [r \in Readers |-> reader'[r]]
        /\ writer' = [w \in Writers |-> writer'[w]]
    BY <1>2 DEF Tick, IInv, TypeOK
  <1>8. QED
    BY <1>1, <1>4, <1>5, <1>6, <1>7 DEF IInv, TypeOK, ReadsAreRecent, EntriesAreRecent

-----------------------------------------------------------------------------
(* The invariant and the property                                          *)

\* Every step, and a stutter, keeps the invariant.
LEMMA NextIInv == IInv /\ [Next]_vars => IInv'
  <1>1. ASSUME IInv, UNCHANGED vars PROVE IInv'
    BY <1>1 DEF IInv, TypeOK, ReadsAreRecent, EntriesAreRecent, vars, Versions, Version,
                EntryOK, ReaderOK, ReaderState, WriterOK, RecentRead, RecentEntry,
                Staleness, Live
  <1>2. ASSUME IInv, Next PROVE IInv'
    BY <1>2, TickKeeps, MissKeeps, ExecuteKeeps, SendItemsKeeps, FinishKeeps, FailReadKeeps,
       CommitWriteKeeps, ClearAndAnswerKeeps DEF Next, Answered
  <1>3. QED
    BY <1>1, <1>2

\* In every reachable state what was read, and what is stored, is no staler than
\* its age accounts for.
THEOREM Invariance == Spec => []IInv
  BY InitIInv, NextIInv, PTL DEF Spec

\* Every variable keeps its type, for any number of processes and requests.
THEOREM TypeCorrect == Spec => []TypeOK
  BY Invariance, PTL DEF IInv

\* An entry a cache serves was superseded at most TTL plus the time of its
\* statements ago, in every process, whether or not its writes clear the cache.
THEOREM StalenessBounded == Spec => []BoundedStaleness
  <1>1. ASSUME IInv, NEW p \in Processes, NEW k \in Keys, Live(store[p][k])
        PROVE  /\ Staleness(store[p][k].items) <= TTL + Timeout
               /\ k \in Pages => Staleness(store[p][k].total) <= TTL + 2 * Timeout
    <2> DEFINE e == store[p][k]
    <2>1. EntryOK(k, e) /\ RecentEntry(k, e) /\ e.age <= TTL
      BY <1>1 DEF IInv, TypeOK, EntriesAreRecent, Live
    <2>2. e.items \in Versions /\ (k \in Pages => e.total \in Versions) /\ e.age \in Nat
      BY <2>1, TimesAssumption, KeysAssumption DEF EntryOK, Expired
    <2>3. /\ Staleness(e.items) \in Int
          /\ k \in Pages => Staleness(e.total) \in Int
      BY <1>1, <2>2, StalenessType DEF IInv, Horizon
    <2>4. QED
      BY <1>1, <2>1, <2>2, <2>3, TimesAssumption DEF RecentEntry
  <1>2. IInv => BoundedStaleness
    BY <1>1 DEF BoundedStaleness
  <1>3. QED
    BY <1>2, Invariance, PTL

-----------------------------------------------------------------------------
(* What leaves a cache                                                     *)

\* What EvictionSound says of one key of one process.
KeptUnlessCleared(p, k) ==
    Live(store[p][k]) /\ store'[p][k] = None =>
        k \in Pages /\ \E w \in Writers : ClearAndAnswer(w) /\ writer[w].process = p

GrowsOnlyLive(p, k) ==
    store[p][k] = None /\ store'[p][k] # None /\ Cardinality(Entries(p, k)) >= Capacity =>
        \A j \in CacheOf(k) : store'[p][j] # None => Live(store'[p][j])

\* A step that leaves the caches alone drops and adds nothing.
LEMMA StillSound ==
    ASSUME UNCHANGED store, NEW p \in Processes, NEW k \in Keys
    PROVE  KeptUnlessCleared(p, k) /\ GrowsOnlyLive(p, k)
  BY DEF KeptUnlessCleared, GrowsOnlyLive, Live

\* Growing older, an entry stays in its cache until it is dropped.
LEMMA TickSound ==
    ASSUME IInv, Tick, NEW p \in Processes, NEW k \in Keys
    PROVE  KeptUnlessCleared(p, k) /\ GrowsOnlyLive(p, k)
  <1>1. CASE store[p][k] = None
    <2>1. store'[p][k] = None
      BY <1>1 DEF Tick
    <2>2. QED
      BY <1>1, <2>1 DEF KeptUnlessCleared, GrowsOnlyLive, Live
  <1>2. CASE store[p][k] # None
    <2> DEFINE e == store[p][k]
    <2>1. EntryOK(k, e)
      BY <1>2 DEF IInv, TypeOK
    <2>2. store'[p][k] = [e EXCEPT !.age = Older(e.age, Expired)]
      BY <1>2 DEF Tick
    <2>3. Version \in Nat
      BY LenProperties DEF IInv, TypeOK, Version
    <2>4. store'[p][k] \in [age : Nat, total : Nat \cup {None}, items : Nat]
      BY <2>1, <2>2, <2>3, TimesAssumption DEF EntryOK, Versions, Older, Expired
    <2>5. store'[p][k] # None
      BY <2>4, KeysAssumption
    <2>6. QED
      BY <1>2, <2>5 DEF KeptUnlessCleared, GrowsOnlyLive
  <1>3. QED
    BY <1>1, <1>2

\* A fresh entry drops what has expired from a full cache, and nothing else.
LEMMA FinishSound ==
    ASSUME IInv, NEW r \in Readers, Finish(r), NEW p \in Processes, NEW k \in Keys
    PROVE  KeptUnlessCleared(p, k) /\ GrowsOnlyLive(p, k)
  <1> DEFINE m == reader[r]
             e == [age |-> 0, total |-> m.total, items |-> m.items]
  <1>1. CASE UNCHANGED store
    BY <1>1, StillSound
  <1>2. CASE m.key # None /\ Set(m.process, m.key, m.total, m.items)
    <2>1. /\ m.key \in Keys /\ m.process \in Processes
          /\ m.total \in Versions \cup {None} /\ m.items \in Versions
      BY <1>2 DEF Finish, IInv, TypeOK, ReaderOK, ReaderState
    <2>2. Version \in Nat
      BY LenProperties DEF IInv, TypeOK, Version
    <2>3. e \in [age : Nat, total : Nat \cup {None}, items : Nat]
      BY <2>1, <2>2 DEF Versions
    <2>4. e # None /\ Live(e)
      BY <2>3, KeysAssumption, TimesAssumption DEF Live
    <2>5. \A q \in Processes \ {m.process} : store'[q] = store[q]
      BY <1>2, <2>1 DEF Set, IInv, TypeOK
    <2>6. \A j \in Keys :
             store'[m.process][j] = IF j = m.key THEN e
                                    ELSE IF j \in Evicted(m.process, m.key) THEN None
                                    ELSE store[m.process][j]
      BY <1>2, <2>1 DEF Set, IInv, TypeOK
    <2>7. CASE p # m.process
      BY <2>5, <2>7 DEF KeptUnlessCleared, GrowsOnlyLive, Live
    <2>8. CASE p = m.process
      <3>1. KeptUnlessCleared(p, k)
        <4>1. k \in Evicted(p, m.key) => ~ Live(store[p][k])
          BY DEF Evicted
        <4>2. Live(store[p][k]) => store[p][k] # None
          BY DEF Live
        <4>3. Live(store[p][k]) => store'[p][k] # None
          BY <2>4, <2>6, <2>8, <4>1, <4>2
        <4>4. QED
          BY <4>3 DEF KeptUnlessCleared
      <3>2. GrowsOnlyLive(p, k)
        <4> SUFFICES ASSUME store[p][k] = None, store'[p][k] # None,
                            Cardinality(Entries(p, k)) >= Capacity,
                            NEW j \in CacheOf(k), store'[p][j] # None
                     PROVE  Live(store'[p][j])
          BY DEF GrowsOnlyLive
        <4>1. k = m.key
          BY <2>6, <2>8
        <4>2. j \in Keys
          BY DEF CacheOf, Keys
        <4>3. CASE j = k
          BY <2>4, <2>6, <2>8, <4>1, <4>3
        <4>4. CASE j # k
          <5>1. j \notin Evicted(p, k) /\ store'[p][j] = store[p][j]
            BY <2>6, <2>8, <4>1, <4>2, <4>4
          <5>2. QED
            BY <5>1 DEF Evicted, Entries
        <4>5. QED
          BY <4>3, <4>4
      <3>3. QED
        BY <3>1, <3>2
    <2>9. QED
      BY <2>7, <2>8
  <1>3. QED
    BY <1>1, <1>2 DEF Finish

\* A write clears the pages of its own process, and adds nothing.
LEMMA ClearSound ==
    ASSUME IInv, NEW w \in Writers, ClearAndAnswer(w), NEW p \in Processes, NEW k \in Keys
    PROVE  KeptUnlessCleared(p, k) /\ GrowsOnlyLive(p, k)
  <1> DEFINE q == writer[w].process
  <1>1. \A x \in Processes : x # q => store'[x] = store[x]
    BY DEF ClearAndAnswer, IInv, TypeOK
  <1>2. CASE p # q
    BY <1>1, <1>2 DEF KeptUnlessCleared, GrowsOnlyLive, Live
  <1>3. CASE p = q
    <2>1. store'[p][k] = IF k \in Pages THEN None ELSE store[p][k]
      BY <1>3 DEF ClearAndAnswer, IInv, TypeOK
    <2>2. KeptUnlessCleared(p, k)
      BY <1>3, <2>1 DEF KeptUnlessCleared, Live
    <2>3. GrowsOnlyLive(p, k)
      BY <2>1 DEF GrowsOnlyLive
    <2>4. QED
      BY <2>2, <2>3
  <1>4. QED
    BY <1>2, <1>3

\* An entry that could still be served leaves its cache only when a write clears
\* it, and a cache outgrows its capacity only with such entries.
THEOREM EvictionsAreSound == Spec => EvictionSound
  <1>1. ASSUME IInv, [Next]_vars, NEW p \in Processes, NEW k \in Keys
        PROVE  KeptUnlessCleared(p, k) /\ GrowsOnlyLive(p, k)
    <2>1. CASE UNCHANGED store
      BY <2>1, StillSound
    <2>2. CASE Tick
      BY <1>1, <2>2, TickSound
    <2>3. ASSUME NEW r \in Readers, Finish(r)
          PROVE  KeptUnlessCleared(p, k) /\ GrowsOnlyLive(p, k)
      BY <1>1, <2>3, FinishSound
    <2>4. ASSUME NEW w \in Writers, ClearAndAnswer(w)
          PROVE  KeptUnlessCleared(p, k) /\ GrowsOnlyLive(p, k)
      BY <1>1, <2>4, ClearSound
    <2>5. UNCHANGED store \/ Tick \/ (\E r \in Readers : Finish(r))
            \/ (\E w \in Writers : ClearAndAnswer(w))
      BY <1>1 DEF Next, Answered, Miss, Execute, SendItems, FailRead, CommitWrite, vars
    <2>6. QED
      BY <2>1, <2>2, <2>3, <2>4, <2>5
  <1>2. IInv /\ [Next]_vars =>
          [\A p \in Processes, k \in Keys :
             /\ Live(store[p][k]) /\ store'[p][k] = None =>
                   k \in Pages /\ \E w \in Writers : ClearAndAnswer(w) /\ writer[w].process = p
             /\ store[p][k] = None /\ store'[p][k] # None
                  /\ Cardinality(Entries(p, k)) >= Capacity =>
                   \A j \in CacheOf(k) : store'[p][j] # None => Live(store'[p][j])]_vars
    BY <1>1 DEF KeptUnlessCleared, GrowsOnlyLive
  <1>3. QED
    BY <1>2, Invariance, PTL DEF Spec, EvictionSound

=============================================================================
