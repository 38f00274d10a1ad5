-------------------------- MODULE JwksClientProofs --------------------------
(***************************************************************************)
(* Theorems about JwksClient, for any number of requests, any key sets and *)
(* any times: types, the invariant, and from it what accepted and refused  *)
(* tokens say about the provider's keys.                                   *)
(***************************************************************************)
EXTENDS JwksClient, SequenceTheorems, TLAPS

-----------------------------------------------------------------------------
(* The provider's clock                                                    *)

\* The age of a generation is a number of ticks.
LEMMA StalenessType ==
    ASSUME TypeOK, NEW g \in Generations
    PROVE  Generation \in Nat /\ g \in Nat /\ Staleness(g) \in 0..Horizon
  <1>1. Generation \in Nat /\ since \in [1..Generation -> 0..Horizon]
    BY LenProperties DEF TypeOK, Generation
  <1>2. Horizon \in Nat
    BY TimesAssumption DEF Horizon
  <1>3. QED
    BY <1>1, <1>2 DEF Generations, Staleness

\* A rotation makes nothing older.
LEMMA RotateStaleness ==
    ASSUME TypeOK, Rotate, NEW g \in Generations
    PROVE  /\ Staleness(g)' <= Staleness(g)
           /\ since' \in Seq(0..Horizon) /\ Generation' = Generation + 1
           /\ g \in Generations'
  <1> USE TimesAssumption
  <1>1. /\ since \in Seq(0..Horizon) /\ 0 \in 0..Horizon /\ since' = Append(since, 0)
        /\ Generation \in Nat
    BY LenProperties DEF TypeOK, Rotate, Horizon, Generation
  <1>2. /\ since' \in Seq(0..Horizon) /\ Len(since') = Len(since) + 1
        /\ \A i \in 1..Len(since) : since'[i] = since[i]
        /\ since'[Len(since) + 1] = 0
    BY <1>1, AppendProperties
  <1>3. Staleness(g)' <= Staleness(g)
    <2>1. CASE g < Generation
      <3>1. g + 1 \in 1..Len(since)
        BY <1>1, <2>1 DEF Generations, Generation
      <3>2. QED
        BY <1>1, <1>2, <2>1, <3>1 DEF Staleness, Generations, Generation, Horizon
    <2>2. CASE g = Generation
      BY <1>1, <1>2, <2>2 DEF Staleness, Generations, Generation
    <2>3. QED
      BY <1>1, <2>1, <2>2 DEF Generations
  <1>4. QED
    BY <1>1, <1>2, <1>3 DEF Generations, Generation

\* A tick makes a generation older by one at most.
LEMMA TickStaleness ==
    ASSUME TypeOK, Tick, NEW g \in Generations
    PROVE  /\ Staleness(g)' <= Staleness(g) + 1
           /\ since' \in Seq(0..Horizon) /\ Generation' = Generation
  <1> USE TimesAssumption
  <1>1. Generation \in Nat /\ Horizon \in Nat /\ since \in [1..Generation -> 0..Horizon]
    BY LenProperties DEF TypeOK, Generation, Horizon
  <1>2. since' = [i \in 1..Generation |-> Older(since[i], Horizon)]
    BY DEF Tick
  <1>3. since' \in [1..Generation -> 0..Horizon]
    BY <1>1, <1>2 DEF Older
  <1>4. since' \in Seq(0..Horizon)
    BY <1>1, <1>3, SeqDef
  <1>5. Generation' = Generation
    BY <1>1, <1>3, <1>4, LenProperties DEF Generation
  <1>6. Staleness(g)' <= Staleness(g) + 1
    BY <1>1, <1>2, <1>5 DEF Staleness, Generations, Older
  <1>7. QED
    BY <1>4, <1>5, <1>6

-----------------------------------------------------------------------------
(* Where the code between two awaits leads                                 *)

\* Lookup answers, or begins a refresh on demand.
LEMMA LookupResult ==
    ASSUME Generation \in Nat, NEW c \in ClientState, NEW m \in RequestState, NEW n, n = Lookup(c, m)
    PROVE  /\ n \in RequestState /\ n.kid = m.kid /\ n.failed = m.failed
           /\ \/ n.pc \in {"error", "accepted", "unknown"} /\ n.stage = "none"
              \/ n.pc \in {"keys", "wellknown"} /\ n.stage = "on_demand" /\ n.kid # None
           /\ n.pc = "accepted" => m.kid # None /\ Found(c, m)
           /\ n.pc = "unknown" => m.kid # None /\ ~ Found(c, m) /\ c.on_demand < Cooldown
  <1> USE TimesAssumption DEF ClientState, RequestState, Answers, Fetching, Generations
  <1>1. CASE m.kid = None
    BY <1>1 DEF Lookup, Answer, Place
  <1>2. CASE m.kid # None /\ Found(c, m)
    BY <1>2 DEF Lookup, Answer, Place
  <1>3. CASE m.kid # None /\ ~ Found(c, m) /\ c.on_demand >= Cooldown
    <2>1. n = Refresh(c, m, "on_demand")
      BY <1>3 DEF Lookup
    <2>2. QED
      BY <2>1, <1>3 DEF Refresh, Place, Place
  <1>4. CASE m.kid # None /\ ~ Found(c, m) /\ c.on_demand < Cooldown
    <2>1. n = Answer(m, "unknown")
      BY <1>4 DEF Lookup
    <2>2. QED
      BY <2>1, <1>4 DEF Answer, Place, Place
  <1>5. QED
    BY <1>1, <1>2, <1>3, <1>4

\* CheckStale does the same, or begins the refresh of stale keys.
LEMMA CheckStaleResult ==
    ASSUME Generation \in Nat, NEW c \in ClientState, NEW m \in RequestState, NEW n, n = CheckStale(c, m)
    PROVE  /\ n \in RequestState /\ n.kid = m.kid /\ n.failed = m.failed
           /\ \/ n.pc \in {"error", "accepted", "unknown"} /\ n.stage = "none"
              \/ /\ n.pc \in {"keys", "wellknown"} /\ n.stage \in {"stale", "on_demand"}
                 /\ n.stage = "on_demand" => n.kid # None
           /\ n.pc = "accepted" => m.kid # None /\ Found(c, m) /\ c.fetched <= TTL
           /\ n.pc = "unknown" => m.kid # None /\ ~ Found(c, m) /\ c.on_demand < Cooldown
  <1> USE TimesAssumption
  <1>1. CASE c.fetched > TTL
    <2>1. n = Refresh(c, m, "stale")
      BY <1>1 DEF CheckStale
    <2>2. QED
      BY <2>1 DEF Refresh, Place, ClientState, RequestState, Answers, Fetching, Generations
  <1>2. CASE ~ (c.fetched > TTL)
    <2>1. n = Lookup(c, m) /\ c.fetched <= TTL
      BY <1>2 DEF CheckStale, ClientState
    <2>2. QED
      BY <2>1, LookupResult
  <1>3. QED
    BY <1>1, <1>2

\* A request that answers.
LEMMA AnswerResult ==
    ASSUME Generation \in Nat, NEW m \in RequestState, NEW a \in Answers, NEW n, n = Answer(m, a)
    PROVE  /\ n \in RequestState /\ n.kid = m.kid /\ n.failed = m.failed
           /\ n.pc = a /\ n.stage = "none"
  BY TimesAssumption DEF Answer, Place, RequestState, Answers, Generations

-----------------------------------------------------------------------------
(* The invariant                                                           *)

\* The client that has just been created satisfies it.
LEMMA InitIInv == Init => IInv
  <1> SUFFICES ASSUME Init PROVE IInv
    OBVIOUS
  <1> USE TimesAssumption, ProviderAssumption
  <1>1. since = <<Horizon>> /\ since \in Seq(0..Horizon) /\ Generation = 1
    BY DEF Init, Generation, Horizon
  <1>2. Generation \in 1..Len(Published)
    BY <1>1, LenProperties, EmptySeq
  <1>3. client \in ClientState /\ client.keys = 0 /\ trouble = 0
    BY <1>1 DEF Init, ClientState, Generations, Horizon
  <1>4. request = [r \in Coroutines |-> request[r]]
    BY DEF Init
  <1>5. \A r \in Coroutines : RequestOK(r, request[r]) /\ request[r].pc # "served"
                              /\ (r \in Requests => request[r].stage = "none")
    <2> DEFINE starting == [pc |-> "discover", stage |-> "initialize", kid |-> None, stamp |-> 0,
                            read |-> 0, age |-> 0, failed |-> FALSE]
    <2>1. /\ request[Main] = [Waiting EXCEPT !.pc = "discover", !.stage = "initialize"]
          /\ \A r \in Requests : request[r] = Waiting
      BY DEF Init, Coroutines
    <2>2. request[Main] = starting
      BY <2>1 DEF Waiting
    <2>3. starting \in RequestState /\ Waiting \in RequestState
      BY <1>1 DEF RequestState, Waiting, Answers, Fetching, Generations
    <2>4. RequestOK(Main, starting) /\ \A r \in Requests : RequestOK(r, Waiting)
      BY <2>3 DEF RequestOK, Waiting, Answers, Fetching
    <2>5. starting.pc # "served" /\ Waiting.pc # "served" /\ Waiting.stage = "none"
      BY DEF Waiting
    <2>6. \A r \in Requests : RequestOK(r, request[r]) /\ request[r].pc # "served"
                             /\ request[r].stage = "none"
      BY <2>1, <2>4, <2>5
    <2>7. RequestOK(Main, request[Main]) /\ request[Main].pc # "served"
      BY <2>2, <2>4, <2>5
    <2>8. QED
      BY <2>6, <2>7 DEF Coroutines
  <1>6. TypeOK
    <2>1. trouble \in 0..Cooldown
      BY <1>3
    <2>2. ~ \E r \in Requests : request[r].stage \in {"stale", "on_demand"}
      BY <1>5 DEF Coroutines
    <2>3. QED
      BY <1>1, <1>2, <1>3, <1>4, <1>5, <2>1, <2>2 DEF TypeOK
  <1>7. SinceOrdered
    BY <1>1 DEF SinceOrdered, Horizon
  <1>8. KeysAreRecent /\ CooldownIsEarned
    BY <1>3, <1>5 DEF KeysAreRecent, CooldownIsEarned, ClientState
  <1>9. QED
    BY <1>6, <1>7, <1>8 DEF IInv

\* A step of one coroutine keeps the invariant if its place and the client do.
LEMMA RequestStep ==
    ASSUME IInv, since' = since, NEW r \in Coroutines, NEW n,
           request' = [request EXCEPT ![r] = n],
           RequestOK(r, n), n.pc = "served" => Staleness(n.read) <= n.age,
           client' \in ClientState, client.initialized => client'.initialized,
           r \in Requests /\ n.stage \in {"stale", "on_demand"} => client'.initialized,
           trouble' \in 0..Cooldown,
           client'.keys # 0 /\ client'.fetched <= TTL =>
               Staleness(client'.keys) <= client'.fetched + Timeout,
           client'.on_demand < Cooldown =>
               \/ trouble' <= client'.on_demand
               \/ Staleness(client'.keys) <= client'.on_demand + Timeout
    PROVE  IInv'
  <1>1. /\ Generation' = Generation /\ Generations' = Generations
        /\ \A g : Staleness(g)' = Staleness(g)
        /\ ClientState' = ClientState /\ RequestState' = RequestState
    BY DEF Generation, Generations, Staleness, ClientState, RequestState
  <1>2. /\ request' = [s \in Coroutines |-> request'[s]]
        /\ \A s \in Coroutines : request'[s] = IF s = r THEN n ELSE request[s]
    BY DEF IInv, TypeOK
  <1>3. \A s \in Coroutines : RequestOK(s, request[s])'
    BY <1>1, <1>2 DEF IInv, TypeOK, RequestOK
  <1>4. TypeOK'
    BY <1>1, <1>2, <1>3 DEF IInv, TypeOK, Coroutines
  <1>5. SinceOrdered'
    BY <1>1 DEF IInv, SinceOrdered
  <1>6. KeysAreRecent'
    BY <1>1, <1>2 DEF IInv, KeysAreRecent
  <1>7. CooldownIsEarned'
    BY <1>1 DEF CooldownIsEarned
  <1>8. QED
    BY <1>4, <1>5, <1>6, <1>7 DEF IInv

\* The code after a refresh keeps the invariant, if the client it finds is
\* well-typed and its keys recent, and if the refresh either failed or fetched
\* keys no older than a timeout.
LEMMA ReturnedKeeps ==
    ASSUME IInv, since' = since, NEW r \in Coroutines, NEW c \in ClientState,
           NEW m \in RequestState, Returned(r, c, m),
           r = Main => m.stage = "initialize",
           client.initialized => c.initialized,
           m.stage \in {"stale", "on_demand"} => c.initialized,
           m.stage = "on_demand" => m.kid # None,
           c.keys # 0 /\ c.fetched <= TTL => Staleness(c.keys) <= c.fetched + Timeout,
           \/ trouble' = 0
           \/ trouble' = trouble /\ Staleness(c.keys) <= Timeout
    PROVE  IInv'
  <1> USE TimesAssumption
  <1>1. Generation \in Nat /\ trouble \in 0..Cooldown /\ Staleness(c.keys) \in 0..Horizon
    BY StalenessType DEF IInv, TypeOK, ClientState
  <1>2. trouble' \in 0..Cooldown
    BY <1>1
  <1>3. /\ c.on_demand \in 0..Cooldown /\ m.stamp \in 0..Cooldown /\ c.fetched \in 0..(TTL + 1)
    BY DEF ClientState, RequestState
  <1>4. \A a \in 0..Cooldown : \/ trouble' <= a
                             \/ Staleness(c.keys) <= a + Timeout
    BY <1>1, Horizon \in Nat DEF Horizon
  <1>5. CASE m.stage = "initialize"
    <2> DEFINE d == [c EXCEPT !.initialized = TRUE]
               n == IF r = Main THEN Waiting ELSE CheckStale(c, m)
    <2>1. client' = d /\ request' = [request EXCEPT ![r] = n]
      BY <1>5 DEF Returned
    <2>2. /\ d \in ClientState /\ d.initialized /\ d.keys = c.keys
          /\ d.fetched = c.fetched /\ d.on_demand = c.on_demand
      BY DEF ClientState
    <2>3. RequestOK(r, n) /\ n.pc # "served"
      <3>1. CASE r = Main
        BY <1>1, <3>1 DEF RequestOK, RequestState, Waiting, Answers, Fetching, Generations
      <3>2. CASE r # Main
        BY <1>1, <2>2, <3>2, CheckStaleResult DEF RequestOK, Answers, Fetching
      <3>3. QED
        BY <3>1, <3>2
    <2>4. QED
      BY <1>2, <1>3, <1>4, <2>1, <2>2, <2>3, RequestStep
  <1>6. CASE m.stage = "stale"
    <2> DEFINE n == Lookup(c, m)
    <2>1. client' = c /\ request' = [request EXCEPT ![r] = n]
      BY <1>6 DEF Returned
    <2>2. RequestOK(r, n) /\ n.pc # "served"
      BY <1>1, <1>6, LookupResult DEF RequestOK, Answers, Fetching
    <2>3. QED
      BY <1>2, <1>3, <1>4, <1>6, <2>1, <2>2, RequestStep
  <1>7. CASE m.stage = "on_demand"
    <2> DEFINE d == [c EXCEPT !.on_demand = m.stamp]
               n == SecondLookup(c, m)
    <2>1. client' = d /\ request' = [request EXCEPT ![r] = n]
      BY <1>7 DEF Returned
    <2>2. /\ d \in ClientState /\ d.initialized = c.initialized /\ d.keys = c.keys
          /\ d.fetched = c.fetched /\ d.on_demand = m.stamp
      BY <1>3 DEF ClientState
    <2>3. PICK a \in {"accepted", "unknown"} : n = Answer(m, a)
      BY DEF SecondLookup
    <2>4. RequestOK(r, n) /\ n.pc # "served"
      BY <1>1, <1>7, <2>3, AnswerResult DEF RequestOK, Answers, Fetching
    <2>5. QED
      BY <1>2, <1>3, <1>4, <1>7, <2>1, <2>2, <2>4, RequestStep
  <1>8. QED
    BY <1>5, <1>6, <1>7 DEF Returned

\* A step that leaves the client alone.
LEMMA QuietStep ==
    ASSUME IInv, since' = since, client' = client, trouble' \in {0, trouble},
           NEW r \in Coroutines, NEW n, request' = [request EXCEPT ![r] = n],
           RequestOK(r, n), n.pc = "served" => Staleness(n.read) <= n.age,
           r \in Requests /\ n.stage \in {"stale", "on_demand"} => client.initialized
    PROVE  IInv'
  <1>1. trouble' \in 0..Cooldown
    BY TimesAssumption DEF IInv, TypeOK
  <1>2. client.on_demand < Cooldown =>
           \/ trouble' <= client.on_demand
           \/ Staleness(client.keys) <= client.on_demand + Timeout
    BY TimesAssumption DEF IInv, TypeOK, ClientState, CooldownIsEarned
  <1>3. QED
    BY <1>1, <1>2, RequestStep DEF IInv, TypeOK, KeysAreRecent

-----------------------------------------------------------------------------
(* The actions                                                             *)

\* An arriving request has read nothing.
LEMMA ArriveKeeps ==
    ASSUME IInv, NEW r \in Requests, NEW k \in Kids \cup {None}, Arrive(r, k) PROVE IInv'
  <1> DEFINE n == Place([Waiting EXCEPT !.kid = k], "begin", "none", 0)
  <1>1. Generation \in Nat /\ r # Main /\ r \in Coroutines
    BY ProviderAssumption, LenProperties DEF IInv, TypeOK, Generation, Coroutines
  <1>2. n = [pc |-> "begin", stage |-> "none", kid |-> k, stamp |-> 0,
             read |-> 0, age |-> 0, failed |-> FALSE]
    BY DEF Waiting, Place
  <1> HIDE DEF n
  <1>3. n.pc = "begin" /\ n.stage = "none"
    BY <1>2
  <1>4. n \in RequestState
    BY <1>1, <1>2, TimesAssumption DEF RequestState, Generations
  <1>5. RequestOK(r, n)
    BY <1>1, <1>3, <1>4 DEF RequestOK, Answers, Fetching
  <1>6. QED
    BY <1>1, <1>3, <1>5, QuietStep DEF Arrive, n

\* A request that begins finds an initialised client or initialises it.
LEMMA BeginKeeps ==
    ASSUME IInv, NEW r \in Coroutines, Begin(r) PROVE IInv'
  <1> DEFINE m == request[r]
             d == Place(m, "discover", "initialize", 0)
  <1>1. /\ Generation \in Nat /\ m.pc = "begin" /\ RequestOK(r, m) /\ client \in ClientState
        /\ m \in RequestState
    BY LenProperties DEF IInv, TypeOK, Generation, Begin, RequestOK
  <1>2. r # Main
    BY <1>1 DEF RequestOK, Fetching
  <1>3. CASE client.initialized
    <2> DEFINE n == CheckStale(client, m)
    <2>1. request' = [request EXCEPT ![r] = n]
      BY <1>3 DEF Begin
    <2>2. RequestOK(r, n) /\ n.pc # "served"
      BY <1>1, <1>2, CheckStaleResult DEF RequestOK, Answers, Fetching
    <2>3. QED
      BY <1>3, <2>1, <2>2, QuietStep DEF Begin
  <1>4. CASE ~ client.initialized
    <2>1. request' = [request EXCEPT ![r] = d]
      BY <1>4 DEF Begin
    <2>2. d \in RequestState /\ d.pc = "discover" /\ d.stage = "initialize"
      BY <1>1, TimesAssumption DEF Place, RequestState, Answers, Fetching, Generations
    <2>3. RequestOK(r, d) /\ d.pc = "discover" /\ d.stage = "initialize"
      BY <1>2, <2>2 DEF RequestOK, Answers, Fetching
    <2>4. QED
      BY <2>1, <2>3, QuietStep DEF Begin
  <1>5. QED
    BY <1>3, <1>4

\* The configuration changes no key.
LEMMA DiscoveredKeeps ==
    ASSUME IInv, NEW r \in Coroutines, NEW found \in BOOLEAN, Discovered(r, found) PROVE IInv'
  <1> DEFINE m == request[r]
             c == [client EXCEPT !.jwks_uri = found]
             n == Refresh(c, m, "initialize")
  <1>1. /\ Generation \in Nat /\ m.pc = "discover" /\ RequestOK(r, m) /\ client \in ClientState
        /\ m \in RequestState
    BY LenProperties DEF IInv, TypeOK, Generation, Discovered, RequestOK
  <1>2. /\ c \in ClientState /\ c.initialized = client.initialized /\ c.keys = client.keys
        /\ c.fetched = client.fetched /\ c.on_demand = client.on_demand
    BY <1>1 DEF ClientState
  <1>3. /\ n \in RequestState /\ n.pc \in {"keys", "wellknown"} /\ n.stage = "initialize"
    BY <1>1, TimesAssumption DEF Refresh, Place, RequestState, Answers, Fetching, Generations
  <1>4. RequestOK(r, n) /\ n.pc # "served"
    BY <1>3 DEF RequestOK, Fetching
  <1>5. client' = c /\ request' = [request EXCEPT ![r] = n] /\ since' = since /\ trouble' = trouble
    BY DEF Discovered
  <1>6. QED
    BY <1>2, <1>3, <1>4, <1>5, RequestStep DEF IInv, TypeOK, KeysAreRecent, CooldownIsEarned

\* A request whose initialisation fails goes on if another's succeeded.
LEMMA DiscoveryFailedKeeps ==
    ASSUME IInv, NEW r \in Coroutines, DiscoveryFailed(r) PROVE IInv'
  <1> DEFINE m == request[r]
             n == IF r = Main THEN Waiting
                  ELSE IF client.initialized THEN CheckStale(client, m)
                  ELSE Answer(m, "uninitialized")
  <1>1. Generation \in Nat /\ m \in RequestState /\ client \in ClientState
    BY LenProperties DEF IInv, TypeOK, Generation, RequestOK
  <1>2. /\ RequestOK(r, n) /\ n.pc # "served"
        /\ r \in Requests /\ n.stage \in {"stale", "on_demand"} => client.initialized
    <2>1. CASE r = Main
      BY <1>1, <2>1, TimesAssumption, ProviderAssumption
         DEF RequestOK, RequestState, Waiting, Answers, Fetching, Generations
    <2>2. CASE r # Main /\ client.initialized
      BY <1>1, <2>2, CheckStaleResult DEF RequestOK, Answers, Fetching
    <2>3. CASE r # Main /\ ~ client.initialized
      <3>1. n = Answer(m, "uninitialized") /\ "uninitialized" \in Answers
        BY <2>3 DEF Answers
      <3>2. QED
        BY <1>1, <2>3, <3>1, AnswerResult DEF RequestOK, Fetching
    <2>4. QED
      BY <2>1, <2>2, <2>3
  <1>3. QED
    BY <1>2, QuietStep DEF DiscoveryFailed

\* The configuration read again leads on to the keys, or back.
LEMMA RediscoveredKeeps ==
    ASSUME IInv, NEW r \in Coroutines, Rediscovered(r) PROVE IInv'
  <1> DEFINE m == request[r]
             n == Place(m, "keys", m.stage, m.stamp)
             f == [m EXCEPT !.failed = TRUE]
             c == [client EXCEPT !.jwks_uri = TRUE]
             d == [client EXCEPT !.jwks_uri = FALSE]
  <1>1. /\ Generation \in Nat /\ m.pc = "wellknown" /\ RequestOK(r, m) /\ client \in ClientState
        /\ m \in RequestState /\ since' = since
    BY LenProperties DEF IInv, TypeOK, Generation, Rediscovered, RequestOK
  <1>2. /\ c \in ClientState /\ c.initialized = client.initialized /\ c.keys = client.keys
        /\ c.fetched = client.fetched /\ c.on_demand = client.on_demand
        /\ d \in ClientState /\ d.initialized = client.initialized /\ d.keys = client.keys
        /\ d.fetched = client.fetched
    BY <1>1 DEF ClientState
  <1>3. CASE client' = c /\ request' = [request EXCEPT ![r] = n] /\ trouble' = trouble
    <2>1. n \in RequestState /\ n.pc = "keys" /\ n.stage = m.stage /\ n.kid = m.kid
      BY <1>1, TimesAssumption DEF Place, RequestState, Answers, Fetching, Generations
    <2>2. RequestOK(r, n)
      BY <1>1, <2>1 DEF RequestOK, Fetching
    <2>3. r \in Requests /\ n.stage \in {"stale", "on_demand"} => c.initialized
      BY <1>2, <2>1 DEF IInv, TypeOK
    <2>4. QED
      BY <1>1, <1>2, <1>3, <2>1, <2>2, <2>3, RequestStep
         DEF IInv, TypeOK, KeysAreRecent, CooldownIsEarned
  <1>4. CASE Returned(r, d, f) /\ trouble' = 0
    <2>1. f \in RequestState /\ f.stage = m.stage /\ f.kid = m.kid
      BY <1>1 DEF RequestState
    <2>2. /\ r = Main => f.stage = "initialize"
          /\ f.stage = "on_demand" => f.kid # None
          /\ f.stage \in {"stale", "on_demand"} => d.initialized
      BY <1>1, <1>2, <2>1 DEF IInv, TypeOK, RequestOK, Coroutines
    <2>3. d.keys # 0 /\ d.fetched <= TTL => Staleness(d.keys) <= d.fetched + Timeout
      BY <1>2 DEF IInv, KeysAreRecent
    <2>4. QED
      BY <1>1, <1>2, <1>4, <2>1, <2>2, <2>3, ReturnedKeeps
  <1>5. QED
    BY <1>3, <1>4 DEF Rediscovered

\* The provider answers with what it publishes now.
LEMMA ServeKeysKeeps ==
    ASSUME IInv, NEW r \in Coroutines, ServeKeys(r) PROVE IInv'
  <1> DEFINE m == request[r]
             n == [m EXCEPT !.pc = "served", !.read = Generation]
  <1>1. /\ Generation \in Nat \ {0} /\ m.pc = "keys" /\ RequestOK(r, m) /\ m \in RequestState
    BY LenProperties DEF IInv, TypeOK, Generation, ServeKeys, RequestOK
  <1>2. /\ n.pc = "served" /\ n.stage = m.stage /\ n.kid = m.kid /\ n.read = Generation
        /\ n.age = m.age
    BY <1>1 DEF RequestState
  <1>3. n \in RequestState
    <2>1. \A x \in RequestState : [x EXCEPT !.pc = "served"] \in RequestState
      BY DEF RequestState, Fetching
    <2>2. \A x \in RequestState : [x EXCEPT !.read = Generation] \in RequestState
      BY <1>1 DEF RequestState, Generations
    <2>3. QED
      BY <1>1, <2>1, <2>2, Zenon
  <1>4. RequestOK(r, n)
    BY <1>1, <1>2, <1>3 DEF RequestOK, Fetching
  <1>5. Staleness(n.read) <= n.age
    BY <1>1, <1>2, TimesAssumption DEF Staleness, RequestState
  <1>6. r \in Requests /\ n.stage \in {"stale", "on_demand"} => client.initialized
    BY <1>2 DEF IInv, TypeOK
  <1>7. QED
    BY <1>4, <1>5, <1>6, QuietStep DEF ServeKeys

\* The keys received are no older than a timeout.
LEMMA ReceiveKeysKeeps ==
    ASSUME IInv, NEW r \in Coroutines, ReceiveKeys(r) PROVE IInv'
  <1> DEFINE m == request[r]
             f == [m EXCEPT !.failed = FALSE]
             c == [client EXCEPT !.keys = m.read, !.fetched = 0]
  <1>1. /\ m.pc = "served" /\ RequestOK(r, m) /\ client \in ClientState
        /\ m \in RequestState /\ since' = since /\ trouble' = trouble
    BY DEF IInv, TypeOK, ReceiveKeys, RequestOK
  <1>2. c.initialized = client.initialized /\ c.keys = m.read /\ c.fetched = 0
    BY <1>1 DEF ClientState
  <1>3. c \in ClientState
    <2>1. \A x \in ClientState : [x EXCEPT !.keys = m.read] \in ClientState
      BY <1>1 DEF ClientState, RequestState
    <2>2. \A x \in ClientState : [x EXCEPT !.fetched = 0] \in ClientState
      BY TimesAssumption DEF ClientState
    <2>3. QED
      BY <1>1, <2>1, <2>2, Zenon
  <1>4. Staleness(m.read) <= Timeout
    BY <1>1, TimesAssumption, StalenessType DEF IInv, KeysAreRecent, RequestState, Horizon
  <1>5. f \in RequestState /\ f.stage = m.stage /\ f.kid = m.kid
    BY <1>1 DEF RequestState
  <1>6. /\ r = Main => f.stage = "initialize"
        /\ f.stage = "on_demand" => f.kid # None
        /\ f.stage \in {"stale", "on_demand"} => c.initialized
    BY <1>1, <1>2, <1>5 DEF IInv, TypeOK, RequestOK, Coroutines
  <1>7. Staleness(c.keys) <= c.fetched + Timeout
    BY <1>2, <1>4, TimesAssumption
  <1>8. Returned(r, c, f)
    BY DEF ReceiveKeys
  <1>9. QED
    BY <1>1, <1>2, <1>3, <1>4, <1>5, <1>6, <1>7, <1>8, ReturnedKeeps

\* A refresh that fails leaves the keys, and is remembered in trouble.
LEMMA RefreshFailedKeeps ==
    ASSUME IInv, NEW r \in Coroutines, RefreshFailed(r) PROVE IInv'
  <1> DEFINE m == request[r]
             f == [m EXCEPT !.failed = TRUE]
  <1>1. /\ m.pc \in {"wellknown", "keys", "served"} /\ RequestOK(r, m) /\ client \in ClientState
        /\ m \in RequestState /\ since' = since /\ trouble' = 0
    BY DEF IInv, TypeOK, RefreshFailed, RequestOK
  <1>2. f \in RequestState /\ f.stage = m.stage /\ f.kid = m.kid
    BY <1>1 DEF RequestState
  <1>3. /\ r = Main => f.stage = "initialize"
        /\ f.stage = "on_demand" => f.kid # None
        /\ f.stage \in {"stale", "on_demand"} => client.initialized
    BY <1>1, <1>2 DEF IInv, TypeOK, RequestOK, Coroutines
  <1>4. Returned(r, client, f)
    BY DEF RefreshFailed
  <1>5. QED
    BY <1>1, <1>2, <1>3, <1>4, ReturnedKeeps DEF IInv, KeysAreRecent

\* A request that dies leaves the client as it was.
LEMMA BodyUnreadableKeeps ==
    ASSUME IInv, NEW r \in Coroutines, BodyUnreadable(r) PROVE IInv'
  <1> DEFINE n == Answer(request[r], "error")
  <1>1. Generation \in Nat /\ request[r] \in RequestState /\ r # Main
    BY LenProperties DEF IInv, TypeOK, Generation, RequestOK, BodyUnreadable
  <1>2. "error" \in Answers /\ request' = [request EXCEPT ![r] = n]
    BY DEF Answers, BodyUnreadable
  <1>3. RequestOK(r, n) /\ n.pc = "error" /\ n.stage = "none"
    BY <1>1, <1>2, AnswerResult DEF RequestOK, Fetching
  <1>4. QED
    BY <1>2, <1>3, QuietStep DEF BodyUnreadable

\* A rotation replaces the keys of the provider, and nothing else.
LEMMA RotateKeeps ==
    ASSUME IInv, Rotate PROVE IInv'
  <1> USE TimesAssumption
  <1>1. /\ Generation \in Nat /\ since' = Append(since, 0)
        /\ client' = client /\ request' = request /\ trouble' = trouble
        /\ Generation < Len(Published)
    BY LenProperties DEF IInv, TypeOK, Generation, Rotate
  <1>2. /\ since' \in Seq(0..Horizon) /\ Generation' = Generation + 1
        /\ Generations \subseteq Generations'
    <2>1. 0 \in Generations
      BY <1>1 DEF Generations
    <2>2. since' \in Seq(0..Horizon) /\ Generation' = Generation + 1
      BY <2>1, RotateStaleness DEF IInv
    <2>3. QED
      BY <1>1, <2>2 DEF Generations
  <1>3. \A g \in Generations : /\ Staleness(g)' <= Staleness(g)
                              /\ Staleness(g)' \in Nat /\ Staleness(g) \in Nat
    <2>1. \A g \in Generations : Staleness(g)' <= Staleness(g)
      BY RotateStaleness DEF IInv
    <2>2. \A g \in Generations : Staleness(g) \in Nat
      BY StalenessType DEF IInv, Horizon
    <2>3. \A g \in Generations : Staleness(g)' \in Nat
      <3>1. since' \in [1..Generation' -> 0..Horizon] /\ Horizon \in Nat
        BY <1>2, LenProperties DEF Generation, Horizon
      <3>2. QED
        BY <1>1, <1>2, <3>1 DEF Staleness, Generations
    <2>4. QED
      BY <2>1, <2>2, <2>3
  <1>4. client \in ClientState' /\ \A r \in Coroutines : request[r] \in RequestState'
    BY <1>2 DEF IInv, TypeOK, RequestOK, ClientState, RequestState
  <1>5. TypeOK'
    <2>1. Generation' \in 1..Len(Published)
      BY <1>1, <1>2, ProviderAssumption, LenProperties
    <2>2. \A r \in Coroutines : RequestOK(r, request[r])'
      BY <1>1, <1>4 DEF IInv, TypeOK, RequestOK
    <2>3. QED
      BY <1>1, <1>2, <1>4, <2>1, <2>2 DEF IInv, TypeOK
  <1>6. SinceOrdered'
    <2>1. /\ \A i \in 1..Generation : since'[i] = since[i]
          /\ since'[Generation + 1] = 0
          /\ since \in [1..Generation -> 0..Horizon]
      BY <1>1, AppendProperties, LenProperties DEF IInv, TypeOK, Generation, Horizon
    <2>2. QED
      BY <1>1, <1>2, <2>1 DEF IInv, SinceOrdered, Horizon
  <1>7. KeysAreRecent'
    <2>1. ASSUME NEW r \in Coroutines, request[r].pc = "served"
          PROVE  Staleness(request[r].read)' <= request[r].age
      <3>1. request[r].read \in Generations /\ request[r].age \in Nat
            /\ Staleness(request[r].read) <= request[r].age
        BY <2>1 DEF IInv, TypeOK, RequestOK, RequestState, KeysAreRecent
      <3>2. PICK g \in Generations : g = request[r].read
        BY <3>1
      <3>3. Staleness(request[r].read)' = Staleness(g)'
        BY <1>1, <3>2 DEF Staleness
      <3>4. QED
        BY <1>3, <3>1, <3>2, <3>3
    <2>2. client.keys # 0 /\ client.fetched <= TTL =>
              Staleness(client.keys)' <= client.fetched + Timeout
      BY <1>1, <1>3 DEF IInv, TypeOK, ClientState, KeysAreRecent
    <2>3. QED
      BY <1>1, <2>1, <2>2 DEF KeysAreRecent
  <1>8. CooldownIsEarned'
    BY <1>1, <1>3 DEF IInv, TypeOK, ClientState, CooldownIsEarned
  <1>9. QED
    BY <1>5, <1>6, <1>7, <1>8 DEF IInv

\* A tick ages answers under way, the keys and the cooldown together with the
\* generations, so nothing outgrows its bound.
LEMMA TickKeeps ==
    ASSUME IInv, Tick PROVE IInv'
  <1> USE TimesAssumption
  <1>1. /\ since' \in Seq(0..Horizon) /\ Generation' = Generation /\ Generation \in Nat
        /\ \A g \in Generations : /\ Staleness(g)' <= Staleness(g) + 1
                                 /\ Staleness(g)' \in Nat /\ Staleness(g) \in Nat
    <2>1. Generation \in Nat /\ 0 \in Generations
      BY LenProperties DEF IInv, TypeOK, Generation, Generations
    <2>2. since' \in Seq(0..Horizon) /\ Generation' = Generation
      BY <2>1, TickStaleness DEF IInv
    <2>3. \A g \in Generations : Staleness(g)' <= Staleness(g) + 1 /\ Staleness(g) \in Nat
      BY TickStaleness, StalenessType DEF IInv, Horizon
    <2>4. \A g \in Generations : Staleness(g)' \in Nat
      <3>1. since' \in [1..Generation' -> 0..Horizon] /\ Horizon \in Nat
        BY <2>2, LenProperties DEF Generation, Horizon
      <3>2. QED
        BY <2>1, <2>2, <3>1 DEF Staleness, Generations
    <2>5. QED
      BY <2>1, <2>2, <2>3, <2>4
  <1>2. ClientState' = ClientState /\ RequestState' = RequestState /\ Generations' = Generations
    BY <1>1 DEF ClientState, RequestState, Generations
  <1>3. /\ client' = [client EXCEPT !.fetched = Older(client.fetched, TTL + 1),
                                   !.on_demand = Older(client.on_demand, Cooldown)]
        /\ trouble' = Older(trouble, Cooldown)
        /\ client \in ClientState /\ trouble \in 0..Cooldown
        /\ client.fetched \in 0..(TTL + 1) /\ client.on_demand \in 0..Cooldown
        /\ client.keys \in Generations
    BY DEF Tick, IInv, TypeOK, ClientState
  <1>4. /\ client'.initialized = client.initialized /\ client'.keys = client.keys
        /\ client'.fetched = Older(client.fetched, TTL + 1)
        /\ client'.on_demand = Older(client.on_demand, Cooldown)
    BY <1>3 DEF ClientState
  <1>5. client' \in ClientState
    <2>1. /\ Older(client.fetched, TTL + 1) \in 0..(TTL + 1)
          /\ Older(client.on_demand, Cooldown) \in 0..Cooldown
      BY <1>3 DEF Older
    <2>2. \A x \in ClientState, a \in 0..(TTL + 1) : [x EXCEPT !.fetched = a] \in ClientState
      BY DEF ClientState
    <2>3. \A x \in ClientState, a \in 0..Cooldown : [x EXCEPT !.on_demand = a] \in ClientState
      BY DEF ClientState
    <2>4. QED
      BY <1>3, <2>1, <2>2, <2>3, Zenon
  <1>6. trouble' \in 0..Cooldown
    BY <1>3 DEF Older
  <1>7. \A r \in Coroutines :
           /\ RequestOK(r, request'[r]) /\ request'[r].stage = request[r].stage
           /\ request'[r].pc = request[r].pc /\ request'[r].read = request[r].read
           /\ request'[r].pc = "served" => request'[r].age = request[r].age + 1
    <2> SUFFICES ASSUME NEW r \in Coroutines
                 PROVE  /\ RequestOK(r, request'[r]) /\ request'[r].stage = request[r].stage
                        /\ request'[r].pc = request[r].pc /\ request'[r].read = request[r].read
                        /\ request'[r].pc = "served" => request'[r].age = request[r].age + 1
      OBVIOUS
    <2>1. RequestOK(r, request[r]) /\ request[r] \in RequestState
      BY DEF IInv, TypeOK, RequestOK
    <2>2. CASE request[r].pc \notin Fetching
      <3>1. request'[r] = request[r]
        BY <2>2 DEF Tick
      <3>2. QED
        BY <2>1, <2>2, <3>1 DEF Fetching
    <2>3. CASE request[r].pc \in Fetching
      <3> DEFINE stamp == IF request[r].stage = "on_demand"
                          THEN Older(request[r].stamp, Cooldown) ELSE request[r].stamp
                 n == [request[r] EXCEPT !.age = request[r].age + 1, !.stamp = stamp]
      <3>1. request'[r] = n
        BY <2>3 DEF Tick
      <3>2. /\ n.pc = request[r].pc /\ n.stage = request[r].stage /\ n.kid = request[r].kid
            /\ n.read = request[r].read /\ n.age = request[r].age + 1
        BY <2>1 DEF RequestState
      <3>3. n \in RequestState
        <4>1. request[r].age + 1 \in 0..Timeout /\ stamp \in 0..Cooldown
          <5>1. request[r].age < Timeout
            BY <2>3 DEF Tick
          <5>2. request[r].age \in 0..Timeout /\ request[r].stamp \in 0..Cooldown
            BY <2>1 DEF RequestState
          <5>3. QED
            BY <5>1, <5>2 DEF Older
        <4>2. \A x \in RequestState, a \in 0..Timeout : [x EXCEPT !.age = a] \in RequestState
          BY DEF RequestState
        <4>3. \A x \in RequestState, a \in 0..Cooldown : [x EXCEPT !.stamp = a] \in RequestState
          BY DEF RequestState
        <4>4. QED
          BY <2>1, <4>1, <4>2, <4>3, Zenon
      <3> HIDE DEF n
      <3>4. RequestOK(r, n)
        BY <2>1, <3>2, <3>3 DEF RequestOK
      <3>5. QED
        BY <3>1, <3>2, <3>4
    <2>4. QED
      BY <2>2, <2>3
  <1>8. TypeOK'
    <2>1. \A r \in Coroutines : RequestOK(r, request[r])'
      BY <1>2, <1>7 DEF RequestOK
    <2>2. request' = [r \in Coroutines |-> request'[r]]
      BY DEF Tick
    <2>3. (\E r \in Requests : request'[r].stage \in {"stale", "on_demand"})
              => client'.initialized
      BY <1>4, <1>7 DEF IInv, TypeOK, Coroutines
    <2>4. QED
      BY <1>1, <1>2, <1>5, <1>6, <2>1, <2>2, <2>3 DEF IInv, TypeOK
  <1>9. SinceOrdered'
    <2>1. since \in [1..Generation -> 0..Horizon] /\ Horizon \in Nat
      BY LenProperties DEF IInv, TypeOK, Generation, Horizon
    <2>2. since' = [g \in 1..Generation |-> Older(since[g], Horizon)]
      BY DEF Tick
    <2>3. QED
      BY <1>1, <2>1, <2>2 DEF IInv, SinceOrdered, Older
  <1>10. KeysAreRecent'
    <2>1. ASSUME NEW r \in Coroutines, request'[r].pc = "served"
          PROVE  Staleness(request[r].read)' <= request'[r].age
      <3>1. /\ request[r].read \in Generations /\ request[r].age \in Nat
            /\ Staleness(request[r].read) <= request[r].age
        BY <1>7, <2>1 DEF IInv, TypeOK, RequestOK, RequestState, KeysAreRecent
      <3>2. PICK g \in Generations : g = request[r].read
        BY <3>1
      <3>3. Staleness(request[r].read)' = Staleness(g)'
        BY <1>7, <3>2 DEF Staleness
      <3>4. QED
        BY <1>1, <1>7, <2>1, <3>1, <3>2, <3>3
    <2>2. client'.keys # 0 /\ client'.fetched <= TTL =>
              Staleness(client.keys)' <= client'.fetched + Timeout
      <3>1. PICK g \in Generations : g = client.keys
        BY <1>3
      <3>2. Staleness(client.keys)' = Staleness(g)'
        BY <1>4, <3>1 DEF Staleness
      <3>3. client'.fetched <= TTL =>
               client.fetched <= TTL /\ client'.fetched = client.fetched + 1
        BY <1>3, <1>4 DEF Older
      <3>4. QED
        BY <1>1, <1>3, <1>4, <3>1, <3>2, <3>3 DEF IInv, KeysAreRecent
    <2>3. QED
      BY <2>1, <2>2 DEF KeysAreRecent
  <1>11. CooldownIsEarned'
    <2>1. PICK g \in Generations : g = client.keys
      BY <1>3
    <2>2. Staleness(client.keys)' = Staleness(g)'
      BY <1>4, <2>1 DEF Staleness
    <2>3. client'.on_demand < Cooldown =>
             client.on_demand < Cooldown /\ client'.on_demand = client.on_demand + 1
      BY <1>3, <1>4 DEF Older
    <2>4. trouble' <= trouble + 1
      BY <1>3 DEF Older
    <2>5. /\ Staleness(g) \in Nat /\ Staleness(g)' \in Nat
          /\ Staleness(g)' <= Staleness(g) + 1
      BY <1>1, <2>1
    <2>6. client.on_demand < Cooldown =>
             trouble <= client.on_demand \/ Staleness(g) <= client.on_demand + Timeout
      BY <2>1 DEF IInv, CooldownIsEarned
    <2>7. ASSUME client'.on_demand < Cooldown
          PROVE  trouble' <= client'.on_demand \/ Staleness(g)' <= client'.on_demand + Timeout
      <3>1. /\ trouble \in Nat /\ trouble' \in Nat /\ client.on_demand \in Nat
            /\ client'.on_demand = client.on_demand + 1
        BY <1>3, <1>6, <2>3, <2>7
      <3>2. CASE trouble <= client.on_demand
        BY <2>4, <3>1, <3>2
      <3>3. CASE Staleness(g) <= client.on_demand + Timeout
        BY <2>5, <3>1, <3>3
      <3>4. QED
        BY <2>3, <2>6, <2>7, <3>2, <3>3
    <2>8. QED
      BY <2>2, <2>7 DEF CooldownIsEarned
  <1>12. QED
    BY <1>8, <1>9, <1>10, <1>11 DEF IInv

-----------------------------------------------------------------------------
(* The theorems                                                            *)

\* Every step, and a stutter, keeps the invariant.
LEMMA NextIInv == IInv /\ [Next]_vars => IInv'
  <1>1. ASSUME IInv, UNCHANGED vars PROVE IInv'
    BY <1>1 DEF IInv, TypeOK, SinceOrdered, KeysAreRecent, CooldownIsEarned, vars, Generation,
                Generations, Staleness, ClientState, RequestState, RequestOK
  <1>2. ASSUME IInv, Next PROVE IInv'
    <2>1. CASE Tick \/ Rotate
      BY <1>2, <2>1, TickKeeps, RotateKeeps
    <2>2. ASSUME NEW r \in Requests, NEW k \in Kids \cup {None}, Arrive(r, k) PROVE IInv'
      BY <1>2, <2>2, ArriveKeeps
    <2>3. ASSUME NEW r \in Coroutines, NEW found \in BOOLEAN, Discovered(r, found) PROVE IInv'
      BY <1>2, <2>3, DiscoveredKeeps
    <2>4. ASSUME NEW r \in Coroutines, Begin(r) \/ DiscoveryFailed(r) \/ Rediscovered(r)
          PROVE  IInv'
      BY <1>2, <2>4, BeginKeeps, DiscoveryFailedKeeps, RediscoveredKeeps
    <2>5. ASSUME NEW r \in Coroutines, ServeKeys(r) \/ ReceiveKeys(r)
          PROVE  IInv'
      BY <1>2, <2>5, ServeKeysKeeps, ReceiveKeysKeeps
    <2>6. ASSUME NEW r \in Coroutines, RefreshFailed(r) \/ BodyUnreadable(r)
          PROVE  IInv'
      BY <1>2, <2>6, RefreshFailedKeeps, BodyUnreadableKeeps
    <2>7. QED
      BY <1>2, <2>1, <2>2, <2>3, <2>4, <2>5, <2>6 DEF Next
  <1>3. QED
    BY <1>1, <1>2

\* In every reachable state the keys are as recent as the time stamps say.
THEOREM Invariance == Spec => []IInv
  BY InitIInv, NextIInv, PTL DEF Spec

\* Every variable keeps its type, and only an initialised client is refreshed.
THEOREM TypeCorrect == Spec => []TypeOK
  BY Invariance, PTL DEF IInv

-----------------------------------------------------------------------------
(* What an answered token says about the provider                          *)

\* Keys that were replaced less than D ago are of generation g or later, if g
\* was published D ago.
LEMMA RecentGeneration ==
    ASSUME IInv, NEW k \in Generations, NEW g \in 1..Generation, Staleness(k) < since[g]
    PROVE  k >= g
  <1>1. Generation \in Nat /\ since \in [1..Generation -> 0..Horizon] /\ Horizon \in Nat
    BY TimesAssumption, LenProperties DEF IInv, TypeOK, Generation, Horizon
  <1>2. ASSUME k < g PROVE FALSE
    <2>1. k + 1 \in 1..Generation /\ k + 1 <= g /\ Staleness(k) = since[k + 1]
      BY <1>1, <1>2 DEF Staleness, Generations
    <2>2. since[g] <= since[k + 1]
      BY <2>1 DEF IInv, SinceOrdered
    <2>3. since[g] \in Nat /\ since[k + 1] \in Nat
      BY <1>1, <2>1
    <2>4. QED
      BY <2>1, <2>2, <2>3
  <1>3. QED
    BY <1>1, <1>2 DEF Generations

\* What a token is answered by the code after a refresh: with the keys of c.
LEMMA ReturnedAnswers ==
    ASSUME Generation \in Nat, NEW r \in Coroutines, r # Main, NEW c \in ClientState,
           NEW m \in RequestState, m.kid = request[r].kid, Returned(r, c, m),
           DOMAIN request = Coroutines
    PROVE  /\ request'[r].pc = "accepted" =>
                 /\ request[r].kid \in KeysOf(c.keys)
                 /\ request'[r].failed = m.failed
           /\ request'[r].pc = "unknown" =>
                 request[r].kid \notin KeysOf(c.keys)
           /\ \A s \in Coroutines \ {r} : request'[s] = request[s]
  <1>1. CASE m.stage = "initialize"
    <2>1. request' = [request EXCEPT ![r] = CheckStale(c, m)]
      BY <1>1 DEF Returned
    <2>2. QED
      BY <2>1, CheckStaleResult DEF Found
  <1>2. CASE m.stage = "stale"
    <2>1. request' = [request EXCEPT ![r] = Lookup(c, m)]
      BY <1>2 DEF Returned
    <2>2. QED
      BY <2>1, LookupResult DEF Found
  <1>3. CASE m.stage = "on_demand"
    <2> DEFINE a == IF Found(c, m) THEN "accepted" ELSE "unknown"
    <2>1. request' = [request EXCEPT ![r] = Answer(m, a)] /\ a \in Answers
      BY <1>3 DEF Returned, SecondLookup, Answers
    <2>2. QED
      BY <1>3, <2>1, AnswerResult DEF Found
  <1>4. QED
    BY <1>1, <1>2, <1>3 DEF Returned

\* Only the coroutine that moves comes to an answer.
LEMMA OnlyMover ==
    ASSUME IInv, NEW r \in Requests, NEW a, Becomes(r, a), NEW s \in Coroutines, NEW n,
           request' = [request EXCEPT ![s] = n]
    PROVE  s = r /\ request'[r] = n /\ n.pc = a
  BY DEF IInv, TypeOK, Becomes, Coroutines

LEMMA NoAnswer ==
    ASSUME IInv, NEW r \in Requests, NEW a \in {"accepted", "unknown"}, Becomes(r, a),
           NEW s \in Coroutines, NEW n, request' = [request EXCEPT ![s] = n],
           n.pc \notin {"accepted", "unknown"}
    PROVE  FALSE
  BY OnlyMover

\* An answer follows from keys the client had: recent ones if it accepts and no
\* refresh failed, and ones the cooldown accounts for if it refuses.
LEMMA AnswersFromKeys ==
    ASSUME IInv, Next, NEW r \in Requests, NEW a \in {"accepted", "unknown"}, Becomes(r, a)
    PROVE  \E k \in Generations :
              /\ a = "accepted" => /\ request[r].kid \in KeysOf(k)
                                   /\ request'[r].failed \/ Staleness(k) <= TTL + Timeout
              /\ a = "unknown" => /\ request[r].kid \notin KeysOf(k)
                                  /\ \/ trouble' < Cooldown
                                     \/ Staleness(k) < Cooldown + Timeout
  <1> USE TimesAssumption
  <1> DEFINE m == request[r]
             From(k) == /\ a = "accepted" => /\ m.kid \in KeysOf(k)
                                             /\ request'[r].failed \/ Staleness(k) <= TTL + Timeout
                        /\ a = "unknown" => /\ m.kid \notin KeysOf(k)
                                            /\ \/ trouble' < Cooldown
                                               \/ Staleness(k) < Cooldown + Timeout
  <1>1. /\ Generation \in Nat /\ client \in ClientState /\ m \in RequestState /\ r \in Coroutines
        /\ r # Main /\ DOMAIN request = Coroutines /\ trouble \in 0..Cooldown
        /\ client.keys \in Generations /\ Staleness(client.keys) \in 0..Horizon /\ Horizon \in Nat
    <2>1. Generation \in Nat /\ client \in ClientState /\ trouble \in 0..Cooldown
      BY LenProperties DEF IInv, TypeOK, Generation
    <2>2. r \in Coroutines /\ r # Main /\ DOMAIN request = Coroutines
      BY ProviderAssumption DEF IInv, TypeOK, Coroutines
    <2>3. m \in RequestState
      BY <2>2 DEF IInv, TypeOK, RequestOK
    <2>4. client.keys \in Generations
      BY <2>1 DEF ClientState
    <2>5. QED
      BY <2>1, <2>2, <2>3, <2>4, StalenessType DEF IInv, Horizon
  <1>2. ASSUME request'[r] = CheckStale(client, m), trouble' \in {0, trouble}, request'[r].pc = a
        PROVE  From(client.keys)
    <2>1. CASE a = "accepted"
      <3>1. m.kid \in KeysOf(client.keys) /\ client.fetched <= TTL /\ client.keys # 0
        BY <1>1, <1>2, <2>1, CheckStaleResult DEF Found, KeysOf
      <3>2. Staleness(client.keys) <= client.fetched + Timeout
        BY <3>1 DEF IInv, KeysAreRecent
      <3>3. QED
        BY <1>1, <2>1, <3>1, <3>2 DEF ClientState
    <2>2. CASE a = "unknown"
      <3>1. m.kid \notin KeysOf(client.keys) /\ client.on_demand < Cooldown
        BY <1>1, <1>2, <2>2, CheckStaleResult DEF Found
      <3>2. \/ trouble <= client.on_demand
            \/ Staleness(client.keys) <= client.on_demand + Timeout
        BY <3>1 DEF IInv, CooldownIsEarned
      <3>3. trouble' < Cooldown \/ Staleness(client.keys) < Cooldown + Timeout
        BY <1>1, <1>2, <3>1, <3>2 DEF ClientState
      <3>4. QED
        BY <2>2, <3>1, <3>3
    <2>3. QED
      BY <2>1, <2>2
  <1>3. ASSUME NEW c \in ClientState, NEW f \in RequestState, f.kid = m.kid, Returned(r, c, f),
               request'[r].pc = a,
               \/ f.failed /\ trouble' = 0
               \/ Staleness(c.keys) <= Timeout
        PROVE  From(c.keys) /\ c.keys \in Generations
    <2>1. c.keys \in Generations /\ Staleness(c.keys) \in Nat
      BY StalenessType DEF ClientState, IInv, Horizon
    <2>2. /\ a = "accepted" => m.kid \in KeysOf(c.keys) /\ request'[r].failed = f.failed
          /\ a = "unknown" => m.kid \notin KeysOf(c.keys)
      BY <1>1, <1>3, ReturnedAnswers
    <2>3. CASE f.failed /\ trouble' = 0
      <3>1. a = "accepted" => request'[r].failed
        BY <2>2, <2>3, Zenon
      <3>2. trouble' < Cooldown
        BY <2>3
      <3>3. QED
        BY <2>1, <2>2, <3>1, <3>2, Zenon
    <2>4. CASE Staleness(c.keys) <= Timeout
      BY <2>1, <2>2, <2>4
    <2>5. QED
      BY <1>3, <2>3, <2>4
  <1>4. CASE Tick
    <2>1. request'[r].pc = m.pc
      BY <1>1, <1>4 DEF Tick, RequestState
    <2>2. QED
      BY <2>1 DEF Becomes
  <1>5. CASE Rotate
    BY <1>5 DEF Rotate, Becomes
  <1>6. ASSUME NEW s \in Requests, NEW k \in Kids \cup {None}, Arrive(s, k) PROVE FALSE
    <2> DEFINE n == Place([Waiting EXCEPT !.kid = k], "begin", "none", 0)
    <2>1. request' = [request EXCEPT ![s] = n] /\ s \in Coroutines
      BY <1>6 DEF Arrive, Coroutines
    <2>2. n.pc = "begin"
      BY DEF Place
    <2> HIDE DEF n
    <2>3. QED
      BY <2>1, <2>2, NoAnswer
  <1>7. ASSUME NEW s \in Coroutines, Begin(s) PROVE From(client.keys)
    <2>1. CASE client.initialized
      <3> DEFINE n == CheckStale(client, request[s])
      <3>1. request' = [request EXCEPT ![s] = n] /\ trouble' = trouble
        BY <1>7, <2>1 DEF Begin
      <3> HIDE DEF n
      <3>2. s = r /\ request'[r] = n /\ n.pc = a
        BY <1>7, <3>1, OnlyMover
      <3>3. QED
        BY <1>2, <3>1, <3>2 DEF n
    <2>2. CASE ~ client.initialized
      <3> DEFINE n == Place(request[s], "discover", "initialize", 0)
      <3>1. request' = [request EXCEPT ![s] = n]
        BY <1>7, <2>2 DEF Begin
      <3>2. n.pc = "discover"
        BY DEF Place
      <3> HIDE DEF n
      <3>3. QED
        BY <1>7, <3>1, <3>2, NoAnswer
    <2>3. QED
      BY <2>1, <2>2
  <1>8. ASSUME NEW s \in Coroutines, NEW found \in BOOLEAN, Discovered(s, found) PROVE FALSE
    <2> DEFINE n == Refresh([client EXCEPT !.jwks_uri = found], request[s], "initialize")
    <2>1. request' = [request EXCEPT ![s] = n]
      BY <1>8 DEF Discovered
    <2>2. n.pc \in {"keys", "wellknown"}
      BY DEF Refresh, Place
    <2> HIDE DEF n
    <2>3. QED
      BY <1>8, <2>1, <2>2, NoAnswer
  <1>9. ASSUME NEW s \in Coroutines, DiscoveryFailed(s) PROVE From(client.keys)
    <2> DEFINE n == IF s = Main THEN Waiting
                    ELSE IF client.initialized THEN CheckStale(client, request[s])
                    ELSE Answer(request[s], "uninitialized")
    <2>1. request' = [request EXCEPT ![s] = n] /\ trouble' = 0
      BY <1>9 DEF DiscoveryFailed
    <2> HIDE DEF n
    <2>2. s = r /\ request'[r] = n /\ n.pc = a
      BY <1>9, <2>1, OnlyMover
    <2>3. CASE client.initialized
      BY <1>1, <1>2, <2>1, <2>2, <2>3 DEF n
    <2>4. CASE ~ client.initialized
      BY <1>1, <2>2, <2>4 DEF Answer, Place, n
    <2>5. QED
      BY <2>3, <2>4
  <1>10. ASSUME NEW s \in Coroutines, Rediscovered(s) PROVE \E k \in Generations : From(k)
    <2> DEFINE d == [client EXCEPT !.jwks_uri = FALSE]
               f == [request[s] EXCEPT !.failed = TRUE]
    <2>1. CASE request' = [request EXCEPT ![s] = Place(request[s], "keys", request[s].stage,
                                                       request[s].stamp)]
      <3> DEFINE n == Place(request[s], "keys", request[s].stage, request[s].stamp)
      <3>1. request' = [request EXCEPT ![s] = n] /\ n.pc = "keys"
        BY <2>1 DEF Place
      <3> HIDE DEF n
      <3>2. QED
        BY <1>10, <3>1, NoAnswer
    <2>2. CASE Returned(s, d, f) /\ trouble' = 0
      <3>1. s = r
        BY <2>2, OnlyMover DEF Returned
      <3>2. d \in ClientState /\ f \in RequestState /\ f.kid = m.kid /\ f.failed
        BY <1>1, <3>1 DEF ClientState, RequestState
      <3>3. request'[r].pc = a
        BY DEF Becomes
      <3>4. QED
        BY <1>3, <2>2, <3>1, <3>2, <3>3
    <2>3. QED
      BY <1>10, <2>1, <2>2 DEF Rediscovered
  <1>11. ASSUME NEW s \in Coroutines, ServeKeys(s) PROVE FALSE
    <2> DEFINE n == [request[s] EXCEPT !.pc = "served", !.read = Generation]
    <2>1. request' = [request EXCEPT ![s] = n]
      BY <1>11 DEF ServeKeys
    <2>2. n.pc = "served"
      BY <1>11 DEF IInv, TypeOK, RequestOK, RequestState
    <2> HIDE DEF n
    <2>3. QED
      BY <1>11, <2>1, <2>2, NoAnswer
  <1>12. ASSUME NEW s \in Coroutines, ReceiveKeys(s) PROVE \E k \in Generations : From(k)
    <2> DEFINE c == [client EXCEPT !.keys = request[s].read, !.fetched = 0]
               f == [request[s] EXCEPT !.failed = FALSE]
    <2>1. Returned(s, c, f) /\ request[s].pc = "served"
      BY <1>12 DEF ReceiveKeys
    <2>2. s = r
      BY <2>1, OnlyMover DEF Returned
    <2>3. f \in RequestState /\ f.kid = m.kid
      BY <1>1, <2>2 DEF RequestState
    <2>4. m.read \in Generations /\ Staleness(m.read) <= Timeout
      <3>1. m.read \in Generations /\ m.age \in 0..Timeout /\ Staleness(m.read) <= m.age
        BY <1>1, <2>1, <2>2 DEF RequestState, IInv, KeysAreRecent
      <3>2. Staleness(m.read) \in Nat
        BY <3>1, StalenessType DEF IInv, Horizon
      <3>3. QED
        BY <3>1, <3>2
    <2>5. c \in ClientState
      <3>1. \A x \in ClientState : [x EXCEPT !.keys = m.read] \in ClientState
        BY <2>4 DEF ClientState
      <3>2. \A x \in ClientState : [x EXCEPT !.fetched = 0] \in ClientState
        BY DEF ClientState
      <3>3. QED
        BY <1>1, <2>2, <3>1, <3>2, Zenon
    <2>6. c.keys = m.read
      BY <1>1, <2>2 DEF ClientState
    <2>7. request'[r].pc = a
      BY DEF Becomes
    <2>8. QED
      BY <1>3, <2>1, <2>2, <2>3, <2>4, <2>5, <2>6, <2>7
  <1>13. ASSUME NEW s \in Coroutines, RefreshFailed(s) PROVE \E k \in Generations : From(k)
    <2> DEFINE f == [request[s] EXCEPT !.failed = TRUE]
    <2>1. Returned(s, client, f) /\ trouble' = 0
      BY <1>13 DEF RefreshFailed
    <2>2. s = r
      BY <2>1, OnlyMover DEF Returned
    <2>3. f \in RequestState /\ f.kid = m.kid /\ f.failed
      BY <1>1, <2>2 DEF RequestState
    <2>4. request'[r].pc = a
      BY DEF Becomes
    <2>5. QED
      BY <1>1, <1>3, <2>1, <2>2, <2>3, <2>4
  <1>14. ASSUME NEW s \in Coroutines, BodyUnreadable(s) PROVE FALSE
    <2> DEFINE n == Answer(request[s], "error")
    <2>1. request' = [request EXCEPT ![s] = n]
      BY <1>14 DEF BodyUnreadable
    <2>2. n.pc = "error"
      BY DEF Answer, Place
    <2> HIDE DEF n
    <2>3. QED
      BY <1>14, <2>1, <2>2, NoAnswer
  <1>15. \E k \in Generations : From(k)
    BY <1>1, <1>4, <1>5, <1>6, <1>7, <1>8, <1>9, <1>10, <1>11, <1>12, <1>13, <1>14 DEF Next
  <1>16. QED
    BY <1>15

\* A token is accepted only with a key the provider published at most TTL plus
\* one timeout ago, whatever else is under way, unless its own refresh failed.
THEOREM AcceptedKeys == Spec => AcceptedKeysAreRecent
  <1>1. ASSUME IInv, Next, NEW r \in Requests, Becomes(r, "accepted"), ~ request'[r].failed
        PROVE  \E g \in 1..Generation : /\ request[r].kid \in Published[g]
                                        /\ Staleness(g) <= TTL + Timeout
    <2>1. PICK k \in Generations : /\ request[r].kid \in KeysOf(k)
                                   /\ Staleness(k) <= TTL + Timeout
      <3>1. "accepted" \in {"accepted", "unknown"}
        OBVIOUS
      <3>2. \E k \in Generations :
               "accepted" = "accepted" =>
                   /\ request[r].kid \in KeysOf(k)
                   /\ request'[r].failed \/ Staleness(k) <= TTL + Timeout
        BY <1>1, <3>1, AnswersFromKeys
      <3>3. QED
        BY <1>1, <3>2
    <2>2. k \in 1..Generation /\ KeysOf(k) = Published[k]
      BY <2>1, LenProperties DEF KeysOf, Generations, IInv, TypeOK, Generation
    <2>3. QED
      BY <2>1, <2>2
  <1>2. IInv /\ [Next]_vars =>
          [\A r \in Requests :
              Becomes(r, "accepted") /\ ~ request'[r].failed =>
                  \E g \in 1..Generation : /\ request[r].kid \in Published[g]
                                           /\ Staleness(g) <= TTL + Timeout]_vars
    BY <1>1
  <1>3. QED
    BY <1>2, Invariance, PTL DEF Spec, AcceptedKeysAreRecent

\* A token of a key that has been published for Cooldown + Timeout ticks is not
\* refused, unless a fetch failed within the cooldown: rotations are seen.
THEOREM RotationsAreSeen == Spec => RotationIsSeen
  <1> DEFINE Refused(r, g) == /\ Becomes(r, "unknown") /\ since[g] >= Cooldown + Timeout
                              /\ trouble' >= Cooldown
  <1>1. ASSUME IInv, Next, NEW r \in Requests, NEW g \in 1..Generation, Refused(r, g)
        PROVE  \E h \in g..Generation : request[r].kid \notin Published[h]
    <2>1. PICK k \in Generations : /\ request[r].kid \notin KeysOf(k)
                                   /\ \/ trouble' < Cooldown
                                      \/ Staleness(k) < Cooldown + Timeout
      <3>1. "unknown" \in {"accepted", "unknown"}
        OBVIOUS
      <3>2. \E k \in Generations :
               "unknown" = "unknown" =>
                   /\ request[r].kid \notin KeysOf(k)
                   /\ trouble' < Cooldown \/ Staleness(k) < Cooldown + Timeout
        BY <1>1, <3>1, AnswersFromKeys
      <3>3. QED
        BY <3>2
    <2>2. trouble' \in 0..Cooldown
      BY <1>1, NextIInv DEF IInv, TypeOK
    <2>3. Staleness(k) < Cooldown + Timeout
      BY <1>1, <2>1, <2>2, TimesAssumption
    <2>4. since[g] \in Nat /\ Staleness(k) \in Nat /\ Generation \in Nat
      BY <1>1, StalenessType, TimesAssumption, LenProperties
         DEF IInv, TypeOK, Generation, Horizon
    <2>5. Staleness(k) < since[g]
      BY <1>1, <2>3, <2>4, TimesAssumption
    <2>6. k >= g
      BY <1>1, <2>5, RecentGeneration
    <2>7. k \in g..Generation /\ KeysOf(k) = Published[k]
      BY <2>4, <2>6 DEF KeysOf, Generations
    <2>8. QED
      BY <2>1, <2>7
  <1>2. IInv /\ [Next]_vars =>
          [\A r \in Requests, g \in 1..Generation :
              Becomes(r, "unknown") /\ since[g] >= Cooldown + Timeout /\ trouble' >= Cooldown =>
                  \E h \in g..Generation : request[r].kid \notin Published[h]]_vars
    BY <1>1
  <1>3. QED
    BY <1>2, Invariance, PTL DEF Spec, RotationIsSeen

=============================================================================
