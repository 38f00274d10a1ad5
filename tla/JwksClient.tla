----------------------------- MODULE JwksClient -----------------------------
(***************************************************************************)
(* OIDCClient of backend/app/integrations/oidc_client.py: the identity     *)
(* provider's signing keys, as the coroutines that validate tokens share   *)
(* them.                                                                   *)
(*                                                                         *)
(* The provider publishes a sequence of key sets, its generations; keys    *)
(* are known by the generation they were read from, 0 before any was.  A   *)
(* GET is sent, answered by the provider and received, and anything may    *)
(* happen in between; a Tick lets a second go by.  Ages stop growing when  *)
(* they have outgrown everything they are compared with.                   *)
(*                                                                         *)
(*   begin -> discover -> wellknown -> keys -> served -> an answer         *)
(*                                                                         *)
(* and back to wellknown or keys when one refresh leads to another.        *)
(***************************************************************************)
EXTENDS Naturals, Sequences

CONSTANTS
    Requests,   \* coroutines that validate tokens, again and again
    Main,       \* the start-up of main.py, which initialises the client first
    Kids,       \* key ids of the tokens
    Published,  \* Published[g]: the key ids of the provider's generation g
    TTL,        \* _JWKS_TTL
    Cooldown,   \* _ON_DEMAND_REFRESH_COOLDOWN
    Timeout,    \* oidc_http_timeout_seconds
    None        \* Python's None

ASSUME TimesAssumption == TTL \in Nat /\ Cooldown \in Nat \ {0} /\ Timeout \in Nat

ASSUME ProviderAssumption ==
    /\ Published \in Seq(SUBSET Kids) /\ Published # <<>>
    /\ Main \notin Requests /\ None \notin Kids

VARIABLES
    since,    \* since[g]: ticks since the provider published generation g
    client,   \* the attributes of the OIDCClient
    request,  \* request[r]: where r is in validate_token, or initialize
    trouble   \* ticks since the process started or a fetch last failed

vars == <<since, client, request, trouble>>

Coroutines == Requests \cup {Main}
Generation == Len(since)

\* How long ago the provider replaced generation g.
Staleness(g) == IF g < Generation THEN since[g + 1] ELSE 0

KeysOf(g) == IF g = 0 THEN {} ELSE Published[g]

Horizon == TTL + Cooldown + Timeout + 1

Older(a, bound) == IF a < bound THEN a + 1 ELSE a

Answers  == {"idle", "accepted", "unknown", "uninitialized", "error"}
Fetching == {"discover", "wellknown", "keys", "served"}

Waiting == [pc |-> "idle", stage |-> "none", kid |-> None, stamp |-> 0,
            read |-> 0, age |-> 0, failed |-> FALSE]

\* Both time stamps start at 0.0: they are as old as the host's clock.
Init ==
    /\ since = <<Horizon>>
    /\ trouble = 0
    /\ \E uptime \in 0..Horizon :
          client = [initialized |-> FALSE, jwks_uri |-> FALSE, keys |-> 0,
                    fetched |-> IF uptime > TTL THEN TTL + 1 ELSE uptime,
                    on_demand |-> IF uptime > Cooldown THEN Cooldown ELSE uptime]
    /\ request = [r \in Coroutines |->
                    IF r = Main
                    THEN [Waiting EXCEPT !.pc = "discover", !.stage = "initialize"]
                    ELSE Waiting]

-----------------------------------------------------------------------------
(* The code between two awaits: from the client c and the request m to the *)
(* request's next place                                                    *)

Place(m, pc, stage, stamp) ==
    [pc |-> pc, stage |-> stage, kid |-> m.kid, stamp |-> stamp,
     read |-> 0, age |-> 0, failed |-> m.failed]

Answer(m, answer) == Place(m, answer, "none", 0)

\* _refresh_jwks sends its first GET: for the keys, if it knows where they are.
Refresh(c, m, stage) == Place(m, IF c.jwks_uri THEN "keys" ELSE "wellknown", stage, 0)

Found(c, m) == m.kid \in KeysOf(c.keys)

\* The kid of the token's header, then _get_signing_key, and on a miss the
\* rate-limited refresh: its stamp is taken now and stored when it is over.
Lookup(c, m) ==
    IF m.kid = None THEN Answer(m, "error")
    ELSE IF Found(c, m) THEN Answer(m, "accepted")
    ELSE IF c.on_demand >= Cooldown THEN Refresh(c, m, "on_demand")
    ELSE Answer(m, "unknown")

\* A plausible bug, the code once had: _is_jwks_stale is never called.
SkipStaleCheck(c, m) == Lookup(c, m)

CheckStale(c, m) ==
    IF c.fetched > TTL THEN Refresh(c, m, "stale") ELSE Lookup(c, m)

\* A plausible bug: the keys are not looked up again after the refresh.
NoSecondLookup(c, m) == Answer(m, "unknown")

SecondLookup(c, m) == Answer(m, IF Found(c, m) THEN "accepted" ELSE "unknown")

\* _refresh_jwks returns to the line that awaited it.
Returned(r, c, m) ==
    \/ /\ m.stage = "initialize"
       /\ client' = [c EXCEPT !.initialized = TRUE]
       /\ request' = [request EXCEPT ![r] = IF r = Main THEN Waiting ELSE CheckStale(c, m)]
    \/ /\ m.stage = "stale"
       /\ client' = c
       /\ request' = [request EXCEPT ![r] = Lookup(c, m)]
    \/ /\ m.stage = "on_demand"
       /\ client' = [c EXCEPT !.on_demand = m.stamp]
       /\ request' = [request EXCEPT ![r] = SecondLookup(c, m)]

-----------------------------------------------------------------------------
(* validate_token and initialize                                           *)

\* Requests arrive when the start-up is over, with a token of some key or, for
\* None, with one whose header cannot be read.
Arrive(r, k) ==
    /\ request[Main].pc = "idle"
    /\ request[r].pc \in Answers
    /\ request' = [request EXCEPT ![r] =
                     Place([Waiting EXCEPT !.kid = k], "begin", "none", 0)]
    /\ UNCHANGED <<since, client, trouble>>

Begin(r) ==
    LET m == request[r]
    IN  /\ m.pc = "begin"
        /\ request' = [request EXCEPT ![r] =
                         IF client.initialized THEN CheckStale(client, m)
                         ELSE Place(m, "discover", "initialize", 0)]
        /\ UNCHANGED <<since, client, trouble>>

\* initialize has the well-known configuration, with a jwks_uri or without.
Discovered(r, found) ==
    LET c == [client EXCEPT !.jwks_uri = found]
    IN  /\ request[r].pc = "discover"
        /\ client' = c
        /\ request' = [request EXCEPT ![r] = Refresh(c, request[r], "initialize")]
        /\ UNCHANGED <<since, trouble>>

\* initialize could not read it and returns; another request may have done.
DiscoveryFailed(r) ==
    LET m == request[r]
    IN  /\ m.pc = "discover"
        /\ request' = [request EXCEPT ![r] =
                         IF r = Main THEN Waiting
                         ELSE IF client.initialized THEN CheckStale(client, m)
                         ELSE Answer(m, "uninitialized")]
        /\ trouble' = 0
        /\ UNCHANGED <<since, client>>

\* _refresh_jwks has read the configuration again.  With a jwks_uri it asks for
\* the keys, without one it gives up.
Rediscovered(r) ==
    /\ request[r].pc = "wellknown"
    /\ \/ /\ client' = [client EXCEPT !.jwks_uri = TRUE]
          /\ request' = [request EXCEPT ![r] = Place(@, "keys", @.stage, @.stamp)]
          /\ UNCHANGED trouble
       \/ /\ Returned(r, [client EXCEPT !.jwks_uri = FALSE], [request[r] EXCEPT !.failed = TRUE])
          /\ trouble' = 0
    /\ UNCHANGED since

\* The provider answers with the keys of this moment.
ServeKeys(r) ==
    /\ request[r].pc = "keys"
    /\ request' = [request EXCEPT ![r] = [@ EXCEPT !.pc = "served", !.read = Generation]]
    /\ UNCHANGED <<since, client, trouble>>

\* The answer replaces the keys, whatever arrived in the meantime.
ReceiveKeys(r) ==
    /\ request[r].pc = "served"
    /\ Returned(r, [client EXCEPT !.keys = request[r].read, !.fetched = 0],
                   [request[r] EXCEPT !.failed = FALSE])
    /\ UNCHANGED <<since, trouble>>

\* A plausible bug: the time of the fetch is stored after the try statement.
StampsFailure(r) ==
    /\ request[r].pc \in {"wellknown", "keys", "served"}
    /\ Returned(r, [client EXCEPT !.fetched = 0], [request[r] EXCEPT !.failed = TRUE])
    /\ trouble' = 0
    /\ UNCHANGED since

\* A GET of _refresh_jwks fails, times out or is refused, or a key lacks its kid:
\* the failure is logged, the keys stay, and the caller goes on.
RefreshFailed(r) ==
    /\ request[r].pc \in {"wellknown", "keys", "served"}
    /\ Returned(r, client, [request[r] EXCEPT !.failed = TRUE])
    /\ trouble' = 0
    /\ UNCHANGED since

\* The body is no JSON: nobody catches that before get_current_user.  At
\* start-up the process would not come up at all.
BodyUnreadable(r) ==
    /\ r # Main
    /\ request[r].pc \in Fetching
    /\ request' = [request EXCEPT ![r] = Answer(@, "error")]
    /\ trouble' = 0
    /\ UNCHANGED <<since, client>>

-----------------------------------------------------------------------------

Rotate ==
    /\ Generation < Len(Published)
    /\ since' = Append(since, 0)
    /\ UNCHANGED <<client, request, trouble>>

\* A second goes by: no GET is left waiting longer than its timeout.
Tick ==
    /\ \A r \in Coroutines : request[r].pc \in Fetching => request[r].age < Timeout
    /\ since'   = [g \in 1..Generation |-> Older(since[g], Horizon)]
    /\ trouble' = Older(trouble, Cooldown)
    /\ client'  = [client EXCEPT !.fetched = Older(@, TTL + 1),
                                 !.on_demand = Older(@, Cooldown)]
    /\ request' = [r \in Coroutines |->
                     IF request[r].pc \in Fetching
                     THEN [request[r] EXCEPT !.age = @ + 1,
                            !.stamp = IF request[r].stage = "on_demand"
                                      THEN Older(@, Cooldown) ELSE @]
                     ELSE request[r]]

Next ==
    \/ Tick \/ Rotate
    \/ \E r \in Requests, k \in Kids \cup {None} : Arrive(r, k)
    \/ \E r \in Coroutines :
          \/ Begin(r) \/ DiscoveryFailed(r) \/ \E found \in BOOLEAN : Discovered(r, found)
          \/ Rediscovered(r) \/ ServeKeys(r) \/ ReceiveKeys(r)
          \/ RefreshFailed(r) \/ BodyUnreadable(r)

Spec == Init /\ [][Next]_vars

-----------------------------------------------------------------------------
(* Properties                                                              *)

Generations == 0..Generation

ClientState ==
    [initialized : BOOLEAN, jwks_uri : BOOLEAN, keys : Generations,
     fetched : 0..(TTL + 1), on_demand : 0..Cooldown]

RequestState ==
    [pc : Answers \cup Fetching \cup {"begin"},
     stage : {"none", "initialize", "stale", "on_demand"},
     kid : Kids \cup {None}, stamp : 0..Cooldown, read : Generations,
     age : 0..Timeout, failed : BOOLEAN]

RequestOK(r, m) ==
    /\ m \in RequestState
    /\ m.pc \in Fetching => m.stage # "none"
    /\ m.pc = "discover" => m.stage = "initialize"
    /\ m.pc = "served" => m.read # 0
    /\ m.pc \in {"accepted", "unknown"} \/ m.stage = "on_demand" => m.kid # None
    /\ r = Main => /\ m.pc \in Fetching \cup {"idle"}
                   /\ m.pc # "idle" => m.stage = "initialize"

\* Every variable keeps its type, and a refresh of validate_token only runs in
\* a client that has been initialised, whoever initialised it.
TypeOK ==
    /\ since \in Seq(0..Horizon) /\ Generation \in 1..Len(Published)
    /\ client \in ClientState
    /\ request = [r \in Coroutines |-> request[r]]
    /\ \A r \in Coroutines : RequestOK(r, request[r])
    /\ (\E r \in Requests : request[r].stage \in {"stale", "on_demand"}) => client.initialized
    /\ trouble \in 0..Cooldown

\* What an answer of the provider carries is no older than its request, and the
\* cached keys no older than the refresh that fetched them plus one timeout,
\* though an answer may have overtaken it.
KeysAreRecent ==
    /\ \A r \in Coroutines :
          request[r].pc = "served" => Staleness(request[r].read) <= request[r].age
    /\ client.keys # 0 /\ client.fetched <= TTL =>
          Staleness(client.keys) <= client.fetched + Timeout

\* While the cooldown forbids a refresh, the keys are as recent as the one that
\* started it, unless a fetch has failed since.
CooldownIsEarned ==
    client.on_demand < Cooldown =>
        \/ trouble <= client.on_demand
        \/ Staleness(client.keys) <= client.on_demand + Timeout

SinceOrdered == \A g, h \in 1..Generation : g <= h => since[h] <= since[g]

IInv == TypeOK /\ SinceOrdered /\ KeysAreRecent /\ CooldownIsEarned

Becomes(r, answer) == request[r].pc # answer /\ request'[r].pc = answer

\* "Caches the signing keys with a 6-hour TTL": a token is accepted only with a
\* key the provider published at most TTL plus one timeout ago, unless the
\* refresh its request awaited has failed.
AcceptedKeysAreRecent ==
    [][\A r \in Requests :
          Becomes(r, "accepted") /\ ~ request'[r].failed =>
              \E g \in 1..Generation : /\ request[r].kid \in Published[g]
                                       /\ Staleness(g) <= TTL + Timeout]_vars

\* Key rotation is handled: a token is refused as of an unknown key only if the
\* provider has not published its key throughout the last Cooldown + Timeout
\* ticks, or a fetch has failed (or the process started) within the cooldown.
\* In particular an answer from before the rotation that arrives late, or a
\* cooldown another request's bad token started, refuses it no longer.
RotationIsSeen ==
    [][\A r \in Requests, g \in 1..Generation :
          Becomes(r, "unknown") /\ since[g] >= Cooldown + Timeout /\ trouble' >= Cooldown =>
              \E h \in g..Generation : request[r].kid \notin Published[h]]_vars
=============================================================================
