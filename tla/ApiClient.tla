----------------------------- MODULE ApiClient ------------------------------
(***************************************************************************)
(* The axios instance of the frontend (api/client.ts) with the two         *)
(* interceptors: the token is attached to every request; a request refused *)
(* with 401 renews the token once and is sent again, or signs the user     *)
(* out; a request that failed for a passing reason is sent again after a   *)
(* delay, if its method is idempotent.                                     *)
(*                                                                         *)
(* JavaScript runs one handler at a time, so an action is what happens     *)
(* between two awaits.  The network may deliver a request late, after the  *)
(* client has stopped waiting for it, or never.                            *)
(***************************************************************************)
EXTENDS Naturals, FiniteSets

CONSTANTS
  Calls,       \* calls of the program
  Idempotent,  \* those of method GET, HEAD, OPTIONS or PUT
  MaxRetries,  \* how often a passing failure is retried
  MaxToken     \* bound on the number of tokens the identity provider issues

ASSUME CallsAssumption ==
  /\ Idempotent \subseteq Calls
  /\ MaxRetries \in Nat
  /\ MaxToken \in Nat \ {0}

VARIABLES
  phase,    \* where the call is, see Phases
  renewed,  \* config._retry: the call has asked for a new token
  retries,  \* config._retryCount
  carried,  \* config.headers.Authorization, 0 when there is none
  sent,     \* copies of requests on their way or answered by the backend
  applied,  \* how often the backend has executed the call
  granted,  \* token the identity provider has issued to the call's renewal
  token,    \* the store's token, 0 for null; tokens are numbered as issued
  signedIn, \* OIDC user present: the callbacks of AuthGuard are registered
  newest,   \* the last token issued
  expired   \* tokens up to this one are refused

callVars == <<phase, renewed, retries, carried, sent, applied, granted>>
sessionVars == <<token, signedIn, newest, expired>>
vars == <<phase, renewed, retries, carried, sent, applied, granted,
          token, signedIn, newest, expired>>

Phases == {"idle", "sent", "renewing", "signout", "waiting",
           "resolved", "unauthorized", "rejected"}
Settled(c) == phase[c] \in {"resolved", "unauthorized", "rejected"}
Stages == {"travelling", "executed", "refused", "error"}
Attempts == 0 .. MaxRetries + 1

\* config survives apiClient(config), so its marks number the attempts.
Attempt(c) == retries[c] + (IF renewed[c] THEN 1 ELSE 0)
Copy(c, n, t, s) == [call |-> c, attempt |-> n, token |-> t, stage |-> s]
\* The copy the client is waiting for an answer to.
Awaited(m) == phase[m.call] = "sent" /\ m.attempt = Attempt(m.call)

TypeOK ==
  /\ phase \in [Calls -> Phases]
  /\ renewed \in [Calls -> BOOLEAN]
  /\ retries \in [Calls -> 0 .. MaxRetries]
  /\ carried \in [Calls -> 0 .. MaxToken]
  /\ sent \subseteq [call : Calls, attempt : Attempts,
                     token : 0 .. MaxToken, stage : Stages]
  /\ applied \in [Calls -> 0 .. MaxRetries + 2]
  /\ granted \in [Calls -> 0 .. MaxToken]
  /\ token \in 0 .. MaxToken
  /\ signedIn \in BOOLEAN
  /\ newest \in 0 .. MaxToken
  /\ expired \in 0 .. MaxToken

Init ==
  /\ phase = [c \in Calls |-> "idle"]
  /\ renewed = [c \in Calls |-> FALSE]
  /\ retries = [c \in Calls |-> 0]
  /\ carried = [c \in Calls |-> 0]
  /\ sent = {}
  /\ applied = [c \in Calls |-> 0]
  /\ granted = [c \in Calls |-> 0]
  /\ token = 1 /\ newest = 1 /\ signedIn = TRUE
  /\ expired = 0

-----------------------------------------------------------------------------
(* The request interceptor. *)

\* Without a token in the store the header of an earlier attempt stays.
Header(c, t) == IF t # 0 THEN t ELSE carried[c]

\* Send attempt n of the call with the token t of the store.
Transmit(c, n, t) ==
  /\ phase' = [phase EXCEPT ![c] = "sent"]
  /\ carried' = [carried EXCEPT ![c] = Header(c, t)]
  /\ sent' = sent \cup {Copy(c, n, Header(c, t), "travelling")}

Issue(c) ==
  /\ phase[c] = "idle"
  /\ Transmit(c, 0, token)
  /\ UNCHANGED <<renewed, retries, applied, granted, sessionVars>>

-----------------------------------------------------------------------------
(* The network and the backend. *)

Accepts(t) == t > expired

\* The backend gets a copy, in time or late.  It looks at the token before
\* it does anything else; an error may come before or after the change.
Arrive(m) ==
  /\ m.stage = "travelling"
  /\ \E s \in IF Accepts(m.token) THEN {"executed", "error"} ELSE {"refused"} :
       /\ sent' = (sent \ {m})
                    \cup (IF Awaited(m) THEN {[m EXCEPT !.stage = s]} ELSE {})
       /\ applied' \in
            CASE s = "executed" -> {[applied EXCEPT ![m.call] = @ + 1]}
              [] s = "error"    -> {applied, [applied EXCEPT ![m.call] = @ + 1]}
              [] OTHER          -> {applied}
  /\ UNCHANGED <<phase, renewed, retries, carried, granted, sessionVars>>

\* A copy nobody waits for is lost.
Lose(m) ==
  /\ ~Awaited(m)
  /\ sent' = sent \ {m}
  /\ UNCHANGED <<phase, renewed, retries, carried, applied, granted, sessionVars>>

-----------------------------------------------------------------------------
(* The response interceptor. *)

\* The answer to the call is in; its copy is gone.
Ends(m, p) ==
  /\ Awaited(m)
  /\ sent' = sent \ {m}
  /\ phase' = [phase EXCEPT ![m.call] = p]

Succeed(m) ==
  /\ m.stage = "executed"
  /\ Ends(m, "resolved")
  /\ UNCHANGED <<renewed, retries, carried, applied, granted, sessionVars>>

\* Neither 401 nor passing.
Fail(m) ==
  /\ m.stage = "error"
  /\ Ends(m, "rejected")
  /\ UNCHANGED <<renewed, retries, carried, applied, granted, sessionVars>>

\* 401 for the first time: ask for a token, if there is somebody to ask.
Renew(m) ==
  /\ m.stage = "refused" /\ ~renewed[m.call] /\ signedIn
  /\ Ends(m, "renewing")
  /\ renewed' = [renewed EXCEPT ![m.call] = TRUE]
  /\ UNCHANGED <<retries, carried, applied, granted, sessionVars>>

Unauthorized(m) ==
  /\ m.stage = "refused" /\ (renewed[m.call] \/ ~signedIn)
  /\ Ends(m, "unauthorized")
  /\ UNCHANGED <<renewed, retries, carried, applied, granted, sessionVars>>

\* A plausible bug: the method is not looked at.
RetryableAlways(c) == TRUE

Retryable(c) == c \in Idempotent

\* A plausible bug: the retries are not counted.
TransientUnbounded(c) ==
  /\ phase[c] = "sent"
  /\ IF Retryable(c)
     THEN /\ phase' = [phase EXCEPT ![c] = "waiting"]
          /\ retries' = [retries EXCEPT ![c] = @ + 1]
     ELSE /\ phase' = [phase EXCEPT ![c] = "rejected"]
          /\ UNCHANGED retries
  /\ sent' = {m \in sent : m.call = c => m.stage = "travelling"}
  /\ UNCHANGED <<renewed, carried, applied, granted, sessionVars>>

\* No answer within 30 s, no connection, or 502, 503, 504 from a gateway: the
\* copy may still reach the backend or have reached it.
Transient(c) ==
  /\ phase[c] = "sent"
  /\ IF Retryable(c) /\ retries[c] < MaxRetries
     THEN /\ phase' = [phase EXCEPT ![c] = "waiting"]
          /\ retries' = [retries EXCEPT ![c] = @ + 1]
     ELSE /\ phase' = [phase EXCEPT ![c] = "rejected"]
          /\ UNCHANGED retries
  /\ sent' = {m \in sent : m.call = c => m.stage = "travelling"}
  /\ UNCHANGED <<renewed, carried, applied, granted, sessionVars>>

\* The delay is over.
Resend(c) ==
  /\ phase[c] = "waiting"
  /\ Transmit(c, Attempt(c), token)
  /\ UNCHANGED <<renewed, retries, applied, granted, sessionVars>>

\* signinSilent resolved with a user: the store's token is replaced, by the
\* one this renewal obtained, and the request goes out again.
RenewalSucceeds(c) ==
  /\ phase[c] = "renewing" /\ granted[c] # 0
  /\ token' = granted[c] /\ signedIn' = TRUE
  /\ Transmit(c, Attempt(c), granted[c])
  /\ granted' = [granted EXCEPT ![c] = 0]
  /\ UNCHANGED <<renewed, retries, applied, newest, expired>>

\* A plausible bug: signs out only while OIDC has a user, and waits for it otherwise.
RenewalFailsSignedIn(c) ==
  /\ phase[c] = "renewing" /\ signedIn
  /\ token' = 0
  /\ phase' = [phase EXCEPT ![c] = "signout"]
  /\ granted' = [granted EXCEPT ![c] = 0]
  /\ UNCHANGED <<renewed, retries, carried, sent, applied,
                 signedIn, newest, expired>>

\* signinSilent resolved with null or threw: sign out of the store, then of
\* the OIDC library.
RenewalFails(c) ==
  /\ phase[c] = "renewing"
  /\ token' = 0
  /\ phase' = [phase EXCEPT ![c] = "signout"]
  /\ granted' = [granted EXCEPT ![c] = 0]
  /\ UNCHANGED <<renewed, retries, carried, sent, applied,
                 signedIn, newest, expired>>

\* A plausible bug: the interceptor returns after signing out instead of rejecting.
SignedOutResolves(c) ==
  /\ phase[c] = "signout"
  /\ phase' = [phase EXCEPT ![c] = "resolved"]
  /\ signedIn' \in {signedIn, FALSE}
  /\ UNCHANGED <<renewed, retries, carried, sent, applied, granted,
                 token, newest, expired>>

\* removeUser ended; its failure is swallowed.
SignedOut(c) ==
  /\ phase[c] = "signout"
  /\ phase' = [phase EXCEPT ![c] = "unauthorized"]
  /\ signedIn' \in {signedIn, FALSE}
  /\ UNCHANGED <<renewed, retries, carried, sent, applied, granted,
                 token, newest, expired>>

-----------------------------------------------------------------------------
(* The identity provider. *)

Grant(c) ==
  /\ phase[c] = "renewing" /\ granted[c] = 0
  /\ newest < MaxToken
  /\ newest' = newest + 1
  /\ granted' = [granted EXCEPT ![c] = newest']
  /\ UNCHANGED <<phase, renewed, retries, carried, sent, applied,
                 token, signedIn, expired>>

\* automaticSilentRenew; AuthGuard's effect copies the token to the store.
AutomaticRenew ==
  /\ signedIn /\ newest < MaxToken
  /\ newest' = newest + 1
  /\ token' = newest'
  /\ UNCHANGED <<callVars, signedIn, expired>>

Expire ==
  /\ expired < newest
  /\ expired' = expired + 1
  /\ UNCHANGED <<callVars, token, signedIn, newest>>

-----------------------------------------------------------------------------
Answer(c) == \E m \in sent : m.call = c /\ (Succeed(m) \/ Fail(m) \/ Renew(m)
                                             \/ Unauthorized(m))

Environment ==
  \/ \E m \in sent : Arrive(m) \/ Lose(m)
  \/ \E c \in Calls : Grant(c)
  \/ AutomaticRenew
  \/ Expire

Client ==
  \E c \in Calls :
    \/ Issue(c) \/ Answer(c) \/ Transient(c) \/ Resend(c)
    \/ RenewalSucceeds(c) \/ RenewalFails(c) \/ SignedOut(c)

Terminated ==
  /\ \A c \in Calls : Settled(c)
  /\ UNCHANGED vars

Next == Client \/ Environment \/ Terminated

Spec == Init /\ [][Next]_vars

\* axios gives up after its timeout, timers fire, and signinSilent and
\* removeUser settle (the OIDC library has timeouts of its own).  Nothing is
\* assumed of the network, the backend or the identity provider.
Fairness ==
  \A c \in Calls :
    /\ WF_vars(Answer(c) \/ Transient(c))
    /\ WF_vars(Resend(c))
    /\ WF_vars(RenewalSucceeds(c) \/ RenewalFails(c))
    /\ WF_vars(SignedOut(c))

FairSpec == Spec /\ Fairness

-----------------------------------------------------------------------------
(* Properties. *)

\* What makes the promise hold.  Copies are of calls that were issued, and only
\* an executed one is answered as such.
CopiesOfIssued ==
  \A m \in sent :
    /\ phase[m.call] # "idle"
    /\ m.stage = "executed" => applied[m.call] > 0

\* How often the call went out, at most.
Sendings(c) ==
  CASE phase[c] = "idle"                  -> 0
    [] phase[c] \in {"waiting", "renewing"} -> Attempt(c)
    [] OTHER                              -> Attempt(c) + 1

Travelling(c) == {m \in sent : m.call = c /\ m.stage = "travelling"}

\* Each sending is executed at most once, and not before it arrives.
ExecutionsCounted ==
  /\ IsFiniteSet(sent)
  /\ \A c \in Calls : applied[c] + Cardinality(Travelling(c)) <= Sendings(c)

\* A POST, PATCH or DELETE goes out again only after it was refused.
OneCopy ==
  \A c \in Calls \ Idempotent :
    /\ phase[c] # "waiting"
    /\ applied[c] <= 1
    /\ \A m, n \in sent : m.call = c /\ n.call = c => m = n
    /\ \A m \in sent : m.call = c /\ m.stage \in {"travelling", "refused"}
                         => applied[c] = 0
    /\ phase[c] \in {"idle", "renewing", "signout", "unauthorized"}
         => applied[c] = 0 /\ \A m \in sent : m.call # c

\* The inductive invariant: an answer to a copy is the truth about it, no
\* sending is executed twice, and what is not idempotent is under way once.
IInv == TypeOK /\ CopiesOfIssued /\ ExecutionsCounted /\ OneCopy

\* The promise of RemoteCall: api/client.ts resends without the caller's
\* knowledge, up to MaxRetries times for passing failures and once for a
\* refused token, yet a call settles once, resolves only if it was executed,
\* and a POST, PATCH or DELETE is executed at most once.
status == [c \in Calls |->
             CASE phase[c] = "idle"     -> "idle"
               [] phase[c] = "resolved" -> "resolved"
               [] phase[c] \in {"unauthorized", "rejected"} -> "rejected"
               [] OTHER                 -> "pending"]

Promise == INSTANCE RemoteCall WITH Most <- MaxRetries + 2
PromiseKept == Promise!Spec

\* A POST, PATCH or DELETE rejected for its token has changed nothing and no
\* copy of it is on its way: the user may sign in and do it again.  (A PUT may
\* have been executed before a retry of it was refused.)
RefusedLeavesNothing ==
  \A c \in Calls \ Idempotent :
    phase[c] \in {"renewing", "signout", "unauthorized"} =>
      /\ applied[c] = 0
      /\ \A m \in sent : m.call # c

\* Every call settles, however renewals, retries and sign-outs of several
\* calls overlap, whatever the network and the identity provider do.
EveryCallSettles == \A c \in Calls : phase[c] = "sent" ~> Settled(c)
=============================================================================
