------------------------------- MODULE SignIn --------------------------------
(***************************************************************************)
(* How the page starts and who it thinks is using it: AuthBootstrap reads  *)
(* the configuration and decides between SSO and a default administrator;  *)
(* under SSO, SSOGuard copies the OIDC library's user into the auth store, *)
(* /auth/me tells who that is, and a screen is chosen from all of these.   *)
(*                                                                         *)
(* An action is one callback: an answer, a batch of React effects, or a    *)
(* click.  Requests follow ApiClient: a 401 starts a renewal, which either *)
(* replaces the token or logs out.                                         *)
(***************************************************************************)
EXTENDS Naturals

CONSTANTS
  MaxToken, \* bound on the tokens issued; they are numbered
  NoSso     \* the token "no-sso"

ASSUME TokensAssumption == MaxToken \in Nat \ {0} /\ NoSso \notin Nat

VARIABLES
  run,        \* the runs of the effect that loads the configuration
  config,     \* authConfig
  loading,    \* of AuthBootstrap
  ssoEnabled, \* auth store
  user,       \* auth store: "none", "default", "me"
  token,      \* auth store: 0 for null, NoSso, or a token
  oidcReady,  \* the OIDC library has looked for a stored user or a callback
  busy,       \* its isLoading after that: a redirect or signinSilent
  leaving,    \* the redirect under way: "none", "signin", "signout"
  oidcToken,  \* access token of its user, 0 without one
  stored,     \* the same in sessionStorage; survives a reload
  synced,     \* oidcToken when the effects of SSOGuard last ran
  registered, \* oidcSignout and oidcSigninSilent are not null
  me,         \* [token -> state of the query ["auth", "me", token]]
  arrived,    \* query.data was rendered and its effect has not run
  renewing,   \* who awaits signinSilent
  removing,   \* who awaits removeUser
  kept,       \* (history) the log-out that threw the token away left the OIDC
              \* library its user
  newest      \* last token issued

bootVars == <<run, config, loading, ssoEnabled>>
storeVars == <<user, token>>
oidcVars == <<oidcReady, busy, leaving, oidcToken, stored, newest>>
guardVars == <<synced, registered, arrived>>
flowVars == <<renewing, removing, kept>>
vars == <<run, config, loading, ssoEnabled, user, token, oidcReady, busy,
          leaving, oidcToken, stored, synced, registered, me, arrived,
          renewing, removing, kept, newest>>

Tokens == 1 .. MaxToken
Runs == 1 .. 2
\* Who may renew: the query of a token, or, as 0, the application's requests.
Flows == 0 .. MaxToken
\* The query is tried twice, and each try resent once with a new token.
FirstTry == {"fetching", "resent"}
SecondTry == {"retrying", "resentAgain"}
QueryStates == {"idle", "ok", "error"} \cup FirstTry \cup SecondTry

TypeOK ==
  /\ run \in [Runs -> {"none", "pending", "cancelled", "over"}]
  /\ run[2] # "none" => run[1] \in {"cancelled", "over"}
  /\ config \in {"none", "sso", "open"}
  /\ loading \in BOOLEAN /\ ssoEnabled \in BOOLEAN
  /\ user \in {"none", "default", "me"}
  /\ token \in Tokens \cup {0, NoSso}
  /\ oidcReady \in BOOLEAN /\ busy \in BOOLEAN
  /\ oidcReady => config = "sso"
  /\ leaving \in {"none", "signin", "signout"}
  /\ oidcToken \in 0 .. MaxToken /\ stored \in 0 .. MaxToken
  /\ newest \in 0 .. MaxToken
  /\ synced \in 0 .. MaxToken /\ registered \in BOOLEAN /\ arrived \in BOOLEAN
  /\ me \in [Tokens -> QueryStates]
  /\ renewing \subseteq Flows /\ removing \subseteq Flows /\ kept \in BOOLEAN

FirstRun == [r \in Runs |-> IF r = 1 THEN "pending" ELSE "none"]
NoQuery == [t \in Tokens |-> "idle"]

Init ==
  /\ run = FirstRun
  /\ config = "none" /\ loading = TRUE /\ ssoEnabled = FALSE
  /\ user = "none" /\ token = 0
  /\ oidcReady = FALSE /\ busy = FALSE /\ leaving = "none" /\ oidcToken = 0
  /\ synced = 0 /\ registered = FALSE /\ arrived = FALSE
  /\ me = NoQuery
  /\ renewing = {} /\ removing = {} /\ kept = FALSE
  /\ stored \in 0 .. 1 /\ newest = stored

-----------------------------------------------------------------------------
(* What is on the screen. *)

authenticated == oidcToken # 0
current == IF token \in Tokens THEN me[token] ELSE "idle"
isLoadingUser == current \in FirstTry \cup SecondTry

\* SSOGuard is in the tree.
Guarded == ~loading /\ ssoEnabled

screen ==
  CASE loading                                 -> "loading"
    [] ~loading /\ ~ssoEnabled                 -> "app"
    [] Guarded /\ (~oidcReady \/ busy)         -> "loading"
    [] Guarded /\ oidcReady /\ ~busy /\ ~authenticated -> "login"
    [] OTHER -> CASE user = "none" /\ current = "error" -> "error"
                  [] user = "none" /\ isLoadingUser     -> "loading"
                  [] OTHER                              -> "app"

-----------------------------------------------------------------------------
(* AuthBootstrap. *)

\* A plausible bug: the effect returns no cleanup.
StrictRemountOnly ==
  /\ run[1] = "pending" /\ run[2] = "none"
  /\ run' = [run EXCEPT ![2] = "pending"]
  /\ UNCHANGED <<config, loading, ssoEnabled, storeVars, oidcVars, guardVars,
                 me, flowVars>>

\* StrictMode runs the effect, its cleanup, and the effect again.
StrictRemount ==
  /\ run[1] = "pending" /\ run[2] = "none"
  /\ run' = [run EXCEPT ![1] = "cancelled", ![2] = "pending"]
  /\ UNCHANGED <<config, loading, ssoEnabled, storeVars, oidcVars, guardVars,
                 me, flowVars>>

\* A plausible bug: the flag is not looked at.
DiscardedNever(r) == FALSE

Discarded(r) == run[r] = "cancelled"

Ignore(r) ==
  /\ run[r] \in {"pending", "cancelled"} /\ Discarded(r)
  /\ run' = [run EXCEPT ![r] = "over"]
  /\ UNCHANGED <<config, loading, ssoEnabled, storeVars, oidcVars, guardVars,
                 me, flowVars>>

WithSso(r) ==
  /\ run[r] \in {"pending", "cancelled"} /\ ~Discarded(r)
  /\ run' = [run EXCEPT ![r] = "over"]
  /\ config' = "sso" /\ ssoEnabled' = TRUE /\ loading' = FALSE
  /\ UNCHANGED <<storeVars, oidcVars, guardVars, me, flowVars>>

\* SSO is off, or the configuration could not be had: the default user.
WithoutSso(r) ==
  /\ run[r] \in {"pending", "cancelled"} /\ ~Discarded(r)
  /\ run' = [run EXCEPT ![r] = "over"]
  /\ config' \in {"open", config}
  /\ ssoEnabled' = FALSE /\ loading' = FALSE
  /\ user' = "default" /\ token' = NoSso
  /\ UNCHANGED <<oidcVars, guardVars, me, flowVars>>

-----------------------------------------------------------------------------
(* The OIDC library. *)

\* It found a stored user that has not expired, or it has not.
OidcInitialised ==
  /\ config = "sso" /\ ~oidcReady
  /\ oidcReady' = TRUE
  /\ oidcToken' \in {stored, 0}
  /\ UNCHANGED <<bootVars, storeVars, busy, leaving, stored, newest,
                 guardVars, me, flowVars>>

\* automaticSilentRenew.
AutomaticRenew ==
  /\ oidcReady /\ authenticated /\ newest < MaxToken
  /\ newest' = newest + 1
  /\ oidcToken' = newest' /\ stored' = newest'
  /\ UNCHANGED <<bootVars, storeVars, oidcReady, busy, leaving, guardVars,
                 me, flowVars>>

-----------------------------------------------------------------------------
(* SSOGuard and useCurrentUser. *)

\* Token tok has its answer: what query.data is rendered from.
Data(tok, queries) ==
  IF tok \in Tokens /\ queries[tok] = "ok" THEN tok ELSE 0

\* The next render has a query.data the last one had not.
NewData == Data(token', me') \notin {0, Data(token, me)}

\* A render is followed by the effects whose dependencies changed, in the
\* order of the hooks.
GuardEffects ==
  /\ Guarded /\ (arrived \/ synced # oidcToken)
  /\ user' = IF arrived THEN "me" ELSE user
  /\ token' = IF synced # oidcToken /\ authenticated THEN oidcToken ELSE token
  /\ registered' = authenticated
  /\ synced' = oidcToken
  /\ kept' = (kept /\ token' = 0)
  /\ UNCHANGED <<bootVars, oidcVars, me, renewing, removing>>
  /\ arrived' = NewData

\* A plausible bug: the query is not keyed by the token.
FetchMeOnce ==
  /\ Guarded /\ current = "idle" /\ token \in Tokens
  /\ me' = [me EXCEPT ![token] = IF \E t \in Tokens : me[t] = "ok"
                                THEN "ok" ELSE "fetching"]
  /\ UNCHANGED <<bootVars, storeVars, oidcVars, guardVars, flowVars>>

\* The query of a token never seen is fetched.
FetchMe ==
  /\ Guarded /\ current = "idle" /\ token \in Tokens
  /\ me' = [me EXCEPT ![token] = "fetching"]
  /\ UNCHANGED <<bootVars, storeVars, oidcVars, guardVars, flowVars>>

\* A plausible bug: the query is retried as long as it fails.
FailedAgain(t) == IF me[t] \in FirstTry THEN "retrying" ELSE "fetching"

\* A try of the query of token t failed; one failure is retried.
Failed(t) == IF me[t] \in FirstTry THEN "retrying" ELSE "error"

MeAnswered(t) ==
  /\ me[t] \in FirstTry \cup SecondTry
  /\ t \notin renewing \cup removing
  /\ \E q \in {"ok", Failed(t)} : me' = [me EXCEPT ![t] = q]
  /\ UNCHANGED <<bootVars, storeVars, oidcVars, synced, registered, flowVars>>
  /\ arrived' = (arrived \/ NewData)

-----------------------------------------------------------------------------
(* A request refused with 401: the response interceptor. *)

Asks(k) == IF k = 0 THEN screen = "app" /\ token # 0
                    ELSE me[k] \in {"fetching", "retrying"}

StartRenewal(k) ==
  /\ ssoEnabled /\ registered /\ Asks(k)
  /\ k \notin renewing \cup removing
  /\ renewing' = renewing \cup {k}
  /\ busy' = TRUE
  /\ UNCHANGED <<bootVars, storeVars, oidcReady, leaving, oidcToken, stored,
                 newest, guardVars, me, removing, kept>>

\* The request that asked is sent again, with its mark.
Resent(k) ==
  IF k = 0 THEN me
  ELSE [me EXCEPT ![k] = IF @ = "fetching" THEN "resent" ELSE "resentAgain"]

RenewalSucceeds(k) ==
  /\ k \in renewing /\ newest < MaxToken
  /\ renewing' = renewing \ {k}
  /\ newest' = newest + 1
  /\ token' = newest' /\ oidcToken' = newest' /\ stored' = newest'
  /\ busy' = FALSE /\ kept' = FALSE
  /\ me' = Resent(k)
  /\ UNCHANGED <<bootVars, user, oidcReady, leaving, synced, registered, removing>>
  /\ arrived' = (arrived \/ NewData)

RenewalFails(k) ==
  /\ k \in renewing
  /\ renewing' = renewing \ {k} /\ removing' = removing \cup {k}
  /\ user' = "none" /\ token' = 0
  /\ busy' = FALSE
  /\ UNCHANGED <<bootVars, oidcReady, leaving, oidcToken, stored, newest,
                 guardVars, me, kept>>

\* removeUser ended; its failure is ignored.
Removed(k) ==
  /\ k \in removing
  /\ removing' = removing \ {k}
  /\ me' = IF k = 0 THEN me ELSE [me EXCEPT ![k] = Failed(k)]
  /\ \/ oidcToken' = 0 /\ stored' = 0 /\ UNCHANGED kept
     \/ kept' = (token = 0) /\ UNCHANGED <<oidcToken, stored>>
  /\ UNCHANGED <<bootVars, storeVars, oidcReady, busy, leaving, newest,
                 guardVars, renewing>>

-----------------------------------------------------------------------------
(* Clicks and redirects. *)

\* The button of LoginPage.
ClickSignIn ==
  /\ screen = "login" /\ leaving = "none"
  /\ busy' = TRUE /\ leaving' = "signin"
  /\ UNCHANGED <<bootVars, storeVars, oidcReady, oidcToken, stored, newest,
                 guardVars, me, flowVars>>

\* The button of the sidebar: the store first, then the OIDC library, which
\* removes its user before it leaves the page.
ClickSignOut ==
  /\ screen = "app" /\ user # "none" /\ ssoEnabled /\ leaving = "none"
  /\ user' = "none" /\ token' = 0
  /\ busy' = TRUE /\ leaving' = "signout"
  /\ UNCHANGED <<bootVars, oidcReady, oidcToken, stored, newest, guardVars,
                 me, flowVars>>

\* The page is loaded again, with a session s in the browser's storage.
Reload(s) ==
  /\ run' = FirstRun
  /\ config' = "none" /\ loading' = TRUE /\ ssoEnabled' = FALSE
  /\ user' = "none" /\ token' = 0
  /\ oidcReady' = FALSE /\ busy' = FALSE /\ leaving' = "none" /\ oidcToken' = 0
  /\ synced' = 0 /\ registered' = FALSE /\ arrived' = FALSE
  /\ me' = NoQuery
  /\ renewing' = {} /\ removing' = {} /\ kept' = FALSE
  /\ stored' = s

\* The page is left, and loaded when the provider sends the user back.
Redirected ==
  /\ leaving # "none"
  /\ \/ leaving = "signin" /\ newest < MaxToken
        /\ newest' = newest + 1 /\ Reload(newest + 1)
     \/ UNCHANGED newest /\ Reload(0)

\* The provider could not be reached: the redirect is given up.
RedirectFails ==
  /\ leaving # "none"
  /\ busy' = FALSE /\ leaving' = "none"
  /\ \/ leaving = "signout" /\ oidcToken' = 0 /\ stored' = 0 /\ UNCHANGED kept
     \/ /\ kept' = (token = 0 /\ (kept \/ leaving = "signout"))
        /\ UNCHANGED <<oidcToken, stored>>
  /\ UNCHANGED <<bootVars, storeVars, oidcReady, newest, guardVars, me,
                 renewing, removing>>

\* The button of AuthErrorScreen reloads the page.
ClickRetry ==
  /\ screen = "error"
  /\ Reload(stored) /\ UNCHANGED newest

-----------------------------------------------------------------------------
Boot == StrictRemount \/ \E r \in Runs : Ignore(r) \/ WithSso(r) \/ WithoutSso(r)

Renewals == \E k \in Flows : StartRenewal(k) \/ RenewalSucceeds(k)
                              \/ RenewalFails(k) \/ Removed(k)

Clicks == ClickSignIn \/ ClickSignOut \/ ClickRetry \/ Redirected \/ RedirectFails

\* The user looks at a page where nothing is under way.
Waiting == screen \in {"app", "login", "error"} /\ UNCHANGED vars

Next ==
  \/ Boot \/ OidcInitialised \/ AutomaticRenew
  \/ GuardEffects \/ FetchMe \/ (\E t \in Tokens : MeAnswered(t))
  \/ Renewals \/ Clicks \/ Waiting

Spec == Init /\ [][Next]_vars

\* Requests settle (axios and the OIDC library have timeouts), effects run
\* after their render, and a redirect succeeds or is given up.  No click and
\* no renewal is assumed to happen.
Fairness ==
  /\ \A r \in Runs : WF_vars(Ignore(r) \/ WithSso(r) \/ WithoutSso(r))
  /\ WF_vars(OidcInitialised) /\ WF_vars(GuardEffects) /\ WF_vars(FetchMe)
  /\ \A t \in Tokens : WF_vars(MeAnswered(t))
  /\ \A k \in Flows : WF_vars(RenewalSucceeds(k) \/ RenewalFails(k))
                       /\ WF_vars(Removed(k))
  /\ WF_vars(Redirected \/ RedirectFails)

FairSpec == Spec /\ Fairness

-----------------------------------------------------------------------------
(* Properties. *)

\* The default administrator and SSO exclude each other, whichever of the two
\* configuration requests of StrictMode answers first or fails, and nobody is
\* ever signed out of a page without SSO (AuthProvider.tsx).
ModesExclusive ==
  IF ssoEnabled THEN user # "default" /\ token # NoSso
  ELSE ~loading => user = "default" /\ token = NoSso

\* Only a run that the page still waits for can decide.
OneDecision == \A r \in Runs : run[r] = "pending" => loading

\* Without SSO the OIDC library is not in the tree, and nothing asks who the
\* user is.
Dormant ==
  ~ssoEnabled =>
    /\ config # "sso" /\ oidcReady = FALSE /\ leaving = "none" /\ registered = FALSE
    /\ oidcToken = 0 /\ synced = 0 /\ arrived = FALSE /\ me = NoQuery
    /\ renewing = {} /\ removing = {}
    /\ loading => user = "none" /\ token = 0

ModeInv == TypeOK /\ OneDecision /\ Dormant /\ (ssoEnabled => ~loading) /\ ModesExclusive

\* What is known of the current token has reached the store or is on its way:
\* the effect that stores it has still to run.
KnownUserIsStored == current = "ok" /\ user # "me" => arrived

\* The library's user gives the store a token, until a log-out throws it away;
\* then his removal is under way, or failed.
TokenlessIsKept ==
  authenticated /\ token = 0 /\ synced = oidcToken =>
    removing # {} \/ leaving = "signout" \/ kept

\* Before the OIDC library has looked there is no token, and none before it is
\* issued.
TokensAreIssued ==
  /\ ~oidcReady => oidcToken = 0 /\ synced = 0 /\ ~registered /\ renewing = {}
  /\ stored <= newest /\ oidcToken <= newest /\ synced <= newest

IInv == ModeInv /\ KnownUserIsStored /\ TokenlessIsKept /\ TokensAreIssued

\* No page stays at "Loading configuration..." or "Authenticating...":
\* whatever fails, the user comes to the application, the login page or the
\* error page (AuthGuard.tsx).
LoadingEnds == screen = "loading" ~> screen # "loading"

\* When nothing is under way, the application knows whose it is, also after one
\* request logged out and another renewed the token: the query is keyed by the
\* token and its effect runs for each (use-auth.ts).  It is left without a token,
\* and perhaps without a user, only by a log-out that left the OIDC library its
\* user, which the interceptor ignores (client.ts).
Resting ==
  /\ renewing = {} /\ removing = {} /\ leaving = "none"
  /\ ~arrived /\ synced = oidcToken
  /\ token \in Tokens => current \in {"ok", "error"}

RestingAppHasUser ==
  Resting /\ screen = "app" =>
    \/ user = (IF ssoEnabled THEN "me" ELSE "default")
    \/ token = 0 /\ kept
=============================================================================
