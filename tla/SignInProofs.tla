---------------------------- MODULE SignInProofs -----------------------------
(***************************************************************************)
(* Theorems about SignIn, for any number of tokens: its types, that a page *)
(* is never under SSO and the default administrator at once, and when an   *)
(* application at rest knows its user.                                     *)
(***************************************************************************)
EXTENDS SignIn, TLAPS

USE TokensAssumption DEF Runs, Tokens, Flows

-----------------------------------------------------------------------------
(* Loading the configuration                                               *)

\* A page just loaded waits for its first run.
LEMMA LoadedAfresh ==
    ASSUME NEW s \in 0 .. MaxToken, newest' \in 0 .. MaxToken, Reload(s)
    PROVE  ModeInv'
  <1>1. FirstRun \in [Runs -> {"none", "pending", "cancelled", "over"}] /\ FirstRun[2] = "none"
    BY DEF FirstRun
  <1>2. NoQuery \in [Tokens -> QueryStates]
    BY DEF NoQuery, QueryStates
  <1>3. TypeOK'
    <2>1. /\ run' = FirstRun /\ me' = NoQuery
          /\ token' = 0 /\ oidcToken' = 0 /\ synced' = 0 /\ stored' = s
          /\ oidcReady' = FALSE /\ busy' = FALSE /\ registered' = FALSE /\ arrived' = FALSE
          /\ loading' = TRUE /\ ssoEnabled' = FALSE
          /\ renewing' = {} /\ removing' = {} /\ kept' = FALSE
          /\ config' = "none" /\ user' = "none" /\ leaving' = "none"
      BY DEF Reload
    <2>2. 0 \in 0 .. MaxToken
      OBVIOUS
    <2>3. QED
      BY <1>1, <1>2, <2>1, <2>2 DEF TypeOK
  <1>4. /\ loading' = TRUE /\ ssoEnabled' = FALSE /\ config' = "none" /\ oidcReady' = FALSE
        /\ leaving' = "none" /\ registered' = FALSE /\ oidcToken' = 0 /\ synced' = 0
        /\ arrived' = FALSE /\ me' = NoQuery /\ renewing' = {} /\ removing' = {}
        /\ user' = "none" /\ token' = 0
    BY DEF Reload
  <1>5. OneDecision' /\ Dormant' /\ (ssoEnabled' => ~loading') /\ ModesExclusive'
    BY <1>4, Zenon DEF OneDecision, Dormant, ModesExclusive
  <1>6. QED
    BY <1>3, <1>5 DEF ModeInv

LEMMA InitModeInv == Init => ModeInv
  <1> SUFFICES ASSUME Init PROVE ModeInv
    OBVIOUS
  <1>1. FirstRun \in [Runs -> {"none", "pending", "cancelled", "over"}] /\ FirstRun[2] = "none"
    BY DEF FirstRun
  <1>2. NoQuery \in [Tokens -> QueryStates]
    BY DEF NoQuery, QueryStates
  <1>3. TypeOK
    <2>1. 0 \in 0 .. MaxToken /\ 0 .. 1 \subseteq 0 .. MaxToken
      OBVIOUS
    <2>2. QED
      BY <1>1, <1>2, <2>1 DEF Init, TypeOK
  <1>4. OneDecision /\ Dormant /\ (ssoEnabled => ~loading) /\ ModesExclusive
    BY Zenon DEF Init, OneDecision, Dormant, ModesExclusive
  <1>5. QED
    BY <1>3, <1>4 DEF ModeInv

\* A run that was cancelled decides nothing, and the one that decides is the
\* last: whether SSO is on is settled once.
LEMMA BootSteps == ModeInv /\ Boot => ModeInv'
  <1> SUFFICES ASSUME ModeInv, Boot PROVE ModeInv'
    OBVIOUS
  <1>1. /\ run \in [Runs -> {"none", "pending", "cancelled", "over"}]
        /\ run[2] # "none" => run[1] \in {"cancelled", "over"}
        /\ \A r \in Runs : run[r] = "pending" => loading
    BY DEF ModeInv, TypeOK, OneDecision
  <1>2. ASSUME UNCHANGED <<config, loading, ssoEnabled, storeVars, oidcVars, guardVars,
                           me, flowVars>>,
               run' \in [Runs -> {"none", "pending", "cancelled", "over"}],
               run'[2] # "none" => run'[1] \in {"cancelled", "over"},
               \A r \in Runs : run'[r] = "pending" => loading
        PROVE  ModeInv'
    <2>1. TypeOK'
      BY <1>2 DEF ModeInv, TypeOK, storeVars, oidcVars, guardVars, flowVars
    <2>2. OneDecision' /\ Dormant' /\ (ssoEnabled' => ~loading') /\ ModesExclusive'
      BY <1>2, Zenon DEF ModeInv, OneDecision, Dormant, ModesExclusive, storeVars, oidcVars,
                         guardVars, flowVars
    <2>3. QED
      BY <2>1, <2>2 DEF ModeInv
  <1>3. CASE StrictRemount
    <2>1. /\ run[1] = "pending" /\ run' = [run EXCEPT ![1] = "cancelled", ![2] = "pending"]
          /\ UNCHANGED <<config, loading, ssoEnabled, storeVars, oidcVars, guardVars,
                         me, flowVars>>
      BY <1>3 DEF StrictRemount
    <2>2. loading
      BY <1>1, <2>1
    <2>3. /\ run' \in [Runs -> {"none", "pending", "cancelled", "over"}]
          /\ run'[1] = "cancelled"
      BY <1>1, <2>1
    <2>4. QED
      BY <1>2, <2>1, <2>2, <2>3
  <1>4. ASSUME NEW r \in Runs, Ignore(r)
        PROVE  ModeInv'
    <2>1. /\ run[r] = "cancelled" /\ run' = [run EXCEPT ![r] = "over"]
          /\ UNCHANGED <<config, loading, ssoEnabled, storeVars, oidcVars, guardVars,
                         me, flowVars>>
      BY <1>4 DEF Ignore, Discarded
    <2>2. /\ run' \in [Runs -> {"none", "pending", "cancelled", "over"}]
          /\ run'[2] # "none" => run'[1] \in {"cancelled", "over"}
          /\ \A s \in Runs : run'[s] = "pending" => run[s] = "pending"
      BY <1>1, <2>1
    <2>3. QED
      BY <1>1, <1>2, <2>1, <2>2
  <1>5. ASSUME NEW r \in Runs, WithSso(r) \/ WithoutSso(r)
        PROVE  /\ run' \in [Runs -> {"none", "pending", "cancelled", "over"}]
               /\ run'[2] # "none" => run'[1] \in {"cancelled", "over"}
               /\ \A s \in Runs : run'[s] # "pending"
               /\ loading /\ ~ssoEnabled
    <2>1. run[r] = "pending" /\ run' = [run EXCEPT ![r] = "over"]
      BY <1>1, <1>5 DEF WithSso, WithoutSso, Discarded
    <2>2. \A s \in Runs : s # r => run[s] # "pending"
      BY <1>1, <2>1
    <2>3. loading /\ ~ssoEnabled
      BY <1>1, <2>1 DEF ModeInv
    <2>4. QED
      BY <1>1, <2>1, <2>2, <2>3
  <1>6. ASSUME NEW r \in Runs, WithSso(r)
        PROVE  ModeInv'
    <2>1. /\ config' = "sso" /\ ssoEnabled' = TRUE /\ loading' = FALSE
          /\ UNCHANGED <<storeVars, oidcVars, guardVars, me, flowVars>>
      BY <1>6 DEF WithSso
    <2>2. user = "none" /\ token = 0
      BY <1>5, <1>6, Zenon DEF ModeInv, Dormant
    <2>3. TypeOK'
      BY <1>5, <1>6, <2>1 DEF ModeInv, TypeOK, storeVars, oidcVars, guardVars, flowVars
    <2>4. 0 # NoSso
      OBVIOUS
    <2>5. OneDecision' /\ Dormant' /\ (ssoEnabled' => ~loading') /\ ModesExclusive'
      BY <1>5, <1>6, <2>1, <2>2, <2>4, Zenon
         DEF OneDecision, Dormant, ModesExclusive, storeVars
    <2>6. QED
      BY <2>3, <2>5 DEF ModeInv
  <1>7. ASSUME NEW r \in Runs, WithoutSso(r)
        PROVE  ModeInv'
    <2>1. /\ config' \in {"open", config} /\ ssoEnabled' = FALSE /\ loading' = FALSE
          /\ user' = "default" /\ token' = NoSso
          /\ UNCHANGED <<oidcVars, guardVars, me, flowVars>>
      BY <1>7 DEF WithoutSso
    <2>2. /\ config # "sso" /\ oidcReady = FALSE /\ leaving = "none" /\ registered = FALSE
          /\ oidcToken = 0 /\ synced = 0 /\ arrived = FALSE /\ me = NoQuery
          /\ renewing = {} /\ removing = {}
      BY <1>5, <1>7, Zenon DEF ModeInv, Dormant
    <2>3. config' # "sso" /\ "open" # "sso"
      BY <2>1, <2>2
    <2>4. TypeOK'
      BY <1>5, <1>7, <2>1, <2>2 DEF ModeInv, TypeOK, oidcVars, guardVars, flowVars
    <2>5. OneDecision' /\ Dormant' /\ (ssoEnabled' => ~loading') /\ ModesExclusive'
      BY <1>5, <1>7, <2>1, <2>2, <2>3, Zenon
         DEF OneDecision, Dormant, ModesExclusive, oidcVars, guardVars, flowVars
    <2>6. QED
      BY <2>4, <2>5 DEF ModeInv
  <1>8. QED
    BY <1>3, <1>4, <1>6, <1>7 DEF Boot

-----------------------------------------------------------------------------
(* Under SSO                                                               *)

\* Once SSO is on, a step need only keep the default user and token out.
LEMMA UnderSso ==
    ASSUME ModeInv, ssoEnabled, UNCHANGED bootVars, TypeOK',
           user' # "default", token' # NoSso
    PROVE  ModeInv'
  BY Zenon DEF ModeInv, OneDecision, Dormant, ModesExclusive, bootVars

\* Only a page under SSO has a redirect, a renewal, or a query of its user.
LEMMA Awake ==
    ASSUME ModeInv,
           \/ oidcReady \/ leaving # "none" \/ config = "sso" \/ Guarded
           \/ \E k \in Flows : k \in renewing \cup removing
           \/ \E t \in Tokens : me[t] # "idle"
    PROVE  ssoEnabled /\ user # "default" /\ token # NoSso
  <1>1. ssoEnabled
    <2>1. SUFFICES ASSUME ~ssoEnabled PROVE FALSE
      OBVIOUS
    <2>2. /\ config # "sso" /\ oidcReady = FALSE /\ leaving = "none"
          /\ me = NoQuery /\ renewing = {} /\ removing = {}
      BY <2>1, Zenon DEF ModeInv, Dormant
    <2>3. \A t \in Tokens : me[t] = "idle"
      BY <2>2 DEF NoQuery
    <2>4. QED
      BY <2>1, <2>2, <2>3 DEF Guarded
  <1>2. QED
    BY <1>1, Zenon DEF ModeInv, ModesExclusive

LEMMA OidcSteps ==
    ASSUME ModeInv, OidcInitialised \/ AutomaticRenew
    PROVE  ModeInv'
  <1>1. ssoEnabled /\ user # "default" /\ token # NoSso
    BY Awake DEF OidcInitialised, AutomaticRenew
  <1>2. TypeOK /\ config = "sso"
    BY <1>1, Zenon DEF ModeInv, TypeOK, OidcInitialised, AutomaticRenew
  <1>3. TypeOK' /\ UNCHANGED bootVars /\ UNCHANGED storeVars
    <2>1. CASE OidcInitialised
      BY <1>2, <2>1 DEF OidcInitialised, TypeOK, bootVars, storeVars, guardVars, flowVars
    <2>2. CASE AutomaticRenew
      BY <1>2, <2>2 DEF AutomaticRenew, TypeOK, bootVars, storeVars, guardVars, flowVars
    <2>3. QED
      BY <2>1, <2>2
  <1>4. QED
    BY <1>1, <1>3, UnderSso DEF storeVars

\* The effects and the query of the signed-in user.
LEMMA GuardSteps ==
    ASSUME ModeInv, GuardEffects \/ FetchMe \/ \E t \in Tokens : MeAnswered(t)
    PROVE  ModeInv'
  <1>1. ssoEnabled /\ user # "default" /\ token # NoSso
    <2>1. CASE GuardEffects \/ FetchMe
      BY <2>1, Awake DEF GuardEffects, FetchMe
    <2>2. CASE \E t \in Tokens : MeAnswered(t)
      BY <2>2, Awake DEF MeAnswered, FirstTry, SecondTry
    <2>3. QED
      BY <2>1, <2>2
  <1>2. TypeOK
    BY DEF ModeInv
  <1>3. CASE GuardEffects
    <2>1. /\ user' \in {"me", user} /\ token' \in {token, oidcToken}
          /\ registered' = authenticated /\ synced' = oidcToken /\ arrived' = NewData
          /\ kept' = (kept /\ token' = 0)
          /\ UNCHANGED <<bootVars, oidcVars, me, renewing, removing>>
      BY <1>3 DEF GuardEffects
    <2>2. token' # NoSso /\ user' # "default"
      BY <1>1, <1>2, <2>1 DEF TypeOK
    <2>3. token' \in Tokens \cup {0, NoSso}
      BY <1>2, <2>1 DEF TypeOK
    <2>4. registered' \in BOOLEAN /\ arrived' \in BOOLEAN /\ kept' \in BOOLEAN
      BY <2>1, Zenon DEF authenticated, NewData
    <2>5. TypeOK' /\ UNCHANGED bootVars
      BY <1>2, <2>1, <2>3, <2>4 DEF TypeOK, bootVars, oidcVars
    <2>6. QED
      BY <1>1, <2>2, <2>5, UnderSso
  <1>4. CASE FetchMe
    <2>1. /\ me' = [me EXCEPT ![token] = "fetching"] /\ token \in Tokens
          /\ UNCHANGED <<bootVars, storeVars, oidcVars, guardVars, flowVars>>
      BY <1>4 DEF FetchMe
    <2>2. me' \in [Tokens -> QueryStates]
      BY <1>2, <2>1 DEF TypeOK, QueryStates, FirstTry
    <2>3. TypeOK' /\ UNCHANGED bootVars /\ UNCHANGED storeVars
      BY <1>2, <2>1, <2>2 DEF TypeOK, bootVars, storeVars, oidcVars, guardVars, flowVars
    <2>4. QED
      BY <1>1, <2>3, UnderSso DEF storeVars
  <1>5. ASSUME NEW t \in Tokens, MeAnswered(t)
        PROVE  ModeInv'
    <2>1. /\ \E q \in {"ok", Failed(t)} : me' = [me EXCEPT ![t] = q]
          /\ arrived' = (arrived \/ NewData)
          /\ UNCHANGED <<bootVars, storeVars, oidcVars, synced, registered, flowVars>>
      BY <1>5, Zenon DEF MeAnswered
    <2>2. Failed(t) \in QueryStates /\ "ok" \in QueryStates
      BY DEF Failed, QueryStates, SecondTry
    <2>3. me' \in [Tokens -> QueryStates]
      BY <1>2, <2>1, <2>2 DEF TypeOK
    <2>4. arrived' \in BOOLEAN
      BY <2>1, Zenon
    <2>5. TypeOK' /\ UNCHANGED bootVars /\ UNCHANGED storeVars
      BY <1>2, <2>1, <2>3, <2>4 DEF TypeOK, bootVars, storeVars, oidcVars, flowVars
    <2>6. QED
      BY <1>1, <2>5, UnderSso DEF storeVars
  <1>6. QED
    BY <1>3, <1>4, <1>5

\* A refused request: the store is left without a user or with a new token.
LEMMA RenewalSteps ==
    ASSUME ModeInv, Renewals
    PROVE  ModeInv'
  <1>1. TypeOK
    BY DEF ModeInv
  <1>2. ASSUME NEW k \in Flows, StartRenewal(k)
        PROVE  ModeInv'
    <2>1. /\ ssoEnabled /\ renewing' = renewing \cup {k} /\ busy' = TRUE
          /\ UNCHANGED <<bootVars, storeVars, oidcReady, leaving, oidcToken, stored,
                         newest, guardVars, me, removing, kept>>
      BY <1>2, Zenon DEF StartRenewal
    <2>2. user # "default" /\ token # NoSso
      BY <2>1, Zenon DEF ModeInv, ModesExclusive
    <2>3. TypeOK' /\ UNCHANGED bootVars /\ UNCHANGED storeVars
      BY <1>1, <1>2, <2>1 DEF TypeOK, bootVars, storeVars, guardVars
    <2>4. QED
      BY <2>1, <2>2, <2>3, UnderSso DEF storeVars
  <1>3. ASSUME NEW k \in Flows, RenewalSucceeds(k)
        PROVE  ModeInv'
    <2>1. /\ k \in renewing /\ newest < MaxToken /\ renewing' = renewing \ {k}
          /\ newest' = newest + 1
          /\ token' = newest' /\ oidcToken' = newest' /\ stored' = newest'
          /\ busy' = FALSE /\ kept' = FALSE /\ me' = Resent(k) /\ arrived' = (arrived \/ NewData)
          /\ UNCHANGED <<bootVars, user, oidcReady, leaving, synced, registered, removing>>
      BY <1>3, Zenon DEF RenewalSucceeds
    <2>2. ssoEnabled /\ user # "default"
      BY <2>1, Awake
    <2>3. newest' \in Tokens /\ newest' \in 0 .. MaxToken /\ newest' # NoSso
      BY <1>1, <2>1 DEF TypeOK
    <2>4. me' \in [Tokens -> QueryStates]
      BY <1>1, <1>3, <2>1 DEF TypeOK, Resent, QueryStates, FirstTry, SecondTry
    <2>5. arrived' \in BOOLEAN
      BY <2>1, Zenon
    <2>6. TypeOK' /\ UNCHANGED bootVars
      BY <1>1, <2>1, <2>3, <2>4, <2>5 DEF TypeOK, bootVars
    <2>7. QED
      BY <2>1, <2>2, <2>3, <2>6, UnderSso
  <1>4. ASSUME NEW k \in Flows, RenewalFails(k)
        PROVE  ModeInv'
    <2>1. /\ k \in renewing /\ renewing' = renewing \ {k} /\ removing' = removing \cup {k}
          /\ user' = "none" /\ token' = 0 /\ busy' = FALSE
          /\ UNCHANGED <<bootVars, oidcReady, leaving, oidcToken, stored, newest,
                         guardVars, me, kept>>
      BY <1>4, Zenon DEF RenewalFails
    <2>2. ssoEnabled
      BY <2>1, Awake
    <2>3. TypeOK' /\ UNCHANGED bootVars
      BY <1>1, <1>4, <2>1 DEF TypeOK, bootVars, guardVars
    <2>4. user' # "default" /\ token' # NoSso
      BY <2>1
    <2>5. QED
      BY <2>2, <2>3, <2>4, UnderSso
  <1>5. ASSUME NEW k \in Flows, Removed(k)
        PROVE  ModeInv'
    <2>1. /\ k \in removing /\ removing' = removing \ {k}
          /\ me' = IF k = 0 THEN me ELSE [me EXCEPT ![k] = Failed(k)]
          /\ oidcToken' \in {0, oidcToken} /\ stored' \in {0, stored}
          /\ kept' \in {kept, token = 0}
          /\ UNCHANGED <<bootVars, storeVars, oidcReady, busy, leaving, newest,
                         guardVars, renewing>>
      BY <1>5 DEF Removed
    <2>2. ssoEnabled /\ user # "default" /\ token # NoSso
      BY <2>1, Awake
    <2>3. Failed(k) \in QueryStates
      BY DEF Failed, QueryStates, SecondTry
    <2>4. me' \in [Tokens -> QueryStates]
      BY <1>1, <1>5, <2>1, <2>3 DEF TypeOK
    <2>5. kept' \in BOOLEAN
      BY <1>1, <2>1, Zenon DEF TypeOK
    <2>6. TypeOK' /\ UNCHANGED bootVars /\ UNCHANGED storeVars
      BY <1>1, <2>1, <2>4, <2>5 DEF TypeOK, bootVars, storeVars, guardVars
    <2>7. QED
      BY <2>2, <2>6, UnderSso DEF storeVars
  <1>6. QED
    BY <1>2, <1>3, <1>4, <1>5 DEF Renewals

\* The user's clicks, and where they lead.
LEMMA ClickSteps ==
    ASSUME ModeInv, Clicks
    PROVE  ModeInv'
  <1>1. TypeOK
    BY DEF ModeInv
  <1>2. CASE ClickSignIn
    <2>1. /\ screen = "login" /\ busy' = TRUE /\ leaving' = "signin"
          /\ UNCHANGED <<bootVars, storeVars, oidcReady, oidcToken, stored, newest,
                         guardVars, me, flowVars>>
      BY <1>2, Zenon DEF ClickSignIn
    <2>2. Guarded
      <3>1. loading => screen = "loading"
        BY Zenon DEF screen, Guarded
      <3>2. ~loading /\ ~ssoEnabled => screen = "app"
        BY Zenon DEF screen, Guarded
      <3>3. QED
        BY <2>1, <3>1, <3>2, "login" # "loading", "login" # "app", Zenon DEF Guarded
    <2>3. ssoEnabled /\ user # "default" /\ token # NoSso
      BY <2>2, Awake
    <2>4. TypeOK' /\ UNCHANGED bootVars /\ UNCHANGED storeVars
      BY <1>1, <2>1 DEF TypeOK, bootVars, storeVars, guardVars, flowVars
    <2>5. QED
      BY <2>3, <2>4, UnderSso DEF storeVars
  <1>3. CASE ClickSignOut
    <2>1. /\ ssoEnabled /\ user' = "none" /\ token' = 0 /\ busy' = TRUE /\ leaving' = "signout"
          /\ UNCHANGED <<bootVars, oidcReady, oidcToken, stored, newest, guardVars,
                         me, flowVars>>
      BY <1>3, Zenon DEF ClickSignOut
    <2>2. TypeOK' /\ UNCHANGED bootVars
      BY <1>1, <2>1 DEF TypeOK, bootVars, guardVars, flowVars
    <2>3. user' # "default" /\ token' # NoSso
      BY <2>1
    <2>4. QED
      BY <2>1, <2>2, <2>3, UnderSso
  <1>4. CASE ClickRetry
    BY <1>1, <1>4, LoadedAfresh DEF ClickRetry, TypeOK
  <1>5. CASE Redirected
    <2>1. CASE newest < MaxToken /\ newest' = newest + 1 /\ Reload(newest + 1)
      <3>1. newest + 1 \in 0 .. MaxToken
        BY <1>1, <2>1 DEF TypeOK
      <3>2. PICK n \in 0 .. MaxToken : n = newest + 1
        BY <3>1
      <3>3. Reload(n) /\ newest' \in 0 .. MaxToken
        BY <2>1, <3>2
      <3>4. QED
        BY <3>3, LoadedAfresh
    <2>2. CASE UNCHANGED newest /\ Reload(0)
      <3>1. 0 \in 0 .. MaxToken
        OBVIOUS
      <3>2. QED
        BY <1>1, <2>2, <3>1, LoadedAfresh DEF TypeOK
    <2>3. QED
      BY <1>5, <2>1, <2>2 DEF Redirected
  <1>6. CASE RedirectFails
    <2>1. /\ leaving # "none" /\ busy' = FALSE /\ leaving' = "none"
          /\ oidcToken' \in {0, oidcToken} /\ stored' \in {0, stored}
          /\ kept' \in BOOLEAN
          /\ UNCHANGED <<bootVars, storeVars, oidcReady, newest, guardVars, me,
                         renewing, removing>>
      BY <1>1, <1>6 DEF RedirectFails, TypeOK
    <2>2. ssoEnabled /\ user # "default" /\ token # NoSso
      BY <2>1, Awake
    <2>3. TypeOK' /\ UNCHANGED bootVars /\ UNCHANGED storeVars
      <3>1. oidcToken' \in 0 .. MaxToken /\ stored' \in 0 .. MaxToken
        BY <1>1, <2>1 DEF TypeOK
      <3>2. UNCHANGED bootVars /\ UNCHANGED storeVars
        BY <2>1 DEF bootVars, storeVars
      <3>3. UNCHANGED <<oidcReady, newest, synced, registered, arrived, me, renewing, removing>>
        BY <2>1 DEF guardVars
      <3>4. /\ oidcReady' \in BOOLEAN /\ busy' \in BOOLEAN /\ leaving' \in {"none", "signin", "signout"}
            /\ newest' \in 0 .. MaxToken /\ synced' \in 0 .. MaxToken
            /\ registered' \in BOOLEAN /\ arrived' \in BOOLEAN
            /\ me' \in [Tokens -> QueryStates] /\ renewing' \subseteq Flows /\ removing' \subseteq Flows
            /\ kept' \in BOOLEAN
        BY <1>1, <2>1, <3>3 DEF TypeOK
      <3>5. TypeOK'
        BY <1>1, <3>1, <3>2, <3>3, <3>4 DEF TypeOK, bootVars, storeVars
      <3>6. QED
        BY <3>2, <3>5
    <2>4. QED
      BY <2>2, <2>3, UnderSso DEF storeVars
  <1>7. QED
    BY <1>2, <1>3, <1>4, <1>5, <1>6 DEF Clicks

LEMMA NextModeInv == ModeInv /\ [Next]_vars => ModeInv'
  <1> SUFFICES ASSUME ModeInv, [Next]_vars PROVE ModeInv'
    OBVIOUS
  <1>1. CASE UNCHANGED vars
    <2>1. TypeOK'
      BY <1>1 DEF vars, ModeInv, TypeOK
    <2>2. OneDecision' /\ Dormant' /\ (ssoEnabled' => ~loading') /\ ModesExclusive'
      BY <1>1, Zenon DEF vars, ModeInv, OneDecision, Dormant, ModesExclusive
    <2>3. QED
      BY <2>1, <2>2 DEF ModeInv
  <1>2. QED
    BY <1>1, BootSteps, OidcSteps, GuardSteps, RenewalSteps, ClickSteps DEF Next, Waiting

-----------------------------------------------------------------------------
(* The answer of /auth/me                                                  *)

\* A step after which the current query has no answer owes the store nothing.
LEMMA NothingKnown ==
    ASSUME token' \notin Tokens \/ me'[token'] # "ok"
    PROVE  KnownUserIsStored'
  BY DEF KnownUserIsStored, current

\* A step that changes neither the answers nor the store leaves it owed as it was.
LEMMA StillOwed ==
    ASSUME KnownUserIsStored, UNCHANGED <<user, token, me, arrived>>
    PROVE  KnownUserIsStored'
  BY DEF KnownUserIsStored, current

\* A step that brings an answer, or changes the token to one that is answered,
\* is noticed by the render that follows it.
LEMMA NoticedAnswer ==
    ASSUME KnownUserIsStored, user' = user, arrived' = (arrived \/ NewData)
    PROVE  KnownUserIsStored'
  <1> SUFFICES ASSUME token' \in Tokens, me'[token'] = "ok", user # "me", ~arrived
               PROVE  NewData
    BY DEF KnownUserIsStored, current
  <1>1. Data(token', me') = token'
    BY DEF Data
  <1>2. Data(token, me) # token'
    BY DEF Data, KnownUserIsStored, current
  <1>3. QED
    BY <1>1, <1>2 DEF NewData

\* The effects store the answer that was rendered, and notice the next.
LEMMA EffectsStore == KnownUserIsStored /\ GuardEffects => KnownUserIsStored'
  <1> SUFFICES ASSUME KnownUserIsStored, GuardEffects PROVE KnownUserIsStored'
    OBVIOUS
  <1>1. user' = (IF arrived THEN "me" ELSE user) /\ arrived' = NewData
    BY DEF GuardEffects
  <1>2. CASE arrived
    BY <1>1, <1>2 DEF KnownUserIsStored
  <1>3. CASE ~arrived
    <2>1. user' = user
      BY <1>1, <1>3
    <2>2. arrived' = (arrived \/ NewData)
      BY <1>1, <1>3, Zenon DEF NewData
    <2>3. QED
      BY <2>1, <2>2, NoticedAnswer
  <1>4. QED
    BY <1>2, <1>3

\* A failure is no answer.
LEMMA RemovedOwes ==
    ASSUME TypeOK, KnownUserIsStored, NEW k \in Flows, Removed(k)
    PROVE  KnownUserIsStored'
  <1>1. /\ me' = IF k = 0 THEN me ELSE [me EXCEPT ![k] = Failed(k)]
        /\ user' = user /\ token' = token /\ arrived' = arrived
    BY DEF Removed, storeVars, guardVars
  <1>2. Failed(k) # "ok"
    BY DEF Failed
  <1>3. me \in [Tokens -> QueryStates]
    BY DEF TypeOK
  <1>4. token' \in Tokens /\ me'[token'] = "ok" => me[token] = "ok"
    BY <1>1, <1>2, <1>3
  <1>5. QED
    BY <1>1, <1>4 DEF KnownUserIsStored, current

\* Every step leaves the answer stored or about to be.
LEMMA NextKnownUserIsStored == IInv /\ [Next]_vars => KnownUserIsStored'
  <1> SUFFICES ASSUME IInv, [Next]_vars PROVE KnownUserIsStored'
    OBVIOUS
  <1>1. TypeOK /\ KnownUserIsStored
    BY DEF IInv, ModeInv
  <1>2. CASE UNCHANGED vars
    BY <1>1, <1>2, StillOwed DEF vars
  <1>3. CASE Boot
    <2>1. ASSUME NEW r \in Runs, WithoutSso(r) PROVE KnownUserIsStored'
      BY <2>1, NothingKnown DEF WithoutSso
    <2>2. ASSUME NEW r \in Runs, Ignore(r) \/ WithSso(r) PROVE KnownUserIsStored'
      BY <1>1, <2>2, StillOwed DEF Ignore, WithSso, storeVars, guardVars
    <2>3. CASE StrictRemount
      BY <1>1, <2>3, StillOwed DEF StrictRemount, storeVars, guardVars
    <2>4. QED
      BY <1>3, <2>1, <2>2, <2>3 DEF Boot
  <1>4. CASE OidcInitialised \/ AutomaticRenew
    BY <1>1, <1>4, StillOwed DEF OidcInitialised, AutomaticRenew, storeVars, guardVars
  <1>5. CASE GuardEffects
    BY <1>1, <1>5, EffectsStore
  <1>6. CASE FetchMe
    <2>1. token \in Tokens /\ token' = token /\ me' = [me EXCEPT ![token] = "fetching"]
      BY <1>6 DEF FetchMe, storeVars
    <2>2. me'[token'] # "ok"
      BY <1>1, <2>1 DEF TypeOK
    <2>3. QED
      BY <2>2, NothingKnown
  <1>7. ASSUME NEW t \in Tokens, MeAnswered(t) PROVE KnownUserIsStored'
    BY <1>1, <1>7, NoticedAnswer DEF MeAnswered, storeVars
  <1>8. CASE Renewals
    <2>1. ASSUME NEW k \in Flows, StartRenewal(k) PROVE KnownUserIsStored'
      BY <1>1, <2>1, StillOwed DEF StartRenewal, storeVars, guardVars
    <2>2. ASSUME NEW k \in Flows, RenewalSucceeds(k) PROVE KnownUserIsStored'
      BY <1>1, <2>2, NoticedAnswer DEF RenewalSucceeds
    <2>3. ASSUME NEW k \in Flows, RenewalFails(k) PROVE KnownUserIsStored'
      BY <2>3, NothingKnown DEF RenewalFails
    <2>4. ASSUME NEW k \in Flows, Removed(k) PROVE KnownUserIsStored'
      BY <1>1, <2>4, RemovedOwes
    <2>5. QED
      BY <1>8, <2>1, <2>2, <2>3, <2>4 DEF Renewals
  <1>9. CASE Clicks
    <2>1. CASE ClickSignIn \/ RedirectFails
      BY <1>1, <2>1, StillOwed DEF ClickSignIn, RedirectFails, storeVars, guardVars
    <2>2. CASE ClickSignOut \/ ClickRetry \/ Redirected
      BY <2>2, NothingKnown DEF ClickSignOut, ClickRetry, Redirected, Reload
    <2>3. QED
      BY <1>9, <2>1, <2>2 DEF Clicks
  <1>10. CASE Waiting
    BY <1>1, <1>10, StillOwed DEF Waiting, vars
  <1>11. QED
    BY <1>2, <1>3, <1>4, <1>5, <1>6, <1>7, <1>8, <1>9, <1>10 DEF Next

-----------------------------------------------------------------------------
(* A store without a token                                                 *)

\* A step that changes none of these issues nothing.
LEMMA NothingIssued ==
    ASSUME TokensAreIssued,
           UNCHANGED <<oidcReady, oidcToken, stored, synced, registered, renewing, newest>>
    PROVE  TokensAreIssued'
  BY DEF TokensAreIssued

LEMMA ReloadIssues ==
    ASSUME NEW s \in Nat, newest' \in Nat, s <= newest', Reload(s)
    PROVE  TokensAreIssued'
  BY DEF Reload, TokensAreIssued

\* Tokens are issued one after the other, and only to a library that has looked.
LEMMA NextTokensAreIssued == IInv /\ [Next]_vars => TokensAreIssued'
  <1> SUFFICES ASSUME IInv, [Next]_vars PROVE TokensAreIssued'
    OBVIOUS
  <1>1. TypeOK /\ TokensAreIssued
    BY DEF IInv, ModeInv
  <1>2. CASE UNCHANGED vars
    BY <1>1, <1>2, NothingIssued DEF vars
  <1>3. CASE Boot
    BY <1>1, <1>3, NothingIssued
       DEF Boot, StrictRemount, Ignore, WithSso, WithoutSso, oidcVars, guardVars, flowVars
  <1>4. CASE OidcInitialised
    BY <1>1, <1>4 DEF OidcInitialised, TokensAreIssued, TypeOK, guardVars
  <1>5. CASE AutomaticRenew
    BY <1>1, <1>5 DEF AutomaticRenew, TokensAreIssued, TypeOK, guardVars
  <1>6. CASE GuardEffects
    BY <1>1, <1>6 DEF GuardEffects, TokensAreIssued, authenticated, oidcVars
  <1>7. CASE FetchMe
    BY <1>1, <1>7, NothingIssued DEF FetchMe, oidcVars, guardVars, flowVars
  <1>8. ASSUME NEW t \in Tokens, MeAnswered(t) PROVE TokensAreIssued'
    BY <1>1, <1>8, NothingIssued DEF MeAnswered, oidcVars, flowVars
  <1>9. CASE Renewals
    <2>1. ASSUME NEW k \in Flows, StartRenewal(k) PROVE TokensAreIssued'
      BY <1>1, <2>1, Zenon DEF StartRenewal, TokensAreIssued, guardVars
    <2>2. ASSUME NEW k \in Flows, RenewalSucceeds(k) PROVE TokensAreIssued'
      <3>1. /\ k \in renewing /\ newest' = newest + 1
            /\ oidcToken' = newest' /\ stored' = newest'
            /\ UNCHANGED <<oidcReady, synced>>
        BY <2>2 DEF RenewalSucceeds
      <3>2. oidcReady
        BY <1>1, <3>1 DEF TokensAreIssued
      <3>3. QED
        BY <1>1, <3>1, <3>2 DEF TokensAreIssued, TypeOK
    <2>3. ASSUME NEW k \in Flows, RenewalFails(k) PROVE TokensAreIssued'
      BY <1>1, <2>3 DEF RenewalFails, TokensAreIssued, guardVars
    <2>4. ASSUME NEW k \in Flows, Removed(k) PROVE TokensAreIssued'
      BY <1>1, <2>4 DEF Removed, TokensAreIssued, TypeOK, guardVars
    <2>5. QED
      BY <1>9, <2>1, <2>2, <2>3, <2>4 DEF Renewals
  <1>10. CASE Clicks
    <2>1. CASE ClickSignIn
      BY <1>1, <2>1, NothingIssued, Zenon DEF ClickSignIn, guardVars, flowVars
    <2>2. CASE ClickSignOut
      BY <1>1, <2>2, NothingIssued, Zenon DEF ClickSignOut, guardVars, flowVars
    <2>3. CASE ClickRetry
      BY <1>1, <2>3, ReloadIssues DEF ClickRetry, TokensAreIssued, TypeOK
    <2>4. CASE Redirected
      <3>1. newest \in Nat /\ newest + 1 \in Nat /\ 0 <= newest
        BY <1>1 DEF TypeOK
      <3>2. CASE newest' = newest + 1 /\ Reload(newest + 1)
        <4>1. newest + 1 <= newest'
          BY <3>1, <3>2
        <4>2. QED
          BY <3>1, <3>2, <4>1, ReloadIssues
      <3>3. CASE UNCHANGED newest /\ Reload(0)
        BY <3>1, <3>3, ReloadIssues
      <3>4. QED
        BY <2>4, <3>2, <3>3 DEF Redirected
    <2>5. CASE RedirectFails
      BY <1>1, <2>5 DEF RedirectFails, TokensAreIssued, TypeOK, guardVars
    <2>6. QED
      BY <1>10, <2>1, <2>2, <2>3, <2>4, <2>5 DEF Clicks
  <1>11. CASE Waiting
    BY <1>1, <1>11, NothingIssued DEF Waiting, vars
  <1>12. QED
    BY <1>2, <1>3, <1>4, <1>5, <1>6, <1>7, <1>8, <1>9, <1>10, <1>11 DEF Next

\* A step that changes none of these leaves the store as it was.
LEMMA StillTokenless ==
    ASSUME TokenlessIsKept,
           UNCHANGED <<token, oidcToken, synced, removing, leaving, kept>>
    PROVE  TokenlessIsKept'
  BY DEF TokenlessIsKept, authenticated

\* Every step leaves the store its token, the log-out that takes it under way,
\* or the failure of that log-out known.
LEMMA NextTokenlessIsKept == IInv /\ [Next]_vars => TokenlessIsKept'
  <1> SUFFICES ASSUME IInv, [Next]_vars PROVE TokenlessIsKept'
    OBVIOUS
  <1>1. TypeOK /\ TokenlessIsKept
    BY DEF IInv, ModeInv
  <1>2. CASE UNCHANGED vars
    BY <1>1, <1>2, StillTokenless DEF vars
  <1>3. CASE Boot
    <2>1. ASSUME NEW r \in Runs, WithoutSso(r) PROVE TokenlessIsKept'
      BY <2>1 DEF WithoutSso, TokenlessIsKept
    <2>2. ASSUME NEW r \in Runs, Ignore(r) \/ WithSso(r) PROVE TokenlessIsKept'
      BY <1>1, <2>2, StillTokenless DEF Ignore, WithSso, storeVars, oidcVars, guardVars, flowVars
    <2>3. CASE StrictRemount
      BY <1>1, <2>3, StillTokenless DEF StrictRemount, storeVars, oidcVars, guardVars, flowVars
    <2>4. QED
      BY <1>3, <2>1, <2>2, <2>3 DEF Boot
  <1>4. CASE OidcInitialised
    <2>1. /\ UNCHANGED <<token, synced, removing, leaving, kept>>
          /\ synced = 0
      BY <1>4 DEF OidcInitialised, IInv, TokensAreIssued, storeVars, guardVars, flowVars
    <2>2. QED
      BY <1>1, <2>1 DEF TokenlessIsKept, authenticated
  <1>5. CASE AutomaticRenew
    <2>1. /\ UNCHANGED <<token, synced, removing, leaving, kept>>
          /\ oidcToken' = newest + 1
      BY <1>5 DEF AutomaticRenew, storeVars, guardVars, flowVars
    <2>2. synced <= newest /\ synced \in Nat /\ newest \in Nat
      BY <1>1 DEF IInv, TokensAreIssued, TypeOK
    <2>3. synced # newest + 1
      BY <2>2
    <2>4. QED
      BY <2>1, <2>3 DEF TokenlessIsKept
  <1>6. CASE GuardEffects
    <2>1. /\ token' = IF synced # oidcToken /\ authenticated THEN oidcToken ELSE token
          /\ kept' = (kept /\ token' = 0) /\ synced' = oidcToken
          /\ UNCHANGED <<oidcToken, removing, leaving>>
      BY <1>6 DEF GuardEffects, oidcVars
    <2>2. QED
      BY <1>1, <2>1 DEF TokenlessIsKept, authenticated
  <1>7. CASE FetchMe
    BY <1>1, <1>7, StillTokenless DEF FetchMe, storeVars, oidcVars, guardVars, flowVars
  <1>8. ASSUME NEW t \in Tokens, MeAnswered(t) PROVE TokenlessIsKept'
    BY <1>1, <1>8, StillTokenless DEF MeAnswered, storeVars, oidcVars, flowVars
  <1>9. CASE Renewals
    <2>1. ASSUME NEW k \in Flows, StartRenewal(k) PROVE TokenlessIsKept'
      BY <1>1, <2>1, StillTokenless DEF StartRenewal, storeVars, guardVars
    <2>2. ASSUME NEW k \in Flows, RenewalSucceeds(k) PROVE TokenlessIsKept'
      BY <1>1, <2>2 DEF RenewalSucceeds, TokenlessIsKept, TypeOK
    <2>3. ASSUME NEW k \in Flows, RenewalFails(k) PROVE TokenlessIsKept'
      BY <2>3 DEF RenewalFails, TokenlessIsKept
    <2>4. ASSUME NEW k \in Flows, Removed(k) PROVE TokenlessIsKept'
      <3>1. token' = token /\ (oidcToken' = 0 \/ kept' = (token = 0))
        BY <2>4 DEF Removed, storeVars
      <3>2. QED
        BY <3>1 DEF TokenlessIsKept, authenticated
    <2>5. QED
      BY <1>9, <2>1, <2>2, <2>3, <2>4 DEF Renewals
  <1>10. CASE Clicks
    <2>1. CASE ClickSignIn
      <3>1. oidcToken' = 0
        <4>1. screen = "login"
          BY <2>1, Zenon DEF ClickSignIn
        <4>2. authenticated => screen # "login"
          BY DEF screen
        <4>3. oidcToken' = oidcToken
          BY <2>1, Zenon DEF ClickSignIn
        <4>4. QED
          BY <4>1, <4>2, <4>3 DEF authenticated
      <3>2. QED
        BY <3>1 DEF TokenlessIsKept, authenticated
    <2>2. CASE ClickSignOut
      BY <2>2 DEF ClickSignOut, TokenlessIsKept
    <2>3. CASE ClickRetry \/ Redirected
      BY <2>3 DEF ClickRetry, Redirected, Reload, TokenlessIsKept, authenticated
    <2>4. CASE RedirectFails
      <3>1. /\ UNCHANGED <<token, synced, removing>>
            /\ \/ oidcToken' = 0
               \/ /\ kept' = (token = 0 /\ (kept \/ leaving = "signout"))
                  /\ oidcToken' = oidcToken
        BY <2>4 DEF RedirectFails, storeVars, guardVars
      <3>2. QED
        BY <1>1, <3>1 DEF TokenlessIsKept, authenticated
    <2>5. QED
      BY <1>10, <2>1, <2>2, <2>3, <2>4 DEF Clicks
  <1>11. CASE Waiting
    BY <1>1, <1>11, StillTokenless DEF Waiting, vars
  <1>12. QED
    BY <1>2, <1>3, <1>4, <1>5, <1>6, <1>7, <1>8, <1>9, <1>10, <1>11 DEF Next

-----------------------------------------------------------------------------
(* The theorems                                                            *)

\* The inductive invariant: types, that only a run the page waits for decides,
\* that nothing of the OIDC library moves on a page without SSO, that a user
\* who is known is stored or about to be, and that the store lacks the token of
\* the library's user only over a log-out.
THEOREM Invariance == Spec => []IInv
  <1>1. Init => IInv
    <2>1. Init => KnownUserIsStored
      BY DEF Init, KnownUserIsStored, current
    <2>2. Init => TokenlessIsKept
      BY DEF Init, TokenlessIsKept, authenticated
    <2>3. Init => TokensAreIssued
      BY DEF Init, TokensAreIssued
    <2>4. QED
      BY <2>1, <2>2, <2>3, InitModeInv DEF IInv
  <1>2. IInv /\ [Next]_vars => IInv'
    BY NextModeInv, NextKnownUserIsStored, NextTokenlessIsKept, NextTokensAreIssued DEF IInv
  <1>3. QED
    BY <1>1, <1>2, PTL DEF Spec

\* Every variable keeps its type.
THEOREM TypeCorrect == Spec => []TypeOK
  <1>1. IInv => TypeOK
    BY DEF IInv, ModeInv
  <1>2. QED
    BY <1>1, Invariance, PTL

\* Whichever of the configuration requests answers first or fails, and whatever
\* is refused, renewed or clicked afterwards, a page is not under SSO and the
\* default administrator at once, and without SSO it is never left without
\* its user (AuthProvider.tsx, AuthGuard.tsx).
THEOREM ModesExclude == Spec => []ModesExclusive
  <1>1. IInv => ModesExclusive
    BY DEF IInv, ModeInv
  <1>2. QED
    BY <1>1, Invariance, PTL

\* However log-outs, renewals and answers interleave, an application at which
\* nothing is under way has its user (use-auth.ts): one that was signed out and
\* signed in again by another request is not left without.  It has no token
\* only if the log-out that threw it away could not remove the user of the OIDC
\* library, and nothing has brought a new one since.
THEOREM RestingAppsHaveUser == Spec => []RestingAppHasUser
  <1>1. ASSUME IInv, Resting, screen = "app"
        PROVE  \/ user = (IF ssoEnabled THEN "me" ELSE "default")
               \/ token = 0 /\ kept
    <2>1. /\ token \in Tokens => current \in {"ok", "error"}
          /\ ~arrived /\ synced = oidcToken /\ removing = {} /\ leaving = "none"
          /\ user \in {"none", "default", "me"} /\ token \in Tokens \cup {0, NoSso}
      BY <1>1 DEF Resting, IInv, ModeInv, TypeOK
    <2>2. CASE ~ssoEnabled
      <3>1. loading => screen = "loading"
        BY Zenon DEF screen, Guarded
      <3>2. ~loading
        BY <1>1, <3>1, "loading" # "app", Zenon
      <3>3. QED
        BY <1>1, <2>2, <3>2, Zenon DEF IInv, ModeInv, ModesExclusive
    <2>3. CASE ssoEnabled
      <3>1. user # "default" /\ token # NoSso /\ ~loading
        BY <1>1, <2>3, Zenon DEF IInv, ModeInv, ModesExclusive
      <3>2. CASE token = 0
        <4>1. authenticated
          <5>1. ~authenticated => screen \in {"loading", "login"}
            BY <2>3, <3>1 DEF screen, Guarded
          <5>2. QED
            BY <1>1, <5>1
        <4>2. QED
          BY <1>1, <2>1, <3>2, <4>1 DEF IInv, TokenlessIsKept
      <3>3. CASE current = "ok"
        BY <1>1, <2>1, <2>3, <3>3 DEF IInv, KnownUserIsStored
      <3>4. CASE current = "error" /\ user = "none"
        <4>1. screen \in {"loading", "login", "error"}
          BY <2>3, <3>4 DEF screen
        <4>2. QED
          BY <1>1, <4>1
      <3>5. QED
        BY <2>1, <2>3, <3>1, <3>2, <3>3, <3>4
    <2>4. QED
      BY <2>2, <2>3
  <1>2. IInv => RestingAppHasUser
    BY <1>1 DEF RestingAppHasUser
  <1>3. QED
    BY <1>2, Invariance, PTL

=============================================================================
