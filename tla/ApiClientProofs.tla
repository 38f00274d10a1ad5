-------------------------- MODULE ApiClientProofs ---------------------------
(***************************************************************************)
(* Theorems about ApiClient, for any calls, any number of retries and any  *)
(* number of tokens: its types, the inductive invariant, the promise of    *)
(* RemoteCall, and what a refused call has done.                           *)
(***************************************************************************)
EXTENDS ApiClient, FiniteSetTheorems, TLAPS

-----------------------------------------------------------------------------
(* Attempts and copies                                                     *)

LEMMA AttemptType ==
    ASSUME TypeOK, NEW c \in Calls
    PROVE  Attempt(c) \in Nat /\ Attempt(c) \in Attempts
  <1>1. retries[c] \in 0..MaxRetries /\ renewed[c] \in BOOLEAN /\ MaxRetries \in Nat
    BY CallsAssumption DEF TypeOK
  <1>2. QED
    BY <1>1 DEF Attempt, Attempts

LEMMA SendingsType ==
    ASSUME TypeOK, NEW c \in Calls
    PROVE  Sendings(c) \in Nat /\ Sendings(c) <= MaxRetries + 2
  <1>1. Attempt(c) \in 0..MaxRetries + 1 /\ MaxRetries \in Nat
    BY AttemptType, CallsAssumption DEF Attempts
  <1>2. QED
    BY <1>1 DEF Sendings

LEMMA TravellingFinite ==
    ASSUME IsFiniteSet(sent), NEW c
    PROVE  IsFiniteSet(Travelling(c)) /\ Cardinality(Travelling(c)) \in Nat
  <1>1. Travelling(c) \in SUBSET sent
    BY DEF Travelling
  <1>2. IsFiniteSet(Travelling(c))
    BY <1>1, FS_Subset
  <1>3. QED
    BY <1>2, FS_CardinalityType

\* A copy on its way is a sending that has not been executed yet.
LEMMA RoomToExecute ==
    ASSUME IInv, NEW m \in sent, m.stage = "travelling"
    PROVE  /\ m.call \in Calls /\ phase[m.call] # "idle"
           /\ applied[m.call] \in Nat
           /\ applied[m.call] + 1 <= MaxRetries + 2
           /\ m.call \notin Idempotent => applied[m.call] = 0
  <1>1. m.call \in Calls /\ applied[m.call] \in Nat /\ MaxRetries \in Nat
    BY CallsAssumption DEF IInv, TypeOK
  <1>2. /\ IsFiniteSet(Travelling(m.call)) /\ Cardinality(Travelling(m.call)) \in Nat
        /\ m \in Travelling(m.call)
    BY TravellingFinite DEF IInv, ExecutionsCounted, Travelling
  <1>3. Cardinality(Travelling(m.call)) # 0
    BY <1>2, FS_EmptySet
  <1>4. applied[m.call] + Cardinality(Travelling(m.call)) <= Sendings(m.call)
    BY <1>1 DEF IInv, ExecutionsCounted
  <1>5. Sendings(m.call) \in Nat /\ Sendings(m.call) <= MaxRetries + 2
    BY <1>1, SendingsType DEF IInv
  <1>6. applied[m.call] + 1 <= MaxRetries + 2
    BY <1>1, <1>2, <1>3, <1>4, <1>5
  <1>7. phase[m.call] # "idle"
    BY DEF IInv, CopiesOfIssued
  <1>8. m.call \notin Idempotent => applied[m.call] = 0
    BY <1>1 DEF IInv, OneCopy
  <1>9. QED
    BY <1>1, <1>6, <1>7, <1>8

\* The parts of the invariant about copies look at nothing else.
CopyVars == <<phase, renewed, retries, sent, applied>>
Copies == CopiesOfIssued /\ ExecutionsCounted /\ OneCopy

LEMMA CopiesUnchanged ==
    ASSUME Copies, UNCHANGED CopyVars
    PROVE  Copies'
  <1>1. \A c : Travelling(c)' = Travelling(c) /\ Sendings(c)' = Sendings(c)
    BY DEF CopyVars, Travelling, Sendings, Attempt
  <1>2. QED
    BY <1>1 DEF Copies, CopyVars, CopiesOfIssued, ExecutionsCounted, OneCopy

-----------------------------------------------------------------------------
(* A call goes out                                                         *)

LEMMA TransmitTypes ==
    ASSUME TypeOK, NEW c \in Calls, NEW n \in Attempts, NEW t \in 0..MaxToken,
           Transmit(c, n, t)
    PROVE  /\ phase' \in [Calls -> Phases]
           /\ carried' \in [Calls -> 0..MaxToken]
           /\ sent' \subseteq [call : Calls, attempt : Attempts,
                               token : 0..MaxToken, stage : Stages]
  <1>1. Header(c, t) \in 0..MaxToken
    BY DEF TypeOK, Header
  <1>2. Copy(c, n, Header(c, t), "travelling")
          \in [call : Calls, attempt : Attempts, token : 0..MaxToken, stage : Stages]
    BY <1>1 DEF Copy, Stages
  <1>3. QED
    BY <1>1, <1>2 DEF TypeOK, Transmit, Phases

LEMMA TransmitCopies ==
    ASSUME IInv, NEW c \in Calls, NEW n \in Attempts, NEW t \in 0..MaxToken,
           Transmit(c, n, t), phase[c] \in {"idle", "waiting", "renewing"},
           UNCHANGED <<renewed, retries, applied>>
    PROVE  Copies'
  <1> DEFINE new == Copy(c, n, Header(c, t), "travelling")
  <1>1. /\ sent' = sent \cup {new} /\ new.call = c /\ new.stage = "travelling"
        /\ phase' = [phase EXCEPT ![c] = "sent"] /\ phase \in [Calls -> Phases]
        /\ applied' = applied /\ applied \in [Calls -> 0..MaxRetries + 2]
        /\ \A m \in sent : m.call \in Calls
    BY DEF Transmit, Copy, IInv, TypeOK
  <1>2. CopiesOfIssued'
    BY <1>1 DEF CopiesOfIssued, IInv
  <1>3. ExecutionsCounted'
    <2>1. IsFiniteSet(sent) /\ IsFiniteSet(sent')
      BY <1>1, FS_AddElement DEF IInv, ExecutionsCounted
    <2>2. SUFFICES ASSUME NEW d \in Calls
                   PROVE  applied[d] + Cardinality(Travelling(d)') <= Sendings(d)'
      BY <1>1, <2>1 DEF ExecutionsCounted
    <2>3. /\ Cardinality(Travelling(d)) \in Nat /\ IsFiniteSet(Travelling(d))
          /\ applied[d] + Cardinality(Travelling(d)) <= Sendings(d)
          /\ applied[d] \in Nat /\ Attempt(d) \in Nat /\ Attempt(d)' = Attempt(d)
      BY <1>1, <2>1, TravellingFinite, AttemptType, CallsAssumption
      DEF IInv, ExecutionsCounted, Attempt
    <2>4. CASE d = c
      <3>1. Travelling(d)' = Travelling(d) \cup {new}
        BY <1>1, <2>4 DEF Travelling
      <3>2. Cardinality(Travelling(d)') <= Cardinality(Travelling(d)) + 1
            /\ Cardinality(Travelling(d)') \in Nat
        <4>1. /\ IsFiniteSet(Travelling(d) \cup {new})
              /\ Cardinality(Travelling(d) \cup {new})
                   = IF new \in Travelling(d) THEN Cardinality(Travelling(d))
                     ELSE Cardinality(Travelling(d)) + 1
          <5> HIDE DEF new
          <5>1. QED
            BY <2>3, FS_AddElement
        <4>2. QED
          BY <2>3, <3>1, <4>1
      <3>3. Sendings(d) <= Attempt(d) /\ Sendings(d) \in Nat /\ Sendings(d)' = Attempt(d) + 1
        BY <1>1, <2>3, <2>4 DEF Sendings
      <3>4. QED
        BY <2>3, <3>2, <3>3
    <2>5. CASE d # c
      <3>1. Travelling(d)' = Travelling(d)
        BY <1>1, <2>5 DEF Travelling
      <3>2. Sendings(d)' = Sendings(d)
        BY <1>1, <2>3, <2>5 DEF Sendings
      <3>3. QED
        BY <2>3, <3>1, <3>2
    <2>6. QED
      BY <2>4, <2>5
  <1>4. OneCopy'
    <2>1. SUFFICES ASSUME NEW d \in Calls \ Idempotent
                   PROVE  /\ phase'[d] # "waiting"
                          /\ applied[d] <= 1
                          /\ \A k, m \in sent' : k.call = d /\ m.call = d => k = m
                          /\ \A m \in sent' : m.call = d /\ m.stage \in {"travelling", "refused"}
                                                => applied[d] = 0
                          /\ phase'[d] \in {"idle", "renewing", "signout", "unauthorized"}
                               => applied[d] = 0 /\ \A m \in sent' : m.call # d
      BY <1>1 DEF OneCopy
    <2>2. /\ phase[d] # "waiting"
          /\ applied[d] <= 1
          /\ \A k, m \in sent : k.call = d /\ m.call = d => k = m
          /\ \A m \in sent : m.call = d /\ m.stage \in {"travelling", "refused"}
                               => applied[d] = 0
          /\ phase[d] \in {"idle", "renewing", "signout", "unauthorized"}
               => applied[d] = 0 /\ \A m \in sent : m.call # d
      BY DEF IInv, OneCopy
    <2>3. CASE d = c
      BY <1>1, <2>2, <2>3
    <2>4. CASE d # c
      BY <1>1, <2>2, <2>4
    <2>5. QED
      BY <2>3, <2>4
  <1>5. QED
    BY <1>2, <1>3, <1>4 DEF Copies

-----------------------------------------------------------------------------
(* The network                                                             *)

LEMMA ArriveStep ==
    ASSUME IInv, NEW m \in sent, Arrive(m)
    PROVE  /\ applied' \in [Calls -> 0..MaxRetries + 2]
           /\ sent' \subseteq [call : Calls, attempt : Attempts,
                               token : 0..MaxToken, stage : Stages]
           /\ \/ applied' = applied
              \/ applied' = [applied EXCEPT ![m.call] = @ + 1]
           /\ Copies'
  <1>1. /\ m.stage = "travelling" /\ m.call \in Calls
        /\ m \in [call : Calls, attempt : Attempts, token : 0..MaxToken, stage : Stages]
        /\ sent \subseteq [call : Calls, attempt : Attempts, token : 0..MaxToken, stage : Stages]
        /\ applied \in [Calls -> 0..MaxRetries + 2] /\ MaxRetries \in Nat
        /\ UNCHANGED <<phase, renewed, retries>>
    BY CallsAssumption DEF Arrive, IInv, TypeOK
  <1>2. PICK s \in {"executed", "error", "refused"} :
          /\ sent' = (sent \ {m})
                       \cup (IF Awaited(m) THEN {[m EXCEPT !.stage = s]} ELSE {})
          /\ \/ s # "executed" /\ applied' = applied
             \/ s # "refused" /\ applied' = [applied EXCEPT ![m.call] = @ + 1]
    BY DEF Arrive
  <1>3. /\ applied[m.call] \in Nat /\ applied[m.call] + 1 <= MaxRetries + 2
        /\ phase[m.call] # "idle"
        /\ m.call \notin Idempotent => applied[m.call] = 0
    BY <1>1, RoomToExecute
  <1>4. applied' \in [Calls -> 0..MaxRetries + 2]
    BY <1>1, <1>2, <1>3
  <1> DEFINE done == [m EXCEPT !.stage = s]
  <1>5. /\ done.call = m.call /\ done.stage = s
        /\ done \in [call : Calls, attempt : Attempts, token : 0..MaxToken, stage : Stages]
    BY <1>1 DEF Stages
  <1>6. \A k \in sent' : k \in sent \/ k = done
    BY <1>2
  <1>7. sent' \subseteq [call : Calls, attempt : Attempts, token : 0..MaxToken, stage : Stages]
    BY <1>1, <1>5, <1>6
  <1>8. \A c \in Calls : applied[c] <= applied'[c] /\ (c # m.call => applied'[c] = applied[c])
    BY <1>1, <1>2, <1>3
  <1>9. CopiesOfIssued'
    <2>1. \A k \in sent : k.call \in Calls /\ applied[k.call] \in Nat
                          /\ phase[k.call] # "idle"
                          /\ (k.stage = "executed" => applied[k.call] > 0)
      BY <1>1, CallsAssumption DEF IInv, CopiesOfIssued
    <2>2. s = "executed" => applied'[m.call] > 0
      BY <1>1, <1>2, <1>3
    <2>3. QED
      BY <1>1, <1>3, <1>4, <1>5, <1>6, <1>8, <2>1, <2>2 DEF CopiesOfIssued
  <1>10. ExecutionsCounted'
    <2>1. IsFiniteSet(sent) /\ IsFiniteSet(sent')
      <3>1. IsFiniteSet(sent \ {m})
        BY FS_RemoveElement DEF IInv, ExecutionsCounted
      <3>2. IsFiniteSet((sent \ {m}) \cup {done})
        <4> HIDE DEF done
        <4>1. QED
          BY <3>1, FS_AddElement
      <3>3. QED
        BY <1>2, <3>1, <3>2 DEF IInv, ExecutionsCounted
    <2>2. SUFFICES ASSUME NEW c \in Calls
                   PROVE  applied'[c] + Cardinality(Travelling(c)') <= Sendings(c)'
      BY <2>1 DEF ExecutionsCounted
    <2>3. /\ Cardinality(Travelling(c)) \in Nat /\ IsFiniteSet(Travelling(c))
          /\ applied[c] + Cardinality(Travelling(c)) <= Sendings(c)
          /\ applied[c] \in Nat /\ applied'[c] \in Nat
          /\ Sendings(c)' = Sendings(c) /\ Sendings(c) \in Nat
      BY <1>1, <1>4, <2>1, TravellingFinite, SendingsType
      DEF IInv, ExecutionsCounted, Sendings, Attempt
    <2>4. Travelling(c)' = Travelling(c) \ {m}
      BY <1>1, <1>2, <1>5, <1>6 DEF Travelling
    <2>5. Cardinality(Travelling(c) \ {m})
            = IF m \in Travelling(c) THEN Cardinality(Travelling(c)) - 1
              ELSE Cardinality(Travelling(c))
      BY <2>3, FS_RemoveElement
    <2>6. m \in Travelling(c) <=> c = m.call
      BY <1>1 DEF Travelling
    <2>7. applied'[c] <= applied[c] + (IF c = m.call THEN 1 ELSE 0)
      BY <1>1, <1>2, <2>3
    <2>8. QED
      BY <2>3, <2>4, <2>5, <2>6, <2>7
  <1>11. OneCopy'
    <2>1. SUFFICES ASSUME NEW d \in Calls \ Idempotent
                   PROVE  /\ phase[d] # "waiting"
                          /\ applied'[d] <= 1
                          /\ \A j, k \in sent' : j.call = d /\ k.call = d => j = k
                          /\ \A k \in sent' : k.call = d /\ k.stage \in {"travelling", "refused"}
                                                => applied'[d] = 0
                          /\ phase[d] \in {"idle", "renewing", "signout", "unauthorized"}
                               => applied'[d] = 0 /\ \A k \in sent' : k.call # d
      BY <1>1 DEF OneCopy
    <2>2. /\ phase[d] # "waiting"
          /\ applied[d] <= 1
          /\ \A j, k \in sent : j.call = d /\ k.call = d => j = k
          /\ \A k \in sent : k.call = d /\ k.stage \in {"travelling", "refused"}
                               => applied[d] = 0
          /\ phase[d] \in {"idle", "renewing", "signout", "unauthorized"}
               => applied[d] = 0 /\ \A k \in sent : k.call # d
      BY DEF IInv, OneCopy
    <2>3. CASE d = m.call
      <3>1. \A k \in sent' : k.call = d => k = done
        BY <1>2, <2>2, <2>3
      <3>2. applied[d] = 0 /\ applied'[d] <= 1
        BY <1>1, <1>2, <1>3, <2>3
      <3>3. s = "refused" => applied'[d] = 0
        BY <1>1, <1>2, <3>2
      <3>4. phase[d] \notin {"idle", "renewing", "signout", "unauthorized"}
        BY <2>2, <2>3
      <3>5. QED
        BY <1>2, <1>5, <2>2, <3>1, <3>2, <3>3, <3>4
    <2>4. CASE d # m.call
      <3>1. applied'[d] = applied[d]
        BY <1>8, <2>4
      <3>2. \A k \in sent' : k.call = d => k \in sent
        BY <1>5, <1>6, <2>4
      <3>3. QED
        BY <2>2, <3>1, <3>2
    <2>5. QED
      BY <2>3, <2>4
  <1>12. QED
    BY <1>2, <1>4, <1>7, <1>9, <1>10, <1>11 DEF Copies

\* Giving up copies keeps the invariant, whatever the call does then.
LEMMA DropCopies ==
    ASSUME IInv, sent' \subseteq sent, UNCHANGED applied,
           NEW c \in Calls, NEW p \in Phases,
           phase' = [phase EXCEPT ![c] = p],
           phase[c] # "idle", p # "idle",
           \A d \in Calls \ {c} : renewed'[d] = renewed[d] /\ retries'[d] = retries[d],
           Sendings(c) <= Sendings(c)', Sendings(c)' \in Nat,
           c \notin Idempotent => p # "waiting",
           c \notin Idempotent /\ p \in {"renewing", "signout", "unauthorized"}
             => applied[c] = 0 /\ \A m \in sent' : m.call # c
    PROVE  Copies'
  <1>1. /\ phase \in [Calls -> Phases] /\ applied \in [Calls -> 0..MaxRetries + 2]
        /\ \A m \in sent : m.call \in Calls
    BY DEF IInv, TypeOK
  <1>2. CopiesOfIssued'
    BY <1>1 DEF IInv, CopiesOfIssued
  <1>3. ExecutionsCounted'
    <2>1. IsFiniteSet(sent) /\ IsFiniteSet(sent')
      BY FS_Subset DEF IInv, ExecutionsCounted
    <2>2. SUFFICES ASSUME NEW d \in Calls
                   PROVE  applied[d] + Cardinality(Travelling(d)') <= Sendings(d)'
      BY <2>1 DEF ExecutionsCounted
    <2>3. /\ Cardinality(Travelling(d)) \in Nat /\ IsFiniteSet(Travelling(d))
          /\ applied[d] + Cardinality(Travelling(d)) <= Sendings(d)
          /\ applied[d] \in Nat /\ Sendings(d) \in Nat
      BY <1>1, <2>1, TravellingFinite, SendingsType, CallsAssumption
      DEF IInv, ExecutionsCounted
    <2>4. Travelling(d)' \in SUBSET Travelling(d)
      BY DEF Travelling
    <2>5. Cardinality(Travelling(d)') <= Cardinality(Travelling(d))
          /\ Cardinality(Travelling(d)') \in Nat
      BY <2>3, <2>4, FS_Subset, FS_CardinalityType
    <2>6. Sendings(d) <= Sendings(d)' /\ Sendings(d)' \in Nat
      <3>1. CASE d = c
        BY <3>1
      <3>2. CASE d # c
        BY <1>1, <2>3, <3>2 DEF Sendings, Attempt
      <3>3. QED
        BY <3>1, <3>2
    <2>7. QED
      BY <2>3, <2>5, <2>6
  <1>4. OneCopy'
    BY <1>1 DEF IInv, OneCopy
  <1>5. QED
    BY <1>2, <1>3, <1>4 DEF Copies

-----------------------------------------------------------------------------
(* Invariance                                                              *)

LEMMA InitIInv == Init => IInv
  <1> SUFFICES ASSUME Init PROVE IInv
    OBVIOUS
  <1> USE CallsAssumption
  <1>1. TypeOK
    BY DEF Init, TypeOK, Phases
  <1>2. IsFiniteSet(sent) /\ \A c : Travelling(c) = {} /\ Cardinality({}) = 0
    BY FS_EmptySet DEF Init, Travelling
  <1>3. ExecutionsCounted
    BY <1>2 DEF ExecutionsCounted, Init, Sendings
  <1>4. QED
    BY <1>1, <1>3 DEF IInv, CopiesOfIssued, OneCopy, Init

\* A call goes out for the first time, after the delay, or with a new token.
LEMMA IssueStep ==
    ASSUME IInv, NEW c \in Calls, Issue(c) \/ Resend(c) \/ RenewalSucceeds(c)
    PROVE  IInv'
  <1> USE CallsAssumption
  <1>1. PICK n \in Attempts, t \in 0..MaxToken :
          /\ Transmit(c, n, t) /\ phase[c] \in {"idle", "waiting", "renewing"}
          /\ UNCHANGED <<renewed, retries, applied>>
    <2>1. Attempt(c) \in Attempts /\ 0 \in Attempts
      BY AttemptType DEF IInv, Attempts
    <2>2. token \in 0..MaxToken /\ granted[c] \in 0..MaxToken
      BY DEF IInv, TypeOK
    <2>3. QED
      BY <2>1, <2>2 DEF Issue, Resend, RenewalSucceeds
  <1>2. Copies'
    BY <1>1, TransmitCopies
  <1>3. /\ phase' \in [Calls -> Phases] /\ carried' \in [Calls -> 0..MaxToken]
        /\ sent' \subseteq [call : Calls, attempt : Attempts,
                            token : 0..MaxToken, stage : Stages]
    BY <1>1, TransmitTypes DEF IInv
  <1>4. TypeOK'
    <2>1. /\ TypeOK /\ granted[c] \in 0..MaxToken /\ UNCHANGED <<renewed, retries, applied>>
          /\ UNCHANGED <<newest, expired>>
      BY <1>1 DEF IInv, TypeOK, Issue, Resend, RenewalSucceeds, sessionVars
    <2>2. granted' \in [Calls -> 0..MaxToken]
      BY <2>1 DEF TypeOK, Issue, Resend, RenewalSucceeds
    <2>3. token' \in 0..MaxToken /\ signedIn' \in BOOLEAN
      BY <2>1 DEF TypeOK, Issue, Resend, RenewalSucceeds, sessionVars
    <2>4. QED
      BY <1>3, <2>1, <2>2, <2>3 DEF TypeOK
  <1>5. QED
    BY <1>2, <1>4 DEF IInv, Copies

LEMMA NetworkStep ==
    ASSUME IInv, NEW m \in sent, Arrive(m) \/ Lose(m)
    PROVE  IInv'
  <1>1. CASE Arrive(m)
    <2>1. Copies' /\ applied' \in [Calls -> 0..MaxRetries + 2]
          /\ sent' \subseteq [call : Calls, attempt : Attempts,
                              token : 0..MaxToken, stage : Stages]
      BY <1>1, ArriveStep
    <2>2. TypeOK'
      BY <1>1, <2>1 DEF IInv, TypeOK, Arrive, sessionVars
    <2>3. QED
      BY <2>1, <2>2 DEF IInv, Copies
  <1>2. CASE Lose(m)
    <2>1. TypeOK' /\ sent' \subseteq sent /\ UNCHANGED <<phase, renewed, retries, applied>>
      BY <1>2 DEF IInv, TypeOK, Lose, sessionVars
    <2>2. PICK c \in Calls, p \in Phases : c = m.call /\ p = phase[c] /\ p # "idle"
      BY DEF IInv, TypeOK, CopiesOfIssued
    <2>3. phase' = [phase EXCEPT ![c] = p]
      BY <2>1, <2>2 DEF IInv, TypeOK
    <2>4. Sendings(c) <= Sendings(c)' /\ Sendings(c)' \in Nat
      <3>1. Sendings(c)' = Sendings(c)
        BY <2>1 DEF Sendings, Attempt
      <3>2. QED
        BY <3>1, SendingsType DEF IInv
    <2>5. Copies'
      <3>1. \A d \in Calls \ {c} : renewed'[d] = renewed[d] /\ retries'[d] = retries[d]
        BY <2>1
      <3>2. c \notin Idempotent =>
              /\ p # "waiting"
              /\ p \in {"renewing", "signout", "unauthorized"}
                   => applied[c] = 0 /\ \A k \in sent' : k.call # c
        BY <2>1, <2>2 DEF IInv, OneCopy
      <3>3. QED
        BY <2>1, <2>2, <2>3, <2>4, <3>1, <3>2, DropCopies
    <2>6. QED
      BY <2>1, <2>5 DEF IInv, Copies
  <1>3. QED
    BY <1>1, <1>2

\* An answer ends the sending that is waited for.
LEMMA AnswerStep ==
    ASSUME IInv, NEW m \in sent, Succeed(m) \/ Fail(m) \/ Renew(m) \/ Unauthorized(m)
    PROVE  IInv'
  <1> USE CallsAssumption
  <1> DEFINE c == m.call
  <1>1. /\ c \in Calls /\ phase \in [Calls -> Phases] /\ phase[c] = "sent"
        /\ renewed \in [Calls -> BOOLEAN] /\ retries \in [Calls -> 0..MaxRetries]
        /\ sent' = sent \ {m} /\ UNCHANGED <<retries, applied>>
    BY DEF IInv, TypeOK, Succeed, Fail, Renew, Unauthorized, Ends, Awaited
  <1>2. PICK p \in {"resolved", "rejected", "renewing", "unauthorized"} :
          /\ phase' = [phase EXCEPT ![c] = p]
          /\ p \in {"renewing", "unauthorized"} => m.stage = "refused"
          /\ IF p = "renewing"
             THEN ~renewed[c] /\ renewed' = [renewed EXCEPT ![c] = TRUE]
             ELSE renewed' = renewed
    BY DEF Succeed, Fail, Renew, Unauthorized, Ends
  <1>3. TypeOK'
    BY <1>1, <1>2 DEF IInv, TypeOK, Phases, Succeed, Fail, Renew, Unauthorized, sessionVars
  <1>4. Sendings(c)' = Sendings(c) /\ Sendings(c) \in Nat
    <2>1. Sendings(c) = Attempt(c) + 1 /\ Attempt(c) \in Nat
      BY <1>1, AttemptType DEF IInv, Sendings
    <2>2. Attempt(c)' = IF p = "renewing" THEN Attempt(c) + 1 ELSE Attempt(c)
      BY <1>1, <1>2 DEF Attempt
    <2>3. QED
      BY <1>1, <1>2, <2>1, <2>2 DEF Sendings
  <1>5. c \notin Idempotent /\ p \in {"renewing", "unauthorized"}
          => applied[c] = 0 /\ \A k \in sent' : k.call # c
    BY <1>1, <1>2 DEF IInv, OneCopy
  <1>6. Copies'
    <2>1. p \in Phases /\ p # "idle" /\ p # "waiting" /\ p # "signout" /\ phase[c] # "idle"
      BY <1>1, <1>2 DEF Phases
    <2>2. \A d \in Calls \ {c} : renewed'[d] = renewed[d] /\ retries'[d] = retries[d]
      BY <1>1, <1>2
    <2>3. Sendings(c) <= Sendings(c)' /\ Sendings(c)' \in Nat
      BY <1>4
    <2>4. /\ sent' \subseteq sent /\ applied' = applied /\ c \in Calls
          /\ phase' = [phase EXCEPT ![c] = p]
      BY <1>1, <1>2
    <2>5. c \notin Idempotent /\ p \in {"renewing", "signout", "unauthorized"}
             => applied[c] = 0 /\ \A k \in sent' : k.call # c
      BY <1>5, <2>1
    <2>6. QED
      <3> HIDE DEF c
      <3>1. QED
        BY <2>1, <2>2, <2>3, <2>4, <2>5, DropCopies
  <1>7. QED
    BY <1>3, <1>6 DEF IInv, Copies

\* No answer: the copy may travel on.
LEMMA TransientStep ==
    ASSUME IInv, NEW c \in Calls, Transient(c)
    PROVE  IInv'
  <1> USE CallsAssumption
  <1>1. /\ phase \in [Calls -> Phases] /\ phase[c] = "sent"
        /\ retries \in [Calls -> 0..MaxRetries] /\ renewed' = renewed
        /\ sent' \subseteq sent /\ applied' = applied
    BY DEF IInv, TypeOK, Transient
  <1>2. TypeOK'
    BY <1>1 DEF IInv, TypeOK, Phases, Transient, sessionVars
  <1>3. Attempt(c) \in Nat /\ Sendings(c) = Attempt(c) + 1
    BY <1>1, AttemptType DEF IInv, Sendings
  <1>4. CASE Retryable(c) /\ retries[c] < MaxRetries
    <2>1. /\ c \in Idempotent /\ phase' = [phase EXCEPT ![c] = "waiting"]
          /\ retries' = [retries EXCEPT ![c] = @ + 1]
      BY <1>4 DEF Transient, Retryable
    <2>2. Sendings(c)' = Sendings(c)
      BY <1>1, <1>3, <2>1 DEF Sendings, Attempt
    <2>3. Copies'
      <3>1. \A d \in Calls \ {c} : renewed'[d] = renewed[d] /\ retries'[d] = retries[d]
        BY <1>1, <2>1
      <3>2. Sendings(c) <= Sendings(c)' /\ Sendings(c)' \in Nat
        BY <1>3, <2>2
      <3>3. "waiting" \in Phases /\ phase[c] # "idle"
        BY <1>1 DEF Phases
      <3>4. QED
        BY <1>1, <2>1, <3>1, <3>2, <3>3, DropCopies
    <2>4. QED
      BY <1>2, <2>3 DEF IInv, Copies
  <1>5. CASE ~(Retryable(c) /\ retries[c] < MaxRetries)
    <2>1. phase' = [phase EXCEPT ![c] = "rejected"] /\ retries' = retries
      BY <1>5 DEF Transient
    <2>2. Sendings(c)' = Sendings(c) /\ Sendings(c) \in Nat /\ "rejected" \in Phases
      BY <1>1, <1>3, <2>1 DEF Sendings, Attempt, Phases
    <2>3. Copies'
      <3>1. sent' \subseteq sent /\ applied' = applied
        BY <1>1
      <3>2. \A d \in Calls \ {c} : renewed'[d] = renewed[d] /\ retries'[d] = retries[d]
        BY <1>1, <2>1
      <3>3. Sendings(c) <= Sendings(c)' /\ Sendings(c)' \in Nat
        BY <2>2
      <3>4. phase[c] # "idle" /\ "rejected" # "idle" /\ "rejected" # "waiting" /\ "rejected" \in Phases
        BY <1>1, <2>2
      <3>5. c \notin Idempotent /\ "rejected" \in {"renewing", "signout", "unauthorized"}
             => applied[c] = 0 /\ \A m \in sent' : m.call # c
        OBVIOUS
      <3>6. phase' = [phase EXCEPT ![c] = "rejected"]
        BY <2>1
      <3>7. QED
        BY <3>1, <3>2, <3>3, <3>4, <3>5, <3>6, DropCopies
    <2>4. QED
      BY <1>2, <2>3 DEF IInv, Copies
  <1>6. QED
    BY <1>4, <1>5

\* The renewal failed and the user is signed out.
LEMMA SignOutStep ==
    ASSUME IInv, NEW c \in Calls, RenewalFails(c) \/ SignedOut(c)
    PROVE  IInv'
  <1>1. PICK p \in {"signout", "unauthorized"} :
          /\ phase' = [phase EXCEPT ![c] = p]
          /\ phase[c] = IF p = "signout" THEN "renewing" ELSE "signout"
    BY DEF RenewalFails, SignedOut
  <1>2. UNCHANGED <<renewed, retries, sent, applied>>
    BY DEF RenewalFails, SignedOut
  <1>3. TypeOK'
    <2>1. phase' \in [Calls -> Phases] /\ TypeOK
      BY <1>1 DEF IInv, TypeOK, Phases
    <2>2. CASE RenewalFails(c)
      BY CallsAssumption, <2>1, <2>2 DEF TypeOK, RenewalFails
    <2>3. CASE SignedOut(c)
      BY <2>1, <2>3 DEF TypeOK, SignedOut
    <2>4. QED
      BY <2>2, <2>3
  <1>4. Sendings(c) <= Sendings(c)' /\ Sendings(c)' \in Nat
    <2>1. Attempt(c) \in Nat /\ Attempt(c)' = Attempt(c) /\ phase'[c] = p
      BY <1>1, <1>2, AttemptType DEF IInv, TypeOK, Attempt
    <2>2. QED
      BY <1>1, <2>1 DEF Sendings
  <1>5. c \notin Idempotent => applied[c] = 0 /\ \A m \in sent' : m.call # c
    BY <1>1, <1>2 DEF IInv, OneCopy
  <1>6. Copies'
    <2>1. /\ p \in Phases /\ p # "idle" /\ p # "waiting" /\ phase[c] # "idle"
          /\ sent' \subseteq sent /\ applied' = applied
          /\ \A d \in Calls \ {c} : renewed'[d] = renewed[d] /\ retries'[d] = retries[d]
      BY <1>1, <1>2 DEF Phases
    <2>2. QED
      BY <1>1, <1>4, <1>5, <2>1, DropCopies
  <1>7. QED
    BY <1>3, <1>6 DEF IInv, Copies

\* The identity provider changes tokens only.
LEMMA ProviderStep ==
    ASSUME IInv, (\E c \in Calls : Grant(c)) \/ AutomaticRenew \/ Expire \/ UNCHANGED vars
    PROVE  IInv'
  <1>1. UNCHANGED CopyVars
    BY DEF Grant, AutomaticRenew, Expire, vars, callVars, CopyVars
  <1>2. Copies'
    BY <1>1, CopiesUnchanged DEF IInv, Copies
  <1>3. TypeOK'
    <2>1. CASE \E c \in Calls : Grant(c)
      BY CallsAssumption, <2>1 DEF IInv, TypeOK, Grant
    <2>2. CASE AutomaticRenew
      BY CallsAssumption, <2>2 DEF IInv, TypeOK, AutomaticRenew, callVars
    <2>3. CASE Expire
      BY CallsAssumption, <2>3 DEF IInv, TypeOK, Expire, callVars
    <2>4. CASE UNCHANGED vars
      BY <2>4 DEF IInv, TypeOK, vars
    <2>5. QED
      BY <2>1, <2>2, <2>3, <2>4
  <1>4. QED
    BY <1>2, <1>3 DEF IInv, Copies

LEMMA NextIInv == IInv /\ [Next]_vars => IInv'
  <1> SUFFICES ASSUME IInv, [Next]_vars PROVE IInv'
    OBVIOUS
  <1>1. CASE \E c \in Calls : Issue(c) \/ Resend(c) \/ RenewalSucceeds(c)
    BY <1>1, IssueStep
  <1>2. CASE \E c \in Calls : Answer(c)
    BY <1>2, AnswerStep DEF Answer
  <1>3. CASE \E c \in Calls : Transient(c)
    BY <1>3, TransientStep
  <1>4. CASE \E c \in Calls : RenewalFails(c) \/ SignedOut(c)
    BY <1>4, SignOutStep
  <1>5. CASE \E m \in sent : Arrive(m) \/ Lose(m)
    BY <1>5, NetworkStep
  <1>6. CASE (\E c \in Calls : Grant(c)) \/ AutomaticRenew \/ Expire \/ UNCHANGED vars
    BY <1>6, ProviderStep
  <1>7. QED
    BY <1>1, <1>2, <1>3, <1>4, <1>5, <1>6 DEF Next, Client, Environment, Terminated

\* Whatever calls run together, whatever the network loses or delays and the
\* identity provider does: types, true answers, executions counted against
\* sendings, and one copy of what is not idempotent (api/client.ts).
THEOREM Invariance == Spec => []IInv
  BY InitIInv, NextIInv, PTL DEF Spec

\* Every variable keeps its type: in particular a call is executed at most once
\* more often than it is retried and renewed.
THEOREM TypeCorrect == Spec => []TypeOK
  <1>1. IInv => TypeOK
    BY DEF IInv
  <1>2. QED
    BY <1>1, Invariance, PTL

\* A POST, PATCH or DELETE that was refused for its token has changed nothing
\* and is not on its way, whatever the other calls' renewals did.
THEOREM RefusalsLeaveNothing == Spec => []RefusedLeavesNothing
  <1>1. IInv => RefusedLeavesNothing
    BY DEF IInv, OneCopy, RefusedLeavesNothing
  <1>2. QED
    BY <1>1, Invariance, PTL

-----------------------------------------------------------------------------
(* The promise                                                             *)

LEMMA InitPromise == Init => Promise!Init
  BY DEF Init, Promise!Init, status

LEMMA NextPromise == IInv /\ [Next]_vars => [Promise!Next]_Promise!vars
  <1> SUFFICES ASSUME IInv, [Next]_vars PROVE Promise!Next \/ UNCHANGED Promise!vars
    OBVIOUS
  <1>1. phase \in [Calls -> Phases] /\ applied \in [Calls -> 0..MaxRetries + 2]
    BY DEF IInv, TypeOK
  <1>2. CASE \E c \in Calls : Issue(c)
    <2>1. PICK c \in Calls : Issue(c)
      BY <1>2
    <2>2. Promise!Issue(c)
      BY <1>1, <2>1 DEF Issue, Transmit, Promise!Issue, status
    <2>3. QED
      BY <2>2 DEF Promise!Next
  <1>3. CASE \E c \in Calls : Answer(c)
    <2>1. PICK m \in sent : Succeed(m) \/ Fail(m) \/ Renew(m) \/ Unauthorized(m)
      BY <1>3 DEF Answer
    <2>2. m.call \in Calls
      BY DEF IInv, TypeOK
    <2>3. CASE Succeed(m)
      <3>1. applied[m.call] > 0
        BY <2>3 DEF IInv, CopiesOfIssued, Succeed
      <3>2. Promise!Resolve(m.call)
        BY <1>1, <2>2, <2>3, <3>1 DEF Succeed, Ends, Awaited, Promise!Resolve, status
      <3>3. QED
        BY <2>2, <3>2 DEF Promise!Next
    <2>4. CASE Fail(m) \/ Unauthorized(m)
      <3>1. Promise!Reject(m.call)
        BY <1>1, <2>2, <2>4 DEF Fail, Unauthorized, Ends, Awaited, Promise!Reject, status
      <3>2. QED
        BY <2>2, <3>1 DEF Promise!Next
    <2>5. CASE Renew(m)
      BY <1>1, <2>2, <2>5 DEF Renew, Ends, Awaited, Promise!vars, status
    <2>6. QED
      BY <2>1, <2>3, <2>4, <2>5
  <1>4. CASE \E c \in Calls : Transient(c)
    <2>1. PICK c \in Calls : Transient(c)
      BY <1>4
    <2>2. CASE phase' = [phase EXCEPT ![c] = "waiting"]
      BY <1>1, <2>1, <2>2 DEF Transient, Promise!vars, status
    <2>3. CASE phase' = [phase EXCEPT ![c] = "rejected"]
      <3>1. Promise!Reject(c)
        BY <1>1, <2>1, <2>3 DEF Transient, Promise!Reject, status
      <3>2. QED
        BY <3>1 DEF Promise!Next
    <2>4. QED
      BY <2>1, <2>2, <2>3 DEF Transient
  <1>5. CASE \E c \in Calls : Resend(c) \/ RenewalSucceeds(c) \/ RenewalFails(c)
    BY <1>1, <1>5 DEF Resend, RenewalSucceeds, RenewalFails, Transmit, Promise!vars, status
  <1>6. CASE \E c \in Calls : SignedOut(c)
    <2>1. PICK c \in Calls : SignedOut(c)
      BY <1>6
    <2>2. Promise!Reject(c)
      BY <1>1, <2>1 DEF SignedOut, Promise!Reject, status
    <2>3. QED
      BY <2>2 DEF Promise!Next
  <1>7. CASE \E m \in sent : Arrive(m)
    <2>1. PICK m \in sent : Arrive(m)
      BY <1>7
    <2>2. /\ m.call \in Calls /\ phase[m.call] # "idle" /\ applied[m.call] \in Nat
          /\ applied[m.call] + 1 <= MaxRetries + 2
          /\ m.call \notin Idempotent => applied[m.call] = 0
      BY <2>1, RoomToExecute DEF Arrive
    <2>3. phase' = phase /\ status' = status
      BY <2>1 DEF Arrive, status
    <2>4. applied' = applied \/ applied' = [applied EXCEPT ![m.call] = @ + 1]
      BY <2>1, ArriveStep
    <2>5. CASE applied' = applied
      BY <2>3, <2>5 DEF Promise!vars
    <2>6. CASE applied' = [applied EXCEPT ![m.call] = @ + 1]
      <3>1. status[m.call] # "idle"
        BY <2>2 DEF status
      <3>2. applied[m.call] < Promise!Limit(m.call)
        BY <2>2, CallsAssumption DEF Promise!Limit
      <3>3. Promise!Apply(m.call)
        BY <2>3, <2>6, <3>1, <3>2 DEF Promise!Apply
      <3>4. QED
        BY <2>2, <3>3 DEF Promise!Next
    <2>7. QED
      BY <2>4, <2>5, <2>6
  <1>8. CASE \/ \E m \in sent : Lose(m)
             \/ \E c \in Calls : Grant(c)
             \/ AutomaticRenew \/ Expire \/ UNCHANGED vars
    BY <1>8 DEF Lose, Grant, AutomaticRenew, Expire, vars, callVars, Promise!vars, status
  <1>9. QED
    BY <1>2, <1>3, <1>4, <1>5, <1>6, <1>7, <1>8 DEF Next, Client, Environment, Terminated

\* The interceptors keep the promise of RemoteCall: a call settles once,
\* resolves only if it was executed, and is executed at most once unless its
\* method is idempotent, at most MaxRetries + 2 times if it is.
THEOREM KeepsPromise == Spec => PromiseKept
  BY InitPromise, NextPromise, Invariance, PTL DEF Spec, PromiseKept, Promise!Spec
=============================================================================
