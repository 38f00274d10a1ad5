----------------------------- MODULE RemoteCall -----------------------------
(***************************************************************************)
(* What a caller of the frontend's API client may rely on, whatever the    *)
(* network, the token and the retries do: a call settles once; a call that *)
(* resolves was executed; a call that is not idempotent is executed at     *)
(* most once, any other at most Most times.  A call that was rejected may  *)
(* have been executed, and may even be executed later.                     *)
(***************************************************************************)
EXTENDS Naturals

CONSTANTS
  Calls,      \* the calls of the program
  Idempotent, \* those whose method is idempotent
  Most        \* how often one of these may be executed

VARIABLES
  status,  \* [Calls -> {"idle", "pending", "resolved", "rejected"}]
  applied  \* [Calls -> Nat]: how often the backend has executed the call

vars == <<status, applied>>

Init ==
  /\ status = [c \in Calls |-> "idle"]
  /\ applied = [c \in Calls |-> 0]

Issue(c) ==
  /\ status[c] = "idle"
  /\ status' = [status EXCEPT ![c] = "pending"]
  /\ UNCHANGED applied

Limit(c) == IF c \in Idempotent THEN Most ELSE 1

Apply(c) ==
  /\ status[c] # "idle"
  /\ applied[c] < Limit(c)
  /\ applied' = [applied EXCEPT ![c] = @ + 1]
  /\ UNCHANGED status

Resolve(c) ==
  /\ status[c] = "pending"
  /\ applied[c] > 0
  /\ status' = [status EXCEPT ![c] = "resolved"]
  /\ UNCHANGED applied

Reject(c) ==
  /\ status[c] = "pending"
  /\ status' = [status EXCEPT ![c] = "rejected"]
  /\ UNCHANGED applied

Next == \E c \in Calls : Issue(c) \/ Apply(c) \/ Resolve(c) \/ Reject(c)

Spec == Init /\ [][Next]_vars
=============================================================================
