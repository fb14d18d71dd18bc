------------------------------- MODULE Wallet -------------------------------
(***************************************************************************)
(* What the wallet promises, without ledger, locks, keys, handlers or      *)
(* clocks: a funded pool, two amounts per user and a table of withdrawals. *)
(* Every step moves money from one of these places to exactly one other.   *)
(* Payouts implements this specification.                                  *)
(***************************************************************************)
EXTENDS Integers, Sequences

CONSTANT Users

VARIABLES
  pool,       \* recorded funding not yet promised to anyone
  pending,    \* earned, not withdrawable yet
  available,  \* withdrawable
  requests    \* withdrawals in request order

vars == <<pool, pending, available, requests>>

InProgress(r) == r.status \in {"REQUESTED", "PROCESSING"}

Init ==
  /\ pool = 0
  /\ pending = [u \in Users |-> 0]
  /\ available = [u \in Users |-> 0]
  /\ requests = <<>>

Fund ==
  /\ pool' \in Nat
  /\ pool' > pool
  /\ UNCHANGED <<pending, available, requests>>

Earn(u, amount) ==
  /\ pool' = pool - amount
  /\ pending' = [pending EXCEPT ![u] = @ + amount]
  /\ UNCHANGED <<available, requests>>

Unlock(u) ==
  /\ available' = [available EXCEPT ![u] = @ + pending[u]]
  /\ pending' = [pending EXCEPT ![u] = 0]
  /\ UNCHANGED <<pool, requests>>

(* A withdrawal is asked for once nothing of the user is pending any more, *)
(* by someone with no withdrawal in progress, within what they have.       *)
Ask(u, amount) ==
  /\ \A i \in DOMAIN requests : requests[i].user = u => ~InProgress(requests[i])
  /\ available' = [available EXCEPT ![u] = @ + pending[u] - amount]
  /\ pending' = [pending EXCEPT ![u] = 0]
  /\ requests' = Append(requests, [user |-> u, amount |-> amount, status |-> "REQUESTED"])
  /\ UNCHANGED pool

Export(chosen) ==
  /\ \A i \in chosen : requests[i].status = "REQUESTED"
  /\ requests' = [i \in DOMAIN requests |->
       IF i \in chosen THEN [requests[i] EXCEPT !.status = "PROCESSING"] ELSE requests[i]]
  /\ UNCHANGED <<pool, pending, available>>

Pay(i) ==
  /\ requests[i].status = "PROCESSING"
  /\ requests' = [requests EXCEPT ![i].status = "PAID"]
  /\ UNCHANGED <<pool, pending, available>>

GiveBack(i) ==
  /\ InProgress(requests[i])
  /\ requests' = [requests EXCEPT ![i].status = "FAILED"]
  /\ available' = [available EXCEPT ![requests[i].user] = @ + requests[i].amount]
  /\ UNCHANGED <<pool, pending>>

Next ==
  \/ Fund
  \/ \E u \in Users :
       \/ \E amount \in 1 .. pool : Earn(u, amount)
       \/ \E amount \in 1 .. pending[u] + available[u] : Ask(u, amount)
       \/ Unlock(u)
  \/ \E chosen \in SUBSET DOMAIN requests : Export(chosen)
  \/ \E i \in DOMAIN requests : Pay(i) \/ GiveBack(i)

Spec == Init /\ [][Next]_vars
=============================================================================
