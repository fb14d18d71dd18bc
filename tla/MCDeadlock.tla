----------------------------- MODULE MCDeadlock -----------------------------
(* Two users and three open transactions, down to the row locks.           *)
EXTENDS AccountLocks, TLC

Symmetry == Permutations(Connections)
=============================================================================
