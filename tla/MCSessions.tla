----------------------------- MODULE MCSessions -----------------------------
(* One user on one phone.                                                  *)
EXTENDS Sessions, TLC

CONSTANTS ann, phone

MCOwner == [d \in Devices |-> ann]

Symmetry == Permutations(Calls)
=============================================================================
