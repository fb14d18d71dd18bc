----------------------------- MODULE MCCounter ------------------------------
(* One account whose verification races with housekeeping.                 *)
EXTENDS Verification, TLC

CONSTANTS p1, t1

MCOneNumber == t1 :> {p1}
=============================================================================
