---------------------------- MODULE MCSuspension ----------------------------
(* Payouts where an admin suspends an account that is being verified.      *)
EXTENDS Payouts, TLC

CONSTANT ann

MCUsers == {ann}

MCReferrer == [u \in MCUsers |-> NoUser]

MCSettings ==
  {[starts |-> 0, ends |-> 3, opens |-> 0, paused |-> FALSE, reward |-> 2, minimum |-> 1]}
=============================================================================
