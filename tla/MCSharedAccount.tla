-------------------------- MODULE MCSharedAccount --------------------------
(* Payouts where two active users save the same account number.            *)
EXTENDS Payouts, TLC

CONSTANTS ann, bob

MCUsers == {ann, bob}

MCReferrer == [u \in MCUsers |-> NoUser]

MCSettings ==
  {[starts |-> 0, ends |-> 3, opens |-> 0, paused |-> FALSE, reward |-> 2, minimum |-> 1]}
=============================================================================
