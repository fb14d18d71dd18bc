----------------------------- MODULE MCBankLock -----------------------------
(* Payouts where one user edits bank details while asking for money.       *)
EXTENDS Payouts, TLC

CONSTANTS ann, bob

MCUsers == {ann, bob}

MCReferrer == [u \in MCUsers |-> IF u = ann THEN NoUser ELSE ann]

MCSettings ==
  {[starts |-> 0, ends |-> 3, opens |-> 0, paused |-> FALSE, reward |-> 2, minimum |-> 1]}
=============================================================================
