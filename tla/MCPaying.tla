------------------------------ MODULE MCPaying ------------------------------
(* Payouts where withdrawals meet: ann referred bob and earns one reward,  *)
(* asks for it in one part or two, and saves bank details.                 *)
EXTENDS Payouts, TLC

CONSTANTS ann, bob

MCUsers == {ann, bob}

MCReferrer == [u \in MCUsers |-> IF u = ann THEN NoUser ELSE ann]

MCSettings ==
  {[starts |-> 0, ends |-> 3, opens |-> 1, paused |-> FALSE, reward |-> 2, minimum |-> 1]}
=============================================================================
