----------------------------- MODULE MCEarning -----------------------------
(* Payouts where rewards meet: ann referred bob and cid, who verify        *)
(* concurrently against a pool that funds one reward or two, while the     *)
(* admin pauses the campaign and suspends people.  Nobody has a bank       *)
(* account, so nobody withdraws.  The other grain is AccountLocks: the     *)
(* statements of the same transactions, with withdrawals, between two      *)
(* users.  A behaviour is at one grain, and leaves the other as it began.  *)
EXTENDS Payouts, TLC

CONSTANTS ann, bob, cid, LastUser, Connections, MaxFunded

VARIABLES grain, balance, request, open

L == INSTANCE AccountLocks

ASSUME EarningAssumption == L!AccountLocksAssumption

(* Only a batch of unlocks can be part of a circle of waiting transactions. *)
DeadlockNeedsBatch == L!DeadlockNeedsBatch

(* Statements between each other leave the committed money adding up, and  *)
(* rows of their types.                                                    *)
CommittedMoneyAddsUp == L!CommittedMoneyAddsUp /\ L!TypeOK

MCUsers == {ann, bob, cid}

MCReferrer == [u \in MCUsers |-> IF u = ann THEN NoUser ELSE ann]

(* A running campaign with rewards of 2, the same one paused, and one with *)
(* a raised reward and a later payout date.                                *)
Running == [starts |-> 0, ends |-> 3, opens |-> 1, paused |-> FALSE, reward |-> 2, minimum |-> 1]

MCSettings ==
  {Running, [Running EXCEPT !.paused = TRUE],
            [Running EXCEPT !.reward = 3, !.opens = 2]}

MCSpec ==
  /\ Init /\ L!Init /\ grain \in {"transactions", "statements"}
  /\ grain = "statements" => campaign = Running
  /\ [][\/ grain = "transactions" /\ Next /\ UNCHANGED <<grain, balance, request, open>>
        \/ grain = "statements" /\ L!Next /\ UNCHANGED <<grain, vars>>
       ]_<<grain, vars, L!lockVars>>

Symmetry == Permutations(Connections)
=============================================================================
