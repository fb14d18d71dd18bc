------------------------------ MODULE MCWorker ------------------------------
(* The two things the worker process must get done in the end, which share *)
(* no state.  Its duty "jobs" is the queue: two workers, two accounts and  *)
(* batches of one, which makes three links of the chain.  Its duty         *)
(* "cleaning" is housekeeping of the sign-ups of one number, one after the *)
(* other.  A behaviour is about one of them, and leaves the other alone.   *)
EXTENDS Worker, TLC

CONSTANTS p1, t1, Handlers, Bots, NoOne

VARIABLES duty, now, users, sessions, proofs, kept, members, gone, handler, cleaning

V == INSTANCE Verification WITH
  Phones <- {p1}, Telegrams <- {t1}, NumbersOf <- t1 :> {p1}, Capacity <- 1, AccountLife <- 1,
  SessionLives <- {1}, MaxMismatches <- 1, ChannelsRequired <- FALSE, MaxTime <- 2,
  MaxUsers <- 2, MaxSessions <- 2

ASSUME V!VerificationAssumption

cleaningVars == <<now, users, sessions, proofs, kept, members, gone, handler, cleaning>>

MCInit == Init /\ V!Init /\ duty \in {"jobs", "cleaning"}

MCNext ==
  /\ UNCHANGED duty
  /\ \/ duty = "jobs" /\ Next /\ UNCHANGED cleaningVars
     \/ duty = "cleaning" /\ V!Next /\ UNCHANGED vars

(* The fairness of Worker and of Verification, each for its own duty. *)
MCFairness ==
  /\ WF_vars(duty = "jobs" /\ Housekeeping)
  /\ \A w \in Workers :
       WF_vars(duty = "jobs" /\ \E k \in Keys : UnlockBatch(w, k) \/ Finish(w, k))
  /\ \A k \in Keys :
       /\ WF_vars(duty = "jobs" /\ TimerEnds(k))
       /\ SF_vars(duty = "jobs" /\ \E w \in Workers : Claim(w, {k}))
  /\ WF_cleaningVars(duty = "cleaning" /\ V!FindExpired)
  /\ SF_cleaningVars(duty = "cleaning" /\ V!DeleteExpired)
  /\ \A h \in Handlers : WF_cleaningVars(duty = "cleaning" /\ V!Step(h))

MCSpec == MCInit /\ [][MCNext]_<<duty, vars, cleaningVars>> /\ MCFairness

(* An expired sign-up does not reserve its number for ever, whatever       *)
(* updates, sessions, suspensions and failed cleaning runs come between.   *)
NumberFreed == V!NumberFreed
=============================================================================
