------------------------------- MODULE Worker -------------------------------
(***************************************************************************)
(* The job queue and the workers that empty it, at work on the chain of    *)
(* batches that unlocks every pending balance once payouts are open.       *)
(*                                                                         *)
(* Time is one flag per job: its timer has run out (run_at of a queued     *)
(* job, locked_until of a running one, a week since finished_at of a done  *)
(* one).  Handlers are transactions; claiming and finishing a job are two  *)
(* others, and a worker may be slow, fail or die between them.             *)
(***************************************************************************)
EXTENDS Integers, FiniteSets

CONSTANTS
  LastAccount,   \* USER_PENDING accounts are 1 .. LastAccount
  Batch,         \* UNLOCK_BATCH (500)
  Workers,
  Concurrency,   \* jobs a worker claims at once (4)
  MaxAttempts,   \* max_attempts (5)
  MaxFaults,     \* bound: failed handlers, dead workers and overrun locks
  MaxEarned      \* bound: rewards credited

ASSUME WorkerAssumption ==
  /\ {LastAccount, Batch, Concurrency, MaxAttempts} \subseteq Nat \ {0}
  /\ {MaxFaults, MaxEarned} \subseteq Nat

VARIABLES
  open,      \* payout_opens_at has come
  pending,   \* the accounts with a pending balance
  earned,    \* rewards credited so far
  jobs,      \* jobs rows by dedupe key: k is the batch after account k
  runs,      \* what each worker does with the jobs it claimed
  faults,    \* failed handlers, dead workers and overrun locks so far
  overrun    \* the jobs whose lock ran out under a running handler

vars == <<open, pending, earned, jobs, runs, faults, overrun>>

Accounts == 1 .. LastAccount

Keys == 0 .. LastAccount   \* "unlock:start:<campaign>" is 0, "unlock:<id>" is id

Job == [status : {"NONE", "QUEUED", "RUNNING", "DONE", "FAILED"}, attempts : Nat,
        passed : BOOLEAN]

NoJob == [status |-> "NONE", attempts |-> 0, passed |-> FALSE]

Phases == {"no", "claimed", "ok", "error"}

-----------------------------------------------------------------------------
Status(k) == jobs[k].status

Running(w, k) == runs[w][k] # "no"

Idle(w) == \A k \in Keys : ~Running(w, k)

(* Seeded bug: the lock of a running job is not looked at.                 *)
ReadyUnlocked(k) == Status(k) = "RUNNING" \/ (Status(k) = "QUEUED" /\ jobs[k].passed)

ReadyQueued(k) == Status(k) = "QUEUED" /\ jobs[k].passed  \* seeded bug: no reclaim

Ready(k) == Status(k) \in {"QUEUED", "RUNNING"} /\ jobs[k].passed

(* Seeded bug: an existing job with the key is queued again.               *)
EnqueueAgain(table, k) == [table EXCEPT ![k] = [NoJob EXCEPT !.status = "QUEUED", !.passed = TRUE]]

Enqueue(table, k) ==
  IF table[k].status = "NONE"
  THEN [table EXCEPT ![k] = [NoJob EXCEPT !.status = "QUEUED", !.passed = TRUE]]
  ELSE table

-----------------------------------------------------------------------------
Init ==
  /\ open = FALSE
  /\ pending = {}
  /\ earned = 0
  /\ jobs = [k \in Keys |-> NoJob]
  /\ runs = [w \in Workers |-> [k \in Keys |-> "no"]]
  /\ faults = 0
  /\ overrun = {}

(* A referral reward is credited to the pending account at any time, also  *)
(* after payouts opened.                                                   *)
Earn(a) ==
  /\ earned < MaxEarned
  /\ earned' = earned + 1
  /\ pending' = pending \cup {a}
  /\ UNCHANGED <<open, jobs, runs, faults, overrun>>

(* The payout date comes, or the admin moves it.                           *)
PayoutDate ==
  /\ open' = ~open
  /\ UNCHANGED <<pending, earned, jobs, runs, faults, overrun>>

(* The user opens the wallet, or asks for a withdrawal.                    *)
OpenWallet(a) ==
  /\ open
  /\ pending' = pending \ {a}
  /\ UNCHANGED <<open, earned, jobs, runs, faults, overrun>>

(* A lock that runs out under a handler is an overrun.  No handler runs    *)
(* for the week after which a done job is deleted.                         *)
TimerEnds(k) ==
  /\ Status(k) \in {"QUEUED", "RUNNING", "DONE"} /\ ~jobs[k].passed
  /\ Status(k) = "DONE" => \A w \in Workers : ~Running(w, k)
  /\ jobs' = [jobs EXCEPT ![k].passed = TRUE]
  /\ IF Status(k) = "RUNNING" /\ \E w \in Workers : Running(w, k)
     THEN faults < MaxFaults /\ faults' = faults + 1 /\ overrun' = overrun \cup {k}
     ELSE UNCHANGED <<faults, overrun>>
  /\ UNCHANGED <<open, pending, earned, runs>>

-----------------------------------------------------------------------------
(* run_ready_jobs: SKIP LOCKED leaves out what another worker is claiming, *)
(* so a worker takes some of the ready jobs.                               *)
Claim(w, taken) ==
  /\ Idle(w)
  /\ taken # {} /\ Cardinality(taken) <= Concurrency
  /\ \A k \in taken : Ready(k)
  /\ jobs' = [k \in Keys |-> IF k \in taken
                THEN [status |-> "RUNNING", attempts |-> jobs[k].attempts + 1, passed |-> FALSE]
                ELSE jobs[k]]
  /\ runs' = [runs EXCEPT ![w] = [k \in Keys |-> IF k \in taken THEN "claimed" ELSE "no"]]
  /\ UNCHANGED <<open, pending, earned, faults, overrun>>

(* The rows unlock_batch reads: the first pending accounts after k.        *)
Rows(k) ==
  {a \in pending : a > k /\ Cardinality({b \in pending : k < b /\ b < a}) < Batch}

FullBatch(k) == Cardinality(Rows(k)) = Batch

LastOf(accounts) == CHOOSE a \in accounts : \A b \in accounts : b <= a

UnlockBatch(w, k) ==
  /\ runs[w][k] = "claimed"
  /\ pending' = IF open THEN pending \ Rows(k) ELSE pending
  /\ jobs' = IF FullBatch(k) THEN Enqueue(jobs, LastOf(Rows(k))) ELSE jobs
  /\ runs' = [runs EXCEPT ![w][k] = "ok"]
  /\ UNCHANGED <<open, earned, faults, overrun>>

(* The handler raises and its transaction is rolled back.                  *)
HandlerFails(w, k) ==
  /\ runs[w][k] = "claimed" /\ faults < MaxFaults
  /\ runs' = [runs EXCEPT ![w][k] = "error"]
  /\ faults' = faults + 1
  /\ UNCHANGED <<open, pending, earned, jobs, overrun>>

(* Seeded bug: one attempt too few. *)
FailedEarly(row) ==
  IF row.attempts + 1 >= MaxAttempts THEN [row EXCEPT !.status = "FAILED", !.passed = FALSE]
                                     ELSE [row EXCEPT !.status = "QUEUED", !.passed = FALSE]

Failed(row) ==
  IF row.attempts >= MaxAttempts THEN [row EXCEPT !.status = "FAILED", !.passed = FALSE]
                                 ELSE [row EXCEPT !.status = "QUEUED", !.passed = FALSE]

(* jobs.finish looks at no owner: the last worker to finish has its word.  *)
Finish(w, k) ==
  /\ runs[w][k] \in {"ok", "error"}
  /\ runs' = [runs EXCEPT ![w][k] = "no"]
  /\ jobs' = [jobs EXCEPT ![k] =
       IF runs[w][k] = "ok" THEN [@ EXCEPT !.status = "DONE", !.passed = FALSE] ELSE Failed(@)]
  /\ UNCHANGED <<open, pending, earned, faults, overrun>>

(* A worker dies and is started again; its jobs stay RUNNING.              *)
Crash(w) ==
  /\ ~Idle(w) /\ faults < MaxFaults
  /\ runs' = [runs EXCEPT ![w] = [k \in Keys |-> "no"]]
  /\ faults' = faults + 1
  /\ UNCHANGED <<open, pending, earned, jobs, overrun>>

Housekeeping ==
  LET kept == [k \in Keys |-> IF Status(k) = "DONE" /\ jobs[k].passed THEN NoJob ELSE jobs[k]]
  IN
  /\ jobs' = IF open THEN Enqueue(kept, 0) ELSE kept
  /\ UNCHANGED <<open, pending, earned, runs, faults, overrun>>

-----------------------------------------------------------------------------
Next ==
  \/ PayoutDate
  \/ Housekeeping
  \/ \E a \in Accounts : Earn(a) \/ OpenWallet(a)
  \/ \E k \in Keys : TimerEnds(k)
  \/ \E w \in Workers : Crash(w) \/ \E taken \in SUBSET Keys : Claim(w, taken)
  \/ \E w \in Workers, k \in Keys : UnlockBatch(w, k) \/ HandlerFails(w, k) \/ Finish(w, k)

(* Time passes, housekeeping runs every minute, a worker goes on with what *)
(* it claimed, and no ready job is passed over for ever: jobs are claimed  *)
(* in the order of run_at.                                                 *)
Fairness ==
  /\ WF_vars(Housekeeping)
  /\ \A w \in Workers : WF_vars(\E k \in Keys : UnlockBatch(w, k) \/ Finish(w, k))
  /\ \A k \in Keys : WF_vars(TimerEnds(k)) /\ SF_vars(\E w \in Workers : Claim(w, {k}))

Spec == Init /\ [][Next]_vars /\ Fairness

-----------------------------------------------------------------------------
(* Type invariant: every variable has the type of the rows it stands for.  *)
TypeOK ==
  /\ open \in BOOLEAN
  /\ pending \subseteq Accounts
  /\ earned \in 0 .. MaxEarned /\ faults \in 0 .. MaxFaults
  /\ jobs \in [Keys -> Job]
  /\ runs \in [Workers -> [Keys -> Phases]]
  /\ overrun \subseteq Keys

(* Two workers run one job at a time only when its lock ran out under the  *)
(* first of them: a dead worker's job is never taken early.                *)
SharedOnlyAfterOverrun ==
  \A k \in Keys : \A v, w \in Workers : Running(v, k) /\ Running(w, k) /\ v # w => k \in overrun

(* A job is given up only after MaxAttempts things went wrong: what other  *)
(* workers do with it never uses up its attempts for it.                   *)
NeverGivesUpEarly == \A k \in Keys : Status(k) = "FAILED" => faults >= MaxAttempts

(* No job is given up before its attempts are used up by faults, and rows  *)
(* have their types.                                                       *)
JobsKeepTrying == TypeOK /\ NeverGivesUpEarly

(* A job that is done stays done until it is deleted a week later, unless  *)
(* its lock ran out: then the late end of the first run overwrites it.     *)
DoneStaysDone ==
  [][\A k \in Keys \ overrun :
       Status(k) = "DONE" /\ ~jobs[k].passed => jobs'[k].status = "DONE"]_vars

(* Whatever dies, is claimed twice or is queued under a key still in use,  *)
(* every pending balance is unlocked in the end once payouts stay open,    *)
(* with nobody opening a wallet, as long as no job is given up.            *)
AllUnlocked ==
  <>[](open /\ \A k \in Keys : Status(k) # "FAILED") => <>[](pending = {})
=============================================================================
