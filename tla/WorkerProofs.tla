---------------------------- MODULE WorkerProofs ----------------------------
(* Which worker has which job, and what its attempts were spent on, with   *)
(* any number of workers, jobs, faults and batches of any size.            *)
EXTENDS Worker, FiniteSetTheorems, TLAPS

Taken(k) == \E w \in Workers : Running(w, k)

(* Unless its lock ran out, a job somebody runs is locked, and by one      *)
(* worker only.                                                            *)
LocksOK ==
  \A k \in Keys \ overrun :
    /\ Taken(k) => Status(k) = "RUNNING" /\ ~jobs[k].passed
    /\ \A v, w \in Workers : Running(v, k) /\ Running(w, k) => v = w

Errors(k) == {w \in Workers : runs[w][k] = "error"}

(* The faults that no worker still has to report for this job.             *)
Reported(k) == faults - Cardinality(Errors(k))

(* The last attempt of a job may not have failed yet.                      *)
MayStillEnd(k) ==
  Status(k) = "DONE" \/ (Status(k) = "RUNNING" /\ ~jobs[k].passed /\ Taken(k))

(* Every attempt but the one still under way was spent by a fault of its   *)
(* own.                                                                    *)
Paid(k) ==
  /\ IsFiniteSet(Errors(k))
  /\ Reported(k) >= 0
  /\ jobs[k].attempts <= IF MayStillEnd(k) THEN Reported(k) + 1 ELSE Reported(k)
  /\ Status(k) = "FAILED" => jobs[k].attempts >= MaxAttempts

AttemptsOK == \A k \in Keys : Paid(k)

Kept == TypeOK /\ LocksOK /\ AttemptsOK
-----------------------------------------------------------------------------
(* Part 1: rows of the queue and errors that are counted.                  *)
LEMMA JobFacts ==
  ASSUME TypeOK
  PROVE  /\ faults \in Nat /\ jobs \in [Keys -> Job] /\ runs \in [Workers -> [Keys -> Phases]]
         /\ \A k \in Keys : jobs[k] \in Job /\ jobs[k].attempts \in Nat
<1>1. faults \in Nat
  BY WorkerAssumption DEF TypeOK
<1>2. \A k \in Keys : jobs[k] \in Job
  BY DEF TypeOK
<1> QED BY <1>1, <1>2 DEF TypeOK, Job

LEMMA NoJobTyped == NoJob \in Job /\ NoJob.status = "NONE" /\ NoJob.attempts = 0
BY DEF NoJob, Job

(* What Enqueue leaves of a table.                                         *)
LEMMA Enqueued ==
  ASSUME NEW table \in [Keys -> Job], NEW x
  PROVE  /\ Enqueue(table, x) \in [Keys -> Job]
         /\ \A k \in Keys :
              \/ Enqueue(table, x)[k] = table[k]
              \/ /\ table[k].status = "NONE"
                 /\ Enqueue(table, x)[k].status = "QUEUED" /\ Enqueue(table, x)[k].attempts = 0
<1> DEFINE fresh == [NoJob EXCEPT !.status = "QUEUED", !.passed = TRUE]
<1>1. fresh \in Job /\ fresh.status = "QUEUED" /\ fresh.attempts = 0
  BY DEF NoJob, Job
<1>2. Enqueue(table, x) = IF table[x].status = "NONE" THEN [table EXCEPT ![x] = fresh] ELSE table
  BY DEF Enqueue
<1> HIDE DEF fresh
<1> QED BY <1>1, <1>2

(* What Failed makes of a row: given up when no attempt is left.           *)
LEMMA FailedRow ==
  ASSUME NEW row \in Job
  PROVE  /\ Failed(row) \in Job /\ Failed(row).attempts = row.attempts
         /\ Failed(row).status \in {"QUEUED", "FAILED"}
         /\ Failed(row).status = "FAILED" => row.attempts >= MaxAttempts
BY DEF Failed, Job

LEMMA CountTyped ==
  ASSUME TypeOK, NEW k \in Keys, Paid(k)
  PROVE  /\ IsFiniteSet(Errors(k)) /\ Cardinality(Errors(k)) \in Nat /\ Reported(k) \in Nat
         /\ jobs[k].attempts \in Nat /\ faults \in Nat
         /\ jobs[k].attempts <= Reported(k) + 1
BY FS_CardinalityType, JobFacts DEF Paid, Reported

(* The accounts of a job stay right when its errors are no more than the   *)
(* faults allow and its attempts are no more than before.                  *)
LEMMA PaidKept ==
  ASSUME TypeOK, NEW k \in Keys, Paid(k), faults' \in Nat,
         IsFiniteSet(Errors(k)'), Reported(k)' >= Reported(k), Reported(k)' \in Nat,
         jobs'[k].attempts \in Nat, jobs'[k].attempts <= jobs[k].attempts,
         MayStillEnd(k) => MayStillEnd(k)' \/ Reported(k)' > Reported(k),
         jobs'[k].status = "FAILED" => jobs'[k].attempts >= MaxAttempts
  PROVE  Paid(k)'
BY CountTyped DEF Paid, Status

-----------------------------------------------------------------------------
(* Part 2: the steps.                                                      *)
LEMMA KeptInit == Init => Kept
<1> SUFFICES ASSUME Init PROVE Kept
  OBVIOUS
<1>1. TypeOK
  <2>1. 0 \in 0 .. MaxEarned /\ 0 \in 0 .. MaxFaults
    BY WorkerAssumption
  <2>2. jobs \in [Keys -> Job] /\ runs \in [Workers -> [Keys -> Phases]]
    BY NoJobTyped DEF Init, Phases
  <2> QED BY <2>1, <2>2 DEF Init, TypeOK
<1>2. LocksOK
  BY DEF Init, LocksOK, Taken, Running
<1>3. AttemptsOK
  <2> SUFFICES ASSUME NEW k \in Keys PROVE Paid(k)
    BY DEF AttemptsOK
  <2>1. Errors(k) = {}
    BY DEF Init, Errors
  <2>2. IsFiniteSet(Errors(k)) /\ Reported(k) = 0
    BY <2>1, FS_EmptySet DEF Init, Reported
  <2>3. jobs[k] = NoJob
    BY DEF Init
  <2> QED BY <2>2, <2>3, NoJobTyped DEF Paid, Status, MayStillEnd
<1> QED BY <1>1, <1>2, <1>3 DEF Kept

(* Steps that queue or delete jobs nobody runs, and leave the workers what *)
(* they have.                                                              *)
LEMMA QueueKeeps ==
  ASSUME Kept, UNCHANGED <<faults, overrun>>, jobs' \in [Keys -> Job],
         \A k \in Keys : \/ jobs'[k] = jobs[k]
                         \/ /\ Status(k) \in {"NONE", "DONE"}
                            /\ Status(k) = "DONE" => jobs[k].passed
                            /\ jobs'[k].status \in {"NONE", "QUEUED"} /\ jobs'[k].attempts = 0,
         \A k \in Keys, w \in Workers : /\ Running(w, k)' <=> Running(w, k)
                                        /\ runs'[w][k] = "error" <=> runs[w][k] = "error"
  PROVE  LocksOK' /\ AttemptsOK'
<1>1. LocksOK'
  BY DEF Kept, LocksOK, Taken, Status
<1>2. ASSUME NEW k \in Keys PROVE Paid(k)'
  <2>1. TypeOK /\ Paid(k)
    BY DEF Kept, AttemptsOK
  <2>2. Errors(k)' = Errors(k) /\ (Taken(k)' <=> Taken(k))
    BY DEF Errors, Taken
  <2>3. Reported(k)' = Reported(k) /\ IsFiniteSet(Errors(k)')
    BY <2>1, <2>2, CountTyped DEF Reported
  <2>4. CASE jobs'[k] = jobs[k]
    BY <2>1, <2>2, <2>3, <2>4, CountTyped, PaidKept DEF MayStillEnd, Status, Paid
  <2>5. CASE jobs'[k].status \in {"NONE", "QUEUED"} /\ jobs'[k].attempts = 0
    BY <2>1, <2>3, <2>5, CountTyped DEF MayStillEnd, Status, Paid
  <2> QED BY <2>4, <2>5
<1> QED BY <1>1, <1>2 DEF AttemptsOK

LEMMA OutsideKeeps ==
  ASSUME Kept,
         \/ UNCHANGED vars \/ PayoutDate \/ Housekeeping
         \/ \E a \in Accounts : Earn(a) \/ OpenWallet(a)
  PROVE  Kept'
<1>1. UNCHANGED <<faults, overrun, runs>> /\ TypeOK
  BY DEF vars, PayoutDate, Housekeeping, Earn, OpenWallet, Kept
<1>2. open' \in BOOLEAN /\ pending' \subseteq Accounts /\ earned' \in 0 .. MaxEarned
  <2>1. earned \in 0 .. MaxEarned /\ (earned < MaxEarned => earned + 1 \in 0 .. MaxEarned)
    BY <1>1, WorkerAssumption DEF TypeOK
  <2>2. earned' = earned \/ (earned < MaxEarned /\ earned' = earned + 1)
    BY DEF vars, PayoutDate, Housekeeping, Earn, OpenWallet
  <2>3. open' \in BOOLEAN /\ pending' \subseteq Accounts
    BY <1>1 DEF vars, PayoutDate, Housekeeping, Earn, OpenWallet, TypeOK
  <2> QED BY <2>1, <2>2, <2>3
<1>3. /\ jobs' \in [Keys -> Job]
      /\ \A k \in Keys : \/ jobs'[k] = jobs[k]
                         \/ /\ Status(k) \in {"NONE", "DONE"}
                            /\ Status(k) = "DONE" => jobs[k].passed
                            /\ jobs'[k].status \in {"NONE", "QUEUED"} /\ jobs'[k].attempts = 0
  <2>1. CASE jobs' = jobs
    BY <1>1, <2>1, JobFacts
  <2>2. CASE Housekeeping
    <3> DEFINE kept == [k \in Keys |-> IF Status(k) = "DONE" /\ jobs[k].passed THEN NoJob ELSE jobs[k]]
    <3>1. jobs' = IF open THEN Enqueue(kept, 0) ELSE kept
      BY <2>2 DEF Housekeeping
    <3>2. kept \in [Keys -> Job]
      BY <1>1, JobFacts, NoJobTyped
    <3>3. \A k \in Keys : \/ kept[k] = jobs[k]
                          \/ /\ Status(k) = "DONE" /\ jobs[k].passed
                             /\ kept[k].status = "NONE" /\ kept[k].attempts = 0
      BY NoJobTyped
    <3> HIDE DEF kept
    <3>4. CASE jobs' = kept
      BY <3>2, <3>3, <3>4
    <3>5. CASE jobs' = Enqueue(kept, 0)
      <4>1. jobs' \in [Keys -> Job]
            /\ \A k \in Keys : \/ jobs'[k] = kept[k]
                               \/ /\ kept[k].status = "NONE"
                                  /\ jobs'[k].status = "QUEUED" /\ jobs'[k].attempts = 0
        BY <3>2, <3>5, Enqueued
      <4> QED BY <3>3, <4>1 DEF Status
    <3> QED BY <3>1, <3>4, <3>5
  <2> QED BY <2>1, <2>2 DEF vars, PayoutDate, Earn, OpenWallet
<1>4. LocksOK' /\ AttemptsOK'
  BY <1>1, <1>3, QueueKeeps DEF Running
<1>5. TypeOK'
  BY <1>1, <1>2, <1>3 DEF TypeOK
<1> QED BY <1>4, <1>5 DEF Kept

LEMMA UnlockKeeps ==
  ASSUME Kept, NEW w \in Workers, NEW k \in Keys, UnlockBatch(w, k)
  PROVE  Kept'
<1>1. /\ TypeOK /\ UNCHANGED <<open, earned, faults, overrun>> /\ runs[w][k] = "claimed"
      /\ runs' = [runs EXCEPT ![w][k] = "ok"] /\ pending' \subseteq Accounts
  BY DEF UnlockBatch, Kept, TypeOK
<1>2. /\ runs' \in [Workers -> [Keys -> Phases]]
      /\ \A v \in Workers, j \in Keys :
           runs'[v][j] = IF v = w /\ j = k THEN "ok" ELSE runs[v][j]
  BY <1>1, JobFacts DEF Phases
<1>3. /\ jobs' \in [Keys -> Job]
      /\ \A j \in Keys : \/ jobs'[j] = jobs[j]
                         \/ /\ Status(j) = "NONE"
                            /\ jobs'[j].status = "QUEUED" /\ jobs'[j].attempts = 0
  <2>1. CASE jobs' = jobs
    BY <1>1, <2>1, JobFacts
  <2>2. CASE jobs' = Enqueue(jobs, LastOf(Rows(k)))
    BY <1>1, <2>2, JobFacts, Enqueued DEF Status
  <2> QED BY <2>1, <2>2 DEF UnlockBatch
<1>4. LocksOK' /\ AttemptsOK'
  BY <1>1, <1>2, <1>3, QueueKeeps DEF Running
<1>5. TypeOK'
  BY <1>1, <1>2, <1>3 DEF TypeOK
<1> QED BY <1>4, <1>5 DEF Kept

(* A timer ends: a lock that ends under a handler is a fault.              *)
LEMMA TimerKeeps ==
  ASSUME Kept, NEW k \in Keys, TimerEnds(k)
  PROVE  Kept'
<1>1. /\ TypeOK /\ LocksOK /\ AttemptsOK /\ UNCHANGED <<open, pending, earned, runs>>
      /\ jobs' = [jobs EXCEPT ![k].passed = TRUE] /\ jobs \in [Keys -> Job]
      /\ Status(k) \in {"QUEUED", "RUNNING", "DONE"}
  BY DEF TimerEnds, Kept, TypeOK
<1>2. /\ jobs' \in [Keys -> Job]
      /\ \A j \in Keys : j # k => jobs'[j] = jobs[j]
      /\ jobs'[k].status = jobs[k].status /\ jobs'[k].attempts = jobs[k].attempts
      /\ jobs'[k].passed
  BY <1>1 DEF Job
<1>3. \/ Status(k) = "RUNNING" /\ Taken(k) /\ faults < MaxFaults /\ faults' = faults + 1
         /\ overrun' = overrun \cup {k}
      \/ ~(Status(k) = "RUNNING" /\ Taken(k)) /\ UNCHANGED <<faults, overrun>>
  BY DEF TimerEnds, Taken
<1>4. faults' \in 0 .. MaxFaults /\ faults' \in Nat /\ faults' >= faults /\ overrun' \subseteq Keys
  BY <1>1, <1>3, WorkerAssumption DEF TypeOK
<1>5. TypeOK'
  BY <1>1, <1>2, <1>4 DEF TypeOK
<1>6. LocksOK'
  <2>1. k \notin overrun' => ~(Status(k) = "RUNNING" /\ Taken(k))
    BY <1>3
  <2>2. \A j \in Keys \ overrun' : j \in Keys \ overrun
    BY <1>3
  <2> QED BY <1>1, <1>2, <2>1, <2>2 DEF LocksOK, Taken, Running, Status
<1>7. ASSUME NEW j \in Keys PROVE Paid(j)'
  <2>1. Errors(j)' = Errors(j) /\ Paid(j) /\ (Taken(j)' <=> Taken(j))
    BY <1>1 DEF Errors, AttemptsOK, Taken, Running
  <2>2. IsFiniteSet(Errors(j)') /\ Reported(j)' \in Nat /\ Reported(j)' >= Reported(j)
        /\ Reported(j)' - Reported(j) = faults' - faults
    BY <1>1, <1>4, <2>1, CountTyped DEF Reported
  <2>3. MayStillEnd(j) => MayStillEnd(j)' \/ Reported(j)' > Reported(j)
    <3>1. CASE faults' = faults + 1
      BY <1>1, <2>1, <2>2, <3>1, CountTyped
    <3>2. CASE ~(Status(k) = "RUNNING" /\ Taken(k))
      BY <1>2, <2>1, <3>2 DEF MayStillEnd, Status
    <3> QED BY <1>3, <3>1, <3>2
  <2>4. jobs'[j].attempts = jobs[j].attempts /\ jobs'[j].status = jobs[j].status
    BY <1>2
  <2>5. jobs'[j].status = "FAILED" => jobs'[j].attempts >= MaxAttempts
    BY <2>1, <2>4 DEF Paid, Status
  <2> QED BY <1>1, <1>4, <2>1, <2>2, <2>3, <2>4, <2>5, PaidKept, CountTyped
<1> QED BY <1>5, <1>6, <1>7 DEF Kept, AttemptsOK

(* What is claimed was ready: queued, or locked by a run that is over.     *)
LEMMA ClaimKeeps ==
  ASSUME Kept, NEW w \in Workers, NEW taken \in SUBSET Keys, Claim(w, taken)
  PROVE  Kept'
<1>1. /\ TypeOK /\ LocksOK /\ AttemptsOK /\ UNCHANGED <<open, pending, earned, faults, overrun>>
      /\ \A k \in Keys : jobs[k] \in Job /\ jobs[k].attempts \in Nat
      /\ Idle(w) /\ \A k \in taken : Ready(k)
      /\ runs \in [Workers -> [Keys -> Phases]]
  BY JobFacts DEF Claim, Kept
<1>2. /\ jobs' \in [Keys -> Job]
      /\ \A k \in Keys : k \notin taken => jobs'[k] = jobs[k]
      /\ \A k \in taken : jobs'[k].status = "RUNNING" /\ ~jobs'[k].passed
                          /\ jobs'[k].attempts = jobs[k].attempts + 1
  <2>1. jobs' = [k \in Keys |-> IF k \in taken
                  THEN [status |-> "RUNNING", attempts |-> jobs[k].attempts + 1, passed |-> FALSE]
                  ELSE jobs[k]]
    BY DEF Claim
  <2>2. jobs' \in [Keys -> Job]
    BY <1>1, <2>1 DEF Job
  <2> QED BY <1>1, <2>1, <2>2
<1>3. /\ runs' \in [Workers -> [Keys -> Phases]]
      /\ \A v \in Workers, k \in Keys :
           runs'[v][k] = IF v = w THEN (IF k \in taken THEN "claimed" ELSE "no") ELSE runs[v][k]
      /\ \A k \in Keys : runs[w][k] = "no"
  BY <1>1 DEF Claim, Idle, Running, Phases
<1>4. TypeOK'
  BY <1>1, <1>2, <1>3 DEF TypeOK
<1>5. ASSUME NEW k \in Keys, k \in taken, k \notin overrun PROVE ~Taken(k)
  BY <1>1, <1>5 DEF LocksOK, Ready
<1>6. LocksOK'
  <2> SUFFICES ASSUME NEW k \in Keys, k \notin overrun'
               PROVE  /\ Taken(k)' => jobs'[k].status = "RUNNING" /\ ~jobs'[k].passed
                      /\ \A v, u \in Workers : Running(v, k)' /\ Running(u, k)' => v = u
    BY DEF LocksOK, Status
  <2>1. CASE k \in taken
    <3>1. \A v \in Workers : Running(v, k)' => v = w
      BY <1>1, <1>3, <1>5, <2>1 DEF Taken, Running
    <3> QED BY <1>2, <2>1, <3>1
  <2>2. CASE k \notin taken
    <3>1. \A v \in Workers : Running(v, k)' <=> Running(v, k)
      BY <1>3, <2>2 DEF Running
    <3> QED BY <1>1, <1>2, <2>2, <3>1 DEF LocksOK, Taken, Status
  <2> QED BY <2>1, <2>2
<1>7. ASSUME NEW k \in Keys PROVE Paid(k)'
  <2>1. Errors(k)' = Errors(k) /\ Paid(k)
    BY <1>1, <1>3 DEF Errors, AttemptsOK
  <2>2. Reported(k)' = Reported(k) /\ IsFiniteSet(Errors(k)')
    BY <1>1, <2>1, CountTyped DEF Reported
  <2>3. CASE k \in taken
    <3>1. ~MayStillEnd(k)
      BY <1>1, <2>3 DEF MayStillEnd, Ready
    <3>2. MayStillEnd(k)'
      BY <1>2, <1>3, <2>3 DEF MayStillEnd, Taken, Running, Status
    <3> QED BY <1>1, <1>2, <2>1, <2>2, <2>3, <3>1, <3>2, CountTyped DEF Paid, Status
  <2>4. CASE k \notin taken
    <3>1. MayStillEnd(k)' <=> MayStillEnd(k)
      BY <1>2, <1>3, <2>4 DEF MayStillEnd, Taken, Running, Status
    <3> QED BY <1>1, <1>2, <2>1, <2>2, <2>4, <3>1, CountTyped DEF Paid, Status
  <2> QED BY <2>3, <2>4
<1> QED BY <1>4, <1>6, <1>7 DEF Kept, AttemptsOK

(* A handler fails: a fault that its worker has still to report.           *)
LEMMA HandlerFailsKeeps ==
  ASSUME Kept, NEW w \in Workers, NEW k \in Keys, HandlerFails(w, k)
  PROVE  Kept'
<1>1. /\ TypeOK /\ LocksOK /\ AttemptsOK /\ UNCHANGED <<open, pending, earned, jobs, overrun>>
      /\ runs[w][k] = "claimed" /\ faults < MaxFaults /\ faults' = faults + 1 /\ faults \in Nat
      /\ runs' = [runs EXCEPT ![w][k] = "error"]
  BY JobFacts DEF HandlerFails, Kept
<1>2. /\ runs' \in [Workers -> [Keys -> Phases]]
      /\ \A v \in Workers, j \in Keys :
           runs'[v][j] = IF v = w /\ j = k THEN "error" ELSE runs[v][j]
  BY <1>1, JobFacts DEF Phases
<1>3. TypeOK'
  <2>1. faults' \in 0 .. MaxFaults
    BY <1>1, WorkerAssumption DEF TypeOK
  <2> QED BY <1>1, <1>2, <2>1 DEF TypeOK
<1>4. \A v \in Workers, j \in Keys : Running(v, j)' <=> Running(v, j)
  BY <1>1, <1>2 DEF Running
<1>5. LocksOK'
  BY <1>1, <1>4 DEF LocksOK, Taken, Status
<1>6. ASSUME NEW j \in Keys PROVE Paid(j)'
  <2>1. Paid(j) /\ (MayStillEnd(j)' <=> MayStillEnd(j))
    BY <1>1, <1>4 DEF AttemptsOK, MayStillEnd, Taken, Status
  <2>2. /\ IsFiniteSet(Errors(j)') /\ Cardinality(Errors(j)') <= Cardinality(Errors(j)) + 1
        /\ Cardinality(Errors(j)') \in Nat
    <3>1. Errors(j)' = Errors(j) \/ (Errors(j)' = Errors(j) \cup {w} /\ w \notin Errors(j))
      BY <1>1, <1>2 DEF Errors
    <3>2. IsFiniteSet(Errors(j)) /\ Cardinality(Errors(j)) \in Nat
      BY <1>1, <2>1, CountTyped
    <3>3. CASE Errors(j)' = Errors(j)
      BY <3>2, <3>3
    <3>4. CASE Errors(j)' = Errors(j) \cup {w} /\ w \notin Errors(j)
      BY <3>2, <3>4, FS_AddElement
    <3> QED BY <3>1, <3>3, <3>4
  <2>3. Reported(j)' \in Nat /\ Reported(j)' >= Reported(j)
    BY <1>1, <2>1, <2>2, CountTyped DEF Reported
  <2>4. jobs'[j].status = "FAILED" => jobs'[j].attempts >= MaxAttempts
    BY <1>1, <2>1 DEF Paid, Status
  <2> QED BY <1>1, <2>1, <2>2, <2>3, <2>4, CountTyped, PaidKept
<1> QED BY <1>3, <1>5, <1>6 DEF Kept, AttemptsOK

(* A worker ends a job: an error it reports is paid by the fault it was.   *)
LEMMA FinishKeeps ==
  ASSUME Kept, NEW w \in Workers, NEW k \in Keys, Finish(w, k)
  PROVE  Kept'
<1> DEFINE row == IF runs[w][k] = "ok" THEN [jobs[k] EXCEPT !.status = "DONE", !.passed = FALSE]
                                       ELSE Failed(jobs[k])
<1>1. /\ TypeOK /\ LocksOK /\ AttemptsOK /\ UNCHANGED <<open, pending, earned, faults, overrun>>
      /\ runs[w][k] \in {"ok", "error"}
      /\ runs' = [runs EXCEPT ![w][k] = "no"] /\ jobs' = [jobs EXCEPT ![k] = row]
      /\ jobs[k] \in Job /\ jobs \in [Keys -> Job] /\ faults \in Nat
  BY JobFacts DEF Finish, Kept
<1>2. /\ runs' \in [Workers -> [Keys -> Phases]]
      /\ \A v \in Workers, j \in Keys :
           runs'[v][j] = IF v = w /\ j = k THEN "no" ELSE runs[v][j]
  BY <1>1, JobFacts DEF Phases
<1>3. /\ row \in Job /\ row.attempts = jobs[k].attempts
      /\ row.status = "FAILED" => row.attempts >= MaxAttempts
      /\ row.status = "DONE" \/ runs[w][k] = "error"
  <2>1. CASE runs[w][k] = "ok"
    BY <1>1, <2>1 DEF Job
  <2>2. CASE runs[w][k] = "error"
    BY <1>1, <2>2, FailedRow
  <2> QED BY <1>1, <2>1, <2>2
<1> HIDE DEF row
<1>4. /\ jobs' \in [Keys -> Job] /\ jobs'[k] = row
      /\ \A j \in Keys : j # k => jobs'[j] = jobs[j]
  BY <1>1, <1>3
<1>5. TypeOK'
  BY <1>1, <1>2, <1>4 DEF TypeOK
<1>6. LocksOK'
  <2>1. \A v \in Workers, j \in Keys : Running(v, j)' <=> Running(v, j) /\ ~(v = w /\ j = k)
    BY <1>2 DEF Running
  <2>2. k \in overrun \/ ~Taken(k)'
    BY <1>1, <2>1 DEF LocksOK, Taken, Running
  <2>3. ASSUME NEW j \in Keys \ overrun'
        PROVE  /\ Taken(j)' => Status(j)' = "RUNNING" /\ ~jobs'[j].passed
               /\ \A u, v \in Workers : Running(u, j)' /\ Running(v, j)' => u = v
    <3>1. CASE j = k
      BY <1>1, <2>1, <2>2, <3>1 DEF LocksOK
    <3>2. CASE j # k
      BY <1>1, <1>4, <2>1, <3>2 DEF LocksOK, Taken, Status
    <3> QED BY <3>1, <3>2
  <2> QED BY <2>3 DEF LocksOK
<1>7. ASSUME NEW j \in Keys PROVE Paid(j)'
  <2>1. Paid(j) /\ IsFiniteSet(Errors(j)) /\ Cardinality(Errors(j)) \in Nat
        /\ Reported(j) \in Nat /\ jobs[j].attempts \in Nat /\ jobs[j].attempts <= Reported(j) + 1
    BY <1>1, CountTyped DEF AttemptsOK
  <2>2. CASE j # k
    <3>1. Errors(j)' = Errors(j) /\ (MayStillEnd(j)' <=> MayStillEnd(j)) /\ jobs'[j] = jobs[j]
      BY <1>2, <1>4, <2>2 DEF Errors, MayStillEnd, Taken, Running, Status
    <3> QED BY <1>1, <2>1, <3>1 DEF Paid, Reported, Status
  <2>3. CASE j = k /\ runs[w][k] = "error"
    <3>1. Errors(k)' = Errors(k) \ {w} /\ w \in Errors(k)
      BY <1>2, <2>3 DEF Errors
    <3>2. IsFiniteSet(Errors(k)') /\ Cardinality(Errors(k)') = Cardinality(Errors(k)) - 1
      <4>1. IsFiniteSet(Errors(k)) /\ Cardinality(Errors(k)) \in Nat
        BY <2>1, <2>3
      <4>2. IsFiniteSet(Errors(k) \ {w}) /\ Cardinality(Errors(k) \ {w}) = Cardinality(Errors(k)) - 1
        BY <3>1, <4>1, FS_RemoveElement
      <4> QED BY <3>1, <4>2
    <3>3. Reported(k)' = Reported(k) + 1
      BY <1>1, <2>1, <2>3, <3>2 DEF Reported
    <3> QED BY <1>3, <1>4, <2>1, <2>3, <3>2, <3>3 DEF Paid, Status
  <2>4. CASE j = k /\ row.status = "DONE"
    <3>1. IsFiniteSet(Errors(k)') /\ Cardinality(Errors(k)') \in Nat
          /\ Cardinality(Errors(k)') <= Cardinality(Errors(k))
      <4>1. Errors(k)' \subseteq Errors(k)
        BY <1>2 DEF Errors
      <4> QED BY <2>1, <2>4, <4>1, FS_Subset, FS_CardinalityType
    <3>2. Reported(k)' \in Nat /\ Reported(k)' >= Reported(k)
      BY <1>1, <2>1, <2>4, <3>1 DEF Reported
    <3>3. MayStillEnd(k)' /\ jobs'[k].attempts = jobs[k].attempts /\ Status(k)' = "DONE"
      BY <1>3, <1>4, <2>4 DEF MayStillEnd, Status
    <3> QED BY <2>1, <2>4, <3>1, <3>2, <3>3 DEF Paid
  <2> QED BY <1>3, <2>2, <2>3, <2>4
<1> QED BY <1>5, <1>6, <1>7 DEF Kept, AttemptsOK

(* A worker dies with all it had: a fault for each of its jobs.            *)
LEMMA CrashKeeps ==
  ASSUME Kept, NEW w \in Workers, Crash(w)
  PROVE  Kept'
<1>1. /\ TypeOK /\ LocksOK /\ AttemptsOK /\ UNCHANGED <<open, pending, earned, jobs, overrun>>
      /\ faults < MaxFaults /\ faults' = faults + 1 /\ faults \in Nat
      /\ runs' = [runs EXCEPT ![w] = [k \in Keys |-> "no"]]
  BY JobFacts DEF Crash, Kept
<1>2. /\ runs' \in [Workers -> [Keys -> Phases]]
      /\ \A v \in Workers, j \in Keys : runs'[v][j] = IF v = w THEN "no" ELSE runs[v][j]
  BY <1>1, JobFacts DEF Phases
<1>3. TypeOK'
  <2>1. faults' \in 0 .. MaxFaults
    BY <1>1, WorkerAssumption DEF TypeOK
  <2> QED BY <1>1, <1>2, <2>1 DEF TypeOK
<1>4. LocksOK'
  <2>1. \A v \in Workers, j \in Keys : Running(v, j)' => Running(v, j)
    BY <1>2 DEF Running
  <2> QED BY <1>1, <2>1 DEF LocksOK, Taken, Status
<1>5. ASSUME NEW j \in Keys PROVE Paid(j)'
  <2>1. Paid(j) /\ IsFiniteSet(Errors(j)) /\ Cardinality(Errors(j)) \in Nat
        /\ Reported(j) \in Nat /\ jobs[j].attempts \in Nat
    BY <1>1, CountTyped DEF AttemptsOK
  <2>2. IsFiniteSet(Errors(j)') /\ Cardinality(Errors(j)') \in Nat
        /\ Cardinality(Errors(j)') <= Cardinality(Errors(j))
    <3>1. Errors(j)' \subseteq Errors(j)
      BY <1>2 DEF Errors
    <3> QED BY <2>1, <3>1, FS_Subset, FS_CardinalityType
  <2>3. Reported(j)' \in Nat /\ Reported(j)' > Reported(j)
    BY <1>1, <2>1, <2>2 DEF Reported
  <2>4. jobs'[j].status = "FAILED" => jobs'[j].attempts >= MaxAttempts
    BY <1>1, <2>1 DEF Paid, Status
  <2> QED BY <1>1, <2>1, <2>2, <2>3, <2>4, PaidKept
<1> QED BY <1>3, <1>4, <1>5 DEF Kept, AttemptsOK

LEMMA KeptNext == Kept /\ [Next]_vars => Kept'
BY OutsideKeeps, UnlockKeeps, TimerKeeps, ClaimKeeps, HandlerFailsKeeps, FinishKeeps, CrashKeeps
DEF Next

LEMMA AlwaysKept == Spec => []Kept
BY KeptInit, KeptNext, PTL DEF Spec

-----------------------------------------------------------------------------
(* Part 3: the theorems.                                                   *)

(* jobs.claim and the lock: a job whose lock never ran out under a handler *)
(* is run by one worker at a time, whatever dies.                          *)
THEOREM OneRunPerLock == Spec => []SharedOnlyAfterOverrun
<1>1. Kept => SharedOnlyAfterOverrun
  BY DEF Kept, LocksOK, SharedOnlyAfterOverrun
<1> QED BY AlwaysKept, <1>1, PTL

(* jobs.finish: a job is given up only after as many faults as it has      *)
(* attempts, and rows have their types.                                    *)
THEOREM AttemptsSpentByFaults == Spec => []JobsKeepTrying
<1>1. Kept => JobsKeepTrying
  <2> SUFFICES ASSUME Kept, NEW k \in Keys, Status(k) = "FAILED" PROVE faults >= MaxAttempts
    BY DEF JobsKeepTrying, NeverGivesUpEarly, Kept
  <2>1. TypeOK /\ Paid(k) /\ ~MayStillEnd(k)
    BY DEF Kept, AttemptsOK, MayStillEnd
  <2>2. /\ jobs[k].attempts <= Reported(k) /\ jobs[k].attempts >= MaxAttempts
        /\ Cardinality(Errors(k)) \in Nat /\ jobs[k].attempts \in Nat /\ faults \in Nat
    BY <2>1, CountTyped DEF Paid
  <2> QED BY <2>2, WorkerAssumption DEF Reported
<1> QED BY AlwaysKept, <1>1, PTL

(* What is done stays done for its week, unless a lock ran out.            *)
THEOREM DoneForGood == Spec => DoneStaysDone
<1>1. ASSUME Kept, [Next]_vars, NEW k \in Keys \ overrun, Status(k) = "DONE", ~jobs[k].passed
      PROVE  jobs'[k].status = "DONE"
  <2>1. /\ jobs \in [Keys -> Job] /\ \A w \in Workers : ~Running(w, k)
    BY <1>1 DEF Kept, TypeOK, LocksOK, Taken
  <2>2. CASE jobs' = jobs
    BY <1>1, <2>2 DEF Status
  <2>3. CASE Housekeeping
    <3> DEFINE kept == [j \in Keys |-> IF Status(j) = "DONE" /\ jobs[j].passed THEN NoJob ELSE jobs[j]]
    <3>1. kept \in [Keys -> Job] /\ kept[k] = jobs[k]
      BY <1>1, <2>1, NoJobTyped
    <3>2. jobs' = kept \/ jobs' = Enqueue(kept, 0)
      BY <2>3 DEF Housekeeping
    <3> HIDE DEF kept
    <3>3. Enqueue(kept, 0)[k] = kept[k] \/ kept[k].status = "NONE"
      BY <3>1, Enqueued
    <3> QED BY <1>1, <3>1, <3>2, <3>3 DEF Status
  <2>4. ASSUME NEW j \in Keys, TimerEnds(j) PROVE jobs'[k].status = "DONE"
    BY <1>1, <2>1, <2>4 DEF TimerEnds, Status, Job
  <2>5. ASSUME NEW w \in Workers, NEW taken \in SUBSET Keys, Claim(w, taken)
        PROVE  jobs'[k].status = "DONE"
    BY <1>1, <2>5 DEF Claim, Ready, Status
  <2>6. ASSUME NEW w \in Workers, NEW j \in Keys, UnlockBatch(w, j)
        PROVE  jobs'[k].status = "DONE"
    <3>1. Enqueue(jobs, LastOf(Rows(j)))[k] = jobs[k] \/ jobs[k].status = "NONE"
      BY <2>1, Enqueued
    <3> QED BY <1>1, <2>6, <3>1 DEF UnlockBatch, Status
  <2>7. ASSUME NEW w \in Workers, NEW j \in Keys, Finish(w, j)
        PROVE  jobs'[k].status = "DONE"
    <3>1. j # k
      BY <2>1, <2>7 DEF Finish, Running
    <3> QED BY <1>1, <2>1, <2>7, <3>1 DEF Finish, Status
  <2> QED
    BY <1>1, <2>2, <2>3, <2>4, <2>5, <2>6, <2>7
    DEF Next, vars, PayoutDate, Earn, OpenWallet, Crash, HandlerFails
<1>2. Kept /\ [Next]_vars =>
        [\A k \in Keys \ overrun :
           Status(k) = "DONE" /\ ~jobs[k].passed => jobs'[k].status = "DONE"]_vars
  BY <1>1
<1> QED BY AlwaysKept, <1>2, PTL DEF Spec, DoneStaysDone

=============================================================================
