------------------------------ MODULE JobRuns ------------------------------
(***************************************************************************)
(* The life of a row of hammerwork_jobs and of the runs that workers make  *)
(* of it: claims, leases, heartbeats, recorded outcomes, hand-backs, the   *)
(* stale-job reaper, the manual transitions of an operator, recurring jobs *)
(* and the archive (src/queue/lifecycle.rs, src/queue/postgres.rs and the  *)
(* run-processing half of src/worker.rs).                                  *)
(*                                                                         *)
(* Every SQL statement or transaction of the code locks the row it         *)
(* changes, so it is one action here.  What a worker does between two of   *)
(* its statements is not atomic: its program counter pc[w] says which      *)
(* statement comes next, and run[w] is its private copy of the job as it   *)
(* was claimed, which anything may outdate meanwhile.                      *)
(*                                                                         *)
(* Time is relative.  lease[j] and delay[j] count down the ticks until the *)
(* lease expires and until the job is due.  The clock reading itself only  *)
(* matters through equality (is_same_run compares started_at to within one *)
(* millisecond), so readings are drawn from the finite set Stamps and a    *)
(* reading is used again only when nothing stores it any more.             *)
(***************************************************************************)
EXTENDS Naturals

CONSTANTS
  Jobs,          \* the jobs, all enqueued when the model starts
  CronJobs,      \* those with a cron_schedule
  Workers,       \* job slots of worker processes, each runs one job at a time
  Stamps,        \* clock readings, one millisecond apart
  NoStamp,       \* a NULL started_at
  NoRun,         \* a worker slot that holds no run
  NoWorker,      \* ghost: no run is credited
  MaxAttempts,   \* max_attempts of every job
  AttemptCap,    \* Worker::with_attempt_cap, MaxAttempts or more for none
  AttemptBound,  \* bound: operators retry a job only below this many attempts
  LeaseTicks,    \* ticks until an unrenewed lease has expired
  MaxDelay       \* bound: the longest delay of a retry or a reschedule

ASSUME JobRunsAssumptions ==
  /\ CronJobs \subseteq Jobs
  /\ NoStamp \notin Stamps
  /\ NoRun \notin [job : Jobs, attempts : Nat, started : Stamps]
  /\ NoRun \notin [job : Jobs, started : BOOLEAN]
  /\ NoWorker \notin Workers
  /\ MaxAttempts \in Nat \ {0}
  /\ AttemptCap \in Nat \ {0}
  /\ AttemptBound \in Nat /\ AttemptBound >= MaxAttempts
  /\ LeaseTicks \in Nat \ {0}
  /\ MaxDelay \in Nat

VARIABLES
  status,     \* the row's status; "Archived": in the archive; "Absent": deleted
  attempts,   \* claims counted since the last reset
  started,    \* started_at
  lease,      \* ticks left; 0 for an expired or a NULL lease
  delay,      \* ticks until scheduled_at
  recurring,  \* the recurring column
  result,     \* whose run's data result_data holds
  paused,     \* whether hammerwork_queue_pause holds the queue
  now,        \* the database clock
  pc,         \* what each worker slot does next
  run,        \* the run it claimed, as the claim returned it
  outcome,    \* how the handler ended, while it is not recorded
  owner,      \* ghost: the worker whose run the row stands for
  byHand      \* ghost: the job went back to Pending through retry_job

rowVars == <<status, attempts, started, lease, delay, recurring, result>>
slotVars == <<pc, run, outcome>>
ghosts == <<owner, byHand>>
vars == <<status, attempts, started, lease, delay, recurring, result, paused,
          now, pc, run, outcome, owner, byHand>>

-----------------------------------------------------------------------------
(* Statuses and transitions.                                               *)

Statuses == {"Pending", "Running", "Completed", "Failed", "Dead", "TimedOut",
             "Archived", "Absent"}

Finished == {"Completed", "Failed", "Dead", "TimedOut"}

\* Nothing writes the legacy status Retrying any more, so it is left out.
AllowedFrom(transition) ==
  CASE transition \in {"Complete", "Fail"} -> {"Pending", "Running"}
    [] transition = "Retry"          -> {"Running", "Failed", "TimedOut"}
    [] transition = "MarkDead"       -> {"Pending", "Running", "Failed", "TimedOut"}
    [] transition = "MarkTimedOut"   -> {"Running"}
    [] transition = "RescheduleCron" -> {"Pending", "Running", "Failed", "Dead", "TimedOut"}
    [] transition = "RetryDead"      -> {"Dead", "TimedOut"}

Runs == [job : Jobs, attempts : 0..AttemptBound, started : Stamps]

\* Mutant: the attempts counter alone identifies a run.
IsSameRunByAttempts(r) == attempts[r.job] = r.attempts

\* Whether the row is still the run r was claimed as.
IsSameRun(r) == attempts[r.job] = r.attempts /\ started[r.job] = r.started

\* Mutant: the guard forgets the status.
AdmitsRunAnyStatus(r) == IsSameRun(r)

\* Guard::Run
AdmitsRun(r) == status[r.job] = "Running" /\ IsSameRun(r)

EffectiveAttemptLimit == IF AttemptCap < MaxAttempts THEN AttemptCap ELSE MaxAttempts

Runnable(j) ==
  /\ status[j] = "Pending"
  /\ delay[j] = 0
  /\ recurring[j] \/ j \notin CronJobs
  /\ ~paused

Stale(j) == status[j] = "Running" /\ lease[j] = 0

\* The clock readings something still stores.
StoredStamps == {started[j] : j \in Jobs} \union
                {run[w].started : w \in {v \in Workers : run[v] # NoRun}}

\* The clock moves on to a reading that differs from every stored one.
ClockAdvances == now' \in Stamps \ StoredStamps

-----------------------------------------------------------------------------
(* Writes to a row.  Each also says whose run the row stands for.          *)

Credit(j, w) == owner' = [owner EXCEPT ![j] = w]

\* write_target with a terminal status
WriteTerminal(j, st) ==
  /\ status' = [status EXCEPT ![j] = st]
  /\ lease' = [lease EXCEPT ![j] = 0]
  /\ UNCHANGED <<attempts, started, delay, recurring, result>>

\* write_target with Target::Retry, and the reaper's requeue (d = 0)
WriteRetry(j, d) ==
  /\ status' = [status EXCEPT ![j] = "Pending"]
  /\ delay' = [delay EXCEPT ![j] = d]
  /\ started' = [started EXCEPT ![j] = NoStamp]
  /\ lease' = [lease EXCEPT ![j] = 0]
  /\ UNCHANGED <<attempts, recurring, result>>

\* The columns reschedule_after_run and its manual counterparts share.
WriteReset(j, d) ==
  /\ status' = [status EXCEPT ![j] = "Pending"]
  /\ delay' = [delay EXCEPT ![j] = d]
  /\ attempts' = [attempts EXCEPT ![j] = 0]
  /\ started' = [started EXCEPT ![j] = NoStamp]
  /\ lease' = [lease EXCEPT ![j] = 0]
  /\ byHand' = [byHand EXCEPT ![j] = FALSE]

\* A run ended with terminal status st: a recurring job is rescheduled,
\* unless its schedule has no next occurrence.  The next occurrence lies
\* after the run's start, and so does the clock by the time it is due.
AfterRun(j, st) ==
  \/ /\ WriteTerminal(j, st)
     /\ UNCHANGED <<now, byHand>>
  \/ /\ recurring[j]
     /\ \E d \in 0..MaxDelay : WriteReset(j, d)
     /\ ClockAdvances
     /\ UNCHANGED <<recurring, result>>

-----------------------------------------------------------------------------
(* Worker slots.                                                           *)

SlotFree(w) ==
  /\ pc' = [pc EXCEPT ![w] = "idle"]
  /\ run' = [run EXCEPT ![w] = NoRun]
  /\ outcome' = [outcome EXCEPT ![w] = "none"]

\* Mutant: the claim leaves out a job's last attempt.
ClaimSparesLastAttempt(w, j) ==
  /\ pc[w] = "idle"
  /\ Runnable(j)
  /\ attempts[j] + 1 < MaxAttempts
  /\ status' = [status EXCEPT ![j] = "Running"]
  /\ attempts' = [attempts EXCEPT ![j] = @ + 1]
  /\ started' = [started EXCEPT ![j] = now]
  /\ lease' = [lease EXCEPT ![j] = LeaseTicks]
  /\ run' = [run EXCEPT ![w] = [job |-> j, attempts |-> attempts[j] + 1, started |-> now]]
  /\ pc' = [pc EXCEPT ![w] = "handling"]
  /\ Credit(j, w)
  /\ UNCHANGED <<delay, recurring, result, paused, now, outcome, byHand>>

\* dequeue: a single-job worker starts the handler at once, a batch worker
\* may hold the job until it is its turn.
Claim(w, j) ==
  /\ pc[w] = "idle"
  /\ Runnable(j)
  /\ status' = [status EXCEPT ![j] = "Running"]
  /\ attempts' = [attempts EXCEPT ![j] = @ + 1]
  /\ started' = [started EXCEPT ![j] = now]
  /\ lease' = [lease EXCEPT ![j] = LeaseTicks]
  /\ run' = [run EXCEPT ![w] = [job |-> j, attempts |-> attempts[j] + 1, started |-> now]]
  /\ \E next \in {"held", "handling"} : pc' = [pc EXCEPT ![w] = next]
  /\ Credit(j, w)
  /\ UNCHANGED <<delay, recurring, result, paused, now, outcome, byHand>>

\* heartbeat_job, for a running handler or a held job.  A held job whose
\* lease is lost is never started; a handler keeps running.
Heartbeat(w) ==
  /\ pc[w] \in {"held", "handling"}
  /\ LET j == run[w].job IN
       \/ /\ AdmitsRun(run[w])
          /\ lease' = [lease EXCEPT ![j] = LeaseTicks]
          /\ UNCHANGED slotVars
       \/ /\ ~AdmitsRun(run[w])
          /\ pc[w] = "held"
          /\ SlotFree(w)
          /\ UNCHANGED lease
  /\ UNCHANGED <<status, attempts, started, delay, recurring, result, paused, now, ghosts>>

\* A held job starts with the stamp of its claim: right after the claim, or
\* because the call that records its start failed.
StartHeld(w) ==
  /\ pc[w] = "held"
  /\ pc' = [pc EXCEPT ![w] = "handling"]
  /\ UNCHANGED <<rowVars, paused, now, run, outcome, ghosts>>

\* start_claimed_run: the run is stamped again, or found to be lost.
StartClaimedRun(w) ==
  /\ pc[w] = "held"
  /\ LET j == run[w].job IN
       \/ /\ AdmitsRun(run[w])
          /\ started' = [started EXCEPT ![j] = now]
          /\ lease' = [lease EXCEPT ![j] = LeaseTicks]
          /\ run' = [run EXCEPT ![w].started = now]
          /\ pc' = [pc EXCEPT ![w] = "handling"]
          /\ UNCHANGED outcome
       \/ /\ ~AdmitsRun(run[w])
          /\ SlotFree(w)
          /\ UNCHANGED <<started, lease>>
  /\ UNCHANGED <<status, attempts, delay, recurring, result, paused, now, ghosts>>

\* Mutant: the claim is taken back by the job's id alone.
ReleaseById(w) ==
  /\ pc[w] = "held"
  /\ LET j == run[w].job IN
       /\ status[j] \in {"Pending", "Running"}
       /\ status' = [status EXCEPT ![j] = "Pending"]
       /\ attempts' = [attempts EXCEPT ![j] = @ - 1]
       /\ started' = [started EXCEPT ![j] = NoStamp]
       /\ lease' = [lease EXCEPT ![j] = 0]
       /\ Credit(j, NoWorker)
  /\ SlotFree(w)
  /\ UNCHANGED <<delay, recurring, result, paused, now, byHand>>

\* release_job_run: the claim is taken back, unless the run is lost or the
\* call fails.
ReleaseJobRun(w) ==
  /\ pc[w] = "held"
  /\ LET j == run[w].job IN
       \/ /\ AdmitsRun(run[w])
          /\ status' = [status EXCEPT ![j] = "Pending"]
          /\ attempts' = [attempts EXCEPT ![j] = @ - 1]
          /\ started' = [started EXCEPT ![j] = NoStamp]
          /\ lease' = [lease EXCEPT ![j] = 0]
          /\ Credit(j, NoWorker)
       \/ UNCHANGED <<status, attempts, started, lease, owner>>
  /\ SlotFree(w)
  /\ UNCHANGED <<delay, recurring, result, paused, now, byHand>>

\* fail_held_job, first call: the job's fail-fast batch has failed, so the
\* worker renews the lease to confirm that it still holds the run.  A call
\* that fails is only logged.
ConfirmHeld(w) ==
  /\ pc[w] = "held"
  /\ LET j == run[w].job IN
       \/ /\ AdmitsRun(run[w])
          /\ lease' = [lease EXCEPT ![j] = LeaseTicks]
          /\ pc' = [pc EXCEPT ![w] = "failing"]
          /\ UNCHANGED <<run, outcome>>
       \/ /\ ~AdmitsRun(run[w])
          /\ SlotFree(w)
          /\ UNCHANGED lease
       \/ /\ pc' = [pc EXCEPT ![w] = "failing"]
          /\ UNCHANGED <<lease, run, outcome>>
  /\ UNCHANGED <<status, attempts, started, delay, recurring, result, paused, now, ghosts>>

\* fail_held_job, second call: fail_job, a manual transition that knows the
\* job by its id alone.
FailHeld(w) ==
  /\ pc[w] = "failing"
  /\ LET j == run[w].job IN
       \/ /\ status[j] \in AllowedFrom("Fail")
          /\ WriteTerminal(j, "Failed")
          /\ Credit(j, NoWorker)
       \/ UNCHANGED <<rowVars, owner>>
  /\ SlotFree(w)
  /\ UNCHANGED <<paused, now, byHand>>

\* The handler returns, fails (or panics) or runs out of time.
HandlerEnds(w) ==
  /\ pc[w] = "handling"
  /\ \/ /\ pc' = [pc EXCEPT ![w] = "storing"]
        /\ UNCHANGED outcome
     \/ /\ pc' = [pc EXCEPT ![w] = "recording"]
        /\ \E o \in {"Failed", "TimedOut"} : outcome' = [outcome EXCEPT ![w] = o]
  /\ UNCHANGED <<rowVars, paused, now, run, ghosts>>

\* handle_success before the record: store_job_result writes by id alone and
\* a failing call is only logged; then children are prepared, and a failing
\* spawn handler turns the run into a failed one.
StoreResult(w) ==
  /\ pc[w] = "storing"
  /\ LET j == run[w].job IN
       \/ /\ status[j] \notin {"Archived", "Absent"}
          /\ result' = [result EXCEPT ![j] = w]
       \/ UNCHANGED result
  /\ pc' = [pc EXCEPT ![w] = "recording"]
  /\ \E o \in {"Completed", "Failed"} : outcome' = [outcome EXCEPT ![w] = o]
  /\ UNCHANGED <<status, attempts, started, lease, delay, recurring, paused, now, run, ghosts>>

\* What finish_job_run writes for the outcome of a run it admits.
WriteOutcome(w) ==
  LET j == run[w].job
      attemptsLeft == run[w].attempts < EffectiveAttemptLimit
  IN  \/ outcome[w] = "Completed" /\ AfterRun(j, "Completed")
      \/ /\ outcome[w] # "Completed" /\ attemptsLeft
         /\ \E d \in 0..MaxDelay : WriteRetry(j, d)
         /\ UNCHANGED <<now, byHand>>
      \/ outcome[w] = "Failed" /\ ~attemptsLeft /\ AfterRun(j, "Dead")
      \/ outcome[w] = "TimedOut" /\ ~attemptsLeft /\ AfterRun(j, "TimedOut")

\* The worker is done with the run, or the call that completed it together
\* with its children failed and the worker fails the run instead.
Conclude(w) ==
  \/ SlotFree(w)
  \/ /\ outcome[w] = "Completed"
     /\ outcome' = [outcome EXCEPT ![w] = "Failed"]
     /\ UNCHANGED <<pc, run>>

\* finish_job_run: the outcome is written if the run is still current, and
\* discarded otherwise.  The worker may see an error even though the
\* transaction has committed (a lost connection).
Record(w) ==
  /\ pc[w] = "recording"
  /\ \/ AdmitsRun(run[w]) /\ WriteOutcome(w)
     \/ ~AdmitsRun(run[w]) /\ UNCHANGED <<rowVars, now, byHand>>
  /\ Conclude(w)
  /\ UNCHANGED <<paused, owner>>

\* finish_job_run fails and nothing is written.
RecordError(w) ==
  /\ pc[w] = "recording"
  /\ Conclude(w)
  /\ UNCHANGED <<rowVars, paused, now, ghosts>>

\* The process crashes, or the shutdown grace period ends: the job stays
\* Running until its lease expires.
Abandon(w) ==
  /\ pc[w] # "idle"
  /\ SlotFree(w)
  /\ UNCHANGED <<rowVars, paused, now, ghosts>>

-----------------------------------------------------------------------------
(* The reaper, the clock and the queue.                                    *)

\* Mutant: a job on its last attempt is requeued.
ReapOneTooMany(j) ==
  /\ Stale(j)
  /\ IF attempts[j] > MaxAttempts
       THEN AfterRun(j, "Dead")
       ELSE WriteRetry(j, 0) /\ UNCHANGED <<now, byHand>>
  /\ Credit(j, NoWorker)
  /\ UNCHANGED <<paused, slotVars>>

\* Mutant: a job on its last attempt is left alone.
ReapOnlyRetries(j) ==
  /\ Stale(j)
  /\ attempts[j] < MaxAttempts
  /\ WriteRetry(j, 0)
  /\ Credit(j, NoWorker)
  /\ UNCHANGED <<now, byHand, paused, slotVars>>

\* requeue_stale_jobs, for one of the stale rows.
Reap(j) ==
  /\ Stale(j)
  /\ IF attempts[j] >= MaxAttempts
       THEN AfterRun(j, "Dead")
       ELSE WriteRetry(j, 0) /\ UNCHANGED <<now, byHand>>
  /\ Credit(j, NoWorker)
  /\ UNCHANGED <<paused, slotVars>>

CountDown(n) == IF n = 0 THEN 0 ELSE n - 1

Tick ==
  /\ ClockAdvances
  /\ lease' = [j \in Jobs |-> CountDown(lease[j])]
  /\ delay' = [j \in Jobs |-> CountDown(delay[j])]
  /\ UNCHANGED <<status, attempts, started, recurring, result, paused, slotVars, ghosts>>

PauseQueue == ~paused /\ paused' = TRUE /\ UNCHANGED <<rowVars, now, slotVars, ghosts>>

ResumeQueue == paused /\ paused' = FALSE /\ UNCHANGED <<rowVars, now, slotVars, ghosts>>

-----------------------------------------------------------------------------
(* Operators.  complete_job, fail_job, mark_job_dead, mark_job_timed_out.  *)

ManualTerminal(j, transition, st) ==
  /\ status[j] \in AllowedFrom(transition)
  /\ WriteTerminal(j, st)
  /\ Credit(j, NoWorker)
  /\ UNCHANGED <<paused, now, slotVars, byHand>>

CompleteJob(j) == ManualTerminal(j, "Complete", "Completed")
FailJob(j) == ManualTerminal(j, "Fail", "Failed")
MarkJobDead(j) == ManualTerminal(j, "MarkDead", "Dead")
MarkJobTimedOut(j) == ManualTerminal(j, "MarkTimedOut", "TimedOut")

RetryJob(j) ==
  /\ status[j] \in AllowedFrom("Retry")
  /\ attempts[j] < AttemptBound
  /\ \E d \in 0..MaxDelay : WriteRetry(j, d)
  /\ byHand' = [byHand EXCEPT ![j] = TRUE]
  /\ Credit(j, NoWorker)
  /\ UNCHANGED <<paused, now, slotVars>>

\* An operation that resets attempts commits in a later millisecond than
\* the claims before it (ClockAdvances), which is what makes started_at
\* tell the next run from them.
RetryDeadJob(j) ==
  /\ status[j] \in AllowedFrom("RetryDead")
  /\ WriteReset(j, 0)
  /\ ClockAdvances
  /\ Credit(j, NoWorker)
  /\ UNCHANGED <<recurring, result, paused, slotVars>>

RescheduleCronJob(j) ==
  /\ recurring[j]
  /\ status[j] \in AllowedFrom("RescheduleCron")
  /\ \E d \in 0..MaxDelay : WriteReset(j, d)
  /\ ClockAdvances
  /\ Credit(j, NoWorker)
  /\ UNCHANGED <<recurring, result, paused, slotVars>>

DisableRecurringJob(j) ==
  /\ j \in CronJobs
  /\ status[j] \notin {"Archived", "Absent"}
  /\ recurring' = [recurring EXCEPT ![j] = FALSE]
  /\ UNCHANGED <<status, attempts, started, lease, delay, result, paused, now, slotVars, ghosts>>

EnableRecurringJob(j) ==
  /\ j \in CronJobs
  /\ status[j] \notin {"Archived", "Absent"}
  /\ recurring' = [recurring EXCEPT ![j] = TRUE]
  /\ \/ /\ status[j] = "Running"
        /\ UNCHANGED <<status, attempts, started, lease, delay, now, ghosts>>
     \/ /\ status[j] # "Running"
        /\ \E d \in 0..MaxDelay : WriteReset(j, d)
        /\ ClockAdvances
        /\ Credit(j, NoWorker)
  /\ UNCHANGED <<result, paused, slotVars>>

\* archive_jobs moves finished rows, restore_archived_job brings one back.
ArchiveJob(j) ==
  /\ status[j] \in Finished
  /\ status' = [status EXCEPT ![j] = "Archived"]
  /\ UNCHANGED <<attempts, started, lease, delay, recurring, result, paused, now, slotVars, ghosts>>

RestoreArchivedJob(j) ==
  /\ status[j] = "Archived"
  /\ WriteReset(j, 0)
  /\ result' = [result EXCEPT ![j] = NoWorker]
  /\ ClockAdvances
  /\ Credit(j, NoWorker)
  /\ UNCHANGED <<recurring, paused, slotVars>>

DeleteJob(j) ==
  /\ status[j] # "Absent"
  /\ status' = [status EXCEPT ![j] = "Absent"]
  /\ started' = [started EXCEPT ![j] = NoStamp]
  /\ lease' = [lease EXCEPT ![j] = 0]
  /\ UNCHANGED <<attempts, delay, recurring, result, paused, now, slotVars, ghosts>>

-----------------------------------------------------------------------------
Init ==
  /\ status = [j \in Jobs |-> "Pending"]
  /\ attempts = [j \in Jobs |-> 0]
  /\ started = [j \in Jobs |-> NoStamp]
  /\ lease = [j \in Jobs |-> 0]
  /\ delay \in [Jobs -> 0..MaxDelay]
  /\ recurring = [j \in Jobs |-> j \in CronJobs]
  /\ result = [j \in Jobs |-> NoWorker]
  /\ paused = FALSE
  /\ now \in Stamps
  /\ pc = [w \in Workers |-> "idle"]
  /\ run = [w \in Workers |-> NoRun]
  /\ outcome = [w \in Workers |-> "none"]
  /\ owner = [j \in Jobs |-> NoWorker]
  /\ byHand = [j \in Jobs |-> FALSE]

\* The steps that bring a claimed run nearer to its end.
Proceed(w) ==
  \/ StartHeld(w) \/ StartClaimedRun(w) \/ ReleaseJobRun(w)
  \/ ConfirmHeld(w) \/ FailHeld(w)
  \/ HandlerEnds(w) \/ StoreResult(w) \/ Record(w) \/ RecordError(w)

WorkerStep(w) ==
  \/ \E j \in Jobs : Claim(w, j)
  \/ Heartbeat(w)
  \/ Proceed(w)
  \/ Abandon(w)

OperatorStep(j) ==
  \/ CompleteJob(j) \/ FailJob(j) \/ MarkJobDead(j) \/ MarkJobTimedOut(j)
  \/ RetryJob(j) \/ RetryDeadJob(j)
  \/ RescheduleCronJob(j) \/ DisableRecurringJob(j) \/ EnableRecurringJob(j)
  \/ ArchiveJob(j) \/ RestoreArchivedJob(j) \/ DeleteJob(j)

Next ==
  \/ \E w \in Workers : WorkerStep(w)
  \/ \E j \in Jobs : Reap(j) \/ OperatorStep(j)
  \/ Tick \/ PauseQueue \/ ResumeQueue

Spec == Init /\ [][Next]_vars

\* Worker loops keep polling and never stop in the middle of a run unless
\* they crash, handlers end, the pool's reaper keeps running and time
\* passes.  Nothing is assumed of operators.
Fairness ==
  /\ WF_vars(Tick)
  /\ \A j \in Jobs : WF_vars(Reap(j)) /\ WF_vars(\E w \in Workers : Claim(w, j))
  /\ \A w \in Workers : WF_vars(Proceed(w))

FairSpec == Spec /\ Fairness

-----------------------------------------------------------------------------
(* Properties.                                                             *)

PCs == {"idle", "held", "failing", "handling", "storing", "recording"}

RowTypeOK ==
  /\ status \in [Jobs -> Statuses]
  /\ attempts \in [Jobs -> 0..AttemptBound]
  /\ started \in [Jobs -> Stamps \union {NoStamp}]
  /\ lease \in [Jobs -> 0..LeaseTicks]
  /\ delay \in [Jobs -> 0..MaxDelay]
  /\ recurring \in [Jobs -> BOOLEAN]
  /\ result \in [Jobs -> Workers \union {NoWorker}]

GhostTypeOK ==
  /\ owner \in [Jobs -> Workers \union {NoWorker}]
  /\ byHand \in [Jobs -> BOOLEAN]

SlotTypeOK ==
  /\ pc \in [Workers -> PCs]
  /\ run \in [Workers -> Runs \union {NoRun}]
  /\ outcome \in [Workers -> {"none", "Completed", "Failed", "TimedOut"}]
  /\ \A w \in Workers : pc[w] = "idle" <=> run[w] = NoRun

\* Every variable has its type, and a worker slot holds a run exactly while
\* it is busy.
TypeOK ==
  /\ RowTypeOK /\ SlotTypeOK /\ GhostTypeOK
  /\ paused \in BOOLEAN /\ now \in Stamps

\* Fencing.  The only worker whose heartbeat, hand-back or outcome the queue
\* accepts for a job is the one that made its latest claim: a worker whose
\* job was reaped, changed by an operator or claimed again stays locked out
\* for good, even when the attempts counter starts over (is_same_run,
\* finish_job_run: "a late or zombie worker can never overwrite newer state").
OnlyCurrentRunAdmitted ==
  \A w \in Workers :
    run[w] # NoRun /\ AdmitsRun(run[w]) => owner[run[w].job] = w

\* Why fencing holds, as an inductive invariant.  A worker that still holds
\* its run of a Running job is credited with it exactly while the row is that
\* run; a run claimed in the current millisecond cannot be told from a new
\* claim by started_at, but then its attempts are below those of any claim
\* to come; and a Running job has counted its claim.
Holds(w, j) == run[w] # NoRun /\ run[w].job = j

RunsTellApart ==
  \A w \in Workers, j \in Jobs : Holds(w, j) =>
    /\ status[j] = "Running" => (owner[j] = w <=> IsSameRun(run[w]))
    /\ run[w].started = now => run[w].attempts <= attempts[j]
    /\ run[w].started = now /\ status[j] = "Running" /\ owner[j] # w
         => run[w].attempts < attempts[j]

RowsConsistent ==
  \A j \in Jobs :
    /\ status[j] = "Running" => attempts[j] > 0
    /\ status[j] = "Pending" => attempts[j] < AttemptBound

FencingInv == TypeOK /\ RunsTellApart /\ RowsConsistent

\* Without an operator's retry_job, no job is claimed more than max_attempts
\* times: whoever puts it back to Pending (a failed run, the reaper, a
\* hand-back) leaves it an attempt, whatever the worker's attempt cap.
AutomaticAttemptsBounded ==
  \A j \in Jobs : ~byHand[j] =>
    /\ attempts[j] <= MaxAttempts
    /\ status[j] = "Pending" => attempts[j] < MaxAttempts

\* The contract of the queue in terms of the rows and the worker slots.
PhaseOf(st) ==
  IF st = "Pending" THEN "waiting"
  ELSE IF st = "Running" THEN "running"
  ELSE IF st = "Absent" THEN "gone"
  ELSE "finished"

HolderOf(j) == IF status[j] = "Running" THEN owner[j] ELSE NoWorker

WorksOn(w) ==
  IF run[w] = NoRun THEN NoRun
  ELSE [job |-> run[w].job, started |-> pc[w] \notin {"held", "failing"}]

Contract == INSTANCE JobContract WITH
  NoJob  <- NoRun,
  phase  <- [j \in Jobs |-> PhaseOf(status[j])],
  holder <- [j \in Jobs |-> HolderOf(j)],
  works  <- [w \in Workers |-> WorksOn(w)]

\* The queue keeps its contract: only a claim makes a job run, and only the
\* worker that holds it then settles the run, in every interleaving with the
\* reaper, the operators, other workers and crashes.  (A job that is only
\* held may be failed by its id, see HeldJobFailedOnlyByHolder.)
KeepsContract == Contract!Spec

\* Completion is final for a job without a cron schedule: no late worker, no
\* reaper and no manual transition takes it back, it can only be archived
\* (and restored from there) or deleted.
CompletedIsFinal ==
  [][\A j \in Jobs \ CronJobs :
       status[j] = "Completed" => status'[j] \in {"Completed", "Archived", "Absent"}]_vars

\* A run ends.  Whatever happens to its worker, a Running job does not stay
\* Running: its outcome is recorded, or its lease runs out and the reaper
\* takes it.
RunsEnd == \A j \in Jobs : status[j] = "Running" ~> status[j] # "Running"

\* A job is not left runnable for ever while a worker polls the queue.
RunnableIsClaimed == \A j \in Jobs : ~<>[]Runnable(j)

\* What finish_job_run's documentation promises ("a late or zombie worker
\* can never overwrite newer state"), applied to the result data that
\* handle_success stores just before it: once a run has completed a job, the
\* result on the row changes only when the job leaves Completed.
CompletedResultIsFixed ==
  [][\A j \in Jobs :
       status[j] = "Completed" /\ status'[j] = "Completed" /\ owner[j] # NoWorker
         => result'[j] = result[j]]_vars

\* fail_held_job: "Nothing happens if the job is no longer Running the run
\* this worker claimed."
HeldJobFailedOnlyByHolder ==
  [][\A w \in Workers : FailHeld(w) =>
       LET j == run[w].job IN status'[j] # status[j] => AdmitsRun(run[w])]_vars

=============================================================================
