-------------------------------- MODULE Cron --------------------------------
(***************************************************************************)
(* When a recurring job runs (next_cron_run in src/queue/lifecycle.rs and  *)
(* the operations that write scheduled_at and next_run_at).                *)
(*                                                                         *)
(* One job whose schedule fires at Occurrences.  JobRuns shows who may end *)
(* a run; here the run is ended by whoever holds it, and what counts is    *)
(* when the next one is due.  The schedule itself (src/cron.rs) is the     *)
(* cron crate's: the next occurrence strictly after an instant.            *)
(***************************************************************************)
EXTENDS Naturals, FiniteSets

CONSTANTS
  Occurrences,  \* the instants of the schedule
  ScanLimit,    \* CRON_CATCH_UP_SCAN_LIMIT
  MaxTime,      \* bound: the clock
  None

ASSUME CronAssumptions ==
  /\ Occurrences \subseteq Nat /\ ScanLimit \in Nat /\ MaxTime \in Nat /\ None \notin Nat

VARIABLES
  now,        \* the database clock
  status,     \* "Pending", "Running", "Completed" or "Failed" (Dead, TimedOut)
  recurring,
  scheduled,  \* scheduled_at
  nextRun,    \* next_run_at, or None
  started,    \* started_at, or None
  origin,     \* ghost: when the last run started, or the schedule was taken up
  plan,       \* ghost: why scheduled is what it is ("cron", "retry", "hand"), or "run"
  off         \* ghost: the occurrences that came while the job was disabled

rowVars == <<status, recurring, scheduled, nextRun, started>>
vars == <<now, status, recurring, scheduled, nextRun, started, origin, plan, off>>

-----------------------------------------------------------------------------
\* next_execution: at most one instant, the first occurrence after t.
NextExecution(t) == {o \in Occurrences : o > t /\ \A p \in Occurrences : p > t => o <= p}

\* The last occurrence that is not in the future.
LatestMissed == {o \in Occurrences : o <= now /\ \A p \in Occurrences : p <= now => p <= o}
Missed(from) == {o \in Occurrences : from < o /\ o <= now}

\* The slot of the run: the earlier of next_run_at and scheduled_at.
Slot == IF nextRun # None /\ nextRun < scheduled THEN nextRun ELSE scheduled

\* Mutant: the next run is computed from the slot of a run that started late.
FromSlot == Slot

\* Mutant: the next run is computed from the time the run ended.
FromEnd == now

\* A run that started after its slot covers what it missed before.
CountFrom == IF started # None /\ started > Slot THEN started ELSE Slot

\* next_cron_run: the next occurrence if it is ahead; otherwise one run for
\* all that passed, at the latest of them or, if they are too many to walk
\* through, now.
NextCronRun ==
  LET from == CountFrom IN
  IF \E n \in NextExecution(from) : n > now THEN NextExecution(from)
  ELSE IF Cardinality(Missed(from)) > ScanLimit THEN {now}
  ELSE Missed(from) \intersect LatestMissed

-----------------------------------------------------------------------------
\* Pending for the occurrence at t.
ScheduleFor(t) ==
  /\ status' = "Pending" /\ scheduled' = t /\ nextRun' = t /\ started' = None

\* The run is over: the next one is scheduled (reschedule_after_run), or the
\* job ends because it was disabled or its schedule has no more occurrences.
EndRun(outcome) ==
  /\ status = "Running"
  /\ \/ /\ recurring
        /\ \E t \in NextCronRun : ScheduleFor(t)
        /\ plan' = "cron"
     \/ /\ ~recurring \/ NextCronRun = {}
        /\ status' = outcome
        /\ UNCHANGED <<scheduled, nextRun, started, plan>>
  /\ UNCHANGED <<now, recurring, origin, off>>

\* finish_run by the worker.
FinishRun == EndRun("Completed") \/ EndRun("Failed")

\* Mutant: a run that dies with its worker is not rescheduled.
ReapDeadForGood ==
  /\ status = "Running" /\ status' = "Failed"
  /\ UNCHANGED <<now, recurring, scheduled, nextRun, started, origin, plan, off>>

\* The reaper, on the last attempt.
ReapDead == EndRun("Failed")

\* claim_sql: due, and a job with a schedule only while it is recurring.
Claim ==
  /\ status = "Pending" /\ recurring /\ scheduled <= now
  /\ status' = "Running" /\ started' = now
  /\ origin' = now /\ plan' = "run"
  /\ UNCHANGED <<now, recurring, scheduled, nextRun, off>>

\* start_claimed_run: a run held in a batch begins.
StartClaimedRun ==
  /\ status = "Running"
  /\ started' = now /\ origin' = now
  /\ UNCHANGED <<now, status, recurring, scheduled, nextRun, plan, off>>

\* The run goes back to the queue: a retry of the worker or the reaper from
\* some instant on, or a run handed back unstarted, whose time stays.
BackToQueue ==
  /\ status = "Running"
  /\ status' = "Pending" /\ started' = None
  /\ scheduled' \in now..MaxTime \union {scheduled}
  /\ plan' = "retry"
  /\ UNCHANGED <<now, recurring, nextRun, origin, off>>

-----------------------------------------------------------------------------
(* Operators.                                                              *)

\* retry_job and retry_dead_job: any instant, the slot stays.
RetryByHand ==
  /\ status \in {"Running", "Failed"}
  /\ status' = "Pending" /\ started' = None
  /\ scheduled' \in 0..MaxTime
  /\ plan' = "hand"
  /\ UNCHANGED <<now, recurring, nextRun, origin, off>>

\* complete_job, fail_job, mark_job_dead: no next run.
EndByHand ==
  /\ status \in {"Pending", "Running"}
  /\ status' \in {"Completed", "Failed"}
  /\ plan' = "hand"
  /\ UNCHANGED <<now, recurring, scheduled, nextRun, started, origin, off>>

RescheduleCronJob ==
  /\ recurring /\ status # "Completed"
  /\ \E t \in 0..MaxTime : ScheduleFor(t)
  /\ plan' = "hand"
  /\ UNCHANGED <<now, recurring, origin, off>>

DisableRecurringJob ==
  /\ recurring \/ nextRun # None
  /\ recurring' = FALSE /\ nextRun' = None
  /\ UNCHANGED <<now, status, scheduled, started, origin, plan, off>>

\* A running job is left to its run; any other waits for the next occurrence,
\* and the call fails when there is none.
EnableRecurringJob ==
  /\ recurring' = TRUE
  /\ \/ /\ status = "Running"
        /\ UNCHANGED <<status, scheduled, nextRun, started, origin, plan>>
     \/ /\ status # "Running"
        /\ \E t \in NextExecution(now) : ScheduleFor(t)
        /\ origin' = now /\ plan' = "cron"
  /\ UNCHANGED <<now, off>>

Tick ==
  /\ now < MaxTime /\ now' = now + 1
  /\ off' = off \union {o \in Occurrences : o = now + 1 /\ ~recurring}
  /\ UNCHANGED <<rowVars, origin, plan>>

-----------------------------------------------------------------------------
\* enqueue_cron_job: the first occurrence after the job was made.
Init ==
  /\ now = 0 /\ origin = 0 /\ plan = "cron" /\ off = {}
  /\ status = "Pending" /\ recurring = TRUE /\ started = None
  /\ scheduled \in NextExecution(0) /\ nextRun = scheduled

RunStep == FinishRun \/ ReapDead \/ BackToQueue

Next ==
  \/ Claim \/ StartClaimedRun \/ RunStep
  \/ RetryByHand \/ EndByHand \/ RescheduleCronJob
  \/ DisableRecurringJob \/ EnableRecurringJob
  \/ Tick

Spec == Init /\ [][Next]_vars

\* Time passes, due jobs are claimed and runs end (JobRuns).
FairSpec == Spec /\ WF_vars(Tick) /\ WF_vars(Claim) /\ WF_vars(RunStep)

-----------------------------------------------------------------------------
(* Properties.                                                             *)

TypeOK ==
  /\ now \in Nat /\ origin \in Nat /\ scheduled \in Nat
  /\ status \in {"Pending", "Running", "Completed", "Failed"}
  /\ recurring \in BOOLEAN
  /\ nextRun \in Nat \union {None} /\ started \in Nat \union {None}
  /\ plan \in {"cron", "retry", "hand", "run"}
  /\ off \subseteq Occurrences

Planned == status = "Pending" /\ plan = "cron"

\* However late a run starts, however long it takes and however often it is
\* retried, no occurrence that came while the job was enabled is jumped over:
\* the job waits for the first one after the start of the run, or is due at
\* once.  Nothing is asked for the occurrences that came while it was disabled.
NoOccurrenceSkipped ==
  Planned => \A o \in Occurrences \ off : origin < o /\ o < scheduled => scheduled <= now

\* What the documentation of enable_recurring_job says: occurrences that came
\* while the job was disabled are not run.  It is not so for a job that is
\* disabled and enabled during a run, whose end catches up on them.
DisabledNotCaughtUp ==
  Planned /\ recurring => \E o \in Occurrences \ off : origin < o /\ o <= scheduled

\* Missed occurrences never pile up: a scheduled run always stands for an
\* occurrence that is later than the start of the run before it.
OncePerOccurrence == Planned => \E o \in Occurrences : origin < o /\ o <= scheduled

\* An occurrence that passes while the job is enabled is followed by the
\* start of a run, unless an operator interferes.
OccurrenceIsServed ==
  \A o \in Occurrences :
    (now >= o /\ origin < o /\ recurring /\ status \in {"Pending", "Running"} /\ plan # "hand")
      ~> (origin >= o \/ ~recurring \/ plan = "hand")
=============================================================================
