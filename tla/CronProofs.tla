----------------------------- MODULE CronProofs -----------------------------
(***************************************************************************)
(* For every schedule, scan limit and clock: recurring jobs neither skip   *)
(* an occurrence nor run twice for one.                                    *)
(***************************************************************************)
EXTENDS Cron, FiniteSetTheorems, TLAPS

\* Neither property is inductive: what the end of a run schedules depends on
\* the row of the run, which started no earlier than it was scheduled, and
\* at the instant that counts as the origin.
RunIsAnchored == status = "Running" => started = origin /\ scheduled <= started /\ started <= now

\* NoOccurrenceSkipped without its exception, as a job that is disabled and
\* enabled during a run catches up on what it missed.
NothingJumped ==
  Planned => \A o \in Occurrences : origin < o /\ o < scheduled => scheduled <= now

CronInv == TypeOK /\ RunIsAnchored /\ NothingJumped /\ OncePerOccurrence

\* A run started no earlier than its slot, so the next one is counted from
\* its start.
LEMMA CountedFromStart ==
  ASSUME TypeOK, RunIsAnchored, status = "Running"
  PROVE  CountFrom = origin
  BY CronAssumptions DEF TypeOK, RunIsAnchored, CountFrom, Slot

\* What next_cron_run returns for a run: an instant with an occurrence
\* between it and the start of the run, and none before it that has not
\* passed.
LEMMA NextCronRunBounds ==
  ASSUME TypeOK, CountFrom = origin, NEW t \in NextCronRun
  PROVE  /\ t \in Nat
         /\ \E o \in Occurrences : origin < o /\ o <= t
         /\ \A o \in Occurrences : origin < o /\ o < t => t <= now
<1>1. CASE \E n \in NextExecution(origin) : n > now
  BY <1>1, CronAssumptions DEF TypeOK, NextCronRun, NextExecution
<1>2. CASE /\ ~ \E n \in NextExecution(origin) : n > now
           /\ Cardinality(Missed(origin)) > ScanLimit
  <2>1. t = now
    BY <1>2 DEF NextCronRun
  <2>2. Missed(origin) # {}
    <3>1. SUFFICES ASSUME Missed(origin) = {} PROVE FALSE
      OBVIOUS
    <3>2. Cardinality({}) = 0
      BY FS_EmptySet
    <3>3. 0 > ScanLimit
      BY <1>2, <3>1, <3>2
    <3> QED BY <3>3, CronAssumptions
  <2>3. PICK o \in Missed(origin) : TRUE
    BY <2>2
  <2>4. o \in Occurrences /\ origin < o /\ o <= now
    BY <2>3 DEF Missed
  <2> QED BY <2>1, <2>4, CronAssumptions DEF TypeOK
<1>3. CASE /\ ~ \E n \in NextExecution(origin) : n > now
           /\ ~ (Cardinality(Missed(origin)) > ScanLimit)
  <2>1. t \in Missed(origin)
    BY <1>3 DEF NextCronRun
  <2> QED BY <2>1, CronAssumptions DEF TypeOK, Missed
<1> QED BY <1>1, <1>2, <1>3

LEMMA InitKeeps == Init => CronInv
  BY CronAssumptions
  DEF Init, CronInv, TypeOK, RunIsAnchored, NothingJumped, OncePerOccurrence, Planned,
      NextExecution

\* The end of a run, by the worker or the reaper.
LEMMA EndRunKeeps ==
  ASSUME CronInv, NEW outcome \in {"Completed", "Failed"}, EndRun(outcome)
  PROVE  CronInv'
<1>1. CountFrom = origin
  BY CountedFromStart DEF CronInv, EndRun
<1>2. CASE recurring /\ (\E t \in NextCronRun : ScheduleFor(t)) /\ plan' = "cron"
  <2>1. PICK t \in NextCronRun : ScheduleFor(t)
    BY <1>2
  <2>2. /\ t \in Nat
        /\ \E o \in Occurrences : origin < o /\ o <= t
        /\ \A o \in Occurrences : origin < o /\ o < t => t <= now
    BY <1>1, <2>1, NextCronRunBounds DEF CronInv
  <2> QED
    BY <1>2, <2>1, <2>2, CronAssumptions
    DEF EndRun, ScheduleFor, CronInv, TypeOK, RunIsAnchored, NothingJumped,
        OncePerOccurrence, Planned
<1>3. CASE status' = outcome /\ UNCHANGED <<scheduled, nextRun, started, plan>>
  BY <1>3
  DEF EndRun, CronInv, TypeOK, RunIsAnchored, NothingJumped, OncePerOccurrence, Planned
<1> QED BY <1>2, <1>3 DEF EndRun

LEMMA NextKeeps == CronInv /\ [Next]_vars => CronInv'
<1> SUFFICES ASSUME CronInv, [Next]_vars PROVE CronInv'
  OBVIOUS
<1> USE CronAssumptions
    DEF CronInv, TypeOK, RunIsAnchored, NothingJumped, OncePerOccurrence, Planned
<1>1. CASE Claim
  BY <1>1 DEF Claim
<1>2. CASE StartClaimedRun
  BY <1>2 DEF StartClaimedRun
<1>3. CASE FinishRun \/ ReapDead
  BY <1>3, EndRunKeeps DEF FinishRun, ReapDead
<1>4. CASE BackToQueue
  BY <1>4 DEF BackToQueue
<1>5. CASE RetryByHand
  BY <1>5 DEF RetryByHand
<1>6. CASE EndByHand
  BY <1>6 DEF EndByHand
<1>7. CASE RescheduleCronJob
  BY <1>7 DEF RescheduleCronJob, ScheduleFor
<1>8. CASE DisableRecurringJob
  BY <1>8 DEF DisableRecurringJob
<1>9. CASE EnableRecurringJob
  BY <1>9 DEF EnableRecurringJob, ScheduleFor, NextExecution
<1>10. CASE Tick
  <2>1. off' \subseteq Occurrences
    BY <1>10 DEF Tick
  <2>2. now' \in Nat /\ now <= now' /\ UNCHANGED <<rowVars, origin, plan>>
    BY <1>10 DEF Tick
  <2> QED BY <2>1, <2>2 DEF rowVars
<1>11. CASE UNCHANGED vars
  BY <1>11 DEF vars
<1> QED
  BY <1>1, <1>2, <1>3, <1>4, <1>5, <1>6, <1>7, <1>8, <1>9, <1>10, <1>11 DEF Next, RunStep

\* The inductive invariant of the schedule.
THEOREM CronInvariant == Spec => []CronInv
<1>1. Init => CronInv
  BY InitKeeps
<1>2. CronInv /\ [Next]_vars => CronInv'
  BY NextKeeps
<1> QED BY <1>1, <1>2, PTL DEF Spec

\* No run is scheduled beyond an occurrence that came, or will come, while the
\* job was enabled (next_cron_run, enabled_recurring_next_run,
\* prepare_cron_job).
THEOREM NothingSkipped == Spec => []NoOccurrenceSkipped
<1>1. CronInv => NoOccurrenceSkipped
  BY DEF CronInv, NothingJumped, NoOccurrenceSkipped
<1> QED BY <1>1, CronInvariant, PTL

\* No two scheduled runs stand for the same occurrence: missed ones are
\* coalesced by next_cron_run.
THEOREM NothingTwice == Spec => []OncePerOccurrence
<1>1. CronInv => OncePerOccurrence
  BY DEF CronInv
<1> QED BY <1>1, CronInvariant, PTL
=============================================================================
