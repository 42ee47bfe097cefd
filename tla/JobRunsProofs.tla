--------------------------- MODULE JobRunsProofs ---------------------------
(***************************************************************************)
(* Proofs about JobRuns, for every set of jobs and workers, every number   *)
(* of attempts and every lease: the type invariant, the fencing of runs,   *)
(* the bound on automatic attempts, the finality of completion, and that   *)
(* JobRuns implements JobContract.                                         *)
(***************************************************************************)
EXTENDS JobRuns, TLAPS

\* The attempt limits are ordered as the code orders them.
LEMMA Limits ==
  /\ EffectiveAttemptLimit \in Nat
  /\ EffectiveAttemptLimit <= MaxAttempts
  /\ MaxAttempts \in Nat /\ AttemptBound \in Nat
  /\ MaxAttempts <= AttemptBound
  /\ 0 < MaxAttempts /\ 0 < AttemptBound
BY JobRunsAssumptions DEF EffectiveAttemptLimit

\* What a busy worker holds.
LEMMA RunFields ==
  ASSUME SlotTypeOK, NEW w \in Workers, run[w] # NoRun
  PROVE  /\ run[w] \in Runs
         /\ run[w].job \in Jobs
         /\ run[w].attempts \in 0..AttemptBound
         /\ run[w].started \in Stamps
BY DEF SlotTypeOK, Runs

\* Every state the system starts in satisfies the inductive invariant.
LEMMA InitFencing == Init => FencingInv
<1> SUFFICES ASSUME Init PROVE FencingInv
  OBVIOUS
<1>1. recurring \in [Jobs -> BOOLEAN]
  BY DEF Init
<1>2. byHand \in [Jobs -> BOOLEAN]
  BY DEF Init
<1>3. status \in [Jobs -> Statuses] /\ pc \in [Workers -> PCs]
  BY DEF Init, Statuses, PCs
<1>4. attempts \in [Jobs -> 0..AttemptBound] /\ lease \in [Jobs -> 0..LeaseTicks]
  BY JobRunsAssumptions DEF Init
<1>5. \A w \in Workers : pc[w] = "idle" <=> run[w] = NoRun
  BY DEF Init
<1>6. TypeOK
  BY <1>1, <1>2, <1>3, <1>4, <1>5 DEF Init, TypeOK, RowTypeOK, SlotTypeOK, GhostTypeOK
<1>7. RunsTellApart
  BY DEF Init, RunsTellApart, Holds
<1>8. \A j \in Jobs : status[j] = "Pending" /\ attempts[j] = 0
  BY DEF Init
<1>9. RowsConsistent
  BY <1>8, Limits DEF RowsConsistent
<1> QED
  BY <1>6, <1>7, <1>9 DEF FencingInv

-----------------------------------------------------------------------------
(* Types.  What the three writes to a row preserve, then one step per      *)
(* action.                                                                 *)

\* write_target with a terminal status keeps the columns' types.
LEMMA TerminalTyped ==
  ASSUME RowTypeOK, NEW j \in Jobs, NEW st \in Statuses, WriteTerminal(j, st)
  PROVE  RowTypeOK'
BY JobRunsAssumptions DEF RowTypeOK, WriteTerminal

\* So does putting a job back to Pending for a retry,
LEMMA RetryTyped ==
  ASSUME RowTypeOK, NEW j \in Jobs, NEW d \in 0..MaxDelay, WriteRetry(j, d)
  PROVE  RowTypeOK'
BY JobRunsAssumptions DEF RowTypeOK, WriteRetry, Statuses

\* and a reset, whatever it does to the recurring and result columns,
LEMMA ResetTyped ==
  ASSUME RowTypeOK, GhostTypeOK, NEW j \in Jobs, NEW d \in 0..MaxDelay, WriteReset(j, d),
         recurring' \in [Jobs -> BOOLEAN], result' \in [Jobs -> Workers \union {NoWorker}]
  PROVE  RowTypeOK' /\ byHand' \in [Jobs -> BOOLEAN]
<1>1. byHand' \in [Jobs -> BOOLEAN]
  BY DEF GhostTypeOK, WriteReset
<1>2. status' \in [Jobs -> Statuses] /\ started' \in [Jobs -> Stamps \union {NoStamp}]
  BY DEF RowTypeOK, WriteReset, Statuses
<1>3. /\ attempts' \in [Jobs -> 0..AttemptBound]
      /\ lease' \in [Jobs -> 0..LeaseTicks]
      /\ delay' \in [Jobs -> 0..MaxDelay]
  BY JobRunsAssumptions DEF RowTypeOK, WriteReset
<1> QED
  BY <1>1, <1>2, <1>3 DEF RowTypeOK

\* and so does what follows a run, which may also move the clock.
LEMMA AfterRunTyped ==
  ASSUME RowTypeOK, GhostTypeOK, now \in Stamps, NEW j \in Jobs, NEW st \in Statuses,
         AfterRun(j, st)
  PROVE  RowTypeOK' /\ byHand' \in [Jobs -> BOOLEAN] /\ now' \in Stamps
<1>1. CASE WriteTerminal(j, st) /\ UNCHANGED <<now, byHand>>
  BY <1>1, TerminalTyped DEF GhostTypeOK
<1>2. CASE /\ \E d \in 0..MaxDelay : WriteReset(j, d)
           /\ ClockAdvances
           /\ UNCHANGED <<recurring, result>>
  BY <1>2, ResetTyped DEF ClockAdvances, RowTypeOK
<1> QED
  BY <1>1, <1>2 DEF AfterRun

\* A worker that lets go of its run is idle.
LEMMA FreeSlotTyped ==
  ASSUME SlotTypeOK, NEW w \in Workers, SlotFree(w)
  PROVE  SlotTypeOK'
BY DEF SlotTypeOK, SlotFree, PCs

\* A worker that saw its record succeed or fail is idle or records again.
LEMMA ConcludedSlotTyped ==
  ASSUME SlotTypeOK, NEW w \in Workers, Conclude(w)
  PROVE  SlotTypeOK'
<1>1. CASE SlotFree(w)
  BY <1>1, FreeSlotTyped
<1>2. CASE outcome' = [outcome EXCEPT ![w] = "Failed"] /\ UNCHANGED <<pc, run>>
  BY <1>2 DEF SlotTypeOK
<1> QED
  BY <1>1, <1>2 DEF Conclude

\* The ghost owner stays a worker or none.
LEMMA CreditTyped ==
  ASSUME GhostTypeOK, NEW j, NEW w \in Workers \union {NoWorker}, Credit(j, w),
         byHand' \in [Jobs -> BOOLEAN]
  PROVE  GhostTypeOK'
BY DEF GhostTypeOK, Credit

\* A claim counts at most AttemptBound and yields a run.
LEMMA ClaimTyped ==
  ASSUME TypeOK, RowsConsistent, NEW w \in Workers, NEW j \in Jobs, Claim(w, j)
  PROVE  TypeOK'
<1> DEFINE r == [job |-> j, attempts |-> attempts[j] + 1, started |-> now]
<1>1. attempts[j] + 1 \in 0..AttemptBound
  BY Limits DEF TypeOK, RowTypeOK, RowsConsistent, Claim, Runnable
<1>2. r \in Runs /\ r # NoRun
  BY <1>1, JobRunsAssumptions DEF TypeOK, Runs
<1>3. run' = [run EXCEPT ![w] = r]
  BY DEF Claim
<1> HIDE DEF r
<1>4. RowTypeOK'
  BY <1>1, JobRunsAssumptions DEF TypeOK, RowTypeOK, Claim, Statuses
<1>5. SlotTypeOK'
  BY <1>2, <1>3 DEF TypeOK, SlotTypeOK, Claim, PCs
<1>6. GhostTypeOK'
  BY CreditTyped DEF TypeOK, GhostTypeOK, Claim
<1> QED
  BY <1>4, <1>5, <1>6 DEF TypeOK, Claim

\* Every step keeps the types; a claim needs an attempt to count.
LEMMA StepTyped == TypeOK /\ RowsConsistent /\ [Next]_vars => TypeOK'
<1> SUFFICES ASSUME TypeOK, RowsConsistent, [Next]_vars PROVE TypeOK'
  OBVIOUS
<1> USE DEF TypeOK
<1>1. ASSUME NEW w \in Workers, NEW j \in Jobs, Claim(w, j) PROVE TypeOK'
  BY <1>1, ClaimTyped
<1>2. ASSUME NEW w \in Workers, Heartbeat(w) PROVE TypeOK'
  <2>1. RowTypeOK'
    BY <1>2, JobRunsAssumptions DEF Heartbeat, RowTypeOK
  <2>2. SlotTypeOK'
    BY <1>2, FreeSlotTyped DEF Heartbeat, slotVars, SlotTypeOK
  <2> QED
    BY <1>2, <2>1, <2>2 DEF Heartbeat, GhostTypeOK, ghosts
<1>3. ASSUME NEW w \in Workers, StartHeld(w) PROVE TypeOK'
  <2>1. RowTypeOK'
    BY <1>3 DEF StartHeld, RowTypeOK, rowVars
  <2>2. SlotTypeOK'
    BY <1>3 DEF StartHeld, SlotTypeOK, PCs
  <2> QED
    BY <1>3, <2>1, <2>2 DEF StartHeld, GhostTypeOK, ghosts
<1>4. ASSUME NEW w \in Workers, StartClaimedRun(w) PROVE TypeOK'
  <2>1. RowTypeOK'
    BY <1>4, JobRunsAssumptions DEF StartClaimedRun, RowTypeOK
  <2>2. SlotTypeOK'
    BY <1>4, FreeSlotTyped, JobRunsAssumptions DEF StartClaimedRun, SlotTypeOK, Runs, PCs
  <2> QED
    BY <1>4, <2>1, <2>2 DEF StartClaimedRun, GhostTypeOK, ghosts
<1>5. ASSUME NEW w \in Workers, ReleaseJobRun(w) PROVE TypeOK'
  <2>1. RowTypeOK'
    BY <1>5, RunFields, JobRunsAssumptions, Limits DEF ReleaseJobRun, RowTypeOK,
       SlotTypeOK, RowsConsistent, AdmitsRun, Statuses
  <2>2. SlotTypeOK'
    BY <1>5, FreeSlotTyped DEF ReleaseJobRun
  <2>3. GhostTypeOK'
    BY <1>5, CreditTyped DEF ReleaseJobRun, GhostTypeOK
  <2> QED
    BY <1>5, <2>1, <2>2, <2>3 DEF ReleaseJobRun
<1>6. ASSUME NEW w \in Workers, ConfirmHeld(w) PROVE TypeOK'
  <2>1. RowTypeOK'
    BY <1>6, JobRunsAssumptions DEF ConfirmHeld, RowTypeOK
  <2>2. SlotTypeOK'
    BY <1>6, FreeSlotTyped DEF ConfirmHeld, SlotTypeOK, PCs
  <2> QED
    BY <1>6, <2>1, <2>2 DEF ConfirmHeld, GhostTypeOK, ghosts
<1>7. ASSUME NEW w \in Workers, FailHeld(w) PROVE TypeOK'
  <2>1. RowTypeOK'
    BY <1>7, RunFields, TerminalTyped DEF FailHeld, RowTypeOK, SlotTypeOK, rowVars,
       Statuses
  <2>2. SlotTypeOK'
    BY <1>7, FreeSlotTyped DEF FailHeld
  <2>3. GhostTypeOK'
    BY <1>7, CreditTyped DEF FailHeld, GhostTypeOK
  <2> QED
    BY <1>7, <2>1, <2>2, <2>3 DEF FailHeld
<1>8. ASSUME NEW w \in Workers, HandlerEnds(w) PROVE TypeOK'
  <2>1. RowTypeOK'
    BY <1>8 DEF HandlerEnds, RowTypeOK, rowVars
  <2>2. SlotTypeOK'
    BY <1>8 DEF HandlerEnds, SlotTypeOK, PCs
  <2> QED
    BY <1>8, <2>1, <2>2 DEF HandlerEnds, GhostTypeOK, ghosts
<1>9. ASSUME NEW w \in Workers, StoreResult(w) PROVE TypeOK'
  <2>1. RowTypeOK'
    BY <1>9 DEF StoreResult, RowTypeOK
  <2>2. SlotTypeOK'
    BY <1>9 DEF StoreResult, SlotTypeOK, PCs
  <2> QED
    BY <1>9, <2>1, <2>2 DEF StoreResult, GhostTypeOK, ghosts
<1>10. ASSUME NEW w \in Workers, Record(w) PROVE TypeOK'
  <2>1. run[w] # NoRun
    BY <1>10 DEF Record, SlotTypeOK
  <2>2. RowTypeOK' /\ byHand' \in [Jobs -> BOOLEAN] /\ now' \in Stamps
    <3>1. CASE AdmitsRun(run[w]) /\ WriteOutcome(w)
      BY <2>1, <3>1, RunFields, AfterRunTyped, RetryTyped DEF WriteOutcome, GhostTypeOK, Statuses
    <3>2. CASE UNCHANGED <<rowVars, now, byHand>>
      BY <3>2 DEF rowVars, RowTypeOK, GhostTypeOK
    <3> QED
      BY <1>10, <3>1, <3>2 DEF Record
  <2>3. SlotTypeOK'
    BY <1>10, ConcludedSlotTyped DEF Record
  <2> QED
    BY <1>10, <2>2, <2>3 DEF Record, GhostTypeOK
<1>11. ASSUME NEW w \in Workers, RecordError(w) PROVE TypeOK'
  <2>1. RowTypeOK'
    BY <1>11 DEF RecordError, RowTypeOK, rowVars
  <2>2. SlotTypeOK'
    BY <1>11, ConcludedSlotTyped DEF RecordError
  <2> QED
    BY <1>11, <2>1, <2>2 DEF RecordError, GhostTypeOK, ghosts
<1>12. ASSUME NEW w \in Workers, Abandon(w) PROVE TypeOK'
  <2>1. RowTypeOK'
    BY <1>12 DEF Abandon, RowTypeOK, rowVars
  <2>2. SlotTypeOK'
    BY <1>12, FreeSlotTyped DEF Abandon
  <2> QED
    BY <1>12, <2>1, <2>2 DEF Abandon, GhostTypeOK, ghosts
<1>13. ASSUME NEW j \in Jobs, Reap(j) PROVE TypeOK'
  <2>1. RowTypeOK' /\ byHand' \in [Jobs -> BOOLEAN] /\ now' \in Stamps
    BY <1>13, AfterRunTyped, RetryTyped, JobRunsAssumptions DEF Reap, GhostTypeOK,
       Statuses
  <2>2. GhostTypeOK'
    BY <1>13, <2>1, CreditTyped DEF Reap
  <2> QED
    BY <1>13, <2>1, <2>2 DEF Reap, SlotTypeOK, slotVars
<1>14. ASSUME NEW j \in Jobs, NEW tr, NEW st \in Finished, ManualTerminal(j, tr, st) PROVE TypeOK'
  <2>1. RowTypeOK'
    BY <1>14, TerminalTyped DEF ManualTerminal, Statuses, Finished
  <2>2. GhostTypeOK'
    BY <1>14, CreditTyped DEF ManualTerminal, GhostTypeOK
  <2> QED
    BY <1>14, <2>1, <2>2 DEF ManualTerminal, SlotTypeOK, slotVars
<1>15. ASSUME NEW j \in Jobs, RetryJob(j) PROVE TypeOK'
  <2>1. RowTypeOK'
    BY <1>15, RetryTyped DEF RetryJob
  <2>2. byHand' \in [Jobs -> BOOLEAN]
    BY <1>15 DEF RetryJob, GhostTypeOK
  <2>3. GhostTypeOK'
    BY <1>15, <2>2, CreditTyped DEF RetryJob
  <2> QED
    BY <1>15, <2>1, <2>2, <2>3 DEF RetryJob, SlotTypeOK, slotVars
<1>16. ASSUME NEW j \in Jobs, RetryDeadJob(j) PROVE TypeOK'
  <2>1. RowTypeOK' /\ byHand' \in [Jobs -> BOOLEAN]
    BY <1>16, ResetTyped, JobRunsAssumptions DEF RetryDeadJob, RowTypeOK
  <2>2. GhostTypeOK'
    BY <1>16, <2>1, CreditTyped DEF RetryDeadJob
  <2> QED
    BY <1>16, <2>1, <2>2 DEF RetryDeadJob, ClockAdvances, SlotTypeOK, slotVars
<1>17. ASSUME NEW j \in Jobs, RescheduleCronJob(j) PROVE TypeOK'
  <2>1. RowTypeOK' /\ byHand' \in [Jobs -> BOOLEAN]
    BY <1>17, ResetTyped, JobRunsAssumptions DEF RescheduleCronJob, RowTypeOK
  <2>2. GhostTypeOK'
    BY <1>17, <2>1, CreditTyped DEF RescheduleCronJob
  <2> QED
    BY <1>17, <2>1, <2>2 DEF RescheduleCronJob, ClockAdvances, SlotTypeOK, slotVars
<1>18. ASSUME NEW j \in Jobs, DisableRecurringJob(j) PROVE TypeOK'
  <2>1. RowTypeOK'
    BY <1>18 DEF DisableRecurringJob, RowTypeOK
  <2> QED
    BY <1>18, <2>1 DEF DisableRecurringJob, SlotTypeOK, slotVars, GhostTypeOK, ghosts
<1>19. ASSUME NEW j \in Jobs, EnableRecurringJob(j) PROVE TypeOK'
  <2>1. recurring' \in [Jobs -> BOOLEAN]
    BY <1>19 DEF EnableRecurringJob, RowTypeOK
  <2>2. RowTypeOK' /\ byHand' \in [Jobs -> BOOLEAN]
    BY <1>19, <2>1, ResetTyped DEF EnableRecurringJob, RowTypeOK, GhostTypeOK, ghosts
  <2>3. GhostTypeOK'
    BY <1>19, <2>2, CreditTyped DEF EnableRecurringJob, GhostTypeOK, ghosts
  <2> QED
    BY <1>19, <2>1, <2>2, <2>3 DEF EnableRecurringJob, ClockAdvances, SlotTypeOK, slotVars
<1>20. ASSUME NEW j \in Jobs, ArchiveJob(j) PROVE TypeOK'
  <2>1. RowTypeOK'
    BY <1>20 DEF ArchiveJob, RowTypeOK, Statuses
  <2> QED
    BY <1>20, <2>1 DEF ArchiveJob, SlotTypeOK, slotVars, GhostTypeOK, ghosts
<1>21. ASSUME NEW j \in Jobs, RestoreArchivedJob(j) PROVE TypeOK'
  <2>1. result' \in [Jobs -> Workers \union {NoWorker}]
    BY <1>21 DEF RestoreArchivedJob, RowTypeOK
  <2>2. RowTypeOK' /\ byHand' \in [Jobs -> BOOLEAN]
    BY <1>21, <2>1, ResetTyped, JobRunsAssumptions DEF RestoreArchivedJob, RowTypeOK
  <2>3. GhostTypeOK'
    BY <1>21, <2>2, CreditTyped DEF RestoreArchivedJob
  <2> QED
    BY <1>21, <2>1, <2>2, <2>3 DEF RestoreArchivedJob, ClockAdvances, SlotTypeOK, slotVars
<1>22. ASSUME NEW j \in Jobs, DeleteJob(j) PROVE TypeOK'
  <2>1. RowTypeOK'
    BY <1>22, JobRunsAssumptions DEF DeleteJob, RowTypeOK, Statuses
  <2> QED
    BY <1>22, <2>1 DEF DeleteJob, SlotTypeOK, slotVars, GhostTypeOK, ghosts
<1>23. ASSUME Tick PROVE TypeOK'
  <2>1. RowTypeOK'
    BY <1>23, JobRunsAssumptions DEF Tick, RowTypeOK, CountDown
  <2> QED
    BY <1>23, <2>1 DEF Tick, ClockAdvances, SlotTypeOK, slotVars, GhostTypeOK, ghosts
<1>24. ASSUME PauseQueue PROVE TypeOK'
  BY <1>24 DEF PauseQueue, RowTypeOK, rowVars, SlotTypeOK, slotVars, GhostTypeOK, ghosts
<1>25. ASSUME ResumeQueue PROVE TypeOK'
  BY <1>25 DEF ResumeQueue, RowTypeOK, rowVars, SlotTypeOK, slotVars, GhostTypeOK, ghosts
<1>26. CASE UNCHANGED vars
  BY <1>26 DEF vars, RowTypeOK, SlotTypeOK, GhostTypeOK
<1> QED
  BY <1>1, <1>2, <1>3, <1>4, <1>5, <1>6, <1>7, <1>8, <1>9, <1>10, <1>11, <1>12, <1>13,
     <1>14, <1>15, <1>16, <1>17, <1>18, <1>19, <1>20, <1>21, <1>22, <1>23, <1>24, <1>25,
     <1>26 DEF Next, WorkerStep, Proceed, OperatorStep, CompleteJob, FailJob, MarkJobDead,
     MarkJobTimedOut, Finished

-----------------------------------------------------------------------------
(* Claims are counted: a Pending job is below the bound on attempts and a  *)
(* Running one has counted its claim.                                      *)

\* Every step keeps the rows consistent.
LEMMA StepRowsConsistent == TypeOK /\ RowsConsistent /\ [Next]_vars => RowsConsistent'
<1> SUFFICES ASSUME TypeOK, RowsConsistent, [Next]_vars PROVE RowsConsistent'
  OBVIOUS
<1> USE Limits DEF TypeOK, RowsConsistent
<1>1. CASE UNCHANGED <<status, attempts>>
  BY <1>1
<1>2. ASSUME NEW w \in Workers, NEW j \in Jobs, Claim(w, j) PROVE RowsConsistent'
  BY <1>2 DEF Claim, Runnable, RowTypeOK
<1>3. ASSUME NEW j \in Jobs, NEW st \in Statuses \ {"Pending", "Running"},
             status' = [status EXCEPT ![j] = st], attempts' = attempts
      PROVE  RowsConsistent'
  BY <1>3 DEF RowTypeOK
<1>4. ASSUME NEW j \in Jobs, attempts[j] < AttemptBound,
             status' = [status EXCEPT ![j] = "Pending"], attempts' = attempts
      PROVE  RowsConsistent'
  BY <1>4 DEF RowTypeOK
<1>5. ASSUME NEW j \in Jobs, NEW d, WriteReset(j, d) PROVE RowsConsistent'
  BY <1>5 DEF WriteReset, RowTypeOK
<1>6. ASSUME NEW j \in Jobs, NEW st \in Finished, AfterRun(j, st) PROVE RowsConsistent'
  BY <1>6, <1>3, <1>5 DEF AfterRun, WriteTerminal, Finished, Statuses
<1>7. ASSUME NEW w \in Workers, ReleaseJobRun(w) PROVE RowsConsistent'
  BY <1>7, RunFields DEF ReleaseJobRun, SlotTypeOK, RowTypeOK
<1>8. ASSUME NEW w \in Workers, FailHeld(w) PROVE RowsConsistent'
  BY <1>1, <1>3, <1>8, RunFields DEF FailHeld, SlotTypeOK, WriteTerminal, rowVars, Statuses
<1>9. ASSUME NEW w \in Workers, Record(w) PROVE RowsConsistent'
  <2>1. run[w] # NoRun
    BY <1>9 DEF Record, SlotTypeOK
  <2>2. CASE AdmitsRun(run[w]) /\ WriteOutcome(w)
    <3>1. run[w].attempts < EffectiveAttemptLimit => attempts[run[w].job] < AttemptBound
      BY <2>1, <2>2, RunFields DEF AdmitsRun, IsSameRun
    <3> QED
      BY <1>4, <1>6, <2>1, <2>2, <3>1, RunFields DEF WriteOutcome, WriteRetry, Finished
  <2>3. CASE UNCHANGED rowVars
    BY <1>1, <2>3 DEF rowVars
  <2> QED
    BY <1>9, <2>2, <2>3 DEF Record
<1>10. ASSUME NEW j \in Jobs, Reap(j) PROVE RowsConsistent'
  BY <1>4, <1>6, <1>10 DEF Reap, WriteRetry, Finished, RowTypeOK
<1>11. ASSUME NEW j \in Jobs, NEW tr, NEW st \in Finished, ManualTerminal(j, tr, st)
       PROVE  RowsConsistent'
  BY <1>3, <1>11 DEF ManualTerminal, WriteTerminal, Finished, Statuses
<1>12. ASSUME NEW j \in Jobs, OperatorStep(j) PROVE RowsConsistent'
  BY <1>1, <1>3, <1>4, <1>5, <1>11, <1>12
     DEF OperatorStep, CompleteJob, FailJob, MarkJobDead, MarkJobTimedOut, RetryJob,
         RetryDeadJob, RescheduleCronJob, DisableRecurringJob, EnableRecurringJob,
         ArchiveJob, RestoreArchivedJob, DeleteJob, WriteRetry, Finished, Statuses
<1>13. ASSUME NEW w \in Workers, WorkerStep(w) PROVE RowsConsistent'
  BY <1>1, <1>2, <1>7, <1>8, <1>9, <1>13
     DEF WorkerStep, Proceed, Heartbeat, StartHeld, StartClaimedRun, ConfirmHeld,
         HandlerEnds, StoreResult, RecordError, Abandon, rowVars
<1> QED
  BY <1>1, <1>10, <1>12, <1>13 DEF Next, Tick, PauseQueue, ResumeQueue, rowVars, vars

-----------------------------------------------------------------------------
(* Fencing.  Three ways in which a step can touch what tells runs apart,   *)
(* then the three actions of a worker that rewrite the run itself.         *)

\* When the clock moves on, no stored reading equals it.
LEMMA FreshClock ==
  ASSUME NEW w \in Workers, run[w] # NoRun, ClockAdvances
  PROVE  run[w].started # now'
BY DEF ClockAdvances, StoredStamps

\* Rows stay as they are; workers may drop their runs, the clock may move on.
LEMMA RowsUntouched ==
  ASSUME RunsTellApart,
         UNCHANGED <<status, attempts, started, owner>>,
         \A w \in Workers : run'[w] \in {run[w], NoRun},
         now' = now \/ ClockAdvances
  PROVE  RunsTellApart'
<1> SUFFICES ASSUME NEW w \in Workers, NEW j \in Jobs, Holds(w, j)'
             PROVE  /\ status'[j] = "Running" => (owner'[j] = w <=> IsSameRun(run[w])')
                    /\ run'[w].started = now' => run'[w].attempts <= attempts'[j]
                    /\ run'[w].started = now' /\ status'[j] = "Running" /\ owner'[j] # w
                         => run'[w].attempts < attempts'[j]
  BY DEF RunsTellApart
<1>1. Holds(w, j) /\ run'[w] = run[w]
  BY DEF Holds
<1> QED
  BY <1>1, FreshClock DEF RunsTellApart, Holds, IsSameRun

\* One job leaves Running or was not Running; its attempts only change when
\* the clock moves on.
LEMMA NotRunningAfter ==
  ASSUME TypeOK, RunsTellApart, NEW j \in Jobs, NEW st, st # "Running",
         status' = [status EXCEPT ![j] = st],
         \A i \in Jobs \ {j} : /\ attempts'[i] = attempts[i]
                               /\ started'[i] = started[i]
                               /\ owner'[i] = owner[i],
         \A w \in Workers : run'[w] \in {run[w], NoRun},
         \/ now' = now /\ attempts'[j] = attempts[j]
         \/ ClockAdvances
  PROVE  RunsTellApart'
<1> SUFFICES ASSUME NEW w \in Workers, NEW i \in Jobs, Holds(w, i)'
             PROVE  /\ status'[i] = "Running" => (owner'[i] = w <=> IsSameRun(run[w])')
                    /\ run'[w].started = now' => run'[w].attempts <= attempts'[i]
                    /\ run'[w].started = now' /\ status'[i] = "Running" /\ owner'[i] # w
                         => run'[w].attempts < attempts'[i]
  BY DEF RunsTellApart
<1>1. Holds(w, i) /\ run'[w] = run[w]
  BY DEF Holds
<1>2. CASE i = j
  BY <1>1, <1>2, FreshClock DEF RunsTellApart, Holds, TypeOK, RowTypeOK
<1>3. CASE i # j
  BY <1>1, <1>3, FreshClock DEF RunsTellApart, Holds, IsSameRun, TypeOK, RowTypeOK
<1> QED
  BY <1>2, <1>3

\* A claim starts a run that no other worker can mistake for its own.
LEMMA ClaimTellsApart ==
  ASSUME TypeOK, RunsTellApart, NEW w \in Workers, NEW j \in Jobs, Claim(w, j)
  PROVE  RunsTellApart'
<1> DEFINE r == [job |-> j, attempts |-> attempts[j] + 1, started |-> now]
<1>1. /\ run' = [run EXCEPT ![w] = r]
      /\ status' = [status EXCEPT ![j] = "Running"] /\ owner' = [owner EXCEPT ![j] = w]
      /\ attempts' = [attempts EXCEPT ![j] = attempts[j] + 1]
      /\ started' = [started EXCEPT ![j] = now] /\ now' = now
  BY DEF Claim, Credit, TypeOK, RowTypeOK
<1>2. r.job = j /\ r.attempts = attempts[j] + 1 /\ r.started = now
  OBVIOUS
<1> HIDE DEF r
<1> SUFFICES ASSUME NEW v \in Workers, NEW i \in Jobs, Holds(v, i)'
             PROVE  /\ status'[i] = "Running" => (owner'[i] = v <=> IsSameRun(run[v])')
                    /\ run'[v].started = now' => run'[v].attempts <= attempts'[i]
                    /\ run'[v].started = now' /\ status'[i] = "Running" /\ owner'[i] # v
                         => run'[v].attempts < attempts'[i]
  BY DEF RunsTellApart
<1>3. CASE v = w
  <2>1. run'[v] = r /\ i = j
    BY <1>1, <1>2, <1>3 DEF Holds, TypeOK, SlotTypeOK
  <2> QED
    BY <1>1, <1>2, <1>3, <2>1 DEF IsSameRun, TypeOK, RowTypeOK, GhostTypeOK
<1>4. CASE v # w
  <2>1. run'[v] = run[v] /\ Holds(v, i) /\ run[v].attempts \in Nat
    BY <1>1, <1>4, RunFields, Limits DEF Holds, TypeOK, SlotTypeOK
  <2>2. CASE i = j
    BY <1>1, <1>4, <2>1, <2>2 DEF Holds, RunsTellApart, IsSameRun, TypeOK, RowTypeOK, GhostTypeOK
  <2>3. CASE i # j
    BY <1>1, <1>4, <2>1, <2>3 DEF Holds, RunsTellApart, IsSameRun, TypeOK, RowTypeOK, GhostTypeOK
  <2> QED
    BY <2>2, <2>3
<1> QED
  BY <1>3, <1>4

\* Stamping a held run again keeps it apart from runs of the same instant.
LEMMA RestampTellsApart ==
  ASSUME TypeOK, RunsTellApart, NEW w \in Workers, StartClaimedRun(w)
  PROVE  RunsTellApart'
<1>1. run[w] # NoRun
  BY DEF StartClaimedRun, TypeOK, SlotTypeOK
<1>2. CASE ~AdmitsRun(run[w])
  BY <1>2, RowsUntouched DEF StartClaimedRun, SlotFree, TypeOK, SlotTypeOK, ghosts
<1>3. CASE AdmitsRun(run[w])
  <2> DEFINE j == run[w].job
             r == [run[w] EXCEPT !.started = now]
  <2>1. j \in Jobs /\ Holds(w, j) /\ status[j] = "Running" /\ owner[j] = w
        /\ attempts[j] = run[w].attempts
    BY <1>1, <1>3, RunFields DEF RunsTellApart, Holds, AdmitsRun, IsSameRun, TypeOK
  <2>2. r.job = j /\ r.attempts = attempts[j] /\ r.started = now
    BY <1>1, <2>1, RunFields DEF TypeOK, Runs
  <2>3. /\ run' = [run EXCEPT ![w] = r]
        /\ started' = [started EXCEPT ![j] = now]
        /\ UNCHANGED <<status, attempts, owner, now>>
    BY <1>3 DEF StartClaimedRun, ghosts
  <2> HIDE DEF j, r
  <2> SUFFICES ASSUME NEW v \in Workers, NEW i \in Jobs, Holds(v, i)'
               PROVE  /\ status'[i] = "Running" => (owner'[i] = v <=> IsSameRun(run[v])')
                      /\ run'[v].started = now' => run'[v].attempts <= attempts'[i]
                      /\ run'[v].started = now' /\ status'[i] = "Running" /\ owner'[i] # v
                           => run'[v].attempts < attempts'[i]
    BY DEF RunsTellApart
  <2>4. CASE v = w
    <3>1. run'[v] = r /\ i = j
      BY <2>2, <2>3, <2>4 DEF Holds, TypeOK, SlotTypeOK
    <3> QED
      BY <2>1, <2>2, <2>3, <2>4, <3>1 DEF IsSameRun, TypeOK, RowTypeOK, GhostTypeOK
  <2>5. CASE v # w
    <3>1. run'[v] = run[v] /\ Holds(v, i) /\ run[v].attempts \in Nat
      BY <2>3, <2>5, RunFields, Limits DEF Holds, TypeOK, SlotTypeOK
    <3>2. CASE i = j
      BY <2>1, <2>3, <2>5, <3>1, <3>2
         DEF Holds, RunsTellApart, IsSameRun, TypeOK, RowTypeOK
    <3>3. CASE i # j
      BY <2>3, <2>5, <3>1, <3>3 DEF Holds, RunsTellApart, IsSameRun, TypeOK, RowTypeOK
    <3> QED
      BY <3>2, <3>3
  <2> QED
    BY <2>4, <2>5
<1> QED
  BY <1>2, <1>3

\* Handing a claim back lowers attempts within the same instant: the other
\* runs of that instant are older still.
LEMMA ReleaseTellsApart ==
  ASSUME TypeOK, RunsTellApart, RowsConsistent, NEW w \in Workers, ReleaseJobRun(w)
  PROVE  RunsTellApart'
<1>1. run[w] # NoRun /\ run' = [run EXCEPT ![w] = NoRun] /\ now' = now
  BY DEF ReleaseJobRun, SlotFree, TypeOK, SlotTypeOK
<1>2. CASE UNCHANGED <<status, attempts, started, lease, owner>>
  BY <1>1, <1>2, RowsUntouched DEF TypeOK, SlotTypeOK
<1>3. CASE ~UNCHANGED <<status, attempts, started, lease, owner>>
  <2> DEFINE j == run[w].job
  <2>1. AdmitsRun(run[w])
    BY <1>3 DEF ReleaseJobRun
  <2>2. j \in Jobs /\ Holds(w, j) /\ status[j] = "Running" /\ owner[j] = w
    BY <1>1, <2>1, RunFields DEF RunsTellApart, Holds, AdmitsRun, TypeOK
  <2>3. /\ status' = [status EXCEPT ![j] = "Pending"]
        /\ attempts' = [attempts EXCEPT ![j] = attempts[j] - 1]
        /\ started' = [started EXCEPT ![j] = NoStamp]
        /\ owner' = [owner EXCEPT ![j] = NoWorker]
    BY <1>3, <2>2 DEF ReleaseJobRun, Credit, TypeOK, RowTypeOK
  <2> HIDE DEF j
  <2> SUFFICES ASSUME NEW v \in Workers, NEW i \in Jobs, Holds(v, i)'
               PROVE  /\ status'[i] = "Running" => (owner'[i] = v <=> IsSameRun(run[v])')
                      /\ run'[v].started = now' => run'[v].attempts <= attempts'[i]
                      /\ run'[v].started = now' /\ status'[i] = "Running" /\ owner'[i] # v
                           => run'[v].attempts < attempts'[i]
    BY DEF RunsTellApart
  <2>4. v # w /\ run'[v] = run[v] /\ Holds(v, i) /\ run[v].attempts \in Nat
    BY <1>1, RunFields, Limits DEF Holds, TypeOK, SlotTypeOK
  <2>5. CASE i = j
    BY <1>1, <2>2, <2>3, <2>4, <2>5 DEF Holds, RunsTellApart, TypeOK, RowTypeOK, GhostTypeOK
  <2>6. CASE i # j
    BY <1>1, <2>3, <2>4, <2>6
       DEF Holds, RunsTellApart, IsSameRun, TypeOK, RowTypeOK, GhostTypeOK
  <2> QED
    BY <2>5, <2>6
<1> QED
  BY <1>2, <1>3

\* A run's end, whether it reschedules the job or not.
LEMMA AfterRunTellsApart ==
  ASSUME TypeOK, RunsTellApart, NEW j \in Jobs, NEW st \in Finished, AfterRun(j, st),
         \A i \in Jobs \ {j} : owner'[i] = owner[i],
         \A w \in Workers : run'[w] \in {run[w], NoRun}
  PROVE  RunsTellApart'
<1>1. CASE WriteTerminal(j, st) /\ UNCHANGED <<now, byHand>>
  BY <1>1, NotRunningAfter DEF WriteTerminal, Finished
<1>2. CASE /\ \E d \in 0..MaxDelay : WriteReset(j, d)
           /\ ClockAdvances
           /\ UNCHANGED <<recurring, result>>
  BY <1>2, NotRunningAfter DEF WriteReset, TypeOK, RowTypeOK
<1> QED
  BY <1>1, <1>2 DEF AfterRun

\* Every step keeps runs apart.
LEMMA StepTellsApart ==
  TypeOK /\ RunsTellApart /\ RowsConsistent /\ [Next]_vars => RunsTellApart'
<1> SUFFICES ASSUME TypeOK, RunsTellApart, RowsConsistent, [Next]_vars
             PROVE  RunsTellApart'
  OBVIOUS
<1>1. ASSUME NEW w \in Workers, SlotFree(w) \/ Conclude(w)
      PROVE  \A v \in Workers : run'[v] \in {run[v], NoRun}
  BY <1>1 DEF SlotFree, Conclude, TypeOK, SlotTypeOK
<1>2. ASSUME NEW w \in Workers,
             Heartbeat(w) \/ StartHeld(w) \/ ConfirmHeld(w) \/ HandlerEnds(w)
               \/ StoreResult(w) \/ RecordError(w) \/ Abandon(w)
      PROVE  RunsTellApart'
  <2>1. UNCHANGED <<status, attempts, started, owner, now>>
    BY <1>2 DEF Heartbeat, StartHeld, ConfirmHeld, HandlerEnds, StoreResult, RecordError,
                Abandon, rowVars, ghosts
  <2>2. run' = run \/ SlotFree(w) \/ Conclude(w)
    BY <1>2 DEF Heartbeat, StartHeld, ConfirmHeld, HandlerEnds, StoreResult, RecordError,
                Abandon, slotVars
  <2> QED
    BY <1>1, <2>1, <2>2, RowsUntouched
<1>3. ASSUME NEW w \in Workers, FailHeld(w) PROVE RunsTellApart'
  <2>1. run[w].job \in Jobs /\ now' = now /\ \A v \in Workers : run'[v] \in {run[v], NoRun}
    BY <1>1, <1>3, RunFields DEF FailHeld, TypeOK, SlotTypeOK
  <2>2. CASE WriteTerminal(run[w].job, "Failed") /\ Credit(run[w].job, NoWorker)
    BY <2>1, <2>2, NotRunningAfter DEF WriteTerminal, Credit, TypeOK, GhostTypeOK
  <2>3. CASE UNCHANGED <<rowVars, owner>>
    BY <2>1, <2>3, RowsUntouched DEF rowVars
  <2> QED
    BY <1>3, <2>2, <2>3 DEF FailHeld
<1>4. ASSUME NEW w \in Workers, Record(w) PROVE RunsTellApart'
  <2>1. run[w].job \in Jobs /\ owner' = owner /\ \A v \in Workers : run'[v] \in {run[v], NoRun}
    BY <1>1, <1>4, RunFields DEF Record, TypeOK, SlotTypeOK
  <2>2. CASE WriteOutcome(w)
    <3>1. ASSUME NEW d, WriteRetry(run[w].job, d), now' = now PROVE RunsTellApart'
      BY <2>1, <3>1, NotRunningAfter DEF WriteRetry, TypeOK, RowTypeOK
    <3> QED
      BY <2>1, <2>2, <3>1, AfterRunTellsApart DEF WriteOutcome, Finished
  <2>3. CASE UNCHANGED <<rowVars, now, byHand>>
    BY <2>1, <2>3, RowsUntouched DEF rowVars
  <2> QED
    BY <1>4, <2>2, <2>3 DEF Record
<1>5. ASSUME NEW w \in Workers, WorkerStep(w) PROVE RunsTellApart'
  BY <1>2, <1>3, <1>4, <1>5, ClaimTellsApart, RestampTellsApart, ReleaseTellsApart
     DEF WorkerStep, Proceed
<1>6. ASSUME NEW j \in Jobs, Reap(j) PROVE RunsTellApart'
  <2>1. run' = run /\ \A i \in Jobs \ {j} : owner'[i] = owner[i]
    BY <1>6 DEF Reap, Credit, slotVars, TypeOK, GhostTypeOK
  <2>2. ASSUME WriteRetry(j, 0), now' = now PROVE RunsTellApart'
    BY <2>1, <2>2, NotRunningAfter DEF WriteRetry, TypeOK, RowTypeOK
  <2> QED
    BY <1>6, <2>1, <2>2, AfterRunTellsApart DEF Reap, Finished
<1>7. ASSUME NEW j \in Jobs, OperatorStep(j) PROVE RunsTellApart'
  <2>1. run' = run
    BY <1>7 DEF OperatorStep, CompleteJob, FailJob, MarkJobDead, MarkJobTimedOut,
                ManualTerminal, RetryJob, RetryDeadJob, RescheduleCronJob,
                DisableRecurringJob, EnableRecurringJob, ArchiveJob, RestoreArchivedJob,
                DeleteJob, slotVars
  <2>2. ASSUME NEW tr, NEW st \in Finished, ManualTerminal(j, tr, st) PROVE RunsTellApart'
    BY <2>1, <2>2, NotRunningAfter
       DEF ManualTerminal, WriteTerminal, Credit, Finished, TypeOK, GhostTypeOK
  <2>3. ASSUME RetryJob(j) PROVE RunsTellApart'
    BY <2>1, <2>3, NotRunningAfter
       DEF RetryJob, WriteRetry, Credit, TypeOK, RowTypeOK, GhostTypeOK
  <2>4. ASSUME NEW d, WriteReset(j, d), ClockAdvances, Credit(j, NoWorker)
        PROVE  RunsTellApart'
    BY <2>1, <2>4, NotRunningAfter DEF WriteReset, Credit, TypeOK, RowTypeOK, GhostTypeOK
  <2>5. ASSUME DisableRecurringJob(j) \/ (EnableRecurringJob(j) /\ status[j] = "Running")
        PROVE  RunsTellApart'
    BY <2>1, <2>5, RowsUntouched DEF DisableRecurringJob, EnableRecurringJob, ghosts
  <2>6. ASSUME ArchiveJob(j) \/ DeleteJob(j) PROVE RunsTellApart'
    BY <2>1, <2>6, NotRunningAfter DEF ArchiveJob, DeleteJob, ghosts, TypeOK, RowTypeOK
  <2> QED
    BY <1>7, <2>2, <2>3, <2>4, <2>5, <2>6
       DEF OperatorStep, CompleteJob, FailJob, MarkJobDead, MarkJobTimedOut, RetryDeadJob,
           RescheduleCronJob, EnableRecurringJob, RestoreArchivedJob, Finished
<1>8. CASE Tick
  BY <1>8, RowsUntouched DEF Tick, slotVars, ghosts
<1>9. CASE PauseQueue \/ ResumeQueue \/ UNCHANGED vars
  BY <1>9, RowsUntouched DEF PauseQueue, ResumeQueue, rowVars, slotVars, ghosts, vars
<1> QED
  BY <1>5, <1>6, <1>7, <1>8, <1>9 DEF Next

-----------------------------------------------------------------------------
(* The theorems.                                                           *)

\* The inductive invariant of the queue: types, counted claims and runs that
\* can be told apart, whatever workers, the reaper and operators do.
THEOREM FencingInvariant == Spec => []FencingInv
<1>1. FencingInv /\ [Next]_vars => FencingInv'
  BY StepTyped, StepRowsConsistent, StepTellsApart DEF FencingInv
<1> QED
  BY InitFencing, <1>1, PTL DEF Spec

\* Every reachable state is well typed.
THEOREM TypeCorrect == Spec => []TypeOK
<1>1. FencingInv => TypeOK
  BY DEF FencingInv
<1> QED
  BY FencingInvariant, <1>1, PTL

\* Fencing: only the worker that made a job's latest claim is ever accepted
\* by heartbeat_job, start_claimed_run, release_job_run and finish_job_run.
THEOREM Fencing == Spec => []OnlyCurrentRunAdmitted
<1>1. FencingInv => OnlyCurrentRunAdmitted
  <2> SUFFICES ASSUME FencingInv, NEW w \in Workers, run[w] # NoRun, AdmitsRun(run[w])
               PROVE  owner[run[w].job] = w
    BY DEF OnlyCurrentRunAdmitted
  <2>1. run[w].job \in Jobs
    BY RunFields DEF FencingInv, TypeOK
  <2> QED
    BY <2>1 DEF FencingInv, RunsTellApart, Holds, AdmitsRun
<1> QED
  BY FencingInvariant, <1>1, PTL

\* Automatic attempts: every way back to Pending other than retry_job leaves
\* an attempt, so no job is claimed more than max_attempts times by itself.
THEOREM AttemptsBounded == Spec => []AutomaticAttemptsBounded
<1> DEFINE Inv == FencingInv /\ AutomaticAttemptsBounded
<1>1. Init => Inv
  <2> SUFFICES ASSUME Init PROVE AutomaticAttemptsBounded
    BY InitFencing
  <2>1. \A j \in Jobs : attempts[j] = 0
    BY DEF Init
  <2> QED
    BY <2>1, Limits DEF AutomaticAttemptsBounded
<1>2. Inv /\ [Next]_vars => Inv'
  <2> SUFFICES ASSUME FencingInv, AutomaticAttemptsBounded, [Next]_vars
               PROVE  AutomaticAttemptsBounded'
    BY StepTyped, StepRowsConsistent, StepTellsApart DEF FencingInv
  <2> USE Limits DEF FencingInv, TypeOK, RowTypeOK, GhostTypeOK, AutomaticAttemptsBounded
  <2>1. CASE UNCHANGED <<status, attempts, byHand>>
    BY <2>1
  <2>2. ASSUME NEW w \in Workers, NEW j \in Jobs, Claim(w, j)
        PROVE  AutomaticAttemptsBounded'
    BY <2>2 DEF Claim, Runnable
  <2>3. ASSUME NEW j \in Jobs, NEW st \in Statuses \ {"Pending"},
               status' = [status EXCEPT ![j] = st], UNCHANGED <<attempts, byHand>>
        PROVE  AutomaticAttemptsBounded'
    BY <2>3
  <2>4. ASSUME NEW j \in Jobs, NEW d, WriteRetry(j, d), attempts[j] < MaxAttempts,
               byHand' = byHand
        PROVE  AutomaticAttemptsBounded'
    BY <2>4 DEF WriteRetry
  <2>5. ASSUME NEW j \in Jobs, NEW d, WriteReset(j, d) PROVE AutomaticAttemptsBounded'
    BY <2>5 DEF WriteReset
  <2>6. ASSUME NEW j \in Jobs, NEW st \in Finished, AfterRun(j, st)
        PROVE  AutomaticAttemptsBounded'
    BY <2>3, <2>5, <2>6 DEF AfterRun, WriteTerminal, Finished, Statuses
  <2>7. ASSUME NEW w \in Workers, ReleaseJobRun(w) PROVE AutomaticAttemptsBounded'
    BY <2>7, RunFields DEF ReleaseJobRun, SlotTypeOK
  <2>8. ASSUME NEW w \in Workers, FailHeld(w) PROVE AutomaticAttemptsBounded'
    BY <2>1, <2>3, <2>8, RunFields
       DEF FailHeld, SlotTypeOK, WriteTerminal, rowVars, Statuses
  <2>9. ASSUME NEW w \in Workers, Record(w) PROVE AutomaticAttemptsBounded'
    <3>1. run[w].job \in Jobs /\ run[w].attempts \in Nat
      BY <2>9, RunFields DEF Record, SlotTypeOK
    <3>2. CASE AdmitsRun(run[w]) /\ WriteOutcome(w)
      BY <2>4, <2>6, <3>1, <3>2 DEF WriteOutcome, AdmitsRun, IsSameRun, Finished
    <3>3. CASE UNCHANGED <<rowVars, now, byHand>>
      BY <2>1, <3>3 DEF rowVars
    <3> QED
      BY <2>9, <3>2, <3>3 DEF Record
  <2>10. ASSUME NEW j \in Jobs, Reap(j) PROVE AutomaticAttemptsBounded'
    BY <2>4, <2>6, <2>10 DEF Reap, Finished
  <2>11. ASSUME NEW j \in Jobs, RetryJob(j) PROVE AutomaticAttemptsBounded'
    BY <2>11 DEF RetryJob, WriteRetry
  <2>12. ASSUME NEW j \in Jobs, NEW tr, NEW st \in Finished, ManualTerminal(j, tr, st)
         PROVE  AutomaticAttemptsBounded'
    BY <2>3, <2>12 DEF ManualTerminal, WriteTerminal, Finished, Statuses
  <2>13. ASSUME NEW j \in Jobs, OperatorStep(j) PROVE AutomaticAttemptsBounded'
    BY <2>1, <2>3, <2>5, <2>11, <2>12, <2>13
       DEF OperatorStep, CompleteJob, FailJob, MarkJobDead, MarkJobTimedOut, RetryDeadJob,
           RescheduleCronJob, DisableRecurringJob, EnableRecurringJob, ArchiveJob,
           RestoreArchivedJob, DeleteJob, Finished, Statuses, ghosts
  <2>14. ASSUME NEW w \in Workers, WorkerStep(w) PROVE AutomaticAttemptsBounded'
    BY <2>1, <2>2, <2>7, <2>8, <2>9, <2>14
       DEF WorkerStep, Proceed, Heartbeat, StartHeld, StartClaimedRun, ConfirmHeld,
           HandlerEnds, StoreResult, RecordError, Abandon, rowVars, ghosts
  <2> QED
    BY <2>1, <2>10, <2>13, <2>14
       DEF Next, Tick, PauseQueue, ResumeQueue, rowVars, ghosts, vars
<1>3. Inv => AutomaticAttemptsBounded
  OBVIOUS
<1> QED
  BY <1>1, <1>2, <1>3, PTL DEF Spec

\* Completion is final for jobs without a schedule: whichever worker, reaper
\* or operator acts, the row can only be archived or deleted.
THEOREM CompletionFinal == Spec => CompletedIsFinal
<1> DEFINE Final == \A j \in Jobs \ CronJobs :
             status[j] = "Completed" => status'[j] \in {"Completed", "Archived", "Absent"}
<1>1. TypeOK /\ [Next]_vars => [Final]_vars
  <2> SUFFICES ASSUME TypeOK, [Next]_vars,
                      NEW j \in Jobs \ CronJobs, status[j] = "Completed"
               PROVE  status'[j] \in {"Completed", "Archived", "Absent"}
    OBVIOUS
  <2> USE DEF TypeOK, RowTypeOK
  <2>1. ASSUME NEW i \in Jobs, NEW st, status[i] # "Completed",
               status' = [status EXCEPT ![i] = st]
        PROVE  status'[j] = "Completed"
    BY <2>1
  <2>2. ASSUME NEW i \in Jobs, NEW st, status[i] = "Running", AfterRun(i, st)
        PROVE  status'[j] = "Completed"
    BY <2>1, <2>2 DEF AfterRun, WriteTerminal, WriteReset
  <2>3. ASSUME NEW w \in Workers, WorkerStep(w) PROVE status'[j] = "Completed"
    <3>1. pc[w] # "idle" => run[w].job \in Jobs
      BY RunFields DEF SlotTypeOK
    <3>2. ASSUME NEW i \in Jobs, Claim(w, i) PROVE status'[j] = "Completed"
      BY <2>1, <3>2 DEF Claim, Runnable
    <3>3. ASSUME ReleaseJobRun(w) PROVE status'[j] = "Completed"
      BY <2>1, <3>1, <3>3 DEF ReleaseJobRun, AdmitsRun
    <3>4. ASSUME FailHeld(w) PROVE status'[j] = "Completed"
      BY <2>1, <3>1, <3>4 DEF FailHeld, WriteTerminal, AllowedFrom, rowVars
    <3>5. ASSUME Record(w) PROVE status'[j] = "Completed"
      BY <2>1, <2>2, <3>1, <3>5 DEF Record, AdmitsRun, WriteOutcome, WriteRetry, rowVars
    <3> QED
      BY <2>3, <3>2, <3>3, <3>4, <3>5 DEF WorkerStep, Proceed, Heartbeat, StartHeld,
         StartClaimedRun, ConfirmHeld, HandlerEnds, StoreResult, RecordError, Abandon, rowVars
  <2>4. ASSUME NEW i \in Jobs, Reap(i) PROVE status'[j] = "Completed"
    BY <2>1, <2>2, <2>4 DEF Reap, Stale, WriteRetry
  <2>5. ASSUME NEW i \in Jobs, NEW tr \in {"Complete", "Fail", "MarkDead", "MarkTimedOut"},
               NEW st, ManualTerminal(i, tr, st)
        PROVE  status'[j] = "Completed"
    BY <2>1, <2>5 DEF ManualTerminal, WriteTerminal, AllowedFrom
  <2>6. ASSUME NEW i \in Jobs, OperatorStep(i)
        PROVE  status'[j] \in {"Completed", "Archived", "Absent"}
    <3>1. CASE RetryJob(i)
      BY <2>1, <3>1 DEF RetryJob, WriteRetry, AllowedFrom
    <3>2. CASE RetryDeadJob(i)
      BY <2>1, <3>2 DEF RetryDeadJob, WriteReset, AllowedFrom
    <3>3. CASE RescheduleCronJob(i)
      BY <2>1, <3>3 DEF RescheduleCronJob, WriteReset, AllowedFrom
    <3>4. CASE EnableRecurringJob(i)
      BY <3>4 DEF EnableRecurringJob, WriteReset
    <3>5. CASE ArchiveJob(i) \/ DeleteJob(i) \/ DisableRecurringJob(i)
      BY <3>5 DEF ArchiveJob, DeleteJob, DisableRecurringJob
    <3>6. CASE RestoreArchivedJob(i)
      BY <2>1, <3>6 DEF RestoreArchivedJob, WriteReset
    <3> QED
      BY <2>5, <2>6, <3>1, <3>2, <3>3, <3>4, <3>5, <3>6
         DEF OperatorStep, CompleteJob, FailJob, MarkJobDead, MarkJobTimedOut
  <2>7. CASE Tick \/ PauseQueue \/ ResumeQueue \/ UNCHANGED vars
    BY <2>7 DEF Tick, PauseQueue, ResumeQueue, rowVars, vars
  <2> QED
    BY <2>3, <2>4, <2>6, <2>7 DEF Next
<1>2. Spec => [][Final]_vars
  BY TypeCorrect, <1>1, PTL DEF Spec
<1> QED
  BY <1>2 DEF CompletedIsFinal

-----------------------------------------------------------------------------
(* JobRuns implements JobContract: every step of a worker, the reaper, an  *)
(* operator or the clock is a step of the contract or leaves its state     *)
(* unchanged.  The invariant FencingInv is what makes a recorded outcome   *)
(* the step of the job's holder.                                           *)

Phase == [j \in Jobs |-> PhaseOf(status[j])]
Holder == [j \in Jobs |-> HolderOf(j)]
Works == [w \in Workers |-> WorksOn(w)]

\* The phases of the statuses that the steps write.
LEMMA Phases ==
  /\ PhaseOf("Pending") = "waiting"
  /\ PhaseOf("Running") = "running"
  /\ PhaseOf("Absent") = "gone"
  /\ \A st \in Finished \union {"Archived"} : PhaseOf(st) = "finished"
  /\ \A st \in Statuses \ {"Running"} : PhaseOf(st) \in {"waiting", "finished", "gone"}
BY DEF PhaseOf, Finished, Statuses

\* A write that leaves a job in another status than Running settles it.
LEMMA RowSettled ==
  ASSUME RowTypeOK, GhostTypeOK, NEW j \in Jobs, NEW st \in Statuses \ {"Running"},
         status' = [status EXCEPT ![j] = st],
         \A i \in Jobs : i # j => owner'[i] = owner[i]
  PROVE  Contract!Settled(j, PhaseOf(st))
<1>1. \A i \in Jobs : PhaseOf(status[i])' = IF i = j THEN PhaseOf(st) ELSE PhaseOf(status[i])
  BY DEF RowTypeOK
<1>2. \A i \in Jobs : HolderOf(i)' = IF i = j THEN NoWorker ELSE HolderOf(i)
  BY DEF RowTypeOK, HolderOf
<1> QED
  BY <1>1, <1>2 DEF Contract!Settled

\* Crediting a job leaves the owners of the others alone.
LEMMA CreditOthers ==
  ASSUME GhostTypeOK, NEW j \in Jobs, NEW w, Credit(j, w)
  PROVE  \A i \in Jobs : i # j => owner'[i] = owner[i]
BY DEF GhostTypeOK, Credit

\* Rows that keep their status and owner keep their phase and holder.
LEMMA RowsKept ==
  ASSUME UNCHANGED <<status, owner>>
  PROVE  UNCHANGED <<Phase, Holder>>
BY DEF Phase, Holder, HolderOf

\* So do workers whose slots do not change.
LEMMA SlotsKept ==
  ASSUME UNCHANGED <<pc, run>>
  PROVE  UNCHANGED Works
BY DEF Works, WorksOn

\* A slot that becomes free works on nothing.
LEMMA SlotFreed ==
  ASSUME SlotTypeOK, NEW w \in Workers, SlotFree(w)
  PROVE  Works' = [Works EXCEPT ![w] = NoRun]
<1>1. \A v \in Workers : WorksOn(v)' = IF v = w THEN NoRun ELSE WorksOn(v)
  BY DEF SlotTypeOK, SlotFree, WorksOn
<1> QED
  BY <1>1 DEF Works

\* A busy slot works on the job of its run.
LEMMA BusySlot ==
  ASSUME SlotTypeOK, NEW w \in Workers, pc[w] # "idle"
  PROVE  /\ run[w] # NoRun /\ run[w].job \in Jobs
         /\ Works[w].job = run[w].job
         /\ Works[w].started = (pc[w] \notin {"held", "failing"})
         /\ Works[w] # NoRun
<1>1. run[w] # NoRun
  BY DEF SlotTypeOK
<1>2. run[w].job \in Jobs
  BY <1>1, RunFields
<1>3. Works[w] = [job |-> run[w].job, started |-> pc[w] \notin {"held", "failing"}]
  BY <1>1 DEF Works, WorksOn
<1>4. Works[w] \in [job : Jobs, started : BOOLEAN]
  BY <1>2, <1>3
<1>5. Works[w] # NoRun
  BY <1>4, JobRunsAssumptions
<1> QED
  BY <1>1, <1>2, <1>3, <1>5

(* One lemma per step of the contract.                                     *)

Stutter == UNCHANGED <<Phase, Holder, Works>>

\* A slot that becomes free without a write gives up.
LEMMA FreedGivesUp ==
  ASSUME SlotTypeOK, NEW w \in Workers, pc[w] # "idle", SlotFree(w), UNCHANGED <<status, owner>>
  PROVE  Contract!GiveUp(w)
<1>1. Works' = [Works EXCEPT ![w] = NoRun] /\ Works[w] # NoRun
  BY SlotFreed, BusySlot
<1>2. UNCHANGED <<Phase, Holder>>
  BY RowsKept
<1> QED
  BY <1>1, <1>2 DEF Contract!GiveUp, Phase, Holder, Works

\* A row changed by the reaper or an operator is taken away.
LEMMA RowTakenAway ==
  ASSUME RowTypeOK, GhostTypeOK, NEW j \in Jobs, NEW st \in Statuses \ {"Running"},
         status[j] # "Absent", status' = [status EXCEPT ![j] = st],
         \A i \in Jobs : i # j => owner'[i] = owner[i],
         UNCHANGED <<pc, run>>
  PROVE  Contract!TakeAway(j)
<1>1. Contract!Settled(j, PhaseOf(st))
  BY RowSettled
<1>2. PhaseOf(st) \in {"waiting", "finished", "gone"}
  BY Phases
<1>3. UNCHANGED Works
  BY SlotsKept
<1>4. Phase[j] # "gone"
  BY DEF Phase, PhaseOf
<1> QED
  BY <1>1, <1>2, <1>3, <1>4 DEF Contract!TakeAway, Phase, Works

\* A write by the worker that holds the run settles it.
LEMMA HolderSettles ==
  ASSUME FencingInv, NEW w \in Workers, pc[w] # "idle", AdmitsRun(run[w]),
         NEW st \in (Statuses \ {"Running", "Absent"}),
         status' = [status EXCEPT ![run[w].job] = st],
         \A i \in Jobs : i # run[w].job => owner'[i] = owner[i],
         SlotFree(w) \/ UNCHANGED <<pc, run>>
  PROVE  Contract!Settle(w)
<1> DEFINE j == run[w].job
<1>1. j \in Jobs /\ Works[w].job = j /\ Works[w] # NoRun /\ run[w] # NoRun
  BY BusySlot DEF FencingInv, TypeOK
<1>2. status[j] = "Running" /\ owner[j] = w
  BY <1>1 DEF FencingInv, RunsTellApart, Holds, AdmitsRun
<1>3. Phase[j] = "running" /\ Holder[j] = w
  BY <1>1, <1>2, Phases DEF Phase, Holder, HolderOf
<1>4. Contract!Settled(j, PhaseOf(st))
  BY <1>1, RowSettled DEF FencingInv, TypeOK
<1>5. PhaseOf(st) \in {"waiting", "finished"}
  BY DEF PhaseOf
<1>6. Works' = [Works EXCEPT ![w] = NoRun] \/ UNCHANGED Works
  BY SlotFreed, SlotsKept DEF FencingInv, TypeOK
<1> QED
  BY <1>1, <1>3, <1>4, <1>5, <1>6 DEF Contract!Settle, Phase, Holder, Works

\* A claim is a claim.
LEMMA ClaimClaims ==
  ASSUME TypeOK, NEW w \in Workers, NEW j \in Jobs, Claim(w, j)
  PROVE  Contract!Claim(w, j)
<1> DEFINE r == [job |-> j, attempts |-> attempts[j] + 1, started |-> now]
<1> USE DEF TypeOK, RowTypeOK, SlotTypeOK, GhostTypeOK
<1>1. Works[w] = NoRun
  BY DEF Works, WorksOn, Claim
<1>2. Phase[j] = "waiting"
  BY Phases DEF Phase, Claim, Runnable
<1>3. \A i \in Jobs : PhaseOf(status[i])' = IF i = j THEN "running" ELSE PhaseOf(status[i])
  BY Phases DEF Claim
<1>4. \A i \in Jobs : HolderOf(i)' = IF i = j THEN w ELSE HolderOf(i)
  BY DEF Claim, Credit, HolderOf
<1>5. r # NoRun
  <2>1. j \in Jobs /\ attempts[j] + 1 \in Nat /\ now \in Stamps
    BY Limits
  <2> QED
    BY <2>1, JobRunsAssumptions
<1>6. run' = [run EXCEPT ![w] = r] /\ r.job = j
  BY DEF Claim
<1>7. PICK next \in {"held", "handling"} : pc' = [pc EXCEPT ![w] = next]
  BY DEF Claim
<1> HIDE DEF r
<1>8. \A v \in Workers : WorksOn(v)' = IF v = w THEN [job |-> j, started |-> next = "handling"]
                                                ELSE WorksOn(v)
  BY <1>5, <1>6, <1>7 DEF WorksOn
<1>9. Phase' = [Phase EXCEPT ![j] = "running"] /\ Holder' = [Holder EXCEPT ![j] = w]
  BY <1>3, <1>4 DEF Phase, Holder
<1>10. Works' = [Works EXCEPT ![w] = [job |-> j, started |-> next = "handling"]]
  BY <1>8 DEF Works
<1> QED
  BY <1>1, <1>2, <1>9, <1>10 DEF Contract!Claim, Phase, Holder, Works

\* A handler starts: the slot keeps its job.
LEMMA SlotStarts ==
  ASSUME SlotTypeOK, NEW w \in Workers, pc[w] = "held",
         pc' = [pc EXCEPT ![w] = "handling"],
         run' = run \/ run' = [run EXCEPT ![w].started = now],
         run'[w] # NoRun,
         UNCHANGED <<status, owner>>
  PROVE  Contract!Start(w)
<1>1. run[w] # NoRun /\ Works[w] # NoRun /\ Works[w].job = run[w].job
  BY BusySlot
<1>2. run'[w].job = run[w].job /\ \A v \in Workers \ {w} : run'[v] = run[v]
  BY <1>1, RunFields DEF SlotTypeOK, Runs
<1>3. \A v \in Workers : WorksOn(v)' = IF v = w THEN [job |-> run[w].job, started |-> TRUE]
                                                ELSE WorksOn(v)
  BY <1>1, <1>2 DEF SlotTypeOK, WorksOn
<1>4. Works' = [Works EXCEPT ![w] = [job |-> Works[w].job, started |-> TRUE]]
  BY <1>1, <1>3 DEF Works
<1>5. UNCHANGED <<Phase, Holder>>
  BY RowsKept
<1> QED
  BY <1>1, <1>4, <1>5 DEF Contract!Start, Phase, Holder, Works

\* A slot that moves on without starting or ending its handler.
LEMMA SlotMovesOn ==
  ASSUME SlotTypeOK, NEW w \in Workers, NEW next, pc[w] # "idle",
         pc' = [pc EXCEPT ![w] = next],
         next \in {"held", "failing"} <=> pc[w] \in {"held", "failing"},
         UNCHANGED <<run, status, owner>>
  PROVE  Stutter
<1>1. \A v \in Workers : WorksOn(v)' = WorksOn(v)
  BY DEF SlotTypeOK, WorksOn
<1>2. UNCHANGED Works
  BY <1>1 DEF Works
<1> QED
  BY <1>2, RowsKept DEF Stutter

\* What follows a run writes a terminal status or puts the job back.
LEMMA AfterRunWrites ==
  ASSUME NEW j \in Jobs, NEW st \in Finished, AfterRun(j, st)
  PROVE  \E s \in Statuses \ {"Running", "Absent"} : status' = [status EXCEPT ![j] = s]
BY DEF AfterRun, WriteTerminal, WriteReset, Finished, Statuses

\* Every step of a worker is one of the contract.
LEMMA WorkerImplements ==
  ASSUME FencingInv, NEW w \in Workers, WorkerStep(w)
  PROVE  Contract!Next \/ Stutter
<1> DEFINE Step == \/ Contract!Start(w) \/ Contract!Settle(w) \/ Contract!FailUnstarted(w)
                   \/ Contract!GiveUp(w) \/ \E j \in Jobs : Contract!Claim(w, j)
<1> SUFFICES Step \/ Stutter
  BY DEF Contract!Next
<1> USE DEF FencingInv, TypeOK
<1>1. ASSUME NEW j \in Jobs, Claim(w, j) PROVE Step
  BY <1>1, ClaimClaims
<1>2. CASE Heartbeat(w)
  <2>1. CASE UNCHANGED slotVars
    BY <1>2, <2>1, RowsKept, SlotsKept DEF Heartbeat, slotVars, ghosts, Stutter
  <2>2. CASE SlotFree(w)
    BY <1>2, <2>2, FreedGivesUp DEF Heartbeat, ghosts
  <2> QED
    BY <1>2, <2>1, <2>2 DEF Heartbeat
<1>3. CASE StartHeld(w)
  BY <1>3, SlotStarts, BusySlot DEF StartHeld, rowVars, ghosts
<1>4. CASE StartClaimedRun(w)
  <2>1. CASE run' = [run EXCEPT ![w].started = now] /\ pc' = [pc EXCEPT ![w] = "handling"]
    <3>1. run[w] \in Runs /\ run[w] # NoRun
      BY <1>4, BusySlot, RunFields DEF StartClaimedRun
    <3>2. run'[w] \in Runs
      BY <2>1, <3>1 DEF SlotTypeOK, Runs
    <3>3. run'[w] # NoRun
      BY <3>2, JobRunsAssumptions DEF Runs
    <3> QED
      BY <1>4, <2>1, <3>3, SlotStarts DEF StartClaimedRun, ghosts
  <2>2. CASE SlotFree(w)
    BY <1>4, <2>2, FreedGivesUp DEF StartClaimedRun, ghosts
  <2> QED
    BY <1>4, <2>1, <2>2 DEF StartClaimedRun
<1>5. CASE ReleaseJobRun(w)
  <2>1. pc[w] # "idle" /\ run[w].job \in Jobs /\ SlotFree(w)
    BY <1>5, BusySlot DEF ReleaseJobRun
  <2>2. CASE /\ AdmitsRun(run[w])
             /\ status' = [status EXCEPT ![run[w].job] = "Pending"]
             /\ Credit(run[w].job, NoWorker)
    BY <2>1, <2>2, CreditOthers, HolderSettles DEF Statuses
  <2>3. CASE UNCHANGED <<status, owner>>
    BY <2>1, <2>3, FreedGivesUp
  <2> QED
    BY <1>5, <2>2, <2>3 DEF ReleaseJobRun
<1>6. CASE ConfirmHeld(w)
  <2>1. CASE pc' = [pc EXCEPT ![w] = "failing"] /\ UNCHANGED run
    BY <1>6, <2>1, SlotMovesOn DEF ConfirmHeld, ghosts
  <2>2. CASE SlotFree(w)
    BY <1>6, <2>2, FreedGivesUp DEF ConfirmHeld, ghosts
  <2> QED
    BY <1>6, <2>1, <2>2 DEF ConfirmHeld
<1>7. CASE FailHeld(w)
  <2> DEFINE j == run[w].job
  <2>1. /\ pc[w] = "failing" /\ j \in Jobs /\ SlotFree(w)
        /\ Works[w] # NoRun /\ Works[w].job = j /\ ~Works[w].started
    BY <1>7, BusySlot DEF FailHeld
  <2>2. CASE status[j] \in AllowedFrom("Fail") /\ WriteTerminal(j, "Failed") /\ Credit(j, NoWorker)
    <3>1. Contract!Settled(j, PhaseOf("Failed"))
      BY <2>1, <2>2, RowSettled, CreditOthers DEF WriteTerminal, Statuses
    <3>2. PhaseOf("Failed") = "finished"
      BY DEF PhaseOf
    <3>3. status[j] \in {"Pending", "Running"}
      BY <2>2 DEF AllowedFrom
    <3>4. Phase[j] \in {"waiting", "running"}
      BY <2>1, <3>3, Phases DEF Phase
    <3>5. Works' = [Works EXCEPT ![w] = NoRun]
      BY <2>1, SlotFreed
    <3> QED
      BY <2>1, <3>1, <3>2, <3>4, <3>5 DEF Contract!FailUnstarted, Phase, Works
  <2>3. CASE UNCHANGED <<rowVars, owner>>
    BY <2>1, <2>3, FreedGivesUp DEF rowVars
  <2> QED
    BY <1>7, <2>2, <2>3 DEF FailHeld
<1>8. CASE HandlerEnds(w)
  BY <1>8, SlotMovesOn DEF HandlerEnds, rowVars, ghosts
<1>9. CASE StoreResult(w)
  BY <1>9, SlotMovesOn DEF StoreResult, ghosts
<1>10. ASSUME pc[w] # "idle", Conclude(w), UNCHANGED <<status, owner>> PROVE Step \/ Stutter
  BY <1>10, FreedGivesUp, RowsKept, SlotsKept DEF Conclude, Stutter
<1>11. CASE Record(w)
  <2> DEFINE j == run[w].job
  <2>1. pc[w] # "idle" /\ j \in Jobs
    BY <1>11, BusySlot DEF Record
  <2>2. CASE AdmitsRun(run[w]) /\ WriteOutcome(w)
    <3>1. \E st \in Statuses \ {"Running", "Absent"} : status' = [status EXCEPT ![j] = st]
      BY <2>1, <2>2, AfterRunWrites DEF WriteOutcome, WriteRetry, Statuses, Finished
    <3>2. SlotFree(w) \/ UNCHANGED <<pc, run>>
      BY <1>11 DEF Record, Conclude
    <3>3. owner' = owner
      BY <1>11 DEF Record
    <3> QED
      BY <2>1, <2>2, <3>1, <3>2, <3>3, HolderSettles
  <2>3. CASE UNCHANGED <<rowVars, now, byHand>>
    BY <1>10, <1>11, <2>1, <2>3 DEF Record, rowVars
  <2> QED
    BY <1>11, <2>2, <2>3 DEF Record
<1>12. CASE RecordError(w)
  BY <1>10, <1>12 DEF RecordError, rowVars, ghosts
<1>13. CASE Abandon(w)
  BY <1>13, FreedGivesUp DEF Abandon, rowVars, ghosts
<1> QED
  BY <1>1, <1>2, <1>3, <1>4, <1>5, <1>6, <1>7, <1>8, <1>9, <1>11, <1>12, <1>13
  DEF WorkerStep, Proceed

\* So is every step of the reaper and of an operator.
LEMMA RowImplements ==
  ASSUME FencingInv, NEW j \in Jobs, Reap(j) \/ OperatorStep(j)
  PROVE  Contract!TakeAway(j) \/ Stutter
<1> USE DEF FencingInv, TypeOK
<1>1. ASSUME NEW st \in Statuses \ {"Running"}, status[j] # "Absent",
             status' = [status EXCEPT ![j] = st],
             Credit(j, NoWorker) \/ UNCHANGED owner, UNCHANGED slotVars
      PROVE  Contract!TakeAway(j)
  BY <1>1, RowTakenAway, CreditOthers DEF slotVars
<1>2. CASE Reap(j)
  <2>1. \E st \in Statuses \ {"Running", "Absent"} : status' = [status EXCEPT ![j] = st]
    BY <1>2, AfterRunWrites DEF Reap, WriteRetry, Statuses, Finished
  <2> QED
    BY <1>1, <1>2, <2>1 DEF Reap, Stale
<1>3. ASSUME NEW t \in {"Complete", "Fail", "MarkDead", "MarkTimedOut"}, NEW st \in Finished,
             ManualTerminal(j, t, st)
      PROVE  Contract!TakeAway(j)
  <2>1. status[j] # "Absent"
    BY <1>3 DEF ManualTerminal, AllowedFrom
  <2> QED
    BY <1>1, <1>3, <2>1 DEF ManualTerminal, WriteTerminal, Finished, Statuses
<1>4. CASE CompleteJob(j) \/ FailJob(j) \/ MarkJobDead(j) \/ MarkJobTimedOut(j)
  BY <1>3, <1>4 DEF CompleteJob, FailJob, MarkJobDead, MarkJobTimedOut, Finished
<1>5. CASE RetryJob(j)
  <2>1. status[j] # "Absent"
    BY <1>5 DEF RetryJob, AllowedFrom
  <2> QED
    BY <1>1, <1>5, <2>1 DEF RetryJob, WriteRetry, Statuses
<1>6. CASE RetryDeadJob(j)
  <2>1. status[j] # "Absent"
    BY <1>6 DEF RetryDeadJob, AllowedFrom
  <2> QED
    BY <1>1, <1>6, <2>1 DEF RetryDeadJob, WriteReset, Statuses
<1>7. CASE RescheduleCronJob(j)
  <2>1. status[j] # "Absent"
    BY <1>7 DEF RescheduleCronJob, AllowedFrom
  <2> QED
    BY <1>1, <1>7, <2>1 DEF RescheduleCronJob, WriteReset, Statuses
<1>8. CASE DisableRecurringJob(j)
  BY <1>8, RowsKept, SlotsKept DEF DisableRecurringJob, slotVars, ghosts, Stutter
<1>9. CASE EnableRecurringJob(j)
  <2>1. CASE UNCHANGED <<status, attempts, started, lease, delay, now, ghosts>>
    BY <1>9, <2>1, RowsKept, SlotsKept DEF EnableRecurringJob, slotVars, ghosts, Stutter
  <2>2. CASE (\E d \in 0..MaxDelay : WriteReset(j, d)) /\ Credit(j, NoWorker)
    BY <1>1, <1>9, <2>2 DEF EnableRecurringJob, WriteReset, Statuses
  <2> QED
    BY <1>9, <2>1, <2>2 DEF EnableRecurringJob
<1>10. CASE ArchiveJob(j)
  BY <1>1, <1>10 DEF ArchiveJob, Finished, Statuses, ghosts
<1>11. CASE RestoreArchivedJob(j)
  BY <1>1, <1>11 DEF RestoreArchivedJob, WriteReset, Statuses
<1>12. CASE DeleteJob(j)
  BY <1>1, <1>12 DEF DeleteJob, Statuses, ghosts
<1> QED
  BY <1>2, <1>4, <1>5, <1>6, <1>7, <1>8, <1>9, <1>10, <1>11, <1>12 DEF OperatorStep

\* The queue implements its contract, whatever the jobs, workers, attempts,
\* leases and delays (KeepsContract): finish_job_run, release_job_run,
\* heartbeat_job, requeue_stale_jobs and the manual transitions together let
\* nobody but a job's holder settle a started run.
THEOREM ContractKept == Spec => KeepsContract
<1>1. Init => Contract!Init
  <2> SUFFICES ASSUME Init PROVE Contract!Init
    OBVIOUS
  <2>1. \A j \in Jobs : PhaseOf(status[j]) = "waiting" /\ HolderOf(j) = NoWorker
    BY Phases DEF Init, HolderOf
  <2>2. \A w \in Workers : WorksOn(w) = NoRun
    BY DEF Init, WorksOn
  <2> QED
    BY <2>1, <2>2 DEF Contract!Init
<1>2. FencingInv /\ [Next]_vars => [Contract!Next]_(Contract!vars)
  <2> SUFFICES ASSUME FencingInv, [Next]_vars PROVE Contract!Next \/ Stutter
    BY DEF Stutter, Contract!vars, Phase, Holder, Works
  <2>1. ASSUME NEW w \in Workers, WorkerStep(w) PROVE Contract!Next \/ Stutter
    BY <2>1, WorkerImplements
  <2>2. ASSUME NEW j \in Jobs, Reap(j) \/ OperatorStep(j) PROVE Contract!Next \/ Stutter
    BY <2>2, RowImplements DEF Contract!Next
  <2>3. CASE Tick \/ PauseQueue \/ ResumeQueue \/ UNCHANGED vars
    BY <2>3, RowsKept, SlotsKept
    DEF Tick, PauseQueue, ResumeQueue, vars, rowVars, slotVars, ghosts, Stutter
  <2> QED
    BY <2>1, <2>2, <2>3 DEF Next
<1> QED
  BY <1>1, <1>2, FencingInvariant, PTL DEF Spec, KeepsContract, Contract!Spec
=============================================================================
