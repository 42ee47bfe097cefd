----------------------------- MODULE Workflows -----------------------------
(***************************************************************************)
(* What a job's end does to other jobs: dependents are released or failed, *)
(* the workflow's failure policy and counters and the batch's failure mode *)
(* are applied, spawned children are inserted, all in the transaction that *)
(* ends the job (src/queue/lifecycle.rs after_terminal and its stores in   *)
(* src/queue/postgres.rs, src/workflow.rs, src/batch.rs, src/spawn.rs).    *)
(*                                                                         *)
(* Each action is one transaction.  The transactions of the code lock the  *)
(* job, its workflow and its batch before they read what they decide on,   *)
(* so that they take effect one after the other.  Whether a run may still  *)
(* record its outcome is the subject of JobRuns: here a Running job simply *)
(* ends, through its worker or through the reaper.                         *)
(*                                                                         *)
(* There is one workflow and one batch; jobs in neither stand alone.       *)
(***************************************************************************)
EXTENDS Naturals, FiniteSets

CONSTANTS
  Jobs,
  DependsOn,   \* the jobs each job depends on
  Members,     \* the jobs the workflow is enqueued with
  Children,    \* the jobs the completion of each job may spawn
  BatchJobs,   \* the jobs the batch is enqueued with
  Policies,    \* the workflow's possible failure policies
  Modes,       \* the batch's possible partial failure modes
  MaxManual    \* bound: how often operators intervene

\* Spawned children join the workflow of their parent.  They are new jobs, so
\* that a child has one parent; here they spawn none themselves.
WorkflowJobs == Members \union UNION {Children[j] : j \in Members}

Spawnable == UNION {Children[j] : j \in Jobs}

ASSUME WorkflowsAssumptions ==
  /\ DependsOn \in [Jobs -> SUBSET Jobs]
  /\ Children \in [Jobs -> SUBSET Jobs]
  /\ \A j \in Jobs : \A c \in Children[j] : j \in DependsOn[c] /\ Children[c] = {}
  /\ \A i, j \in Jobs : i # j => Children[i] \intersect Children[j] = {}
  /\ Members \subseteq Jobs /\ BatchJobs \subseteq Jobs \ WorkflowJobs
  /\ Spawnable \intersect (Members \union BatchJobs) = {}
  /\ \A j \in Members : DependsOn[j] \subseteq Members
  /\ IsFiniteSet(Jobs)
  /\ Policies \subseteq {"FailFast", "ContinueOnFailure", "Manual"}
  /\ Modes \subseteq {"ContinueOnError", "CollectErrors", "FailFast"}
  /\ MaxManual \in Nat

VARIABLES
  place,     \* "unborn", in the "table", in the "archive" or "gone"
  status,    \* status, in the table or as archived
  dep,       \* dependency_status
  workflow,  \* the hammerwork_workflows row
  policy,    \* its failure_policy
  batch,     \* the hammerwork_batches row
  mode,      \* its failure_mode
  manual,    \* operator interventions so far
  everDone,  \* ghost: the jobs that have completed at least once
  reopened,  \* ghost: the jobs retry_job or restore_archived_job put back
  revived,   \* ghost: the jobs retry_dead_job put back
  stillborn, \* ghost: the jobs enqueued as failed when others waited for them already
  unheard    \* ghost: jobs of the batch were failed since its row was last looked at

ghostVars == <<everDone, reopened, revived, stillborn, unheard>>
vars == <<place, status, dep, workflow, policy, batch, mode, manual, ghostVars>>

-----------------------------------------------------------------------------
Finished == {"Completed", "Failed", "Dead", "TimedOut"}
FailedStatuses == {"Failed", "Dead", "TimedOut"}

AllowedFrom(transition) ==
  CASE transition \in {"Complete", "Fail"} -> {"Pending", "Running"}
    [] transition = "Retry"        -> {"Running", "Failed", "TimedOut"}
    [] transition = "MarkDead"     -> {"Pending", "Running", "Failed", "TimedOut"}
    [] transition = "MarkTimedOut" -> {"Running"}
    [] transition = "RetryDead"    -> {"Dead", "TimedOut"}

OnTable(j) == place[j] = "table"
Kept(j) == place[j] \in {"table", "archive"}

\* The least set that holds every job of eligible depending on a job of
\* seeds or on one that is itself in the set.
Reached(eligible, seeds) ==
  LET Closed(F) == \A i \in eligible :
                     DependsOn[i] \intersect (F \union seeds) # {} => i \in F
  IN  {i \in eligible : \A F \in SUBSET eligible : Closed(F) => i \in F}

SetAll(f, S, v) == [i \in Jobs |-> IF i \in S THEN v ELSE f[i]]

\* A job row as the rest of a transaction sees it: st and dp are the status
\* and dependency status columns at that point.

\* Mutant: one completed dependency is enough.
ResolveAnyDependent(j, st, dp) ==
  SetAll(dp, {i \in Jobs : OnTable(i) /\ j \in DependsOn[i] /\ dp[i] = "waiting"
                           /\ st[i] = "Pending"},
         "satisfied")

\* resolve_dependents: waiting dependents of j whose dependencies have all
\* completed are satisfied.
ResolveDependents(j, st, dp) ==
  SetAll(dp, {i \in Jobs : /\ OnTable(i) /\ j \in DependsOn[i]
                           /\ dp[i] = "waiting" /\ st[i] = "Pending"
                           /\ \A d \in DependsOn[i] : Kept(d) /\ st[d] = "Completed"},
         "satisfied")

\* Mutant: the failure does not travel down chains of dependents.
FailDirectDependents(j, st, dp) ==
  {i \in Jobs : /\ OnTable(i) /\ st[i] = "Pending" /\ dp[i] \in {"waiting", "satisfied"}
                /\ j \in DependsOn[i]}

\* fail_dependents: the pending jobs that transitively depend on j.
FailDependents(j, st, dp) ==
  Reached({i \in Jobs : OnTable(i) /\ st[i] = "Pending" /\ dp[i] \in {"waiting", "satisfied"}},
          {j})

\* The job's own row names its workflow.
InWorkflow(j) == OnTable(j) /\ j \in WorkflowJobs

\* apply_failure_policy: the columns after j has failed.
ApplyFailurePolicy(j, st, dp) ==
  LET stopped == IF InWorkflow(j) /\ policy = "FailFast"
                   THEN {i \in WorkflowJobs \ {j} : OnTable(i) /\ st[i] = "Pending"}
                   ELSE {}
      st1 == SetAll(st, stopped, "Failed")
      dp1 == SetAll(dp, {i \in stopped : dp[i] = "waiting"}, "failed")
      failed == IF InWorkflow(j) /\ policy = "Manual"
                  THEN {} ELSE FailDependents(j, st1, dp1)
  IN  [status |-> SetAll(st1, failed, "Failed"), dep |-> SetAll(dp1, failed, "failed")]

\* WorkflowProgress::status
ProgressStatus(completed, failed, total, current) ==
  IF current = "Cancelled" THEN "Cancelled"
  ELSE IF total > 0 /\ completed >= total THEN "Completed"
  ELSE IF failed > 0 /\ (policy = "FailFast" \/ completed + failed >= total) THEN "Failed"
  ELSE "Running"

Count(S, st, kept, values) == Cardinality({i \in S \intersect kept : st[i] \in values})

\* refresh_workflow, with the jobs of kept stored in the table or the archive
RefreshWorkflow(st, kept, total) ==
  LET completed == Count(WorkflowJobs, st, kept, {"Completed"})
      failed == Count(WorkflowJobs, st, kept, FailedStatuses)
  IN  [status |-> ProgressStatus(completed, failed, total, workflow.status),
       total |-> total, completed |-> completed, failed |-> failed]

KeptJobs == {i \in Jobs : Kept(i)}

RefreshWorkflowOf(j, st) ==
  IF InWorkflow(j) THEN RefreshWorkflow(st, KeptJobs, workflow.total) ELSE workflow

\* Mutant: a batch with a failure never counts as finished.
BatchProgressOffByOne(st) ==
  LET total == Cardinality(BatchJobs)
      completed == Count(BatchJobs, st, KeptJobs, {"Completed"})
      failed == Count(BatchJobs, st, KeptJobs, FailedStatuses)
  IN  [completed |-> completed, failed |-> failed,
       pending |-> Count(BatchJobs, st, KeptJobs, {"Pending", "Running"}),
       status |-> IF failed > 0 /\ mode = "FailFast" THEN "Failed"
                  ELSE IF completed >= total THEN "Completed"
                  ELSE IF failed >= total THEN "Failed"
                  ELSE IF completed + failed > total THEN "PartiallyFailed"
                  ELSE IF completed + failed = 0 THEN "Pending" ELSE "Processing"]

\* BatchProgress::from_status_counts
BatchProgress(st) ==
  LET total == Cardinality(BatchJobs)
      completed == Count(BatchJobs, st, KeptJobs, {"Completed"})
      failed == Count(BatchJobs, st, KeptJobs, FailedStatuses)
  IN  [completed |-> completed, failed |-> failed,
       pending |-> Count(BatchJobs, st, KeptJobs, {"Pending", "Running"}),
       status |-> IF failed > 0 /\ mode = "FailFast" THEN "Failed"
                  ELSE IF completed >= total THEN "Completed"
                  ELSE IF failed >= total THEN "Failed"
                  ELSE IF completed + failed >= total THEN "PartiallyFailed"
                  ELSE IF completed + failed = 0 THEN "Pending" ELSE "Processing"]

\* apply_batch_outcome after j has ended with status end: the status column
\* and the batch row.
ApplyBatchOutcome(j, end, st) ==
  LET failFast == end # "Completed" /\ mode = "FailFast"
      cancelled == IF failFast THEN {i \in BatchJobs : OnTable(i) /\ st[i] = "Pending"} ELSE {}
      st1 == SetAll(st, cancelled, "Failed")
      unfinished == \E i \in BatchJobs : OnTable(i) /\ st1[i] \in {"Pending", "Running"}
  IN  IF j \notin BatchJobs \/ batch.status = "Absent" THEN [status |-> st, batch |-> batch]
      ELSE [status |-> st1,
            batch |-> IF ~unfinished \/ failFast THEN BatchProgress(st1)
                      ELSE IF batch.status = "Pending" THEN [batch EXCEPT !.status = "Processing"]
                      ELSE batch]

\* Mutant: the workflow is refreshed before its failure policy is applied.
RefreshBeforePolicy(j, end) ==
  LET st0 == [status EXCEPT ![j] = end]
      s1 == IF end = "Completed" THEN [status |-> st0, dep |-> ResolveDependents(j, st0, dep)]
            ELSE ApplyFailurePolicy(j, st0, dep)
      ended == ApplyBatchOutcome(j, end, s1.status)
  IN  [status |-> ended.status, dep |-> s1.dep, batch |-> ended.batch,
       workflow |-> RefreshWorkflowOf(j, st0)]

\* transition_in_tx to the terminal status end, and after_terminal: the
\* columns and rows the transaction leaves behind.
AfterTerminal(j, end) ==
  LET st0 == [status EXCEPT ![j] = end]
      s1 == IF end = "Completed" THEN [status |-> st0, dep |-> ResolveDependents(j, st0, dep)]
            ELSE ApplyFailurePolicy(j, st0, dep)
      ended == ApplyBatchOutcome(j, end, s1.status)
  IN  [status |-> ended.status, dep |-> s1.dep, batch |-> ended.batch,
       workflow |-> RefreshWorkflowOf(j, s1.status)]

\* ParentState of a dependency outside the jobs being inserted
ParentCompleted(p, st) == Kept(p) /\ st[p] = "Completed"

ParentFailed(p, st) ==
  /\ st[p] \in FailedStatuses
  /\ place[p] = "archive" \/ (OnTable(p) /\ ~(p \in WorkflowJobs /\ policy = "Manual"))

\* The dependency status a job is built with.  A spawned child without
\* dependencies of its own gets its parent without being marked waiting.
BuiltDep(i) ==
  IF DependsOn[i] = {} \/ \E j \in Jobs : i \in Children[j] /\ DependsOn[i] = {j}
    THEN "none" ELSE "waiting"

\* Mutant: a job enqueued after its dependencies completed is left waiting.
InsertUnsettled(new, st, dp) ==
  [status |-> SetAll(st, new, "Pending"),
   dep |-> [i \in Jobs |-> IF i \in new THEN BuiltDep(i) ELSE dp[i]]]

\* insert_dependent_jobs and settle_new_dependents: the columns with the
\* jobs of new in the table.
InsertJobs(new, st, dp) ==
  LET waiting == {i \in new : BuiltDep(i) = "waiting"}
      failedParents == {p \in Jobs \ new : ParentFailed(p, st)}
      failed == Reached(waiting, failedParents)
      ready == {i \in waiting : \A p \in DependsOn[i] : p \notin new /\ ParentCompleted(p, st)}
      built == [i \in Jobs |-> IF i \in new THEN BuiltDep(i) ELSE dp[i]]
  IN  [status |-> SetAll(SetAll(st, new, "Pending"), failed, "Failed"),
       dep |-> SetAll(SetAll(built, ready, "satisfied"), failed, "failed")]

\* reevaluate_dependencies: the statuses a job can be put back with by hand,
\* none when one of its dependencies can no longer complete.
ReevaluatedDeps(j) ==
  CASE DependsOn[j] = {} -> {"none"}
    [] dep[j] = "satisfied" -> {"satisfied"}
    [] OTHER -> IF \E d \in DependsOn[j] : ~Kept(d) \/ status[d] \in FailedStatuses THEN {}
                ELSE IF \A d \in DependsOn[j] : status[d] = "Completed" THEN {"satisfied"}
                ELSE {"waiting"}

-----------------------------------------------------------------------------
(* Enqueueing.                                                             *)

Born(new) == [i \in Jobs |-> IF i \in new THEN "table" ELSE place[i]]

\* The jobs of new that are failed by then and already waited for.
Stillborn(new, st) ==
  {d \in new : st[d] = "Failed" /\ \E i \in Jobs \ new : OnTable(i) /\ d \in DependsOn[i]}

EnqueueWorkflow ==
  /\ workflow.status = "Absent" /\ Members # {}
  /\ LET s == InsertJobs(Members, status, dep) IN
       status' = s.status /\ dep' = s.dep
  /\ place' = Born(Members)
  /\ stillborn' = stillborn \union Stillborn(Members, status')
  /\ workflow' = [status |-> "Running", total |-> Cardinality(Members),
                  completed |-> 0, failed |-> 0]
  /\ UNCHANGED <<policy, batch, mode, manual, everDone, reopened, revived, unheard>>

EnqueueBatch ==
  /\ batch.status = "Absent" /\ BatchJobs # {} /\ \A j \in BatchJobs : place[j] = "unborn"
  /\ LET s == InsertJobs(BatchJobs, status, dep) IN
       status' = s.status /\ dep' = s.dep
  /\ place' = Born(BatchJobs)
  /\ stillborn' = stillborn \union Stillborn(BatchJobs, status')
  /\ batch' = [status |-> "Pending", completed |-> 0, failed |-> 0,
               pending |-> Cardinality(BatchJobs)]
  /\ unheard' = \E i \in BatchJobs : status'[i] = "Failed"
  /\ UNCHANGED <<workflow, policy, mode, manual, everDone, reopened, revived>>

\* enqueue, for a job that stands alone.  The jobs it depends on may be
\* enqueued later, and may be finished, archived or deleted by now.
Enqueue(j) ==
  /\ j \notin Members \union BatchJobs \union Spawnable
  /\ place[j] = "unborn"
  /\ LET s == InsertJobs({j}, status, dep) IN
       status' = s.status /\ dep' = s.dep
  /\ place' = Born({j})
  /\ stillborn' = stillborn \union Stillborn({j}, status')
  /\ UNCHANGED <<workflow, policy, batch, mode, manual, everDone, reopened, revived, unheard>>

-----------------------------------------------------------------------------
(* Runs.                                                                   *)

Claim(j) ==
  /\ OnTable(j) /\ status[j] = "Pending" /\ dep[j] \in {"none", "satisfied"}
  /\ status' = [status EXCEPT ![j] = "Running"]
  /\ UNCHANGED <<place, dep, workflow, policy, batch, mode, manual, ghostVars>>

\* Jobs of the batch fail together with a job outside it, or the batch hears
\* of the end of one of its own.
BehindItsBack == \E i \in BatchJobs : status'[i] # status[i]
Heard(j) == unheard' = (j \notin BatchJobs /\ (unheard \/ BehindItsBack))

\* A terminal transition of j and all it entails.
Terminate(j, end) ==
  /\ LET s == AfterTerminal(j, end) IN
       /\ status' = s.status /\ dep' = s.dep
       /\ workflow' = s.workflow /\ batch' = s.batch
  /\ everDone' = IF end = "Completed" THEN everDone \union {j} ELSE everDone
  /\ stillborn' = stillborn \ {j} /\ Heard(j)
  /\ UNCHANGED <<place, policy, mode, reopened, revived>>

\* finish_job_run, or the reaper for a job on its last attempt
FinishRun(j) ==
  /\ OnTable(j) /\ status[j] = "Running"
  /\ \E end \in {"Completed", "Dead", "TimedOut"} : Terminate(j, end)
  /\ UNCHANGED manual

\* A failed run with attempts left, a reclaimed or a released one
RetryRun(j) ==
  /\ OnTable(j) /\ status[j] = "Running"
  /\ status' = [status EXCEPT ![j] = "Pending"]
  /\ UNCHANGED <<place, dep, workflow, policy, batch, mode, manual, ghostVars>>

\* Mutant: the children are not counted in their workflow.
SpawnKeepsTotal(j) ==
  LET new == Children[j]
      s == AfterTerminal(j, "Completed")
      t == InsertJobs(new, s.status, s.dep)
  IN  /\ OnTable(j) /\ status[j] = "Running"
      /\ new # {} /\ \A c \in new : place[c] = "unborn"
      /\ status' = t.status /\ dep' = t.dep /\ place' = Born(new)
      /\ workflow' = s.workflow /\ batch' = s.batch
      /\ everDone' = everDone \union {j}
      /\ stillborn' = stillborn \union Stillborn(new, status') /\ Heard(j)
      /\ UNCHANGED <<policy, mode, manual, reopened, revived>>

\* complete_job_run_with_children: the parent's end, the insertion of its
\* children and their workflow's new total are one transaction.
FinishRunWithChildren(j) ==
  LET new == Children[j]
      s == AfterTerminal(j, "Completed")
      t == InsertJobs(new, s.status, s.dep)
  IN  /\ OnTable(j) /\ status[j] = "Running"
      /\ new # {} /\ \A c \in new : place[c] = "unborn"
      /\ status' = t.status /\ dep' = t.dep /\ place' = Born(new)
      /\ workflow' = IF j \in WorkflowJobs
                       THEN RefreshWorkflow(t.status, KeptJobs \union new,
                                            workflow.total + Cardinality(new))
                       ELSE s.workflow
      /\ batch' = s.batch
      /\ everDone' = everDone \union {j}
      /\ stillborn' = stillborn \union Stillborn(new, status') /\ Heard(j)
      /\ UNCHANGED <<policy, mode, manual, reopened, revived>>

-----------------------------------------------------------------------------
(* Operators.                                                              *)

Intervene == manual < MaxManual /\ manual' = manual + 1

ManualTerminal(j, transition, end) ==
  /\ Intervene
  /\ OnTable(j) /\ status[j] \in AllowedFrom(transition)
  /\ Terminate(j, end)

CompleteJob(j) == ManualTerminal(j, "Complete", "Completed")
FailJob(j) == ManualTerminal(j, "Fail", "Failed")
MarkJobDead(j) == ManualTerminal(j, "MarkDead", "Dead")
MarkJobTimedOut(j) == ManualTerminal(j, "MarkTimedOut", "TimedOut")

RetryJob(j) ==
  /\ Intervene
  /\ OnTable(j) /\ status[j] \in AllowedFrom("Retry")
  /\ \E d \in ReevaluatedDeps(j) : dep' = [dep EXCEPT ![j] = d]
  /\ status' = [status EXCEPT ![j] = "Pending"]
  /\ reopened' = reopened \union {j}
  /\ stillborn' = stillborn \ {j}
  /\ UNCHANGED <<place, workflow, policy, batch, mode, everDone, revived, unheard>>

\* retry_dead_job leaves the dependency status as it is.
RetryDeadJob(j) ==
  /\ Intervene
  /\ OnTable(j) /\ status[j] \in AllowedFrom("RetryDead")
  /\ status' = [status EXCEPT ![j] = "Pending"]
  /\ revived' = revived \union {j}
  /\ UNCHANGED <<place, dep, workflow, policy, batch, mode, everDone, reopened, stillborn,
                 unheard>>

\* archive_jobs, for one of the finished rows
ArchiveJob(j) ==
  /\ Intervene
  /\ OnTable(j) /\ status[j] \in Finished
  /\ place' = [place EXCEPT ![j] = "archive"]
  /\ UNCHANGED <<status, dep, workflow, policy, batch, mode, ghostVars>>

RestoreArchivedJob(j) ==
  /\ Intervene
  /\ place[j] = "archive"
  /\ \E d \in ReevaluatedDeps(j) : dep' = [dep EXCEPT ![j] = d]
  /\ place' = [place EXCEPT ![j] = "table"]
  /\ status' = [status EXCEPT ![j] = "Pending"]
  /\ reopened' = reopened \union {j}
  /\ stillborn' = stillborn \ {j}
  /\ UNCHANGED <<workflow, policy, batch, mode, everDone, revived, unheard>>

\* delete_job, and purge_dead_jobs and purge_archived_jobs for one row
DeleteJob(j) ==
  /\ Intervene
  /\ Kept(j)
  /\ place' = [place EXCEPT ![j] = "gone"]
  /\ UNCHANGED <<status, dep, workflow, policy, batch, mode, ghostVars>>

DeleteBatch ==
  /\ Intervene
  /\ batch.status # "Absent"
  /\ place' = [j \in Jobs |-> IF j \in BatchJobs /\ OnTable(j) THEN "gone" ELSE place[j]]
  /\ batch' = [batch EXCEPT !.status = "Absent"]
  /\ UNCHANGED <<status, dep, workflow, policy, mode, ghostVars>>

\* Mutant: running jobs are not cancelled.
CancelOnlyPending ==
  /\ Intervene
  /\ workflow.status # "Absent"
  /\ LET stopped == {j \in WorkflowJobs : OnTable(j) /\ status[j] = "Pending"} IN
       /\ status' = SetAll(status, stopped, "Failed")
       /\ dep' = SetAll(dep, {j \in stopped : dep[j] = "waiting"}, "failed")
  /\ workflow' = [workflow EXCEPT !.status = "Cancelled"]
  /\ UNCHANGED <<place, policy, batch, mode, ghostVars>>

CancelWorkflow ==
  /\ Intervene
  /\ workflow.status # "Absent"
  /\ LET stopped == {j \in WorkflowJobs : OnTable(j) /\ status[j] \in {"Pending", "Running"}} IN
       /\ status' = SetAll(status, stopped, "Failed")
       /\ dep' = SetAll(dep, {j \in stopped : dep[j] = "waiting"}, "failed")
  /\ workflow' = [workflow EXCEPT !.status = "Cancelled"]
  /\ UNCHANGED <<place, policy, batch, mode, ghostVars>>

\* fail_job_dependencies.  The call checks nothing: it is made, as its
\* contract says, for a job that has failed, which may have been archived or
\* deleted since.
FailJobDependencies(j) ==
  /\ Intervene
  /\ place[j] # "unborn" /\ status[j] \in FailedStatuses
  /\ LET s == ApplyFailurePolicy(j, status, dep) IN
       /\ status' = s.status /\ dep' = s.dep
       /\ workflow' = RefreshWorkflowOf(j, s.status)
  /\ stillborn' = stillborn \ {j}
  /\ unheard' = (unheard \/ BehindItsBack)
  /\ UNCHANGED <<place, policy, batch, mode, everDone, reopened, revived>>

\* resolve_job_dependencies, for any job
ResolveJobDependencies(j) ==
  /\ Intervene
  /\ place[j] # "unborn"
  /\ dep' = ResolveDependents(j, status, dep)
  /\ UNCHANGED <<place, status, workflow, policy, batch, mode, ghostVars>>

-----------------------------------------------------------------------------
Init ==
  /\ place = [j \in Jobs |-> "unborn"]
  /\ status = [j \in Jobs |-> "Pending"]
  /\ dep = [j \in Jobs |-> "none"]
  /\ workflow = [status |-> "Absent", total |-> 0, completed |-> 0, failed |-> 0]
  /\ batch = [status |-> "Absent", completed |-> 0, failed |-> 0, pending |-> 0]
  /\ policy \in Policies
  /\ mode \in Modes
  /\ manual = 0
  /\ everDone = {}
  /\ reopened = {}
  /\ revived = {}
  /\ stillborn = {}
  /\ unheard = FALSE

RunStep(j) == Claim(j) \/ FinishRun(j) \/ RetryRun(j) \/ FinishRunWithChildren(j)

OperatorStep(j) ==
  \/ CompleteJob(j) \/ FailJob(j) \/ MarkJobDead(j) \/ MarkJobTimedOut(j)
  \/ RetryJob(j) \/ RetryDeadJob(j)
  \/ ArchiveJob(j) \/ RestoreArchivedJob(j) \/ DeleteJob(j)
  \/ FailJobDependencies(j) \/ ResolveJobDependencies(j)

Next ==
  \/ EnqueueWorkflow \/ EnqueueBatch
  \/ \E j \in Jobs : Enqueue(j) \/ RunStep(j) \/ OperatorStep(j)
  \/ DeleteBatch \/ CancelWorkflow

Spec == Init /\ [][Next]_vars

\* Runnable jobs are claimed and runs end; a job's runs cannot fail and be
\* retried for ever because its attempts are bounded (JobRuns), so a run that
\* ends the job comes in the end.  Submitted work is enqueued.
Fairness ==
  /\ WF_vars(EnqueueWorkflow) /\ WF_vars(EnqueueBatch)
  /\ \A j \in Jobs :
       /\ WF_vars(Enqueue(j)) /\ WF_vars(Claim(j))
       /\ SF_vars(FinishRun(j) \/ FinishRunWithChildren(j))

FairSpec == Spec /\ Fairness

-----------------------------------------------------------------------------
(* Properties.                                                             *)

\* The columns of a job have their types.
RowTypeOK ==
  /\ place \in [Jobs -> {"unborn", "table", "archive", "gone"}]
  /\ status \in [Jobs -> Finished \union {"Pending", "Running"}]
  /\ dep \in [Jobs -> {"none", "waiting", "satisfied", "failed"}]
  /\ everDone \subseteq Jobs /\ reopened \subseteq Jobs /\ revived \subseteq Jobs

\* No job runs before every job it depends on has completed, however it came
\* into the table, and whatever was retried, archived, restored or deleted
\* in between (the dependency_status condition of RUNNABLE_IN_QUEUE_SQL).
StartsAfterDependencies ==
  \A j \in Jobs : OnTable(j) /\ status[j] = "Running" => DependsOn[j] \subseteq everDone

\* Why: a job that may be claimed, or runs, has had all its dependencies
\* completed, and a completed row has completed.
DependencyInv ==
  /\ RowTypeOK
  /\ \A j \in Jobs : place[j] # "unborn" =>
       /\ status[j] = "Completed" => j \in everDone
       /\ dep[j] \in {"none", "satisfied"} \/ status[j] = "Running"
            => DependsOn[j] \subseteq everDone

Blocked(j) == OnTable(j) /\ status[j] = "Pending" /\ dep[j] \notin {"none", "satisfied"}

\* A pending job that cannot be claimed really waits for something: one of
\* its dependencies has yet to complete (or is gone), and the completion
\* will release it.
WaitsForSomething(j) ==
  dep[j] = "waiting" /\ \E d \in DependsOn[j] : ~ParentCompleted(d, status)

\* No completion is lost on a dependent ("Either way no new job is left
\* waiting forever", insert_dependent_jobs; resolve_dependents).  Jobs that
\* retry_dead_job put back are left out: see NoneForgotten.
NotForgotten == \A j \in Jobs : Blocked(j) /\ j \notin revived => WaitsForSomething(j)

\* The same for the jobs retry_dead_job put back ("Re-run a terminally failed
\* (`Dead` or `TimedOut`) job: back to `Pending`").
NoneForgotten == \A j \in Jobs : Blocked(j) => WaitsForSomething(j)

\* The job was failed because its workflow or its batch was stopped.  That
\* looks for pending jobs of the same workflow or batch only, so a dependent j
\* outside of it can be left behind.
StoppedWithout(d, j) ==
  /\ status[d] = "Failed"
  /\ \/ /\ d \in WorkflowJobs /\ j \notin WorkflowJobs
        /\ policy = "FailFast" \/ workflow.status = "Cancelled"
     \/ d \in BatchJobs /\ j \notin BatchJobs /\ mode = "FailFast"

\* Nothing waits for a job that has failed for good: the failure has failed
\* its dependents, in chains, across workflows and batches, and however the
\* job failed (fail_job_dependencies: "every job that (transitively) depends
\* on the failed one, become `Failed`").  Excepted are dependents that are
\* left to an operator by the failed job's workflow or fall under
\* StoppedWithout, and jobs that were enqueued as failed after their
\* dependents, which settle_new_dependents does not look for.
NoDoomedWaiter ==
  \A j \in Jobs : Blocked(j) /\ j \notin revived =>
    \A d \in DependsOn[j] : Kept(d) /\ status[d] \in FailedStatuses =>
      \/ d \in WorkflowJobs /\ policy = "Manual"
      \/ StoppedWithout(d, j)
      \/ d \in stillborn

\* The same without the two exceptions that no documentation states.
NobodyDoomed ==
  \A j \in Jobs : Blocked(j) /\ j \notin revived =>
    \A d \in DependsOn[j] :
      Kept(d) /\ status[d] \in FailedStatuses => d \in WorkflowJobs /\ policy = "Manual"

Ended(j) == Kept(j) /\ status[j] \in Finished

\* A workflow is stored as Completed only when all its jobs have completed, the
\* spawned ones included, whatever was retried, archived or deleted in between
\* (add_spawned_to_workflows: "Without this a workflow whose last job spawned
\* children would complete before they ran").
CompletedIsEarned ==
  workflow.status = "Completed" => {j \in WorkflowJobs : place[j] # "unborn"} \subseteq everDone

\* The stored status does not fall behind either: when the last job of the
\* workflow ends, whether by itself or through the failure policy, the
\* transaction that ends it also ends the workflow (refresh_workflow).  Failed
\* jobs must still be in the table: fail_job_dependencies no longer knows the
\* workflow of one that has been archived.
WorkflowIsClosed ==
  (/\ workflow.status # "Absent"
   /\ \A j \in WorkflowJobs :
        \/ place[j] = "unborn"
        \/ Ended(j) /\ (OnTable(j) \/ status[j] = "Completed"))
    => workflow.status # "Running"

PutBack == reopened \union revived

\* Cancelling a workflow stops it: afterwards none of its jobs is pending or
\* running, not even a child that a running job would have spawned, except
\* through an operator who puts a job back (cancel_workflow).
CancelledStaysStopped ==
  workflow.status = "Cancelled" =>
    \A j \in WorkflowJobs : OnTable(j) /\ (DependsOn[j] \union {j}) \intersect PutBack = {}
      => status[j] \in Finished

RowIsRight ==
  /\ batch.status \in {"Completed", "PartiallyFailed", "Failed"}
  /\ batch.completed = Count(BatchJobs, status, KeptJobs, {"Completed"})
  /\ batch.failed = Cardinality(BatchJobs) - batch.completed

\* When every job of a batch has ended, the stored row says so with the
\* right counts: exactly one terminal transition sees the batch finish
\* (apply_batch_outcome).  Excepted is a batch of which jobs have been failed
\* along with a job outside it, until the next of its own jobs ends.
BatchIsClosed ==
  batch.status # "Absent" /\ (\A j \in BatchJobs : Ended(j)) /\ ~unheard => RowIsRight

\* The same without the exception.
BatchAlwaysClosed == batch.status # "Absent" /\ (\A j \in BatchJobs : Ended(j)) => RowIsRight

\* Left alone by operators, a workflow that does not wait for one ends.
WorkflowEnds ==
  workflow.status = "Running" /\ policy # "Manual"
    ~> workflow.status \in {"Completed", "Failed"} \/ manual > 0

\* Left alone by operators, a batch ends.
BatchEnds ==
  batch.status # "Absent"
    ~> batch.status \in {"Completed", "PartiallyFailed", "Failed"} \/ manual > 0
=============================================================================
