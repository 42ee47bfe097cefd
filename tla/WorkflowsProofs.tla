-------------------------- MODULE WorkflowsProofs --------------------------
(***************************************************************************)
(* Proofs about Workflows, for every dependency graph, workflow, batch,    *)
(* spawned children and number of operator interventions: no job runs      *)
(* before the jobs it depends on have completed, none is left waiting for  *)
(* a completion that has happened, nor, but for named exceptions, for a    *)
(* job that has failed; a workflow is stored as completed only when its    *)
(* jobs have completed, is closed with its last job, and stays stopped     *)
(* once it is cancelled; a batch is closed with its last job.              *)
(***************************************************************************)
EXTENDS Workflows, FiniteSetTheorems, TLAPS

JobStatuses == Finished \union {"Pending", "Running"}
DepStatuses == {"none", "waiting", "satisfied", "failed"}

\* resolve_dependents releases a job only when all it depends on has completed.
LEMMA ResolveRows ==
  ASSUME NEW j \in Jobs, NEW st \in [Jobs -> JobStatuses], NEW dp \in [Jobs -> DepStatuses]
  PROVE  /\ ResolveDependents(j, st, dp) \in [Jobs -> DepStatuses]
         /\ \A i \in Jobs :
              \/ ResolveDependents(j, st, dp)[i] = dp[i]
              \/ /\ ResolveDependents(j, st, dp)[i] = "satisfied"
                 /\ \A d \in DependsOn[i] : Kept(d) /\ st[d] = "Completed"
BY DEF ResolveDependents, SetAll, DepStatuses

\* The failure policy only turns rows into failed ones.
LEMMA PolicyRows ==
  ASSUME NEW j \in Jobs, NEW st \in [Jobs -> JobStatuses], NEW dp \in [Jobs -> DepStatuses]
  PROVE  LET s == ApplyFailurePolicy(j, st, dp) IN
         /\ s.status \in [Jobs -> JobStatuses] /\ s.dep \in [Jobs -> DepStatuses]
         /\ \A i \in Jobs : /\ s.status[i] \in {st[i], "Failed"}
                            /\ s.dep[i] \in {dp[i], "failed"}
<1> DEFINE stopped == IF InWorkflow(j) /\ policy = "FailFast"
                        THEN {i \in WorkflowJobs \ {j} : OnTable(i) /\ st[i] = "Pending"}
                        ELSE {}
           st1 == SetAll(st, stopped, "Failed")
           dp1 == SetAll(dp, {i \in stopped : dp[i] = "waiting"}, "failed")
           failed == IF InWorkflow(j) /\ policy = "Manual"
                       THEN {} ELSE FailDependents(j, st1, dp1)
<1>0. "Failed" \in JobStatuses /\ "failed" \in DepStatuses
  BY DEF JobStatuses, DepStatuses, Finished
<1>1. /\ st1 \in [Jobs -> JobStatuses] /\ dp1 \in [Jobs -> DepStatuses]
      /\ \A i \in Jobs : st1[i] \in {st[i], "Failed"} /\ dp1[i] \in {dp[i], "failed"}
  <2> HIDE DEF stopped
  <2> QED BY <1>0 DEF SetAll
<1>2. /\ SetAll(st1, failed, "Failed") \in [Jobs -> JobStatuses]
      /\ SetAll(dp1, failed, "failed") \in [Jobs -> DepStatuses]
      /\ \A i \in Jobs : /\ SetAll(st1, failed, "Failed")[i] \in {st1[i], "Failed"}
                         /\ SetAll(dp1, failed, "failed")[i] \in {dp1[i], "failed"}
  <2> HIDE DEF st1, dp1, failed
  <2> QED BY <1>0, <1>1 DEF SetAll
<1>3. ApplyFailurePolicy(j, st, dp) = [status |-> SetAll(st1, failed, "Failed"),
                                       dep |-> SetAll(dp1, failed, "failed")]
  BY DEF ApplyFailurePolicy
<1> HIDE DEF st1, dp1, failed
<1> QED BY <1>1, <1>2, <1>3

\* The batch's failure mode only turns rows into failed ones.
LEMMA BatchRows ==
  ASSUME NEW j \in Jobs, NEW end, NEW st \in [Jobs -> JobStatuses]
  PROVE  LET s == ApplyBatchOutcome(j, end, st).status IN
         /\ s \in [Jobs -> JobStatuses]
         /\ \A i \in Jobs : s[i] \in {st[i], "Failed"}
<1> DEFINE failFast == end # "Completed" /\ mode = "FailFast"
           cancelled == IF failFast THEN {i \in BatchJobs : OnTable(i) /\ st[i] = "Pending"}
                        ELSE {}
           st1 == SetAll(st, cancelled, "Failed")
<1>1. /\ st1 \in [Jobs -> JobStatuses]
      /\ \A i \in Jobs : st1[i] \in {st[i], "Failed"}
  <2> HIDE DEF cancelled
  <2>1. "Failed" \in JobStatuses
    BY DEF JobStatuses, Finished
  <2> QED BY <2>1 DEF SetAll
<1>2. ApplyBatchOutcome(j, end, st).status \in {st, st1}
  BY DEF ApplyBatchOutcome
<1> HIDE DEF st1
<1> QED BY <1>1, <1>2

\* A terminal transition leaves a row as it was, fails it, ends the job it is
\* about, or releases it once all its dependencies have completed.
LEMMA TerminalRows ==
  ASSUME RowTypeOK, NEW j \in Jobs, NEW end \in Finished
  PROVE  LET s == AfterTerminal(j, end)
             st0 == [status EXCEPT ![j] = end]
         IN  /\ s.status \in [Jobs -> JobStatuses] /\ s.dep \in [Jobs -> DepStatuses]
             /\ \A i \in Jobs :
                  /\ s.status[i] \in {st0[i], "Failed"}
                  /\ \/ s.dep[i] \in {dep[i], "failed"}
                     \/ /\ s.dep[i] = "satisfied"
                        /\ \A d \in DependsOn[i] : Kept(d) /\ st0[d] = "Completed"
<1> DEFINE st0 == [status EXCEPT ![j] = end]
           s1 == IF end = "Completed"
                   THEN [status |-> st0, dep |-> ResolveDependents(j, st0, dep)]
                   ELSE ApplyFailurePolicy(j, st0, dep)
           b == ApplyBatchOutcome(j, end, s1.status)
<1>1. st0 \in [Jobs -> JobStatuses] /\ dep \in [Jobs -> DepStatuses]
  BY DEF RowTypeOK, JobStatuses, DepStatuses
<1>2. /\ s1.status \in [Jobs -> JobStatuses] /\ s1.dep \in [Jobs -> DepStatuses]
      /\ \A i \in Jobs :
           /\ s1.status[i] \in {st0[i], "Failed"}
           /\ \/ s1.dep[i] \in {dep[i], "failed"}
              \/ /\ s1.dep[i] = "satisfied"
                 /\ \A d \in DependsOn[i] : Kept(d) /\ st0[d] = "Completed"
  <2> HIDE DEF st0
  <2>1. CASE end = "Completed"
    <3>1. s1.status = st0 /\ s1.dep = ResolveDependents(j, st0, dep)
      BY <2>1
    <3> HIDE DEF s1
    <3> QED BY <1>1, <3>1, ResolveRows
  <2>2. CASE end # "Completed"
    <3>1. s1 = ApplyFailurePolicy(j, st0, dep)
      BY <2>2
    <3> HIDE DEF s1
    <3> QED BY <1>1, <3>1, PolicyRows
  <2> QED BY <2>1, <2>2
<1>3. /\ b.status \in [Jobs -> JobStatuses]
      /\ \A i \in Jobs : b.status[i] \in {s1.status[i], "Failed"}
  <2> HIDE DEF s1
  <2> QED BY <1>2, BatchRows
<1>4. AfterTerminal(j, end).status = b.status /\ AfterTerminal(j, end).dep = s1.dep
  BY DEF AfterTerminal
<1> HIDE DEF s1, b
<1> QED BY <1>2, <1>3, <1>4

\* The columns s that an insertion of new leaves of st and dp: new rows are
\* pending or failed, and may be claimed at once only if they were built
\* without a dependency status or all they depend on has completed.
Inserted(s, new, st, dp) ==
  /\ s.status \in [Jobs -> JobStatuses] /\ s.dep \in [Jobs -> DepStatuses]
  /\ \A i \in Jobs \ new : s.status[i] = st[i] /\ s.dep[i] = dp[i]
  /\ \A i \in new :
       /\ s.status[i] \in {"Pending", "Failed"}
       /\ s.dep[i] = "none" => BuiltDep(i) = "none"
       /\ s.dep[i] = "satisfied" => \A p \in DependsOn[i] : ParentCompleted(p, st)

\* insert_dependent_jobs inserts as described.
LEMMA InsertedRows ==
  ASSUME NEW new \in SUBSET Jobs,
         NEW st \in [Jobs -> JobStatuses], NEW dp \in [Jobs -> DepStatuses]
  PROVE  Inserted(InsertJobs(new, st, dp), new, st, dp)
<1> DEFINE waiting == {i \in new : BuiltDep(i) = "waiting"}
           failed == Reached(waiting, {p \in Jobs \ new : ParentFailed(p, st)})
           ready == {i \in waiting : \A p \in DependsOn[i] : p \notin new /\ ParentCompleted(p, st)}
           built == [i \in Jobs |-> IF i \in new THEN BuiltDep(i) ELSE dp[i]]
<1>1. failed \subseteq new
  BY DEF Reached
<1>2. \A i \in Jobs : BuiltDep(i) \in {"none", "waiting"}
  BY DEF BuiltDep
<1>3. InsertJobs(new, st, dp) =
        [status |-> SetAll(SetAll(st, new, "Pending"), failed, "Failed"),
         dep |-> SetAll(SetAll(built, ready, "satisfied"), failed, "failed")]
  BY DEF InsertJobs
<1>4. LET s == SetAll(SetAll(st, new, "Pending"), failed, "Failed") IN
      /\ s \in [Jobs -> JobStatuses]
      /\ \A i \in Jobs \ new : s[i] = st[i]
      /\ \A i \in new : s[i] \in {"Pending", "Failed"}
  <2> HIDE DEF failed
  <2> QED BY <1>1 DEF SetAll, JobStatuses, Finished
<1>5. LET s == SetAll(SetAll(built, ready, "satisfied"), failed, "failed") IN
      /\ s \in [Jobs -> DepStatuses]
      /\ \A i \in Jobs \ new : s[i] = dp[i]
      /\ \A i \in new :
           /\ s[i] = "none" => BuiltDep(i) = "none"
           /\ s[i] = "satisfied" => i \in ready
  <2> HIDE DEF failed
  <2> QED BY <1>1, <1>2 DEF SetAll, DepStatuses
<1> HIDE DEF failed, built
<1> QED BY <1>3, <1>4, <1>5 DEF Inserted

\* Reevaluating a job by hand makes it runnable only if it was so before or
\* all it depends on has completed.
LEMMA ReevaluatedRow ==
  ASSUME NEW j \in Jobs, NEW r \in ReevaluatedDeps(j)
  PROVE  /\ r \in DepStatuses
         /\ r = "none" => DependsOn[j] = {}
         /\ r = "satisfied" => \/ dep[j] = "satisfied"
                               \/ \A d \in DependsOn[j] : Kept(d) /\ status[d] = "Completed"
<1>1. CASE DependsOn[j] = {}
  BY <1>1 DEF ReevaluatedDeps, DepStatuses
<1>2. CASE DependsOn[j] # {} /\ dep[j] = "satisfied"
  BY <1>2 DEF ReevaluatedDeps, DepStatuses
<1>3. CASE DependsOn[j] # {} /\ dep[j] # "satisfied"
  <2>1. ReevaluatedDeps(j) =
          IF \E d \in DependsOn[j] : ~Kept(d) \/ status[d] \in FailedStatuses THEN {}
          ELSE IF \A d \in DependsOn[j] : status[d] = "Completed" THEN {"satisfied"}
          ELSE {"waiting"}
    BY <1>3 DEF ReevaluatedDeps
  <2> QED BY <2>1 DEF DepStatuses
<1> QED BY <1>1, <1>2, <1>3

\* Kept and table rows have been inserted.
LEMMA NotUnborn ==
  \A j \in Jobs : /\ OnTable(j) => Kept(j)
                  /\ Kept(j) => place[j] # "unborn"
BY DEF OnTable, Kept

\* A terminal transition, by a run or by hand.
LEMMA TerminateKeeps ==
  ASSUME DependencyInv, NEW j \in Jobs, NEW end \in Finished, OnTable(j), Terminate(j, end)
  PROVE  DependencyInv'
<1> DEFINE s == AfterTerminal(j, end)
           st0 == [status EXCEPT ![j] = end]
<1>1. RowTypeOK
  BY DEF DependencyInv
<1>2. /\ status' = s.status /\ dep' = s.dep /\ place' = place
      /\ everDone' = (IF end = "Completed" THEN everDone \union {j} ELSE everDone)
      /\ reopened' = reopened /\ revived' = revived
  BY DEF Terminate
<1>3. /\ s.status \in [Jobs -> JobStatuses] /\ s.dep \in [Jobs -> DepStatuses]
      /\ \A i \in Jobs :
           /\ s.status[i] \in {st0[i], "Failed"}
           /\ \/ s.dep[i] \in {dep[i], "failed"}
              \/ /\ s.dep[i] = "satisfied"
                 /\ \A d \in DependsOn[i] : Kept(d) /\ st0[d] = "Completed"
  BY <1>1, TerminalRows
<1>4. \A i \in Jobs : st0[i] = IF i = j THEN end ELSE status[i]
  BY <1>1 DEF RowTypeOK
<1> HIDE DEF s, st0
<1>5. RowTypeOK'
  BY <1>1, <1>2, <1>3 DEF RowTypeOK, JobStatuses, DepStatuses
<1>6. \A i \in Jobs : Kept(i) /\ st0[i] = "Completed" => i \in everDone'
  BY <1>2, <1>4, NotUnborn DEF DependencyInv
<1>7. \A i \in Jobs : DependsOn[i] \subseteq Jobs
  BY WorkflowsAssumptions
<1>8. ASSUME NEW i \in Jobs, place'[i] # "unborn"
      PROVE  /\ status'[i] = "Completed" => i \in everDone'
             /\ dep'[i] \in {"none", "satisfied"} \/ status'[i] = "Running"
                  => DependsOn[i] \subseteq everDone'
  <2>1. status'[i] = "Completed" => i \in everDone'
    BY <1>2, <1>3, <1>4, <1>8 DEF DependencyInv
  <2>2. status'[i] = "Running" => status[i] = "Running"
    BY <1>2, <1>3, <1>4 DEF Finished
  <2>3. dep'[i] \in {"none", "satisfied"} =>
          dep[i] \in {"none", "satisfied"} \/ DependsOn[i] \subseteq everDone'
    BY <1>2, <1>3, <1>6, <1>7
  <2> QED BY <1>2, <1>8, <2>1, <2>2, <2>3 DEF DependencyInv
<1> QED BY <1>5, <1>8 DEF DependencyInv

\* What an insertion of new rows does to a state that satisfies the
\* invariant: st and dp are the columns the insertion starts from, ed the jobs
\* that have completed by then.
LEMMA InsertKeeps ==
  ASSUME NEW new \in SUBSET Jobs,
         NEW st \in [Jobs -> JobStatuses], NEW dp \in [Jobs -> DepStatuses],
         NEW ed \in SUBSET Jobs, RowTypeOK,
         \A j \in Jobs : place[j] # "unborn" =>
           /\ st[j] = "Completed" => j \in ed
           /\ dp[j] \in {"none", "satisfied"} \/ st[j] = "Running" => DependsOn[j] \subseteq ed,
         \A j \in new : BuiltDep(j) = "none" => DependsOn[j] \subseteq ed,
         status' = InsertJobs(new, st, dp).status, dep' = InsertJobs(new, st, dp).dep,
         place' = Born(new), everDone' = ed,
         UNCHANGED <<reopened, revived>>
  PROVE  DependencyInv'
<1> DEFINE s == InsertJobs(new, st, dp)
<1>1. Inserted(s, new, st, dp)
  BY InsertedRows
<1> HIDE DEF s
<1>2. /\ place' \in [Jobs -> {"unborn", "table", "archive", "gone"}]
      /\ \A i \in Jobs \ new : place'[i] = place[i]
  BY DEF Born, RowTypeOK
<1>3. RowTypeOK'
  BY <1>1, <1>2 DEF Inserted, RowTypeOK, JobStatuses, DepStatuses, s
<1>4. \A i \in Jobs : ParentCompleted(i, st) => i \in ed
  BY NotUnborn DEF ParentCompleted
<1>5. \A i \in Jobs : DependsOn[i] \subseteq Jobs
  BY WorkflowsAssumptions
<1>6. ASSUME NEW i \in Jobs, place'[i] # "unborn"
      PROVE  /\ status'[i] = "Completed" => i \in everDone'
             /\ dep'[i] \in {"none", "satisfied"} \/ status'[i] = "Running"
                  => DependsOn[i] \subseteq everDone'
  <2>0. status'[i] = s.status[i] /\ dep'[i] = s.dep[i]
    BY DEF s
  <2>1. CASE i \in new
    BY <1>1, <1>4, <1>5, <2>0, <2>1 DEF Inserted
  <2>2. CASE i \notin new
    <3>1. place[i] # "unborn" /\ status'[i] = st[i] /\ dep'[i] = dp[i]
      BY <1>1, <1>2, <1>6, <2>0, <2>2 DEF Inserted
    <3> QED BY <3>1
  <2> QED BY <2>1, <2>2
<1> QED BY <1>3, <1>6 DEF DependencyInv

\* Jobs that are not spawned get no dependency status only without
\* dependencies; a spawned one only when its parent is all it depends on.
LEMMA BuiltWithoutStatus ==
  /\ \A i \in Jobs \ Spawnable : BuiltDep(i) = "none" => DependsOn[i] = {}
  /\ \A j \in Jobs : \A i \in Children[j] : BuiltDep(i) = "none" => DependsOn[i] \subseteq {j}
<1>1. \A j \in Jobs : Children[j] \subseteq Spawnable /\ Children[j] \subseteq Jobs
  BY WorkflowsAssumptions DEF Spawnable
<1>2. \A j \in Jobs : \A c \in Children[j] : j \in DependsOn[c]
  BY WorkflowsAssumptions
<1> QED BY <1>1, <1>2 DEF BuiltDep

\* Every step keeps the invariant.
LEMMA NextKeeps == DependencyInv /\ [Next]_vars => DependencyInv'
<1> SUFFICES ASSUME DependencyInv, [Next]_vars PROVE DependencyInv'
  OBVIOUS
<1>0. /\ RowTypeOK
      /\ status \in [Jobs -> JobStatuses] /\ dep \in [Jobs -> DepStatuses]
      /\ everDone \in SUBSET Jobs
      /\ \A i \in Jobs : DependsOn[i] \subseteq Jobs
  BY WorkflowsAssumptions DEF DependencyInv, RowTypeOK, JobStatuses, DepStatuses
<1>20. \A j \in Jobs : place[j] # "unborn" =>
         /\ status[j] = "Completed" => j \in everDone
         /\ dep[j] \in {"none", "satisfied"} \/ status[j] = "Running"
              => DependsOn[j] \subseteq everDone
  BY DEF DependencyInv
<1>1. CASE UNCHANGED vars
  BY <1>1 DEF vars, DependencyInv, RowTypeOK, ghostVars
<1>2. CASE EnqueueWorkflow
  <2>1. Members \in SUBSET Jobs /\ Members \intersect Spawnable = {}
    BY WorkflowsAssumptions
  <2>2. \A j \in Members : BuiltDep(j) = "none" => DependsOn[j] \subseteq everDone
    BY <2>1, BuiltWithoutStatus
  <2> QED BY <1>0, <1>2, <2>1, <2>2, InsertKeeps DEF EnqueueWorkflow, DependencyInv
<1>3. CASE EnqueueBatch
  <2>1. BatchJobs \in SUBSET Jobs /\ BatchJobs \intersect Spawnable = {}
    BY WorkflowsAssumptions
  <2>2. \A j \in BatchJobs : BuiltDep(j) = "none" => DependsOn[j] \subseteq everDone
    BY <2>1, BuiltWithoutStatus
  <2> QED BY <1>0, <1>3, <2>1, <2>2, InsertKeeps DEF EnqueueBatch, DependencyInv
<1>4. ASSUME NEW j \in Jobs, Enqueue(j) PROVE DependencyInv'
  <2>1. {j} \in SUBSET Jobs
    OBVIOUS
  <2>2. \A i \in {j} : BuiltDep(i) = "none" => DependsOn[i] \subseteq everDone
    BY <1>4, BuiltWithoutStatus DEF Enqueue
  <2>3. /\ status' = InsertJobs({j}, status, dep).status /\ dep' = InsertJobs({j}, status, dep).dep
        /\ place' = Born({j}) /\ UNCHANGED <<everDone, reopened, revived>>
    BY <1>4 DEF Enqueue
  <2> DEFINE new == {j}
  <2> HIDE DEF new
  <2>4. /\ new \in SUBSET Jobs
        /\ \A i \in new : BuiltDep(i) = "none" => DependsOn[i] \subseteq everDone
        /\ status' = InsertJobs(new, status, dep).status /\ dep' = InsertJobs(new, status, dep).dep
        /\ place' = Born(new)
    BY <2>1, <2>2, <2>3 DEF new
  <2>5. UNCHANGED <<everDone, reopened, revived>>
    BY <2>3
  <2> QED BY ONLY <1>0, <1>20, <2>4, <2>5, InsertKeeps
<1>5. ASSUME NEW j \in Jobs, Claim(j) PROVE DependencyInv'
  BY <1>5, NotUnborn DEF Claim, DependencyInv, RowTypeOK, ghostVars
<1>6. ASSUME NEW j \in Jobs, FinishRun(j) PROVE DependencyInv'
  <2>1. PICK end \in {"Completed", "Dead", "TimedOut"} : Terminate(j, end)
    BY <1>6 DEF FinishRun
  <2> QED BY <1>6, <2>1, TerminateKeeps DEF FinishRun, Finished
<1>7. ASSUME NEW j \in Jobs, RetryRun(j) PROVE DependencyInv'
  BY <1>7 DEF RetryRun, DependencyInv, RowTypeOK, ghostVars
<1>8. ASSUME NEW j \in Jobs, FinishRunWithChildren(j) PROVE DependencyInv'
  <2> DEFINE s == AfterTerminal(j, "Completed")
             st0 == [status EXCEPT ![j] = "Completed"]
             ed == everDone \union {j}
  <2>1. /\ s.status \in [Jobs -> JobStatuses] /\ s.dep \in [Jobs -> DepStatuses]
        /\ \A i \in Jobs :
             /\ s.status[i] \in {st0[i], "Failed"}
             /\ \/ s.dep[i] \in {dep[i], "failed"}
                \/ /\ s.dep[i] = "satisfied"
                   /\ \A d \in DependsOn[i] : Kept(d) /\ st0[d] = "Completed"
    BY <1>0, TerminalRows DEF Finished
  <2>2. /\ status' = InsertJobs(Children[j], s.status, s.dep).status
        /\ dep' = InsertJobs(Children[j], s.status, s.dep).dep
        /\ place' = Born(Children[j]) /\ everDone' = ed
        /\ UNCHANGED <<reopened, revived>>
    BY <1>8 DEF FinishRunWithChildren
  <2>3. \A i \in Jobs : st0[i] = IF i = j THEN "Completed" ELSE status[i]
    BY <1>0 DEF RowTypeOK
  <2> HIDE DEF s, st0
  <2>4. \A i \in Jobs : Kept(i) /\ st0[i] = "Completed" => i \in ed
    BY <2>3, NotUnborn DEF DependencyInv
  <2>5. ASSUME NEW i \in Jobs, place[i] # "unborn"
        PROVE  /\ s.status[i] = "Completed" => i \in ed
               /\ s.dep[i] \in {"none", "satisfied"} \/ s.status[i] = "Running"
                    => DependsOn[i] \subseteq ed
    BY <1>0, <2>1, <2>3, <2>4, <2>5 DEF DependencyInv
  <2>6. \A i \in Children[j] : BuiltDep(i) = "none" => DependsOn[i] \subseteq ed
    BY BuiltWithoutStatus
  <2>7. Children[j] \in SUBSET Jobs /\ ed \in SUBSET Jobs
    BY <1>0, WorkflowsAssumptions
  <2> HIDE DEF ed
  <2> QED BY <1>0, <2>1, <2>2, <2>5, <2>6, <2>7, InsertKeeps
<1>9. ASSUME NEW j \in Jobs, CompleteJob(j) \/ FailJob(j) \/ MarkJobDead(j) \/ MarkJobTimedOut(j)
      PROVE  DependencyInv'
  <2>1. PICK end \in {"Completed", "Failed", "Dead", "TimedOut"} : OnTable(j) /\ Terminate(j, end)
    BY <1>9 DEF CompleteJob, FailJob, MarkJobDead, MarkJobTimedOut, ManualTerminal
  <2> QED BY <2>1, TerminateKeeps DEF Finished
<1>10. ASSUME NEW j \in Jobs, RetryJob(j) PROVE DependencyInv'
  <2>1. PICK r \in ReevaluatedDeps(j) : dep' = [dep EXCEPT ![j] = r]
    BY <1>10 DEF RetryJob
  <2>2. /\ r \in DepStatuses
        /\ r \in {"none", "satisfied"} => DependsOn[j] \subseteq everDone
    BY <1>0, <1>10, ReevaluatedRow, NotUnborn DEF DependencyInv, RetryJob
  <2> QED BY <1>0, <1>10, <2>1, <2>2 DEF RetryJob, DependencyInv, RowTypeOK, DepStatuses
<1>11. ASSUME NEW j \in Jobs, RetryDeadJob(j) PROVE DependencyInv'
  BY <1>11 DEF RetryDeadJob, DependencyInv, RowTypeOK
<1>12. ASSUME NEW j \in Jobs, ArchiveJob(j) PROVE DependencyInv'
  BY <1>12, NotUnborn DEF ArchiveJob, DependencyInv, RowTypeOK, ghostVars
<1>13. ASSUME NEW j \in Jobs, RestoreArchivedJob(j) PROVE DependencyInv'
  <2>1. PICK r \in ReevaluatedDeps(j) : dep' = [dep EXCEPT ![j] = r]
    BY <1>13 DEF RestoreArchivedJob
  <2>2. /\ r \in DepStatuses
        /\ r \in {"none", "satisfied"} => DependsOn[j] \subseteq everDone
    BY <1>0, <1>13, ReevaluatedRow, NotUnborn DEF DependencyInv, RestoreArchivedJob
  <2> QED BY <1>0, <1>13, <2>1, <2>2
          DEF RestoreArchivedJob, DependencyInv, RowTypeOK, DepStatuses
<1>14. ASSUME NEW j \in Jobs, DeleteJob(j) PROVE DependencyInv'
  BY <1>14, NotUnborn DEF DeleteJob, DependencyInv, RowTypeOK, ghostVars
<1>15. ASSUME NEW j \in Jobs, FailJobDependencies(j) PROVE DependencyInv'
  <2> DEFINE s == ApplyFailurePolicy(j, status, dep)
  <2>1. /\ s.status \in [Jobs -> JobStatuses] /\ s.dep \in [Jobs -> DepStatuses]
        /\ \A i \in Jobs : s.status[i] \in {status[i], "Failed"} /\ s.dep[i] \in {dep[i], "failed"}
    BY <1>0, PolicyRows
  <2>2. /\ status' = s.status /\ dep' = s.dep
        /\ UNCHANGED <<place, everDone, reopened, revived>>
    BY <1>15 DEF FailJobDependencies
  <2> HIDE DEF s
  <2> QED BY <1>0, <2>1, <2>2 DEF DependencyInv, RowTypeOK, JobStatuses, DepStatuses
<1>16. ASSUME NEW j \in Jobs, ResolveJobDependencies(j) PROVE DependencyInv'
  <2>1. /\ dep' \in [Jobs -> DepStatuses]
        /\ \A i \in Jobs : \/ dep'[i] = dep[i]
                           \/ /\ dep'[i] = "satisfied"
                              /\ \A d \in DependsOn[i] : Kept(d) /\ status[d] = "Completed"
        /\ UNCHANGED <<place, status, everDone, reopened, revived>>
    BY <1>0, <1>16, ResolveRows DEF ResolveJobDependencies, ghostVars
  <2> QED BY <1>0, <2>1, NotUnborn DEF DependencyInv, RowTypeOK, DepStatuses
<1>17. CASE DeleteBatch
  <2>1. /\ place' \in [Jobs -> {"unborn", "table", "archive", "gone"}]
        /\ \A i \in Jobs : place'[i] # "unborn" => place[i] # "unborn"
        /\ UNCHANGED <<status, dep, everDone, reopened, revived>>
    BY <1>0, <1>17, NotUnborn DEF DeleteBatch, RowTypeOK, ghostVars
  <2> QED BY <2>1 DEF DependencyInv, RowTypeOK
<1>18. CASE CancelWorkflow
  <2>1. /\ status' \in [Jobs -> JobStatuses] /\ dep' \in [Jobs -> DepStatuses]
        /\ \A i \in Jobs : status'[i] \in {status[i], "Failed"} /\ dep'[i] \in {dep[i], "failed"}
        /\ UNCHANGED <<place, everDone, reopened, revived>>
    BY <1>0, <1>18 DEF CancelWorkflow, SetAll, JobStatuses, DepStatuses, Finished, ghostVars
  <2> QED BY <1>0, <2>1 DEF DependencyInv, RowTypeOK, JobStatuses, DepStatuses
<1> QED
  BY <1>1, <1>2, <1>3, <1>4, <1>5, <1>6, <1>7, <1>8, <1>9, <1>10, <1>11, <1>12, <1>13, <1>14,
     <1>15, <1>16, <1>17, <1>18
  DEF Next, RunStep, OperatorStep

\* The dependency invariant holds in every reachable state, for every graph
\* of jobs, with workflows, batches, spawned children and operators at work.
THEOREM DependencyInvariant == Spec => []DependencyInv
<1>1. Init => DependencyInv
  BY DEF Init, DependencyInv, RowTypeOK
<1> QED BY <1>1, NextKeeps, PTL DEF Spec

\* No job runs before every job it depends on has completed
\* (resolve_dependents, settle_new_dependents, reevaluate_dependencies).
THEOREM DependenciesFirst == Spec => []StartsAfterDependencies
<1>1. DependencyInv => StartsAfterDependencies
  BY NotUnborn DEF DependencyInv, StartsAfterDependencies
<1> QED BY <1>1, DependencyInvariant, PTL

-----------------------------------------------------------------------------
(* What the steps of a transaction do to the rows, in more detail.         *)

\* Whatever depends on a job that is reached is reached, if it is eligible.
LEMMA ReachedClosed ==
  ASSUME NEW E, NEW S, NEW i \in E, DependsOn[i] \intersect (Reached(E, S) \union S) # {}
  PROVE  i \in Reached(E, S)
<1>1. ASSUME NEW F \in SUBSET E,
             \A k \in E : DependsOn[k] \intersect (F \union S) # {} => k \in F
      PROVE  i \in F
  <2>1. Reached(E, S) \subseteq F
    BY <1>1 DEF Reached
  <2> QED BY <1>1, <2>1
<1> QED BY <1>1 DEF Reached

\* Nothing else is reached.
LEMMA ReachedLeast ==
  ASSUME NEW E, NEW S, NEW F \in SUBSET E,
         \A k \in E : DependsOn[k] \intersect (F \union S) # {} => k \in F
  PROVE  Reached(E, S) \subseteq F
BY DEF Reached

\* From the columns st and dp to st2 and dp2 only pending rows of the table
\* have changed, and those have failed.
FailsOnly(st, dp, st2, dp2) ==
  \A i \in Jobs :
    \/ st2[i] = st[i] /\ dp2[i] = dp[i]
    \/ OnTable(i) /\ st[i] = "Pending" /\ st2[i] = "Failed" /\ dp2[i] \in {dp[i], "failed"}

\* apply_failure_policy fails pending rows only.
LEMMA PolicyFails ==
  ASSUME NEW j \in Jobs, NEW st \in [Jobs -> JobStatuses], NEW dp \in [Jobs -> DepStatuses]
  PROVE  LET s == ApplyFailurePolicy(j, st, dp) IN FailsOnly(st, dp, s.status, s.dep)
<1> DEFINE stopped == IF InWorkflow(j) /\ policy = "FailFast"
                        THEN {i \in WorkflowJobs \ {j} : OnTable(i) /\ st[i] = "Pending"}
                        ELSE {}
           st1 == SetAll(st, stopped, "Failed")
           dp1 == SetAll(dp, {i \in stopped : dp[i] = "waiting"}, "failed")
           failed == IF InWorkflow(j) /\ policy = "Manual"
                       THEN {} ELSE FailDependents(j, st1, dp1)
<1>1. \A i \in stopped : OnTable(i) /\ st[i] = "Pending"
  OBVIOUS
<1>2. \A i \in Jobs : /\ st1[i] = IF i \in stopped THEN "Failed" ELSE st[i]
                      /\ dp1[i] = IF i \in stopped /\ dp[i] = "waiting" THEN "failed" ELSE dp[i]
  <2> HIDE DEF stopped
  <2> QED BY DEF SetAll
<1>3. \A i \in failed : OnTable(i) /\ st1[i] = "Pending"
  <2> HIDE DEF st1, dp1
  <2> QED BY DEF FailDependents, Reached
<1>4. \A i \in Jobs : /\ SetAll(st1, failed, "Failed")[i] = IF i \in failed THEN "Failed" ELSE st1[i]
                      /\ SetAll(dp1, failed, "failed")[i] = IF i \in failed THEN "failed" ELSE dp1[i]
  <2> HIDE DEF st1, dp1, failed
  <2> QED BY DEF SetAll
<1>5. ApplyFailurePolicy(j, st, dp) = [status |-> SetAll(st1, failed, "Failed"),
                                       dep |-> SetAll(dp1, failed, "failed")]
  BY DEF ApplyFailurePolicy
<1> DEFINE st2 == SetAll(st1, failed, "Failed")
           dp2 == SetAll(dp1, failed, "failed")
<1> HIDE DEF stopped, st1, dp1, failed, st2, dp2
<1>6. FailsOnly(st, dp, st2, dp2)
  <2> SUFFICES ASSUME NEW i \in Jobs
               PROVE  \/ st2[i] = st[i] /\ dp2[i] = dp[i]
                      \/ /\ OnTable(i) /\ st[i] = "Pending" /\ st2[i] = "Failed"
                         /\ dp2[i] \in {dp[i], "failed"}
    BY DEF FailsOnly
  <2>1. /\ st2[i] = (IF i \in failed THEN "Failed" ELSE st1[i])
        /\ dp2[i] = (IF i \in failed THEN "failed" ELSE dp1[i])
    BY <1>4 DEF st2, dp2
  <2> QED BY <1>1, <1>2, <1>3, <2>1
<1> QED BY <1>5, <1>6 DEF st2, dp2

\* apply_batch_outcome fails pending rows of the batch only, and none when
\* the job has completed.
LEMMA BatchFailsRows ==
  ASSUME NEW j \in Jobs, NEW end, NEW st \in [Jobs -> JobStatuses]
  PROVE  LET s == ApplyBatchOutcome(j, end, st).status IN
         /\ end = "Completed" => s = st
         /\ \A i \in Jobs :
              \/ s[i] = st[i]
              \/ OnTable(i) /\ i \in BatchJobs /\ st[i] = "Pending" /\ s[i] = "Failed"
<1> DEFINE failFast == end # "Completed" /\ mode = "FailFast"
           cancelled == IF failFast THEN {i \in BatchJobs : OnTable(i) /\ st[i] = "Pending"}
                        ELSE {}
           st1 == SetAll(st, cancelled, "Failed")
<1>1. /\ \A i \in cancelled : i \in BatchJobs /\ OnTable(i) /\ st[i] = "Pending"
      /\ end = "Completed" => cancelled = {}
  OBVIOUS
<1>2. /\ st1 \in [Jobs -> JobStatuses]
      /\ \A i \in Jobs : st1[i] = IF i \in cancelled THEN "Failed" ELSE st[i]
  <2> HIDE DEF cancelled
  <2>1. "Failed" \in JobStatuses
    BY DEF JobStatuses, Finished
  <2> QED BY <2>1 DEF SetAll
<1>3. ApplyBatchOutcome(j, end, st).status \in {st, st1}
  BY DEF ApplyBatchOutcome
<1> HIDE DEF st1, cancelled
<1>4. end = "Completed" => st1 = st
  BY <1>1, <1>2
<1> QED BY <1>1, <1>2, <1>3, <1>4

\* A transition to a failure fails the job itself and pending rows; a
\* completion changes the job's status and releases dependents.
LEMMA TerminalEffect ==
  ASSUME RowTypeOK, NEW j \in Jobs, NEW end \in Finished
  PROVE  LET s == AfterTerminal(j, end)
             st0 == [status EXCEPT ![j] = end]
         IN  /\ s.status \in [Jobs -> JobStatuses] /\ s.dep \in [Jobs -> DepStatuses]
             /\ end = "Completed" => s.status = st0 /\ s.dep = ResolveDependents(j, st0, dep)
             /\ end # "Completed" => FailsOnly(st0, dep, s.status, s.dep)
<1> DEFINE st0 == [status EXCEPT ![j] = end]
           p == ApplyFailurePolicy(j, st0, dep)
           s == AfterTerminal(j, end)
<1>1. st0 \in [Jobs -> JobStatuses] /\ dep \in [Jobs -> DepStatuses]
  BY DEF RowTypeOK, JobStatuses, DepStatuses
<1>2. s.status \in [Jobs -> JobStatuses] /\ s.dep \in [Jobs -> DepStatuses]
  BY TerminalRows
<1>3. CASE end = "Completed"
  <2>1. /\ s.status = ApplyBatchOutcome(j, end, st0).status
        /\ s.dep = ResolveDependents(j, st0, dep)
    BY <1>3 DEF AfterTerminal
  <2> HIDE DEF st0, s
  <2>2. s.status = st0
    BY <1>1, <1>3, <2>1, BatchFailsRows
  <2> QED BY <1>2, <1>3, <2>1, <2>2 DEF st0, s
<1>4. CASE end # "Completed"
  <2>1. /\ s.status = ApplyBatchOutcome(j, end, p.status).status
        /\ s.dep = p.dep
    BY <1>4 DEF AfterTerminal
  <2> HIDE DEF st0
  <2>2. /\ FailsOnly(st0, dep, p.status, p.dep)
        /\ p.status \in [Jobs -> JobStatuses]
    BY <1>1, PolicyFails, PolicyRows
  <2> HIDE DEF p, s
  <2>3. \A i \in Jobs :
          \/ s.status[i] = p.status[i]
          \/ OnTable(i) /\ p.status[i] = "Pending" /\ s.status[i] = "Failed"
    BY <2>1, <2>2, BatchFailsRows
  <2>4. FailsOnly(st0, dep, s.status, s.dep)
    BY <2>1, <2>2, <2>3 DEF FailsOnly
  <2> QED BY <1>2, <1>4, <2>4 DEF st0, s
<1> QED BY <1>3, <1>4

\* The jobs of new that insert_dependent_jobs inserts as failed, and those it
\* releases at once.
FailedNew(new, st) ==
  Reached({i \in new : BuiltDep(i) = "waiting"}, {p \in Jobs \ new : ParentFailed(p, st)})

ReadyNew(new, st) ==
  {i \in new : /\ BuiltDep(i) = "waiting"
               /\ \A p \in DependsOn[i] : p \notin new /\ ParentCompleted(p, st)}

\* The columns s that an insertion of new leaves of st and dp, row by row.
NewRows(s, new, st, dp) ==
  /\ FailedNew(new, st) \subseteq new
  /\ \A i \in Jobs \ new : s.status[i] = st[i] /\ s.dep[i] = dp[i]
  /\ \A i \in FailedNew(new, st) : s.status[i] = "Failed" /\ s.dep[i] = "failed"
  /\ \A i \in new \ FailedNew(new, st) :
       /\ s.status[i] = "Pending"
       /\ s.dep[i] = IF i \in ReadyNew(new, st) THEN "satisfied" ELSE BuiltDep(i)

\* insert_dependent_jobs leaves these rows.
LEMMA InsertEffect ==
  ASSUME NEW new \in SUBSET Jobs,
         NEW st \in [Jobs -> JobStatuses], NEW dp \in [Jobs -> DepStatuses]
  PROVE  NewRows(InsertJobs(new, st, dp), new, st, dp)
<1> DEFINE failed == FailedNew(new, st)
           ready == ReadyNew(new, st)
           built == [i \in Jobs |-> IF i \in new THEN BuiltDep(i) ELSE dp[i]]
<1>1. failed \subseteq new /\ ready \subseteq new
  BY DEF FailedNew, ReadyNew, Reached
<1>2. ready = {i \in {k \in new : BuiltDep(k) = "waiting"} :
                 \A p \in DependsOn[i] : p \notin new /\ ParentCompleted(p, st)}
  BY DEF ReadyNew
<1>3. InsertJobs(new, st, dp) =
        [status |-> SetAll(SetAll(st, new, "Pending"), failed, "Failed"),
         dep |-> SetAll(SetAll(built, ready, "satisfied"), failed, "failed")]
  BY <1>2 DEF InsertJobs, FailedNew
<1> HIDE DEF failed, ready
<1>4. \A i \in Jobs : SetAll(SetAll(st, new, "Pending"), failed, "Failed")[i] =
                        IF i \in failed THEN "Failed" ELSE IF i \in new THEN "Pending" ELSE st[i]
  BY DEF SetAll
<1>5. \A i \in Jobs : SetAll(SetAll(built, ready, "satisfied"), failed, "failed")[i] =
                        IF i \in failed THEN "failed" ELSE IF i \in ready THEN "satisfied"
                        ELSE IF i \in new THEN BuiltDep(i) ELSE dp[i]
  BY DEF SetAll
<1> HIDE DEF built
<1>6. /\ \A i \in Jobs \ new : InsertJobs(new, st, dp).status[i] = st[i]
                               /\ InsertJobs(new, st, dp).dep[i] = dp[i]
      /\ \A i \in failed : InsertJobs(new, st, dp).status[i] = "Failed"
                           /\ InsertJobs(new, st, dp).dep[i] = "failed"
      /\ \A i \in new \ failed :
           /\ InsertJobs(new, st, dp).status[i] = "Pending"
           /\ InsertJobs(new, st, dp).dep[i] = IF i \in ready THEN "satisfied" ELSE BuiltDep(i)
  BY <1>1, <1>3, <1>4, <1>5
<1> QED BY <1>1, <1>6 DEF failed, ready, NewRows

-----------------------------------------------------------------------------
(* Waiting jobs.                                                           *)

\* The columns st and dp leave no job of the table waiting for nothing, and a
\* running one has a dependency status that allows it.
WaitRows(st, dp) ==
  \A i \in Jobs : OnTable(i) =>
    /\ st[i] = "Running" => dp[i] \in {"none", "satisfied"}
    /\ st[i] = "Pending" /\ dp[i] \notin {"none", "satisfied"} /\ i \notin revived =>
         dp[i] = "waiting" /\ \E d \in DependsOn[i] : ~ParentCompleted(d, st)

\* The inductive invariant behind NotForgotten.
WaitingInv == DependencyInv /\ WaitRows(status, dep)

\* Failing pending rows leaves nobody waiting for nothing.
LEMMA WaitRowsFail ==
  ASSUME NEW st, NEW dp, NEW st2, NEW dp2, WaitRows(st, dp), FailsOnly(st, dp, st2, dp2)
  PROVE  WaitRows(st2, dp2)
<1>1. \A d \in Jobs : ParentCompleted(d, st2) => ParentCompleted(d, st)
  BY DEF ParentCompleted, FailsOnly
<1>2. \A i \in Jobs : DependsOn[i] \subseteq Jobs
  BY WorkflowsAssumptions
<1> SUFFICES ASSUME NEW i \in Jobs, OnTable(i)
             PROVE  /\ st2[i] = "Running" => dp2[i] \in {"none", "satisfied"}
                    /\ st2[i] = "Pending" /\ dp2[i] \notin {"none", "satisfied"} /\ i \notin revived =>
                         dp2[i] = "waiting" /\ \E d \in DependsOn[i] : ~ParentCompleted(d, st2)
  BY DEF WaitRows
<1>3. CASE st2[i] = st[i] /\ dp2[i] = dp[i]
  BY <1>1, <1>2, <1>3 DEF WaitRows
<1>4. CASE st2[i] = "Failed"
  BY <1>4
<1> QED BY <1>3, <1>4 DEF FailsOnly

\* Neither does the end of a job: a failure releases nobody, and a completion
\* releases those that waited for it last.
LEMMA WaitRowsTerminal ==
  ASSUME RowTypeOK, WaitRows(status, dep), NEW j \in Jobs, NEW end \in Finished
  PROVE  WaitRows(AfterTerminal(j, end).status, AfterTerminal(j, end).dep)
<1> DEFINE st0 == [status EXCEPT ![j] = end]
           s == AfterTerminal(j, end)
<1>1. \A i \in Jobs : st0[i] = IF i = j THEN end ELSE status[i]
  BY DEF RowTypeOK
<1>2. /\ end = "Completed" => s.status = st0 /\ s.dep = ResolveDependents(j, st0, dep)
      /\ end # "Completed" => FailsOnly(st0, dep, s.status, s.dep)
  BY TerminalEffect
<1>3. \A i \in Jobs : DependsOn[i] \subseteq Jobs
  BY WorkflowsAssumptions
<1> HIDE DEF st0, s
<1>4. CASE end # "Completed"
  <2>1. \A d \in Jobs : ParentCompleted(d, st0) => ParentCompleted(d, status)
    BY <1>1, <1>4 DEF ParentCompleted
  <2>2. WaitRows(st0, dep)
    <3> SUFFICES ASSUME NEW i \in Jobs, OnTable(i)
                 PROVE  /\ st0[i] = "Running" => dep[i] \in {"none", "satisfied"}
                        /\ st0[i] = "Pending" /\ dep[i] \notin {"none", "satisfied"}
                             /\ i \notin revived
                           => dep[i] = "waiting" /\ \E d \in DependsOn[i] : ~ParentCompleted(d, st0)
      BY DEF WaitRows
    <3>1. CASE i = j
      BY <1>1, <3>1 DEF Finished
    <3>2. CASE i # j
      BY <1>1, <1>3, <2>1, <3>2 DEF WaitRows
    <3> QED BY <3>1, <3>2
  <2> QED BY <1>2, <1>4, <2>2, WaitRowsFail DEF s
<1>5. CASE end = "Completed"
  <2> DEFINE dp == ResolveDependents(j, st0, dep)
  <2>1. \A i \in Jobs :
          dp[i] = IF /\ OnTable(i) /\ j \in DependsOn[i]
                     /\ dep[i] = "waiting" /\ st0[i] = "Pending"
                     /\ \A d \in DependsOn[i] : ParentCompleted(d, st0)
                  THEN "satisfied" ELSE dep[i]
    BY DEF ResolveDependents, SetAll, ParentCompleted
  <2> HIDE DEF dp
  <2>2. WaitRows(st0, dp)
    <3> SUFFICES ASSUME NEW i \in Jobs, OnTable(i)
                 PROVE  /\ st0[i] = "Running" => dp[i] \in {"none", "satisfied"}
                        /\ st0[i] = "Pending" /\ dp[i] \notin {"none", "satisfied"}
                             /\ i \notin revived
                           => dp[i] = "waiting" /\ \E d \in DependsOn[i] : ~ParentCompleted(d, st0)
      BY DEF WaitRows
    <3>1. st0[i] = "Running" => dp[i] \in {"none", "satisfied"}
      BY <1>1, <1>5, <2>1 DEF WaitRows
    <3>2. ASSUME st0[i] = "Pending", dp[i] \notin {"none", "satisfied"}, i \notin revived
          PROVE  dp[i] = "waiting" /\ \E d \in DependsOn[i] : ~ParentCompleted(d, st0)
      <4>1. i # j /\ dp[i] = dep[i] /\ status[i] = "Pending"
        BY <1>1, <1>5, <2>1, <3>2
      <4>2. dep[i] = "waiting" /\ \E d \in DependsOn[i] : ~ParentCompleted(d, status)
        BY <3>2, <4>1 DEF WaitRows
      <4>3. CASE j \in DependsOn[i]
        BY <2>1, <3>2, <4>1, <4>2, <4>3
      <4>4. CASE j \notin DependsOn[i]
        <5>1. \A d \in DependsOn[i] : st0[d] = status[d]
          BY <1>1, <1>3, <4>4
        <5> QED BY <4>1, <4>2, <5>1 DEF ParentCompleted
      <4> QED BY <4>3, <4>4
    <3> QED BY <3>1, <3>2
  <2> QED BY <1>2, <1>5, <2>2 DEF s, dp
<1> QED BY <1>4, <1>5

\* An insertion leaves no new job waiting for nothing, nor an old one.
LEMMA WaitRowsInsert ==
  ASSUME NEW new \in SUBSET Jobs,
         NEW st \in [Jobs -> JobStatuses], NEW dp \in [Jobs -> DepStatuses],
         RowTypeOK, WaitRows(st, dp),
         status' = InsertJobs(new, st, dp).status, dep' = InsertJobs(new, st, dp).dep,
         place' = Born(new), UNCHANGED revived
  PROVE  WaitRows(status, dep)'
<1> DEFINE failed == FailedNew(new, st)
           ready == ReadyNew(new, st)
           s == InsertJobs(new, st, dp)
<1>0. /\ failed \subseteq new
      /\ \A i \in Jobs \ new : s.status[i] = st[i] /\ s.dep[i] = dp[i]
      /\ \A i \in failed : s.status[i] = "Failed" /\ s.dep[i] = "failed"
      /\ \A i \in new \ failed : /\ s.status[i] = "Pending"
                                 /\ s.dep[i] = IF i \in ready THEN "satisfied" ELSE BuiltDep(i)
  <2>1. NewRows(s, new, st, dp)
    BY InsertEffect
  <2> HIDE DEF s
  <2> QED BY <2>1 DEF NewRows
<1>1. /\ failed \subseteq new
      /\ \A i \in Jobs \ new : status'[i] = st[i] /\ dep'[i] = dp[i]
      /\ \A i \in failed : status'[i] = "Failed" /\ dep'[i] = "failed"
      /\ \A i \in new \ failed : /\ status'[i] = "Pending"
                                 /\ dep'[i] = IF i \in ready THEN "satisfied" ELSE BuiltDep(i)
  <2> HIDE DEF failed, ready
  <2>1. status' = s.status /\ dep' = s.dep
    OBVIOUS
  <2> HIDE DEF s
  <2> QED BY <1>0, <2>1
<1>2. \A i \in Jobs : place'[i] = IF i \in new THEN "table" ELSE place[i]
  BY DEF Born
<1>3. \A i \in Jobs : DependsOn[i] \subseteq Jobs
  BY WorkflowsAssumptions
<1>4. \A i \in ready : i \in new
  BY DEF ReadyNew
<1>5. \A i \in new \ ready : BuiltDep(i) = "waiting" =>
        \E p \in DependsOn[i] : p \in new \/ ~ParentCompleted(p, st)
  BY DEF ReadyNew
<1>6. \A i \in Jobs : BuiltDep(i) \in {"none", "waiting"}
  BY DEF BuiltDep
<1> HIDE DEF failed, ready
<1>7. \A p \in Jobs : ParentCompleted(p, status)' => p \notin new /\ ParentCompleted(p, st)
  BY <1>1, <1>2 DEF ParentCompleted, Kept
<1> SUFFICES ASSUME NEW i \in Jobs, OnTable(i)'
             PROVE  /\ status'[i] = "Running" => dep'[i] \in {"none", "satisfied"}
                    /\ status'[i] = "Pending" /\ dep'[i] \notin {"none", "satisfied"}
                         /\ i \notin revived'
                       => dep'[i] = "waiting" /\ \E d \in DependsOn[i] : ~ParentCompleted(d, status)'
  BY DEF WaitRows
<1>8. CASE i \notin new
  <2>1. OnTable(i) /\ status'[i] = st[i] /\ dep'[i] = dp[i]
    BY <1>1, <1>2, <1>8 DEF OnTable
  <2> QED BY <1>3, <1>7, <2>1 DEF WaitRows
<1>9. CASE i \in failed
  BY <1>1, <1>9
<1>10. CASE i \in new \ failed
  BY <1>1, <1>3, <1>5, <1>6, <1>7, <1>10
<1> QED BY <1>8, <1>9, <1>10

\* A job that is put back by hand to wait has something to wait for.
LEMMA ReevaluatedWaits ==
  ASSUME NEW j \in Jobs, NEW r \in ReevaluatedDeps(j)
  PROVE  /\ r \in {"none", "satisfied", "waiting"}
         /\ r = "waiting" => /\ \E d \in DependsOn[j] : status[d] # "Completed"
                             /\ \A d \in DependsOn[j] : Kept(d) /\ status[d] \notin FailedStatuses
<1>1. CASE DependsOn[j] = {}
  BY <1>1 DEF ReevaluatedDeps
<1>2. CASE DependsOn[j] # {} /\ dep[j] = "satisfied"
  BY <1>2 DEF ReevaluatedDeps
<1>3. CASE DependsOn[j] # {} /\ dep[j] # "satisfied"
  <2>1. ReevaluatedDeps(j) =
          IF \E d \in DependsOn[j] : ~Kept(d) \/ status[d] \in FailedStatuses THEN {}
          ELSE IF \A d \in DependsOn[j] : status[d] = "Completed" THEN {"satisfied"}
          ELSE {"waiting"}
    BY <1>3 DEF ReevaluatedDeps
  <2> QED BY <2>1
<1> QED BY <1>1, <1>2, <1>3

\* A row of the table that is put back, with a dependency status that
\* reevaluate_dependencies allows.
LEMMA WaitRowsPutBack ==
  ASSUME RowTypeOK, WaitRows(status, dep), NEW j \in Jobs, NEW r \in ReevaluatedDeps(j),
         dep' = [dep EXCEPT ![j] = r], status' = [status EXCEPT ![j] = "Pending"],
         \A i \in Jobs \ {j} : place'[i] = place[i], UNCHANGED revived
  PROVE  WaitRows(status, dep)'
<1>1. \A i \in Jobs : DependsOn[i] \subseteq Jobs
  BY WorkflowsAssumptions
<1>2. \A i \in Jobs : /\ status'[i] = IF i = j THEN "Pending" ELSE status[i]
                      /\ dep'[i] = IF i = j THEN r ELSE dep[i]
  BY DEF RowTypeOK
<1>3. \A i \in Jobs : ParentCompleted(i, status)' => i # j /\ ParentCompleted(i, status)
  BY <1>2 DEF ParentCompleted, Kept
<1> SUFFICES ASSUME NEW i \in Jobs, OnTable(i)'
             PROVE  /\ status'[i] = "Running" => dep'[i] \in {"none", "satisfied"}
                    /\ status'[i] = "Pending" /\ dep'[i] \notin {"none", "satisfied"}
                         /\ i \notin revived'
                       => dep'[i] = "waiting" /\ \E d \in DependsOn[i] : ~ParentCompleted(d, status)'
  BY DEF WaitRows
<1>4. CASE i = j
  <2>1. r \notin {"none", "satisfied"} =>
          r = "waiting" /\ \E d \in DependsOn[j] : status[d] # "Completed"
    BY ReevaluatedWaits
  <2>2. r \notin {"none", "satisfied"} =>
          r = "waiting" /\ \E d \in DependsOn[j] : ~ParentCompleted(d, status)'
    BY <1>1, <1>3, <2>1 DEF ParentCompleted
  <2>3. DependsOn[i] = DependsOn[j] /\ status'[i] = "Pending" /\ dep'[i] = r
    BY <1>2, <1>4
  <2> QED BY ONLY <2>2, <2>3
<1>5. CASE i # j
  <2>1. OnTable(i) /\ status'[i] = status[i] /\ dep'[i] = dep[i]
    BY <1>2, <1>5 DEF OnTable
  <2> QED BY <1>1, <1>3, <2>1 DEF WaitRows
<1> QED BY <1>4, <1>5

\* Where rows leave the table, or nothing else happens, nobody waits for less.
LEMMA WaitRowsFewer ==
  ASSUME WaitRows(status, dep), UNCHANGED <<status, dep, revived>>,
         \A i \in Jobs : (OnTable(i)' => OnTable(i)) /\ (Kept(i)' => Kept(i))
  PROVE  WaitRows(status, dep)'
<1>1. \A i \in Jobs : DependsOn[i] \subseteq Jobs
  BY WorkflowsAssumptions
<1>2. \A i \in Jobs : ParentCompleted(i, status)' => ParentCompleted(i, status)
  BY DEF ParentCompleted
<1> QED BY <1>1, <1>2 DEF WaitRows

\* The status of one row of the table changes to one that is not Completed.
LEMMA WaitRowsOne ==
  ASSUME RowTypeOK, WaitRows(status, dep), NEW j \in Jobs, NEW v, v # "Completed",
         status' = [status EXCEPT ![j] = v], UNCHANGED <<place, dep>>,
         revived' \in {revived, revived \union {j}},
         v \in {"Pending", "Running"} => dep[j] \in {"none", "satisfied"} \/ j \in revived',
         v = "Running" => dep[j] \in {"none", "satisfied"}
  PROVE  WaitRows(status, dep)'
<1>1. \A i \in Jobs : DependsOn[i] \subseteq Jobs
  BY WorkflowsAssumptions
<1>2. \A i \in Jobs : status'[i] = IF i = j THEN v ELSE status[i]
  BY DEF RowTypeOK
<1>3. \A i \in Jobs : ParentCompleted(i, status)' => ParentCompleted(i, status)
  BY <1>2 DEF ParentCompleted, Kept
<1>4. \A i \in Jobs : OnTable(i)' = OnTable(i)
  BY DEF OnTable
<1> SUFFICES ASSUME NEW i \in Jobs, OnTable(i)'
             PROVE  /\ status'[i] = "Running" => dep'[i] \in {"none", "satisfied"}
                    /\ status'[i] = "Pending" /\ dep'[i] \notin {"none", "satisfied"}
                         /\ i \notin revived'
                       => dep'[i] = "waiting" /\ \E d \in DependsOn[i] : ~ParentCompleted(d, status)'
  BY DEF WaitRows
<1>5. CASE i = j
  BY <1>2, <1>5
<1>6. CASE i # j
  BY <1>1, <1>2, <1>3, <1>4, <1>6 DEF WaitRows
<1> QED BY <1>5, <1>6

\* The columns of a state, as the next one has them.
LEMMA WaitRowsNow ==
  ASSUME NEW st, NEW dp, WaitRows(st, dp), status' = st, dep' = dp, UNCHANGED <<place, revived>>
  PROVE  WaitRows(status, dep)'
<1>1. \A i \in Jobs : OnTable(i)' = OnTable(i) /\ Kept(i)' = Kept(i)
  BY DEF OnTable, Kept
<1>2. \A i \in Jobs : DependsOn[i] \subseteq Jobs
  BY WorkflowsAssumptions
<1>3. \A i \in Jobs : ParentCompleted(i, status)' <=> ParentCompleted(i, st)
  BY <1>1 DEF ParentCompleted
<1> QED BY <1>1, <1>2, <1>3 DEF WaitRows

\* The end of a run or a transition by hand.
LEMMA WaitRowsTerminate ==
  ASSUME RowTypeOK, WaitRows(status, dep), NEW j \in Jobs, NEW end \in Finished, Terminate(j, end)
  PROVE  WaitRows(status, dep)'
<1>1. WaitRows(AfterTerminal(j, end).status, AfterTerminal(j, end).dep)
  BY WaitRowsTerminal
<1>2. /\ status' = AfterTerminal(j, end).status /\ dep' = AfterTerminal(j, end).dep
      /\ UNCHANGED <<place, revived>>
  BY DEF Terminate
<1> QED BY <1>1, <1>2, WaitRowsNow

\* Every step keeps the waiting rows.
LEMMA NextWaits == WaitingInv /\ [Next]_vars => WaitRows(status, dep)'
<1> SUFFICES ASSUME WaitingInv, [Next]_vars PROVE WaitRows(status, dep)'
  OBVIOUS
<1>0. /\ RowTypeOK /\ WaitRows(status, dep)
      /\ status \in [Jobs -> JobStatuses] /\ dep \in [Jobs -> DepStatuses]
  BY DEF WaitingInv, DependencyInv, RowTypeOK, JobStatuses, DepStatuses
<1>1. CASE UNCHANGED vars
  BY <1>0, <1>1, WaitRowsNow DEF vars, ghostVars
<1>2. CASE EnqueueWorkflow
  <2>1. Members \in SUBSET Jobs
    BY WorkflowsAssumptions
  <2> QED BY <1>0, <1>2, <2>1, WaitRowsInsert DEF EnqueueWorkflow
<1>3. CASE EnqueueBatch
  <2>1. BatchJobs \in SUBSET Jobs
    BY WorkflowsAssumptions
  <2> QED BY <1>0, <1>3, <2>1, WaitRowsInsert DEF EnqueueBatch
<1>4. ASSUME NEW j \in Jobs, Enqueue(j) PROVE WaitRows(status, dep)'
  <2> DEFINE new == {j}
  <2>1. /\ new \in SUBSET Jobs
        /\ status' = InsertJobs(new, status, dep).status /\ dep' = InsertJobs(new, status, dep).dep
        /\ place' = Born(new) /\ UNCHANGED revived
    BY <1>4 DEF Enqueue
  <2> HIDE DEF new
  <2> QED BY ONLY <1>0, <2>1, WaitRowsInsert
<1>5. ASSUME NEW j \in Jobs, Claim(j) PROVE WaitRows(status, dep)'
  <2> DEFINE v == "Running"
  <2>1. /\ v # "Completed" /\ status' = [status EXCEPT ![j] = v] /\ UNCHANGED <<place, dep>>
        /\ revived' = revived /\ dep[j] \in {"none", "satisfied"}
    BY <1>5 DEF Claim, ghostVars
  <2> HIDE DEF v
  <2> QED BY <1>0, <2>1, WaitRowsOne
<1>6. ASSUME NEW j \in Jobs, FinishRun(j) PROVE WaitRows(status, dep)'
  <2>1. PICK end \in {"Completed", "Dead", "TimedOut"} : Terminate(j, end)
    BY <1>6 DEF FinishRun
  <2> QED BY <1>0, <2>1, WaitRowsTerminate DEF Finished
<1>7. ASSUME NEW j \in Jobs, RetryRun(j) PROVE WaitRows(status, dep)'
  <2> DEFINE v == "Pending"
  <2>1. /\ v # "Completed" /\ v # "Running"
        /\ status' = [status EXCEPT ![j] = v] /\ UNCHANGED <<place, dep>>
        /\ revived' = revived /\ OnTable(j) /\ status[j] = "Running"
    BY <1>7 DEF RetryRun, ghostVars
  <2>2. dep[j] \in {"none", "satisfied"}
    BY <1>0, <2>1 DEF WaitRows
  <2> HIDE DEF v
  <2> QED BY <1>0, <2>1, <2>2, WaitRowsOne
<1>8. ASSUME NEW j \in Jobs, FinishRunWithChildren(j) PROVE WaitRows(status, dep)'
  <2> DEFINE s == AfterTerminal(j, "Completed")
  <2>1. /\ s.status \in [Jobs -> JobStatuses] /\ s.dep \in [Jobs -> DepStatuses]
        /\ WaitRows(s.status, s.dep)
    BY <1>0, TerminalEffect, WaitRowsTerminal DEF Finished
  <2>2. /\ status' = InsertJobs(Children[j], s.status, s.dep).status
        /\ dep' = InsertJobs(Children[j], s.status, s.dep).dep
        /\ place' = Born(Children[j]) /\ UNCHANGED revived
    BY <1>8 DEF FinishRunWithChildren
  <2>3. Children[j] \in SUBSET Jobs
    BY WorkflowsAssumptions
  <2> HIDE DEF s
  <2> QED BY <1>0, <2>1, <2>2, <2>3, WaitRowsInsert
<1>9. ASSUME NEW j \in Jobs, CompleteJob(j) \/ FailJob(j) \/ MarkJobDead(j) \/ MarkJobTimedOut(j)
      PROVE  WaitRows(status, dep)'
  <2>1. PICK end \in {"Completed", "Failed", "Dead", "TimedOut"} : Terminate(j, end)
    BY <1>9 DEF CompleteJob, FailJob, MarkJobDead, MarkJobTimedOut, ManualTerminal
  <2> QED BY <1>0, <2>1, WaitRowsTerminate DEF Finished
<1>10. ASSUME NEW j \in Jobs, RetryJob(j) \/ RestoreArchivedJob(j) PROVE WaitRows(status, dep)'
  <2>1. PICK r \in ReevaluatedDeps(j) : dep' = [dep EXCEPT ![j] = r]
    BY <1>10 DEF RetryJob, RestoreArchivedJob
  <2>2. /\ status' = [status EXCEPT ![j] = "Pending"] /\ UNCHANGED revived
        /\ \A i \in Jobs \ {j} : place'[i] = place[i]
    BY <1>0, <1>10 DEF RetryJob, RestoreArchivedJob, RowTypeOK
  <2> QED BY <1>0, <2>1, <2>2, WaitRowsPutBack
<1>11. ASSUME NEW j \in Jobs, RetryDeadJob(j) PROVE WaitRows(status, dep)'
  <2> DEFINE v == "Pending"
  <2>1. /\ v # "Completed" /\ v # "Running"
        /\ status' = [status EXCEPT ![j] = v] /\ UNCHANGED <<place, dep>>
        /\ revived' = revived \union {j}
    BY <1>11 DEF RetryDeadJob
  <2> HIDE DEF v
  <2> QED BY <1>0, <2>1, WaitRowsOne
<1>12. ASSUME NEW j \in Jobs, ArchiveJob(j) \/ DeleteJob(j) PROVE WaitRows(status, dep)'
  <2>1. \A i \in Jobs : (OnTable(i)' => OnTable(i)) /\ (Kept(i)' => Kept(i))
    BY <1>0, <1>12 DEF ArchiveJob, DeleteJob, OnTable, Kept, RowTypeOK, ghostVars
  <2>2. UNCHANGED <<status, dep, revived>>
    BY <1>12 DEF ArchiveJob, DeleteJob, ghostVars
  <2> QED BY <1>0, <2>1, <2>2, WaitRowsFewer
<1>13. ASSUME NEW j \in Jobs, FailJobDependencies(j) PROVE WaitRows(status, dep)'
  <2> DEFINE s == ApplyFailurePolicy(j, status, dep)
  <2>1. FailsOnly(status, dep, s.status, s.dep)
    BY <1>0, PolicyFails
  <2>2. status' = s.status /\ dep' = s.dep /\ UNCHANGED <<place, revived>>
    BY <1>13 DEF FailJobDependencies
  <2> HIDE DEF s
  <2>3. WaitRows(s.status, s.dep)
    BY <1>0, <2>1, WaitRowsFail
  <2> QED BY <2>2, <2>3, WaitRowsNow
<1>14. ASSUME NEW j \in Jobs, ResolveJobDependencies(j) PROVE WaitRows(status, dep)'
  <2>1. /\ \A i \in Jobs : dep'[i] = dep[i] \/ dep'[i] = "satisfied"
        /\ UNCHANGED <<place, status, revived>>
    BY <1>0, <1>14, ResolveRows DEF ResolveJobDependencies, ghostVars
  <2>2. \A i \in Jobs : OnTable(i)' = OnTable(i) /\ Kept(i)' = Kept(i)
    BY <2>1 DEF OnTable, Kept
  <2>3. \A i \in Jobs : DependsOn[i] \subseteq Jobs
    BY WorkflowsAssumptions
  <2>4. \A i \in Jobs : ParentCompleted(i, status)' <=> ParentCompleted(i, status)
    BY <2>1, <2>2 DEF ParentCompleted
  <2> QED BY <1>0, <2>1, <2>2, <2>3, <2>4 DEF WaitRows
<1>15. CASE DeleteBatch
  <2>1. \A i \in Jobs : (OnTable(i)' => OnTable(i)) /\ (Kept(i)' => Kept(i))
    BY <1>15 DEF DeleteBatch, OnTable, Kept, ghostVars
  <2>2. UNCHANGED <<status, dep, revived>>
    BY <1>15 DEF DeleteBatch, ghostVars
  <2> QED BY <1>0, <2>1, <2>2, WaitRowsFewer
<1>16. CASE CancelWorkflow
  <2>1. /\ \A i \in Jobs : \/ status'[i] = status[i] /\ dep'[i] = dep[i]
                           \/ status'[i] = "Failed"
        /\ UNCHANGED <<place, revived>>
    BY <1>0, <1>16 DEF CancelWorkflow, SetAll, ghostVars
  <2>2. \A i \in Jobs : OnTable(i)' = OnTable(i) /\ Kept(i)' = Kept(i)
    BY <2>1 DEF OnTable, Kept
  <2>3. \A i \in Jobs : DependsOn[i] \subseteq Jobs
    BY WorkflowsAssumptions
  <2>4. \A i \in Jobs : ParentCompleted(i, status)' => ParentCompleted(i, status)
    BY <2>1, <2>2 DEF ParentCompleted
  <2> QED BY <1>0, <2>1, <2>2, <2>3, <2>4 DEF WaitRows
<1> QED
  BY <1>1, <1>2, <1>3, <1>4, <1>5, <1>6, <1>7, <1>8, <1>9, <1>10, <1>11, <1>12, <1>13, <1>14,
     <1>15, <1>16
  DEF Next, RunStep, OperatorStep

\* The waiting invariant holds in every reachable state, for every graph.
LEMMA WaitingInvariant == Spec => []WaitingInv
<1>1. Init => WaitingInv
  BY DEF Init, WaitingInv, WaitRows, DependencyInv, RowTypeOK, OnTable
<1>2. WaitingInv /\ [Next]_vars => WaitingInv'
  BY NextKeeps, NextWaits DEF WaitingInv
<1> QED BY <1>1, <1>2, PTL DEF Spec

\* No completion is lost on a dependent: a job that waits has a dependency
\* that has yet to complete, in whatever order jobs are enqueued, end, are
\* put back or are deleted (resolve_dependents, settle_new_dependents,
\* reevaluate_dependencies).
THEOREM NobodyForgotten == Spec => []NotForgotten
<1>1. WaitingInv => NotForgotten
  BY DEF WaitingInv, WaitRows, NotForgotten, Blocked, WaitsForSomething
<1> QED BY <1>1, WaitingInvariant, PTL

-----------------------------------------------------------------------------
(* The workflow's row.                                                     *)

WorkflowRows ==
  [status : {"Absent", "Running", "Completed", "Failed", "Cancelled"},
   total : Nat, completed : Nat, failed : Nat]

\* The jobs of the workflow that have been enqueued or spawned so far.
Enqueued == {j \in WorkflowJobs : place[j] # "unborn"}

\* The inductive invariant behind what the workflow reports: total counts the
\* jobs it has had.
CountInv ==
  /\ DependencyInv
  /\ workflow \in WorkflowRows
  /\ workflow.status = "Absent" => Enqueued = {}
  /\ workflow.status # "Absent" =>
       Members # {} /\ Members \subseteq Enqueued /\ workflow.total = Cardinality(Enqueued)

\* Who belongs to the workflow: jobs it is enqueued with, and their children.
LEMMA Belonging ==
  /\ Members \subseteq WorkflowJobs /\ WorkflowJobs \subseteq Jobs
  /\ BatchJobs \subseteq Jobs /\ BatchJobs \intersect WorkflowJobs = {}
  /\ \A j \in Jobs : Children[j] \subseteq Jobs
  /\ \A j \in WorkflowJobs : Children[j] # {} => j \in Members /\ Children[j] \subseteq WorkflowJobs
  /\ \A j \in Jobs \ WorkflowJobs : Children[j] \intersect WorkflowJobs = {}
  /\ \A j \in Jobs : Children[j] \intersect Members = {} /\ Children[j] \intersect BatchJobs = {}
<1>1. /\ Members \subseteq Jobs /\ BatchJobs \subseteq Jobs \ WorkflowJobs
      /\ \A j \in Jobs : Children[j] \subseteq Jobs
      /\ Spawnable \intersect (Members \union BatchJobs) = {}
      /\ \A i, j \in Jobs : i # j => Children[i] \intersect Children[j] = {}
      /\ \A j \in Jobs : \A c \in Children[j] : Children[c] = {}
  BY WorkflowsAssumptions
<1>2. \A c : c \in WorkflowJobs <=> c \in Members \/ \E j \in Members : c \in Children[j]
  BY DEF WorkflowJobs
<1>3. \A j \in Jobs : Children[j] \subseteq Spawnable
  BY DEF Spawnable
<1>4. Members \subseteq WorkflowJobs /\ WorkflowJobs \subseteq Jobs
  BY <1>1, <1>2
<1>5. ASSUME NEW j \in WorkflowJobs, Children[j] # {}
      PROVE  j \in Members /\ Children[j] \subseteq WorkflowJobs
  BY <1>1, <1>2, <1>5
<1>6. ASSUME NEW j \in Jobs \ WorkflowJobs, NEW c \in Children[j]
      PROVE  c \notin WorkflowJobs
  <2>1. j \notin Members /\ c \in Spawnable
    BY <1>3, <1>4, <1>6
  <2>2. c \notin Members
    BY <1>1, <2>1
  <2>3. \A m \in Members : c \notin Children[m]
    BY <1>1, <1>6, <2>1
  <2> QED BY <1>2, <2>2, <2>3
<1> QED BY <1>1, <1>3, <1>4, <1>5, <1>6

\* Counting jobs gives numbers.
LEMMA CountType ==
  ASSUME NEW S \in SUBSET Jobs, NEW st, NEW kept, NEW values
  PROVE  /\ Count(S, st, kept, values) \in Nat
         /\ IsFiniteSet({i \in S \intersect kept : st[i] \in values})
<1>1. IsFiniteSet(Jobs)
  BY WorkflowsAssumptions
<1>2. {i \in S \intersect kept : st[i] \in values} \in SUBSET Jobs
  OBVIOUS
<1>3. IsFiniteSet({i \in S \intersect kept : st[i] \in values})
  BY <1>1, <1>2, FS_Subset
<1> QED BY <1>3, FS_CardinalityType DEF Count

\* What refresh_workflow writes: a cancelled workflow stays cancelled.
LEMMA RefreshedRow ==
  ASSUME NEW st, NEW kept, NEW total \in Nat
  PROVE  LET r == RefreshWorkflow(st, kept, total) IN
         /\ r \in WorkflowRows /\ r.total = total /\ r.status # "Absent"
         /\ r.status = "Cancelled" <=> workflow.status = "Cancelled"
         /\ r.status = ProgressStatus(Count(WorkflowJobs, st, kept, {"Completed"}),
                                      Count(WorkflowJobs, st, kept, FailedStatuses),
                                      total, workflow.status)
<1> DEFINE c == Count(WorkflowJobs, st, kept, {"Completed"})
           f == Count(WorkflowJobs, st, kept, FailedStatuses)
<1>1. c \in Nat /\ f \in Nat
  BY Belonging, CountType
<1>2. RefreshWorkflow(st, kept, total) =
        [status |-> ProgressStatus(c, f, total, workflow.status),
         total |-> total, completed |-> c, failed |-> f]
  BY DEF RefreshWorkflow
<1> HIDE DEF c, f
<1>3. /\ ProgressStatus(c, f, total, workflow.status) \in {"Running", "Completed", "Failed", "Cancelled"}
      /\ ProgressStatus(c, f, total, workflow.status) = "Cancelled" <=> workflow.status = "Cancelled"
  BY DEF ProgressStatus
<1>4. /\ RefreshWorkflow(st, kept, total) \in WorkflowRows
      /\ RefreshWorkflow(st, kept, total).total = total
      /\ RefreshWorkflow(st, kept, total).status = ProgressStatus(c, f, total, workflow.status)
  BY <1>1, <1>2, <1>3 DEF WorkflowRows
<1> QED BY <1>3, <1>4 DEF c, f

\* A terminal transition refreshes the workflow from the columns it leaves,
\* if the job is in it, and leaves it alone otherwise.
LEMMA TerminalWorkflow ==
  ASSUME NEW j \in Jobs, NEW end
  PROVE  LET s == AfterTerminal(j, end) IN
         s.workflow = IF InWorkflow(j) THEN RefreshWorkflow(s.status, KeptJobs, workflow.total)
                      ELSE workflow
<1> DEFINE st0 == [status EXCEPT ![j] = end]
           s1 == IF end = "Completed"
                   THEN [status |-> st0, dep |-> ResolveDependents(j, st0, dep)]
                   ELSE ApplyFailurePolicy(j, st0, dep)
<1>1. /\ AfterTerminal(j, end).workflow = RefreshWorkflowOf(j, s1.status)
      /\ AfterTerminal(j, end).status = ApplyBatchOutcome(j, end, s1.status).status
  BY DEF AfterTerminal
<1> HIDE DEF s1
<1>2. CASE InWorkflow(j)
  <2>1. j \notin BatchJobs
    BY <1>2, Belonging DEF InWorkflow
  <2>2. ApplyBatchOutcome(j, end, s1.status).status = s1.status
    BY <2>1 DEF ApplyBatchOutcome
  <2> QED BY <1>1, <1>2, <2>2 DEF RefreshWorkflowOf
<1>3. CASE ~InWorkflow(j)
  BY <1>1, <1>3 DEF RefreshWorkflowOf
<1> QED BY <1>2, <1>3

\* A refresh, or no change, leaves the count alone while no job is added.
LEMMA CountKept ==
  ASSUME CountInv, DependencyInv', Enqueued' = Enqueued,
         \/ workflow' = workflow
         \/ /\ workflow' \in WorkflowRows /\ workflow'.status # "Absent"
            /\ workflow.status # "Absent" /\ workflow'.total = workflow.total
  PROVE  CountInv'
BY DEF CountInv

\* The end of a run or a transition by hand keeps the count.
LEMMA CountTerminate ==
  ASSUME CountInv, DependencyInv', NEW j \in Jobs, NEW end, OnTable(j), Terminate(j, end)
  PROVE  CountInv'
<1> DEFINE s == AfterTerminal(j, end)
<1>1. Enqueued' = Enqueued /\ workflow' = s.workflow
  BY DEF Terminate, Enqueued
<1>2. s.workflow = IF InWorkflow(j) THEN RefreshWorkflow(s.status, KeptJobs, workflow.total)
                   ELSE workflow
  BY TerminalWorkflow
<1> HIDE DEF s
<1>3. CASE InWorkflow(j)
  <2>1. workflow.status # "Absent" /\ workflow.total \in Nat
    BY <1>3, NotUnborn DEF CountInv, Enqueued, InWorkflow, WorkflowRows
  <2>2. /\ workflow' \in WorkflowRows /\ workflow'.status # "Absent"
        /\ workflow'.total = workflow.total
    BY <1>1, <1>2, <1>3, <2>1, RefreshedRow
  <2> QED BY <1>1, <2>1, <2>2, CountKept
<1>4. CASE ~InWorkflow(j)
  BY <1>1, <1>2, <1>4, CountKept
<1> QED BY <1>3, <1>4

\* Every step keeps the count.
LEMMA NextCounts == CountInv /\ [Next]_vars => CountInv'
<1> SUFFICES ASSUME CountInv, [Next]_vars PROVE CountInv'
  OBVIOUS
<1>0. DependencyInv /\ DependencyInv' /\ RowTypeOK
  BY NextKeeps DEF CountInv, DependencyInv
<1>20. /\ workflow \in WorkflowRows /\ workflow.total \in Nat
       /\ IsFiniteSet(Members) /\ IsFiniteSet(Enqueued) /\ \A j \in Jobs : IsFiniteSet(Children[j])
  <2>1. IsFiniteSet(Jobs) /\ Enqueued \in SUBSET Jobs /\ Members \in SUBSET Jobs
        /\ \A j \in Jobs : Children[j] \in SUBSET Jobs
    BY WorkflowsAssumptions, Belonging DEF Enqueued
  <2> QED BY <2>1, FS_Subset DEF CountInv, WorkflowRows
<1>1. CASE UNCHANGED vars
  BY <1>0, <1>1, CountKept DEF vars, Enqueued, ghostVars
<1>2. CASE EnqueueWorkflow
  <2>1. workflow.status = "Absent" /\ Members # {} /\ place' = Born(Members)
        /\ workflow' = [status |-> "Running", total |-> Cardinality(Members),
                        completed |-> 0, failed |-> 0]
    BY <1>2 DEF EnqueueWorkflow
  <2>2. Enqueued' = Members
    BY <2>1, Belonging DEF Enqueued, Born, CountInv
  <2>3. workflow' \in WorkflowRows /\ workflow'.status = "Running"
        /\ workflow'.total = Cardinality(Members)
    BY <1>20, <2>1, FS_CardinalityType DEF WorkflowRows
  <2> QED BY <1>0, <2>1, <2>2, <2>3 DEF CountInv
<1>3. CASE EnqueueBatch
  <2>1. Enqueued' = Enqueued /\ workflow' = workflow
    BY <1>3, Belonging DEF EnqueueBatch, Enqueued, Born
  <2> QED BY <1>0, <2>1, CountKept
<1>4. ASSUME NEW j \in Jobs, Enqueue(j) PROVE CountInv'
  <2>1. j \notin WorkflowJobs
    <3>1. \A c : c \in WorkflowJobs <=> c \in Members \/ \E i \in Members : c \in Children[i]
      BY DEF WorkflowJobs
    <3> QED BY <1>4, <3>1, Belonging DEF Enqueue, Spawnable
  <2>2. Enqueued' = Enqueued /\ workflow' = workflow
    BY <1>4, <2>1, Belonging DEF Enqueue, Enqueued, Born
  <2> QED BY <1>0, <2>2, CountKept
<1>5. ASSUME NEW j \in Jobs,
             Claim(j) \/ RetryRun(j) \/ RetryJob(j) \/ RetryDeadJob(j) \/ ResolveJobDependencies(j)
      PROVE  CountInv'
  <2>1. Enqueued' = Enqueued /\ workflow' = workflow
    BY <1>5
    DEF Claim, RetryRun, RetryJob, RetryDeadJob, ResolveJobDependencies, Enqueued, ghostVars
  <2> QED BY <1>0, <2>1, CountKept
<1>6. ASSUME NEW j \in Jobs, FinishRun(j) PROVE CountInv'
  <2>1. PICK end \in {"Completed", "Dead", "TimedOut"} : Terminate(j, end)
    BY <1>6 DEF FinishRun
  <2> QED BY <1>0, <1>6, <2>1, CountTerminate DEF FinishRun
<1>7. ASSUME NEW j \in Jobs, CompleteJob(j) \/ FailJob(j) \/ MarkJobDead(j) \/ MarkJobTimedOut(j)
      PROVE  CountInv'
  <2>1. PICK end \in {"Completed", "Failed", "Dead", "TimedOut"} : OnTable(j) /\ Terminate(j, end)
    BY <1>7 DEF CompleteJob, FailJob, MarkJobDead, MarkJobTimedOut, ManualTerminal
  <2> QED BY <1>0, <2>1, CountTerminate
<1>8. ASSUME NEW j \in Jobs, FinishRunWithChildren(j) PROVE CountInv'
  <2> DEFINE new == Children[j]
             s == AfterTerminal(j, "Completed")
             t == InsertJobs(new, s.status, s.dep)
  <2>1. /\ OnTable(j) /\ new # {} /\ \A c \in new : place[c] = "unborn"
        /\ place' = Born(new)
        /\ workflow' = IF j \in WorkflowJobs
                         THEN RefreshWorkflow(t.status, KeptJobs \union new,
                                              workflow.total + Cardinality(new))
                         ELSE s.workflow
    BY <1>8 DEF FinishRunWithChildren
  <2>2. s.workflow = IF InWorkflow(j) THEN RefreshWorkflow(s.status, KeptJobs, workflow.total)
                     ELSE workflow
    BY TerminalWorkflow
  <2> HIDE DEF s, t
  <2>3. CASE j \in WorkflowJobs
    <3>1. new \subseteq WorkflowJobs
      BY <2>1, <2>3, Belonging
    <3>2. Enqueued' = Enqueued \union new /\ Enqueued \intersect new = {}
      BY <2>1, <3>1, Belonging DEF Enqueued, Born
    <3>3. workflow.status # "Absent"
      BY <2>1, <2>3, NotUnborn DEF CountInv, Enqueued
    <3>4. IsFiniteSet(new) /\ Cardinality(new) \in Nat /\ Cardinality(Enqueued) \in Nat
      BY <1>20, FS_CardinalityType
    <3>5. Cardinality(Enqueued \union new) = Cardinality(Enqueued) + Cardinality(new)
      <4>1. Cardinality(Enqueued \union new) =
              Cardinality(Enqueued) + Cardinality(new) - Cardinality(Enqueued \intersect new)
        BY <1>20, <3>4, FS_Union
      <4>2. Cardinality(Enqueued \intersect new) = 0
        BY <3>2, FS_EmptySet
      <4> HIDE DEF new
      <4> QED BY <3>4, <4>1, <4>2
    <3> DEFINE total == workflow.total + Cardinality(new)
    <3>6. total \in Nat /\ workflow' = RefreshWorkflow(t.status, KeptJobs \union new, total)
      BY <1>20, <2>1, <2>3, <3>4
    <3>7. total = Cardinality(Enqueued')
      BY <3>2, <3>3, <3>5 DEF CountInv
    <3> HIDE DEF total
    <3>8. /\ workflow' \in WorkflowRows /\ workflow'.status # "Absent" /\ workflow'.total = total
      BY <3>6, RefreshedRow
    <3> QED BY <1>0, <3>2, <3>3, <3>7, <3>8 DEF CountInv
  <2>4. CASE j \notin WorkflowJobs
    <3>1. workflow' = workflow
      BY <2>1, <2>2, <2>4 DEF InWorkflow
    <3>2. new \intersect WorkflowJobs = {}
      BY <2>4, Belonging
    <3>3. Enqueued' = Enqueued
      BY <2>1, <3>2, Belonging DEF Enqueued, Born
    <3> QED BY <1>0, <3>1, <3>3, CountKept
  <2> QED BY <2>3, <2>4
<1>9. ASSUME NEW j \in Jobs, ArchiveJob(j) \/ RestoreArchivedJob(j) \/ DeleteJob(j)
      PROVE  CountInv'
  <2>1. /\ \A i \in Jobs : place'[i] = "unborn" <=> place[i] = "unborn"
        /\ workflow' = workflow
    BY <1>0, <1>9
    DEF ArchiveJob, RestoreArchivedJob, DeleteJob, OnTable, Kept, RowTypeOK, ghostVars
  <2>2. Enqueued' = Enqueued
    BY <2>1, Belonging DEF Enqueued
  <2> QED BY <1>0, <2>1, <2>2, CountKept
<1>10. ASSUME NEW j \in Jobs, FailJobDependencies(j) PROVE CountInv'
  <2> DEFINE st == ApplyFailurePolicy(j, status, dep).status
  <2>1. Enqueued' = Enqueued /\ workflow' = RefreshWorkflowOf(j, st)
    BY <1>10 DEF FailJobDependencies, Enqueued
  <2> HIDE DEF st
  <2>2. CASE InWorkflow(j)
    <3>1. workflow.status # "Absent"
      BY <2>2, NotUnborn DEF CountInv, Enqueued, InWorkflow
    <3>2. workflow' = RefreshWorkflow(st, KeptJobs, workflow.total)
      BY <2>1, <2>2 DEF RefreshWorkflowOf
    <3>3. /\ workflow' \in WorkflowRows /\ workflow'.status # "Absent"
          /\ workflow'.total = workflow.total
      BY <1>20, <3>2, RefreshedRow
    <3> QED BY <1>0, <2>1, <3>1, <3>3, CountKept
  <2>3. CASE ~InWorkflow(j)
    BY <1>0, <2>1, <2>3, CountKept DEF RefreshWorkflowOf
  <2> QED BY <2>2, <2>3
<1>11. CASE DeleteBatch
  <2>1. /\ \A i \in Jobs : place'[i] = "unborn" <=> place[i] = "unborn"
        /\ workflow' = workflow
    BY <1>0, <1>11 DEF DeleteBatch, OnTable, ghostVars
  <2>2. Enqueued' = Enqueued
    BY <2>1, Belonging DEF Enqueued
  <2> QED BY <1>0, <2>1, <2>2, CountKept
<1>12. CASE CancelWorkflow
  <2>1. /\ Enqueued' = Enqueued /\ workflow.status # "Absent"
        /\ workflow' = [workflow EXCEPT !.status = "Cancelled"]
    BY <1>12 DEF CancelWorkflow, Enqueued, ghostVars
  <2>2. /\ workflow' \in WorkflowRows /\ workflow'.status # "Absent"
        /\ workflow'.total = workflow.total
    BY <1>20, <2>1 DEF WorkflowRows
  <2> QED BY <1>0, <2>1, <2>2, CountKept
<1> QED
  BY <1>1, <1>2, <1>3, <1>4, <1>5, <1>6, <1>7, <1>8, <1>9, <1>10, <1>11, <1>12
  DEF Next, RunStep, OperatorStep

\* Initially there is nothing to count.
LEMMA InitCounts == Init => CountInv
<1> SUFFICES ASSUME Init PROVE CountInv
  OBVIOUS
<1>1. DependencyInv
  BY DEF Init, DependencyInv, RowTypeOK
<1>2. workflow \in WorkflowRows /\ workflow.status = "Absent"
  BY DEF Init, WorkflowRows
<1>3. Enqueued = {}
  BY Belonging DEF Init, Enqueued
<1> QED BY <1>1, <1>2, <1>3 DEF CountInv

\* total counts the jobs of the workflow in every reachable state.
LEMMA CountInvariant == Spec => []CountInv
BY InitCounts, NextCounts, PTL DEF Spec

\* When every job of born is kept and finished, the counts of a refresh add up
\* to their number at least, and the refresh does not find the workflow running.
LEMMA AllEnded ==
  ASSUME NEW born \in SUBSET WorkflowJobs, born # {}, NEW st, NEW kept,
         \A i \in born : i \in kept /\ st[i] \in Finished,
         NEW total, total = Cardinality(born), NEW current
  PROVE  ProgressStatus(Count(WorkflowJobs, st, kept, {"Completed"}),
                        Count(WorkflowJobs, st, kept, FailedStatuses), total, current) # "Running"
<1> DEFINE C == {i \in WorkflowJobs \intersect kept : st[i] \in {"Completed"}}
           F == {i \in WorkflowJobs \intersect kept : st[i] \in FailedStatuses}
<1>1. IsFiniteSet(Jobs) /\ WorkflowJobs \in SUBSET Jobs
  BY WorkflowsAssumptions, Belonging
<1>2. IsFiniteSet(C) /\ IsFiniteSet(F)
  <2>1. C \in SUBSET Jobs /\ F \in SUBSET Jobs
    BY <1>1
  <2> HIDE DEF C, F
  <2> QED BY <1>1, <2>1, FS_Subset
<1>3. born \in SUBSET (C \union F)
  BY DEF Finished, FailedStatuses
<1>4. IsFiniteSet(born)
  BY <1>1, FS_Subset
<1>5. Count(WorkflowJobs, st, kept, {"Completed"}) = Cardinality(C)
      /\ Count(WorkflowJobs, st, kept, FailedStatuses) = Cardinality(F)
  BY DEF Count
<1> HIDE DEF C, F
<1>6. IsFiniteSet(C \union F)
      /\ Cardinality(C \union F) = Cardinality(C) + Cardinality(F) - Cardinality(C \intersect F)
  BY <1>2, FS_Union
<1>7. IsFiniteSet(C \intersect F)
  BY <1>2, FS_Subset
<1>8. /\ Cardinality(C) \in Nat /\ Cardinality(F) \in Nat /\ Cardinality(C \intersect F) \in Nat
      /\ total \in Nat /\ total # 0
  BY <1>2, <1>4, <1>7, FS_CardinalityType, FS_EmptySet
<1>9. total <= Cardinality(C \union F)
  BY <1>3, <1>6, FS_Subset
<1>10. total <= Cardinality(C) + Cardinality(F)
  BY <1>6, <1>8, <1>9
<1> DEFINE c == Cardinality(C)
           f == Cardinality(F)
<1> HIDE DEF c, f
<1>11. c \in Nat /\ f \in Nat /\ total \in Nat /\ total # 0 /\ total <= c + f
  BY <1>8, <1>10 DEF c, f
<1>12. ProgressStatus(c, f, total, current) # "Running"
  BY <1>11 DEF ProgressStatus
<1> QED BY <1>5, <1>12 DEF c, f

\* A refresh finds the workflow completed only if as many jobs as it has had
\* are kept and completed.
LEMMA AllCompleted ==
  ASSUME NEW born \in SUBSET WorkflowJobs, NEW st, NEW kept,
         \A i \in WorkflowJobs \intersect kept : i \in born,
         NEW total, total = Cardinality(born), NEW current,
         ProgressStatus(Count(WorkflowJobs, st, kept, {"Completed"}),
                        Count(WorkflowJobs, st, kept, FailedStatuses), total, current) = "Completed"
  PROVE  \A i \in born : i \in kept /\ st[i] = "Completed"
<1> DEFINE C == {i \in WorkflowJobs \intersect kept : st[i] \in {"Completed"}}
<1>1. IsFiniteSet(Jobs) /\ WorkflowJobs \in SUBSET Jobs
  BY WorkflowsAssumptions, Belonging
<1>2. IsFiniteSet(born) /\ C \in SUBSET born
  BY <1>1, FS_Subset
<1>3. Count(WorkflowJobs, st, kept, {"Completed"}) = Cardinality(C)
  BY DEF Count
<1>4. Cardinality(C) >= total
  BY <1>3 DEF ProgressStatus
<1> HIDE DEF C
<1>5. /\ Cardinality(C) \in Nat /\ Cardinality(born) \in Nat
      /\ Cardinality(C) <= Cardinality(born)
      /\ Cardinality(born) = Cardinality(C) => born = C
  BY <1>2, FS_Subset, FS_CardinalityType
<1>6. born = C
  BY <1>4, <1>5
<1> QED BY <1>6 DEF C

\* Steps that keep the workflow's status while no job joins it, or store another.
LEMMA EarnedKept ==
  ASSUME CompletedIsEarned, everDone \subseteq everDone',
         \/ Enqueued' = Enqueued /\ workflow'.status = workflow.status
         \/ workflow'.status # "Completed"
  PROVE  CompletedIsEarned'
BY DEF CompletedIsEarned, Enqueued

\* Steps that refresh the workflow from the columns they leave behind.
LEMMA EarnedRefresh ==
  ASSUME DependencyInv', NEW kept, NEW total \in Nat,
         workflow' = RefreshWorkflow(status', kept, total),
         total = Cardinality(Enqueued'),
         \A i \in WorkflowJobs \intersect kept : i \in Enqueued'
  PROVE  CompletedIsEarned'
<1> SUFFICES ASSUME workflow'.status = "Completed" PROVE Enqueued' \subseteq everDone'
  BY DEF CompletedIsEarned, Enqueued
<1>1. workflow'.status = ProgressStatus(Count(WorkflowJobs, status', kept, {"Completed"}),
                                        Count(WorkflowJobs, status', kept, FailedStatuses),
                                        total, workflow.status)
  BY RefreshedRow
<1>2. Enqueued' \in SUBSET WorkflowJobs /\ WorkflowJobs \subseteq Jobs
  BY Belonging DEF Enqueued
<1>3. \A i \in Enqueued' : i \in kept /\ status'[i] = "Completed"
  <2> DEFINE born == Enqueued'
             st == status'
             current == workflow.status
  <2>1. /\ born \in SUBSET WorkflowJobs /\ total = Cardinality(born)
        /\ \A i \in WorkflowJobs \intersect kept : i \in born
        /\ ProgressStatus(Count(WorkflowJobs, st, kept, {"Completed"}),
                          Count(WorkflowJobs, st, kept, FailedStatuses), total, current) = "Completed"
    BY <1>1, <1>2
  <2> HIDE DEF born, st, current
  <2>2. \A i \in born : i \in kept /\ st[i] = "Completed"
    BY <2>1, AllCompleted
  <2> QED BY <2>2 DEF born, st
<1> QED BY <1>2, <1>3 DEF DependencyInv, Enqueued

\* The end of a run or a transition by hand.
LEMMA EarnedTerminate ==
  ASSUME CountInv, CompletedIsEarned, DependencyInv', NEW j \in Jobs, NEW end,
         OnTable(j), Terminate(j, end)
  PROVE  CompletedIsEarned'
<1>1. /\ Enqueued' = Enqueued /\ everDone \subseteq everDone'
      /\ workflow' = AfterTerminal(j, end).workflow /\ status' = AfterTerminal(j, end).status
  BY DEF Terminate, Enqueued
<1>2. workflow' = IF InWorkflow(j) THEN RefreshWorkflow(status', KeptJobs, workflow.total)
                  ELSE workflow
  BY <1>1, TerminalWorkflow
<1>3. \A i \in WorkflowJobs \intersect KeptJobs : i \in Enqueued
  BY NotUnborn DEF KeptJobs, Enqueued
<1>4. CASE InWorkflow(j)
  <2>1. workflow.status # "Absent" /\ workflow.total \in Nat /\ workflow.total = Cardinality(Enqueued)
    BY <1>4, NotUnborn DEF CountInv, Enqueued, InWorkflow, WorkflowRows
  <2> QED BY <1>1, <1>2, <1>3, <1>4, <2>1, EarnedRefresh
<1>5. CASE ~InWorkflow(j)
  BY <1>1, <1>2, <1>5, EarnedKept
<1> QED BY <1>4, <1>5

\* No step stores Completed too early.
LEMMA NextEarns == CountInv /\ CompletedIsEarned /\ [Next]_vars => CompletedIsEarned'
<1> SUFFICES ASSUME CountInv, CompletedIsEarned, [Next]_vars PROVE CompletedIsEarned'
  OBVIOUS
<1>0. CountInv' /\ DependencyInv' /\ RowTypeOK /\ workflow \in WorkflowRows
  BY NextCounts DEF CountInv, DependencyInv
<1>13. \A i \in WorkflowJobs \intersect KeptJobs : i \in Enqueued
  BY NotUnborn DEF KeptJobs, Enqueued
<1>1. CASE UNCHANGED vars
  BY <1>0, <1>1, EarnedKept DEF vars, ghostVars, Enqueued
<1>2. CASE EnqueueWorkflow
  <2>1. workflow'.status # "Completed" /\ everDone' = everDone
    BY <1>2 DEF EnqueueWorkflow
  <2> QED BY <1>0, <2>1, EarnedKept
<1>3. CASE EnqueueBatch
  <2>1. Enqueued' = Enqueued /\ workflow' = workflow /\ everDone' = everDone
    BY <1>3, Belonging DEF EnqueueBatch, Enqueued, Born
  <2> QED BY <1>0, <2>1, EarnedKept
<1>4. ASSUME NEW j \in Jobs, Enqueue(j) PROVE CompletedIsEarned'
  <2>1. j \notin WorkflowJobs
    <3>1. \A c : c \in WorkflowJobs <=> c \in Members \/ \E i \in Members : c \in Children[i]
      BY DEF WorkflowJobs
    <3> QED BY <1>4, <3>1, Belonging DEF Enqueue, Spawnable
  <2>2. Enqueued' = Enqueued /\ workflow' = workflow /\ everDone' = everDone
    BY <1>4, <2>1, Belonging DEF Enqueue, Enqueued, Born
  <2> QED BY <1>0, <2>2, EarnedKept
<1>5. ASSUME NEW j \in Jobs,
             Claim(j) \/ RetryRun(j) \/ RetryJob(j) \/ RetryDeadJob(j) \/ ResolveJobDependencies(j)
      PROVE  CompletedIsEarned'
  <2>1. Enqueued' = Enqueued /\ workflow' = workflow /\ everDone' = everDone
    BY <1>5
    DEF Claim, RetryRun, RetryJob, RetryDeadJob, ResolveJobDependencies, Enqueued, ghostVars
  <2> QED BY <1>0, <2>1, EarnedKept
<1>6. ASSUME NEW j \in Jobs, FinishRun(j) PROVE CompletedIsEarned'
  <2>1. PICK end \in {"Completed", "Dead", "TimedOut"} : Terminate(j, end)
    BY <1>6 DEF FinishRun
  <2> QED BY <1>0, <1>6, <2>1, EarnedTerminate DEF FinishRun
<1>7. ASSUME NEW j \in Jobs, CompleteJob(j) \/ FailJob(j) \/ MarkJobDead(j) \/ MarkJobTimedOut(j)
      PROVE  CompletedIsEarned'
  <2>1. PICK end \in {"Completed", "Failed", "Dead", "TimedOut"} : OnTable(j) /\ Terminate(j, end)
    BY <1>7 DEF CompleteJob, FailJob, MarkJobDead, MarkJobTimedOut, ManualTerminal
  <2> QED BY <1>0, <2>1, EarnedTerminate
<1>8. ASSUME NEW j \in Jobs, FinishRunWithChildren(j) PROVE CompletedIsEarned'
  <2> DEFINE new == Children[j]
             s == AfterTerminal(j, "Completed")
             t == InsertJobs(new, s.status, s.dep)
  <2>1. /\ OnTable(j) /\ new # {} /\ place' = Born(new) /\ \A c \in new : place[c] = "unborn"
        /\ status' = t.status /\ everDone \subseteq everDone'
        /\ workflow' = IF j \in WorkflowJobs
                         THEN RefreshWorkflow(t.status, KeptJobs \union new,
                                              workflow.total + Cardinality(new))
                         ELSE s.workflow
    BY <1>8 DEF FinishRunWithChildren
  <2>2. s.workflow = IF InWorkflow(j) THEN RefreshWorkflow(s.status, KeptJobs, workflow.total)
                     ELSE workflow
    BY TerminalWorkflow
  <2> HIDE DEF s, t
  <2>3. CASE j \in WorkflowJobs
    <3>1. new \subseteq WorkflowJobs
      BY <2>1, <2>3, Belonging
    <3>2. Enqueued' = Enqueued \union new
      BY <2>1, <3>1, Belonging DEF Enqueued, Born
    <3>3. workflow.status # "Absent"
      BY <2>1, <2>3, NotUnborn DEF CountInv, Enqueued
    <3> DEFINE kept == KeptJobs \union new
               total == workflow.total + Cardinality(new)
    <3>4. total \in Nat /\ workflow' = RefreshWorkflow(status', kept, total)
      <4>1. IsFiniteSet(Jobs) /\ new \in SUBSET Jobs
        BY WorkflowsAssumptions
      <4>2. IsFiniteSet(new)
        BY <4>1, FS_Subset
      <4>3. Cardinality(new) \in Nat /\ workflow.total \in Nat
        BY <1>0, <4>2, FS_CardinalityType DEF WorkflowRows
      <4> QED BY <2>1, <2>3, <4>3
    <3>5. \A i \in WorkflowJobs \intersect kept : i \in Enqueued'
      BY <1>13, <3>2
    <3>6. workflow'.total = total /\ workflow'.status # "Absent"
      <4> HIDE DEF total, kept
      <4> QED BY <3>4, RefreshedRow
    <3>7. total = Cardinality(Enqueued')
      BY <1>0, <3>6 DEF CountInv
    <3> HIDE DEF total, kept
    <3> QED BY <1>0, <3>4, <3>5, <3>7, EarnedRefresh
  <2>4. CASE j \notin WorkflowJobs
    <3>1. workflow' = workflow
      BY <2>1, <2>2, <2>4 DEF InWorkflow
    <3>2. new \intersect WorkflowJobs = {}
      BY <2>4, Belonging
    <3>3. Enqueued' = Enqueued
      BY <2>1, <3>2, Belonging DEF Enqueued, Born
    <3> QED BY <1>0, <2>1, <3>1, <3>3, EarnedKept
  <2> QED BY <2>3, <2>4
<1>9. ASSUME NEW j \in Jobs, ArchiveJob(j) \/ RestoreArchivedJob(j) \/ DeleteJob(j)
      PROVE  CompletedIsEarned'
  <2>1. /\ \A i \in Jobs : place'[i] = "unborn" <=> place[i] = "unborn"
        /\ workflow' = workflow /\ everDone' = everDone
    BY <1>0, <1>9
    DEF ArchiveJob, RestoreArchivedJob, DeleteJob, OnTable, Kept, RowTypeOK, ghostVars
  <2>2. Enqueued' = Enqueued
    BY <2>1, Belonging DEF Enqueued
  <2> QED BY <1>0, <2>1, <2>2, EarnedKept
<1>10. ASSUME NEW j \in Jobs, FailJobDependencies(j) PROVE CompletedIsEarned'
  <2>1. Enqueued' = Enqueued /\ workflow' = RefreshWorkflowOf(j, status') /\ everDone' = everDone
    BY <1>10 DEF FailJobDependencies, Enqueued
  <2>2. CASE InWorkflow(j)
    <3>1. workflow.status # "Absent" /\ workflow.total \in Nat /\ workflow.total = Cardinality(Enqueued)
      BY <2>2, NotUnborn DEF CountInv, Enqueued, InWorkflow, WorkflowRows
    <3>2. workflow' = RefreshWorkflow(status', KeptJobs, workflow.total)
      BY <2>1, <2>2 DEF RefreshWorkflowOf
    <3> QED BY <1>0, <1>13, <2>1, <3>1, <3>2, EarnedRefresh
  <2>3. CASE ~InWorkflow(j)
    BY <1>0, <2>1, <2>3, EarnedKept DEF RefreshWorkflowOf
  <2> QED BY <2>2, <2>3
<1>11. CASE DeleteBatch
  <2>1. /\ \A i \in Jobs : place'[i] = "unborn" <=> place[i] = "unborn"
        /\ workflow' = workflow /\ everDone' = everDone
    BY <1>0, <1>11 DEF DeleteBatch, OnTable, ghostVars
  <2>2. Enqueued' = Enqueued
    BY <2>1, Belonging DEF Enqueued
  <2> QED BY <1>0, <2>1, <2>2, EarnedKept
<1>12. CASE CancelWorkflow
  <2>1. workflow' = [workflow EXCEPT !.status = "Cancelled"] /\ everDone' = everDone
    BY <1>12 DEF CancelWorkflow, ghostVars
  <2>2. workflow'.status # "Completed"
    BY <1>0, <2>1 DEF WorkflowRows
  <2> QED BY <1>0, <2>1, <2>2, EarnedKept
<1> QED
  BY <1>1, <1>2, <1>3, <1>4, <1>5, <1>6, <1>7, <1>8, <1>9, <1>10, <1>11, <1>12
  DEF Next, RunStep, OperatorStep

\* A workflow is stored as Completed only when all its jobs have completed, the
\* spawned ones included (add_spawned_to_workflows, WorkflowProgress::status).
THEOREM CompletionIsEarned == Spec => []CompletedIsEarned
<1>1. Init => CompletedIsEarned
  BY DEF Init, CompletedIsEarned
<1> QED BY <1>1, NextEarns, CountInvariant, PTL DEF Spec

-----------------------------------------------------------------------------
(* Cancellation.                                                           *)

\* No operator has put the job back, nor the job that spawned it.
LeftAlone(j) == j \notin PutBack /\ \A p \in Jobs : j \in Children[p] => p \notin PutBack

\* The inductive invariant behind CancelledStaysStopped.  What else a job
\* depends on does not matter: only its parent could bring it into the table.
StoppedInv ==
  /\ CountInv
  /\ workflow.status = "Cancelled" =>
       \A j \in WorkflowJobs : OnTable(j) /\ LeftAlone(j) => status[j] \in Finished

\* A step that puts nobody back but in PutBack leaves a stopped workflow so.
LEMMA StoppedKept ==
  ASSUME StoppedInv, CountInv',
         workflow'.status = "Cancelled" => workflow.status = "Cancelled",
         PutBack \subseteq PutBack',
         \A i \in WorkflowJobs : OnTable(i)' /\ i \notin PutBack' =>
           OnTable(i) /\ (status[i] \in Finished => status'[i] \in Finished)
  PROVE  StoppedInv'
<1>1. \A i \in WorkflowJobs : LeftAlone(i)' => LeftAlone(i) /\ i \notin PutBack'
  BY DEF LeftAlone
<1> QED BY <1>1 DEF StoppedInv

\* The end of a run or a transition by hand.
LEMMA StoppedTerminate ==
  ASSUME StoppedInv, CountInv', NEW j \in Jobs, NEW end \in Finished, Terminate(j, end)
  PROVE  StoppedInv'
<1> DEFINE s == AfterTerminal(j, end)
           st0 == [status EXCEPT ![j] = end]
<1>0. RowTypeOK /\ workflow.total \in Nat
  BY DEF StoppedInv, CountInv, DependencyInv, WorkflowRows
<1>1. /\ status' = s.status /\ workflow' = s.workflow
      /\ UNCHANGED <<place, reopened, revived>>
  BY DEF Terminate
<1>2. \A i \in Jobs : s.status[i] \in {st0[i], "Failed"}
  BY <1>0, TerminalRows
<1>3. \A i \in Jobs : st0[i] = IF i = j THEN end ELSE status[i]
  BY <1>0 DEF RowTypeOK
<1>4. s.workflow = IF InWorkflow(j) THEN RefreshWorkflow(s.status, KeptJobs, workflow.total)
                   ELSE workflow
  BY TerminalWorkflow
<1> HIDE DEF s, st0
<1>5. workflow'.status = "Cancelled" => workflow.status = "Cancelled"
  BY <1>0, <1>1, <1>4, RefreshedRow
<1>6. \A i \in Jobs : status[i] \in Finished => status'[i] \in Finished
  BY <1>1, <1>2, <1>3 DEF Finished
<1>7. PutBack' = PutBack /\ \A i \in Jobs : OnTable(i)' = OnTable(i)
  BY <1>1 DEF PutBack, OnTable
<1> QED BY <1>5, <1>6, <1>7, StoppedKept, Belonging

\* Every step keeps a cancelled workflow stopped.
LEMMA NextStops == StoppedInv /\ [Next]_vars => StoppedInv'
<1> SUFFICES ASSUME StoppedInv, [Next]_vars PROVE StoppedInv'
  OBVIOUS
<1>0. /\ CountInv' /\ RowTypeOK /\ workflow \in WorkflowRows /\ workflow.total \in Nat
      /\ status \in [Jobs -> JobStatuses] /\ dep \in [Jobs -> DepStatuses]
      /\ WorkflowJobs \subseteq Jobs
  BY NextCounts, Belonging
  DEF StoppedInv, CountInv, DependencyInv, RowTypeOK, JobStatuses, DepStatuses, WorkflowRows
<1>1. CASE UNCHANGED vars
  BY <1>0, <1>1, StoppedKept DEF vars, PutBack, OnTable, ghostVars
<1>2. CASE EnqueueWorkflow
  <2>1. workflow'.status = "Running"
    BY <1>2 DEF EnqueueWorkflow
  <2> QED BY <1>0, <2>1 DEF StoppedInv
<1>3. ASSUME NEW new \in SUBSET (Jobs \ WorkflowJobs),
             status' = InsertJobs(new, status, dep).status, place' = Born(new),
             UNCHANGED <<workflow, reopened, revived>>
      PROVE  StoppedInv'
  <2>1. NewRows(InsertJobs(new, status, dep), new, status, dep)
    BY <1>0, InsertEffect
  <2>2. \A i \in Jobs \ new : status'[i] = status[i]
    BY <1>3, <2>1 DEF NewRows
  <2>3. PutBack' = PutBack /\ \A i \in Jobs \ new : OnTable(i)' = OnTable(i)
    BY <1>3 DEF PutBack, OnTable, Born
  <2> QED BY <1>0, <1>3, <2>2, <2>3, StoppedKept
<1>4. CASE EnqueueBatch
  <2>1. BatchJobs \in SUBSET (Jobs \ WorkflowJobs)
    BY Belonging
  <2> QED BY <1>3, <1>4, <2>1 DEF EnqueueBatch
<1>5. ASSUME NEW j \in Jobs, Enqueue(j) PROVE StoppedInv'
  <2> DEFINE new == {j}
  <2>1. j \notin WorkflowJobs
    <3>1. \A c : c \in WorkflowJobs <=> c \in Members \/ \E i \in Members : c \in Children[i]
      BY DEF WorkflowJobs
    <3> QED BY <1>5, <3>1, Belonging DEF Enqueue, Spawnable
  <2>2. /\ new \in SUBSET (Jobs \ WorkflowJobs)
        /\ status' = InsertJobs(new, status, dep).status /\ place' = Born(new)
        /\ UNCHANGED <<workflow, reopened, revived>>
    BY <1>5, <2>1 DEF Enqueue
  <2> HIDE DEF new
  <2> QED BY <1>3, <2>2
<1>6. ASSUME NEW j \in Jobs, Claim(j) \/ RetryRun(j)
      PROVE  StoppedInv'
  <2>1. /\ \E v : status' = [status EXCEPT ![j] = v]
        /\ status[j] \in {"Pending", "Running"} /\ UNCHANGED <<place, workflow, reopened, revived>>
    BY <1>6 DEF Claim, RetryRun, ghostVars
  <2>2. \A i \in Jobs : status[i] \in Finished => status'[i] = status[i]
    BY <1>0, <2>1 DEF Finished
  <2>3. PutBack' = PutBack /\ \A i \in Jobs : OnTable(i)' = OnTable(i)
    BY <2>1 DEF PutBack, OnTable
  <2> QED BY <1>0, <2>1, <2>2, <2>3, StoppedKept
<1>7. ASSUME NEW j \in Jobs, RetryJob(j) \/ RetryDeadJob(j) \/ RestoreArchivedJob(j)
      PROVE  StoppedInv'
  <2>1. /\ status' = [status EXCEPT ![j] = "Pending"] /\ workflow' = workflow
        /\ PutBack' = PutBack \union {j}
    BY <1>7 DEF RetryJob, RetryDeadJob, RestoreArchivedJob, PutBack
  <2>2. \A i \in Jobs \ {j} : status'[i] = status[i] /\ OnTable(i)' = OnTable(i)
    BY <1>0, <1>7 DEF RetryJob, RetryDeadJob, RestoreArchivedJob, OnTable, RowTypeOK
  <2> QED BY <1>0, <2>1, <2>2, StoppedKept
<1>8. ASSUME NEW j \in Jobs, FinishRun(j) PROVE StoppedInv'
  <2>1. PICK end \in {"Completed", "Dead", "TimedOut"} : Terminate(j, end)
    BY <1>8 DEF FinishRun
  <2> QED BY <1>0, <2>1, StoppedTerminate DEF Finished
<1>9. ASSUME NEW j \in Jobs, CompleteJob(j) \/ FailJob(j) \/ MarkJobDead(j) \/ MarkJobTimedOut(j)
      PROVE  StoppedInv'
  <2>1. PICK end \in {"Completed", "Failed", "Dead", "TimedOut"} : Terminate(j, end)
    BY <1>9 DEF CompleteJob, FailJob, MarkJobDead, MarkJobTimedOut, ManualTerminal
  <2> QED BY <1>0, <2>1, StoppedTerminate DEF Finished
<1>10. ASSUME NEW j \in Jobs, FinishRunWithChildren(j) PROVE StoppedInv'
  <2> DEFINE new == Children[j]
             s == AfterTerminal(j, "Completed")
             t == InsertJobs(new, s.status, s.dep)
             total == workflow.total + Cardinality(new)
  <2>1. /\ OnTable(j) /\ status[j] = "Running" /\ new # {}
        /\ status' = t.status /\ place' = Born(new) /\ UNCHANGED <<reopened, revived>>
        /\ workflow' = IF j \in WorkflowJobs
                         THEN RefreshWorkflow(t.status, KeptJobs \union new, total)
                         ELSE s.workflow
    BY <1>10 DEF FinishRunWithChildren
  <2>2. s.workflow = IF InWorkflow(j) THEN RefreshWorkflow(s.status, KeptJobs, workflow.total)
                     ELSE workflow
    BY TerminalWorkflow
  <2>3. /\ s.status \in [Jobs -> JobStatuses] /\ s.dep \in [Jobs -> DepStatuses]
        /\ s.status = [status EXCEPT ![j] = "Completed"]
    BY <1>0, TerminalEffect DEF Finished
  <2>4. new \in SUBSET Jobs /\ total \in Nat
    <3>1. IsFiniteSet(Jobs) /\ new \in SUBSET Jobs
      BY WorkflowsAssumptions, Belonging
    <3>2. Cardinality(new) \in Nat
      BY <3>1, FS_Subset, FS_CardinalityType
    <3> QED BY <1>0, <3>1, <3>2
  <2> HIDE DEF s, total
  <2>5. NewRows(t, new, s.status, s.dep)
    BY <2>3, <2>4, InsertEffect
  <2> HIDE DEF t
  <2>6. \A i \in Jobs \ new : status[i] \in Finished => status'[i] \in Finished
    BY <1>0, <2>1, <2>3, <2>5 DEF NewRows, Finished
  <2>7. PutBack' = PutBack /\ \A i \in Jobs \ new : OnTable(i)' = OnTable(i)
    BY <2>1 DEF PutBack, OnTable, Born
  <2>8. CASE j \notin WorkflowJobs
    <3>1. workflow' = workflow /\ new \intersect WorkflowJobs = {}
      BY <2>1, <2>2, <2>8, Belonging DEF InWorkflow
    <3> QED BY <1>0, <2>6, <2>7, <3>1, StoppedKept
  <2>9. CASE j \in WorkflowJobs
    <3>1. workflow'.status = "Cancelled" => workflow.status = "Cancelled"
      BY <2>1, <2>4, <2>9, RefreshedRow
    <3>2. j \in Members /\ \A p \in Jobs : j \notin Children[p]
      BY <2>1, <2>9, Belonging
    <3>3. workflow.status = "Cancelled" => j \in PutBack
      BY <2>1, <2>9, <3>2 DEF StoppedInv, LeftAlone, Finished
    <3>4. ASSUME workflow'.status = "Cancelled", NEW i \in WorkflowJobs, OnTable(i)', LeftAlone(i)'
          PROVE  status'[i] \in Finished
      <4>1. i \notin new
        BY <2>7, <3>1, <3>3, <3>4 DEF LeftAlone
      <4>2. OnTable(i) /\ LeftAlone(i)
        BY <1>0, <2>7, <3>4, <4>1 DEF LeftAlone
      <4> QED BY <1>0, <2>6, <3>1, <3>4, <4>1, <4>2 DEF StoppedInv
    <3> QED BY <1>0, <3>4 DEF StoppedInv
  <2> QED BY <2>8, <2>9
<1>11. ASSUME NEW j \in Jobs,
              ArchiveJob(j) \/ DeleteJob(j) \/ ResolveJobDependencies(j)
       PROVE  StoppedInv'
  <2>1. UNCHANGED <<status, workflow, reopened, revived>>
    BY <1>11 DEF ArchiveJob, DeleteJob, ResolveJobDependencies, ghostVars
  <2>2. \A i \in Jobs : OnTable(i)' => OnTable(i)
    BY <1>0, <1>11
    DEF ArchiveJob, DeleteJob, ResolveJobDependencies, OnTable, RowTypeOK, ghostVars
  <2>3. PutBack' = PutBack
    BY <2>1 DEF PutBack
  <2> QED BY <1>0, <2>1, <2>2, <2>3, StoppedKept
<1>12. ASSUME NEW j \in Jobs, FailJobDependencies(j) PROVE StoppedInv'
  <2> DEFINE s == ApplyFailurePolicy(j, status, dep)
  <2>1. \A i \in Jobs : s.status[i] \in {status[i], "Failed"}
    BY <1>0, PolicyRows
  <2>2. /\ status' = s.status /\ UNCHANGED <<place, reopened, revived>>
        /\ workflow' = RefreshWorkflowOf(j, s.status)
    BY <1>12 DEF FailJobDependencies
  <2> HIDE DEF s
  <2>3. workflow'.status = "Cancelled" => workflow.status = "Cancelled"
    BY <1>0, <2>2, RefreshedRow DEF RefreshWorkflowOf
  <2>4. \A i \in Jobs : status[i] \in Finished => status'[i] \in Finished
    BY <2>1, <2>2 DEF Finished
  <2>5. PutBack' = PutBack /\ \A i \in Jobs : OnTable(i)' = OnTable(i)
    BY <2>2 DEF PutBack, OnTable
  <2> QED BY <1>0, <2>3, <2>4, <2>5, StoppedKept
<1>13. CASE DeleteBatch
  <2>1. UNCHANGED <<status, workflow, reopened, revived>>
    BY <1>13 DEF DeleteBatch, ghostVars
  <2>2. \A i \in Jobs : OnTable(i)' => OnTable(i)
    BY <1>13 DEF DeleteBatch, OnTable, ghostVars
  <2>3. PutBack' = PutBack
    BY <2>1 DEF PutBack
  <2> QED BY <1>0, <2>1, <2>2, <2>3, StoppedKept
<1>14. CASE CancelWorkflow
  <2>1. \A i \in WorkflowJobs : OnTable(i) => status'[i] \in Finished
    BY <1>0, <1>14 DEF CancelWorkflow, SetAll, JobStatuses, Finished, ghostVars
  <2>2. \A i \in Jobs : OnTable(i)' = OnTable(i)
    BY <1>14 DEF CancelWorkflow, OnTable, ghostVars
  <2> QED BY <1>0, <2>1, <2>2 DEF StoppedInv
<1> QED
  BY <1>1, <1>2, <1>4, <1>5, <1>6, <1>7, <1>8, <1>9, <1>10, <1>11, <1>12, <1>13, <1>14
  DEF Next, RunStep, OperatorStep

\* A cancelled workflow stays stopped, whatever runs were in progress, except
\* where an operator puts a job, or one it depends on, back (cancel_workflow).
THEOREM CancellationHolds == Spec => []CancelledStaysStopped
<1>1. Init => StoppedInv
  BY InitCounts DEF Init, StoppedInv
<1>2. StoppedInv => CancelledStaysStopped
  <2>1. \A p \in Jobs : \A c \in Children[p] : p \in DependsOn[c]
    BY WorkflowsAssumptions
  <2> QED BY <2>1 DEF StoppedInv, CancelledStaysStopped, LeftAlone
<1> QED BY <1>1, <1>2, NextStops, PTL DEF Spec

-----------------------------------------------------------------------------
(* The end of a workflow.                                                  *)

\* Jobs of the workflow, spawned ones included, depend on each other only.
\* (Where a spawned job depends on one outside, the failure of that one fails
\* it without a refresh of the workflow.)
SelfContained == \A j \in WorkflowJobs : DependsOn[j] \subseteq WorkflowJobs

\* Every job the workflow has had is finished, and still in the table if it
\* failed.
AllDone ==
  \A j \in WorkflowJobs :
    \/ place[j] = "unborn"
    \/ Ended(j) /\ (OnTable(j) \/ status[j] = "Completed")

\* The stored status is what a refresh finds now.
Fresh ==
  \E cur \in {"Absent", "Running", "Completed", "Failed", "Cancelled"} :
    workflow.status = ProgressStatus(Count(WorkflowJobs, status, KeptJobs, {"Completed"}),
                                     Count(WorkflowJobs, status, KeptJobs, FailedStatuses),
                                     workflow.total, cur)

\* A fresh status is final when everything is done.
LEMMA FreshIsClosed == CountInv /\ Fresh => WorkflowIsClosed
<1> SUFFICES ASSUME CountInv, Fresh, workflow.status # "Absent", AllDone
             PROVE  workflow.status # "Running"
  BY DEF WorkflowIsClosed, AllDone
<1>1. /\ Enqueued \in SUBSET WorkflowJobs /\ Enqueued # {}
      /\ workflow.total = Cardinality(Enqueued) /\ WorkflowJobs \subseteq Jobs
  BY Belonging DEF CountInv, Enqueued
<1>2. \A i \in Enqueued : i \in KeptJobs /\ status[i] \in Finished
  BY <1>1 DEF AllDone, Enqueued, Ended, KeptJobs
<1> QED BY <1>1, <1>2, AllEnded DEF Fresh

\* A step that leaves the stored status and ends nothing in the workflow.
LEMMA ClosedKept ==
  ASSUME WorkflowIsClosed, workflow' = workflow, AllDone' => AllDone
  PROVE  WorkflowIsClosed'
<1>1. WorkflowIsClosed <=> (workflow.status # "Absent" /\ AllDone => workflow.status # "Running")
  BY DEF WorkflowIsClosed, AllDone
<1>2. WorkflowIsClosed' <=>
        (workflow'.status # "Absent" /\ AllDone' => workflow'.status # "Running")
  BY DEF WorkflowIsClosed, AllDone
<1> QED BY <1>1, <1>2

\* Rows of the workflow that stay as they are do not end it.
LEMMA SameRows ==
  ASSUME \A i \in WorkflowJobs : place'[i] = place[i] /\ status'[i] = status[i]
  PROVE  AllDone' <=> AllDone
BY DEF AllDone, Ended, OnTable, Kept

\* The failure of a job outside a self-contained workflow does not reach it.
LEMMA OutsideFails ==
  ASSUME SelfContained, NEW j \in Jobs \ WorkflowJobs,
         NEW st \in [Jobs -> JobStatuses], NEW dp \in [Jobs -> DepStatuses]
  PROVE  \A i \in WorkflowJobs : ApplyFailurePolicy(j, st, dp).status[i] = st[i]
<1> DEFINE st1 == SetAll(st, {}, "Failed")
           dp1 == SetAll(dp, {i \in {} : dp[i] = "waiting"}, "failed")
           E == {i \in Jobs : /\ OnTable(i) /\ st1[i] = "Pending"
                              /\ dp1[i] \in {"waiting", "satisfied"}}
           failed == FailDependents(j, st1, dp1)
<1>1. ~InWorkflow(j)
  BY DEF InWorkflow
<1>2. ApplyFailurePolicy(j, st, dp).status = SetAll(st1, failed, "Failed")
  BY <1>1 DEF ApplyFailurePolicy
<1>3. failed \subseteq E \ WorkflowJobs
  <2>1. failed = Reached(E, {j})
    BY DEF FailDependents
  <2> HIDE DEF E, failed
  <2>2. ASSUME NEW k \in E, DependsOn[k] \intersect ((E \ WorkflowJobs) \union {j}) # {}
        PROVE  k \in E \ WorkflowJobs
    BY <2>2 DEF SelfContained
  <2> QED BY <2>1, <2>2, ReachedLeast
<1>4. \A i \in Jobs : st1[i] = st[i]
  BY DEF SetAll
<1> HIDE DEF st1, failed, E
<1>5. \A i \in Jobs \ failed : SetAll(st1, failed, "Failed")[i] = st[i]
  BY <1>4 DEF SetAll
<1> QED BY <1>2, <1>3, <1>5, Belonging

\* The end of a run or a transition by hand ends the workflow with its last job.
LEMMA ClosedTerminate ==
  ASSUME SelfContained, CountInv, WorkflowIsClosed, CountInv',
         NEW j \in Jobs, NEW end \in Finished, OnTable(j), Terminate(j, end)
  PROVE  WorkflowIsClosed'
<1> DEFINE s == AfterTerminal(j, end)
           st0 == [status EXCEPT ![j] = end]
<1>0. RowTypeOK /\ workflow \in WorkflowRows /\ workflow.total \in Nat
      /\ status \in [Jobs -> JobStatuses] /\ dep \in [Jobs -> DepStatuses]
  BY DEF CountInv, DependencyInv, WorkflowRows, RowTypeOK, JobStatuses, DepStatuses
<1>1. /\ status' = s.status /\ workflow' = s.workflow
      /\ UNCHANGED <<place, policy>>
  BY DEF Terminate
<1>2. s.workflow = IF InWorkflow(j) THEN RefreshWorkflow(s.status, KeptJobs, workflow.total)
                   ELSE workflow
  BY TerminalWorkflow
<1>3. CASE InWorkflow(j)
  <2> HIDE DEF s
  <2>1. workflow' = RefreshWorkflow(status', KeptJobs, workflow.total)
    BY <1>1, <1>2, <1>3
  <2>2. /\ workflow'.total = workflow.total
        /\ workflow'.status = ProgressStatus(Count(WorkflowJobs, status', KeptJobs, {"Completed"}),
                                             Count(WorkflowJobs, status', KeptJobs, FailedStatuses),
                                             workflow.total, workflow.status)
    BY <1>0, <2>1, RefreshedRow
  <2>3. KeptJobs' = KeptJobs /\ policy' = policy
    BY <1>1 DEF KeptJobs, Kept
  <2>4. workflow.status \in {"Absent", "Running", "Completed", "Failed", "Cancelled"}
    BY <1>0 DEF WorkflowRows
  <2>5. Fresh'
    BY <2>2, <2>3, <2>4 DEF Fresh, ProgressStatus, Count
  <2> QED BY <2>5, FreshIsClosed, PTL
<1>4. CASE ~InWorkflow(j)
  <2>1. j \notin WorkflowJobs /\ workflow' = workflow
    BY <1>1, <1>2, <1>4 DEF InWorkflow
  <2>2. \A i \in WorkflowJobs : s.status[i] = status[i]
    <3>1. st0 \in [Jobs -> JobStatuses]
      BY <1>0 DEF JobStatuses
    <3>2. \A i \in WorkflowJobs : st0[i] = status[i]
      BY <1>0, <2>1, Belonging
    <3>3. CASE end = "Completed"
      BY <1>0, <3>2, <3>3, TerminalEffect
    <3>4. CASE end # "Completed"
      <4> DEFINE p == ApplyFailurePolicy(j, st0, dep)
      <4>1. s.status = ApplyBatchOutcome(j, end, p.status).status
        BY <3>4 DEF AfterTerminal
      <4> HIDE DEF st0
      <4>2. /\ p.status \in [Jobs -> JobStatuses]
            /\ \A i \in WorkflowJobs : p.status[i] = st0[i]
        BY <1>0, <2>1, <3>1, PolicyRows, OutsideFails
      <4> HIDE DEF p, s
      <4>3. \A i \in WorkflowJobs : s.status[i] = p.status[i]
        BY <4>1, <4>2, BatchFailsRows, Belonging
      <4> QED BY <3>2, <4>2, <4>3
    <3> QED BY <3>3, <3>4
  <2> HIDE DEF s
  <2>3. AllDone' <=> AllDone
    BY <1>1, <2>2, SameRows
  <2> QED BY <2>1, <2>3, ClosedKept
<1> QED BY <1>3, <1>4

\* Every step keeps the stored status from falling behind.
LEMMA NextCloses ==
  ASSUME SelfContained
  PROVE  CountInv /\ WorkflowIsClosed /\ [Next]_vars => WorkflowIsClosed'
<1> SUFFICES ASSUME CountInv, WorkflowIsClosed, [Next]_vars PROVE WorkflowIsClosed'
  OBVIOUS
<1>0. /\ CountInv' /\ RowTypeOK /\ workflow \in WorkflowRows /\ workflow.total \in Nat
      /\ status \in [Jobs -> JobStatuses] /\ dep \in [Jobs -> DepStatuses]
      /\ WorkflowJobs \subseteq Jobs
      /\ workflow.status \in {"Absent", "Running", "Completed", "Failed", "Cancelled"}
  BY NextCounts, Belonging
  DEF CountInv, DependencyInv, RowTypeOK, JobStatuses, DepStatuses, WorkflowRows
<1>1. CASE UNCHANGED vars
  <2>1. AllDone' <=> AllDone
    BY <1>1, SameRows DEF vars, ghostVars
  <2> QED BY <1>1, <2>1, ClosedKept DEF vars, ghostVars
<1>2. CASE EnqueueWorkflow
  <2>1. /\ Members # {} /\ Members \in SUBSET Jobs /\ Members \subseteq WorkflowJobs
        /\ status' = InsertJobs(Members, status, dep).status /\ place' = Born(Members)
    BY <1>2, Belonging DEF EnqueueWorkflow
  <2>2. NewRows(InsertJobs(Members, status, dep), Members, status, dep)
    BY <1>0, <2>1, InsertEffect
  <2>3. FailedNew(Members, status) = {}
    <3> DEFINE E == {i \in Members : BuiltDep(i) = "waiting"}
               S == {p \in Jobs \ Members : ParentFailed(p, status)}
    <3>1. ASSUME NEW k \in E PROVE DependsOn[k] \intersect ({} \union S) = {}
      BY WorkflowsAssumptions
    <3>2. FailedNew(Members, status) = Reached(E, S)
      BY DEF FailedNew
    <3> HIDE DEF E, S
    <3>3. Reached(E, S) \subseteq {}
      BY <3>1, ReachedLeast
    <3> QED BY <3>2, <3>3
  <2>4. \A i \in Members : status'[i] = "Pending" /\ place'[i] = "table"
    BY <2>1, <2>2, <2>3 DEF NewRows, Born
  <2>5. ~AllDone'
    BY <2>1, <2>4 DEF AllDone, Ended, Finished
  <2> QED BY <2>5 DEF WorkflowIsClosed, AllDone
<1>3. ASSUME NEW new \in SUBSET (Jobs \ WorkflowJobs),
             status' = InsertJobs(new, status, dep).status, place' = Born(new),
             workflow' = workflow
      PROVE  WorkflowIsClosed'
  <2>1. NewRows(InsertJobs(new, status, dep), new, status, dep)
    BY <1>0, InsertEffect
  <2>2. \A i \in WorkflowJobs : status'[i] = status[i] /\ place'[i] = place[i]
    BY <1>0, <1>3, <2>1 DEF NewRows, Born
  <2>3. AllDone' <=> AllDone
    BY <2>2, SameRows
  <2> QED BY <1>3, <2>3, ClosedKept
<1>4. CASE EnqueueBatch
  <2>1. BatchJobs \in SUBSET (Jobs \ WorkflowJobs)
    BY Belonging
  <2> QED BY <1>3, <1>4, <2>1 DEF EnqueueBatch
<1>5. ASSUME NEW j \in Jobs, Enqueue(j) PROVE WorkflowIsClosed'
  <2> DEFINE new == {j}
  <2>1. j \notin WorkflowJobs
    <3>1. \A c : c \in WorkflowJobs <=> c \in Members \/ \E i \in Members : c \in Children[i]
      BY DEF WorkflowJobs
    <3> QED BY <1>5, <3>1, Belonging DEF Enqueue, Spawnable
  <2>2. /\ new \in SUBSET (Jobs \ WorkflowJobs)
        /\ status' = InsertJobs(new, status, dep).status /\ place' = Born(new)
        /\ workflow' = workflow
    BY <1>5, <2>1 DEF Enqueue
  <2> HIDE DEF new
  <2> QED BY <1>3, <2>2
<1>6. ASSUME NEW j \in Jobs,
             \/ Claim(j) \/ RetryRun(j)
             \/ RetryJob(j) \/ RetryDeadJob(j) \/ RestoreArchivedJob(j)
      PROVE  WorkflowIsClosed'
  <2>1. /\ \A i \in Jobs \ {j} : status'[i] = status[i] /\ place'[i] = place[i]
        /\ status'[j] \in {"Pending", "Running"} /\ place'[j] = "table" /\ workflow' = workflow
    BY <1>0, <1>6
    DEF Claim, RetryRun, RetryJob, RetryDeadJob, RestoreArchivedJob, OnTable, RowTypeOK, ghostVars
  <2>2. CASE j \in WorkflowJobs
    <3>1. ~AllDone'
      BY <2>1, <2>2 DEF AllDone, Ended, Finished
    <3> QED BY <2>1, <3>1, ClosedKept
  <2>3. CASE j \notin WorkflowJobs
    <3>1. AllDone' <=> AllDone
      BY <1>0, <2>1, <2>3, SameRows
    <3> QED BY <2>1, <3>1, ClosedKept
  <2> QED BY <2>2, <2>3
<1>7. ASSUME NEW j \in Jobs, FinishRun(j) PROVE WorkflowIsClosed'
  <2>1. PICK end \in {"Completed", "Dead", "TimedOut"} : Terminate(j, end)
    BY <1>7 DEF FinishRun
  <2> QED BY <1>0, <1>7, <2>1, ClosedTerminate DEF Finished, FinishRun
<1>8. ASSUME NEW j \in Jobs, CompleteJob(j) \/ FailJob(j) \/ MarkJobDead(j) \/ MarkJobTimedOut(j)
      PROVE  WorkflowIsClosed'
  <2>1. PICK end \in {"Completed", "Failed", "Dead", "TimedOut"} : OnTable(j) /\ Terminate(j, end)
    BY <1>8 DEF CompleteJob, FailJob, MarkJobDead, MarkJobTimedOut, ManualTerminal
  <2> QED BY <1>0, <2>1, ClosedTerminate DEF Finished
<1>9. ASSUME NEW j \in Jobs, FinishRunWithChildren(j) PROVE WorkflowIsClosed'
  <2> DEFINE new == Children[j]
             s == AfterTerminal(j, "Completed")
             t == InsertJobs(new, s.status, s.dep)
             total == workflow.total + Cardinality(new)
  <2>1. /\ OnTable(j) /\ new # {} /\ status' = t.status /\ place' = Born(new)
        /\ policy' = policy
        /\ workflow' = IF j \in WorkflowJobs
                         THEN RefreshWorkflow(t.status, KeptJobs \union new, total)
                         ELSE s.workflow
    BY <1>9 DEF FinishRunWithChildren
  <2>2. s.workflow = IF InWorkflow(j) THEN RefreshWorkflow(s.status, KeptJobs, workflow.total)
                     ELSE workflow
    BY TerminalWorkflow
  <2>3. /\ s.status \in [Jobs -> JobStatuses] /\ s.dep \in [Jobs -> DepStatuses]
        /\ s.status = [status EXCEPT ![j] = "Completed"]
    BY <1>0, TerminalEffect DEF Finished
  <2>4. new \in SUBSET Jobs /\ total \in Nat
    <3>1. IsFiniteSet(Jobs) /\ new \in SUBSET Jobs
      BY WorkflowsAssumptions, Belonging
    <3>2. Cardinality(new) \in Nat
      BY <3>1, FS_Subset, FS_CardinalityType
    <3> QED BY <1>0, <3>1, <3>2
  <2> HIDE DEF s, total
  <2>5. NewRows(t, new, s.status, s.dep)
    BY <2>3, <2>4, InsertEffect
  <2> HIDE DEF t
  <2>6. CASE j \in WorkflowJobs
    <3>1. workflow' = RefreshWorkflow(status', KeptJobs \union new, total)
      BY <2>1, <2>6
    <3>2. /\ workflow'.total = total
          /\ workflow'.status =
               ProgressStatus(Count(WorkflowJobs, status', KeptJobs \union new, {"Completed"}),
                              Count(WorkflowJobs, status', KeptJobs \union new, FailedStatuses),
                              total, workflow.status)
      BY <2>4, <3>1, RefreshedRow
    <3>3. KeptJobs' = KeptJobs \union new
      BY <2>1, <2>4 DEF KeptJobs, Kept, Born
    <3>4. Fresh'
      BY <1>0, <2>1, <3>2, <3>3 DEF Fresh, ProgressStatus, Count
    <3> QED BY <1>0, <3>4, FreshIsClosed, PTL
  <2>7. CASE j \notin WorkflowJobs
    <3>1. workflow' = workflow /\ new \intersect WorkflowJobs = {}
      BY <2>1, <2>2, <2>7, Belonging DEF InWorkflow
    <3>2. \A i \in WorkflowJobs : status'[i] = status[i] /\ place'[i] = place[i]
      BY <1>0, <2>1, <2>3, <2>5, <2>7, <3>1 DEF NewRows, Born
    <3>3. AllDone' <=> AllDone
      BY <3>2, SameRows
    <3> QED BY <3>1, <3>3, ClosedKept
  <2> QED BY <2>6, <2>7
<1>10. ASSUME NEW j \in Jobs, ArchiveJob(j) PROVE WorkflowIsClosed'
  <2>1. /\ \A i \in Jobs \ {j} : place'[i] = place[i]
        /\ OnTable(j) /\ status[j] \in Finished /\ status' = status /\ workflow' = workflow
    BY <1>0, <1>10 DEF ArchiveJob, RowTypeOK, ghostVars
  <2>2. AllDone' => AllDone
    BY <1>0, <2>1 DEF AllDone, Ended, OnTable, Kept
  <2> QED BY <2>1, <2>2, ClosedKept
<1>11. ASSUME NEW j \in Jobs, DeleteJob(j) PROVE WorkflowIsClosed'
  <2>1. /\ \A i \in Jobs \ {j} : place'[i] = place[i]
        /\ place'[j] = "gone" /\ status' = status /\ workflow' = workflow
    BY <1>0, <1>11 DEF DeleteJob, RowTypeOK, ghostVars
  <2>2. AllDone' => AllDone
    BY <1>0, <2>1 DEF AllDone, Ended, OnTable, Kept
  <2> QED BY <2>1, <2>2, ClosedKept
<1>12. ASSUME NEW j \in Jobs, ResolveJobDependencies(j) PROVE WorkflowIsClosed'
  <2>1. UNCHANGED <<place, status, workflow>>
    BY <1>12 DEF ResolveJobDependencies, ghostVars
  <2>2. AllDone' <=> AllDone
    BY <2>1, SameRows
  <2> QED BY <2>1, <2>2, ClosedKept
<1>13. ASSUME NEW j \in Jobs, FailJobDependencies(j) PROVE WorkflowIsClosed'
  <2> DEFINE s == ApplyFailurePolicy(j, status, dep)
  <2>1. /\ place[j] # "unborn" /\ status[j] \in FailedStatuses
        /\ status' = s.status /\ UNCHANGED <<place, policy>>
        /\ workflow' = RefreshWorkflowOf(j, s.status)
    BY <1>13 DEF FailJobDependencies
  <2>2. CASE InWorkflow(j)
    <3> HIDE DEF s
    <3>1. workflow' = RefreshWorkflow(status', KeptJobs, workflow.total)
      BY <2>1, <2>2 DEF RefreshWorkflowOf
    <3>2. /\ workflow'.total = workflow.total
          /\ workflow'.status = ProgressStatus(Count(WorkflowJobs, status', KeptJobs, {"Completed"}),
                                               Count(WorkflowJobs, status', KeptJobs, FailedStatuses),
                                               workflow.total, workflow.status)
      BY <1>0, <3>1, RefreshedRow
    <3>3. KeptJobs' = KeptJobs
      BY <2>1 DEF KeptJobs, Kept
    <3>4. Fresh'
      BY <1>0, <2>1, <3>2, <3>3 DEF Fresh, ProgressStatus, Count
    <3> QED BY <1>0, <3>4, FreshIsClosed, PTL
  <2>3. CASE ~InWorkflow(j) /\ j \in WorkflowJobs
    <3>1. workflow' = workflow
      BY <2>1, <2>3 DEF RefreshWorkflowOf
    <3>2. s.status[j] \in {status[j], "Failed"}
      BY <1>0, PolicyRows
    <3> HIDE DEF s
    <3>3. ~AllDone'
      BY <2>1, <2>3, <3>2 DEF AllDone, Ended, OnTable, InWorkflow, FailedStatuses
    <3> QED BY <3>1, <3>3, ClosedKept
  <2>4. CASE j \notin WorkflowJobs
    <3>1. workflow' = workflow
      BY <2>1, <2>4 DEF RefreshWorkflowOf, InWorkflow
    <3>2. \A i \in WorkflowJobs : s.status[i] = status[i]
      BY <1>0, <2>4, OutsideFails
    <3> HIDE DEF s
    <3>3. AllDone' <=> AllDone
      BY <2>1, <3>2, SameRows
    <3> QED BY <3>1, <3>3, ClosedKept
  <2> QED BY <2>2, <2>3, <2>4
<1>14. CASE DeleteBatch
  <2>1. /\ \A i \in WorkflowJobs : place'[i] = place[i] /\ status'[i] = status[i]
        /\ workflow' = workflow
    BY <1>0, <1>14, Belonging DEF DeleteBatch, ghostVars
  <2>2. AllDone' <=> AllDone
    BY <2>1, SameRows
  <2> QED BY <2>1, <2>2, ClosedKept
<1>15. CASE CancelWorkflow
  <2>1. workflow'.status = "Cancelled"
    BY <1>0, <1>15 DEF CancelWorkflow, WorkflowRows, ghostVars
  <2> QED BY <2>1 DEF WorkflowIsClosed
<1> QED
  BY <1>1, <1>2, <1>4, <1>5, <1>6, <1>7, <1>8, <1>9, <1>10, <1>11, <1>12, <1>13, <1>14, <1>15
  DEF Next, RunStep, OperatorStep

\* In a workflow whose jobs depend on each other only, the transaction that
\* ends the last job also ends the workflow (refresh_workflow).
THEOREM WorkflowsAreClosed == ASSUME SelfContained PROVE Spec => []WorkflowIsClosed
<1>1. Init => CountInv /\ WorkflowIsClosed
  BY InitCounts DEF Init, WorkflowIsClosed
<1>2. CountInv /\ WorkflowIsClosed /\ [Next]_vars => (CountInv /\ WorkflowIsClosed)'
  BY NextCounts, NextCloses
<1> QED BY <1>1, <1>2, PTL DEF Spec

-----------------------------------------------------------------------------
(* Waiting for a failed job.                                               *)

\* Job i of the table is blocked according to the columns st and dp.
BlockedIn(i, st, dp) ==
  /\ OnTable(i) /\ st[i] = "Pending" /\ dp[i] \notin {"none", "satisfied"} /\ i \notin revived

\* A failed dependency d that its workflow leaves to an operator.
LeftToOperator(d) == d \in WorkflowJobs /\ policy = "Manual"

\* StoppedWithout, by the column st.
StoppedIn(i, d, st) ==
  /\ st[d] = "Failed"
  /\ \/ /\ d \in WorkflowJobs /\ i \notin WorkflowJobs
        /\ policy = "FailFast" \/ workflow.status = "Cancelled"
     \/ d \in BatchJobs /\ i \notin BatchJobs /\ mode = "FailFast"

\* By the columns st and dp nobody waits for a failed job but for those that
\* do not take their dependents along and perhaps for those of except.
DoomRows(st, dp, except) ==
  \A i \in Jobs : BlockedIn(i, st, dp) =>
    \A d \in DependsOn[i] : Kept(d) /\ st[d] \in FailedStatuses /\ d \notin except =>
      LeftToOperator(d) \/ StoppedIn(i, d, st)

\* The inductive invariant behind NoDoomedWaiter.
DoomInv == CountInv /\ WaitRows(status, dep) /\ DoomRows(status, dep, stillborn)

\* What the rows of the next state may excuse stays excused.
SameExcuses ==
  /\ UNCHANGED <<policy, mode>>
  /\ workflow.status = "Cancelled" => workflow'.status = "Cancelled"

\* apply_failure_policy takes everyone along who waits for the failed job.
LEMMA DoomPolicy ==
  ASSUME NEW j \in Jobs, NEW st \in [Jobs -> JobStatuses], NEW dp \in [Jobs -> DepStatuses],
         NEW except, st[j] \in FailedStatuses, DoomRows(st, dp, except),
         \A i \in Jobs : BlockedIn(i, st, dp) => dp[i] = "waiting"
  PROVE  LET s == ApplyFailurePolicy(j, st, dp) IN DoomRows(s.status, s.dep, except \ {j})
<1> DEFINE stopped == IF InWorkflow(j) /\ policy = "FailFast"
                        THEN {i \in WorkflowJobs \ {j} : OnTable(i) /\ st[i] = "Pending"}
                        ELSE {}
           st1 == SetAll(st, stopped, "Failed")
           dp1 == SetAll(dp, {i \in stopped : dp[i] = "waiting"}, "failed")
           E == {i \in Jobs : OnTable(i) /\ st1[i] = "Pending" /\ dp1[i] \in {"waiting", "satisfied"}}
           failed == IF InWorkflow(j) /\ policy = "Manual"
                       THEN {} ELSE FailDependents(j, st1, dp1)
           st2 == SetAll(st1, failed, "Failed")
           dp2 == SetAll(dp1, failed, "failed")
<1>1. ApplyFailurePolicy(j, st, dp) = [status |-> st2, dep |-> dp2]
  BY DEF ApplyFailurePolicy
<1>2. /\ stopped \subseteq WorkflowJobs /\ j \notin stopped
      /\ stopped # {} => policy = "FailFast"
      /\ \A i \in WorkflowJobs : OnTable(i) /\ st[i] = "Pending" /\ stopped # {} /\ i # j => i \in stopped
  OBVIOUS
<1>3. \A i \in Jobs : /\ st1[i] = IF i \in stopped THEN "Failed" ELSE st[i]
                      /\ dp1[i] = IF i \in stopped /\ dp[i] = "waiting" THEN "failed" ELSE dp[i]
  <2> HIDE DEF stopped
  <2> QED BY DEF SetAll
<1>4. (InWorkflow(j) /\ policy = "Manual") \/ failed = Reached(E, {j})
  BY DEF FailDependents
<1>5. InWorkflow(j) /\ policy = "Manual" => failed = {} /\ LeftToOperator(j)
  BY DEF LeftToOperator, InWorkflow
<1>6. \A i \in Jobs : /\ st2[i] = IF i \in failed THEN "Failed" ELSE st1[i]
                      /\ dp2[i] = IF i \in failed THEN "failed" ELSE dp1[i]
  <2> HIDE DEF st1, dp1, failed
  <2> QED BY DEF SetAll
<1>7. \A i \in Jobs : i \in E <=> OnTable(i) /\ st1[i] = "Pending" /\ dp1[i] \in {"waiting", "satisfied"}
  OBVIOUS
<1> HIDE DEF stopped, st1, dp1, E, failed, st2, dp2
<1>8. DoomRows(st2, dp2, except \ {j})
  <2> SUFFICES ASSUME NEW i \in Jobs, BlockedIn(i, st2, dp2), NEW d \in DependsOn[i],
                      Kept(d), st2[d] \in FailedStatuses, d \notin except \ {j}
               PROVE  LeftToOperator(d) \/ StoppedIn(i, d, st2)
    BY DEF DoomRows
  <2>1. d \in Jobs
    BY WorkflowsAssumptions
  <2>2. /\ i \notin failed /\ i \notin stopped /\ OnTable(i) /\ st[i] = "Pending"
        /\ dp2[i] = dp[i] /\ BlockedIn(i, st, dp) /\ st1[i] = "Pending" /\ dp1[i] = dp[i]
    BY <1>3, <1>6 DEF BlockedIn
  <2>3. i \in E /\ i # j
    BY <1>7, <2>2 DEF FailedStatuses
  <2>4. CASE d = j
    <3>1. ASSUME failed = Reached(E, {j}) PROVE FALSE
      <4>1. DependsOn[i] \intersect (Reached(E, {j}) \union {j}) # {}
        BY <2>4
      <4> QED BY <2>2, <2>3, <3>1, <4>1, ReachedClosed
    <3> QED BY <1>4, <1>5, <2>4, <3>1
  <2>5. CASE d \in stopped
    <3>1. i \notin WorkflowJobs /\ d \in WorkflowJobs /\ policy = "FailFast"
      BY <1>2, <2>2, <2>3, <2>5
    <3>2. st2[d] = "Failed"
      BY <1>3, <1>6, <2>1, <2>5
    <3> QED BY <3>1, <3>2 DEF StoppedIn
  <2>6. CASE d \in failed
    <3>1. failed = Reached(E, {j})
      BY <1>4, <1>5, <2>6
    <3>2. DependsOn[i] \intersect (Reached(E, {j}) \union {j}) # {}
      BY <2>6, <3>1
    <3> QED BY <2>2, <2>3, <3>1, <3>2, ReachedClosed
  <2>7. CASE d # j /\ d \notin stopped /\ d \notin failed
    <3>1. st2[d] = st[d]
      BY <1>3, <1>6, <2>1, <2>7
    <3>2. LeftToOperator(d) \/ StoppedIn(i, d, st)
      BY <2>2, <2>7, <3>1 DEF DoomRows
    <3> QED BY <3>1, <3>2 DEF StoppedIn
  <2> QED BY <2>4, <2>5, <2>6, <2>7
<1> QED BY <1>1, <1>8

\* The batch's failure mode takes along whoever waits for a job it cancels.
LEMMA DoomBatch ==
  ASSUME NEW j \in Jobs, NEW end, NEW st \in [Jobs -> JobStatuses], NEW dp, NEW except,
         DoomRows(st, dp, except)
  PROVE  DoomRows(ApplyBatchOutcome(j, end, st).status, dp, except)
<1> DEFINE failFast == end # "Completed" /\ mode = "FailFast"
           cancelled == IF failFast THEN {i \in BatchJobs : OnTable(i) /\ st[i] = "Pending"}
                        ELSE {}
           st1 == SetAll(st, cancelled, "Failed")
<1>1. /\ cancelled \subseteq BatchJobs /\ (cancelled # {} => mode = "FailFast")
      /\ \A i \in BatchJobs : OnTable(i) /\ st[i] = "Pending" /\ cancelled # {} => i \in cancelled
  OBVIOUS
<1>2. \A i \in Jobs : st1[i] = IF i \in cancelled THEN "Failed" ELSE st[i]
  <2> HIDE DEF cancelled
  <2> QED BY DEF SetAll
<1>3. ApplyBatchOutcome(j, end, st).status \in {st, st1}
  BY DEF ApplyBatchOutcome
<1> HIDE DEF st1, cancelled
<1>4. DoomRows(st1, dp, except)
  <2> SUFFICES ASSUME NEW i \in Jobs, BlockedIn(i, st1, dp), NEW d \in DependsOn[i],
                      Kept(d), st1[d] \in FailedStatuses, d \notin except
               PROVE  LeftToOperator(d) \/ StoppedIn(i, d, st1)
    BY DEF DoomRows
  <2>1. d \in Jobs
    BY WorkflowsAssumptions
  <2>2. i \notin cancelled /\ BlockedIn(i, st, dp)
    BY <1>2 DEF BlockedIn
  <2>3. CASE d \in cancelled
    <3>1. i \notin BatchJobs /\ d \in BatchJobs /\ mode = "FailFast" /\ st1[d] = "Failed"
      BY <1>1, <1>2, <2>1, <2>2, <2>3 DEF BlockedIn
    <3> QED BY <3>1 DEF StoppedIn
  <2>4. CASE d \notin cancelled
    <3>1. st1[d] = st[d]
      BY <1>2, <2>1, <2>4
    <3>2. LeftToOperator(d) \/ StoppedIn(i, d, st)
      BY <2>2, <3>1 DEF DoomRows
    <3> QED BY <3>1, <3>2 DEF StoppedIn
  <2> QED BY <2>3, <2>4
<1> QED BY <1>3, <1>4

\* The end of a job leaves nobody waiting for it in vain.
LEMMA DoomTerminal ==
  ASSUME RowTypeOK, WaitRows(status, dep), DoomRows(status, dep, stillborn),
         NEW j \in Jobs, NEW end \in Finished
  PROVE  DoomRows(AfterTerminal(j, end).status, AfterTerminal(j, end).dep, stillborn \ {j})
<1> DEFINE st0 == [status EXCEPT ![j] = end]
           p == ApplyFailurePolicy(j, st0, dep)
           s == AfterTerminal(j, end)
<1>1. /\ st0 \in [Jobs -> JobStatuses] /\ dep \in [Jobs -> DepStatuses]
      /\ \A i \in Jobs : st0[i] = IF i = j THEN end ELSE status[i]
  BY DEF RowTypeOK, JobStatuses, DepStatuses
<1>2. \A i \in Jobs : DependsOn[i] \subseteq Jobs
  BY WorkflowsAssumptions
<1>3. CASE end = "Completed"
  <2>1. s.status = st0 /\ s.dep = ResolveDependents(j, st0, dep)
    BY <1>3, TerminalEffect
  <2> HIDE DEF st0, s
  <2>2. \A i \in Jobs : s.dep[i] = dep[i] \/ s.dep[i] = "satisfied"
    BY <1>1, <2>1, ResolveRows
  <2>3. DoomRows(s.status, s.dep, stillborn \ {j})
    BY <1>1, <1>2, <1>3, <2>1, <2>2 DEF DoomRows, BlockedIn, StoppedIn, FailedStatuses
  <2> QED BY <2>3 DEF s
<1>4. CASE end # "Completed"
  <2>1. s.status = ApplyBatchOutcome(j, end, p.status).status /\ s.dep = p.dep
    BY <1>4 DEF AfterTerminal
  <2>2. p.status \in [Jobs -> JobStatuses]
    BY <1>1, PolicyRows
  <2> HIDE DEF st0
  <2>3. st0[j] \in FailedStatuses
    BY <1>1, <1>4 DEF Finished, FailedStatuses
  <2>4. \A i \in Jobs : BlockedIn(i, st0, dep) => i # j /\ BlockedIn(i, status, dep)
    BY <1>1, <1>4 DEF BlockedIn, Finished
  <2>5. DoomRows(st0, dep, stillborn \union {j})
    BY <1>1, <1>2, <2>4 DEF DoomRows, StoppedIn
  <2>6. \A i \in Jobs : BlockedIn(i, st0, dep) => dep[i] = "waiting"
    BY <2>4 DEF WaitRows, BlockedIn
  <2>7. DoomRows(p.status, p.dep, stillborn \ {j})
    <3>1. (stillborn \union {j}) \ {j} = stillborn \ {j}
      OBVIOUS
    <3> QED BY <1>1, <2>3, <2>5, <2>6, <3>1, DoomPolicy
  <2> HIDE DEF p, s
  <2>8. DoomRows(s.status, s.dep, stillborn \ {j})
    BY <2>1, <2>2, <2>7, DoomBatch
  <2> QED BY <2>8 DEF s
<1> QED BY <1>3, <1>4

\* An insertion fails whoever it inserts to wait for a failed job; new jobs that
\* old ones wait for are stillborn when they are inserted as failed.
LEMMA DoomInsert ==
  ASSUME NEW new \in SUBSET Jobs,
         NEW st \in [Jobs -> JobStatuses], NEW dp \in [Jobs -> DepStatuses],
         NEW except, DoomRows(st, dp, except), except \subseteq stillborn',
         Stillborn(new, status') \subseteq stillborn',
         status' = InsertJobs(new, st, dp).status, dep' = InsertJobs(new, st, dp).dep,
         place' = Born(new), SameExcuses, UNCHANGED revived
  PROVE  DoomRows(status, dep, stillborn)'
<1> DEFINE E == {i \in new : BuiltDep(i) = "waiting"}
           S == {p \in Jobs \ new : ParentFailed(p, st)}
           failed == FailedNew(new, st)
           s == InsertJobs(new, st, dp)
<1>0. NewRows(s, new, st, dp) /\ status' = s.status /\ dep' = s.dep
  BY InsertEffect
<1>1. failed = Reached(E, S) /\ failed \subseteq E
  BY DEF FailedNew, Reached
<1>2. \A i \in Jobs : place'[i] = IF i \in new THEN "table" ELSE place[i]
  BY DEF Born
<1>3. \A i \in Jobs : BuiltDep(i) \in {"none", "waiting"}
  BY DEF BuiltDep
<1>4. \A p \in Jobs \ new : Kept(p) /\ st[p] \in FailedStatuses => p \in S \/ LeftToOperator(p)
  BY DEF ParentFailed, LeftToOperator, Kept, OnTable
<1>5. \A i \in E : i \in new
  OBVIOUS
<1>6. \A i \in new : BuiltDep(i) = "waiting" => i \in E
  OBVIOUS
<1> HIDE DEF s, failed, E, S
<1>7. /\ \A i \in Jobs \ new : status'[i] = st[i] /\ dep'[i] = dp[i]
      /\ \A i \in new \ failed :
           /\ status'[i] = "Pending" /\ dep'[i] \in {"satisfied", "none", "waiting"}
           /\ dep'[i] = "waiting" => BuiltDep(i) = "waiting"
      /\ \A i \in failed : status'[i] = "Failed"
  BY <1>0, <1>3 DEF NewRows, failed
<1> SUFFICES ASSUME NEW i \in Jobs, BlockedIn(i, status, dep)', NEW d \in DependsOn[i],
                    Kept(d)', status'[d] \in FailedStatuses, d \notin stillborn'
             PROVE  LeftToOperator(d) \/ StoppedIn(i, d, status)'
  BY DEF DoomRows, LeftToOperator, SameExcuses
<1>8. d \in Jobs
  BY WorkflowsAssumptions
<1>9. d \in new => d \in failed
  BY <1>7 DEF FailedStatuses
<1>10. d \notin new => Kept(d) /\ st[d] \in FailedStatuses /\ st[d] = status'[d]
  BY <1>2, <1>7, <1>8 DEF Kept
<1>11. CASE i \notin new
  <2>1. BlockedIn(i, st, dp)
    BY <1>2, <1>7, <1>11 DEF BlockedIn, OnTable
  <2>2. d \notin new
    <3>1. ASSUME d \in new PROVE FALSE
      <4>1. status'[d] = "Failed"
        BY <1>7, <1>9, <3>1
      <4>2. d \in Stillborn(new, status')
        BY <1>11, <2>1, <3>1, <4>1 DEF Stillborn, BlockedIn
      <4> QED BY <4>2
    <3> QED BY <3>1
  <2>3. LeftToOperator(d) \/ StoppedIn(i, d, st)
    BY <1>10, <2>1, <2>2 DEF DoomRows
  <2> QED BY <1>10, <2>2, <2>3 DEF StoppedIn, SameExcuses
<1>12. CASE i \in new
  <2>1. i \notin failed /\ i \in E
    BY <1>6, <1>7, <1>12 DEF BlockedIn
  <2>2. d \notin failed /\ d \notin S
    <3>1. ASSUME d \in failed \union S PROVE FALSE
      <4>1. DependsOn[i] \intersect (Reached(E, S) \union S) # {}
        BY <1>1, <3>1
      <4> QED BY <1>1, <2>1, <4>1, ReachedClosed
    <3> QED BY <3>1
  <2> QED BY <1>4, <1>8, <1>9, <1>10, <2>2
<1> QED BY <1>11, <1>12

\* A row that is put back by hand waits for no failed job, and no job fails.
LEMMA DoomPutBack ==
  ASSUME RowTypeOK, DoomRows(status, dep, stillborn), NEW j \in Jobs, NEW r \in ReevaluatedDeps(j),
         dep' = [dep EXCEPT ![j] = r], status' = [status EXCEPT ![j] = "Pending"],
         \A i \in Jobs \ {j} : place'[i] = place[i],
         stillborn' = stillborn \ {j}, SameExcuses, UNCHANGED revived
  PROVE  DoomRows(status, dep, stillborn)'
<1>1. \A i \in Jobs : DependsOn[i] \subseteq Jobs
  BY WorkflowsAssumptions
<1>2. \A i \in Jobs : /\ status'[i] = IF i = j THEN "Pending" ELSE status[i]
                      /\ dep'[i] = IF i = j THEN r ELSE dep[i]
  BY DEF RowTypeOK
<1>3. \A d \in Jobs : Kept(d)' /\ status'[d] \in FailedStatuses =>
                        d # j /\ Kept(d) /\ status[d] \in FailedStatuses
  BY <1>2 DEF Kept, FailedStatuses
<1>4. r \in {"none", "satisfied"} \/ \A d \in DependsOn[j] : status[d] \notin FailedStatuses
  BY ReevaluatedWaits
<1> SUFFICES ASSUME NEW i \in Jobs, BlockedIn(i, status, dep)', NEW d \in DependsOn[i],
                    Kept(d)', status'[d] \in FailedStatuses, d \notin stillborn'
             PROVE  LeftToOperator(d) \/ StoppedIn(i, d, status)'
  BY DEF DoomRows, LeftToOperator, SameExcuses
<1>5. /\ d \in Jobs /\ Kept(d) /\ status[d] \in FailedStatuses
      /\ status'[d] = status[d] /\ d \notin stillborn
  BY <1>1, <1>2, <1>3
<1>6. CASE i = j
  <2>1. dep'[j] = r /\ BlockedIn(j, status, dep)' /\ d \in DependsOn[j]
    BY <1>2, <1>6
  <2> QED BY <1>4, <1>5, <2>1 DEF BlockedIn
<1>7. CASE i # j
  <2>1. BlockedIn(i, status, dep)
    BY <1>2, <1>7 DEF BlockedIn, OnTable
  <2>2. LeftToOperator(d) \/ StoppedIn(i, d, status)
    BY <1>5, <2>1 DEF DoomRows
  <2> QED BY <1>5, <2>2 DEF StoppedIn, SameExcuses
<1> QED BY <1>6, <1>7

\* Steps that block nobody anew and fail no job.
LEMMA DoomFewer ==
  ASSUME DoomRows(status, dep, stillborn), UNCHANGED stillborn, SameExcuses,
         \A i \in Jobs : /\ BlockedIn(i, status, dep)' => BlockedIn(i, status, dep)
                         /\ Kept(i)' => Kept(i)
                         /\ status'[i] \in FailedStatuses => status'[i] = status[i]
  PROVE  DoomRows(status, dep, stillborn)'
<1>1. \A i \in Jobs : DependsOn[i] \subseteq Jobs
  BY WorkflowsAssumptions
<1> QED BY <1>1 DEF DoomRows, LeftToOperator, StoppedIn, SameExcuses

\* The columns of a state, as the next one has them.
LEMMA DoomNow ==
  ASSUME NEW st, NEW dp, NEW except, DoomRows(st, dp, except), status' = st, dep' = dp,
         stillborn' = except, SameExcuses, UNCHANGED <<place, revived>>
  PROVE  DoomRows(status, dep, stillborn)'
<1>1. \A i \in Jobs : Kept(i)' = Kept(i) /\ (BlockedIn(i, status, dep)' <=> BlockedIn(i, st, dp))
  BY DEF BlockedIn, OnTable, Kept
<1>2. \A i \in Jobs : DependsOn[i] \subseteq Jobs
  BY WorkflowsAssumptions
<1> QED BY <1>1, <1>2 DEF DoomRows, LeftToOperator, StoppedIn, SameExcuses

\* A terminal transition leaves a cancelled workflow cancelled.
LEMMA TerminalExcuses ==
  ASSUME CountInv, NEW j \in Jobs, NEW end, workflow.status = "Cancelled"
  PROVE  AfterTerminal(j, end).workflow.status = "Cancelled"
<1>1. workflow.total \in Nat
  BY DEF CountInv, WorkflowRows
<1>2. AfterTerminal(j, end).workflow =
        IF InWorkflow(j) THEN RefreshWorkflow(AfterTerminal(j, end).status, KeptJobs, workflow.total)
        ELSE workflow
  BY TerminalWorkflow
<1> QED BY <1>1, <1>2, RefreshedRow

\* The end of a run or a transition by hand.
LEMMA DoomTerminate ==
  ASSUME DoomInv, NEW j \in Jobs, NEW end \in Finished, Terminate(j, end)
  PROVE  DoomRows(status, dep, stillborn)'
<1>1. DoomRows(AfterTerminal(j, end).status, AfterTerminal(j, end).dep, stillborn \ {j})
  BY DoomTerminal DEF DoomInv, CountInv, DependencyInv
<1>2. /\ status' = AfterTerminal(j, end).status /\ dep' = AfterTerminal(j, end).dep
      /\ stillborn' = stillborn \ {j} /\ UNCHANGED <<place, policy, mode, revived>>
      /\ workflow' = AfterTerminal(j, end).workflow
  BY DEF Terminate
<1>3. SameExcuses
  BY <1>2, TerminalExcuses DEF SameExcuses, DoomInv
<1> QED BY <1>1, <1>2, <1>3, DoomNow

\* Every step keeps the blocked jobs clear of failed dependencies.
LEMMA NextDooms == DoomInv /\ [Next]_vars => DoomRows(status, dep, stillborn)'
<1> SUFFICES ASSUME DoomInv, [Next]_vars PROVE DoomRows(status, dep, stillborn)'
  OBVIOUS
<1> DEFINE Safe == DoomRows(status, dep, stillborn)
<1>0. /\ CountInv /\ RowTypeOK /\ WaitRows(status, dep) /\ DoomRows(status, dep, stillborn)
      /\ status \in [Jobs -> JobStatuses] /\ dep \in [Jobs -> DepStatuses]
  BY DEF DoomInv, CountInv, DependencyInv, RowTypeOK, JobStatuses, DepStatuses
<1>1. CASE UNCHANGED vars
  BY <1>0, <1>1, DoomNow DEF vars, ghostVars, SameExcuses
<1>2. CASE EnqueueWorkflow
  <2>1. /\ Members \in SUBSET Jobs /\ workflow.status = "Absent"
        /\ status' = InsertJobs(Members, status, dep).status
        /\ dep' = InsertJobs(Members, status, dep).dep
        /\ place' = Born(Members) /\ UNCHANGED <<policy, mode, revived>>
        /\ stillborn' = stillborn \union Stillborn(Members, status')
    BY <1>2, WorkflowsAssumptions DEF EnqueueWorkflow
  <2>2. SameExcuses
    BY <2>1 DEF SameExcuses
  <2>3. stillborn \subseteq stillborn' /\ Stillborn(Members, status') \subseteq stillborn'
    BY <2>1
  <2> QED BY <1>0, <2>1, <2>2, <2>3, DoomInsert
<1>3. CASE EnqueueBatch
  <2>1. /\ BatchJobs \in SUBSET Jobs
        /\ status' = InsertJobs(BatchJobs, status, dep).status
        /\ dep' = InsertJobs(BatchJobs, status, dep).dep
        /\ place' = Born(BatchJobs) /\ UNCHANGED <<policy, mode, workflow, revived>>
        /\ stillborn' = stillborn \union Stillborn(BatchJobs, status')
    BY <1>3, WorkflowsAssumptions DEF EnqueueBatch
  <2>2. SameExcuses
    BY <2>1 DEF SameExcuses
  <2>3. stillborn \subseteq stillborn' /\ Stillborn(BatchJobs, status') \subseteq stillborn'
    BY <2>1
  <2> QED BY <1>0, <2>1, <2>2, <2>3, DoomInsert
<1>4. ASSUME NEW j \in Jobs, Enqueue(j) PROVE Safe'
  <2> DEFINE new == {j}
  <2>1. /\ new \in SUBSET Jobs /\ stillborn' = stillborn \union Stillborn(new, status')
        /\ status' = InsertJobs(new, status, dep).status /\ dep' = InsertJobs(new, status, dep).dep
        /\ place' = Born(new) /\ UNCHANGED <<policy, mode, workflow, revived>>
    BY <1>4 DEF Enqueue
  <2> HIDE DEF new
  <2>2. SameExcuses
    BY <2>1 DEF SameExcuses
  <2>3. stillborn \subseteq stillborn' /\ Stillborn(new, status') \subseteq stillborn'
    BY <2>1
  <2> QED BY <1>0, <2>1, <2>2, <2>3, DoomInsert
<1>5. ASSUME NEW j \in Jobs, Claim(j) \/ RetryRun(j) \/ RetryDeadJob(j) PROVE Safe'
  <2>1. /\ \A i \in Jobs \ {j} : status'[i] = status[i]
        /\ status'[j] \in {"Pending", "Running"} /\ UNCHANGED <<place, dep, stillborn>>
        /\ SameExcuses /\ revived \subseteq revived'
    BY <1>0, <1>5 DEF Claim, RetryRun, RetryDeadJob, RowTypeOK, ghostVars, SameExcuses
  <2>2. status'[j] = "Running" \/ dep[j] \in {"none", "satisfied"} \/ j \in revived'
    <3>1. CASE Claim(j)
      BY <3>1 DEF Claim, ghostVars
    <3>2. CASE RetryRun(j)
      BY <1>0, <3>2 DEF RetryRun, WaitRows, ghostVars
    <3>3. CASE RetryDeadJob(j)
      BY <3>3 DEF RetryDeadJob
    <3> QED BY <1>5, <3>1, <3>2, <3>3
  <2>3. \A i \in Jobs : BlockedIn(i, status, dep)' => i # j /\ BlockedIn(i, status, dep)
    BY <2>1, <2>2 DEF BlockedIn, OnTable
  <2>4. \A i \in Jobs : Kept(i)' = Kept(i)
    BY <2>1 DEF Kept
  <2>5. \A i \in Jobs : status'[i] \in FailedStatuses => status'[i] = status[i]
    BY <2>1 DEF FailedStatuses
  <2> QED BY <1>0, <2>1, <2>3, <2>4, <2>5, DoomFewer
<1>6. ASSUME NEW j \in Jobs, FinishRun(j) PROVE Safe'
  <2>1. PICK end \in {"Completed", "Dead", "TimedOut"} : Terminate(j, end)
    BY <1>6 DEF FinishRun
  <2> QED BY <2>1, DoomTerminate DEF Finished
<1>7. ASSUME NEW j \in Jobs, CompleteJob(j) \/ FailJob(j) \/ MarkJobDead(j) \/ MarkJobTimedOut(j)
      PROVE  Safe'
  <2>1. PICK end \in {"Completed", "Failed", "Dead", "TimedOut"} : Terminate(j, end)
    BY <1>7 DEF CompleteJob, FailJob, MarkJobDead, MarkJobTimedOut, ManualTerminal
  <2> QED BY <2>1, DoomTerminate DEF Finished
<1>8. ASSUME NEW j \in Jobs, FinishRunWithChildren(j) PROVE Safe'
  <2> DEFINE s == AfterTerminal(j, "Completed")
  <2>1. /\ s.status \in [Jobs -> JobStatuses] /\ s.dep \in [Jobs -> DepStatuses]
        /\ DoomRows(s.status, s.dep, stillborn \ {j})
    BY <1>0, TerminalEffect, DoomTerminal DEF Finished
  <2>2. /\ status' = InsertJobs(Children[j], s.status, s.dep).status
        /\ dep' = InsertJobs(Children[j], s.status, s.dep).dep
        /\ place' = Born(Children[j]) /\ UNCHANGED <<policy, mode, revived>>
        /\ stillborn' = stillborn \union Stillborn(Children[j], status')
        /\ \/ workflow' = s.workflow
           \/ \E st : workflow' = RefreshWorkflow(st, KeptJobs \union Children[j],
                                                 workflow.total + Cardinality(Children[j]))
    BY <1>8 DEF FinishRunWithChildren
  <2>3. Children[j] \in SUBSET Jobs
    BY WorkflowsAssumptions
  <2>4. SameExcuses
    <3>1. workflow.status = "Cancelled" => s.workflow.status = "Cancelled"
      BY <1>0, TerminalExcuses
    <3>2. IsFiniteSet(Jobs)
      BY WorkflowsAssumptions
    <3>3. IsFiniteSet(Children[j])
      BY <2>3, <3>2, FS_Subset
    <3>4. workflow.total + Cardinality(Children[j]) \in Nat
      BY <1>0, <3>3, FS_CardinalityType DEF CountInv, WorkflowRows
    <3> HIDE DEF s
    <3> QED BY <2>2, <3>1, <3>4, RefreshedRow DEF SameExcuses
  <2>5. stillborn \ {j} \subseteq stillborn' /\ Stillborn(Children[j], status') \subseteq stillborn'
    BY <2>2
  <2> HIDE DEF s
  <2> QED BY <2>1, <2>2, <2>3, <2>4, <2>5, DoomInsert
<1>9. ASSUME NEW j \in Jobs, RetryJob(j) \/ RestoreArchivedJob(j) PROVE Safe'
  <2>1. PICK r \in ReevaluatedDeps(j) : dep' = [dep EXCEPT ![j] = r]
    BY <1>9 DEF RetryJob, RestoreArchivedJob
  <2>2. /\ status' = [status EXCEPT ![j] = "Pending"] /\ SameExcuses /\ UNCHANGED revived
        /\ \A i \in Jobs \ {j} : place'[i] = place[i]
        /\ stillborn' = stillborn \ {j}
    BY <1>0, <1>9 DEF RetryJob, RestoreArchivedJob, RowTypeOK, SameExcuses
  <2> QED BY <1>0, <2>1, <2>2, DoomPutBack
<1>10. ASSUME NEW j \in Jobs, ArchiveJob(j) \/ DeleteJob(j) PROVE Safe'
  <2>1. /\ UNCHANGED <<status, dep, revived, stillborn>> /\ SameExcuses
        /\ \A i \in Jobs : (OnTable(i)' => OnTable(i)) /\ (Kept(i)' => Kept(i))
    BY <1>0, <1>10
    DEF ArchiveJob, DeleteJob, OnTable, Kept, RowTypeOK, ghostVars, SameExcuses
  <2>2. \A i \in Jobs : BlockedIn(i, status, dep)' => BlockedIn(i, status, dep)
    BY <2>1 DEF BlockedIn
  <2> QED BY <1>0, <2>1, <2>2, DoomFewer
<1>11. ASSUME NEW j \in Jobs, FailJobDependencies(j) PROVE Safe'
  <2> DEFINE s == ApplyFailurePolicy(j, status, dep)
  <2>1. /\ status' = s.status /\ dep' = s.dep /\ UNCHANGED <<place, policy, mode, revived>>
        /\ status[j] \in FailedStatuses /\ stillborn' = stillborn \ {j}
        /\ workflow' = RefreshWorkflowOf(j, s.status)
    BY <1>11 DEF FailJobDependencies
  <2>2. \A i \in Jobs : BlockedIn(i, status, dep) => dep[i] = "waiting"
    BY <1>0 DEF WaitRows, BlockedIn
  <2>3. DoomRows(s.status, s.dep, stillborn \ {j})
    BY <1>0, <2>1, <2>2, DoomPolicy
  <2> HIDE DEF s
  <2>4. SameExcuses
    <3>1. workflow.total \in Nat
      BY <1>0 DEF CountInv, WorkflowRows
    <3> QED BY <2>1, <3>1, RefreshedRow DEF SameExcuses, RefreshWorkflowOf
  <2> QED BY <2>1, <2>3, <2>4, DoomNow
<1>12. ASSUME NEW j \in Jobs, ResolveJobDependencies(j) PROVE Safe'
  <2>1. /\ \A i \in Jobs : dep'[i] = dep[i] \/ dep'[i] = "satisfied"
        /\ UNCHANGED <<place, status, revived, stillborn>> /\ SameExcuses
    BY <1>0, <1>12, ResolveRows DEF ResolveJobDependencies, ghostVars, SameExcuses
  <2>2. \A i \in Jobs : Kept(i)' = Kept(i) /\ OnTable(i)' = OnTable(i)
    BY <2>1 DEF OnTable, Kept
  <2>3. \A i \in Jobs : BlockedIn(i, status, dep)' => BlockedIn(i, status, dep)
    BY <2>1, <2>2 DEF BlockedIn
  <2> QED BY <1>0, <2>1, <2>2, <2>3, DoomFewer
<1>13. CASE DeleteBatch
  <2>1. /\ UNCHANGED <<status, dep, revived, stillborn>> /\ SameExcuses
        /\ \A i \in Jobs : (OnTable(i)' => OnTable(i)) /\ (Kept(i)' => Kept(i))
    BY <1>13 DEF DeleteBatch, OnTable, Kept, ghostVars, SameExcuses
  <2>2. \A i \in Jobs : BlockedIn(i, status, dep)' => BlockedIn(i, status, dep)
    BY <2>1 DEF BlockedIn
  <2> QED BY <1>0, <2>1, <2>2, DoomFewer
<1>14. CASE CancelWorkflow
  <2> DEFINE stopped == {i \in WorkflowJobs : OnTable(i) /\ status[i] \in {"Pending", "Running"}}
  <2>1. /\ status' = SetAll(status, stopped, "Failed")
        /\ dep' = SetAll(dep, {i \in stopped : dep[i] = "waiting"}, "failed")
        /\ UNCHANGED <<place, policy, mode, revived, stillborn>>
        /\ workflow' = [workflow EXCEPT !.status = "Cancelled"]
    BY <1>14 DEF CancelWorkflow, ghostVars
  <2>2. /\ stopped \subseteq WorkflowJobs
        /\ \A i \in WorkflowJobs : OnTable(i) /\ status[i] = "Pending" => i \in stopped
    OBVIOUS
  <2> HIDE DEF stopped
  <2>3. \A i \in Jobs : /\ status'[i] = IF i \in stopped THEN "Failed" ELSE status[i]
                        /\ i \notin stopped => dep'[i] = dep[i]
    BY <2>1 DEF SetAll
  <2>4. \A i \in Jobs : BlockedIn(i, status, dep)' => i \notin stopped /\ BlockedIn(i, status, dep)
    BY <2>1, <2>3 DEF BlockedIn, OnTable
  <2> SUFFICES ASSUME NEW i \in Jobs, BlockedIn(i, status, dep)', NEW d \in DependsOn[i],
                      Kept(d)', status'[d] \in FailedStatuses, d \notin stillborn'
               PROVE  LeftToOperator(d) \/ StoppedIn(i, d, status)'
    BY <2>1 DEF DoomRows, LeftToOperator
  <2>5. d \in Jobs /\ Kept(d) /\ d \notin stillborn
    BY <2>1, WorkflowsAssumptions DEF Kept
  <2>6. workflow'.status = "Cancelled"
    BY <1>0, <2>1 DEF CountInv, WorkflowRows
  <2>7. i \notin WorkflowJobs
    BY <2>2, <2>4 DEF BlockedIn
  <2>8. CASE d \in stopped
    BY <2>2, <2>3, <2>5, <2>6, <2>7, <2>8 DEF StoppedIn
  <2>9. CASE d \notin stopped
    <3>1. status'[d] = status[d] /\ BlockedIn(i, status, dep)
      BY <2>3, <2>4, <2>5, <2>9
    <3>2. LeftToOperator(d) \/ StoppedIn(i, d, status)
      BY <1>0, <2>5, <3>1 DEF DoomRows
    <3> QED BY <2>1, <2>6, <3>1, <3>2 DEF StoppedIn
  <2> QED BY <2>8, <2>9
<1> QED
  BY <1>1, <1>2, <1>3, <1>4, <1>5, <1>6, <1>7, <1>8, <1>9, <1>10, <1>11, <1>12, <1>13, <1>14
  DEF Next, RunStep, OperatorStep

\* No job is left waiting for one that has failed for good, whatever depends on
\* whatever, but for the exceptions of NoDoomedWaiter (apply_failure_policy,
\* fail_dependents, settle_new_dependents).
THEOREM NobodyIsDoomed == Spec => []NoDoomedWaiter
<1>1. Init => DoomInv
  BY InitCounts DEF Init, DoomInv, DoomRows, WaitRows, BlockedIn, OnTable
<1>2. DoomInv /\ [Next]_vars => DoomInv'
  <2>1. CountInv /\ WaitRows(status, dep) => WaitingInv
    BY DEF CountInv, WaitingInv
  <2> QED BY <2>1, NextCounts, NextWaits, NextDooms DEF DoomInv
<1>3. DoomInv => NoDoomedWaiter
  BY DEF DoomInv, DoomRows, NoDoomedWaiter, Blocked, BlockedIn, LeftToOperator, StoppedIn, StoppedWithout
<1> QED BY <1>1, <1>2, <1>3, PTL DEF Spec

-----------------------------------------------------------------------------
(* The batch's row.                                                        *)

BatchRecords ==
  [status : {"Absent", "Pending", "Processing", "Completed", "PartiallyFailed", "Failed"},
   completed : Nat, failed : Nat, pending : Nat]

\* The inductive invariant behind BatchIsClosed.
BatchInv == RowTypeOK /\ batch \in BatchRecords /\ BatchIsClosed

\* When every job of the batch is kept and finished, each counts once.
LEMMA BatchCounts ==
  ASSUME NEW st, NEW kept, \A i \in BatchJobs : i \in kept /\ st[i] \in Finished
  PROVE  /\ Count(BatchJobs, st, kept, {"Completed"}) \in Nat
         /\ Count(BatchJobs, st, kept, FailedStatuses) \in Nat
         /\ Cardinality(BatchJobs) = Count(BatchJobs, st, kept, {"Completed"})
                                     + Count(BatchJobs, st, kept, FailedStatuses)
<1> DEFINE C == {i \in BatchJobs \intersect kept : st[i] \in {"Completed"}}
           F == {i \in BatchJobs \intersect kept : st[i] \in FailedStatuses}
<1>1. BatchJobs \in SUBSET Jobs
  BY Belonging
<1>2. IsFiniteSet(C) /\ IsFiniteSet(F)
  <2>1. IsFiniteSet(Jobs) /\ C \in SUBSET Jobs /\ F \in SUBSET Jobs
    BY <1>1, WorkflowsAssumptions
  <2> HIDE DEF C, F
  <2> QED BY <2>1, FS_Subset
<1>3. BatchJobs = C \union F /\ C \intersect F = {}
  BY DEF Finished, FailedStatuses
<1>4. Count(BatchJobs, st, kept, {"Completed"}) = Cardinality(C)
      /\ Count(BatchJobs, st, kept, FailedStatuses) = Cardinality(F)
  BY DEF Count
<1> HIDE DEF C, F
<1>5. Cardinality(C \union F) = Cardinality(C) + Cardinality(F) - Cardinality(C \intersect F)
  BY <1>2, FS_Union
<1>6. Cardinality(C \intersect F) = 0
  BY <1>3, FS_EmptySet
<1>7. Cardinality(C) \in Nat /\ Cardinality(F) \in Nat
  BY <1>2, FS_CardinalityType
<1>8. Cardinality(BatchJobs) = Cardinality(C) + Cardinality(F)
  BY <1>3, <1>5, <1>6, <1>7
<1> QED BY <1>4, <1>7, <1>8

\* What BatchProgress::from_status_counts finds, and that it finds a batch
\* over when all its jobs are.
LEMMA ProgressOfBatch ==
  ASSUME NEW st
  PROVE  LET r == BatchProgress(st) IN
         /\ r \in BatchRecords
         /\ r.completed = Count(BatchJobs, st, KeptJobs, {"Completed"})
         /\ r.failed = Count(BatchJobs, st, KeptJobs, FailedStatuses)
         /\ (\A i \in BatchJobs : i \in KeptJobs /\ st[i] \in Finished) =>
              r.status \in {"Completed", "PartiallyFailed", "Failed"}
<1> DEFINE total == Cardinality(BatchJobs)
           c == Count(BatchJobs, st, KeptJobs, {"Completed"})
           f == Count(BatchJobs, st, KeptJobs, FailedStatuses)
           p == Count(BatchJobs, st, KeptJobs, {"Pending", "Running"})
           verdict == IF f > 0 /\ mode = "FailFast" THEN "Failed"
                      ELSE IF c >= total THEN "Completed"
                      ELSE IF f >= total THEN "Failed"
                      ELSE IF c + f >= total THEN "PartiallyFailed"
                      ELSE IF c + f = 0 THEN "Pending" ELSE "Processing"
<1>1. BatchJobs \in SUBSET Jobs
  BY Belonging
<1>2. c \in Nat /\ f \in Nat /\ p \in Nat
  BY <1>1, CountType
<1>3. total \in Nat
  BY <1>1, WorkflowsAssumptions, FS_Subset, FS_CardinalityType
<1>4. BatchProgress(st) = [completed |-> c, failed |-> f, pending |-> p, status |-> verdict]
  BY DEF BatchProgress
<1>5. (\A i \in BatchJobs : i \in KeptJobs /\ st[i] \in Finished) => total = c + f
  BY BatchCounts
<1> HIDE DEF total, c, f, p
<1>6. verdict \in {"Pending", "Processing", "Completed", "PartiallyFailed", "Failed"}
  OBVIOUS
<1>7. total = c + f => verdict \in {"Completed", "PartiallyFailed", "Failed"}
  BY <1>2, <1>3
<1> HIDE DEF verdict
<1>8. /\ BatchProgress(st) \in BatchRecords
      /\ BatchProgress(st).completed = c /\ BatchProgress(st).failed = f
      /\ BatchProgress(st).status = verdict
  BY <1>2, <1>4, <1>6 DEF BatchRecords
<1> QED BY <1>5, <1>7, <1>8 DEF c, f

\* Steps that leave the batch's row and the rows of its jobs alone, but for
\* where those are kept.
LEMMA BatchKept ==
  ASSUME BatchIsClosed, batch' = batch, unheard => unheard',
         \A i \in BatchJobs : status'[i] = status[i] /\ Kept(i)' = Kept(i)
  PROVE  BatchIsClosed'
<1>1. (\A i \in BatchJobs : Ended(i)') <=> (\A i \in BatchJobs : Ended(i))
  BY DEF Ended
<1>2. \A i \in BatchJobs : i \in KeptJobs' <=> i \in KeptJobs
  BY Belonging DEF KeptJobs
<1>3. {i \in BatchJobs \intersect KeptJobs' : status'[i] \in {"Completed"}}
        = {i \in BatchJobs \intersect KeptJobs : status[i] \in {"Completed"}}
  BY <1>2
<1> QED BY <1>1, <1>3 DEF BatchIsClosed, RowIsRight, Count

\* Steps after which a job of the batch has not ended.
LEMMA BatchOpen ==
  ASSUME NEW i \in BatchJobs, ~Ended(i)'
  PROVE  BatchIsClosed'
BY DEF BatchIsClosed

\* What apply_batch_outcome does to the batch's row.
LEMMA OutcomeOfBatch ==
  ASSUME NEW j \in Jobs, NEW end, NEW st, batch \in BatchRecords
  PROVE  LET r == ApplyBatchOutcome(j, end, st) IN
         /\ r.batch \in BatchRecords
         /\ j \notin BatchJobs \/ batch.status = "Absent" => r.status = st /\ r.batch = batch
         /\ (/\ j \in BatchJobs /\ batch.status # "Absent"
             /\ \A i \in BatchJobs : r.status[i] \notin {"Pending", "Running"})
              => r.batch = BatchProgress(r.status)
<1> DEFINE failFast == end # "Completed" /\ mode = "FailFast"
           cancelled == IF failFast THEN {i \in BatchJobs : OnTable(i) /\ st[i] = "Pending"} ELSE {}
           st1 == SetAll(st, cancelled, "Failed")
           unfinished == \E i \in BatchJobs : OnTable(i) /\ st1[i] \in {"Pending", "Running"}
           row == IF ~unfinished \/ failFast THEN BatchProgress(st1)
                  ELSE IF batch.status = "Pending" THEN [batch EXCEPT !.status = "Processing"]
                  ELSE batch
<1>1. ApplyBatchOutcome(j, end, st) =
        IF j \notin BatchJobs \/ batch.status = "Absent" THEN [status |-> st, batch |-> batch]
        ELSE [status |-> st1, batch |-> row]
  BY DEF ApplyBatchOutcome
<1>2. BatchProgress(st1) \in BatchRecords
  BY ProgressOfBatch
<1>3. (\A i \in BatchJobs : st1[i] \notin {"Pending", "Running"}) => ~unfinished
  OBVIOUS
<1> HIDE DEF st1, unfinished, failFast
<1>4. row \in BatchRecords
  BY <1>2 DEF BatchRecords
<1>5. ~unfinished => row = BatchProgress(st1)
  OBVIOUS
<1> HIDE DEF row
<1>6. CASE j \notin BatchJobs \/ batch.status = "Absent"
  BY <1>1, <1>6
<1>7. CASE ~(j \notin BatchJobs \/ batch.status = "Absent")
  <2>1. ApplyBatchOutcome(j, end, st).status = st1 /\ ApplyBatchOutcome(j, end, st).batch = row
    BY <1>1, <1>7
  <2> QED BY <1>3, <1>4, <1>5, <1>7, <2>1
<1> QED BY <1>6, <1>7

\* The terminal transition that ends the last job of the batch closes it.
LEMMA BatchTerminal ==
  ASSUME BatchInv, NEW j \in Jobs, NEW end \in Finished, Heard(j),
         \A i \in BatchJobs : status'[i] = AfterTerminal(j, end).status[i] /\ place'[i] = place[i],
         batch' = AfterTerminal(j, end).batch
  PROVE  batch' \in BatchRecords /\ BatchIsClosed'
<1> DEFINE st0 == [status EXCEPT ![j] = end]
           s1 == IF end = "Completed"
                   THEN [status |-> st0, dep |-> ResolveDependents(j, st0, dep)]
                   ELSE ApplyFailurePolicy(j, st0, dep)
           s == AfterTerminal(j, end)
           r == ApplyBatchOutcome(j, end, s1.status)
<1>1. /\ st0 \in [Jobs -> JobStatuses] /\ dep \in [Jobs -> DepStatuses]
      /\ \A i \in Jobs : st0[i] = IF i = j THEN end ELSE status[i]
  BY DEF BatchInv, RowTypeOK, JobStatuses, DepStatuses
<1>2. s.status = r.status /\ s.batch = r.batch
  BY DEF AfterTerminal
<1>4. /\ batch \in BatchRecords /\ BatchIsClosed /\ BatchJobs \subseteq Jobs
      /\ \A i \in BatchJobs : Kept(i)' = Kept(i)
  BY Belonging DEF BatchInv, Kept
<1> HIDE DEF s1, st0, s
<1>5. /\ r.batch \in BatchRecords
      /\ j \notin BatchJobs \/ batch.status = "Absent" => r.status = s1.status /\ r.batch = batch
      /\ (/\ j \in BatchJobs /\ batch.status # "Absent"
          /\ \A i \in BatchJobs : r.status[i] \notin {"Pending", "Running"})
           => r.batch = BatchProgress(r.status)
  BY <1>4, OutcomeOfBatch
<1>6. batch' = r.batch /\ \A i \in BatchJobs : status'[i] = r.status[i]
  BY <1>2 DEF s
<1> HIDE DEF r
<1>7. CASE j \notin BatchJobs
  <2>1. batch' = batch
    BY <1>5, <1>6, <1>7
  <2>2. ~unheard' => ~unheard /\ \A i \in BatchJobs : status'[i] = status[i]
    BY <1>7 DEF Heard, BehindItsBack
  <2>3. unheard' => BatchIsClosed'
    BY DEF BatchIsClosed
  <2> QED BY <1>4, <2>1, <2>2, <2>3, BatchKept
<1>8. CASE j \in BatchJobs /\ batch.status = "Absent"
  <2>1. batch' = batch
    BY <1>5, <1>6, <1>8
  <2> QED BY <1>4, <1>8, <2>1 DEF BatchIsClosed
<1>9. CASE j \in BatchJobs /\ batch.status # "Absent"
  <2>1. SUFFICES ASSUME \A i \in BatchJobs : Ended(i)'
                 PROVE  /\ batch'.status \in {"Completed", "PartiallyFailed", "Failed"}
                        /\ batch'.completed = Count(BatchJobs, status, KeptJobs, {"Completed"})'
                        /\ batch'.failed = Cardinality(BatchJobs) - batch'.completed
    BY <1>5, <1>6 DEF BatchIsClosed, RowIsRight
  <2>2. \A i \in BatchJobs : i \in KeptJobs /\ r.status[i] \in Finished
    BY <1>4, <1>6, <2>1 DEF Ended, KeptJobs
  <2>3. batch' = BatchProgress(r.status)
    BY <1>5, <1>6, <1>9, <2>2 DEF Finished
  <2>4. /\ batch'.status \in {"Completed", "PartiallyFailed", "Failed"}
        /\ batch'.completed = Count(BatchJobs, r.status, KeptJobs, {"Completed"})
        /\ batch'.failed = Count(BatchJobs, r.status, KeptJobs, FailedStatuses)
    BY <2>2, <2>3, ProgressOfBatch
  <2>5. /\ Count(BatchJobs, r.status, KeptJobs, {"Completed"}) \in Nat
        /\ Count(BatchJobs, r.status, KeptJobs, FailedStatuses) \in Nat
        /\ Cardinality(BatchJobs) = Count(BatchJobs, r.status, KeptJobs, {"Completed"})
                                    + Count(BatchJobs, r.status, KeptJobs, FailedStatuses)
    BY <2>2, BatchCounts
  <2>6. batch'.failed = Cardinality(BatchJobs) - batch'.completed
    BY <2>4, <2>5
  <2>7. {i \in BatchJobs \intersect KeptJobs' : status'[i] \in {"Completed"}}
          = {i \in BatchJobs \intersect KeptJobs : r.status[i] \in {"Completed"}}
    <3>1. \A i \in BatchJobs : i \in KeptJobs' <=> i \in KeptJobs
      BY <1>4 DEF KeptJobs
    <3> QED BY <1>6, <3>1
  <2>8. batch'.completed = Count(BatchJobs, status, KeptJobs, {"Completed"})'
    BY <2>4, <2>7 DEF Count
  <2> QED BY <2>4, <2>6, <2>8
<1> QED BY <1>7, <1>8, <1>9

\* Every step keeps the batch's row in step with its jobs.
LEMMA NextClosesBatch == BatchInv /\ RowTypeOK' /\ [Next]_vars => BatchInv'
<1> SUFFICES ASSUME BatchInv, [Next]_vars PROVE batch' \in BatchRecords /\ BatchIsClosed'
  BY DEF BatchInv
<1> DEFINE Safe == batch \in BatchRecords /\ BatchIsClosed
<1>0. /\ RowTypeOK /\ Safe /\ BatchJobs \subseteq Jobs
      /\ status \in [Jobs -> JobStatuses] /\ dep \in [Jobs -> DepStatuses]
  BY Belonging DEF BatchInv, RowTypeOK, JobStatuses, DepStatuses
<1>1. CASE UNCHANGED vars
  BY <1>0, <1>1, BatchKept DEF vars, Kept, ghostVars
<1>2. ASSUME NEW new \in SUBSET (Jobs \ BatchJobs),
             status' = InsertJobs(new, status, dep).status, place' = Born(new), batch' = batch,
             unheard' = unheard
      PROVE  Safe'
  <2>1. NewRows(InsertJobs(new, status, dep), new, status, dep)
    BY <1>0, InsertEffect
  <2>2. \A i \in BatchJobs : status'[i] = status[i] /\ place'[i] = place[i]
    BY <1>0, <1>2, <2>1 DEF NewRows, Born
  <2> QED BY <1>0, <1>2, <2>2, BatchKept DEF Kept
<1>3. CASE EnqueueWorkflow
  <2>1. Members \in SUBSET (Jobs \ BatchJobs)
    BY Belonging
  <2> QED BY <1>2, <1>3, <2>1 DEF EnqueueWorkflow
<1>4. CASE EnqueueBatch
  <2>1. /\ BatchJobs # {} /\ BatchJobs \in SUBSET Jobs
        /\ status' = InsertJobs(BatchJobs, status, dep).status
        /\ batch' = [status |-> "Pending", completed |-> 0, failed |-> 0,
                     pending |-> Cardinality(BatchJobs)]
        /\ unheard' = \E i \in BatchJobs : status'[i] = "Failed"
    BY <1>0, <1>4 DEF EnqueueBatch
  <2>2. NewRows(InsertJobs(BatchJobs, status, dep), BatchJobs, status, dep)
    BY <1>0, <2>1, InsertEffect
  <2>3. Cardinality(BatchJobs) \in Nat
    BY <2>1, WorkflowsAssumptions, FS_Subset, FS_CardinalityType
  <2>4. batch' \in BatchRecords
    BY <2>1, <2>3 DEF BatchRecords
  <2>5. CASE \E i \in BatchJobs : status'[i] = "Failed"
    BY <2>1, <2>4, <2>5 DEF BatchIsClosed
  <2>6. CASE \A i \in BatchJobs : status'[i] # "Failed"
    <3>1. \A i \in BatchJobs : status'[i] = "Pending"
      BY <2>1, <2>2, <2>6 DEF NewRows
    <3>2. PICK i \in BatchJobs : ~Ended(i)'
      BY <2>1, <3>1 DEF Ended, Finished
    <3> QED BY <2>4, <3>2, BatchOpen
  <2> QED BY <2>5, <2>6
<1>5. ASSUME NEW j \in Jobs, Enqueue(j) PROVE Safe'
  <2> DEFINE new == {j}
  <2>1. /\ new \in SUBSET (Jobs \ BatchJobs)
        /\ status' = InsertJobs(new, status, dep).status /\ place' = Born(new) /\ batch' = batch
        /\ unheard' = unheard
    BY <1>5 DEF Enqueue
  <2> HIDE DEF new
  <2> QED BY <1>2, <2>1
<1>6. ASSUME NEW j \in Jobs,
             \/ Claim(j) \/ RetryRun(j)
             \/ RetryJob(j) \/ RetryDeadJob(j) \/ RestoreArchivedJob(j)
      PROVE  Safe'
  <2>1. /\ \A i \in Jobs \ {j} : status'[i] = status[i] /\ place'[i] = place[i]
        /\ status'[j] \in {"Pending", "Running"} /\ batch' = batch /\ unheard' = unheard
    BY <1>0, <1>6
    DEF Claim, RetryRun, RetryJob, RetryDeadJob, RestoreArchivedJob, RowTypeOK, ghostVars
  <2>2. CASE j \in BatchJobs
    <3>1. ~Ended(j)'
      BY <2>1 DEF Ended, Finished
    <3> QED BY <1>0, <2>1, <2>2, <3>1, BatchOpen
  <2>3. CASE j \notin BatchJobs
    <3>1. \A i \in BatchJobs : status'[i] = status[i] /\ Kept(i)' = Kept(i)
      BY <1>0, <2>1, <2>3 DEF Kept
    <3> QED BY <1>0, <2>1, <3>1, BatchKept
  <2> QED BY <2>2, <2>3
<1>7. ASSUME NEW j \in Jobs, NEW end \in Finished, Terminate(j, end) PROVE Safe'
  BY <1>7, BatchTerminal DEF Terminate
<1>8. ASSUME NEW j \in Jobs, FinishRun(j) PROVE Safe'
  BY <1>7, <1>8 DEF FinishRun, Finished
<1>9. ASSUME NEW j \in Jobs, CompleteJob(j) \/ FailJob(j) \/ MarkJobDead(j) \/ MarkJobTimedOut(j)
      PROVE  Safe'
  <2>1. PICK end \in {"Completed", "Failed", "Dead", "TimedOut"} : Terminate(j, end)
    BY <1>9 DEF CompleteJob, FailJob, MarkJobDead, MarkJobTimedOut, ManualTerminal
  <2> QED BY <1>7, <2>1 DEF Finished
<1>10. ASSUME NEW j \in Jobs, FinishRunWithChildren(j) PROVE Safe'
  <2> DEFINE new == Children[j]
             s == AfterTerminal(j, "Completed")
             t == InsertJobs(new, s.status, s.dep)
  <2>1. status' = t.status /\ place' = Born(new) /\ batch' = s.batch /\ Heard(j)
    BY <1>10 DEF FinishRunWithChildren
  <2>2. s.status \in [Jobs -> JobStatuses] /\ s.dep \in [Jobs -> DepStatuses]
    BY <1>0, TerminalEffect DEF Finished
  <2>3. new \in SUBSET Jobs /\ new \intersect BatchJobs = {}
    BY Belonging
  <2> HIDE DEF s, new
  <2>4. NewRows(t, new, s.status, s.dep)
    BY <2>2, <2>3, InsertEffect
  <2> HIDE DEF t
  <2>5. \A i \in BatchJobs : status'[i] = s.status[i] /\ place'[i] = place[i]
    BY <1>0, <2>1, <2>3, <2>4 DEF NewRows, Born
  <2> QED BY <2>1, <2>5, BatchTerminal DEF s, Finished
<1>11. ASSUME NEW j \in Jobs, ArchiveJob(j) PROVE Safe'
  <2>1. /\ UNCHANGED <<status, batch, unheard>> /\ \A i \in Jobs : Kept(i)' = Kept(i)
    BY <1>0, <1>11 DEF ArchiveJob, OnTable, Kept, RowTypeOK, ghostVars
  <2> QED BY <1>0, <2>1, BatchKept
<1>12. ASSUME NEW j \in Jobs, DeleteJob(j) PROVE Safe'
  <2>1. /\ \A i \in Jobs \ {j} : place'[i] = place[i]
        /\ place'[j] = "gone" /\ UNCHANGED <<status, batch, unheard>>
    BY <1>0, <1>12 DEF DeleteJob, RowTypeOK, ghostVars
  <2>2. CASE j \in BatchJobs
    <3>1. ~Ended(j)'
      BY <2>1 DEF Ended, Kept
    <3> QED BY <1>0, <2>1, <2>2, <3>1, BatchOpen
  <2>3. CASE j \notin BatchJobs
    <3>1. \A i \in BatchJobs : Kept(i)' = Kept(i)
      BY <1>0, <2>1, <2>3 DEF Kept
    <3> QED BY <1>0, <2>1, <3>1, BatchKept
  <2> QED BY <2>2, <2>3
<1>13. ASSUME NEW j \in Jobs, FailJobDependencies(j) PROVE Safe'
  <2>1. unheard' = (unheard \/ BehindItsBack) /\ UNCHANGED <<place, batch>>
    BY <1>13 DEF FailJobDependencies
  <2>2. CASE unheard'
    BY <1>0, <2>1, <2>2 DEF BatchIsClosed
  <2>3. CASE ~unheard'
    <3>1. ~unheard /\ \A i \in BatchJobs : status'[i] = status[i]
      BY <2>1, <2>3 DEF BehindItsBack
    <3> QED BY <1>0, <2>1, <3>1, BatchKept DEF Kept
  <2> QED BY <2>2, <2>3
<1>14. ASSUME NEW j \in Jobs, ResolveJobDependencies(j) PROVE Safe'
  BY <1>0, <1>14, BatchKept DEF ResolveJobDependencies, Kept, ghostVars
<1>15. CASE DeleteBatch
  <2>1. batch' = [batch EXCEPT !.status = "Absent"]
    BY <1>15 DEF DeleteBatch, ghostVars
  <2>2. batch' \in BatchRecords /\ batch'.status = "Absent"
    BY <1>0, <2>1 DEF BatchRecords
  <2> QED BY <2>2 DEF BatchIsClosed
<1>16. CASE CancelWorkflow
  <2> DEFINE stopped == {i \in WorkflowJobs : OnTable(i) /\ status[i] \in {"Pending", "Running"}}
  <2>1. status' = SetAll(status, stopped, "Failed") /\ UNCHANGED <<place, batch, unheard>>
    BY <1>16 DEF CancelWorkflow, ghostVars
  <2>2. stopped \intersect BatchJobs = {}
    BY Belonging
  <2> HIDE DEF stopped
  <2>3. \A i \in BatchJobs : status'[i] = status[i]
    BY <1>0, <2>1, <2>2 DEF SetAll
  <2> QED BY <1>0, <2>1, <2>3, BatchKept DEF Kept
<1> QED
  BY <1>1, <1>3, <1>4, <1>5, <1>6, <1>8, <1>9, <1>10, <1>11, <1>12, <1>13, <1>14, <1>15, <1>16
  DEF Next, RunStep, OperatorStep

\* The stored row of a batch is final, with the right counts, as soon as every
\* one of its jobs has ended, whatever they depend on and whatever is retried,
\* archived, restored or deleted, but for jobs failed along with one outside the
\* batch (apply_batch_outcome, BatchProgress::from_status_counts).
THEOREM BatchesAreClosed == Spec => []BatchIsClosed
<1>1. Init => DependencyInv /\ BatchInv
  <2>1. Init => DependencyInv
    BY InitCounts DEF CountInv
  <2> QED BY <2>1 DEF Init, BatchInv, DependencyInv, BatchRecords, BatchIsClosed
<1>2. DependencyInv /\ BatchInv /\ [Next]_vars => (DependencyInv /\ BatchInv)'
  BY NextKeeps, NextClosesBatch DEF DependencyInv
<1>3. BatchInv => BatchIsClosed
  BY DEF BatchInv
<1> QED BY <1>1, <1>2, <1>3, PTL DEF Spec
=============================================================================
