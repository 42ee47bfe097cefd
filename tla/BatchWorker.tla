---------------------------- MODULE BatchWorker ----------------------------
(***************************************************************************)
(* Worker loops that share a throttle: how a worker takes permits and rate *)
(* limit tokens before it claims a batch of jobs, what it does with every  *)
(* claimed job until its handler runs, and how it stops (src/worker.rs run *)
(* to fail_held_job, src/rate_limit.rs).  A single-job worker is one whose *)
(* batches have one job.                                                   *)
(*                                                                         *)
(* A row is reduced to what these loops see of it: whether it can be       *)
(* claimed, and the worker whose run it is (JobRuns says how the queue     *)
(* tells).  The reaper and operators may take the run away at any time.    *)
(* Within a worker the futures of its jobs interleave at every await, but  *)
(* none moves while the worker hands jobs back.                            *)
(***************************************************************************)
EXTENDS Naturals, FiniteSets

CONSTANTS
  Workers,           \* clones of a worker, which share limiter and throttle
  Jobs,
  FailFastJobs,      \* the jobs of one fail-fast batch
  NoWorker,
  BatchSize,         \* Worker::with_batch_size
  BatchConcurrency,  \* Worker::with_batch_concurrency
  MaxConcurrent,     \* the throttle's max_concurrent
  Burst,             \* the rate limit's burst_limit
  MaxRefills         \* bound: tokens the passing of time adds

ASSUME BatchWorkerAssumptions ==
  /\ IsFiniteSet(Workers) /\ IsFiniteSet(Jobs)
  /\ FailFastJobs \subseteq Jobs
  /\ NoWorker \notin Workers
  /\ {BatchSize, BatchConcurrency, MaxConcurrent, Burst} \subseteq Nat \ {0}
  /\ MaxRefills \in Nat

VARIABLES
  row,          \* "pending", "running" or "done"
  holder,       \* the worker whose run a running row is
  paused,       \* whether the queue is paused
  batchFailed,  \* whether the fail-fast batch has failed
  tokens,       \* tokens in the rate limiter's bucket
  free,         \* free permits of the throttle's semaphore
  phase,        \* where each worker's loop is
  permits,      \* permits a worker holds that belong to no job yet
  inHand,       \* tokens it has taken for jobs it has not claimed yet
  task,         \* what it is doing with each job it claimed
  knowsFailed,  \* whether failed_batches holds the fail-fast batch
  fresh,        \* initial_fill
  asked,        \* shutdown has been requested
  refilled,     \* tokens added by time so far
  ran,          \* ghost: handlers started so far
  excused       \* ghost: runs left to the reaper after an error or the grace period

rowVars == <<row, holder>>
limitVars == <<tokens, free, refilled>>
batchVars == <<knowsFailed, fresh>>
vars == <<row, holder, paused, batchFailed, tokens, free, phase, permits, inHand,
          task, knowsFailed, fresh, asked, refilled, ran, excused>>

-----------------------------------------------------------------------------
\* Jobs of the batch that wait for their turn: those still in HeldJobs.waiting
\* and those in HeldJobs.lost.
Waiting == {"queued", "lost"}

\* Tasks in these states are futures in `running`; they hold a permit, as the
\* waiting jobs do.
Active == {"confirming", "failing", "starting", "processing"}
Permitted == Active \union Waiting

\* Jobs on their way back to the queue; their permits have been dropped.
HandedBack == {"doomed", "dooming", "releasing"}

In(w, states) == {j \in Jobs : task[w][j] \in states}

Least(m, n) == IF m < n THEN m ELSE n

\* TokenBucket::refund
Refunded(n) == Least(Burst, tokens + n)

SetTask(w, j, state) == task' = [task EXCEPT ![w][j] = state]

Refill ==
  /\ refilled < MaxRefills
  /\ tokens' = Refunded(1)
  /\ refilled' = refilled + 1
  /\ UNCHANGED <<rowVars, paused, batchFailed, free, phase, permits, inHand, task, batchVars,
                 asked, ran, excused>>

-----------------------------------------------------------------------------
(* acquire_batch.                                                          *)

\* The worker waits for a permit and takes as many more as are free.
AcquirePermits(w) ==
  /\ phase[w] = "polling" /\ ~asked[w] /\ free > 0
  /\ LET n == Least(BatchSize, free) IN
       /\ free' = free - n
       /\ permits' = [permits EXCEPT ![w] = n]
  /\ phase' = [phase EXCEPT ![w] = "permitted"]
  /\ UNCHANGED <<rowVars, paused, batchFailed, tokens, refilled, inHand, task, batchVars,
                 asked, ran, excused>>

\* It waits for a token and takes one more for each permit if it can.
AcquireTokens(w) ==
  /\ phase[w] = "permitted" /\ ~asked[w] /\ tokens > 0
  /\ LET n == Least(permits[w], tokens) IN
       /\ tokens' = tokens - n
       /\ inHand' = [inHand EXCEPT ![w] = n]
  /\ phase' = [phase EXCEPT ![w] = "claiming"]
  /\ UNCHANGED <<rowVars, paused, batchFailed, free, refilled, permits, task, batchVars,
                 asked, ran, excused>>

\* The jobs a claim can return: none from a paused or an empty queue, and
\* none that another worker's claim has locked.
Claimable(w) ==
  IF paused THEN {{}}
  ELSE {S \in SUBSET {j \in Jobs : row[j] = "pending"} : Cardinality(S) <= inHand[w]}

\* The claim, and the start of run_batch_until_done: tokens of jobs it did
\* not get are handed back, permits it does not need are dropped.
Dequeue(w) ==
  /\ phase[w] = "claiming"
  /\ \E S \in Claimable(w) :
       /\ row' = [j \in Jobs |-> IF j \in S THEN "running" ELSE row[j]]
       /\ holder' = [j \in Jobs |-> IF j \in S THEN w ELSE holder[j]]
       /\ task' = [task EXCEPT ![w] = [j \in Jobs |-> IF j \in S THEN "queued" ELSE "none"]]
       /\ excused' = excused \ S
       /\ tokens' = Refunded(inHand[w] - Cardinality(S))
       /\ IF S = {}
            THEN /\ phase' = [phase EXCEPT ![w] = "idling"]
                 /\ UNCHANGED <<permits, free>>
            ELSE /\ phase' = [phase EXCEPT ![w] = "batch"]
                 /\ free' = free + permits[w] - Cardinality(S)
                 /\ permits' = [permits EXCEPT ![w] = 0]
  /\ inHand' = [inHand EXCEPT ![w] = 0]
  /\ knowsFailed' = [knowsFailed EXCEPT ![w] = FALSE]
  /\ fresh' = [fresh EXCEPT ![w] = TRUE]
  /\ UNCHANGED <<paused, batchFailed, refilled, asked, ran>>

\* Mutant: the permits are forgotten.
ForgetPermits(w) == permits' = [permits EXCEPT ![w] = 0] /\ UNCHANGED free

\* The permits of an acquisition that ends without a batch are dropped.
DropPermits(w) ==
  /\ free' = free + permits[w]
  /\ permits' = [permits EXCEPT ![w] = 0]

\* The claim fails: the tokens are handed back, and run backs off.
DequeueError(w) ==
  /\ phase[w] = "claiming"
  /\ tokens' = Refunded(inHand[w])
  /\ inHand' = [inHand EXCEPT ![w] = 0]
  /\ DropPermits(w)
  /\ phase' = [phase EXCEPT ![w] = "polling"]
  /\ UNCHANGED <<rowVars, paused, batchFailed, refilled, task, batchVars, asked, ran, excused>>

\* idle_wait is over; the permits were held until now.
IdleEnds(w) ==
  /\ phase[w] = "idling"
  /\ DropPermits(w)
  /\ phase' = [phase EXCEPT ![w] = IF asked[w] THEN "stopped" ELSE "polling"]
  /\ UNCHANGED <<rowVars, paused, batchFailed, tokens, refilled, inHand, task, batchVars,
                 asked, ran, excused>>

\* Mutant: the wait for the rate limiter is not interrupted.
StopPolling(w) ==
  /\ asked[w] /\ phase[w] = "polling"
  /\ DropPermits(w)
  /\ phase' = [phase EXCEPT ![w] = "stopped"]
  /\ UNCHANGED <<rowVars, paused, batchFailed, tokens, refilled, inHand, task, batchVars,
                 asked, ran, excused>>

\* Shutdown is noticed before or during a wait of the acquisition.
StopIdle(w) ==
  /\ asked[w] /\ phase[w] \in {"polling", "permitted"}
  /\ DropPermits(w)
  /\ phase' = [phase EXCEPT ![w] = "stopped"]
  /\ UNCHANGED <<rowVars, paused, batchFailed, tokens, refilled, inHand, task, batchVars,
                 asked, ran, excused>>

-----------------------------------------------------------------------------
(* run_batch_until_done.                                                   *)

HasRoom(w) == Cardinality(In(w, Active)) < BatchConcurrency

\* The worker polls the futures of its jobs: it does so in its select, which
\* it reaches when no waiting job can start, and in the grace period, and it
\* does not while it hands jobs back.
Polls(w) ==
  /\ In(w, HandedBack) = {}
  /\ \/ phase[w] = "batch" /\ ~(HasRoom(w) /\ In(w, Waiting) # {})
     \/ phase[w] = "draining"

\* A run the worker gives up without telling the database.
Excuse(w, S) == excused' = excused \union {j \in S : holder[j] = w}

\* The waiting jobs leave the batch, with their permits, to be handed back:
\* those of a batch known to have failed are failed, the others released.
DrainQueue(w) ==
  /\ task' = [task EXCEPT ![w] = [j \in Jobs |->
                IF task[w][j] \notin Waiting THEN task[w][j]
                ELSE IF j \in FailFastJobs /\ knowsFailed'[w] THEN "doomed" ELSE "releasing"]]
  /\ free' = free + Cardinality(In(w, Waiting))

\* Before it starts held jobs the worker looks whether their batch has
\* failed (find_failed_batches; the call may fail) and whether the queue is
\* paused, in which case it hands them back.
CheckHeld(w) ==
  /\ phase[w] = "batch" /\ In(w, HandedBack) = {}
  /\ In(w, Waiting) # {} /\ HasRoom(w)
  /\ \E found \in BOOLEAN :
       /\ found => batchFailed /\ In(w, Waiting) \intersect FailFastJobs # {}
       /\ knowsFailed' = [knowsFailed EXCEPT ![w] = @ \/ found]
  /\ IF paused THEN DrainQueue(w) ELSE UNCHANGED <<task, free>>
  /\ UNCHANGED <<rowVars, paused, batchFailed, tokens, refilled, phase, permits, inHand, fresh,
                 asked, ran, excused>>

\* The future of w for j is over; its permit is dropped.
TaskEnds(w, j) ==
  /\ SetTask(w, j, "none")
  /\ free' = free + 1

\* maintain_held_leases finds that a waiting job is no longer this run.
HeldLeaseLost(w, j) ==
  /\ Polls(w) /\ task[w][j] = "queued" /\ holder[j] # w
  /\ SetTask(w, j, "lost")
  /\ fresh' = [fresh EXCEPT ![w] = FALSE]
  /\ UNCHANGED <<rowVars, paused, batchFailed, limitVars, phase, permits, inHand,
                 knowsFailed, asked, ran, excused>>

\* A held job's turn (here in any order): a lost one is skipped, one of a failed batch is to be
\* failed, and the start of the others is recorded unless they start right
\* after the claim.
StartHeld(w, j) ==
  /\ phase[w] = "batch" /\ In(w, HandedBack) = {} /\ HasRoom(w)
  /\ \/ /\ task[w][j] = "lost"
        /\ TaskEnds(w, j) /\ tokens' = Refunded(1) /\ UNCHANGED ran
     \/ /\ task[w][j] = "queued" /\ j \in FailFastJobs /\ knowsFailed[w]
        /\ SetTask(w, j, "confirming") /\ UNCHANGED <<tokens, free, ran>>
     \/ /\ task[w][j] = "queued" /\ ~(j \in FailFastJobs /\ knowsFailed[w])
        /\ \/ SetTask(w, j, "starting") /\ UNCHANGED ran
           \/ fresh[w] /\ SetTask(w, j, "processing") /\ ran' = ran + 1
        /\ UNCHANGED <<tokens, free>>
  /\ UNCHANGED <<rowVars, paused, batchFailed, refilled, phase, permits, inHand, batchVars,
                 asked, excused>>

\* Mutant: a run that is found lost at its start is refunded and still runs.
StartLostRun(w, j) ==
  /\ Polls(w) /\ task[w][j] = "starting"
  /\ SetTask(w, j, "processing") /\ ran' = ran + 1
  /\ IF holder[j] = w THEN UNCHANGED tokens ELSE tokens' = Refunded(1)
  /\ fresh' = [fresh EXCEPT ![w] = FALSE]
  /\ UNCHANGED <<rowVars, paused, batchFailed, free, refilled, phase, permits, inHand,
                 knowsFailed, asked, excused>>

\* start_claimed_run: the handler starts, also when the call fails, unless
\* the run is found to be lost.
StartRun(w, j) ==
  /\ Polls(w) /\ task[w][j] = "starting"
  /\ \/ SetTask(w, j, "processing") /\ ran' = ran + 1 /\ UNCHANGED <<tokens, free>>
     \/ holder[j] # w /\ TaskEnds(w, j) /\ tokens' = Refunded(1) /\ UNCHANGED ran
  /\ fresh' = [fresh EXCEPT ![w] = FALSE]
  /\ UNCHANGED <<rowVars, paused, batchFailed, refilled, phase, permits, inHand,
                 knowsFailed, asked, excused>>

\* process_job to its end: the outcome is recorded (the job is done or put
\* back), or it is not this run any more, or recording fails.
FinishRun(w, j) ==
  /\ Polls(w) /\ task[w][j] = "processing"
  /\ TaskEnds(w, j)
  /\ \/ /\ holder[j] = w
        /\ \E end \in {"done", "pending"} : row' = [row EXCEPT ![j] = end]
        /\ holder' = [holder EXCEPT ![j] = NoWorker]
        /\ UNCHANGED excused
     \/ holder[j] # w /\ UNCHANGED <<rowVars, excused>>
     \/ Excuse(w, {j}) /\ UNCHANGED rowVars
  /\ fresh' = [fresh EXCEPT ![w] = FALSE]
  /\ UNCHANGED <<paused, batchFailed, tokens, refilled, phase, permits, inHand,
                 knowsFailed, asked, ran>>

\* fail_job on the row, as fail_held_job calls it: by id, whoever runs
\* it.  ok: the call succeeded, or the row was finished already.
FailRow(w, j, ok) ==
  \/ /\ ok
     /\ row' = [row EXCEPT ![j] = "done"]
     /\ holder' = [holder EXCEPT ![j] = NoWorker]
     /\ UNCHANGED excused
  \/ /\ ~ok
     /\ Excuse(w, {j})
     /\ UNCHANGED rowVars

\* fail_held_job in a future of the batch: the heartbeat and the failure.
ConfirmHeld(w, j) ==
  /\ Polls(w) /\ task[w][j] = "confirming"
  /\ \/ holder[j] # w /\ TaskEnds(w, j) /\ tokens' = Refunded(1)
     \/ SetTask(w, j, "failing") /\ UNCHANGED <<tokens, free>>
  /\ fresh' = [fresh EXCEPT ![w] = FALSE]
  /\ UNCHANGED <<rowVars, paused, batchFailed, refilled, phase, permits, inHand,
                 knowsFailed, asked, ran, excused>>

FailHeld(w, j) ==
  /\ Polls(w) /\ task[w][j] = "failing"
  /\ TaskEnds(w, j)
  /\ \E ok \in BOOLEAN :
       /\ FailRow(w, j, ok)
       /\ tokens' = IF ok THEN Refunded(1) ELSE tokens
  /\ fresh' = [fresh EXCEPT ![w] = FALSE]
  /\ UNCHANGED <<paused, batchFailed, refilled, phase, permits, inHand, knowsFailed,
                 asked, ran>>

\* The batch is empty.
BatchEnds(w) ==
  /\ phase[w] = "batch" /\ In(w, Permitted \union HandedBack) = {}
  /\ phase' = [phase EXCEPT ![w] = IF asked[w] THEN "stopped" ELSE "polling"]
  /\ UNCHANGED <<rowVars, paused, batchFailed, limitVars, permits, inHand, task, batchVars,
                 asked, ran, excused>>

-----------------------------------------------------------------------------
(* hand_back_unstarted.  Jobs of a failed batch come first.                *)

\* Mutant: a released job keeps its run.
ReleaseOnlyRefunds(w, j) ==
  /\ task[w][j] = "releasing" /\ In(w, {"doomed", "dooming"}) = {}
  /\ SetTask(w, j, "none")
  /\ tokens' = Refunded(1)
  /\ UNCHANGED <<rowVars, excused, paused, batchFailed, free, refilled, phase, permits, inHand,
                 batchVars, asked, ran>>

\* release_unstarted.  The token is handed back only with the job.
Release(w, j) ==
  /\ task[w][j] = "releasing" /\ In(w, {"doomed", "dooming"}) = {}
  /\ SetTask(w, j, "none")
  /\ \/ /\ holder[j] = w
        /\ row' = [row EXCEPT ![j] = "pending"]
        /\ holder' = [holder EXCEPT ![j] = NoWorker]
        /\ tokens' = Refunded(1)
        /\ UNCHANGED excused
     \/ holder[j] # w /\ UNCHANGED <<rowVars, tokens, excused>>
     \/ Excuse(w, {j}) /\ UNCHANGED <<rowVars, tokens>>
  /\ UNCHANGED <<paused, batchFailed, free, refilled, phase, permits, inHand, batchVars,
                 asked, ran>>

\* fail_held_job, called one job after the other.
ConfirmDoomed(w, j) ==
  /\ task[w][j] = "doomed" /\ In(w, {"dooming"}) = {}
  /\ \/ holder[j] # w /\ SetTask(w, j, "none") /\ tokens' = Refunded(1)
     \/ SetTask(w, j, "dooming") /\ UNCHANGED tokens
  /\ UNCHANGED <<rowVars, paused, batchFailed, free, refilled, phase, permits, inHand,
                 batchVars, asked, ran, excused>>

FailDoomed(w, j) ==
  /\ task[w][j] = "dooming"
  /\ SetTask(w, j, "none")
  /\ \E ok \in BOOLEAN :
       /\ FailRow(w, j, ok)
       /\ tokens' = IF ok THEN Refunded(1) ELSE tokens
  /\ UNCHANGED <<paused, batchFailed, free, refilled, phase, permits, inHand, batchVars,
                 asked, ran>>

-----------------------------------------------------------------------------
(* Shutdown.                                                               *)

\* The select sees the request: held jobs are handed back, started ones get
\* the grace period.
BeginShutdown(w) ==
  /\ asked[w] /\ phase[w] = "batch" /\ Polls(w)
  /\ UNCHANGED knowsFailed
  /\ DrainQueue(w)
  /\ phase' = [phase EXCEPT ![w] = "draining"]
  /\ UNCHANGED <<rowVars, paused, batchFailed, tokens, refilled, permits, inHand, fresh,
                 asked, ran, excused>>

\* Every started job has ended.
Drained(w) ==
  /\ phase[w] = "draining" /\ In(w, Active \union HandedBack) = {}
  /\ phase' = [phase EXCEPT ![w] = "stopped"]
  /\ UNCHANGED <<rowVars, paused, batchFailed, limitVars, permits, inHand, task, batchVars,
                 asked, ran, excused>>

\* The grace period ends: the futures are dropped where they are.
GraceEnds(w) ==
  /\ phase[w] = "draining" /\ In(w, HandedBack) = {} /\ In(w, Active) # {}
  /\ free' = free + Cardinality(In(w, Active))
  /\ Excuse(w, In(w, Active))
  /\ task' = [task EXCEPT ![w] = [j \in Jobs |-> "none"]]
  /\ phase' = [phase EXCEPT ![w] = "stopped"]
  /\ UNCHANGED <<rowVars, paused, batchFailed, tokens, refilled, permits, inHand, batchVars,
                 asked, ran>>

-----------------------------------------------------------------------------
(* The rest of the system.                                                 *)

\* The reaper, or an operator, takes the run away.
LoseRun(j) ==
  /\ row[j] = "running"
  /\ \E to \in {"pending", "done"} : row' = [row EXCEPT ![j] = to]
  /\ holder' = [holder EXCEPT ![j] = NoWorker]
  /\ excused' = excused \ {j}
  /\ UNCHANGED <<paused, batchFailed, limitVars, phase, permits, inHand, task, batchVars,
                 asked, ran>>

\* A job of the fail-fast batch fails elsewhere: its pending jobs fail.
BatchFails ==
  /\ ~batchFailed /\ FailFastJobs # {}
  /\ batchFailed' = TRUE
  /\ row' = [j \in Jobs |-> IF j \in FailFastJobs /\ row[j] = "pending" THEN "done" ELSE row[j]]
  /\ UNCHANGED <<holder, paused, limitVars, phase, permits, inHand, task, batchVars, asked,
                 ran, excused>>

TogglePause ==
  /\ paused' = ~paused
  /\ UNCHANGED <<rowVars, batchFailed, limitVars, phase, permits, inHand, task, batchVars,
                 asked, ran, excused>>

AskShutdown(w) ==
  /\ ~asked[w]
  /\ asked' = [asked EXCEPT ![w] = TRUE]
  /\ UNCHANGED <<rowVars, paused, batchFailed, limitVars, phase, permits, inHand, task,
                 batchVars, ran, excused>>

-----------------------------------------------------------------------------
Init ==
  /\ row = [j \in Jobs |-> "pending"]
  /\ holder = [j \in Jobs |-> NoWorker]
  /\ paused = FALSE
  /\ batchFailed = FALSE
  /\ tokens = Burst
  /\ free = MaxConcurrent
  /\ phase = [w \in Workers |-> "polling"]
  /\ permits = [w \in Workers |-> 0]
  /\ inHand = [w \in Workers |-> 0]
  /\ task = [w \in Workers |-> [j \in Jobs |-> "none"]]
  /\ knowsFailed = [w \in Workers |-> FALSE]
  /\ fresh = [w \in Workers |-> FALSE]
  /\ asked = [w \in Workers |-> FALSE]
  /\ refilled = 0
  /\ ran = 0
  /\ excused = {}

Acquire(w) == AcquirePermits(w) \/ AcquireTokens(w) \/ Dequeue(w) \/ DequeueError(w) \/ IdleEnds(w)

JobStep(w, j) ==
  \/ StartHeld(w, j) \/ StartRun(w, j) \/ FinishRun(w, j)
  \/ ConfirmHeld(w, j) \/ FailHeld(w, j) \/ HeldLeaseLost(w, j)

HandBack(w) == \E j \in Jobs : Release(w, j) \/ ConfirmDoomed(w, j) \/ FailDoomed(w, j)

Stop(w) == StopIdle(w) \/ BeginShutdown(w) \/ Drained(w) \/ GraceEnds(w)

Next ==
  \/ Refill \/ BatchFails \/ TogglePause
  \/ \E j \in Jobs : LoseRun(j)
  \/ \E w \in Workers :
       \/ Acquire(w) \/ CheckHeld(w) \/ BatchEnds(w) \/ HandBack(w) \/ Stop(w)
       \/ AskShutdown(w)
       \/ \E j \in Jobs : JobStep(w, j)

Spec == Init /\ [][Next]_vars

\* Database calls return, sleeps and the grace period end, and a loop that
\* can go on does.  Handlers need not return, time need not bring tokens and
\* nobody need take a lost run away.
Fairness ==
  \A w \in Workers :
    /\ WF_vars(Dequeue(w) \/ DequeueError(w)) /\ WF_vars(IdleEnds(w))
    /\ WF_vars(\E j \in Jobs : StartHeld(w, j)) /\ WF_vars(HandBack(w))
    /\ WF_vars(Stop(w)) /\ WF_vars(BatchEnds(w))

FairSpec == Spec /\ Fairness

-----------------------------------------------------------------------------
(* Properties.                                                             *)

\* The rate limit holds over any stretch of time: no more handlers start
\* than the burst and the refills allow, although tokens are taken before
\* jobs are known and handed back on many paths (RateLimiter,
\* refund_rate_token), and no refund saves up more than a burst.
RateIsKept == ran <= Burst + refilled /\ tokens <= Burst

\* No permit of the throttle leaks or is dropped twice: the permits are
\* free, held by an acquisition or held by a job that is waiting or running
\* ("at most max_concurrent").
PermitsConserved ==
  free + Cardinality({p \in Workers \X Jobs : task[p[1]][p[2]] \in Permitted})
       + Cardinality({p \in Workers \X (1..BatchSize) : p[2] <= permits[p[1]]})
    = MaxConcurrent

\* A claimed job is not forgotten: while the row is the worker's run the
\* worker is doing something about it, unless a call to the database failed
\* or the grace period cut it off.
NothingLeftBehind ==
  \A w \in Workers, j \in Jobs :
    holder[j] = w /\ task[w][j] = "none" => j \in excused

\* A worker that is asked to shut down stops, even if its handlers hang and
\* the rate limiter never gives another token.
WorkerStops == \A w \in Workers : asked[w] ~> phase[w] = "stopped"
=============================================================================
