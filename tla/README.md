# Hammerwork in TLA+

Hammerwork is a Rust job queue on top of PostgreSQL or MySQL. This directory
holds TLA+ models of the part of it that decides what happens to a job, TLC
configurations that check the models on small instances, and TLAPS proofs that
hold for instances of any size. `PROJECT.json` lists the runs, the source lines
each definition stands for, the mutants that show that the properties can fail,
the hazards of the code and the theorems.

Paths below are relative to the repository; `lifecycle.rs`, `postgres.rs` and
`mysql.rs` are in `src/queue/`.

## 1. Inventory

| Component | State | Operations | Hard part |
|---|---|---|---|
| Job lifecycle (`lifecycle.rs`) | none of its own: rules over rows | transition table, run guard, `after_terminal`, failure policies, settlement of new dependents | order of the steps of one transaction; which run a row stands for |
| PostgreSQL backend (`postgres.rs`) | `hammerwork_jobs`, `_archive`, `_workflows`, `_batches`, `_queue_pause` | enqueue, claim, heartbeat, record, reap, manual transitions, archive, cancel | concurrent transactions, leases, late workers |
| MySQL backend (`mysql.rs`) | the same tables | the same trait | other locking rules |
| Worker (`worker.rs`) | the claimed job, held jobs, permits | poll, claim, run a handler, keep the lease, record the outcome, hand back | everything between two statements; crashes; lost answers |
| Worker pool, autoscaling (`worker/pool.rs`, `worker/autoscale.rs`) | worker tasks, depth history | supervise, scale, reap periodically, shut down | restart against shutdown against scaling |
| Workflows, batches, spawning (`workflow.rs`, `batch.rs`, `spawn.rs`) | policy, mode, counters | status from counts, children of a completed job | counters and statuses that fall behind |
| Cron (`cron.rs`, `next_cron_run`) | `scheduled_at`, `next_run_at` | next occurrence, catch-up, disable, enable | occurrences skipped or run twice after late and long runs |
| Archive (`archive.rs`) | archived rows | archive, restore, purge | dependencies on rows that moved |
| Results (`queue/memory_results.rs`) | result data with expiry | store, read, expire | late writes |
| Rate limiter (`rate_limit.rs`) | tokens | acquire, refund | refunds on every path |
| Retry strategies (`retry.rs`) | none | delay of an attempt | saturation |
| Event bus (`events.rs`) | broadcast channel, registry of filters | publish, subscribe | lag |
| Webhooks, streaming, task tracker (`webhooks.rs`, `streaming.rs`, `task_tracker.rs`) | subscriptions, listeners, deliveries, batches, permits, statistics | add, remove, deliver, flush, retry, drain | overlapping calls, bounded permits, aborted tasks, partial acknowledgement |
| Encryption and keys (`encryption/`) | key versions, master keys, caches | generate, rotate, clean up, read | rotation by several processes, torn reads of the master key |
| Migrations | applied versions | run | two processes at once |
| Alerting, statistics, metrics, tracing, configuration, web dashboard, CLI | display and configuration | | no effect on jobs of their own |

How they interact: workers, pool tasks, the dashboard and the CLI share nothing
but the database. Every operation on a job goes through `DatabaseQueue`, whose
terminal transitions all end in `lifecycle::after_terminal`, which in one
transaction releases or fails dependents, applies the workflow's failure policy,
refreshes the workflow's counters, applies the batch's failure mode and inserts
spawned children. A worker keeps a copy of the job it claimed and identifies its
run by `attempts` and `started_at`. Beside the queue, workers publish events on the
bus of their process; webhooks and streams listen there and have no effect on jobs.
Key managers of different processes share the key tables only.

What makes each correct: a job is in the hands of one run at a time and a late
worker changes nothing (lifecycle, worker); every claimed job comes back and no
runnable job is forgotten (reaper, claim); attempts are bounded; jobs start only
after what they depend on and never wait for nothing (dependencies); stored
statuses of workflows and batches agree with their jobs and become final; nothing
is resurrected by accident (transitions, cancellation, archive); no occurrence of a
schedule is skipped or run twice (cron); the pool has the workers it believes it has
and stops when asked (pool); every event is delivered, refused or counted as lost, and
shutdown ends (webhooks, streams); every stored key can be opened, its newest version is the
active one and a due rotation happens once (keys).

## 2. Modules

| Module | What it is |
|---|---|
| `JobRuns` | rows, leases and the runs workers make of them |
| `JobContract` | the abstract specification `JobRuns` implements: claims, holders, settlement |
| `Cron` | when a recurring job runs next |
| `Workflows` | dependencies, workflows, batches, spawned children |
| `BatchWorker` | worker loops that share a rate limit and a throttle |
| `WorkerPool` | supervisor, autoscaler, periodic tasks, shutdown of a pool |
| `EventBus` | the broadcast channel and its subscriptions, extended by the next two |
| `Webhooks` | one webhook: calls, listener, deliveries, shutdown |
| `Streams` | one stream: calls, listener with buffer, batches, shutdown |
| `KeyRotation` | versions of one key and the master keys of several processes |
| `MC*` | TLC instances: graphs, symmetry, configurations |
| `JobRunsProofs`, `CronProofs`, `WorkflowsProofs`, `BatchWorkerProofs`, `WorkerPoolProofs`, `WebhooksProofs`, `StreamsProofs`, `KeyRotationProofs` | theorems |

The modules with actions also hold their properties and the mutants that show that the
properties can fail.

How they fit together: `JobRuns` refines `JobContract`. `Workflows`, `Cron` and
`BatchWorker` each look at the same rows from another side and take from `JobRuns` that a
run ends once and by its holder; `WorkerPool` takes from `BatchWorker` that a worker that
is asked to stop does. `Webhooks` and `Streams` are compositions with `EventBus`.

### JobRuns

A job is one row: `status` (with `Archived` for a row in the archive and `Absent`
for a deleted one), `attempts`, `started` (`started_at`), `lease` and `delay` as
ticks until `lease_expires_at` and `scheduled_at`, `recurring` and `result` (whose
run's data `result_data` holds). A worker slot has a program counter `pc`, the run
it claimed (`run`, its private copy of id, attempts and `started_at`) and the
`outcome` it has yet to record. `owner` and `byHand` are ghosts: the worker whose
run the row stands for, and whether `retry_job` put the job back.

Each SQL statement or transaction is one action. The worker's steps between them
are separate actions, so that everything else may happen in between:

| `pc` | Next steps | Code |
|---|---|---|
| `idle` | `Claim` | `claim_one`, `claim_many` |
| `held` (claimed in a batch, not started) | `Heartbeat`, `StartHeld`, `StartClaimedRun`, `ReleaseJobRun`, `ConfirmHeld` | `maintain_held_leases`, `start_held`, `hand_back_unstarted`, `fail_held_job` |
| `failing` | `FailHeld` | second call of `fail_held_job` |
| `handling` | `Heartbeat`, `HandlerEnds` | `maintain_lease`, `process_job` |
| `storing` | `StoreResult` | `handle_success` up to the record |
| `recording` | `Record`, `RecordError` | `record`, `finish_run`, `transition_in_tx` |
| any | `Abandon` | crash, end of the grace period |

`Record` may also commit and leave the worker with an error, after which a worker
that was completing a job with children records a failure of the same run
(`Conclude`). `Reap` is the reaper for one stale row; a pass over several rows is
several such steps in one transaction, and no row's treatment depends on another's
here. `Tick` is the clock; the remaining actions are an operator's. An attempt to
record, renew or release that fails is a step too (`RecordError`, the second
disjunct of `ReleaseJobRun`).

Time: only differences matter for leases and delays, and only equality matters for
`started_at`, so a clock reading is a member of `Stamps` that is used again only
when no row and no worker stores it. Operations that reset `attempts`
(`retry_dead_job`, rescheduling, restoring) are assumed to commit in a later
millisecond than the claims before them: `is_same_run` compares to within one
millisecond and could not tell a reset and a new claim inside one millisecond from
the old run.

### Workflows

One workflow and one batch (a job is in at most one of them), and jobs in neither.
`place` says whether a row is unborn, in the table, in the archive or gone;
`status` and `dep` are its two status columns; `workflow` and `batch` are the
stored rows; `policy` and `mode` never change. `everDone`, `reopened`, `revived`,
`stillborn` (jobs enqueued as failed) and `unheard` (jobs of the batch were failed along with
a job outside it, and none of its own has ended since) are ghosts.

Each action is one transaction. The operators between state and actions follow the
steps of that transaction, on the columns as the steps before left them:
`AfterTerminal` is `transition_in_tx` and `after_terminal`, made of
`ResolveDependents`, `ApplyFailurePolicy` (with `FailDependents`),
`ApplyBatchOutcome` and `RefreshWorkflow`; `InsertJobs` is
`insert_dependent_jobs` with `settle_new_dependents`; `ReevaluatedDeps` is
`reevaluate_dependencies`. Transactions are atomic here because the code locks
first and reads afterwards: the job `FOR UPDATE`, the workflow and the batch
`FOR UPDATE`, the dependents in id order, and the parents of an inserted job
`FOR SHARE`. What a run does before it ends is in `JobRuns`: here `FinishRun`,
`FinishRunWithChildren` and `RetryRun` end it, for the worker or the reaper.

Left out: the status `Retrying`, which the code reads but never writes; recurring
jobs, which never end and so release nobody; members that spawn twice; children
that spawn.

### BatchWorker

The loops of workers that are clones of each other and share `tokens` (the bucket of
the rate limiter) and `free` (the permits of the throttle's semaphore). `phase[w]` is
where the loop of `w` is, `task[w][j]` what it does with a job of its batch:

| `phase` | Code | Steps |
|---|---|---|
| `polling`, `permitted`, `claiming`, `idling` | `run`, `acquire_batch`, `idle_wait` | `AcquirePermits`, `AcquireTokens`, `Dequeue`, `DequeueError`, `IdleEnds`, `StopIdle` |
| `batch` | `run_batch_until_done` | `CheckHeld`, `StartHeld`, `HeldLeaseLost`, the futures below, `BeginShutdown`, `BatchEnds` |
| `draining` | its grace period | the futures, `Drained`, `GraceEnds` |

A job waits (`queued`, or `lost` once its lease is known to be lost), is a future of
the batch (`starting`, `processing`, `confirming`, `failing`) or is on its way back
(`releasing`, `doomed`, `dooming`). The futures move only when the loop polls them
(`Polls`): not while waiting jobs can be started and not while jobs are handed back.
The row is reduced to `row` and `holder`; what the calls do to it in detail is in
`JobRuns`. The reaper and operators appear as `LoseRun`, other workers of the
fail-fast batch as `BatchFails`. A single-job worker is the case `BatchSize` 1, and a
missing rate limit or throttle one that is never exhausted. Tokens are whole: the
bucket's fractions only delay when the next one is there. `ran`, `refilled` and
`excused` are ghosts (`refilled` also bounds the refills).

### JobContract

A job is waiting, running, finished or gone, a running job has one holder, and a worker
works on a job or not. Only a claim starts a run, only the holder settles it, and
everybody else can only take the job away. One clause is weaker than one would wish:
`FailUnstarted` lets a worker fail a job it has not started by id, because that is what
`fail_held_job` does (section 6). `JobRuns` states the mapping (`Contract`): the status
gives the phase, the ghost `owner` the holder, `run` and `pc` what a worker works on.

### Cron

One recurring job and the instants of its schedule. `NextCronRun` is `next_cron_run`
with the slot, the start, the scan limit and the coalesced catch-up; it is written with
sets of instants (the first occurrence after, the missed ones, the latest of them)
instead of the loop that walks through them. `EndRun` is the part of `after_terminal` for
recurring jobs, reached by the worker and, on the last attempt, by the reaper. `origin`,
`plan` and `off` are ghosts: when the last run started, who decided on `scheduled_at`, and
the occurrences that passed while the job was disabled. For those the documentation promises
the opposite of a catch-up, so `NoOccurrenceSkipped` asks nothing of them (and the code does
not keep that promise either, section 6).

### WorkerPool

`slots` are the indices under which the supervisor keeps a worker's template, `sender` the
task whose shutdown channel it holds, `tasks` the spawned tasks, which end on their own
and are joined later. A task is named by its slot and the number of tasks that slot had
when it was spawned, so that a slot with two tasks would be seen. The supervisor's `select!` has one action per branch: `SeeSignal`,
`ApplyDesired` (with `StartWorkers` or `RetireWorkers`), `Join`; `SupervisorEnds` is
what follows the loop. `Evaluate` is a round of the autoscaler that changes something,
`StartPass`, `PassEnds` and `LoopStops` a periodic task, and `Shutdown` both
`shutdown` and dropping the pool, after which a periodic task may still start a pass.
`Announce` is the write of `active_workers` at the end of `start`, which happens after
the autoscaler is running: `early` records a decision taken before it. Nothing in the code
makes the number of workers a pool is started with agree with the autoscaler's limits;
`WithinLimits` says what scaling makes of any start.

### EventBus, Webhooks, Streams

`EventBus` keeps all events ever published (`log`) and a position per receiver; lag is a
position more than `Buffer` behind. `Webhooks` and `Streams` extend it with one webhook
or stream. The calls of the application stop between the locks they take (`calls`, `call`);
two callers work on a webhook at once, one at a time on a stream. A stream is added in the
steps `AddConfig`, `AddProcessor`, `AddStats` and `AddHandle`, and removed in
`RemoveProcessor`, `RemoveConfig` and `RemoveStats`; a backend that fails to shut down ends
the removal and leaves configuration and statistics behind. A listener is a task with the places it can
await at (`at`), a stop signal (its handle was dropped) and an abort (the tracker was
closed), which takes effect at an await. Deliveries and batches are tasks named by
the subscription and the (first) event; they hold a slot of their listener from the
start and a permit of the manager during a request. The answer of the endpoint and the
part of a batch that the backend acknowledges are arbitrary, and so is the part of a batch
that cannot be prepared, which counts as failed while the rest is sent. `ignored` and `mixed` are
ghosts: events the configuration rejects, and an add that overlapped a removal.

### KeyRotation

`rows` are the versions of one key, `masters` the stored master keys; each process
(`Managers`) has its current root key, its wrapping key and the id it stores with it,
under two locks (`wrapKey`, `wrapId`), and a cache. A call is a task with its place
between the locks, the queries and the cache (`task`). `Owner` says whose task it is: clones of
a manager, such as the one `start_rotation_service` runs, are several tasks of one manager and
share its locks and its cache.

`rotate_key_if_current` is more than one step. `CheckDue` is the `COUNT` of an automatic
rotation, which locks nothing; `Commit` is the insertion of the new version and the retirement
of the old one, which only the unique index on versions can refuse (`RefuseVersion`). Between
the two other processes may rotate and clean up (`CleanUp`), so that the version the count saw
and the one the index would have found are gone. The answer to a commit may be lost
(`StoreUnanswered`, `InsertUnanswered`), calls fail at the database and processes restart.
`autos` counts the automatic rotations that made the newest version; `mixed` and `exposed`
are ghosts: managers whose clones used and changed the master key at once, and the versions
they stored.

## 3. Runs

| Run | Instance | Shows |
|---|---|---|
| `job_runs` | 1 recurring job, 2 workers, 3 stamps, `MaxAttempts` 2, `AttemptBound` 3, lease of 1 tick | fencing, attempts, refinement of `JobContract` |
| `job_runs_live` | 1 plain job, 2 workers | completion is final, runs end, runnable jobs are claimed |
| `cron` | 4 occurrences in 7 ticks, two of them adjacent, scan limit 2 | no occurrence skipped while enabled, none run twice, each followed by a run |
| `workflows` | diamond of four with a spawned fifth job, 3 policies, 3 interventions | order of jobs, no lost waiters, earned and closed status, cancellation |
| `batches` | workflow of two, batch of two, a job that depends on both, 1 intervention | closed batch, job enqueued late is not forgotten, both end |
| `batch_worker` | 2 workers, 2 jobs, one of them in a fail-fast batch, batches of 2, one job at a time, 3 permits, burst of 2 and one refill | rate, permits, no claimed job forgotten |
| `batch_worker_live` | 1 worker, 2 jobs at a time | shutdown ends |
| `worker_pool` | 1 worker and 1 of another queue, 2 to 3 wanted, steps of 2, 3 decisions | slots, scaling, shutdown |
| `webhooks` | 2 callers, 2 adds or 2 events, 1 change, 1 permit, 1 slot, 2 attempts | permits, listeners, accounting, filters on the bus, shutdown |
| `streams` | 3 events or 2 adds, batches of 2, 1 permit, 2 attempts, 1 change | backlog, accounting, flush, shutdown |
| `key_rotation` | 2 processes, one of them with two tasks on clones, 4 calls, 1 due rotation, 1 failure or restart, 4 versions of which 2 are kept, 2 master keys | readable keys, the newest version active, one rotation per due date, caches |
| `job_runs_result` | 1 plain job | the finding of section 6 |

Bounds. One job is enough for `JobRuns` because rows do not influence each other;
two workers are the late one and the current one. Three stamps let a row, a late
worker and the clock hold different readings, and attempts can climb to
`AttemptBound`, one above `MaxAttempts`, by `retry_job`. `MaxDelay` 1 tells a due
job from one that is not. `MaxManual` bounds the interventions: three are needed to
archive, restore and retry around one failure. The graphs of `MCWorkflows` have a
fork, a join, a chain and a child that depends on both arms. `job_runs_live` uses
numbers for stamps and takes the smallest free one, since symmetry is not sound for
liveness, and leaves results out, which no action reads; both reductions are part of
its specification (`CanonicalSpec`) and not constraints on the side, because fairness
must not ask for a step that a constraint excludes.
In `batch_worker` three permits for two batches of two make the
second acquisition get fewer permits than it wants, three tokens in all make it get
fewer tokens than permits, and one job at a time leaves the other waiting.
In `cron` a run can miss three occurrences, one more than the scan limit, and adjacent
occurrences let a run start at one and end at the next. In `worker_pool` the pool starts below
the limits, three decisions bring it up, retire a slot and use it again, or overtake one
another, and a step of 2 overshoots both limits. `MaxWork` couples events and subscriptions of `webhooks` and
`streams`: one subscription with all events, or two with fewer; a buffer of one event
makes a listener that is busy fall behind. Three tasks in `key_rotation` are the least that
have both clones and another process: two on one manager tear the master key and share a cache,
the third rotates and cleans up in between. `Swap` exchanges the two clones, which are alike;
`Keep` 2 lets cleanup delete a version others still work with. Overtaken calls that leave a
second active version behind need `Keep` 1 or a fifth call (section 6); the proofs hold for
both.
Deadlock is checked for `JobRuns` and `BatchWorker`; elsewhere all work may be finished,
the pool stopped or the clock at its bound.

Fairness. Workers poll in a loop and each step of a run that has begun is taken
unless the process dies (`Proceed`). Handlers are assumed to return: the code cuts
one off only if the job has a timeout, and renews its lease until then. The pool runs the reaper periodically, and time
passes. For `Workflows` a run that starts again and again ends the job in the end,
because its attempts are bounded, which is what `JobRuns` shows: hence strong
fairness of `FinishRun`. For `BatchWorker`
database calls return and the loop goes on where it can; handlers need not return and
the rate limiter need not give another token, since `WorkerStops` must hold without.
For `Cron` time passes, due jobs are claimed and runs end. In `WorkerPool` workers that
are asked to stop do (`WorkerStops`), and each branch of the supervisor's `select!` is
taken if it stays ready; a periodic task whose channel is closed gets strong fairness for
noticing it, because `select!` picks among ready branches at random. `Webhooks` and
`Streams` only assume that some task that can run does (`WF_vars(SystemStep)`): requests
have timeouts, and no order among tasks is needed.
Nothing is assumed of operators, and a crash (`Abandon`)
may happen any number of times.

## 4. Proofs

`JobRunsProofs` proves, for every number of jobs, workers, stamps and attempts,
from the assumption `JobRunsAssumptions` alone:

- `FencingInvariant`: `Spec => []FencingInv`. `OnlyCurrentRunAdmitted` is not
  inductive: it says nothing of runs that are not admitted now. `RunsTellApart`
  adds that a worker holding a run of a Running job is its owner exactly if the row
  is that run, and that a run claimed in the current millisecond, which a claim to
  come could equal in `started_at`, has fewer attempts than that claim will have.
  `RowsConsistent` bounds attempts from both sides.
- `Fencing`, `TypeCorrect`, `AttemptsBounded`, `CompletionFinal`: the properties
  `OnlyCurrentRunAdmitted`, `TypeOK`, `AutomaticAttemptsBounded` and
  `CompletedIsFinal` of the runs.

It also proves `ContractKept`: `Spec => KeepsContract`, that is `Contract!Spec`, the refinement
checked by the run as `KeepsContract`. Every step of `JobRuns` is a step of `JobContract`
or leaves its variables alone, by `FencingInv`: without it an outcome that is admitted
could come from a worker that is not the owner. `WorkerImplements` and `RowImplements` have
one case per action.

`CronProofs` proves, for every set of occurrences, scan limit and bound of the clock, from
`CronAssumptions`:

- `CronInvariant`: `Spec => []CronInv`. The properties speak of the row between runs;
  what the end of a run schedules depends on the row of the run, hence `RunIsAnchored`: it
  started at `origin`, and not before it was scheduled. So the next run is always
  counted from the start (`CountedFromStart`), and `NextCronRunBounds` says what
  comes out of the three branches of `next_cron_run`.
- `NothingSkipped` and `NothingTwice`: `NoOccurrenceSkipped` and `OncePerOccurrence`.

`WorkflowsProofs` proves, for every dependency graph (cyclic ones included), set of
members, children and batch jobs, policy and mode, from `WorkflowsAssumptions`:

- `DependencyInvariant`: `Spec => []DependencyInv`. A row that may be claimed (its
  dependency status is none or satisfied) or runs has had all its dependencies
  completed, and a completed row has completed. Lemmas say what each transaction
  step does to the two status columns; `TerminateKeeps` and `InsertKeeps` carry the
  invariant through the two compound transactions, `NextKeeps` has one case per
  action.
- `DependenciesFirst`: `Spec => []StartsAfterDependencies`.
- `NobodyForgotten`: `NotForgotten`, from `WaitingInv`, which adds to `DependencyInv` that
  a running row is not blocked: a run that is retried must not come back as a waiter.
- `CompletionIsEarned`: `CompletedIsEarned`, from `CountInv`: the stored total is the number
  of jobs ever enqueued for the workflow. The counts compare with it by `Cardinality`. It is
  about the stored row, which one transaction reads and writes under its lock; what
  `get_workflow_status` computes from several queries is not modelled (section 7).
- `CancellationHolds`: `CancelledStaysStopped`, from `StoppedInv`.
- `WorkflowsAreClosed`: `WorkflowIsClosed`, itself inductive next to `CountInv`, if the
  workflow's jobs depend on each other only (`SelfContained`). Members always do; a
  spawned child may depend on a job outside, whose failure fails it without a refresh
  (section 6).
- `NobodyIsDoomed`: `NoDoomedWaiter`, from `DoomInv`, for every graph, dependents outside the
  workflow and the batch included. What the code does not do is in the property and not in an
  assumption: it excepts jobs of a `Manual` workflow, dependents outside a workflow or batch
  that was stopped as a whole (`StoppedWithout`) and jobs that were enqueued as failed after
  their dependents (`stillborn`). The last two contradict the documentation (section 6).
  `Reached`, the least fixed point behind `fail_dependents`, is used through two facts: it
  contains its start and is closed under blocked dependents.
- `BatchesAreClosed`: `BatchIsClosed`, from `BatchInv`, for every batch, with dependencies
  inside and outside it. The exception `unheard` is in the property (section 6).

These rest on one more assumption of `WorkflowsAssumptions` about spawning: a child has one
parent (its id is made when the parent's result is recorded).

`BatchWorkerProofs` proves, for any number of workers, jobs, permits and tokens, from
`BatchWorkerAssumptions`: `PermitsAreConserved` (`PermitsConserved`), `RateLimitIsKept`
(`RateIsKept`) and `ClaimedJobsAreKept` (`NothingLeftBehind`). `LoopInv` says what a worker
may hold in each phase of its loop. For the permits nothing else is needed. `RateIsKept`
only bounds the handlers that have started; `RateInv` adds every token that could still
start one: in hand or owed to a job that has not started. `LeftInv` adds that a job is put
down as lost only when its run is another's. Permits, tokens in hand and jobs are counted as
cardinalities of sets of pairs, so that no sum over workers is needed.

`WorkerPoolProofs` proves, for any number of workers, limits, steps, depths and decisions,
from `WorkerPoolAssumptions`:

- `SlotsStayManned`: `SlotsAreManned`, from `SlotInv`: the slot of a live task is not
  finished, and a slot without a task is finished unless the pool is shutting down. That is
  why a slot that is used again has no task left. It also shows that every task has the
  number 0, that is, no slot ever has two.
- `ScalingStaysApplied`: `ScalingIsApplied`, from `ScaleInv`: a decision on its way is what
  the autoscaler believes, and without one its belief is the number of workers. The pool may
  start with any number of workers, inside the limits or not: the number never gets further
  away from them than it started.

`WebhooksProofs` proves, for any number of callers, subscriptions, events, permits and
attempts, from `WebhooksAssumptions` and `EventBusAssumptions`: `OneListenerOnly` (`NoTwin`),
`ListedWebhookListens` (`ListedIsListening`), `WebhookPermitsAreConserved`
(`PermitsConserved`), `EventsAreAccountedFor` (`EventsAccountedFor`) and
`RegistryFollowsListeners` (`RegistryIsCurrent`). `HookInv` is common to them: each
subscription belongs to the call that made it until its listener starts, and a listener has
delivered nothing beyond its cursor. `TwinInv` adds that a listener that is not in charge
has been told to stop, also before it starts; `ListedInv` that a handle belongs to a
listener in charge or to a call about to change that; `PermitsInv` counts permits and slots
by the deliveries that hold them; `AccountInv` keeps one equation for what the listener has
read, one for the outcomes and one for the requests.

`StreamsProofs` proves, for any number of subscriptions, events, permits, slots and attempts
and every size of batches, from `StreamsAssumptions` and `EventBusAssumptions`:
`BacklogStaysBounded` (`BacklogIsBounded`), `StreamEventsAreAccountedFor`
(`EventsAccountedFor`) and `BackendIsShutDownLast` (`BackendShutDownLast`). `StreamInv` is
common to them: a listener never has more events than fit into flight (`Calm`), what a batch
has yet to send and has counted as failed adds up to what was not acknowledged (`Sound`), no event is in
two batches of a listener (`Apart`), and neither a batch nor a buffer is ahead of the receiver
(`Follows`). All steps of a batch are of one form (`Moves`), so that each invariant needs one
argument for them. `BacklogInv` is `BacklogIsBounded` itself, counted as pairs of batch and
event; `LastInv` adds that batches are aborted only by the end of shutdown and then all of
them, and that without a removal nothing is retired before that; `AccountInv` keeps the
equations while a stream that was added once counts, and says that they start at zero.

`KeyRotationProofs` proves, for any number of processes, clones, calls, versions and master
keys, from `KeyRotationAssumptions` alone: `NewestIsActive` (`OneActiveVersion`),
`DueRotatedOnce` (`DueOnce`), `KeysStayReadable` (`EveryKeyIsReadable`) and `CachesAreStored`
(`CachedWasStored`).

- `VersionInv`: of the versions that are to be kept none is missing, the newest is active and
  the others are retired, and no call is ahead of the newest version. Cleanup cannot delete
  the newest version, so an insertion that becomes the newest one started from the version it
  retires. An overtaken call can only fill a gap below those that are kept.
- `DueInv`: as long as an automatic rotation of the newest version is to come (`Pending`: it is
  due, or a call has passed its check and not yet stored the next version), there is a due
  date that no automatic rotation has used. Once the next version is stored, a call that
  passed its check earlier can no longer make the newest one.
- `WrappingInv` and `ReadableInv`: key and id of a manager, and what its tasks have read of
  them, belong together unless the manager is in `mixed`.
- `CachedInv`: what a task is about to cache was in a row.

The inductive invariants were also checked by TLC on the instances of section 3.

Only model-checked: liveness (`JobRuns`, `Workflows`, `BatchWorker`, `Cron`, `WorkerPool`,
`Webhooks`, `Streams`), which needs fairness. Every invariant and action property
of the passing runs is a theorem, under the hypotheses named above where there are any.

## 5. Plan

Done: runs and their contract, dependencies, batch mode, cron, pool, event delivery, keys.
In this order next:

1. `TransactionLocks`: the statements of a terminal transition and of an insertion
   with their row locks, two transactions at a time, as a refinement of the atomic
   steps of `Workflows`; lock order, deadlock and `retry_on_conflict`; MySQL's
   differences.
2. `Migrations`: two processes, the session lock, a crash between a migration and its
   record, MySQL's commits per statement.
3. `RateLimiter` with fractions and waiting times; `Results` with expiry; `Retry`
   (saturating delays).

## 6. Findings

Checked by a run: `job_runs_result`. A late worker overwrites the result of a completed
job, since `store_job_result` knows the job by id only; `src/queue/mod.rs:924` says that
a late worker can never overwrite newer state.

Further divergences met while modelling. Each can be seen by checking the named property
with the named constants in a configuration of one's own.

| Where | The code | What it says of itself | To see it |
|---|---|---|---|
| `worker.rs:2345` | `fail_held_job` confirms the run and then fails whatever run the job has by then | `worker.rs:2343` | `JobRuns`, `HeldJobFailedOnlyByHolder` |
| `lifecycle.rs:922` | a fail-fast workflow's own failures cut the walk to dependents outside it, which wait for ever | `queue/mod.rs:548` | `Workflows`, jobs a, b and x, `DependsOn <- ChainOut`, members a and b, `NobodyDoomed` |
| `postgres.rs:789` | `retry_dead_job` keeps the dependency status, the job is never claimed | `queue/mod.rs:289`, `lifecycle.rs:831` | `Workflows`, `DependsOn <- TwoChains`, members a and b, `MaxManual` 2, `NoneForgotten` |
| `postgres.rs:2538` | a batch whose last job fails through an outside dependency is never closed | `lifecycle.rs:775` | `Workflows`, jobs a, b and x, `DependsOn <- DependsOutside`, batch of a and b, `BatchAlwaysClosed` |
| `lifecycle.rs:972` | `fail_job_dependencies` fails jobs of a batch without `apply_batch_outcome`: if one was the last, the batch is never closed | `lifecycle.rs:775` | `Workflows` with the constants of `Batches.cfg`, `MaxManual` 3, `BatchAlwaysClosed` |
| `queue/mod.rs:375` | a job that is disabled and enabled again during a run gets a catch-up run for the occurrences in between | there: occurrences missed while disabled are not run | `Cron`, `DisabledNotCaughtUp` |
| `encryption/key_manager.rs:1167` | once cleanup has deleted version 1, `generate_key` for an existing key succeeds and adds a second active version | `key_manager.rs:1165` | `KeyRotation`, `Keep` 1, `NeverTwoActive` |
| `encryption/key_manager.rs:2592` | so does a `rotate_key` that another process has overtaken: it loads version 1, the other rotates to 3 and deletes 1 and 2, and its insertion of 2 succeeds | `key_manager.rs:1413`: "never has two active versions" | the same |
| `encryption/key_manager.rs:2603` | the due check is an unlocked `COUNT`: an automatic rotation that was overtaken in the same way after it inserts a version below the newest one, beside the automatic rotation that already served the due date | `key_manager.rs:1516` | the same; `DueOnce` counts newest versions only |
| `encryption/key_manager.rs:1922` | master key and id are read and set under two locks: clones of one manager can store a key with the id of another master key | `current_master_key` | `KeyRotation`, constants of `KeyRotation.cfg`, `NoKeyExposed` |
| `webhooks.rs:872` | a webhook whose filter is changed to ask for payloads gets events without, since the registry keeps the filter of its subscription | `webhooks.rs:867`, doc of `update_webhook` | `Webhooks`, `Configs <- OneKind`, `PayloadIsKept` |
| `streaming.rs:1780` | a back-off that ends when shutdown is signalled may still be followed by an attempt | `streaming.rs:1070`, doc of `shutdown` | `Streams`, `NoRetryAfterShutdown` |

Without a property: a removal of a webhook that overlaps an add can leave it listed
without a listener (`ListedIsListening` excepts it); `TaskTracker::abort_all` does not
wait for the tasks it aborts, only for their wrappers; `streaming.rs:394` promises order
within a partition, which concurrent batches do not keep; the autoscaler may decide
before `start` has written the number of workers; a cached key version may be used for
an hour after another process has retired it; a clone's call that loaded or made an older
version and caches it late replaces a newer one in the cache they share; an overtaken rotation
caches and returns a version that its own cleanup deletes; enabling an enabled job with a due run puts that run off to the next occurrence;
`lifecycle.rs:503` says that archived jobs keep no workflow, but the archive stores it
(and its jobs count for the workflow), so a failed job of a `Manual` workflow fails its
later dependents once it is archived; a spawned child of a job in a workflow that is
failed through a dependency outside the workflow does not refresh the workflow; a
workflow with a deleted member stays `Running`; `release_unstarted` is said to refund the
tokens of the jobs it hands back (`worker.rs:2262`) but keeps the token of a job whose run
it finds lost, as no other path does.

## 7. Not modelled

Payloads and their encryption, priorities (a claim may take any runnable job, which
includes every choice), polling and back-off intervals, metrics and hooks,
rows that cannot be decoded, read-only queries (`get_workflow_status`, `postgres.rs:1406`,
reads the row, the jobs and the counts in separate statements without a lock, so that it can
report `Completed` for a workflow that a commit in between gave a pending child: no property
here is about its answer), calls on one stream that overlap, HTTP requests and stream backends beyond
the class of their answer, ciphers and key management services, and the components marked
`not_modelled` in `PROJECT.json`. The MySQL backend shares `lifecycle.rs` but not
the SQL these models were translated from. Recurring jobs in the archive are in `JobRuns`
and not in `Cron`.
