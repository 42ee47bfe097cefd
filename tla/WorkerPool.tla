----------------------------- MODULE WorkerPool -----------------------------
(***************************************************************************)
(* The worker pool: a supervisor that restarts workers, an autoscaler that *)
(* decides how many there should be, periodic maintenance, and shutdown    *)
(* (src/worker/pool.rs, src/worker/autoscale.rs).                          *)
(*                                                                         *)
(* Workers live in slots (the index the supervisor knows them by).  Each   *)
(* runs in a task of its own, which can end at any moment, and whose end   *)
(* the supervisor learns only when it joins the task.  A task is named by  *)
(* its slot and the number of tasks the slot had left when it was spawned. *)
(* What a worker does until it stops is in BatchWorker.                    *)
(***************************************************************************)
EXTENDS Naturals, Sequences, FiniteSets

CONSTANTS
  Initial,        \* workers of the template's queue the pool starts with
  Others,         \* workers of another queue
  MinWorkers, MaxWorkers, ScaleStep,
  ScaleUpThreshold, ScaleDownThreshold,
  Depths,         \* average queue depths the autoscaler may see
  MaxScales,      \* bound: scaling decisions
  NoTask

ASSUME WorkerPoolAssumptions ==
  /\ Initial \in Nat /\ Others \in Nat
  /\ {MinWorkers, MaxWorkers, ScaleStep, ScaleUpThreshold} \subseteq Nat \ {0}
  /\ MinWorkers <= MaxWorkers
  /\ ScaleDownThreshold \in Nat /\ Depths \subseteq Nat /\ MaxScales \in Nat
  /\ NoTask \notin Nat \X Nat

VARIABLES
  slots,        \* templates, retired and finished of the supervisor, by index
  sender,       \* the task whose shutdown channel each slot holds
  tasks,        \* the worker tasks: state and whether they were told to stop
  shutting,     \* shutting_down
  desired,      \* the value in the watch channel
  unseen,       \* whether the supervisor has yet to see it
  scaler,       \* "on" or "off"
  active,       \* active_workers of the metrics
  announced,    \* start has written the initial active_workers
  cooling,      \* the cooldown since the last decision is not over
  signal,       \* the shutdown signal: "none", "set", or its sender "dropped"
  done,         \* supervisor_done
  maintenance,  \* the loop of a periodic task
  pass,         \* a pass of it is running, in a task of its own
  scales,       \* scaling decisions so far
  early         \* ghost: a decision was taken before start wrote active_workers

slotVars == <<slots, sender, tasks>>
scaleVars == <<desired, unseen, scaler, active, announced, cooling, scales, early>>
maintVars == <<maintenance, pass>>
vars == <<slots, sender, tasks, shutting, desired, unseen, scaler, active, announced, cooling,
          signal, done, maintenance, pass, scales, early>>

-----------------------------------------------------------------------------
Live == DOMAIN tasks
SlotOf(t) == t[1]

NewTask(state) == [state |-> state, told |-> FALSE]

\* The name of a task that is spawned for slot i.
TaskFor(i) == <<i, Cardinality({t \in Live : SlotOf(t) = i})>>

Least(m, n) == IF m < n THEN m ELSE n

\* A worker stops when its channel has a message or its sender is gone.
Asked(t) == tasks[t].told \/ \A i \in DOMAIN sender : sender[i] # t

\* try_send to the channels of some slots.
Tell(S) ==
  tasks' = [t \in Live |->
    IF \E i \in S : sender[i] = t THEN [tasks[t] EXCEPT !.told = TRUE] ELSE tasks[t]]

\* Mutant: workers of every queue are counted and retired.
ActiveSlotsOfAnyQueue == {i \in DOMAIN slots : ~slots[i].retired}

\* The workers a scaling decision counts.
ActiveSlots == {i \in DOMAIN slots : ~slots[i].retired /\ slots[i].scaled}

\* Mutant: a slot is reused before its retired worker has finished.
ReusableAtOnce == {i \in DOMAIN slots : slots[i].retired}

\* Slots whose retired worker has finished.
Reusable == {i \in DOMAIN slots : slots[i].retired /\ slots[i].finished}

-----------------------------------------------------------------------------
(* Worker tasks.                                                           *)

\* A restarted worker begins after WORKER_RESTART_DELAY.
DelayEnds(t) ==
  /\ t \in Live /\ tasks[t].state = "delayed"
  /\ tasks' = [tasks EXCEPT ![t].state = "running"]
  /\ UNCHANGED <<slots, sender, shutting, scaleVars, signal, done, maintVars>>

WorkerReturns(t) ==
  /\ t \in Live /\ tasks[t].state = "running" /\ Asked(t)
  /\ tasks' = [tasks EXCEPT ![t].state = "returned"]
  /\ UNCHANGED <<slots, sender, shutting, scaleVars, signal, done, maintVars>>

WorkerPanics(t) ==
  /\ t \in Live /\ tasks[t].state = "running"
  /\ tasks' = [tasks EXCEPT ![t].state = "panicked"]
  /\ UNCHANGED <<slots, sender, shutting, scaleVars, signal, done, maintVars>>

-----------------------------------------------------------------------------
(* supervise.                                                              *)

\* Mutant: a worker in its restart delay does not get the message.
SeeSignalMissesDelayed ==
  /\ ~done /\ ~shutting /\ signal # "none"
  /\ shutting' = TRUE
  /\ Tell({SlotOf(t) : t \in {u \in Live : tasks[u].state = "running"}})
  /\ UNCHANGED <<slots, sender, scaleVars, signal, done, maintVars>>

\* The shutdown signal: every worker is told to stop.
SeeSignal ==
  /\ ~done /\ ~shutting /\ signal # "none"
  /\ shutting' = TRUE
  /\ Tell(DOMAIN slots)
  /\ UNCHANGED <<slots, sender, scaleVars, signal, done, maintVars>>

\* Start n workers from the template: in the first slots whose retired worker
\* has finished, then in new ones.
StartWorkers(n) ==
  \E reused \in SUBSET Reusable :
    /\ Cardinality(reused) = Least(n, Cardinality(Reusable))
    /\ \A i \in reused, j \in Reusable \ reused : i < j
    /\ LET added == n - Cardinality(reused)
           started == reused \union ((Len(slots) + 1)..(Len(slots) + added))
           indices == 1..(Len(slots) + added)
       IN /\ slots' = [i \in indices |->
                IF i \in started THEN [retired |-> FALSE, finished |-> FALSE, scaled |-> TRUE]
                ELSE slots[i]]
          /\ sender' = [i \in indices |-> IF i \in started THEN TaskFor(i) ELSE sender[i]]
          /\ tasks' = [t \in Live \union {TaskFor(i) : i \in started} |->
                IF t \in Live THEN tasks[t] ELSE NewTask("running")]

\* Retire the last n workers of the queue.
RetireWorkers(n) ==
  \E chosen \in SUBSET ActiveSlots :
    /\ Cardinality(chosen) = n
    /\ \A i \in chosen, j \in ActiveSlots \ chosen : j < i
    /\ slots' = [i \in DOMAIN slots |->
          IF i \in chosen THEN [slots[i] EXCEPT !.retired = TRUE] ELSE slots[i]]
    /\ Tell(chosen)
    /\ UNCHANGED sender

\* A new desired count: start or retire workers of the template's queue.
ApplyDesired ==
  /\ ~done /\ ~shutting /\ unseen
  /\ unseen' = FALSE
  /\ LET n == Cardinality(ActiveSlots) IN
       IF desired > n THEN StartWorkers(desired - n) ELSE RetireWorkers(n - desired)
  /\ UNCHANGED <<shutting, desired, scaler, active, announced, cooling, signal, done, maintVars,
                 scales, early>>

\* join_next: a retired worker's slot is finished (not noted when it returns
\* during shutdown), any other worker is restarted unless the pool is
\* shutting down.
Join(t) ==
  /\ ~done /\ t \in Live /\ tasks[t].state \in {"returned", "panicked"}
  /\ LET i == SlotOf(t)
         restart == ~shutting /\ ~slots[i].retired
         noted == slots[i].retired /\ ~(shutting /\ tasks[t].state = "returned")
     IN /\ slots' = [slots EXCEPT ![i].finished = @ \/ noted]
        /\ tasks' = [u \in (IF restart THEN Live ELSE Live \ {t}) |->
              IF u = t THEN NewTask("delayed") ELSE tasks[u]]
        /\ sender' = [sender EXCEPT ![i] = IF restart THEN t ELSE IF @ = t THEN NoTask ELSE @]
  /\ UNCHANGED <<shutting, scaleVars, signal, done, maintVars>>

\* No task is left, whether or not the pool is shutting down: the
\* maintenance loops are aborted and the pool reports that it is done.
SupervisorEnds ==
  /\ ~done /\ Live = {}
  /\ done' = TRUE
  /\ maintenance' = "stopped"
  /\ UNCHANGED <<slotVars, shutting, scaleVars, signal, pass>>

-----------------------------------------------------------------------------
(* Autoscaling.                                                            *)

\* start writes the initial count after it has spawned the autoscaler.
Announce ==
  /\ ~announced
  /\ announced' = TRUE
  /\ active' = Initial
  /\ UNCHANGED <<slotVars, shutting, desired, unseen, scaler, cooling, signal, done, maintVars,
                 scales, early>>

DepthIsAbove(depth, threshold) ==
  IF active > 0 THEN depth > threshold * active ELSE depth > threshold
DepthIsBelow(depth, threshold) ==
  IF active > 0 THEN depth < threshold * active ELSE depth < threshold

\* apply_queue_depth: the new count for an average depth, or the old one.
ScaledCount(depth) ==
  IF DepthIsAbove(depth, ScaleUpThreshold) /\ active < MaxWorkers
    THEN Least(active + ScaleStep, MaxWorkers)
  ELSE IF DepthIsBelow(depth, ScaleDownThreshold) /\ active > MinWorkers
    THEN IF active < MinWorkers + ScaleStep THEN MinWorkers ELSE active - ScaleStep
  ELSE active

\* One evaluation of the autoscaler that scales.
Evaluate ==
  /\ scaler = "on" /\ ~cooling /\ scales < MaxScales
  /\ \E depth \in Depths :
       /\ ScaledCount(depth) # active
       /\ active' = ScaledCount(depth)
  /\ desired' = active' /\ unseen' = TRUE
  /\ cooling' = TRUE
  /\ scales' = scales + 1
  /\ early' = (early \/ ~announced)
  /\ UNCHANGED <<slotVars, shutting, scaler, announced, signal, done, maintVars>>

CooldownEnds ==
  /\ cooling /\ cooling' = FALSE
  /\ UNCHANGED <<slotVars, shutting, desired, unseen, scaler, active, announced, signal, done,
                 maintVars, scales, early>>

-----------------------------------------------------------------------------
(* Maintenance and shutdown.                                               *)

\* spawn_periodic: a tick starts a pass unless the signal is set.  When the
\* pool was dropped the value still reads false, and a tick that is due may
\* win over the error of the channel.
StartPass ==
  /\ maintenance = "waiting" /\ signal # "set"
  /\ maintenance' = "busy" /\ pass' = TRUE
  /\ UNCHANGED <<slotVars, shutting, scaleVars, signal, done>>

\* The pass ends, by returning or by a panic; a loop that waits for it goes on.
PassEnds ==
  /\ pass /\ pass' = FALSE
  /\ maintenance' = IF maintenance = "busy" THEN "waiting" ELSE maintenance
  /\ UNCHANGED <<slotVars, shutting, scaleVars, signal, done>>

LoopStops ==
  /\ maintenance = "waiting" /\ signal # "none"
  /\ maintenance' = "stopped"
  /\ UNCHANGED <<slotVars, shutting, scaleVars, signal, done, pass>>

\* shutdown, or the pool is dropped.
Shutdown ==
  /\ announced /\ signal = "none"
  /\ scaler' = "off" /\ signal' \in {"set", "dropped"}
  /\ UNCHANGED <<slotVars, shutting, desired, unseen, active, announced, cooling, done, maintVars,
                 scales, early>>

-----------------------------------------------------------------------------
Init ==
  /\ slots = [i \in 1..(Initial + Others) |->
                [retired |-> FALSE, finished |-> FALSE, scaled |-> i <= Initial]]
  /\ sender = [i \in 1..(Initial + Others) |-> <<i, 0>>]
  /\ tasks = [t \in (1..(Initial + Others)) \X {0} |-> NewTask("running")]
  /\ shutting = FALSE
  /\ desired = Initial /\ unseen = FALSE
  /\ scaler = "on" /\ active = 0 /\ announced = FALSE
  /\ cooling = FALSE
  /\ signal = "none" /\ done = FALSE
  /\ maintenance = "waiting" /\ pass = FALSE
  /\ scales = 0 /\ early = FALSE

Supervise == SeeSignal \/ ApplyDesired \/ SupervisorEnds \/ \E t \in Live : Join(t)

Next ==
  \/ Supervise
  \/ \E t \in Live : DelayEnds(t) \/ WorkerReturns(t) \/ WorkerPanics(t)
  \/ Announce \/ Evaluate \/ CooldownEnds
  \/ StartPass \/ PassEnds \/ LoopStops \/ Shutdown

Spec == Init /\ [][Next]_vars

\* Workers that are asked to stop do (BatchWorker's WorkerStops), delays and
\* passes end, and the supervisor handles each kind of event in the end.  A
\* maintenance loop whose channel is closed notices it between two passes:
\* select! picks among ready branches at random.
Fairness ==
  /\ WF_vars(SeeSignal) /\ WF_vars(ApplyDesired) /\ WF_vars(SupervisorEnds)
  /\ WF_vars(Announce) /\ WF_vars(PassEnds) /\ SF_vars(LoopStops)
  /\ WF_vars(\E t \in Live : DelayEnds(t)) /\ WF_vars(\E t \in Live : WorkerReturns(t))
  /\ WF_vars(\E t \in Live : Join(t))

FairSpec == Spec /\ Fairness

-----------------------------------------------------------------------------
(* Properties.                                                             *)

\* Through restarts, retirements and reuse of slots no worker escapes the
\* supervisor and none is lost: every task belongs to one slot, whose
\* channel reaches it, and outside shutdown every slot that is not retired
\* for good has its task.
SlotsAreManned ==
  /\ \A t \in Live : sender[SlotOf(t)] = t
  /\ \A i \in DOMAIN slots :
       ~shutting /\ ~(slots[i].retired /\ slots[i].finished) => sender[i] \in Live

\* The limits of scaling, widened to the count the pool was started with:
\* nothing makes the pool's configuration agree with the autoscaler's.
WithinLimits(n) ==
  /\ n >= Least(Initial, MinWorkers)
  /\ n <= MaxWorkers \/ n <= Initial

\* Once the supervisor has seen the last decision it runs as many workers of
\* the queue as the autoscaler believes.  Their number keeps to min_workers
\* and max_workers if the pool was started so, and otherwise never gets
\* further away than it started, however late decisions are applied and
\* whatever crashes in between; workers of other queues are never retired.  A
\* decision taken before start has written its count is excepted.
ScalingIsApplied ==
  /\ ~shutting /\ ~early =>
       /\ announced /\ ~unseen => Cardinality(ActiveSlots) = active
       /\ WithinLimits(Cardinality(ActiveSlots))
  /\ \A i \in DOMAIN slots : ~slots[i].scaled => ~slots[i].retired

\* After shutdown (or drop) the pool gets done and its maintenance stops,
\* although workers crash, are being restarted or were retired.
PoolStops == signal # "none" ~> done /\ maintenance = "stopped" /\ ~pass
=============================================================================
