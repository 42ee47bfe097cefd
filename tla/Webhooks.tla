------------------------------ MODULE Webhooks ------------------------------
(***************************************************************************)
(* One webhook of the webhook manager (src/webhooks.rs): the calls that    *)
(* add, remove and change it, its listener on the event bus, the delivery  *)
(* tasks with their permits, retries and statistics, and shutdown through  *)
(* the task trackers (src/task_tracker.rs).                                *)
(*                                                                         *)
(* Calls run concurrently and are interrupted between the locks they take. *)
(* Each subscription belongs to one listener.  Aborting a tracked task is  *)
(* a request: the tracker waits for its wrapper, and the task itself can   *)
(* go on until its next await.                                             *)
(***************************************************************************)
EXTENDS EventBus

CONSTANTS
  Callers,        \* tasks of the application that call the manager
  Configs,        \* configurations it uses: which kinds, and payloads or not
  MaxChanges,     \* bound: calls of remove, update, enable and disable
  MaxPending,     \* max_pending_deliveries
  MaxConcurrent,  \* max_concurrent_deliveries
  MaxAttempts,    \* of the retry policy
  None

\* A configuration, the counters of a webhook, and a delivery task.
Settings == [kinds : SUBSET Kinds, payload : BOOLEAN, enabled : BOOLEAN]
Counters == [attempts : Nat, ok : Nat, bad : Nat, dropped : Nat]
Tasks == [at : {"waiting", "sent", "backoff", "outcome", "done", "aborted"},
          tries : Nat, ok : BOOLEAN, abort : BOOLEAN]

ASSUME WebhooksAssumptions ==
  /\ {MaxPending, MaxConcurrent, MaxAttempts} \subseteq Nat \ {0}
  /\ Configs \subseteq Settings
  /\ None \notin Settings /\ None \notin Counters /\ None \notin Tasks /\ None \notin Subs

VARIABLES
  config,     \* webhooks: the configuration, or None
  stats,      \* stats: the counters, or None
  handle,     \* subscriptions: the subscription of the listener in charge, or None
  listener,   \* by subscription: the listener task
  slots,      \* by subscription: free pending-delivery slots
  delivery,   \* by subscription and event: the delivery task, or None
  permits,    \* free permits of delivery_semaphore
  calls,      \* by caller: the call it is in
  stage,      \* of shutdown
  changes,    \* calls of these so far
  ignored,    \* ghost, by subscription: events not meant for the webhook
  mixed       \* ghost: an add and a remove were in progress at the same time

hookVars == <<config, stats, handle>>
taskVars == <<listener, slots, delivery, permits>>
countVars == <<changes, mixed>>
vars == <<busVars, hookVars, taskVars, calls, stage, changes, ignored, mixed>>

-----------------------------------------------------------------------------
Idle == [op |-> "idle", at |-> "end", sub |-> None, config |-> None]
NoListener == [at |-> "none", stop |-> FALSE, abort |-> FALSE]
\* failed_attempts is attempts less the successes among them, and left out.
NewStats == [attempts |-> 0, ok |-> 0, bad |-> 0, dropped |-> 0]
NewDelivery == [at |-> "waiting", tries |-> 0, ok |-> FALSE, abort |-> FALSE]

Deliveries == {d \in Subs \X Events : delivery[d] # None}
Ended == {d \in Deliveries : delivery[d].at \in {"done", "aborted"}}
Running == {s \in Subs : listener[s].at \in {"recv", "check", "slot", "spawn"}}

\* Once shutdown has begun the listeners' tracker takes no task, once it
\* drains the deliveries theirs does not either.
ListenersClosed == stage # "up"
DeliveriesClosed == stage \in {"draining", "down"}

CallsIn(op) == {c \in Callers : calls[c].op = op}
CountIn(field, n) ==
  stats' = IF stats = None THEN None ELSE [stats EXCEPT ![field] = @ + n]

\* The handle is dropped: its listener is asked to stop.
StopListener(s) ==
  listener' = IF s = None THEN listener ELSE [listener EXCEPT ![s].stop = TRUE]

-----------------------------------------------------------------------------
(* Calls.                                                                  *)

\* add_webhook subscribes first, then takes one lock after the other.
AddWebhook(c) ==
  /\ calls[c] = Idle
  /\ \E cf \in Configs :
       /\ Subscribe(cf.payload)
       /\ calls' = [calls EXCEPT ![c] =
                      [op |-> "add", at |-> "config", sub |-> NextSub, config |-> cf]]
  /\ ignored' = [ignored EXCEPT ![NextSub] = Len(log)]
  /\ mixed' = (mixed \/ CallsIn("remove") # {})
  /\ UNCHANGED <<hookVars, taskVars, stage, changes>>

AddConfig(c) ==
  /\ calls[c].op = "add" /\ calls[c].at = "config"
  /\ config' = calls[c].config
  /\ calls' = [calls EXCEPT ![c].at = "stats"]
  /\ UNCHANGED <<busVars, stats, handle, taskVars, stage, countVars, ignored>>

AddStats(c) ==
  /\ calls[c].op = "add" /\ calls[c].at = "stats"
  /\ stats' = NewStats
  /\ calls' = [calls EXCEPT ![c].at = "handle"]
  /\ UNCHANGED <<busVars, config, handle, taskVars, stage, countVars, ignored>>

\* Mutant: the replaced handle is kept alive.
AddHandleKeepsOld(c) ==
  /\ calls[c].op = "add" /\ calls[c].at = "handle"
  /\ handle' = calls[c].sub
  /\ Unsubscribe({handle} \ {None})
  /\ calls' = [calls EXCEPT ![c].at = "start"]
  /\ UNCHANGED <<log, cursor, subs, config, stats, taskVars, stage, countVars, ignored>>

\* Mutant: the handle is replaced first, and the one that is then in place
\* unsubscribed.
AddHandleUnsubscribesOwn(c) ==
  /\ calls[c].op = "add" /\ calls[c].at = "handle"
  /\ handle' = calls[c].sub
  /\ StopListener(handle)
  /\ Unsubscribe({handle'})
  /\ calls' = [calls EXCEPT ![c].at = "start"]
  /\ UNCHANGED <<log, cursor, subs, config, stats, slots, delivery, permits, stage, countVars,
                 ignored>>

\* The handle replaces the one of an earlier add, whose listener stops and
\* whose subscription is taken off the registry.
AddHandle(c) ==
  /\ calls[c].op = "add" /\ calls[c].at = "handle"
  /\ handle' = calls[c].sub
  /\ StopListener(handle)
  /\ Unsubscribe({handle} \ {None})
  /\ calls' = [calls EXCEPT ![c].at = "start"]
  /\ UNCHANGED <<log, cursor, subs, config, stats, slots, delivery, permits, stage, countVars,
                 ignored>>

\* Mutant: a tracker that has been closed still takes listeners.
AddStartAlways(c) ==
  /\ calls[c].op = "add" /\ calls[c].at = "start"
  /\ listener' = [listener EXCEPT ![calls[c].sub].at = "recv"]
  /\ calls' = [calls EXCEPT ![c] = Idle]
  /\ UNCHANGED <<busVars, hookVars, slots, delivery, permits, stage, countVars, ignored>>

\* The listener is spawned; refused, it is dropped with its subscription.
AddStart(c) ==
  /\ calls[c].op = "add" /\ calls[c].at = "start"
  /\ LET s == calls[c].sub IN
       IF ListenersClosed
       THEN DropSubscription(s) /\ listener' = [listener EXCEPT ![s].at = "gone"]
       ELSE UNCHANGED busVars /\ listener' = [listener EXCEPT ![s].at = "recv"]
  /\ calls' = [calls EXCEPT ![c] = Idle]
  /\ UNCHANGED <<hookVars, slots, delivery, permits, stage, countVars, ignored>>

\* remove_webhook: the configuration, then the handle, then the statistics.
RemoveWebhook(c) ==
  /\ calls[c] = Idle /\ changes < MaxChanges
  /\ changes' = changes + 1
  /\ config' = None
  /\ calls' = [calls EXCEPT ![c] = [Idle EXCEPT !.op = "remove", !.at = "handle"]]
  /\ mixed' = (mixed \/ CallsIn("add") # {})
  /\ UNCHANGED <<busVars, stats, handle, taskVars, stage, ignored>>

RemoveHandle(c) ==
  /\ calls[c].op = "remove" /\ calls[c].at = "handle"
  /\ handle' = None
  /\ StopListener(handle)
  /\ Unsubscribe({handle} \ {None})
  /\ calls' = [calls EXCEPT ![c].at = "stats"]
  /\ UNCHANGED <<log, cursor, subs, config, stats, slots, delivery, permits, stage, countVars,
                 ignored>>

RemoveStats(c) ==
  /\ calls[c].op = "remove" /\ calls[c].at = "stats"
  /\ stats' = None
  /\ calls' = [calls EXCEPT ![c] = Idle]
  /\ UNCHANGED <<busVars, config, handle, taskVars, stage, countVars, ignored>>

\* update_webhook replaces the configuration of a known webhook in place (of
\* an unknown one it is add_webhook); enable and disable change the flag.
ChangeConfig ==
  /\ config # None /\ changes < MaxChanges
  /\ changes' = changes + 1
  /\ \E cf \in Configs \union {[config EXCEPT !.enabled = b] : b \in BOOLEAN} :
       cf # config /\ config' = cf
  /\ UNCHANGED <<busVars, stats, handle, taskVars, calls, stage, ignored, mixed>>

-----------------------------------------------------------------------------
(* The listener.                                                           *)

At(s, place) == listener[s].at = place
Go(s, place) == listener' = [listener EXCEPT ![s].at = place]

\* A stop wins over an event and over a slot.
HearEvent(s) ==
  /\ At(s, "recv") /\ ~listener[s].stop
  /\ Receive(s) /\ Go(s, "check")
  /\ UNCHANGED <<log, registry, subs, hookVars, slots, delivery, permits, calls, stage, countVars,
                 ignored>>

\* Mutant: what the receiver missed is not counted.
HearLagSilently(s) ==
  /\ At(s, "recv") /\ ~listener[s].stop
  /\ SkipLost(s)
  /\ UNCHANGED <<log, registry, subs, hookVars, taskVars, calls, stage, countVars, ignored>>

HearLag(s) ==
  /\ At(s, "recv") /\ ~listener[s].stop
  /\ SkipLost(s) /\ CountIn("dropped", Skipped(s))
  /\ UNCHANGED <<log, registry, subs, config, handle, taskVars, calls, stage, countVars, ignored>>

Held(s) == cursor[s] - 1
Matches(s) == config.enabled /\ log[Held(s)].kind \in config.kinds

\* Mutant: the listener of a disabled webhook ends.
CheckEventOnce(s) ==
  /\ At(s, "check")
  /\ IF config = None \/ ~config.enabled
     THEN Go(s, "gone") /\ DropSubscription(s) /\ UNCHANGED ignored
     ELSE /\ Go(s, IF Matches(s) THEN "slot" ELSE "recv")
          /\ ignored' = [ignored EXCEPT ![s] = IF Matches(s) THEN @ ELSE @ + 1]
          /\ UNCHANGED busVars
  /\ UNCHANGED <<hookVars, slots, delivery, permits, calls, stage, countVars>>

\* The current configuration decides about the event; without one the
\* listener ends.
CheckEvent(s) ==
  /\ At(s, "check")
  /\ IF config = None
     THEN Go(s, "gone") /\ DropSubscription(s) /\ UNCHANGED ignored
     ELSE /\ Go(s, IF Matches(s) THEN "slot" ELSE "recv")
          /\ ignored' = [ignored EXCEPT ![s] = IF Matches(s) THEN @ ELSE @ + 1]
          /\ UNCHANGED busVars
  /\ UNCHANGED <<hookVars, slots, delivery, permits, calls, stage, countVars>>

TakeSlot(s) ==
  /\ At(s, "slot") /\ ~listener[s].stop /\ slots[s] > 0
  /\ slots' = [slots EXCEPT ![s] = @ - 1]
  /\ Go(s, "spawn")
  /\ UNCHANGED <<busVars, hookVars, delivery, permits, calls, stage, countVars, ignored>>

\* The delivery is started, or refused and its slot given back.
SpawnDelivery(s) ==
  /\ At(s, "spawn") /\ Go(s, "recv")
  /\ IF DeliveriesClosed
     THEN slots' = [slots EXCEPT ![s] = @ + 1] /\ UNCHANGED delivery
     ELSE delivery' = [delivery EXCEPT ![<<s, Held(s)>>] = NewDelivery] /\ UNCHANGED slots
  /\ UNCHANGED <<busVars, hookVars, permits, calls, stage, countVars, ignored>>

\* Stopped at one of its two selects, or aborted at an await.
ListenerEnds(s) ==
  /\ \/ listener[s].stop /\ listener[s].at \in {"recv", "slot"}
     \/ listener[s].abort /\ listener[s].at \in {"recv", "check", "slot"}
  /\ Go(s, "gone") /\ DropSubscription(s)
  /\ UNCHANGED <<hookVars, slots, delivery, permits, calls, stage, countVars, ignored>>

-----------------------------------------------------------------------------
(* deliver_webhook_event.                                                  *)

Stands(d, place) == d \in Deliveries /\ delivery[d].at = place
Moves(d, place) == delivery' = [delivery EXCEPT ![d].at = place]
FreeSlot(d) == slots' = [slots EXCEPT ![d[1]] = @ + 1]

\* An attempt holds a permit while its request is in flight.
SendRequest(d) ==
  /\ Stands(d, "waiting") /\ permits > 0
  /\ permits' = permits - 1
  /\ delivery' = [delivery EXCEPT ![d].at = "sent", ![d].tries = @ + 1]
  /\ UNCHANGED <<busVars, hookVars, listener, slots, calls, stage, countVars, ignored>>

LastTry(d, r) == r # "retry" \/ delivery[d].tries >= MaxAttempts

\* A 2xx answer, an answer or error worth a retry, or one that is not: the
\* permit is given back, the attempt counted (update_webhook_stats), and
\* either it is tried again or that was it.
GetAnswer(d) ==
  /\ Stands(d, "sent")
  /\ permits' = permits + 1
  /\ CountIn("attempts", 1)
  /\ \E r \in {"ok", "retry", "final"} :
       delivery' = [delivery EXCEPT ![d].at = IF LastTry(d, r) THEN "outcome" ELSE "backoff",
                                    ![d].ok = r = "ok"]
  /\ UNCHANGED <<busVars, config, handle, listener, slots, calls, stage, countVars, ignored>>

BackoffEnds(d) ==
  /\ Stands(d, "backoff")
  /\ Moves(d, "waiting")
  /\ UNCHANGED <<busVars, hookVars, listener, slots, permits, calls, stage, countVars, ignored>>

\* record_delivery_outcome; then the pending slot is free again.
RecordOutcome(d) ==
  /\ Stands(d, "outcome")
  /\ CountIn(IF delivery[d].ok THEN "ok" ELSE "bad", 1)
  /\ Moves(d, "done") /\ FreeSlot(d)
  /\ UNCHANGED <<busVars, config, handle, listener, permits, calls, stage, countVars, ignored>>

\* Mutant: an aborted request keeps its permit.
DeliveryAbortsWithPermit(d) ==
  /\ d \in Deliveries \ Ended /\ delivery[d].abort
  /\ Moves(d, "aborted") /\ FreeSlot(d)
  /\ UNCHANGED <<busVars, hookVars, listener, permits, calls, stage, countVars, ignored>>

\* Aborted at an await: permit and slot go with the task.
DeliveryAborts(d) ==
  /\ d \in Deliveries \ Ended /\ delivery[d].abort
  /\ permits' = IF Stands(d, "sent") THEN permits + 1 ELSE permits
  /\ Moves(d, "aborted") /\ FreeSlot(d)
  /\ UNCHANGED <<busVars, hookVars, listener, calls, stage, countVars, ignored>>

-----------------------------------------------------------------------------
(* shutdown.                                                               *)

\* The listeners' tracker is closed and its tasks aborted.
ShutdownBegins ==
  /\ stage = "up" /\ stage' = "closed"
  /\ listener' = [s \in Subs |-> [listener[s] EXCEPT !.abort = s \in Running]]
  /\ UNCHANGED <<busVars, hookVars, slots, delivery, permits, calls, countVars, ignored>>

\* Its handles are dropped; then the deliveries' tracker takes no more ...
ShutdownDropsHandle ==
  /\ stage = "closed" /\ stage' = "draining"
  /\ handle' = None
  /\ StopListener(handle) /\ Unsubscribe({handle} \ {None})
  /\ UNCHANGED <<log, cursor, subs, config, stats, slots, delivery, permits, calls, countVars,
                 ignored>>

\* ... until all have ended, or the grace period is over and they are aborted.
ShutdownEnds ==
  /\ stage = "draining" /\ stage' = "down"
  /\ delivery' = [d \in Subs \X Events |->
       IF d \in Deliveries \ Ended THEN [delivery[d] EXCEPT !.abort = TRUE] ELSE delivery[d]]
  /\ UNCHANGED <<busVars, hookVars, listener, slots, permits, calls, countVars, ignored>>

-----------------------------------------------------------------------------
Publish ==
  /\ \E kind \in Kinds : PublishEvent(kind)
  /\ UNCHANGED <<hookVars, taskVars, calls, stage, countVars, ignored>>

Init ==
  /\ BusInit
  /\ config = None /\ stats = None /\ handle = None
  /\ listener = [s \in Subs |-> NoListener]
  /\ slots = [s \in Subs |-> MaxPending]
  /\ delivery = [d \in Subs \X Events |-> None]
  /\ permits = MaxConcurrent
  /\ calls = [c \in Callers |-> Idle]
  /\ stage = "up"
  /\ changes = 0
  /\ ignored = [s \in Subs |-> 0] /\ mixed = FALSE

CallStep(c) ==
  AddConfig(c) \/ AddStats(c) \/ AddHandle(c) \/ AddStart(c) \/ RemoveHandle(c) \/ RemoveStats(c)

ListenerStep(s) ==
  HearEvent(s) \/ HearLag(s) \/ CheckEvent(s) \/ TakeSlot(s) \/ SpawnDelivery(s) \/ ListenerEnds(s)

DeliveryStep(d) ==
  SendRequest(d) \/ GetAnswer(d) \/ BackoffEnds(d) \/ RecordOutcome(d)
    \/ DeliveryAborts(d)

ShutdownStep == ShutdownDropsHandle \/ ShutdownEnds

\* What goes on without anybody asking for more.
SystemStep ==
  \/ \E c \in Callers : CallStep(c)
  \/ \E s \in Subs : ListenerStep(s)
  \/ \E d \in Subs \X Events : DeliveryStep(d)
  \/ ShutdownStep

Next ==
  \/ \E c \in Callers : AddWebhook(c) \/ RemoveWebhook(c)
  \/ ChangeConfig \/ Publish \/ ShutdownBegins
  \/ SystemStep

Spec == Init /\ [][Next]_vars

\* The runtime runs some task that can run, and requests end (each has a
\* timeout).  No order among the tasks is assumed.
Fairness == WF_vars(SystemStep)

FairSpec == Spec /\ Fairness

-----------------------------------------------------------------------------
(* Properties.                                                             *)

\* The bus and the manager are well typed, and both semaphores get back what
\* is taken from them, however a delivery ends: by success, by giving up, by
\* a refused spawn or by an abort in the middle of a request.
PermitsConserved ==
  /\ BusTypeOK
  /\ permits + Cardinality({d \in Deliveries : delivery[d].at = "sent"}) = MaxConcurrent
  /\ \A s \in Subs :
       slots[s] + Cardinality({d \in Deliveries \ Ended : d[1] = s})
         + (IF At(s, "spawn") THEN 1 ELSE 0) = MaxPending

\* At most one listener goes on listening: the one whose handle the manager
\* has, whatever calls overlap; every other one has been told to stop.
NoTwin == \A s \in Running : ~listener[s].stop => s = handle

\* A webhook that is listed is listened for, unless an add and a remove of
\* it overlapped or the manager is shut down.
ListedIsListening ==
  CallsIn("idle") = Callers /\ stage = "up" /\ ~mixed /\ config # None
    => handle \in Running /\ ~listener[handle].stop

\* As long as the webhook has been added once, every event since then is
\* waiting in the buffer, in the listener's hands, being delivered, ignored
\* as the configuration demands, or counted as dropped; and the deliveries
\* counted are those that ended.
EventsAccountedFor ==
  subs = 1 /\ stats # None /\ 1 \in Running /\ ~ListenersClosed =>
    LET held == IF listener[1].at \in {"check", "slot", "spawn"} THEN 1 ELSE 0 IN
    /\ Cardinality(Deliveries) + stats.dropped + ignored[1] + held + Unread(1) = Len(log)
    /\ stats.ok + stats.bad = Cardinality(Ended)
    /\ stats.attempts <= MaxAttempts * Cardinality(Deliveries)

\* A subscription is in use while its add is in progress or its listener runs.
InUse(s) == s \in Running \/ \E c \in CallsIn("add") : calls[c].sub = s

\* The registry of the bus follows the listeners through overlapping adds,
\* removals, refused starts, aborts and shutdown: no filter stays registered
\* that nobody listens with, so no payload is kept for nobody, and whoever goes
\* on listening has its filter registered, so no payload is taken from it.
RegistryIsCurrent ==
  \A s \in Subs :
    /\ registry[s] # "none" => InUse(s)
    /\ InUse(s) /\ ~listener[s].stop => registry[s] # "none"

\* Shutdown returns, and then every listener and every delivery is over.
ShutdownCompletes == stage = "closed" ~> stage = "down" /\ Running = {} /\ Deliveries = Ended

\* update_webhook promises that the new filter applies to every event from
\* then on: an event that is published keeps its payload as long as the
\* webhook's filter asks for it.
PayloadIsKept ==
  CallsIn("idle") = Callers /\ handle \in Running /\ config # None /\ config.payload
    => PayloadWanted
=============================================================================
