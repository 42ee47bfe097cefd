------------------------------- MODULE Streams -------------------------------
(***************************************************************************)
(* One stream of the stream manager (src/streaming.rs): its listener       *)
(* buffers events and flushes them in batches, batch tasks send them to    *)
(* the backend and retry the events that failed, while the application     *)
(* adds, removes, enables and disables the stream or shuts the manager     *)
(* down.                                                                   *)
(*                                                                         *)
(* The backend (Kafka, Kinesis, Pub/Sub) is external: a send acknowledges  *)
(* any part of its events.  A batch is named by one of the events in it.   *)
(***************************************************************************)
EXTENDS EventBus

CONSTANTS
  BatchSize,      \* batch_size
  MaxInFlight,    \* max_events: events in the batches of a listener
  MaxConcurrent,  \* max_concurrent_processors
  MaxAttempts,
  MaxChanges,     \* bound: calls of remove, enable and disable
  None

Counters == [ok : Nat, failed : Nat, dropped : Nat]
Tasks == [at : {"start", "waiting", "sending", "backoff", "record", "done", "aborted"},
          events : SUBSET Events, pending : SUBSET Events, acked : SUBSET Events,
          tries : Nat, ok : Nat, failed : Nat, by : Subs \union {None}, abort : BOOLEAN]

ASSUME StreamsAssumptions ==
  /\ {BatchSize, MaxInFlight, MaxConcurrent, MaxAttempts} \subseteq Nat \ {0}
  /\ None \notin BOOLEAN /\ None \notin Counters /\ None \notin Tasks /\ None \notin Subs

VARIABLES
  config,     \* streams: None, or whether the stream is enabled
  processor,  \* processors: None, or the add that created it
  retired,    \* processors that have been shut down
  stats,      \* stats: the counters, or None
  handle,     \* subscriptions: the subscription of the listener in charge, or None
  call,       \* the call in progress: how far it is
  listener,   \* by subscription: the listener task
  slots,      \* by subscription: events that still fit into flight
  batch,      \* by subscription and event: the batch task named by it, or None
  permits,    \* free permits of processing_semaphore
  stage,      \* of shutdown
  changes,
  ignored     \* ghost, by subscription: events not meant for the stream

streamVars == <<config, processor, retired, stats, handle>>
taskVars == <<listener, slots, batch, permits>>
vars == <<busVars, config, processor, retired, stats, handle, call, listener, slots, batch,
          permits, stage, changes, ignored>>

-----------------------------------------------------------------------------
Names == Subs \X Events
Batches == {b \in Names : batch[b] # None}
Ended == {b \in Batches : batch[b].at \in {"done", "aborted"}}
Running == {s \in Subs : listener[s].at \in {"loop", "recv", "slots"}}

NoListener == [at |-> "none", buffer |-> {}, out |-> {}, stop |-> FALSE,
               abort |-> FALSE]
NewStats == [ok |-> 0, failed |-> 0, dropped |-> 0]
\* A batch task; of one that has ended only what it did is kept.
NewBatch(E) == [at |-> "start", events |-> E, pending |-> E, acked |-> {}, tries |-> 0,
                ok |-> 0, failed |-> 0, by |-> None, abort |-> FALSE]

NameOf(E) == CHOOSE e \in E : TRUE

EndedBatch(b, how) ==
  [NewBatch(batch[b].events) EXCEPT !.at = how, !.acked = batch[b].acked, !.by = batch[b].by]

StopListener(s) ==
  listener' = IF s = None THEN listener ELSE [listener EXCEPT ![s].stop = TRUE]

-----------------------------------------------------------------------------
(* Calls, one at a time: the locks they take are taken one by one.         *)

\* add_stream subscribes; then configuration, processor and statistics replace
\* those of an earlier add.
AddStream ==
  /\ call = "none" /\ Subscribe(FALSE)
  /\ call' = "config"
  /\ ignored' = [ignored EXCEPT ![NextSub] = Len(log)]
  /\ UNCHANGED <<streamVars, taskVars, stage, changes>>

AddConfig ==
  /\ call = "config" /\ call' = "processor"
  /\ config' = TRUE
  /\ UNCHANGED <<busVars, processor, retired, stats, handle, taskVars, stage, changes, ignored>>

AddProcessor ==
  /\ call = "processor" /\ call' = "stats"
  /\ processor' = subs
  /\ UNCHANGED <<busVars, config, retired, stats, handle, taskVars, stage, changes, ignored>>

AddStats ==
  /\ call = "stats" /\ call' = "handle"
  /\ stats' = NewStats
  /\ UNCHANGED <<busVars, config, processor, retired, handle, taskVars, stage, changes, ignored>>

\* So does the handle; the listener starts unless the manager is closed.
AddHandle ==
  /\ call = "handle" /\ call' = "none"
  /\ handle' = subs
  /\ LET stopped == IF handle = None THEN listener ELSE [listener EXCEPT ![handle].stop = TRUE]
         old == {handle} \ {None}
     IN IF stage = "up"
        THEN /\ listener' = [stopped EXCEPT ![subs].at = "loop"]
             /\ Unsubscribe(old) /\ UNCHANGED cursor
        ELSE /\ listener' = [stopped EXCEPT ![subs].at = "gone"]
             /\ Unsubscribe(old \union {subs})
             /\ cursor' = [cursor EXCEPT ![subs] = 0]
  /\ UNCHANGED <<log, subs, config, processor, retired, stats, slots, batch, permits, stage,
                 changes, ignored>>

\* remove_stream: first the listener, ...
RemoveStream ==
  /\ call = "none" /\ config # None /\ changes < MaxChanges
  /\ changes' = changes + 1
  /\ call' = "remove"
  /\ handle' = None
  /\ StopListener(handle) /\ Unsubscribe({handle} \ {None})
  /\ UNCHANGED <<log, cursor, subs, config, processor, retired, stats, slots, batch, permits,
                 stage, ignored>>

\* ... then the processor, which is shut down (if that fails the call ends
\* here, and leaves the rest) ...
RemoveProcessor ==
  /\ call = "remove"
  /\ call' = "removeConfig" \/ (processor # None /\ call' = "none")
  /\ processor' = None
  /\ retired' = retired \union ({processor} \ {None})
  /\ UNCHANGED <<busVars, config, stats, handle, taskVars, stage, changes, ignored>>

\* ... and configuration and statistics.
RemoveConfig ==
  /\ call = "removeConfig" /\ call' = "removeStats"
  /\ config' = None
  /\ UNCHANGED <<busVars, processor, retired, stats, handle, taskVars, stage, changes, ignored>>

RemoveStats ==
  /\ call = "removeStats" /\ call' = "none"
  /\ stats' = None
  /\ UNCHANGED <<busVars, config, processor, retired, handle, taskVars, stage, changes, ignored>>

\* enable_stream, disable_stream
SetEnabled ==
  /\ config # None /\ changes < MaxChanges
  /\ changes' = changes + 1
  /\ config' = ~config
  /\ UNCHANGED <<busVars, processor, retired, stats, handle, call, taskVars, stage, ignored>>

-----------------------------------------------------------------------------
(* The listener.                                                           *)

Full(E) == Cardinality(E) >= BatchSize \/ Cardinality(E) >= MaxInFlight

\* A turn of the loop, unless the stream is gone: a full buffer, or one whose
\* oldest event has waited for flush_after, is taken for a batch.
NextTurn(s, due) ==
  LET E == listener[s].buffer IN
  /\ listener' = [listener EXCEPT ![s] =
       IF config = None THEN [@ EXCEPT !.at = "gone"]
       ELSE IF E # {} /\ (Full(E) \/ due) THEN [@ EXCEPT !.at = "slots", !.out = E, !.buffer = {}]
       ELSE [@ EXCEPT !.at = "recv"]]
  /\ IF config = None THEN DropSubscription(s) ELSE UNCHANGED busVars
  /\ UNCHANGED <<streamVars, call, slots, batch, permits, stage, changes, ignored>>

TurnLoop(s) == listener[s].at = "loop" /\ NextTurn(s, FALSE)

HearEvent(s) ==
  /\ listener[s].at = "recv" /\ ~listener[s].stop
  /\ Receive(s)
  /\ LET enabled == config # None /\ config IN
       /\ listener' = [listener EXCEPT ![s].at = "loop",
            ![s].buffer = IF enabled THEN @ \union {cursor[s]} ELSE @]
       /\ ignored' = [ignored EXCEPT ![s] = IF enabled THEN @ ELSE @ + 1]
  /\ UNCHANGED <<log, registry, subs, streamVars, call, slots, batch, permits, stage, changes>>

HearLag(s) ==
  /\ listener[s].at = "recv" /\ ~listener[s].stop
  /\ SkipLost(s)
  /\ stats' = IF stats = None THEN None ELSE [stats EXCEPT !.dropped = @ + Skipped(s)]
  /\ listener' = [listener EXCEPT ![s].at = "loop"]
  /\ UNCHANGED <<log, registry, subs, config, processor, retired, handle, call, slots, batch,
                 permits, stage, changes, ignored>>

\* Mutant: only a full buffer is flushed.
BufferFallsDueNever(s) ==
  /\ listener[s].at = "recv" /\ ~listener[s].stop /\ Full(listener[s].buffer)
  /\ NextTurn(s, TRUE)

\* The flush timer ends the wait for an event.
BufferFallsDue(s) ==
  /\ listener[s].at = "recv" /\ ~listener[s].stop /\ listener[s].buffer # {}
  /\ NextTurn(s, TRUE)

BatchesClosed == stage \in {"draining", "drained", "down"}
Wanted(E) == IF Cardinality(E) < MaxInFlight THEN Cardinality(E) ELSE MaxInFlight
FreeSlots(b) == slots' = [slots EXCEPT ![b[1]] = @ + Wanted(batch[b].events)]

\* When the events fit into flight a batch task is spawned; refused, they are lost.
SpawnBatch(s) ==
  /\ listener[s].at = "slots" /\ ~listener[s].stop
  /\ slots[s] >= Wanted(listener[s].out)
  /\ LET E == listener[s].out IN
       IF BatchesClosed THEN UNCHANGED <<slots, batch>>
       ELSE /\ slots' = [slots EXCEPT ![s] = @ - Wanted(E)]
            /\ batch' = [batch EXCEPT ![<<s, NameOf(E)>>] = NewBatch(E)]
  /\ listener' = [listener EXCEPT ![s].at = "loop", ![s].out = {}]
  /\ UNCHANGED <<busVars, streamVars, call, permits, stage, changes, ignored>>

ListenerEnds(s) ==
  /\ \/ listener[s].stop /\ listener[s].at \in {"recv", "slots"}
     \/ listener[s].abort /\ s \in Running
  /\ listener' = [listener EXCEPT ![s].at = "gone"]
  /\ DropSubscription(s)
  /\ UNCHANGED <<streamVars, call, slots, batch, permits, stage, changes, ignored>>

-----------------------------------------------------------------------------
(* process_event_batch.                                                    *)

Stands(b, place) == b \in Batches /\ batch[b].at = place
Signalled == stage # "up"

\* What is left of the batch once the events in E are counted as failed.
Failing(b, E) == [batch[b] EXCEPT !.failed = @ + Cardinality(E), !.pending = @ \ E]

\* The batch looks up the processor, without which it ends, and serializes its
\* events, any of which may fail.
StartBatch(b) ==
  /\ Stands(b, "start")
  /\ \/ /\ processor = None
        /\ batch' = [batch EXCEPT ![b] = EndedBatch(b, "done")] /\ FreeSlots(b)
     \/ /\ processor # None
        /\ \E E \in SUBSET batch[b].events :
             batch' = [batch EXCEPT ![b] =
               [Failing(b, E) EXCEPT !.at = IF E = batch[b].events THEN "record" ELSE "waiting",
                                     !.by = processor]]
        /\ UNCHANGED slots
  /\ UNCHANGED <<busVars, streamVars, call, listener, permits, stage, changes, ignored>>

SendBatch(b) ==
  /\ Stands(b, "waiting") /\ permits > 0
  /\ permits' = permits - 1
  /\ batch' = [batch EXCEPT ![b].at = "sending", ![b].tries = @ + 1]
  /\ UNCHANGED <<busVars, streamVars, call, listener, slots, stage, changes, ignored>>

\* What an attempt that acknowledges E leaves to do.
Remaining(b, E) == batch[b].pending \ E

\* There is no next attempt: none is needed, none is left, or shutdown has begun.
NoRetry(b, E) == Remaining(b, E) = {} \/ batch[b].tries >= MaxAttempts \/ Signalled

\* Mutant: a retry sends the whole batch again.
AfterAttemptResends(b, E) ==
  [batch[b] EXCEPT
     !.acked = @ \union E, !.ok = @ + Cardinality(E),
     !.pending = IF NoRetry(b, E) THEN {} ELSE @,
     !.failed = IF NoRetry(b, E) THEN @ + Cardinality(Remaining(b, E)) ELSE @,
     !.at = IF NoRetry(b, E) THEN "record" ELSE "backoff"]

\* Events without an acknowledgement are pending again, or have failed.
AfterAttempt(b, E) ==
  [batch[b] EXCEPT
     !.acked = @ \union E, !.ok = @ + Cardinality(E),
     !.pending = IF NoRetry(b, E) THEN {} ELSE Remaining(b, E),
     !.failed = IF NoRetry(b, E) THEN @ + Cardinality(Remaining(b, E)) ELSE @,
     !.at = IF NoRetry(b, E) THEN "record" ELSE "backoff"]

\* send_batch returns.
GetResult(b) ==
  /\ Stands(b, "sending")
  /\ permits' = permits + 1
  /\ \E E \in SUBSET batch[b].pending : batch' = [batch EXCEPT ![b] = AfterAttempt(b, E)]
  /\ UNCHANGED <<busVars, streamVars, call, listener, slots, stage, changes, ignored>>

\* The delay is over before shutdown is noticed ...
BackoffEnds(b) ==
  /\ Stands(b, "backoff")
  /\ batch' = [batch EXCEPT ![b].at = "waiting"]
  /\ UNCHANGED <<busVars, streamVars, call, listener, slots, permits, stage, changes, ignored>>

\* ... or shutdown ends it, and what is pending has failed.
GiveUp(b) ==
  /\ Stands(b, "backoff") /\ Signalled
  /\ batch' = [batch EXCEPT ![b] = [Failing(b, batch[b].pending) EXCEPT !.at = "record"]]
  /\ UNCHANGED <<busVars, streamVars, call, listener, slots, permits, stage, changes, ignored>>

\* record_batch_outcome; the slots are free again.
RecordBatch(b) ==
  /\ Stands(b, "record")
  /\ stats' = IF stats = None THEN None
              ELSE [stats EXCEPT !.ok = @ + batch[b].ok, !.failed = @ + batch[b].failed]
  /\ batch' = [batch EXCEPT ![b] = EndedBatch(b, "done")]
  /\ FreeSlots(b)
  /\ UNCHANGED <<busVars, config, processor, retired, handle, call, listener, permits, stage,
                 changes, ignored>>

\* Mutant: an aborted send keeps its permit.
BatchAbortsWithPermit(b) ==
  /\ b \in Batches \ Ended /\ batch[b].abort
  /\ batch' = [batch EXCEPT ![b] = EndedBatch(b, "aborted")] /\ FreeSlots(b)
  /\ UNCHANGED <<busVars, streamVars, call, listener, permits, stage, changes, ignored>>

BatchAborts(b) ==
  /\ b \in Batches \ Ended /\ batch[b].abort
  /\ permits' = IF Stands(b, "sending") THEN permits + 1 ELSE permits
  /\ batch' = [batch EXCEPT ![b] = EndedBatch(b, "aborted")] /\ FreeSlots(b)
  /\ UNCHANGED <<busVars, streamVars, call, listener, stage, changes, ignored>>

-----------------------------------------------------------------------------
(* shutdown.                                                               *)

\* The signal to the batches; the listeners' tracker is closed and aborted.
ShutdownBegins ==
  /\ stage = "up" /\ stage' = "closed"
  /\ listener' = [s \in Subs |-> [listener[s] EXCEPT !.abort = s \in Running]]
  /\ UNCHANGED <<busVars, streamVars, call, slots, batch, permits, changes, ignored>>

ShutdownDropsHandle ==
  /\ stage = "closed" /\ stage' = "draining"
  /\ handle' = None
  /\ StopListener(handle) /\ Unsubscribe({handle} \ {None})
  /\ UNCHANGED <<log, cursor, subs, config, processor, retired, stats, call, slots, batch, permits,
                 changes, ignored>>

\* Mutant: the batches still running after the grace period are left alone.
ShutdownDrainsOnly ==
  /\ stage = "draining" /\ stage' = "drained"
  /\ UNCHANGED <<busVars, streamVars, call, listener, slots, batch, permits, changes, ignored>>

\* All batches have ended, or the grace period is over and they are aborted.
ShutdownDrains ==
  /\ stage = "draining" /\ stage' = "drained"
  /\ batch' = [b \in Names |->
       IF b \in Batches \ Ended THEN [batch[b] EXCEPT !.abort = TRUE] ELSE batch[b]]
  /\ UNCHANGED <<busVars, streamVars, call, listener, slots, permits, changes, ignored>>

ShutdownProcessors ==
  /\ stage = "drained" /\ stage' = "down"
  /\ processor' = None
  /\ retired' = retired \union ({processor} \ {None})
  /\ UNCHANGED <<busVars, config, stats, handle, call, taskVars, changes, ignored>>

-----------------------------------------------------------------------------
Publish ==
  /\ \E kind \in Kinds : PublishEvent(kind)
  /\ UNCHANGED <<streamVars, call, taskVars, stage, changes, ignored>>

Init ==
  /\ BusInit
  /\ config = None /\ processor = None /\ retired = {} /\ stats = None /\ handle = None
  /\ call = "none"
  /\ listener = [s \in Subs |-> NoListener]
  /\ slots = [s \in Subs |-> MaxInFlight]
  /\ batch = [b \in Names |-> None]
  /\ permits = MaxConcurrent
  /\ stage = "up" /\ changes = 0
  /\ ignored = [s \in Subs |-> 0]

ListenerStep(s) ==
  TurnLoop(s) \/ HearEvent(s) \/ HearLag(s) \/ BufferFallsDue(s) \/ SpawnBatch(s) \/ ListenerEnds(s)

BatchStep(b) ==
  StartBatch(b) \/ SendBatch(b) \/ GetResult(b) \/ BackoffEnds(b) \/ GiveUp(b) \/ RecordBatch(b)
    \/ BatchAborts(b)

SystemStep ==
  \/ AddConfig \/ AddProcessor \/ AddStats \/ AddHandle
  \/ RemoveProcessor \/ RemoveConfig \/ RemoveStats
  \/ \E s \in Subs : ListenerStep(s)
  \/ \E b \in Names : BatchStep(b)
  \/ ShutdownDropsHandle \/ ShutdownDrains \/ ShutdownProcessors

Next ==
  \/ AddStream \/ RemoveStream \/ SetEnabled \/ Publish \/ ShutdownBegins
  \/ SystemStep

Spec == Init /\ [][Next]_vars

\* The runtime runs some task that can run; sends and delays end.  No order
\* among the tasks is assumed.
FairSpec == Spec /\ WF_vars(SystemStep)

-----------------------------------------------------------------------------
(* Properties.                                                             *)

\* The events in some batches, each with its batch.
EventsIn(B) == {p \in B \X Events : p[2] \in batch[p[1]].events}

\* The bus is well typed; at most MaxInFlight events of a listener are in
\* batches, and slots and permits are given back however a batch ends.
BacklogIsBounded ==
  /\ BusTypeOK
  /\ permits + Cardinality({b \in Batches : batch[b].at = "sending"}) = MaxConcurrent
  /\ \A s \in Subs :
       slots[s] + Cardinality(EventsIn({b \in Batches \ Ended : b[1] = s})) = MaxInFlight

\* While the stream has been added once and not removed, every event since
\* then is unread, dropped and counted, ignored, buffered, or in exactly one
\* batch, and what is counted as delivered has been acknowledged once.
EventsAccountedFor ==
  subs = 1 /\ stats # None /\ 1 \in Running /\ call = "none" /\ stage = "up" =>
    LET recorded == {b \in Ended : batch[b].by # None} IN
    /\ Unread(1) + stats.dropped + ignored[1] + Cardinality(listener[1].buffer)
         + Cardinality(listener[1].out)
         + Cardinality(EventsIn(Batches)) = Len(log)
    /\ stats.ok = Cardinality(UNION {batch[b].acked : b \in recorded})
    /\ stats.ok + stats.failed = Cardinality(UNION {batch[b].events : b \in recorded})

\* The backend is shut down only when no batch is left that could still use
\* it, except one that has been aborted.  (remove_stream does not wait.)
BackendShutDownLast ==
  changes = 0 => \A b \in Batches \ Ended : batch[b].by \in retired => batch[b].abort

\* Events do not stay in a buffer: it is emptied into a batch, full or not,
\* or the listener ends.
BufferIsFlushed ==
  \A s \in Subs : listener[s].buffer # {} ~> listener[s].buffer = {} \/ s \notin Running

\* shutdown promises that no batch starts another retry after it has begun.
NoRetryAfterShutdown ==
  [][\A b \in Batches :
       Signalled /\ batch[b].at = "waiting" /\ batch[b].tries > 0 => batch'[b].at # "sending"]_vars
=============================================================================
