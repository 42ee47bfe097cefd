---------------------------- MODULE StreamsProofs ----------------------------
(***************************************************************************)
(* Proofs about one stream of the stream manager: its listener never has   *)
(* more events in flight than it may, the permits come back however a      *)
(* batch ends, every event is accounted for, and the backend is shut down  *)
(* last; for every number of subscriptions, events, permits and attempts   *)
(* and every size of batches and buffers.                                  *)
(***************************************************************************)
EXTENDS Streams, FiniteSetTheorems, TLAPS

-----------------------------------------------------------------------------
(* The inductive invariants.                                               *)

Places == {"none", "loop", "recv", "slots", "gone"}
Listeners == [at : Places, buffer : SUBSET Events, out : SUBSET Events, stop : BOOLEAN,
              abort : BOOLEAN]

AddCalls == {"config", "processor", "stats", "handle"}
RemoveCalls == {"remove", "removeConfig", "removeStats"}
Calls == AddCalls \union RemoveCalls \union {"none"}

\* What the variables hold.
TypeOK ==
  /\ BusTypeOK
  /\ config \in BOOLEAN \union {None}
  /\ processor \in Subs \union {None}
  /\ retired \in SUBSET Subs
  /\ stats \in Counters \union {None}
  /\ handle \in Subs \union {None}
  /\ call \in Calls
  /\ listener \in [Subs -> Listeners]
  /\ slots \in [Subs -> Nat]
  /\ batch \in [Names -> Tasks \union {None}]
  /\ permits \in Nat
  /\ stage \in {"up", "closed", "draining", "drained", "down"}
  /\ changes \in Nat
  /\ ignored \in [Subs -> Nat]

\* An add owns its subscription, which has no listener yet.
AddOwnsIts ==
  call \in AddCalls =>
    subs \in Subs /\ listener[subs].at = "none" /\ cursor[subs] = ignored[subs] + 1

\* A listener never has more events than fit into flight, and none in its
\* buffer while it waits with some for their slots.
Calm(r) ==
  /\ Cardinality(r.buffer) <= MaxInFlight /\ Cardinality(r.out) <= MaxInFlight
  /\ r.at = "none" => r.buffer = {}
  /\ r.at \in {"none", "loop", "recv"} => r.out = {}
  /\ r.at = "recv" => ~Full(r.buffer)
  /\ r.at = "slots" => r.buffer = {} /\ r.out # {}

IsEnded(r) == r.at \in {"done", "aborted"}

\* What a batch has yet to send, has been acknowledged and has counted.
Sound(b, r) ==
  /\ b[2] \in r.events /\ r.acked \subseteq r.events /\ Cardinality(r.events) <= MaxInFlight
  /\ ~IsEnded(r) =>
       /\ r.pending \subseteq r.events \ r.acked /\ r.ok = Cardinality(r.acked)
       /\ r.failed + Cardinality(r.pending) = Cardinality(r.events \ r.acked)
  /\ r.at = "start" => r.pending = r.events /\ r.by = None
  /\ r.at \in {"waiting", "sending", "backoff", "record"} => r.by # None
  /\ r.at = "record" => r.failed = Cardinality(r.events \ r.acked)

BatchesSound == \A b \in Batches : Sound(b, batch[b])

\* No event is in two batches of one listener.
Apart ==
  \A b, c \in Batches : b[1] = c[1] /\ b # c => batch[b].events \intersect batch[c].events = {}

\* No receiver is ahead of the bus and no batch ahead of its receiver; what a
\* listener holds is in no batch.
Follows(s) ==
  /\ cursor[s] <= Len(log) + 1
  /\ s > subs => listener[s].at = "none"
  /\ listener[s].at = "none" => \A b \in Batches : b[1] # s
  /\ s \in Running =>
       /\ \A e \in listener[s].buffer \union listener[s].out : e < cursor[s]
       /\ \A b \in Batches : b[1] = s =>
            \A e \in batch[b].events :
              e < cursor[s] /\ e \notin listener[s].buffer /\ e \notin listener[s].out

StreamInv ==
  /\ TypeOK /\ AddOwnsIts
  /\ \A s \in Subs : Calm(listener[s])
  /\ BatchesSound /\ Apart
  /\ \A s \in Subs : Follows(s)

\* Permits and slots are held by batches.
OpenOf(s) == {b \in Batches \ Ended : b[1] = s}
SendingSet == {b \in Batches : batch[b].at = "sending"}
BacklogInv ==
  /\ permits + Cardinality(SendingSet) = MaxConcurrent
  /\ \A s \in Subs : slots[s] + Cardinality(EventsIn(OpenOf(s))) = MaxInFlight

\* Aborts come with the end of shutdown, and the backend goes after them.
LastInv ==
  /\ call \in RemoveCalls => changes > 0
  /\ stage \in {"up", "closed", "draining"} => \A b \in Batches \ Ended : ~batch[b].abort
  /\ stage \in {"drained", "down"} => \A b \in Batches \ Ended : batch[b].abort
  /\ changes = 0 /\ stage # "down" => retired = {}

\* The equations of EventsAccountedFor, as long as they hold.
Recorded == {b \in Ended : batch[b].by # None}
AckedOf(B) == UNION {batch[b].acked : b \in B}
EventsOf(B) == UNION {batch[b].events : b \in B}
Balanced ==
  Unread(1) + stats.dropped + ignored[1] + Cardinality(listener[1].buffer)
    + Cardinality(listener[1].out) + Cardinality(EventsIn(Batches)) = Len(log)
Tallied ==
  /\ stats.ok = Cardinality(AckedOf(Recorded))
  /\ stats.ok + stats.failed = Cardinality(EventsOf(Recorded))
Counting == subs = 1 /\ stats # None /\ stage = "up"
AccountInv ==
  /\ subs = 0 => stats = None
  /\ Counting => /\ listener[1].at = "none" => stats = NewStats
                 /\ 1 \in Running => Balanced
                 /\ Tallied

-----------------------------------------------------------------------------
(* What the steps of batches do.                                           *)

LEMMA Constants ==
  /\ BatchSize \in Nat \ {0} /\ MaxInFlight \in Nat \ {0} /\ MaxConcurrent \in Nat \ {0}
  /\ MaxAttempts \in Nat \ {0}
  /\ Buffer \in Nat \ {0} /\ MaxEvents \in Nat /\ MaxSubs \in Nat \ {0}
  /\ Subs \subseteq Nat \ {0} /\ Events \subseteq Nat \ {0} /\ 1 \in Subs
  /\ None \notin BOOLEAN /\ None \notin Counters /\ None \notin Tasks /\ None \notin Subs
BY EventBusAssumptions, StreamsAssumptions DEF Subs, Events

\* Events can be counted.
LEMMA Finite ==
  /\ IsFiniteSet(Events)
  /\ \A E \in SUBSET Events : IsFiniteSet(E) /\ Cardinality(E) \in Nat
<1>1. IsFiniteSet(Events)
  BY Constants, FS_Interval DEF Events
<1>2. \A E \in SUBSET Events : IsFiniteSet(E)
  BY <1>1, FS_Subset
<1> QED BY <1>1, <1>2, FS_CardinalityType

\* The fields of a batch task.
LEMMA BatchFacts ==
  ASSUME TypeOK, NEW b \in Batches
  PROVE  /\ b \in Names /\ batch[b] \in Tasks
         /\ b[1] \in Subs /\ b[2] \in Events /\ b = <<b[1], b[2]>>
         /\ batch[b].events \in SUBSET Events /\ batch[b].pending \in SUBSET Events
         /\ batch[b].acked \in SUBSET Events /\ batch[b].tries \in Nat /\ batch[b].ok \in Nat
         /\ batch[b].failed \in Nat /\ batch[b].by \in Subs \union {None}
         /\ batch[b].abort \in BOOLEAN
         /\ batch[b].at \in
              {"start", "waiting", "sending", "backoff", "record", "done", "aborted"}
<1>1. b \in Names /\ batch[b] \in Tasks
  BY DEF TypeOK, Batches
<1>2. b[1] \in Subs /\ b[2] \in Events /\ b = <<b[1], b[2]>>
  BY <1>1 DEF Names
<1> QED BY <1>1, <1>2 DEF Tasks

\* The batch of an open task takes the step to r; what else it changes.
Counted(b, r) ==
  \/ ~IsEnded(r) /\ stats' = stats
  \/ r.at = "done" /\ r.by = None /\ stats' = stats
  \/ r.at = "aborted" /\ batch[b].abort /\ stats' = stats
  \/ /\ r.at = "done" /\ r.by # None
     /\ stats' = IF stats = None THEN None
                 ELSE [stats EXCEPT !.ok = @ + Cardinality(r.acked),
                                    !.failed = @ + Cardinality(r.events \ r.acked)]

Moves(b, r) ==
  /\ b \in Batches \ Ended /\ r \in Tasks
  /\ batch' = [batch EXCEPT ![b] = r]
  /\ Sound(b, r) /\ r.events = batch[b].events
  /\ ~IsEnded(r) => r.abort = batch[b].abort
  /\ slots' = IF IsEnded(r)
                THEN [slots EXCEPT ![b[1]] = @ + Cardinality(batch[b].events)] ELSE slots
  /\ permits' \in Nat
  /\ permits' + (IF r.at = "sending" THEN 1 ELSE 0)
       = permits + (IF batch[b].at = "sending" THEN 1 ELSE 0)
  /\ Counted(b, r)
  /\ UNCHANGED <<busVars, config, processor, retired, handle, call, listener, stage, changes,
                 ignored>>

\* An open batch takes as many slots as it has events.
LEMMA WantsAll ==
  ASSUME NEW E, Cardinality(E) \in Nat, Cardinality(E) <= MaxInFlight
  PROVE  Wanted(E) = Cardinality(E)
BY Constants DEF Wanted

\* The record of a batch that ends.
LEMMA EndedIs ==
  ASSUME TypeOK, BatchesSound, NEW b \in Batches, NEW how \in {"done", "aborted"}
  PROVE  LET r == EndedBatch(b, how) IN
         /\ r \in Tasks /\ r.at = how /\ IsEnded(r) /\ r.events = batch[b].events
         /\ r.acked = batch[b].acked /\ r.by = batch[b].by /\ Sound(b, r)
<1> DEFINE r == EndedBatch(b, how)
<1> DEFINE n == NewBatch(batch[b].events)
<1>1. /\ batch[b].events \in SUBSET Events /\ batch[b].acked \in SUBSET Events
      /\ batch[b].by \in Subs \union {None}
  BY BatchFacts
<1>2. n \in Tasks /\ n.events = batch[b].events
  BY <1>1 DEF NewBatch, Tasks
<1>3. /\ r \in Tasks /\ r.at = how /\ r.events = batch[b].events /\ r.acked = batch[b].acked
      /\ r.by = batch[b].by
  <2>1. r = [n EXCEPT !.at = how, !.acked = batch[b].acked, !.by = batch[b].by]
    BY DEF EndedBatch
  <2> HIDE DEF n, r
  <2> QED BY <1>1, <1>2, <2>1 DEF Tasks
<1>4. Sound(b, batch[b])
  BY DEF BatchesSound
<1> HIDE DEF r
<1>5. Sound(b, r)
  BY <1>3, <1>4 DEF Sound, IsEnded
<1> QED BY <1>3, <1>5 DEF IsEnded, r

\* A batch that ends gives its slots back.
LEMMA EndingMoves ==
  ASSUME TypeOK, BatchesSound, NEW b \in Batches \ Ended, NEW how \in {"done", "aborted"},
         batch' = [batch EXCEPT ![b] = EndedBatch(b, how)], FreeSlots(b),
         permits' \in Nat, permits' = permits + (IF batch[b].at = "sending" THEN 1 ELSE 0),
         Counted(b, EndedBatch(b, how)),
         UNCHANGED <<busVars, config, processor, retired, handle, call, listener, stage, changes,
                     ignored>>
  PROVE  Moves(b, EndedBatch(b, how))
<1> DEFINE r == EndedBatch(b, how)
<1>1. /\ r \in Tasks /\ r.at = how /\ IsEnded(r) /\ r.events = batch[b].events
      /\ r.acked = batch[b].acked /\ r.by = batch[b].by /\ Sound(b, r)
  BY EndedIs
<1>2. batch[b].events \in SUBSET Events
  BY BatchFacts
<1>3. Wanted(batch[b].events) = Cardinality(batch[b].events)
  BY <1>1, <1>2, Finite, WantsAll DEF Sound
<1>4. slots' = [slots EXCEPT ![b[1]] = @ + Cardinality(batch[b].events)]
  BY <1>3 DEF FreeSlots
<1>5. Counted(b, r) /\ batch' = [batch EXCEPT ![b] = r]
  OBVIOUS
<1>6. permits \in Nat
  BY DEF TypeOK
<1> HIDE DEF r
<1>7. permits' + (IF r.at = "sending" THEN 1 ELSE 0)
        = permits + (IF batch[b].at = "sending" THEN 1 ELSE 0)
  BY <1>1, <1>6
<1>8. Moves(b, r)
  BY <1>1, <1>4, <1>5, <1>7 DEF Moves
<1> QED BY <1>8 DEF r

\* A batch that goes on keeps its slots.
LEMMA GoingOnMoves ==
  ASSUME TypeOK, NEW b \in Batches \ Ended, NEW r \in Tasks,
         batch' = [batch EXCEPT ![b] = r], Sound(b, r), ~IsEnded(r),
         r.events = batch[b].events, r.abort = batch[b].abort, permits' \in Nat,
         permits' + (IF r.at = "sending" THEN 1 ELSE 0)
           = permits + (IF batch[b].at = "sending" THEN 1 ELSE 0),
         UNCHANGED <<busVars, streamVars, call, listener, slots, stage, changes, ignored>>
  PROVE  Moves(b, r)
BY DEF Moves, Counted, streamVars

\* Taking events away.
LEMMA TakeAway ==
  ASSUME NEW A \in SUBSET Events, NEW E \in SUBSET A
  PROVE  /\ Cardinality(A) \in Nat /\ Cardinality(E) \in Nat /\ Cardinality(A \ E) \in Nat
         /\ Cardinality(A \ E) = Cardinality(A) - Cardinality(E)
<1>1. IsFiniteSet(A) /\ A \ E \in SUBSET Events /\ E \in SUBSET Events
  BY Finite
<1>2. Cardinality(A \ E) = Cardinality(A) - Cardinality(A \intersect E)
  BY <1>1, FS_Difference
<1>3. A \intersect E = E
  OBVIOUS
<1> QED BY <1>1, <1>2, <1>3, Finite

\* With nothing pending, what was not acknowledged has failed.
LEMMA NothingPending ==
  ASSUME NEW r \in Tasks, r.pending = {},
         r.failed + Cardinality(r.pending) = Cardinality(r.events \ r.acked)
  PROVE  r.failed = Cardinality(r.events \ r.acked)
<1>1. Cardinality(r.pending) = 0 /\ r.failed \in Nat
  BY FS_EmptySet DEF Tasks
<1>2. PICK n \in Nat : n = r.failed
  BY <1>1
<1>3. n + 0 = Cardinality(r.events \ r.acked)
  BY <1>1, <1>2
<1> QED BY <1>2, <1>3

\* Events that fail are counted and no longer pending.
LEMMA FailingIs ==
  ASSUME TypeOK, BatchesSound, NEW b \in Batches \ Ended, NEW E \in SUBSET batch[b].pending,
         NEW f, f = Failing(b, E)
  PROVE  /\ f \in Tasks /\ f.events = batch[b].events /\ f.acked = batch[b].acked
         /\ f.ok = batch[b].ok /\ f.abort = batch[b].abort /\ f.by = batch[b].by
         /\ f.pending = batch[b].pending \ E
         /\ f.failed + Cardinality(f.pending) = Cardinality(f.events \ f.acked)
<1>1. /\ batch[b] \in Tasks /\ batch[b].pending \in SUBSET Events /\ batch[b].failed \in Nat
      /\ batch[b].events \in SUBSET Events /\ Sound(b, batch[b])
  BY BatchFacts DEF BatchesSound
<1>2. /\ Cardinality(E) \in Nat /\ Cardinality(batch[b].pending) \in Nat
      /\ Cardinality(batch[b].pending \ E) = Cardinality(batch[b].pending) - Cardinality(E)
  BY <1>1, TakeAway
<1>3. PICK n \in Nat : n = batch[b].failed + Cardinality(E)
  BY <1>1, <1>2
<1>4. f = [batch[b] EXCEPT !.failed = n, !.pending = batch[b].pending \ E]
  BY <1>1, <1>3 DEF Failing, Tasks
<1>5. /\ f \in Tasks /\ f.events = batch[b].events /\ f.acked = batch[b].acked
      /\ f.ok = batch[b].ok /\ f.abort = batch[b].abort /\ f.by = batch[b].by
      /\ f.pending = batch[b].pending \ E /\ f.failed = n
  BY <1>1, <1>4 DEF Tasks
<1>6. batch[b].failed + Cardinality(batch[b].pending)
        = Cardinality(batch[b].events \ batch[b].acked)
  BY <1>1 DEF Sound, IsEnded, Ended
<1>7. PICK e \in Nat, p \in Nat, d \in Nat :
        /\ e = Cardinality(E) /\ p = Cardinality(batch[b].pending) /\ d = batch[b].failed
        /\ Cardinality(f.pending) = p - e /\ n = d + e
        /\ d + p = Cardinality(f.events \ f.acked)
  BY <1>1, <1>2, <1>3, <1>5, <1>6
<1>8. n + (p - e) = d + p
  BY <1>7
<1>9. f.failed + Cardinality(f.pending) = Cardinality(f.events \ f.acked)
  BY <1>5, <1>7, <1>8
<1> QED BY <1>5, <1>9

LEMMA StartMoves ==
  ASSUME TypeOK, BatchesSound, NEW b \in Names, StartBatch(b)
  PROVE  \E r \in Tasks : Moves(b, r)
<1>1. b \in Batches \ Ended /\ batch[b].at = "start"
  BY DEF StartBatch, Stands, Ended
<1>2. /\ batch[b] \in Tasks /\ batch[b].events \in SUBSET Events /\ batch[b].abort \in BOOLEAN
      /\ batch[b].acked \in SUBSET Events
  BY <1>1, BatchFacts
<1>3. Sound(b, batch[b])
  BY <1>1 DEF BatchesSound
<1>4. UNCHANGED <<busVars, streamVars, call, listener, permits, stage, changes, ignored>>
  BY DEF StartBatch
<1>5. permits \in Nat /\ permits' = permits /\ processor \in Subs \union {None}
  BY <1>4 DEF TypeOK
<1>6. CASE processor = None /\ batch' = [batch EXCEPT ![b] = EndedBatch(b, "done")] /\ FreeSlots(b)
  <2> DEFINE r == EndedBatch(b, "done")
  <2>1. r \in Tasks /\ r.at = "done" /\ r.by = batch[b].by
    BY <1>1, EndedIs
  <2>2. r.by = None
    BY <1>1, <1>3, <2>1 DEF Sound
  <2>3. Counted(b, r)
    BY <1>4, <2>1, <2>2 DEF Counted, streamVars
  <2>4. permits' = permits + (IF batch[b].at = "sending" THEN 1 ELSE 0)
    BY <1>1, <1>5
  <2>5. Moves(b, r)
    BY <1>1, <1>4, <1>5, <1>6, <2>3, <2>4, EndingMoves DEF streamVars
  <2> QED BY <2>1, <2>5
<1>7. ASSUME NEW E \in SUBSET batch[b].events, processor # None,
             batch' = [batch EXCEPT ![b] =
               [Failing(b, E) EXCEPT !.at = IF E = batch[b].events THEN "record" ELSE "waiting",
                                     !.by = processor]],
             UNCHANGED slots
      PROVE  \E r \in Tasks : Moves(b, r)
  <2> DEFINE f == Failing(b, E)
             place == IF E = batch[b].events THEN "record" ELSE "waiting"
             r == [f EXCEPT !.at = place, !.by = processor]
  <2>1. batch[b].pending = batch[b].events /\ E \in SUBSET batch[b].pending
    BY <1>1, <1>3, <1>7 DEF Sound
  <2>2. /\ f \in Tasks /\ f.events = batch[b].events /\ f.acked = batch[b].acked
        /\ f.ok = batch[b].ok /\ f.abort = batch[b].abort /\ f.pending = batch[b].pending \ E
        /\ f.failed + Cardinality(f.pending) = Cardinality(f.events \ f.acked)
    <3>1. f = Failing(b, E)
      OBVIOUS
    <3> HIDE DEF f
    <3> QED BY <1>1, <2>1, <3>1, FailingIs
  <2>3. place \in {"record", "waiting"} /\ (place = "record" => E = batch[b].events)
    OBVIOUS
  <2>4. batch' = [batch EXCEPT ![b] = r]
    BY <1>7
  <2> HIDE DEF f, place
  <2>5. /\ r \in Tasks /\ r.at = place /\ r.by = processor /\ r.failed = f.failed
        /\ r.events = batch[b].events /\ r.acked = batch[b].acked
        /\ r.pending = f.pending /\ r.ok = batch[b].ok /\ r.abort = batch[b].abort
    BY <1>5, <2>2, <2>3 DEF Tasks
  <2> HIDE DEF r
  <2>6. r.failed + Cardinality(r.pending) = Cardinality(r.events \ r.acked)
    BY <2>2, <2>5
  <2>7. r.pending \subseteq r.events \ r.acked /\ r.ok = Cardinality(r.acked)
    BY <1>1, <1>3, <2>2, <2>5 DEF Sound, IsEnded
  <2>8. r.at = "record" => r.failed = Cardinality(r.events \ r.acked)
    <3> HAVE r.at = "record"
    <3>1. r.pending = {}
      BY <2>1, <2>2, <2>3, <2>5
    <3> QED BY <2>5, <2>6, <3>1, NothingPending
  <2>9. Sound(b, r) /\ ~IsEnded(r)
    BY <1>3, <1>7, <2>3, <2>5, <2>6, <2>7, <2>8 DEF Sound, IsEnded
  <2>10. permits' + (IF r.at = "sending" THEN 1 ELSE 0)
           = permits + (IF batch[b].at = "sending" THEN 1 ELSE 0)
    BY <1>1, <1>5, <2>3, <2>5
  <2>11. Moves(b, r)
    BY <1>1, <1>4, <1>5, <1>7, <2>4, <2>5, <2>9, <2>10, GoingOnMoves
  <2> QED BY <2>5, <2>11
<1> QED BY <1>6, <1>7 DEF StartBatch

LEMMA SendMoves ==
  ASSUME TypeOK, BatchesSound, NEW b \in Names, SendBatch(b)
  PROVE  \E r \in Tasks : Moves(b, r)
<1>1. b \in Batches \ Ended /\ batch[b].at = "waiting"
  BY DEF SendBatch, Stands, Ended
<1>2. batch[b] \in Tasks /\ batch[b].tries \in Nat /\ Sound(b, batch[b])
  BY <1>1, BatchFacts DEF BatchesSound
<1>3. /\ permits > 0 /\ permits' = permits - 1 /\ permits \in Nat
      /\ UNCHANGED <<busVars, streamVars, call, listener, slots, stage, changes, ignored>>
      /\ batch' = [batch EXCEPT ![b].at = "sending", ![b].tries = @ + 1]
  BY DEF SendBatch, TypeOK
<1>4. PICK n \in Nat : n = batch[b].tries + 1
  BY <1>2
<1> DEFINE r == [batch[b] EXCEPT !.at = "sending", !.tries = n]
<1>5. batch' = [batch EXCEPT ![b] = r]
  BY <1>1, <1>3, <1>4 DEF TypeOK, Batches
<1>6. /\ r \in Tasks /\ r.at = "sending" /\ r.by = batch[b].by /\ r.failed = batch[b].failed
      /\ r.events = batch[b].events /\ r.acked = batch[b].acked
      /\ r.pending = batch[b].pending /\ r.ok = batch[b].ok /\ r.abort = batch[b].abort
  BY <1>2 DEF Tasks
<1> HIDE DEF r
<1>7. Sound(b, r) /\ ~IsEnded(r)
  BY <1>1, <1>2, <1>6 DEF Sound, IsEnded
<1>8. /\ permits' + (IF r.at = "sending" THEN 1 ELSE 0)
           = permits + (IF batch[b].at = "sending" THEN 1 ELSE 0)
      /\ permits' \in Nat
  BY <1>1, <1>3, <1>6
<1>9. Moves(b, r)
  BY <1>1, <1>3, <1>5, <1>6, <1>7, <1>8, GoingOnMoves
<1> QED BY <1>6, <1>9

LEMMA ResultMoves ==
  ASSUME TypeOK, BatchesSound, NEW b \in Names, GetResult(b)
  PROVE  \E r \in Tasks : Moves(b, r)
<1>1. b \in Batches \ Ended /\ batch[b].at = "sending"
  BY DEF GetResult, Stands, Ended
<1>2. /\ batch[b] \in Tasks /\ batch[b].tries \in Nat /\ Sound(b, batch[b])
      /\ batch[b].events \in SUBSET Events /\ batch[b].acked \in SUBSET Events
      /\ batch[b].pending \in SUBSET Events /\ batch[b].ok \in Nat
      /\ batch[b].failed \in Nat
  BY <1>1, BatchFacts DEF BatchesSound
<1>3. PICK E \in SUBSET batch[b].pending : batch' = [batch EXCEPT ![b] = AfterAttempt(b, E)]
  BY DEF GetResult
<1>4. /\ permits' = permits + 1 /\ permits \in Nat
      /\ UNCHANGED <<busVars, streamVars, call, listener, slots, stage, changes, ignored>>
  BY DEF GetResult, TypeOK
<1> DEFINE left == batch[b].pending \ E
           acked == batch[b].acked \union E
           last == NoRetry(b, E)
           kept == IF last THEN {} ELSE left
           failed == IF last THEN batch[b].failed + Cardinality(left) ELSE batch[b].failed
           place == IF last THEN "record" ELSE "backoff"
           ok == batch[b].ok + Cardinality(E)
           r == [batch[b] EXCEPT !.acked = acked, !.ok = ok, !.pending = kept, !.failed = failed,
                                 !.at = place]
<1>5. AfterAttempt(b, E) = r
  BY DEF AfterAttempt, Remaining
<1>6. /\ batch[b].pending \subseteq batch[b].events \ batch[b].acked
      /\ batch[b].ok = Cardinality(batch[b].acked) /\ batch[b].acked \subseteq batch[b].events
      /\ batch[b].failed + Cardinality(batch[b].pending)
           = Cardinality(batch[b].events \ batch[b].acked)
  BY <1>1, <1>2 DEF Sound, IsEnded
<1>7. /\ left \in SUBSET Events /\ acked \in SUBSET Events /\ E \in SUBSET Events
      /\ left \subseteq batch[b].events \ acked /\ acked \subseteq batch[b].events
      /\ batch[b].acked \intersect E = {}
      /\ batch[b].events \ acked = (batch[b].events \ batch[b].acked) \ E
      /\ E \in SUBSET (batch[b].events \ batch[b].acked)
      /\ batch[b].events \ batch[b].acked \in SUBSET Events
  BY <1>2, <1>6
<1>8. Cardinality(acked) = ok /\ ok \in Nat
  <2>1. IsFiniteSet(batch[b].acked) /\ IsFiniteSet(E)
    BY <1>2, <1>7, Finite
  <2>2. Cardinality(acked)
          = Cardinality(batch[b].acked) + Cardinality(E) - Cardinality(batch[b].acked \intersect E)
    BY <2>1, FS_Union
  <2>3. Cardinality(batch[b].acked \intersect E) = 0
    BY <1>7, FS_EmptySet
  <2>4. Cardinality(E) \in Nat /\ Cardinality(batch[b].acked) \in Nat
    BY <1>2, <1>7, Finite
  <2> QED BY <1>6, <2>2, <2>3, <2>4
<1>9. PICK d \in Nat, l \in Nat :
        /\ d = batch[b].failed /\ l = Cardinality(left)
        /\ d + l = Cardinality(batch[b].events \ acked)
  <2> DEFINE open == batch[b].events \ batch[b].acked
  <2>1. /\ Cardinality(E) \in Nat /\ Cardinality(batch[b].pending) \in Nat
        /\ Cardinality(left) \in Nat
        /\ Cardinality(left) = Cardinality(batch[b].pending) - Cardinality(E)
    BY <1>2, TakeAway
  <2>2. Cardinality(open \ E) = Cardinality(open) - Cardinality(E)
    BY <1>7, TakeAway
  <2>3. PICK e \in Nat, p \in Nat, d \in Nat, l \in Nat :
          /\ e = Cardinality(E) /\ p = Cardinality(batch[b].pending) /\ d = batch[b].failed
          /\ l = Cardinality(left) /\ l = p - e /\ Cardinality(open) = d + p
    BY <1>2, <1>6, <2>1
  <2>4. d + l = (d + p) - e
    BY <2>3
  <2> QED BY <1>7, <2>2, <2>3, <2>4
<1>10. /\ failed \in Nat /\ kept \in SUBSET Events /\ kept \subseteq left
       /\ last => failed = d + l /\ kept = {}
       /\ ~last => failed = d /\ kept = left
  BY <1>7, <1>9
<1>11. place \in {"record", "backoff"} /\ (place = "record" <=> last)
  OBVIOUS
<1> HIDE DEF left, acked, last, kept, failed, place, ok
<1>12. /\ r \in Tasks /\ r.at = place /\ r.by = batch[b].by /\ r.failed = failed
       /\ r.events = batch[b].events /\ r.acked = acked
       /\ r.pending = kept /\ r.ok = ok /\ r.abort = batch[b].abort
  BY <1>2, <1>7, <1>8, <1>10, <1>11 DEF Tasks
<1>13. batch' = [batch EXCEPT ![b] = r]
  BY <1>3, <1>5
<1> HIDE DEF r
<1>14. Sound(b, r) /\ ~IsEnded(r)
  <2>1. /\ r.pending \subseteq r.events \ r.acked /\ r.ok = Cardinality(r.acked)
        /\ r.acked \subseteq r.events
    BY <1>7, <1>8, <1>10, <1>12
  <2>2. CASE last
    <3>1. Cardinality(r.pending) = 0
      BY <1>10, <1>12, <2>2, FS_EmptySet
    <3>2. r.failed = d + l /\ Cardinality(r.events \ r.acked) = d + l
      BY <1>9, <1>10, <1>12, <2>2
    <3>3. r.failed + Cardinality(r.pending) = Cardinality(r.events \ r.acked)
      BY <1>9, <3>1, <3>2
    <3> QED BY <1>1, <1>2, <1>11, <1>12, <2>1, <3>2, <3>3 DEF Sound, IsEnded
  <2>3. CASE ~last
    <3>1. r.failed + Cardinality(r.pending) = Cardinality(r.events \ r.acked)
      BY <1>9, <1>10, <1>12, <2>3
    <3> QED BY <1>1, <1>2, <1>11, <1>12, <2>1, <2>3, <3>1 DEF Sound, IsEnded
  <2> QED BY <2>2, <2>3
<1>15. /\ permits' + (IF r.at = "sending" THEN 1 ELSE 0)
            = permits + (IF batch[b].at = "sending" THEN 1 ELSE 0)
       /\ permits' \in Nat
  BY <1>1, <1>4, <1>11, <1>12
<1>16. Moves(b, r)
  BY <1>1, <1>4, <1>12, <1>13, <1>14, <1>15, GoingOnMoves
<1> QED BY <1>12, <1>16

LEMMA DelayMoves ==
  ASSUME TypeOK, BatchesSound, NEW b \in Names, BackoffEnds(b) \/ GiveUp(b)
  PROVE  \E r \in Tasks : Moves(b, r)
<1>1. b \in Batches \ Ended /\ batch[b].at = "backoff"
  BY DEF BackoffEnds, GiveUp, Stands, Ended
<1>2. /\ batch[b] \in Tasks /\ Sound(b, batch[b]) /\ batch[b].failed \in Nat
      /\ batch[b].pending \in SUBSET Events
  BY <1>1, BatchFacts DEF BatchesSound
<1>3. /\ permits' = permits /\ permits \in Nat
      /\ UNCHANGED <<busVars, streamVars, call, listener, slots, stage, changes, ignored>>
  BY DEF BackoffEnds, GiveUp, TypeOK
<1>4. PICK place \in {"waiting", "record"}, f \in Tasks :
        /\ batch' = [batch EXCEPT ![b] = [f EXCEPT !.at = place]]
        /\ f.events = batch[b].events /\ f.acked = batch[b].acked /\ f.ok = batch[b].ok
        /\ f.abort = batch[b].abort /\ f.by = batch[b].by
        /\ f.pending \subseteq batch[b].pending
        /\ f.failed + Cardinality(f.pending) = Cardinality(f.events \ f.acked)
        /\ place = "record" => f.pending = {}
  <2>1. CASE BackoffEnds(b)
    <3>1. batch' = [batch EXCEPT ![b] = [batch[b] EXCEPT !.at = "waiting"]]
      BY <2>1 DEF BackoffEnds
    <3>2. batch[b].failed + Cardinality(batch[b].pending)
            = Cardinality(batch[b].events \ batch[b].acked)
      BY <1>1, <1>2 DEF Sound, IsEnded
    <3> QED BY <1>2, <3>1, <3>2
  <2>2. CASE GiveUp(b)
    <3> DEFINE f == Failing(b, batch[b].pending)
    <3>1. batch' = [batch EXCEPT ![b] = [f EXCEPT !.at = "record"]]
      BY <2>2 DEF GiveUp
    <3>2. /\ f \in Tasks /\ f.events = batch[b].events /\ f.acked = batch[b].acked
          /\ f.ok = batch[b].ok /\ f.abort = batch[b].abort /\ f.by = batch[b].by
          /\ f.pending = batch[b].pending \ batch[b].pending
          /\ f.failed + Cardinality(f.pending) = Cardinality(f.events \ f.acked)
      <4>1. f = Failing(b, batch[b].pending)
        OBVIOUS
      <4> HIDE DEF f
      <4> QED BY <1>1, <4>1, FailingIs
    <3>3. f.pending = {}
      BY <3>2
    <3> HIDE DEF f
    <3> QED BY <3>1, <3>2, <3>3
  <2> QED BY <2>1, <2>2
<1> DEFINE r == [f EXCEPT !.at = place]
<1>5. /\ r \in Tasks /\ r.at = place /\ r.by = f.by /\ r.failed = f.failed
      /\ r.events = f.events /\ r.acked = f.acked
      /\ r.pending = f.pending /\ r.ok = f.ok /\ r.abort = f.abort
  BY DEF Tasks
<1>6. batch' = [batch EXCEPT ![b] = r]
  BY <1>4
<1> HIDE DEF r
<1>7. /\ r.failed + Cardinality(r.pending) = Cardinality(r.events \ r.acked)
      /\ r.at = "record" => r.failed = Cardinality(r.events \ r.acked)
  <2>1. r.failed + Cardinality(r.pending) = Cardinality(r.events \ r.acked)
    BY <1>4, <1>5
  <2>2. r.at = "record" => r.pending = {}
    BY <1>4, <1>5
  <2> QED BY <1>5, <2>1, <2>2, NothingPending
<1>8. Sound(b, r) /\ ~IsEnded(r)
  BY <1>1, <1>2, <1>4, <1>5, <1>7 DEF Sound, IsEnded
<1>9. /\ permits' + (IF r.at = "sending" THEN 1 ELSE 0)
           = permits + (IF batch[b].at = "sending" THEN 1 ELSE 0)
      /\ permits' \in Nat
  BY <1>1, <1>3, <1>4, <1>5
<1>10. Moves(b, r)
  BY <1>1, <1>3, <1>4, <1>5, <1>6, <1>8, <1>9, GoingOnMoves
<1> QED BY <1>5, <1>10

LEMMA RecordMoves ==
  ASSUME TypeOK, BatchesSound, NEW b \in Names, RecordBatch(b)
  PROVE  \E r \in Tasks : Moves(b, r)
<1>1. b \in Batches \ Ended /\ batch[b].at = "record"
  BY DEF RecordBatch, Stands, Ended
<1>2. Sound(b, batch[b])
  BY <1>1 DEF BatchesSound
<1> DEFINE r == EndedBatch(b, "done")
<1>3. /\ r \in Tasks /\ r.at = "done" /\ r.events = batch[b].events
      /\ r.acked = batch[b].acked /\ r.by = batch[b].by
  BY <1>1, EndedIs
<1>4. /\ stats' = IF stats = None THEN None
                  ELSE [stats EXCEPT !.ok = @ + batch[b].ok, !.failed = @ + batch[b].failed]
      /\ batch' = [batch EXCEPT ![b] = r] /\ FreeSlots(b) /\ permits' = permits /\ permits \in Nat
      /\ UNCHANGED <<busVars, config, processor, retired, handle, call, listener, stage, changes,
                     ignored>>
  BY DEF RecordBatch, TypeOK
<1>5. batch[b].ok = Cardinality(r.acked) /\ batch[b].failed = Cardinality(r.events \ r.acked)
      /\ r.by # None
  BY <1>1, <1>2, <1>3 DEF Sound, IsEnded
<1>6. Counted(b, r)
  BY <1>3, <1>4, <1>5 DEF Counted
<1>7. permits' = permits + (IF batch[b].at = "sending" THEN 1 ELSE 0)
  BY <1>1, <1>4
<1>8. Moves(b, r)
  BY <1>1, <1>4, <1>6, <1>7, EndingMoves
<1> QED BY <1>3, <1>8

LEMMA AbortMoves ==
  ASSUME TypeOK, BatchesSound, NEW b \in Names, BatchAborts(b)
  PROVE  \E r \in Tasks : Moves(b, r)
<1>1. b \in Batches \ Ended /\ batch[b].abort
  BY DEF BatchAborts
<1> DEFINE r == EndedBatch(b, "aborted")
<1>2. r \in Tasks /\ r.at = "aborted"
  BY <1>1, EndedIs
<1>3. /\ permits' = (IF Stands(b, "sending") THEN permits + 1 ELSE permits) /\ permits \in Nat
      /\ batch' = [batch EXCEPT ![b] = r] /\ FreeSlots(b)
      /\ UNCHANGED <<busVars, streamVars, call, listener, stage, changes, ignored>>
  BY DEF BatchAborts, TypeOK
<1>4. Counted(b, r)
  BY <1>1, <1>2, <1>3 DEF Counted, streamVars
<1>5. permits' = permits + (IF batch[b].at = "sending" THEN 1 ELSE 0) /\ permits' \in Nat
  BY <1>1, <1>3 DEF Stands
<1>6. Moves(b, r)
  BY <1>1, <1>3, <1>4, <1>5, EndingMoves DEF streamVars
<1> QED BY <1>2, <1>6

\* Every step of a batch.
LEMMA BatchMoves ==
  ASSUME TypeOK, BatchesSound, NEW b \in Names, BatchStep(b)
  PROVE  \E r \in Tasks : Moves(b, r)
BY StartMoves, SendMoves, ResultMoves, DelayMoves, RecordMoves, AbortMoves DEF BatchStep

-----------------------------------------------------------------------------
(* What the steps of the bus and of listeners do.                          *)

LEMMA BusFacts ==
  ASSUME BusTypeOK
  PROVE  /\ Len(log) \in Nat /\ Len(log) <= MaxEvents /\ subs \in Nat /\ subs <= MaxSubs
         /\ \A s \in Subs : cursor[s] \in Nat
BY Constants DEF BusTypeOK

LEMMA UnsubscribeTyped ==
  ASSUME BusTypeOK, NEW S, Unsubscribe(S), UNCHANGED <<log, cursor, subs>>
  PROVE  BusTypeOK'
BY DEF BusTypeOK, Unsubscribe

LEMMA DropTyped ==
  ASSUME BusTypeOK, NEW s \in Subs, DropSubscription(s)
  PROVE  /\ BusTypeOK' /\ cursor'[s] = 0 /\ log' = log /\ subs' = subs
         /\ \A t \in Subs : t # s => cursor'[t] = cursor[t]
BY Constants DEF BusTypeOK, DropSubscription

LEMMA SubscribeTyped ==
  ASSUME BusTypeOK, NEW wants \in BOOLEAN, Subscribe(wants)
  PROVE  /\ BusTypeOK' /\ NextSub \in Subs /\ subs' = NextSub /\ NextSub > subs /\ log' = log
         /\ cursor'[NextSub] = Len(log) + 1
         /\ \A t \in Subs : t # NextSub => cursor'[t] = cursor[t]
<1>1. subs < MaxSubs /\ MaxSubs \in Nat /\ MaxEvents \in Nat
  BY Constants DEF Subscribe
<1>2. /\ NextSub \in Subs /\ NextSub > subs /\ NextSub \in 0..MaxSubs
      /\ Len(log) + 1 \in 0..(MaxEvents + 1)
  BY <1>1, BusFacts DEF NextSub, Subs
<1> DEFINE asked == IF wants THEN "payload" ELSE "plain"
<1>3. /\ subs' = NextSub /\ cursor' = [cursor EXCEPT ![NextSub] = Len(log) + 1] /\ log' = log
      /\ registry' = [registry EXCEPT ![NextSub] = asked]
  BY DEF Subscribe
<1>4. asked \in {"plain", "payload"}
  OBVIOUS
<1> HIDE DEF asked
<1> QED BY <1>2, <1>3, <1>4 DEF BusTypeOK

LEMMA PublishTyped ==
  ASSUME BusTypeOK, NEW kind \in Kinds, PublishEvent(kind)
  PROVE  BusTypeOK' /\ Len(log') = Len(log) + 1 /\ UNCHANGED <<cursor, registry, subs>>
<1> DEFINE event == [kind |-> kind, payload |-> PayloadWanted]
<1>1. event \in [kind : Kinds, payload : BOOLEAN]
  BY DEF PayloadWanted
<1>2. log' = Append(log, event) /\ Len(log) < MaxEvents /\ UNCHANGED <<cursor, registry, subs>>
  BY DEF PublishEvent
<1> HIDE DEF event
<1>3. log' \in Seq([kind : Kinds, payload : BOOLEAN]) /\ Len(log') = Len(log) + 1
  BY <1>1, <1>2 DEF BusTypeOK
<1>4. Len(log') <= MaxEvents
  BY <1>2, <1>3, BusFacts, Constants
<1> QED BY <1>2, <1>3, <1>4 DEF BusTypeOK

LEMMA ReceiveTyped ==
  ASSUME BusTypeOK, NEW s \in Subs, Receive(s), UNCHANGED <<log, registry, subs>>
  PROVE  /\ BusTypeOK' /\ cursor[s] \in Events /\ cursor'[s] = cursor[s] + 1
         /\ cursor'[s] <= Len(log) + 1
         /\ \A t \in Subs : t # s => cursor'[t] = cursor[t]
<1>1. cursor[s] > 0 /\ Unread(s) \in 1..Buffer /\ cursor' = [cursor EXCEPT ![s] = cursor[s] + 1]
  BY DEF Receive, Ready
<1>2. PICK n \in Nat : n = cursor[s] + 1
  BY BusFacts
<1>3. cursor[s] \in Events /\ n \in 0..(MaxEvents + 1) /\ n <= Len(log) + 1
  <2>1. PICK c \in Nat, l \in Nat : c = cursor[s] /\ l = Len(log) /\ l <= MaxEvents
    BY BusFacts
  <2>2. l + 1 - c >= 1
    <3>1. Unread(s) >= 1
      BY <1>1, Constants
    <3>2. Unread(s) = l + 1 - c
      BY <2>1 DEF Unread
    <3> QED BY <3>1, <3>2
  <2>3. c > 0 /\ c <= l /\ MaxEvents \in Nat /\ n = c + 1
    <3>1. c <= l
      BY <2>2
    <3> QED BY <1>1, <1>2, <2>1, <3>1, Constants
  <2>4. c \in Events /\ n \in 0..(MaxEvents + 1) /\ n <= l + 1
    BY <2>1, <2>3 DEF Events
  <2> QED BY <2>1, <2>4
<1>4. cursor' = [cursor EXCEPT ![s] = n]
  BY <1>1, <1>2
<1> QED BY <1>2, <1>3, <1>4 DEF BusTypeOK

LEMMA SkipTyped ==
  ASSUME BusTypeOK, NEW s \in Subs, SkipLost(s), UNCHANGED <<log, registry, subs>>
  PROVE  /\ BusTypeOK' /\ Skipped(s) \in Nat /\ cursor'[s] = cursor[s] + Skipped(s)
         /\ cursor'[s] <= Len(log) + 1
         /\ \A t \in Subs : t # s => cursor'[t] = cursor[t]
<1>1. Unread(s) > Buffer /\ cursor' = [cursor EXCEPT ![s] = cursor[s] + Skipped(s)]
  BY DEF SkipLost, Behind
<1>2. Skipped(s) \in Nat /\ cursor[s] + Skipped(s) <= Len(log) + 1
  <2>1. PICK c \in Nat, l \in Nat : c = cursor[s] /\ l = Len(log)
    BY BusFacts
  <2>2. Unread(s) = l + 1 - c /\ Skipped(s) = Unread(s) - Buffer /\ Buffer \in Nat
    BY <2>1, Constants DEF Unread, Skipped
  <2>3. l + 1 - c > Buffer /\ Skipped(s) = (l + 1 - c) - Buffer
    BY <1>1, <2>2
  <2>4. Skipped(s) \in Nat /\ c + Skipped(s) <= l + 1
    BY <2>2, <2>3
  <2> QED BY <2>1, <2>4
<1>3. PICK n \in Nat : n = cursor[s] + Skipped(s)
  BY <1>2, BusFacts
<1>4. n \in 0..(MaxEvents + 1)
  BY <1>2, <1>3, BusFacts, Constants
<1>5. cursor' = [cursor EXCEPT ![s] = n]
  BY <1>1, <1>3
<1> QED BY <1>2, <1>3, <1>4, <1>5 DEF BusTypeOK

\* The fields of a listener.
LEMMA ListenerFacts ==
  ASSUME TypeOK, NEW s \in Subs
  PROVE  /\ listener[s] \in Listeners /\ listener[s].at \in Places
         /\ listener[s].buffer \in SUBSET Events /\ listener[s].out \in SUBSET Events
         /\ listener[s].stop \in BOOLEAN /\ listener[s].abort \in BOOLEAN
<1>1. listener[s] \in Listeners
  BY DEF TypeOK
<1> QED BY <1>1 DEF Listeners

\* A listener takes the step to r.
Listens(s, r) ==
  r \in Listeners /\ listener' = [listener EXCEPT ![s] = r] /\ Calm(r) /\ s \in Running

\* A turn of the loop moves what the listener has from its buffer to its hands.
LEMMA TurnEffect ==
  ASSUME StreamInv, NEW s \in Subs, TurnLoop(s) \/ BufferFallsDue(s)
  PROVE  \E r \in Listeners :
           /\ Listens(s, r) /\ r.at \in {"gone", "slots", "recv"}
           /\ r.buffer \union r.out = listener[s].buffer \union listener[s].out
           /\ Cardinality(r.buffer) + Cardinality(r.out)
                = Cardinality(listener[s].buffer) + Cardinality(listener[s].out)
           /\ IF r.at = "gone" THEN DropSubscription(s) ELSE UNCHANGED busVars
           /\ UNCHANGED <<streamVars, call, slots, batch, permits, stage, changes, ignored>>
<1> DEFINE old == listener[s]
           E == old.buffer
<1>1. /\ old \in Listeners /\ E \in SUBSET Events /\ old.out \in SUBSET Events
      /\ old.stop \in BOOLEAN /\ old.abort \in BOOLEAN
  BY ListenerFacts DEF StreamInv
<1>2. PICK due \in BOOLEAN :
        NextTurn(s, due) /\ (due => E # {}) /\ old.at \in {"loop", "recv"}
  BY DEF TurnLoop, BufferFallsDue
<1>3. Calm(old) /\ old.out = {} /\ s \in Running
  BY <1>2 DEF StreamInv, Calm, Running
<1>4. E = {} => ~Full(E)
  BY FS_EmptySet, Constants DEF Full
<1>5. Cardinality({}) = 0 /\ Cardinality(E) \in Nat
  BY <1>1, Finite, FS_EmptySet
<1> DEFINE flush == E # {} /\ (Full(E) \/ due)
           r == IF config = None THEN [old EXCEPT !.at = "gone"]
                ELSE IF flush THEN [old EXCEPT !.at = "slots", !.out = E, !.buffer = {}]
                ELSE [old EXCEPT !.at = "recv"]
<1>6. /\ listener' = [listener EXCEPT ![s] = r]
      /\ IF config = None THEN DropSubscription(s) ELSE UNCHANGED busVars
      /\ UNCHANGED <<streamVars, call, slots, batch, permits, stage, changes, ignored>>
  BY <1>2 DEF NextTurn
<1>7. ~flush => ~Full(E)
  BY <1>4
<1>8. flush => E # {}
  OBVIOUS
<1> HIDE DEF flush, old, E
<1>9. CASE config = None
  <2>1. r \in Listeners /\ r.at = "gone" /\ r.buffer = E /\ r.out = {}
    BY <1>1, <1>3, <1>9 DEF Listeners, Places, old, E
  <2> HIDE DEF r
  <2>2. Calm(r)
    BY <1>3, <2>1 DEF Calm, E
  <2> QED BY <1>3, <1>5, <1>6, <1>9, <2>1, <2>2 DEF Listens, old, E
<1>10. CASE config # None /\ flush
  <2>1. r \in Listeners /\ r.at = "slots" /\ r.buffer = {} /\ r.out = E
    BY <1>1, <1>10 DEF Listeners, Places, old, E
  <2> HIDE DEF r
  <2>2. Calm(r)
    BY <1>3, <1>5, <1>8, <1>10, <2>1, Constants DEF Calm, E
  <2>3. Cardinality(r.buffer) + Cardinality(r.out) = Cardinality(E) + Cardinality(old.out)
    BY <1>3, <1>5, <2>1
  <2> QED BY <1>3, <1>6, <1>10, <2>1, <2>2, <2>3 DEF Listens, old, E
<1>11. CASE config # None /\ ~flush
  <2>1. r \in Listeners /\ r.at = "recv" /\ r.buffer = E /\ r.out = {}
    BY <1>1, <1>3, <1>11 DEF Listeners, Places, old, E
  <2> HIDE DEF r
  <2>2. Calm(r)
    BY <1>3, <1>5, <1>7, <1>11, <2>1 DEF Calm, E
  <2> QED BY <1>3, <1>5, <1>6, <1>11, <2>1, <2>2 DEF Listens, old, E
<1> QED BY <1>9, <1>10, <1>11

\* An event that the listener receives is buffered or ignored.
LEMMA HearEffect ==
  ASSUME StreamInv, NEW s \in Subs, HearEvent(s)
  PROVE  \E r \in Listeners :
           /\ Listens(s, r) /\ r.at = "loop" /\ r.out = {} /\ listener[s].out = {}
           /\ \/ /\ r.buffer = listener[s].buffer \union {cursor[s]} /\ ignored' = ignored
                 /\ Cardinality(r.buffer) = Cardinality(listener[s].buffer) + 1
              \/ r.buffer = listener[s].buffer /\ ignored' = [ignored EXCEPT ![s] = @ + 1]
           /\ Receive(s)
           /\ UNCHANGED <<log, registry, subs, streamVars, call, slots, batch, permits, stage,
                          changes>>
<1> DEFINE old == listener[s]
           c == cursor[s]
<1>1. /\ old \in Listeners /\ old.buffer \in SUBSET Events /\ old.out \in SUBSET Events
      /\ old.stop \in BOOLEAN /\ old.abort \in BOOLEAN
  BY ListenerFacts DEF StreamInv
<1>2. /\ old.at = "recv" /\ Receive(s)
      /\ UNCHANGED <<log, registry, subs, streamVars, call, slots, batch, permits, stage, changes>>
  BY DEF HearEvent
<1>3. Calm(old) /\ old.out = {} /\ s \in Running /\ ~Full(old.buffer)
  BY <1>2 DEF StreamInv, Calm, Running
<1>4. c \in Events /\ c \in Nat
  BY <1>2, ReceiveTyped, Constants DEF StreamInv, TypeOK
<1>5. c \notin old.buffer
  <2>1. \A e \in old.buffer : e < c
    BY <1>3 DEF StreamInv, Follows
  <2> QED BY <1>4, <2>1
<1>6. /\ Cardinality(old.buffer \union {c}) = Cardinality(old.buffer) + 1
      /\ Cardinality(old.buffer) \in Nat
  BY <1>1, <1>5, Finite, FS_AddElement
<1>7. Cardinality(old.buffer) < MaxInFlight
  BY <1>3, <1>6, Constants DEF Full
<1> DEFINE r(B) == [old EXCEPT !.at = "loop", !.buffer = B]
<1>8. \/ listener' = [listener EXCEPT ![s] = r(old.buffer \union {c})] /\ ignored' = ignored
      \/ listener' = [listener EXCEPT ![s] = r(old.buffer)] /\ ignored' = [ignored EXCEPT ![s] = @ + 1]
  <2> DEFINE enabled == config # None /\ config
  <2>1. /\ listener' = [listener EXCEPT ![s].at = "loop",
             ![s].buffer = IF enabled THEN @ \union {cursor[s]} ELSE @]
        /\ ignored' = [ignored EXCEPT ![s] = IF enabled THEN @ ELSE @ + 1]
    BY DEF HearEvent
  <2>2. listener \in [Subs -> Listeners] /\ ignored \in [Subs -> Nat]
    BY DEF StreamInv, TypeOK
  <2> HIDE DEF enabled
  <2>3. CASE enabled
    <3>1. listener' = [listener EXCEPT ![s] = r(old.buffer \union {c})]
      BY <2>1, <2>2, <2>3 DEF Listeners
    <3>2. ignored' = ignored
      BY <2>1, <2>2, <2>3
    <3> QED BY <3>1, <3>2
  <2>4. CASE ~enabled
    <3>1. listener' = [listener EXCEPT ![s] = r(old.buffer)]
      BY <2>1, <2>2, <2>4 DEF Listeners
    <3>2. ignored' = [ignored EXCEPT ![s] = @ + 1]
      BY <2>1, <2>4
    <3> QED BY <3>1, <3>2
  <2> QED BY <2>3, <2>4
<1>9. ASSUME NEW B \in SUBSET Events, Cardinality(B) <= MaxInFlight
      PROVE  /\ r(B) \in Listeners /\ r(B).at = "loop" /\ r(B).buffer = B /\ r(B).out = {}
             /\ Calm(r(B))
  <2>1. r(B) \in Listeners /\ r(B).at = "loop" /\ r(B).buffer = B /\ r(B).out = {}
    BY <1>1, <1>3 DEF Listeners, Places
  <2> HIDE DEF r
  <2>2. Cardinality(r(B).out) <= MaxInFlight
    BY <1>3, <2>1 DEF Calm
  <2> QED BY <1>9, <2>1, <2>2 DEF Calm
<1> HIDE DEF r, old, c
<1>10. CASE listener' = [listener EXCEPT ![s] = r(old.buffer \union {c})] /\ ignored' = ignored
  <2> DEFINE B == old.buffer \union {c}
  <2>1. B \in SUBSET Events /\ Cardinality(B) <= MaxInFlight
    BY <1>1, <1>4, <1>6, <1>7, Constants
  <2>2. /\ r(B) \in Listeners /\ r(B).at = "loop" /\ r(B).buffer = B /\ r(B).out = {}
        /\ Calm(r(B))
    BY <1>9, <2>1
  <2>3. Listens(s, r(B))
    BY <1>3, <1>10, <2>2 DEF Listens
  <2> QED BY <1>2, <1>3, <1>6, <1>10, <2>2, <2>3 DEF old, c
<1>11. CASE /\ listener' = [listener EXCEPT ![s] = r(old.buffer)]
            /\ ignored' = [ignored EXCEPT ![s] = @ + 1]
  <2> DEFINE B == old.buffer
  <2>1. B \in SUBSET Events /\ Cardinality(B) <= MaxInFlight
    BY <1>1, <1>6, <1>7, Constants
  <2>2. /\ r(B) \in Listeners /\ r(B).at = "loop" /\ r(B).buffer = B /\ r(B).out = {}
        /\ Calm(r(B))
    BY <1>9, <2>1
  <2>3. Listens(s, r(B))
    BY <1>3, <1>11, <2>2 DEF Listens
  <2> QED BY <1>2, <1>3, <1>11, <2>2, <2>3 DEF old
<1> QED BY <1>8, <1>10, <1>11

\* A listener that fell behind, or ends, has what it had.
LEMMA LagEffect ==
  ASSUME StreamInv, NEW s \in Subs, NEW place,
         \/ place = "loop" /\ HearLag(s)
         \/ place = "gone" /\ ListenerEnds(s)
  PROVE  \E r \in Listeners :
           /\ Listens(s, r) /\ r.buffer = listener[s].buffer /\ r.out = listener[s].out
           /\ r.at = place
<1> DEFINE old == listener[s]
           r == [old EXCEPT !.at = place]
<1>1. old \in Listeners /\ Calm(old)
  BY ListenerFacts DEF StreamInv
<1>2. listener' = [listener EXCEPT ![s] = r]
  BY DEF HearLag, ListenerEnds
<1>3. s \in Running /\ (place = "loop" => old.out = {})
  BY <1>1 DEF HearLag, ListenerEnds, Running, Calm
<1>4. place \in {"loop", "gone"}
  OBVIOUS
<1> HIDE DEF old
<1>5. r \in Listeners /\ r.at = place /\ r.buffer = old.buffer /\ r.out = old.out
  BY <1>1, <1>4 DEF Listeners, Places
<1> HIDE DEF r
<1>6. Calm(r)
  BY <1>1, <1>3, <1>4, <1>5 DEF Calm
<1> QED BY <1>2, <1>3, <1>5, <1>6 DEF Listens, old

\* The events in hand become a batch of their own, or are lost.
LEMMA SpawnEffect ==
  ASSUME StreamInv, NEW s \in Subs, SpawnBatch(s)
  PROVE  LET E == listener[s].out
             n == <<s, NameOf(E)>>
         IN  /\ E \in SUBSET Events /\ E # {} /\ Cardinality(E) \in Nat
             /\ n \in Names /\ n \notin Batches /\ n[1] = s
             /\ NewBatch(E) \in Tasks /\ Sound(n, NewBatch(E)) /\ NewBatch(E).events = E
             /\ NewBatch(E).at = "start" /\ ~NewBatch(E).abort
             /\ IF BatchesClosed THEN UNCHANGED <<slots, batch>>
                ELSE /\ slots[s] >= Cardinality(E)
                     /\ slots' = [slots EXCEPT ![s] = @ - Cardinality(E)]
                     /\ batch' = [batch EXCEPT ![n] = NewBatch(E)]
             /\ \E r \in Listeners :
                  Listens(s, r) /\ r.at = "loop" /\ r.buffer = {} /\ r.out = {}
             /\ listener[s].buffer = {}
             /\ UNCHANGED <<busVars, streamVars, call, permits, stage, changes, ignored>>
<1> DEFINE old == listener[s]
           E == old.out
           n == <<s, NameOf(E)>>
<1>1. /\ old \in Listeners /\ E \in SUBSET Events /\ Calm(old)
  BY ListenerFacts DEF StreamInv
<1>2. /\ old.at = "slots" /\ slots[s] >= Wanted(E)
      /\ IF BatchesClosed THEN UNCHANGED <<slots, batch>>
         ELSE /\ slots' = [slots EXCEPT ![s] = @ - Wanted(E)]
              /\ batch' = [batch EXCEPT ![n] = NewBatch(E)]
      /\ listener' = [listener EXCEPT ![s] = [old EXCEPT !.at = "loop", !.out = {}]]
      /\ UNCHANGED <<busVars, streamVars, call, permits, stage, changes, ignored>>
  BY DEF SpawnBatch
<1>3. s \in Running /\ old.buffer = {} /\ E # {} /\ Cardinality(E) <= MaxInFlight
  BY <1>1, <1>2 DEF Running, Calm
<1>4. NameOf(E) \in E
  BY <1>3 DEF NameOf
<1>5. Cardinality(E) \in Nat /\ Wanted(E) = Cardinality(E)
  BY <1>1, <1>3, Finite, WantsAll
<1>6. n \in Names /\ n[1] = s /\ n[2] = NameOf(E)
  BY <1>1, <1>4 DEF Names
<1>7. n \notin Batches
  <2> SUFFICES ASSUME n \in Batches PROVE FALSE
    OBVIOUS
  <2>1. n[2] \in batch[n].events
    BY DEF StreamInv, BatchesSound, Sound
  <2>2. \A e \in batch[n].events : e \notin E
    BY <1>3, <1>6 DEF StreamInv, Follows
  <2> QED BY <1>4, <1>6, <2>1, <2>2
<1> DEFINE t == NewBatch(E)
<1>8. /\ t \in Tasks /\ t.events = E /\ t.at = "start" /\ t.pending = E /\ t.acked = {}
      /\ t.ok = 0 /\ t.failed = 0 /\ t.by = None /\ t.abort = FALSE
  BY <1>1 DEF NewBatch, Tasks
<1> DEFINE r == [old EXCEPT !.at = "loop", !.out = {}]
<1>9. r \in Listeners /\ r.at = "loop" /\ r.buffer = {} /\ r.out = {}
  BY <1>1, <1>3 DEF Listeners, Places
<1> HIDE DEF t, r, E, n, old
<1>10. Cardinality({}) = 0
  BY FS_EmptySet
<1>11. Sound(n, t)
  <2>1. t.events \ t.acked = t.pending
    BY <1>8
  <2>2. PICK k \in Nat : k = Cardinality(t.pending)
    BY <1>8, Finite DEF Tasks
  <2>3. t.failed + Cardinality(t.pending) = Cardinality(t.events \ t.acked)
    BY <1>8, <2>1, <2>2
  <2> QED BY <1>3, <1>4, <1>6, <1>8, <1>10, <2>1, <2>3 DEF Sound
<1>12. Calm(r)
  BY <1>9, <1>10, Constants DEF Calm
<1>13. Listens(s, r)
  BY <1>2, <1>3, <1>9, <1>12 DEF Listens, r
<1>14. \E x \in Listeners : Listens(s, x) /\ x.at = "loop" /\ x.buffer = {} /\ x.out = {}
  BY <1>9, <1>13
<1> QED BY <1>1, <1>2, <1>3, <1>5, <1>6, <1>7, <1>8, <1>11, <1>14 DEF E, n, t, old

-----------------------------------------------------------------------------
(* Every step keeps StreamInv.                                             *)

\* The same listener but for its signals.
SameBut(s) ==
  /\ listener'[s].at = listener[s].at /\ listener'[s].buffer = listener[s].buffer
  /\ listener'[s].out = listener[s].out

\* A signal changes nothing else.
LEMMA StopEffect ==
  ASSUME listener \in [Subs -> Listeners], NEW h \in Subs \union {None}, StopListener(h)
  PROVE  listener' \in [Subs -> Listeners] /\ \A s \in Subs : SameBut(s)
<1>1. CASE h = None
  BY <1>1 DEF StopListener, SameBut
<1>2. CASE h \in Subs
  <2>1. listener' = [listener EXCEPT ![h] = [listener[h] EXCEPT !.stop = TRUE]]
    BY <1>2, Constants DEF StopListener
  <2>2. listener[h] \in Listeners
    BY <1>2
  <2> DEFINE r == [listener[h] EXCEPT !.stop = TRUE]
  <2>3. /\ r \in Listeners /\ r.at = listener[h].at /\ r.buffer = listener[h].buffer
        /\ r.out = listener[h].out
    BY <2>2 DEF Listeners
  <2> HIDE DEF r
  <2> QED BY <1>2, <2>1, <2>3 DEF SameBut, r
<1> QED BY <1>1, <1>2

LEMMA BeginsEffect ==
  ASSUME TypeOK, ShutdownBegins
  PROVE  listener' \in [Subs -> Listeners] /\ \A s \in Subs : SameBut(s)
<1>1. ASSUME NEW s \in Subs
      PROVE  listener'[s] \in Listeners /\ SameBut(s)
  <2>1. listener[s] \in Listeners
    BY DEF TypeOK
  <2>2. \/ listener'[s] = [listener[s] EXCEPT !.abort = TRUE]
        \/ listener'[s] = [listener[s] EXCEPT !.abort = FALSE]
    <3>1. listener'[s] = [listener[s] EXCEPT !.abort = s \in Running]
      BY DEF ShutdownBegins
    <3>2. (s \in Running) = TRUE \/ (s \in Running) = FALSE
      OBVIOUS
    <3> QED BY <3>1, <3>2, Zenon
  <2> QED BY <2>1, <2>2 DEF Listeners, SameBut
<1>2. listener' = [s \in Subs |-> listener'[s]]
  BY DEF ShutdownBegins
<1> QED BY <1>1, <1>2

\* The batches stay, with their events.
SameBatches == Batches' = Batches /\ \A b \in Batches : batch'[b].events = batch[b].events

LEMMA FollowsFrame ==
  ASSUME NEW s \in Subs, BusTypeOK, BusTypeOK', Follows(s), SameBut(s), SameBatches,
         subs <= subs', Len(log) <= Len(log'),
         \/ cursor'[s] = cursor[s]
         \/ listener[s].at = "none" /\ cursor'[s] <= Len(log') + 1
  PROVE  Follows(s)'
<1>1. /\ cursor[s] \in Nat /\ cursor'[s] \in Nat /\ Len(log) \in Nat /\ Len(log') \in Nat
      /\ subs \in Nat /\ subs' \in Nat /\ s \in Nat
  BY Constants DEF BusTypeOK
<1>2. cursor'[s] <= Len(log') + 1
  BY <1>1 DEF Follows
<1>3. s > subs' => listener'[s].at = "none"
  BY <1>1 DEF Follows, SameBut
<1>4. listener'[s].at = "none" => \A b \in Batches' : b[1] # s
  BY DEF Follows, SameBut, SameBatches
<1>5. ASSUME s \in Running'
      PROVE  /\ \A e \in listener'[s].buffer \union listener'[s].out : e < cursor'[s]
             /\ \A b \in Batches' : b[1] = s =>
                  \A e \in batch'[b].events :
                    e < cursor'[s] /\ e \notin listener'[s].buffer /\ e \notin listener'[s].out
  <2>1. s \in Running /\ cursor'[s] = cursor[s]
    BY <1>5 DEF Running, SameBut
  <2> QED BY <2>1 DEF Follows, SameBut, SameBatches
<1> QED BY <1>2, <1>3, <1>4, <1>5 DEF Follows

LEMMA BatchUnchanged ==
  ASSUME batch' = batch
  PROVE  SameBatches /\ Ended' = Ended
BY DEF SameBatches, Batches, Ended

\* Steps that only signal listeners, publish or subscribe.
LEMMA SignalsKeep ==
  ASSUME StreamInv, TypeOK', AddOwnsIts', batch' = batch, \A s \in Subs : SameBut(s),
         subs <= subs', Len(log) <= Len(log'),
         \A s \in Subs : \/ cursor'[s] = cursor[s]
                         \/ listener[s].at = "none" /\ cursor'[s] <= Len(log') + 1
  PROVE  StreamInv'
<1>1. SameBatches
  BY BatchUnchanged
<1>2. \A s \in Subs : Follows(s)'
  BY <1>1, FollowsFrame DEF StreamInv, TypeOK
<1>3. \A s \in Subs : Calm(listener[s])'
  BY DEF StreamInv, Calm, SameBut, Full
<1>4. BatchesSound' /\ Apart'
  BY DEF StreamInv, BatchesSound, Apart, Batches
<1> QED BY <1>2, <1>3, <1>4 DEF StreamInv

\* Steps of one listener.
LEMMA ListenerKeeps ==
  ASSUME StreamInv, TypeOK', AddOwnsIts', NEW s \in Subs,
         BatchesSound', Apart', Follows(s)', Calm(listener[s])',
         \A t \in Subs : t # s => SameBut(t) /\ Follows(t)'
  PROVE  StreamInv'
<1>1. \A t \in Subs : Calm(listener[t])'
  BY DEF StreamInv, Calm, SameBut, Full
<1> QED BY <1>1 DEF StreamInv

\* A step of a listener that runs leaves the subscription of an add alone.
LEMMA AddGoesOn ==
  ASSUME StreamInv, NEW s \in Subs, s \in Running, call' = call, subs' = subs,
         \A t \in Subs : t # s => /\ listener'[t].at = listener[t].at
                                  /\ cursor'[t] = cursor[t] /\ ignored'[t] = ignored[t]
  PROVE  AddOwnsIts'
<1>1. listener[s].at # "none"
  BY DEF Running
<1> QED BY <1>1 DEF StreamInv, AddOwnsIts

LEMMA ListensFacts ==
  ASSUME TypeOK, NEW s \in Subs, NEW r, Listens(s, r)
  PROVE  /\ listener' \in [Subs -> Listeners] /\ listener'[s] = r /\ Calm(listener[s])'
         /\ \A t \in Subs : t # s => listener'[t] = listener[t] /\ SameBut(t)
<1>1. listener' \in [Subs -> Listeners] /\ listener'[s] = r
  BY DEF TypeOK, Listens
<1>2. \A t \in Subs : t # s => listener'[t] = listener[t] /\ SameBut(t)
  BY DEF TypeOK, Listens, SameBut
<1>3. Calm(listener'[s]) /\ (Calm(listener[s])' <=> Calm(listener'[s]))
  BY <1>1 DEF Listens, Calm, Full
<1> QED BY <1>1, <1>2, <1>3

LEMMA TurnKeeps ==
  ASSUME StreamInv, NEW s \in Subs, TurnLoop(s) \/ BufferFallsDue(s)
  PROVE  StreamInv'
<1>1. PICK r \in Listeners :
           /\ Listens(s, r) /\ r.at \in {"gone", "slots", "recv"}
           /\ r.buffer \union r.out = listener[s].buffer \union listener[s].out
           /\ Cardinality(r.buffer) + Cardinality(r.out)
                = Cardinality(listener[s].buffer) + Cardinality(listener[s].out)
           /\ IF r.at = "gone" THEN DropSubscription(s) ELSE UNCHANGED busVars
           /\ UNCHANGED <<streamVars, call, slots, batch, permits, stage, changes, ignored>>
  BY TurnEffect
<1>2. TypeOK
  BY DEF StreamInv
<1>3. /\ listener' \in [Subs -> Listeners] /\ listener'[s] = r /\ Calm(listener[s])'
      /\ \A t \in Subs : t # s => listener'[t] = listener[t] /\ SameBut(t)
  BY <1>1, <1>2, ListensFacts
<1>4. /\ BusTypeOK' /\ subs' = subs /\ log' = log
      /\ cursor'[s] = (IF r.at = "gone" THEN 0 ELSE cursor[s])
      /\ \A t \in Subs : t # s => cursor'[t] = cursor[t]
  <2>1. CASE r.at = "gone"
    BY <1>1, <1>2, <2>1, DropTyped DEF TypeOK
  <2>2. CASE r.at # "gone"
    BY <1>1, <1>2, <2>2 DEF TypeOK, busVars, BusTypeOK
  <2> QED BY <2>1, <2>2
<1>5. TypeOK'
  BY <1>1, <1>2, <1>3, <1>4 DEF TypeOK, streamVars
<1>6. s \in Running
  BY <1>1 DEF Listens
<1>7. AddOwnsIts'
  BY <1>1, <1>3, <1>4, <1>6, AddGoesOn
<1>8. BatchesSound' /\ Apart' /\ SameBatches
  BY <1>1, BatchUnchanged DEF StreamInv, BatchesSound, Apart, SameBatches
<1>9. \A t \in Subs : t # s => Follows(t)'
  BY <1>2, <1>3, <1>4, <1>5, <1>8, FollowsFrame, BusFacts DEF StreamInv, TypeOK
<1>10. Follows(s)'
  <2>2. cursor'[s] <= Len(log') + 1
    BY <1>2, <1>4, BusFacts DEF StreamInv, Follows, TypeOK
  <2>3. ~(s > subs')
    BY <1>4, <1>6 DEF StreamInv, Follows, Running
  <2>4. listener'[s].at # "none"
    BY <1>1, <1>3
  <2>5. ASSUME s \in Running'
        PROVE  /\ \A e \in listener'[s].buffer \union listener'[s].out : e < cursor'[s]
               /\ \A b \in Batches' : b[1] = s =>
                    \A e \in batch'[b].events :
                      e < cursor'[s] /\ e \notin listener'[s].buffer /\ e \notin listener'[s].out
    <3>1. r.at # "gone" /\ cursor'[s] = cursor[s]
      BY <1>3, <1>4, <2>5 DEF Running
    <3>2. /\ \A e \in r.buffer \union r.out : e < cursor[s]
          /\ \A b \in Batches : b[1] = s =>
               \A e \in batch[b].events : e < cursor[s] /\ e \notin r.buffer \union r.out
      BY <1>1, <1>6 DEF StreamInv, Follows
    <3> QED BY <1>3, <1>8, <3>1, <3>2 DEF SameBatches
  <2> QED BY <2>2, <2>3, <2>4, <2>5 DEF Follows
<1> QED BY <1>3, <1>5, <1>7, <1>8, <1>9, <1>10, ListenerKeeps

\* A receiver that moves on stays ahead of what its listener has and of the
\* batches; the listener keeps what it had and at most gains the event read.
LEMMA ReadKeeps ==
  ASSUME StreamInv, NEW s \in Subs, NEW r, Listens(s, r), TypeOK', r.at = "loop",
         r.out = {}, UNCHANGED <<log, subs, call, batch>>,
         cursor'[s] > cursor[s], cursor'[s] <= Len(log) + 1,
         r.buffer = listener[s].buffer \/ r.buffer = listener[s].buffer \union {cursor[s]},
         \A t \in Subs : t # s => cursor'[t] = cursor[t] /\ ignored'[t] = ignored[t]
  PROVE  StreamInv'
<1>2. TypeOK
  BY DEF StreamInv
<1>3. /\ listener' \in [Subs -> Listeners] /\ listener'[s] = r /\ Calm(listener[s])'
      /\ \A t \in Subs : t # s => listener'[t] = listener[t] /\ SameBut(t)
  BY <1>2, ListensFacts
<1>6. s \in Running
  BY DEF Listens
<1>7. AddOwnsIts'
  BY <1>3, <1>6, AddGoesOn
<1>8. BatchesSound' /\ Apart' /\ SameBatches
  BY BatchUnchanged DEF StreamInv, BatchesSound, Apart, SameBatches
<1>9. \A t \in Subs : t # s => Follows(t)'
  BY <1>2, <1>3, <1>8, FollowsFrame, BusFacts DEF StreamInv, TypeOK
<1>10. Follows(s)'
  <2>1. ~(s > subs')
    BY <1>6 DEF StreamInv, Follows, Running
  <2>2. cursor[s] \in Nat /\ cursor'[s] \in Nat
    BY <1>2 DEF TypeOK, BusTypeOK
  <2>3. \A e \in listener[s].buffer : e < cursor[s] /\ e \in Nat
    BY <1>2, <1>6, ListenerFacts, Constants DEF StreamInv, Follows
  <2>4. \A e \in r.buffer \union r.out : e < cursor'[s]
    BY <2>2, <2>3
  <2>5. \A b \in Batches : b[1] = s => \A e \in batch[b].events : e \in Nat /\ e < cursor[s]
    BY <1>2, <1>6, BatchFacts, Constants DEF StreamInv, Follows
  <2>6. \A b \in Batches : b[1] = s => \A e \in batch[b].events : e \notin listener[s].buffer
    BY <1>6 DEF StreamInv, Follows
  <2>7. \A b \in Batches : b[1] = s =>
          \A e \in batch[b].events : e < cursor'[s] /\ e \notin r.buffer /\ e \notin r.out
    BY <2>2, <2>5, <2>6
  <2> QED BY <1>3, <1>8, <2>1, <2>4, <2>7 DEF Follows, SameBatches
<1> QED BY <1>3, <1>7, <1>8, <1>9, <1>10, ListenerKeeps

LEMMA HearKeeps ==
  ASSUME StreamInv, NEW s \in Subs, HearEvent(s)
  PROVE  StreamInv'
<1>1. PICK r \in Listeners :
           /\ Listens(s, r) /\ r.at = "loop" /\ r.out = {} /\ listener[s].out = {}
           /\ \/ /\ r.buffer = listener[s].buffer \union {cursor[s]} /\ ignored' = ignored
                 /\ Cardinality(r.buffer) = Cardinality(listener[s].buffer) + 1
              \/ r.buffer = listener[s].buffer /\ ignored' = [ignored EXCEPT ![s] = @ + 1]
           /\ Receive(s)
           /\ UNCHANGED <<log, registry, subs, streamVars, call, slots, batch, permits, stage,
                          changes>>
  BY HearEffect
<1>2. TypeOK
  BY DEF StreamInv
<1>3. /\ BusTypeOK' /\ cursor'[s] = cursor[s] + 1 /\ cursor'[s] <= Len(log) + 1
      /\ \A t \in Subs : t # s => cursor'[t] = cursor[t]
  BY <1>1, <1>2, ReceiveTyped DEF TypeOK
<1>4. cursor[s] \in Nat
  BY <1>2, BusFacts DEF TypeOK
<1>5. ignored' \in [Subs -> Nat] /\ \A t \in Subs : t # s => ignored'[t] = ignored[t]
  BY <1>1, <1>2 DEF TypeOK
<1>6. listener' \in [Subs -> Listeners]
  BY <1>1, <1>2, ListensFacts
<1>7. TypeOK'
  BY <1>1, <1>2, <1>3, <1>5, <1>6 DEF TypeOK, streamVars
<1>8. cursor'[s] > cursor[s]
  BY <1>3, <1>4
<1> QED BY <1>1, <1>3, <1>5, <1>7, <1>8, ReadKeeps

LEMMA LagKeeps ==
  ASSUME StreamInv, NEW s \in Subs, HearLag(s)
  PROVE  StreamInv'
<1>1. PICK r \in Listeners :
           /\ Listens(s, r) /\ r.buffer = listener[s].buffer /\ r.out = listener[s].out
           /\ r.at = "loop"
  BY LagEffect
<1>2. TypeOK
  BY DEF StreamInv
<1>3. /\ SkipLost(s) /\ listener[s].at = "recv"
      /\ stats' = (IF stats = None THEN None ELSE [stats EXCEPT !.dropped = @ + Skipped(s)])
      /\ UNCHANGED <<log, registry, subs, config, processor, retired, handle, call, slots, batch,
                     permits, stage, changes, ignored>>
  BY DEF HearLag
<1>4. /\ BusTypeOK' /\ Skipped(s) \in Nat /\ cursor'[s] = cursor[s] + Skipped(s)
      /\ cursor'[s] <= Len(log) + 1
      /\ \A t \in Subs : t # s => cursor'[t] = cursor[t]
  BY <1>2, <1>3, SkipTyped DEF TypeOK
<1>5. cursor[s] \in Nat /\ Skipped(s) > 0
  <2>1. cursor[s] \in Nat /\ Len(log) \in Nat /\ Buffer \in Nat
    BY <1>2, BusFacts, Constants DEF TypeOK
  <2>2. Unread(s) > Buffer /\ Unread(s) \in Int
    BY <1>3, <2>1 DEF SkipLost, Behind, Unread
  <2> QED BY <2>1, <2>2 DEF Skipped
<1>6. listener' \in [Subs -> Listeners]
  BY <1>1, <1>2, ListensFacts
<1>7. stats' \in Counters \union {None}
  <2>1. CASE stats = None
    BY <1>3, <2>1
  <2>2. CASE stats # None
    <3>1. stats \in Counters /\ stats.dropped \in Nat
      BY <1>2, <2>2 DEF TypeOK, Counters
    <3>2. PICK m \in Nat : m = stats.dropped + Skipped(s)
      BY <1>4, <3>1
    <3>3. stats' = [stats EXCEPT !.dropped = m]
      BY <1>3, <2>2, <3>2
    <3> QED BY <3>1, <3>3 DEF Counters
  <2> QED BY <2>1, <2>2
<1>8. TypeOK'
  BY <1>2, <1>3, <1>4, <1>6, <1>7 DEF TypeOK
<1>9. cursor'[s] > cursor[s] /\ r.out = {}
  BY <1>1, <1>3, <1>4, <1>5 DEF StreamInv, Calm
<1> QED BY <1>1, <1>3, <1>4, <1>8, <1>9, ReadKeeps

LEMMA EndKeeps ==
  ASSUME StreamInv, NEW s \in Subs, ListenerEnds(s)
  PROVE  StreamInv'
<1>1. PICK r \in Listeners :
           /\ Listens(s, r) /\ r.buffer = listener[s].buffer /\ r.out = listener[s].out
           /\ r.at = "gone"
  BY LagEffect
<1>2. TypeOK
  BY DEF StreamInv
<1>3. /\ listener' \in [Subs -> Listeners] /\ listener'[s] = r /\ Calm(listener[s])'
      /\ \A t \in Subs : t # s => listener'[t] = listener[t] /\ SameBut(t)
  BY <1>1, <1>2, ListensFacts
<1>4. /\ DropSubscription(s)
      /\ UNCHANGED <<streamVars, call, slots, batch, permits, stage, changes, ignored>>
  BY DEF ListenerEnds
<1>5. /\ BusTypeOK' /\ cursor'[s] = 0 /\ log' = log /\ subs' = subs
      /\ \A t \in Subs : t # s => cursor'[t] = cursor[t]
  BY <1>2, <1>4, DropTyped DEF TypeOK
<1>6. TypeOK'
  BY <1>2, <1>3, <1>4, <1>5 DEF TypeOK, streamVars
<1>7. s \in Running
  BY <1>1 DEF Listens
<1>8. AddOwnsIts'
  BY <1>3, <1>4, <1>5, <1>7, AddGoesOn
<1>9. BatchesSound' /\ Apart' /\ SameBatches
  BY <1>4, BatchUnchanged DEF StreamInv, BatchesSound, Apart, SameBatches
<1>10. \A t \in Subs : t # s => Follows(t)'
  BY <1>2, <1>3, <1>5, <1>6, <1>9, FollowsFrame, BusFacts DEF StreamInv, TypeOK
<1>11. Follows(s)'
  <2>1. ~(s > subs')
    BY <1>5, <1>7 DEF StreamInv, Follows, Running
  <2>2. listener'[s].at # "none" /\ s \notin Running'
    BY <1>1, <1>3 DEF Running
  <2>3. cursor'[s] <= Len(log') + 1
    BY <1>2, <1>5, BusFacts DEF TypeOK
  <2> QED BY <2>1, <2>2, <2>3 DEF Follows
<1> QED BY <1>3, <1>6, <1>8, <1>9, <1>10, <1>11, ListenerKeeps

\* A new batch is apart from the ones there are.
LEMMA SpawnKeeps ==
  ASSUME StreamInv, NEW s \in Subs, SpawnBatch(s)
  PROVE  StreamInv'
<1> DEFINE E == listener[s].out
           n == <<s, NameOf(E)>>
           new == NewBatch(E)
<1>1. /\ E \in SUBSET Events /\ E # {} /\ Cardinality(E) \in Nat
      /\ n \in Names /\ n \notin Batches /\ n[1] = s
      /\ new \in Tasks /\ Sound(n, new) /\ new.events = E
      /\ IF BatchesClosed THEN UNCHANGED <<slots, batch>>
         ELSE /\ slots[s] >= Cardinality(E)
              /\ slots' = [slots EXCEPT ![s] = @ - Cardinality(E)]
              /\ batch' = [batch EXCEPT ![n] = new]
      /\ listener[s].buffer = {}
      /\ UNCHANGED <<busVars, streamVars, call, permits, stage, changes, ignored>>
  BY SpawnEffect
<1>2. PICK r \in Listeners : Listens(s, r) /\ r.at = "loop" /\ r.buffer = {} /\ r.out = {}
  BY SpawnEffect
<1> HIDE DEF E, n, new
<1>3. TypeOK
  BY DEF StreamInv
<1>4. /\ listener' \in [Subs -> Listeners] /\ listener'[s] = r /\ Calm(listener[s])'
      /\ \A t \in Subs : t # s => listener'[t] = listener[t] /\ SameBut(t)
  BY <1>2, <1>3, ListensFacts
<1>5. s \in Running
  BY <1>2 DEF Listens
<1>6. /\ BusTypeOK' /\ subs' = subs /\ log' = log /\ cursor' = cursor
  BY <1>1, <1>3 DEF TypeOK, BusTypeOK, busVars
<1>7. slots' \in [Subs -> Nat] /\ batch' \in [Names -> Tasks \union {None}]
  <2>1. CASE BatchesClosed
    BY <1>1, <1>3, <2>1 DEF TypeOK
  <2>2. CASE ~BatchesClosed
    <3>1. slots[s] \in Nat /\ slots[s] - Cardinality(E) \in Nat
      BY <1>1, <1>3, <2>2 DEF TypeOK
    <3> QED BY <1>1, <1>3, <2>2, <3>1 DEF TypeOK
  <2> QED BY <2>1, <2>2
<1>8. TypeOK'
  BY <1>1, <1>3, <1>4, <1>6, <1>7 DEF TypeOK, streamVars
<1>9. AddOwnsIts'
  BY <1>1, <1>4, <1>5, <1>6, AddGoesOn
<1>10. /\ \A b \in Batches : b \in Batches' /\ batch'[b] = batch[b] /\ b # n
       /\ \A b \in Batches' : b \in Batches \/ (b = n /\ batch'[b] = new)
  <2>1. CASE BatchesClosed
    BY <1>1, <2>1 DEF Batches
  <2>2. CASE ~BatchesClosed
    <3>1. /\ \A b \in Names : b # n => batch'[b] = batch[b]
          /\ batch'[n] = new
      BY <1>1, <1>3, <2>2 DEF TypeOK
    <3> QED BY <1>1, <3>1 DEF Batches
  <2> QED BY <2>1, <2>2
<1>11. BatchesSound'
  <2> SUFFICES ASSUME NEW b \in Batches' PROVE Sound(b, batch'[b])
    BY DEF BatchesSound, Sound, IsEnded
  <2> QED BY <1>1, <1>10 DEF StreamInv, BatchesSound
<1>12. \A b \in Batches : b[1] = s => batch[b].events \intersect E = {}
  BY <1>5 DEF StreamInv, Follows, E
<1>13. Apart'
  <2> SUFFICES ASSUME NEW b \in Batches', NEW c \in Batches', b[1] = c[1], b # c
               PROVE  batch'[b].events \intersect batch'[c].events = {}
    BY DEF Apart
  <2>1. CASE b \in Batches /\ c \in Batches
    BY <1>10, <2>1 DEF StreamInv, Apart
  <2>2. CASE b \notin Batches
    <3>1. b = n /\ batch'[b].events = E /\ c \in Batches /\ batch'[c] = batch[c]
      BY <1>1, <1>10, <2>2
    <3> QED BY <1>1, <1>12, <3>1
  <2>3. CASE c \notin Batches
    <3>1. c = n /\ batch'[c].events = E /\ b \in Batches /\ batch'[b] = batch[b]
      BY <1>1, <1>10, <2>3
    <3> QED BY <1>1, <1>12, <3>1
  <2> QED BY <2>1, <2>2, <2>3
<1>14. ASSUME NEW t \in Subs, t # s PROVE Follows(t)'
  <2>1. Follows(t) /\ SameBut(t) /\ (t \in Running' <=> t \in Running)
    BY <1>4, <1>14 DEF StreamInv, SameBut, Running
  <2>2. \A b \in Batches' : b[1] = t => b \in Batches /\ batch'[b] = batch[b]
    BY <1>1, <1>10, <1>14
  <2> QED BY <1>6, <2>1, <2>2 DEF Follows, SameBut
<1>15. Follows(s)'
  <2>1. ~(s > subs')
    BY <1>5, <1>6 DEF StreamInv, Follows, Running
  <2>2. listener'[s].at # "none"
    BY <1>2, <1>4
  <2>3. cursor'[s] <= Len(log') + 1
    BY <1>6 DEF StreamInv, Follows
  <2>4. \A e \in E : e < cursor[s]
    BY <1>5 DEF StreamInv, Follows, E
  <2>5. \A b \in Batches : b[1] = s => \A e \in batch[b].events : e < cursor[s]
    BY <1>5 DEF StreamInv, Follows
  <2>6. \A b \in Batches' : b[1] = s => \A e \in batch'[b].events : e < cursor'[s]
    BY <1>1, <1>6, <1>10, <2>4, <2>5
  <2> QED BY <1>2, <1>4, <2>1, <2>2, <2>3, <2>6 DEF Follows
<1> QED BY <1>4, <1>8, <1>9, <1>11, <1>13, <1>14, <1>15, ListenerKeeps

\* A batch that moves keeps its events; the others stay as they are.
LEMMA MovesFacts ==
  ASSUME TypeOK, NEW b, NEW r, Moves(b, r)
  PROVE  /\ b \in Batches /\ b \notin Ended /\ b \in Names /\ b[1] \in Subs
         /\ batch' \in [Names -> Tasks \union {None}] /\ batch'[b] = r /\ r # None
         /\ \A c \in Names : c # b => batch'[c] = batch[c]
         /\ SameBatches
<1>1. b \in Batches /\ b \notin Ended /\ r \in Tasks /\ batch' = [batch EXCEPT ![b] = r]
      /\ r.events = batch[b].events
  BY DEF Moves
<1>2. b \in Names /\ b[1] \in Subs
  BY <1>1, BatchFacts
<1>3. r # None
  BY <1>1, Constants
<1>4. /\ batch' \in [Names -> Tasks \union {None}] /\ batch'[b] = r
      /\ \A c \in Names : c # b => batch'[c] = batch[c]
  BY <1>1, <1>2 DEF TypeOK
<1>5. Batches' = Batches
  BY <1>1, <1>2, <1>3, <1>4 DEF Batches
<1>6. \A c \in Batches : batch'[c].events = batch[c].events
  BY <1>1, <1>4 DEF Batches
<1> QED BY <1>1, <1>2, <1>3, <1>4, <1>5, <1>6 DEF SameBatches

\* What a batch adds to the statistics.
LEMMA CountedTyped ==
  ASSUME TypeOK, NEW b \in Batches, NEW r \in Tasks, Counted(b, r)
  PROVE  stats' \in Counters \union {None}
<1>1. r.acked \in SUBSET Events /\ r.events \ r.acked \in SUBSET Events
  BY DEF Tasks
<1>2. Cardinality(r.acked) \in Nat /\ Cardinality(r.events \ r.acked) \in Nat
  BY <1>1, Finite
<1>3. CASE stats' = stats
  BY <1>3 DEF TypeOK
<1>4. CASE stats' # stats
  <2>1. stats' = IF stats = None THEN None
                 ELSE [stats EXCEPT !.ok = @ + Cardinality(r.acked),
                                    !.failed = @ + Cardinality(r.events \ r.acked)]
    BY <1>4 DEF Counted
  <2>2. CASE stats = None
    BY <2>1, <2>2
  <2>3. CASE stats # None
    <3>1. stats \in Counters /\ stats.ok \in Nat /\ stats.failed \in Nat
      BY <2>3 DEF TypeOK, Counters
    <3>2. PICK m \in Nat : m = stats.ok + Cardinality(r.acked)
      BY <1>2, <3>1
    <3>3. PICK k \in Nat : k = stats.failed + Cardinality(r.events \ r.acked)
      BY <1>2, <3>1
    <3>4. stats' = [stats EXCEPT !.ok = m, !.failed = k]
      BY <2>1, <2>3, <3>2, <3>3
    <3> QED BY <3>1, <3>4 DEF Counters
  <2> QED BY <2>2, <2>3
<1> QED BY <1>3, <1>4

\* Steps of batches that keep their events.
LEMMA TasksKeep ==
  ASSUME StreamInv, TypeOK', BatchesSound', SameBatches,
         UNCHANGED <<busVars, call, listener, ignored>>
  PROVE  StreamInv'
<1>1. /\ BusTypeOK /\ BusTypeOK' /\ subs' = subs /\ log' = log /\ cursor' = cursor
      /\ \A s \in Subs : SameBut(s) /\ Follows(s)
  BY DEF StreamInv, TypeOK, busVars, SameBut
<1>2. subs <= subs' /\ Len(log) <= Len(log')
  BY <1>1, BusFacts
<1>3. \A s \in Subs : Follows(s)'
  BY <1>1, <1>2, FollowsFrame
<1>4. AddOwnsIts'
  BY <1>1 DEF StreamInv, AddOwnsIts
<1>5. \A s \in Subs : Calm(listener[s])'
  BY DEF StreamInv, Calm, Full
<1>6. Apart'
  BY DEF StreamInv, Apart, SameBatches
<1> QED BY <1>3, <1>4, <1>5, <1>6 DEF StreamInv

LEMMA MovesKeeps ==
  ASSUME StreamInv, NEW b, NEW r, Moves(b, r)
  PROVE  StreamInv'
<1>1. TypeOK
  BY DEF StreamInv
<1>2. /\ b \in Batches /\ b \notin Ended /\ b \in Names /\ b[1] \in Subs
      /\ batch' \in [Names -> Tasks \union {None}] /\ batch'[b] = r /\ r # None
      /\ \A c \in Names : c # b => batch'[c] = batch[c]
      /\ SameBatches
  BY <1>1, MovesFacts
<1>3. /\ r \in Tasks /\ Sound(b, r) /\ permits' \in Nat /\ Counted(b, r)
      /\ slots' = IF IsEnded(r)
                    THEN [slots EXCEPT ![b[1]] = @ + Cardinality(batch[b].events)] ELSE slots
      /\ UNCHANGED <<busVars, config, processor, retired, handle, call, listener, stage, changes,
                     ignored>>
  BY DEF Moves
<1>4. stats' \in Counters \union {None}
  BY <1>1, <1>2, <1>3, CountedTyped
<1>5. slots' \in [Subs -> Nat]
  <2>1. Cardinality(batch[b].events) \in Nat /\ slots[b[1]] \in Nat
    BY <1>1, <1>2, BatchFacts, Finite DEF TypeOK
  <2>2. PICK m \in Nat : m = slots[b[1]] + Cardinality(batch[b].events)
    BY <2>1
  <2>3. slots' = IF IsEnded(r) THEN [slots EXCEPT ![b[1]] = m] ELSE slots
    BY <1>3, <2>2
  <2> QED BY <1>1, <2>3 DEF TypeOK
<1>6. BusTypeOK'
  BY <1>1, <1>3 DEF TypeOK, BusTypeOK, busVars
<1>7. TypeOK'
  BY <1>1, <1>2, <1>3, <1>4, <1>5, <1>6 DEF TypeOK
<1>8. BatchesSound'
  <2> SUFFICES ASSUME NEW c \in Batches' PROVE Sound(c, batch'[c])
    BY DEF BatchesSound, Sound, IsEnded
  <2>1. c \in Batches /\ c \in Names
    BY <1>2 DEF SameBatches, Batches
  <2> QED BY <1>2, <1>3, <2>1 DEF StreamInv, BatchesSound
<1> QED BY <1>2, <1>3, <1>7, <1>8, TasksKeep

\* The grace period is over: open batches are to abort.
LEMMA DrainsEffect ==
  ASSUME TypeOK, BatchesSound, ShutdownDrains
  PROVE  /\ batch' \in [Names -> Tasks \union {None}] /\ SameBatches /\ Ended' = Ended
         /\ BatchesSound'
         /\ \A b \in Batches : /\ batch'[b].at = batch[b].at /\ batch'[b].by = batch[b].by
                               /\ batch'[b].acked = batch[b].acked
         /\ \A b \in Batches \ Ended : batch'[b].abort
<1>1. ASSUME NEW b \in Names, b \in Batches \ Ended
      PROVE  LET n == batch'[b]
                 o == batch[b]
             IN /\ n \in Tasks /\ n # None /\ n.at = o.at /\ n.by = o.by /\ n.acked = o.acked
                /\ n.events = o.events /\ n.pending = o.pending /\ n.ok = o.ok
                /\ n.failed = o.failed /\ n.abort
  <2>1. batch[b] \in Tasks
    BY <1>1, BatchFacts
  <2>2. batch'[b] = [batch[b] EXCEPT !.abort = TRUE]
    BY <1>1 DEF ShutdownDrains
  <2>3. batch'[b] \in Tasks
    BY <2>1, <2>2 DEF Tasks
  <2> QED BY <2>1, <2>2, <2>3, Constants DEF Tasks
<1>2. ASSUME NEW b \in Names, b \notin Batches \ Ended PROVE batch'[b] = batch[b]
  BY <1>2 DEF ShutdownDrains
<1>3. batch' \in [Names -> Tasks \union {None}]
  <2>1. \A b \in Names : batch'[b] \in Tasks \union {None}
    BY <1>1, <1>2 DEF TypeOK
  <2>2. batch' = [b \in Names |-> batch'[b]]
    BY DEF ShutdownDrains
  <2> QED BY <2>1, <2>2
<1>4. Batches' = Batches
  BY <1>1, <1>2 DEF Batches
<1>5. \A b \in Batches : /\ batch'[b].at = batch[b].at /\ batch'[b].by = batch[b].by
                         /\ batch'[b].acked = batch[b].acked /\ batch'[b].events = batch[b].events
  BY <1>1, <1>2 DEF Batches
<1>6. Ended' = Ended
  BY <1>4, <1>5 DEF Ended
<1>7. BatchesSound'
  <2> SUFFICES ASSUME NEW b \in Batches PROVE Sound(b, batch'[b])
    BY <1>4 DEF BatchesSound, Sound, IsEnded
  <2>1. Sound(b, batch[b]) /\ b \in Names
    BY DEF BatchesSound, Batches
  <2>2. CASE b \in Batches \ Ended
    BY <1>1, <2>1, <2>2 DEF Sound, IsEnded
  <2>3. CASE b \in Ended
    BY <1>2, <2>1, <2>3
  <2> QED BY <2>2, <2>3
<1>8. \A b \in Batches \ Ended : batch'[b].abort
  BY <1>1 DEF Batches
<1> QED BY <1>3, <1>4, <1>5, <1>6, <1>7, <1>8 DEF SameBatches

LEMMA DrainsKeeps ==
  ASSUME StreamInv, ShutdownDrains
  PROVE  StreamInv'
<1>1. /\ batch' \in [Names -> Tasks \union {None}] /\ SameBatches /\ Ended' = Ended
      /\ BatchesSound'
  BY DrainsEffect DEF StreamInv
<1>2. /\ stage' = "drained"
      /\ UNCHANGED <<busVars, streamVars, call, listener, slots, permits, changes, ignored>>
  BY DEF ShutdownDrains
<1>3. BusTypeOK'
  BY <1>2 DEF StreamInv, TypeOK, BusTypeOK, busVars
<1>4. TypeOK'
  BY <1>1, <1>2, <1>3 DEF StreamInv, TypeOK, streamVars
<1> QED BY <1>1, <1>2, <1>4, TasksKeep

\* An add subscribes first, ...
LEMMA AddStreamKeeps ==
  ASSUME StreamInv, AddStream
  PROVE  StreamInv'
<1>1. /\ Subscribe(FALSE) /\ call' = "config"
      /\ ignored' = [ignored EXCEPT ![NextSub] = Len(log)]
      /\ UNCHANGED <<streamVars, taskVars, stage, changes>>
  BY DEF AddStream
<1>2. TypeOK /\ BusTypeOK
  BY DEF StreamInv, TypeOK
<1>3. /\ BusTypeOK' /\ NextSub \in Subs /\ subs' = NextSub /\ NextSub > subs /\ log' = log
      /\ cursor'[NextSub] = Len(log) + 1
      /\ \A t \in Subs : t # NextSub => cursor'[t] = cursor[t]
  BY <1>1, <1>2, SubscribeTyped
<1>4. Len(log) \in Nat /\ subs \in Nat
  BY <1>2, BusFacts
<1>5. ignored' \in [Subs -> Nat] /\ ignored'[NextSub] = Len(log)
  BY <1>1, <1>2, <1>3, <1>4 DEF TypeOK
<1>6. TypeOK'
  BY <1>1, <1>2, <1>3, <1>5 DEF TypeOK, Calls, AddCalls, streamVars, taskVars
<1>7. listener' = listener /\ batch' = batch
  BY <1>1 DEF taskVars
<1>8. listener[NextSub].at = "none"
  BY <1>3 DEF StreamInv, Follows
<1>9. AddOwnsIts'
  BY <1>1, <1>3, <1>5, <1>7, <1>8 DEF AddOwnsIts
<1>10. \A s \in Subs : \/ cursor'[s] = cursor[s]
                       \/ listener[s].at = "none" /\ cursor'[s] <= Len(log') + 1
  BY <1>3, <1>4, <1>8
<1>11. subs <= subs' /\ Len(log) <= Len(log')
  BY <1>3, <1>4, Constants
<1>12. \A s \in Subs : SameBut(s)
  BY <1>7 DEF SameBut
<1> QED BY <1>6, <1>7, <1>9, <1>10, <1>11, <1>12, SignalsKeep

\* Steps that leave the bus, the listeners and the batches alone.
LEMMA QuietKeeps ==
  ASSUME StreamInv, TypeOK', UNCHANGED <<log, cursor, subs, batch, ignored>>,
         \A s \in Subs : SameBut(s),
         call' \in AddCalls => call \in AddCalls
  PROVE  StreamInv'
<1>1. AddOwnsIts'
  BY DEF StreamInv, AddOwnsIts, SameBut
<1>2. subs \in Nat /\ Len(log) \in Nat
  BY BusFacts DEF StreamInv, TypeOK
<1>3. subs <= subs' /\ Len(log) <= Len(log')
  BY <1>2
<1> QED BY <1>1, <1>3, SignalsKeep

\* ... has a configuration, a processor and statistics, ...
LEMMA AddKeeps ==
  ASSUME StreamInv, AddConfig \/ AddProcessor \/ AddStats
  PROVE  StreamInv'
<1>1. /\ call \in AddCalls /\ call' \in AddCalls
      /\ config' \in {config, TRUE} /\ processor' \in {processor, subs}
      /\ stats' \in {stats, NewStats}
      /\ UNCHANGED <<busVars, retired, handle, taskVars, stage, changes, ignored>>
  BY DEF AddConfig, AddProcessor, AddStats, AddCalls
<1>2. subs \in Subs
  BY <1>1 DEF StreamInv, AddOwnsIts
<1>3. NewStats \in Counters
  BY DEF NewStats, Counters
<1>4. BusTypeOK'
  BY <1>1 DEF StreamInv, TypeOK, BusTypeOK, busVars
<1>5. TypeOK'
  BY <1>1, <1>2, <1>3, <1>4 DEF StreamInv, TypeOK, Calls, taskVars
<1> QED BY <1>1, <1>5, QuietKeeps DEF busVars, taskVars, SameBut

\* ... and then a listener, unless the manager is closed.
LEMMA AddHandleEffect ==
  ASSUME StreamInv, AddHandle
  PROVE  \E r \in Listeners :
           /\ listener' \in [Subs -> Listeners] /\ listener'[subs] = r
           /\ r.buffer = {} /\ r.out = {} /\ r.at = (IF stage = "up" THEN "loop" ELSE "gone")
           /\ \A s \in Subs : s # subs => SameBut(s)
<1> DEFINE stopped == IF handle = None THEN listener ELSE [listener EXCEPT ![handle].stop = TRUE]
           place == IF stage = "up" THEN "loop" ELSE "gone"
<1>1. listener \in [Subs -> Listeners] /\ handle \in Subs \union {None}
  BY DEF StreamInv, TypeOK
<1>2. /\ subs \in Subs /\ listener[subs].at = "none" /\ listener[subs].buffer = {}
      /\ listener[subs].out = {}
  BY DEF AddHandle, StreamInv, AddOwnsIts, AddCalls, Calm
<1>3. listener' = [stopped EXCEPT ![subs] = [stopped[subs] EXCEPT !.at = place]]
  BY DEF AddHandle
<1>4. /\ stopped \in [Subs -> Listeners]
      /\ \A s \in Subs : /\ stopped[s].at = listener[s].at /\ stopped[s].out = listener[s].out
                         /\ stopped[s].buffer = listener[s].buffer
  <2>1. CASE handle = None
    BY <1>1, <2>1
  <2>2. CASE handle \in Subs
    <3> DEFINE x == [listener[handle] EXCEPT !.stop = TRUE]
    <3>1. stopped = [listener EXCEPT ![handle] = x]
      BY <2>2, Constants
    <3>2. listener[handle] \in Listeners
      BY <1>1, <2>2
    <3>3. /\ x \in Listeners /\ x.at = listener[handle].at /\ x.out = listener[handle].out
          /\ x.buffer = listener[handle].buffer
      BY <3>2 DEF Listeners
    <3> HIDE DEF x, stopped
    <3> QED BY <1>1, <2>2, <3>1, <3>3
  <2> QED BY <1>1, <2>1, <2>2
<1> HIDE DEF stopped
<1> DEFINE r == [stopped[subs] EXCEPT !.at = place]
<1>5. place \in Places
  BY DEF Places
<1>6. stopped[subs] \in Listeners
  BY <1>2, <1>4
<1> HIDE DEF place
<1>7. r \in Listeners /\ r.at = place /\ r.buffer = {} /\ r.out = {}
  BY <1>2, <1>4, <1>5, <1>6 DEF Listeners
<1>8. listener' = [stopped EXCEPT ![subs] = r]
  BY <1>3
<1> HIDE DEF r
<1>9. listener' \in [Subs -> Listeners] /\ listener'[subs] = r
  BY <1>2, <1>4, <1>7, <1>8
<1>10. \A s \in Subs : s # subs => SameBut(s)
  BY <1>2, <1>4, <1>8 DEF SameBut
<1> QED BY <1>7, <1>9, <1>10 DEF place

LEMMA AddHandleKeeps ==
  ASSUME StreamInv, AddHandle
  PROVE  StreamInv'
<1>1. PICK r \in Listeners :
           /\ listener' \in [Subs -> Listeners] /\ listener'[subs] = r
           /\ r.buffer = {} /\ r.out = {} /\ r.at = (IF stage = "up" THEN "loop" ELSE "gone")
           /\ \A s \in Subs : s # subs => SameBut(s)
  BY AddHandleEffect
<1>2. /\ subs \in Subs /\ listener[subs].at = "none" /\ TypeOK /\ BusTypeOK
  BY DEF AddHandle, StreamInv, AddOwnsIts, AddCalls, TypeOK
<1>3. /\ call' = "none" /\ handle' = subs
      /\ UNCHANGED <<log, subs, config, processor, retired, stats, slots, batch, permits, stage,
                     changes, ignored>>
      /\ \E S : Unsubscribe(S)
      /\ cursor' = cursor \/ cursor' = [cursor EXCEPT ![subs] = 0]
  BY DEF AddHandle
<1>4. /\ cursor' \in [Subs -> 0..(MaxEvents + 1)]
      /\ cursor'[subs] = cursor[subs] \/ cursor'[subs] = 0
      /\ \A s \in Subs : s # subs => cursor'[s] = cursor[s]
  BY <1>2, <1>3, Constants DEF BusTypeOK
<1>5. BusTypeOK'
  BY <1>2, <1>3, <1>4 DEF BusTypeOK, Unsubscribe
<1>6. TypeOK'
  BY <1>1, <1>2, <1>3, <1>5 DEF TypeOK, Calls
<1>7. AddOwnsIts'
  BY <1>3 DEF AddOwnsIts, AddCalls
<1>8. BatchesSound' /\ Apart' /\ SameBatches
  BY <1>3, BatchUnchanged DEF StreamInv, BatchesSound, Apart, SameBatches
<1>9. subs <= subs' /\ Len(log) <= Len(log') /\ Len(log) \in Nat /\ subs \in Nat
  BY <1>2, <1>3, BusFacts
<1>10. \A t \in Subs : t # subs => SameBut(t) /\ Follows(t)'
  BY <1>1, <1>2, <1>4, <1>5, <1>8, <1>9, FollowsFrame DEF StreamInv
<1>11. Follows(subs)'
  <2>1. cursor'[subs] <= Len(log') + 1 /\ ~(subs > subs')
    BY <1>2, <1>3, <1>4, <1>9 DEF StreamInv, Follows
  <2>2. \A b \in Batches' : b[1] # subs
    BY <1>2, <1>8 DEF StreamInv, Follows, SameBatches
  <2> QED BY <1>1, <1>3, <2>1, <2>2 DEF Follows
<1>12. Calm(listener[subs])'
  <2>1. Cardinality({}) = 0
    BY FS_EmptySet
  <2>2. r.at \in {"loop", "gone"}
    BY <1>1
  <2>3. Calm(r)
    BY <1>1, <2>1, <2>2, Constants DEF Calm
  <2>4. listener'[subs'] = r
    BY <1>1, <1>3
  <2> QED BY <2>3, <2>4 DEF Calm, Full
<1>13. subs' = subs
  BY <1>3
<1> QED BY <1>2, <1>6, <1>7, <1>8, <1>10, <1>11, <1>12, <1>13, ListenerKeeps

LEMMA StopKeeps ==
  ASSUME StreamInv, RemoveStream \/ ShutdownDropsHandle
  PROVE  StreamInv'
<1>1. /\ StopListener(handle) /\ Unsubscribe({handle} \ {None}) /\ handle' = None
      /\ UNCHANGED <<log, cursor, subs, config, processor, retired, stats, slots, batch, permits,
                     ignored>>
      /\ call' = call \/ call' = "remove"
      /\ \/ changes' = changes + 1 /\ stage' = stage
         \/ changes' = changes /\ stage' = "draining"
  BY DEF RemoveStream, ShutdownDropsHandle
<1>2. listener' \in [Subs -> Listeners] /\ \A s \in Subs : SameBut(s)
  BY <1>1, StopEffect DEF StreamInv, TypeOK
<1>3. BusTypeOK'
  BY <1>1, UnsubscribeTyped DEF StreamInv, TypeOK
<1>4. changes' \in Nat
  BY <1>1 DEF StreamInv, TypeOK
<1>5. TypeOK'
  BY <1>1, <1>2, <1>3, <1>4 DEF StreamInv, TypeOK, Calls, RemoveCalls
<1> QED BY <1>1, <1>2, <1>5, QuietKeeps DEF AddCalls

LEMMA RemoveKeeps ==
  ASSUME StreamInv, RemoveProcessor \/ RemoveConfig \/ RemoveStats \/ ShutdownProcessors
  PROVE  StreamInv'
<1>1. /\ \/ UNCHANGED <<processor, retired>>
         \/ processor' = None /\ retired' = retired \union ({processor} \ {None})
      /\ UNCHANGED <<busVars, handle, taskVars, changes, ignored>>
      /\ call' \in {call, "none", "removeConfig", "removeStats"}
      /\ stage' \in {stage, "down"}
      /\ config' \in {config, None}
      /\ stats' \in {stats, None}
  BY DEF RemoveProcessor, RemoveConfig, RemoveStats, ShutdownProcessors
<1>2. BusTypeOK'
  BY <1>1 DEF StreamInv, TypeOK, BusTypeOK, busVars
<1>3. retired' \in SUBSET Subs
  BY <1>1 DEF StreamInv, TypeOK
<1>4. TypeOK'
  BY <1>1, <1>2, <1>3 DEF StreamInv, TypeOK, Calls, RemoveCalls, taskVars
<1>5. call' \in AddCalls => call \in AddCalls
  BY <1>1 DEF AddCalls
<1> QED BY <1>1, <1>4, <1>5, QuietKeeps DEF busVars, taskVars, SameBut

LEMMA SetEnabledKeeps ==
  ASSUME StreamInv, SetEnabled
  PROVE  StreamInv'
<1>1. /\ config # None /\ changes' = changes + 1 /\ config' = ~config
      /\ UNCHANGED <<busVars, processor, retired, stats, handle, call, taskVars, stage, ignored>>
  BY DEF SetEnabled
<1>2. config' \in BOOLEAN \union {None}
  <2>1. config' \in BOOLEAN
    BY <1>1, Zenon
  <2> QED BY <2>1
<1>3. BusTypeOK'
  BY <1>1 DEF StreamInv, TypeOK, BusTypeOK, busVars
<1>4. changes' \in Nat
  BY <1>1 DEF StreamInv, TypeOK
<1>5. TypeOK'
  BY <1>1, <1>2, <1>3, <1>4 DEF StreamInv, TypeOK, taskVars
<1> QED BY <1>1, <1>5, QuietKeeps DEF busVars, taskVars, SameBut

LEMMA PublishKeeps ==
  ASSUME StreamInv, Publish
  PROVE  StreamInv'
<1>1. PICK kind \in Kinds : PublishEvent(kind)
  BY DEF Publish
<1>2. UNCHANGED <<streamVars, call, taskVars, stage, changes, ignored>>
  BY DEF Publish
<1>3. BusTypeOK' /\ Len(log') = Len(log) + 1 /\ UNCHANGED <<cursor, registry, subs>>
  BY <1>1, PublishTyped DEF StreamInv, TypeOK
<1>4. TypeOK'
  BY <1>2, <1>3 DEF StreamInv, TypeOK, streamVars, taskVars
<1>5. AddOwnsIts'
  BY <1>2, <1>3 DEF StreamInv, AddOwnsIts, taskVars
<1>6. subs <= subs' /\ Len(log) <= Len(log')
  BY <1>3, BusFacts DEF StreamInv, TypeOK
<1> QED BY <1>2, <1>3, <1>4, <1>5, <1>6, SignalsKeep DEF taskVars, SameBut

LEMMA BeginsKeeps ==
  ASSUME StreamInv, ShutdownBegins
  PROVE  StreamInv'
<1>1. /\ stage' = "closed"
      /\ UNCHANGED <<busVars, streamVars, call, slots, batch, permits, changes, ignored>>
  BY DEF ShutdownBegins
<1>2. listener' \in [Subs -> Listeners] /\ \A s \in Subs : SameBut(s)
  BY BeginsEffect DEF StreamInv
<1>3. BusTypeOK'
  BY <1>1 DEF StreamInv, TypeOK, BusTypeOK, busVars
<1>4. TypeOK'
  BY <1>1, <1>2, <1>3 DEF StreamInv, TypeOK, streamVars
<1> QED BY <1>1, <1>2, <1>4, QuietKeeps DEF busVars

LEMMA StutterKeeps ==
  ASSUME StreamInv, UNCHANGED vars
  PROVE  StreamInv'
<1>1. BusTypeOK'
  BY DEF StreamInv, TypeOK, BusTypeOK, busVars, vars
<1>2. TypeOK'
  BY <1>1 DEF StreamInv, TypeOK, vars
<1> QED BY <1>2, QuietKeeps DEF vars, busVars, SameBut

\* The steps of the stream, without the names of their actors.
LEMMA StepsAre ==
  ASSUME TypeOK, BatchesSound, Next
  PROVE  \/ AddStream \/ AddConfig \/ AddProcessor \/ AddStats \/ AddHandle
         \/ RemoveStream \/ RemoveProcessor \/ RemoveConfig \/ RemoveStats \/ SetEnabled
         \/ Publish
         \/ \E s \in Subs : ListenerStep(s)
         \/ \E b, r : Moves(b, r)
         \/ ShutdownBegins \/ ShutdownDropsHandle \/ ShutdownDrains \/ ShutdownProcessors
<1>1. ASSUME NEW b \in Names, BatchStep(b) PROVE \E c, r : Moves(c, r)
  BY <1>1, BatchMoves
<1> QED BY <1>1 DEF Next, SystemStep

LEMMA StreamInit == Init => StreamInv
<1> SUFFICES ASSUME Init PROVE StreamInv
  OBVIOUS
<1>1. Cardinality({}) = 0
  BY FS_EmptySet
<1>2. NoListener \in Listeners /\ NoListener.at = "none" /\ NoListener.buffer = {} /\ NoListener.out = {}
  BY DEF NoListener, Listeners, Places
<1>3. BusTypeOK
  BY Constants DEF Init, BusInit, BusTypeOK
<1>4. TypeOK
  BY <1>2, <1>3, Constants DEF Init, TypeOK, Calls
<1>5. \A s \in Subs : listener[s] = NoListener
  BY DEF Init
<1>6. AddOwnsIts
  BY DEF Init, AddOwnsIts, AddCalls
<1>7. \A s \in Subs : Calm(listener[s])
  <2>1. MaxInFlight \in Nat /\ 0 <= MaxInFlight
    BY Constants
  <2>2. Cardinality(NoListener.buffer) = 0 /\ Cardinality(NoListener.out) = 0
    BY <1>1, <1>2
  <2>3. Calm(NoListener)
    BY <1>2, <2>1, <2>2 DEF Calm
  <2> QED BY <1>5, <2>3
<1>8. Batches = {}
  BY DEF Init, Batches
<1>9. BatchesSound /\ Apart
  BY <1>8 DEF BatchesSound, Apart
<1>10. \A s \in Subs : Follows(s)
  <2> SUFFICES ASSUME NEW s \in Subs PROVE Follows(s)
    OBVIOUS
  <2>1. cursor[s] = 0 /\ Len(log) = 0
    BY DEF Init, BusInit
  <2>2. s \notin Running
    BY <1>2, <1>5 DEF Running
  <2> QED BY <1>2, <1>5, <1>8, <2>1, <2>2 DEF Follows
<1> QED BY <1>4, <1>6, <1>7, <1>9, <1>10 DEF StreamInv

LEMMA StreamStep == StreamInv /\ [Next]_vars => StreamInv'
<1> SUFFICES ASSUME StreamInv, [Next]_vars PROVE StreamInv'
  OBVIOUS
<1>1. CASE UNCHANGED vars
  BY <1>1, StutterKeeps
<1>2. CASE Next
  <2>1. ASSUME NEW s \in Subs, ListenerStep(s) PROVE StreamInv'
    BY <2>1, TurnKeeps, HearKeeps, LagKeeps, SpawnKeeps, EndKeeps DEF ListenerStep
  <2>2. ASSUME NEW b, NEW r, Moves(b, r) PROVE StreamInv'
    BY <2>2, MovesKeeps
  <2>3. TypeOK /\ BatchesSound
    BY DEF StreamInv
  <2> QED BY <1>2, <2>1, <2>2, <2>3, StepsAre, AddStreamKeeps, AddKeeps, AddHandleKeeps,
             StopKeeps, RemoveKeeps, SetEnabledKeeps, PublishKeeps, BeginsKeeps,
             DrainsKeeps
<1> QED BY <1>1, <1>2

LEMMA StreamAlways == Spec => []StreamInv
BY StreamInit, StreamStep, PTL DEF Spec

-----------------------------------------------------------------------------
(* The backend is shut down last.                                          *)

\* Steps of listeners leave the calls and shutdown alone; only a batch that
\* is spawned is new.
LEMMA ListenerLeaves ==
  ASSUME StreamInv, NEW s \in Subs, ListenerStep(s)
  PROVE  /\ UNCHANGED <<config, processor, retired, handle, call, permits, stage, changes, subs, log>>
         /\ \/ SpawnBatch(s)
            \/ UNCHANGED <<batch, slots>>
<1>1. CASE TurnLoop(s) \/ BufferFallsDue(s)
  BY <1>1 DEF TurnLoop, BufferFallsDue, NextTurn, streamVars, busVars, DropSubscription
<1>2. CASE HearEvent(s)
  BY <1>2 DEF HearEvent, streamVars
<1>3. CASE HearLag(s)
  BY <1>3 DEF HearLag
<1>4. CASE SpawnBatch(s)
  BY <1>4 DEF SpawnBatch, streamVars, busVars
<1>5. CASE ListenerEnds(s)
  BY <1>5 DEF ListenerEnds, streamVars, DropSubscription
<1> QED BY <1>1, <1>2, <1>3, <1>4, <1>5 DEF ListenerStep

\* Spawning adds a batch.
LEMMA SpawnAdds ==
  ASSUME StreamInv, NEW s \in Subs, SpawnBatch(s), ~BatchesClosed
  PROVE  \E n \in Names :
           /\ n \notin Batches /\ n[1] = s /\ Batches' = Batches \union {n} /\ Ended' = Ended
           /\ batch'[n].events = listener[s].out /\ batch'[n].at = "start" /\ ~batch'[n].abort
           /\ \A b \in Batches : batch'[b] = batch[b]
           /\ slots' = [slots EXCEPT ![s] = @ - Cardinality(listener[s].out)]
<1> DEFINE E == listener[s].out
           n == <<s, NameOf(E)>>
           new == NewBatch(E)
<1>1. /\ n \in Names /\ n \notin Batches /\ n[1] = s
      /\ new \in Tasks /\ new.events = E /\ new.at = "start" /\ ~new.abort
      /\ slots' = [slots EXCEPT ![s] = @ - Cardinality(E)]
      /\ batch' = [batch EXCEPT ![n] = new]
  BY SpawnEffect
<1> HIDE DEF E, n, new
<1>2. /\ \A b \in Names : b # n => batch'[b] = batch[b]
      /\ batch'[n] = new /\ new # None
  BY <1>1, Constants DEF StreamInv, TypeOK
<1>3. Batches' = Batches \union {n}
  BY <1>1, <1>2 DEF Batches
<1>4. \A b \in Batches : batch'[b] = batch[b]
  BY <1>1, <1>2 DEF Batches
<1>5. Ended' = Ended
  BY <1>1, <1>2, <1>3, <1>4 DEF Ended
<1> QED BY <1>1, <1>2, <1>3, <1>4, <1>5 DEF E

LEMMA LastStep ==
  ASSUME StreamInv, LastInv, [Next]_vars
  PROVE  LastInv'
<1>1. changes \in Nat
  BY DEF StreamInv, TypeOK
<1>2. ASSUME UNCHANGED <<call, stage, changes, retired>>,
             \A b \in Batches' \ Ended' :
               (b \in Batches \ Ended /\ (batch'[b].abort <=> batch[b].abort))
                 \/ (~BatchesClosed /\ ~batch'[b].abort)
      PROVE  LastInv'
  BY <1>2 DEF LastInv, BatchesClosed
<1>3. CASE UNCHANGED vars
  <2>1. UNCHANGED <<call, stage, changes, retired, batch>>
    BY <1>3 DEF vars
  <2> QED BY <1>2, <2>1, BatchUnchanged DEF SameBatches
<1>4. ASSUME batch' = batch, stage' = stage, retired' = retired, changes' = changes,
             call' \notin RemoveCalls
      PROVE  LastInv'
  BY <1>4, BatchUnchanged DEF LastInv, SameBatches
<1>5. CASE AddStream \/ AddConfig \/ AddProcessor \/ AddStats \/ AddHandle
  BY <1>4, <1>5 DEF AddStream, AddConfig, AddProcessor, AddStats, AddHandle, RemoveCalls, streamVars,
                    taskVars
<1>6. CASE RemoveStream \/ SetEnabled
  <2>1. changes' = changes + 1 /\ UNCHANGED <<batch, stage, retired>>
    BY <1>6 DEF RemoveStream, SetEnabled, taskVars
  <2>2. changes' > 0
    BY <1>1, <2>1
  <2> QED BY <2>1, <2>2, BatchUnchanged DEF LastInv, SameBatches
<1>7. CASE RemoveProcessor \/ RemoveConfig \/ RemoveStats
  <2>1. call \in RemoveCalls /\ UNCHANGED <<batch, stage, changes>>
    BY <1>7 DEF RemoveProcessor, RemoveConfig, RemoveStats, RemoveCalls, taskVars
  <2>2. changes' > 0
    BY <2>1 DEF LastInv
  <2> QED BY <1>1, <2>1, <2>2, BatchUnchanged DEF LastInv, SameBatches
<1>8. CASE Publish
  BY <1>2, <1>8, BatchUnchanged DEF Publish, streamVars, taskVars, SameBatches
<1>9. ASSUME NEW s \in Subs, ListenerStep(s) PROVE LastInv'
  <2>1. UNCHANGED <<call, stage, changes, retired>>
    BY <1>9, ListenerLeaves
  <2>2. CASE batch' = batch
    BY <1>2, <2>1, <2>2, BatchUnchanged DEF SameBatches
  <2>3. CASE SpawnBatch(s) /\ ~BatchesClosed
    <3>1. PICK n \in Names :
           /\ n \notin Batches /\ n[1] = s /\ Batches' = Batches \union {n} /\ Ended' = Ended
           /\ batch'[n].events = listener[s].out /\ batch'[n].at = "start" /\ ~batch'[n].abort
           /\ \A b \in Batches : batch'[b] = batch[b]
           /\ slots' = [slots EXCEPT ![s] = @ - Cardinality(listener[s].out)]
      BY <2>3, SpawnAdds
    <3> QED BY <1>2, <2>1, <2>3, <3>1
  <2>4. CASE SpawnBatch(s) /\ BatchesClosed
    BY <2>2, <2>4 DEF SpawnBatch
  <2> QED BY <1>9, <2>2, <2>3, <2>4, ListenerLeaves
<1>10. ASSUME NEW b, NEW r, Moves(b, r) PROVE LastInv'
  <2>1. /\ b \in Batches \ Ended /\ batch'[b] = r /\ Batches' = Batches
        /\ \A c \in Batches : c # b => batch'[c] = batch[c]
    BY <1>10, MovesFacts DEF StreamInv, SameBatches, Batches
  <2>2. UNCHANGED <<call, stage, changes, retired>> /\ (~IsEnded(r) => r.abort = batch[b].abort)
    BY <1>10 DEF Moves
  <2>3. \A c \in Batches' \ Ended' : c \in Batches \ Ended /\ batch'[c].abort = batch[c].abort
    BY <2>1, <2>2 DEF Ended, IsEnded
  <2> QED BY <1>2, <2>2, <2>3
<1>11. CASE ShutdownBegins \/ ShutdownDropsHandle
  <2>1. /\ stage \in {"up", "closed"} /\ stage' \in {"closed", "draining"}
        /\ UNCHANGED <<batch, changes, retired, call>>
    BY <1>11 DEF ShutdownBegins, ShutdownDropsHandle, streamVars
  <2> QED BY <2>1, BatchUnchanged DEF LastInv, SameBatches
<1>12. CASE ShutdownDrains
  <2>1. /\ SameBatches /\ Ended' = Ended
        /\ \A b \in Batches \ Ended : batch'[b].abort
    BY <1>12, DrainsEffect DEF StreamInv
  <2>2. stage = "draining" /\ stage' = "drained" /\ UNCHANGED <<changes, retired, call>>
    BY <1>12 DEF ShutdownDrains, streamVars
  <2> QED BY <2>1, <2>2 DEF LastInv, SameBatches
<1>13. CASE ShutdownProcessors
  <2>1. stage = "drained" /\ stage' = "down" /\ UNCHANGED <<batch, changes, call>>
    BY <1>13 DEF ShutdownProcessors, taskVars
  <2> QED BY <2>1, BatchUnchanged DEF LastInv, SameBatches
<1>14. CASE Next
  <2>1. TypeOK /\ BatchesSound
    BY DEF StreamInv
  <2> QED BY <1>5, <1>6, <1>7, <1>8, <1>9, <1>10, <1>11, <1>12, <1>13, <1>14, <2>1, StepsAre
<1> QED BY <1>3, <1>14

LEMMA LastAlways == Spec => []LastInv
<1>1. Init => LastInv
  BY DEF Init, LastInv, RemoveCalls, Batches
<1>2. StreamInv /\ LastInv /\ [Next]_vars => LastInv'
  BY LastStep
<1> QED BY <1>1, <1>2, StreamAlways, PTL DEF Spec

\* shutdown (streaming.rs) retires the processors, and with them the backend,
\* after the batches have ended or been aborted, however its steps interleave
\* with listeners that still spawn batches and with an add in progress.
THEOREM BackendIsShutDownLast == Spec => []BackendShutDownLast
<1>1. LastInv => BackendShutDownLast
  <2> SUFFICES ASSUME LastInv, changes = 0, NEW b \in Batches \ Ended, batch[b].by \in retired
               PROVE  batch[b].abort
    BY DEF BackendShutDownLast
  <2>1. stage = "down"
    BY DEF LastInv
  <2> QED BY <2>1 DEF LastInv
<1> QED BY <1>1, LastAlways, PTL

-----------------------------------------------------------------------------
(* Slots and permits come back.                                            *)

\* The pairs of EventsIn, for batch tasks f.
PairsOf(f, B) == {p \in B \X Events : p[2] \in f[p[1]].events}

LEMMA EventsInIs ==
  \A B : EventsIn(B) = PairsOf(batch, B)
BY DEF EventsIn, PairsOf

LEMMA NamesFinite ==
  /\ IsFiniteSet(Names) /\ IsFiniteSet(Names \X Events)
  /\ \A B \in SUBSET Names : IsFiniteSet(B) /\ Cardinality(B) \in Nat
<1>1. IsFiniteSet(Subs) /\ IsFiniteSet(Events)
  BY Constants, Finite, FS_Interval DEF Subs
<1>2. IsFiniteSet(Names)
  BY <1>1, FS_Product DEF Names
<1>3. IsFiniteSet(Names \X Events)
  BY <1>1, <1>2, FS_Product
<1>4. \A B \in SUBSET Names : IsFiniteSet(B)
  BY <1>2, FS_Subset
<1> QED BY <1>2, <1>3, <1>4, FS_CardinalityType

LEMMA PairsFinite ==
  ASSUME NEW f, NEW B \in SUBSET Names
  PROVE  IsFiniteSet(PairsOf(f, B)) /\ Cardinality(PairsOf(f, B)) \in Nat
<1>1. PairsOf(f, B) \in SUBSET (Names \X Events)
  BY DEF PairsOf
<1>2. IsFiniteSet(PairsOf(f, B))
  BY <1>1, NamesFinite, FS_Subset
<1> QED BY <1>2, FS_CardinalityType

\* Batch tasks with the same events have the same pairs.
LEMMA PairsSame ==
  ASSUME NEW f, NEW g, NEW B, \A b \in B : f[b].events = g[b].events
  PROVE  PairsOf(f, B) = PairsOf(g, B)
BY DEF PairsOf

\* One batch more adds its events.
LEMMA PairsAdd ==
  ASSUME NEW f, NEW B \in SUBSET Names, NEW n \in Names, n \notin B,
         f[n].events \in SUBSET Events
  PROVE  Cardinality(PairsOf(f, B \union {n}))
           = Cardinality(PairsOf(f, B)) + Cardinality(f[n].events)
<1> DEFINE P == PairsOf(f, B)
           E == f[n].events
           Q == {n} \X E
<1>1. PairsOf(f, B \union {n}) = P \union Q
  BY DEF PairsOf
<1>2. P \intersect Q = {}
  BY DEF PairsOf
<1>3. IsFiniteSet(P) /\ Cardinality(P) \in Nat
  BY PairsFinite
<1>4. IsFiniteSet(E) /\ Cardinality(E) \in Nat
  BY Finite
<1>5. IsFiniteSet({n}) /\ Cardinality({n}) = 1
  BY FS_Singleton
<1>6. IsFiniteSet(Q) /\ Cardinality(Q) = Cardinality({n}) * Cardinality(E)
  BY <1>4, <1>5, FS_Product
<1>7. Cardinality(Q) = Cardinality(E)
  BY <1>4, <1>5, <1>6
<1> HIDE DEF P, Q, E
<1>8. Cardinality(P \union Q) = Cardinality(P) + Cardinality(Q) - Cardinality(P \intersect Q)
  BY <1>3, <1>6, FS_Union
<1>9. Cardinality(P \intersect Q) = 0
  BY <1>2, FS_EmptySet
<1>10. Cardinality(P \union Q) = Cardinality(P) + Cardinality(E)
  BY <1>3, <1>4, <1>7, <1>8, <1>9
<1> QED BY <1>1, <1>10 DEF P, E

LEMMA OpenFacts ==
  ASSUME NEW s
  PROVE  /\ OpenOf(s) \in SUBSET Names
         /\ Cardinality(EventsIn(OpenOf(s))) \in Nat
         /\ EventsIn(OpenOf(s)) = PairsOf(batch, OpenOf(s))
         /\ EventsIn(OpenOf(s))' = PairsOf(batch', OpenOf(s)')
<1>1. OpenOf(s) \in SUBSET Names
  BY DEF OpenOf, Batches
<1>2. EventsIn(OpenOf(s)) = PairsOf(batch, OpenOf(s))
  BY EventsInIs
<1>3. EventsIn(OpenOf(s))' = PairsOf(batch', OpenOf(s)')
  BY DEF EventsIn, PairsOf
<1> QED BY <1>1, <1>2, <1>3, PairsFinite

\* What is in flight stays there while batches keep their events and do not end.
LEMMA InFlightSame ==
  ASSUME NEW s, OpenOf(s)' = OpenOf(s), \A b \in OpenOf(s) : batch'[b].events = batch[b].events
  PROVE  EventsIn(OpenOf(s))' = EventsIn(OpenOf(s))
BY OpenFacts, PairsSame

LEMMA SendingFacts ==
  IsFiniteSet(SendingSet) /\ Cardinality(SendingSet) \in Nat
<1>1. SendingSet \in SUBSET Names
  BY DEF SendingSet, Batches
<1> QED BY <1>1, NamesFinite

\* A step of a batch keeps the balance of the permits ...
LEMMA MovesPermits ==
  ASSUME StreamInv, NEW b, NEW r, Moves(b, r)
  PROVE  permits' + Cardinality(SendingSet') = permits + Cardinality(SendingSet)
<1>1. /\ b \in Batches /\ batch'[b] = r /\ Batches' = Batches
      /\ \A c \in Batches : c # b => batch'[c] = batch[c]
  BY MovesFacts DEF StreamInv, SameBatches, Batches
<1>2. permits' \in Nat /\ permits \in Nat
  BY DEF Moves, StreamInv, TypeOK
<1>3. IsFiniteSet(SendingSet) /\ Cardinality(SendingSet) \in Nat
  BY SendingFacts
<1>4. b \in SendingSet <=> batch[b].at = "sending"
  BY <1>1 DEF SendingSet
<1> DEFINE after == IF r.at = "sending" THEN 1 ELSE 0
           before == IF batch[b].at = "sending" THEN 1 ELSE 0
<1>5. permits' + after = permits + before
  BY DEF Moves
<1>6. after \in Nat /\ before \in Nat
  OBVIOUS
<1>7. Cardinality(SendingSet') + before = Cardinality(SendingSet) + after
  <2>1. CASE r.at = "sending"
    <3>1. SendingSet' = SendingSet \union {b}
      BY <1>1, <2>1 DEF SendingSet
    <3>2. Cardinality(SendingSet') = IF b \in SendingSet THEN Cardinality(SendingSet)
                                     ELSE Cardinality(SendingSet) + 1
      BY <1>3, <3>1, FS_AddElement
    <3> QED BY <1>3, <1>4, <2>1, <3>2
  <2>2. CASE r.at # "sending"
    <3>1. SendingSet' = SendingSet \ {b}
      BY <1>1, <2>2 DEF SendingSet
    <3>2. Cardinality(SendingSet') = IF b \in SendingSet THEN Cardinality(SendingSet) - 1
                                     ELSE Cardinality(SendingSet)
      BY <1>3, <3>1, FS_RemoveElement
    <3> QED BY <1>3, <1>4, <2>2, <3>2
  <2> QED BY <2>1, <2>2
<1>8. Cardinality(SendingSet') \in Nat
  <2>1. SendingSet' \in SUBSET Names
    BY DEF SendingSet, Batches
  <2> QED BY <2>1, NamesFinite
<1> HIDE DEF after, before
<1>9. PICK p \in Nat, q \in Nat, m \in Nat, k \in Nat, a \in Nat, z \in Nat :
        /\ p = permits' /\ q = permits /\ m = Cardinality(SendingSet')
        /\ k = Cardinality(SendingSet) /\ a = after /\ z = before
  BY <1>2, <1>3, <1>6, <1>8
<1>10. p + a = q + z
  BY <1>5, <1>9
<1>11. m + z = k + a
  BY <1>7, <1>9
<1>12. p + m = q + k
  BY <1>10, <1>11
<1> QED BY <1>9, <1>12

\* ... and that of the slots.
LEMMA MovesSlots ==
  ASSUME StreamInv, NEW b, NEW r, Moves(b, r), NEW s \in Subs
  PROVE  slots'[s] + Cardinality(EventsIn(OpenOf(s))')
           = slots[s] + Cardinality(EventsIn(OpenOf(s)))
<1>0. TypeOK
  BY DEF StreamInv
<1>1. /\ b \in Batches /\ b \notin Ended /\ b \in Names /\ b[1] \in Subs /\ batch'[b] = r
      /\ \A c \in Names : c # b => batch'[c] = batch[c]
      /\ Batches' = Batches
      /\ \A c \in Batches : batch'[c].events = batch[c].events
  BY <1>0, MovesFacts DEF SameBatches
<1>2. /\ slots' = IF IsEnded(r)
                    THEN [slots EXCEPT ![b[1]] = @ + Cardinality(batch[b].events)] ELSE slots
  BY DEF Moves
<1>3. /\ slots[s] \in Nat /\ slots \in [Subs -> Nat] /\ batch[b].events \in SUBSET Events
      /\ Cardinality(batch[b].events) \in Nat
  BY <1>0, <1>1, BatchFacts, Finite DEF TypeOK
<1>4. \A c \in Batches : c \in Ended' <=> (c \in Ended \/ (c = b /\ IsEnded(r)))
  BY <1>1 DEF Ended, IsEnded, Batches
<1>5. CASE ~(IsEnded(r) /\ b[1] = s)
  <2>1. OpenOf(s)' = OpenOf(s)
    BY <1>1, <1>4, <1>5 DEF OpenOf
  <2>2. EventsIn(OpenOf(s))' = EventsIn(OpenOf(s))
    BY <1>1, <2>1, InFlightSame DEF OpenOf
  <2>3. slots'[s] = slots[s]
    BY <1>2, <1>3, <1>5
  <2> QED BY <2>2, <2>3
<1>6. CASE IsEnded(r) /\ b[1] = s
  <2>1. /\ b \notin OpenOf(s)' /\ OpenOf(s) = OpenOf(s)' \union {b}
    BY <1>1, <1>4, <1>6 DEF OpenOf
  <2>2. OpenOf(s)' \in SUBSET Names
    BY <1>1 DEF OpenOf, Batches
  <2> DEFINE B == OpenOf(s)'
  <2>3. Cardinality(PairsOf(batch, B \union {b}))
          = Cardinality(PairsOf(batch, B)) + Cardinality(batch[b].events)
    BY <1>1, <1>3, <2>1, <2>2, PairsAdd
  <2>4. Cardinality(PairsOf(batch, B)) \in Nat
    BY <2>2, PairsFinite
  <2>5. PairsOf(batch', B) = PairsOf(batch, B)
    <3>1. \A c \in B : batch'[c].events = batch[c].events
      BY <1>1 DEF OpenOf
    <3> QED BY <3>1, PairsSame
  <2>6. /\ EventsIn(OpenOf(s)) = PairsOf(batch, B \union {b})
        /\ EventsIn(OpenOf(s))' = PairsOf(batch', B)
    BY <2>1, OpenFacts
  <2>7. slots'[s] = slots[s] + Cardinality(batch[b].events)
    BY <1>2, <1>3, <1>6
  <2> QED BY <1>3, <2>3, <2>4, <2>5, <2>6, <2>7
<1> QED BY <1>5, <1>6

\* A new batch takes its slots.
LEMMA SpawnSlots ==
  ASSUME StreamInv, NEW s \in Subs, SpawnBatch(s), NEW t \in Subs
  PROVE  slots'[t] + Cardinality(EventsIn(OpenOf(t))')
           = slots[t] + Cardinality(EventsIn(OpenOf(t)))
<1> DEFINE E == listener[s].out
<1>1. /\ E \in SUBSET Events /\ Cardinality(E) \in Nat
      /\ IF BatchesClosed THEN UNCHANGED <<slots, batch>> ELSE slots[s] >= Cardinality(E)
  BY SpawnEffect
<1>2. slots[t] \in Nat /\ slots[s] \in Nat /\ slots \in [Subs -> Nat]
  BY DEF StreamInv, TypeOK
<1>3. CASE BatchesClosed
  <2>1. OpenOf(t)' = OpenOf(t) /\ batch' = batch /\ slots' = slots
    BY <1>1, <1>3, BatchUnchanged DEF OpenOf, SameBatches
  <2> QED BY <2>1, InFlightSame
<1>4. CASE ~BatchesClosed
  <2>1. PICK n \in Names :
           /\ n \notin Batches /\ n[1] = s /\ Batches' = Batches \union {n} /\ Ended' = Ended
           /\ batch'[n].events = listener[s].out /\ batch'[n].at = "start" /\ ~batch'[n].abort
           /\ \A b \in Batches : batch'[b] = batch[b]
           /\ slots' = [slots EXCEPT ![s] = @ - Cardinality(listener[s].out)]
    BY <1>4, SpawnAdds
  <2>2. n \notin Ended
    BY <2>1 DEF Ended
  <2>3. CASE t # s
    <3>1. OpenOf(t)' = OpenOf(t)
      BY <2>1, <2>3 DEF OpenOf
    <3>2. EventsIn(OpenOf(t))' = EventsIn(OpenOf(t))
      BY <2>1, <3>1, InFlightSame DEF OpenOf
    <3>3. slots'[t] = slots[t]
      BY <1>2, <2>1, <2>3
    <3> QED BY <3>2, <3>3
  <2>4. CASE t = s
    <3> DEFINE B == OpenOf(s)
    <3>1. OpenOf(s)' = B \union {n} /\ n \notin B
      BY <2>1, <2>2 DEF OpenOf
    <3>2. B \in SUBSET Names /\ EventsIn(B) = PairsOf(batch, B) /\ Cardinality(EventsIn(B)) \in Nat
          /\ EventsIn(OpenOf(s))' = PairsOf(batch', OpenOf(s)')
      BY OpenFacts
    <3>3. PairsOf(batch', B) = PairsOf(batch, B)
      <4>1. \A b \in B : batch'[b].events = batch[b].events
        BY <2>1 DEF OpenOf
      <4> QED BY <4>1, PairsSame
    <3> HIDE DEF B
    <3>4. Cardinality(PairsOf(batch', B \union {n}))
            = Cardinality(PairsOf(batch', B)) + Cardinality(batch'[n].events)
      BY <1>1, <2>1, <3>1, <3>2, PairsAdd
    <3>5. slots'[s] = slots[s] - Cardinality(E)
      BY <1>2, <2>1
    <3>6. Cardinality(EventsIn(OpenOf(s))') = Cardinality(EventsIn(B)) + Cardinality(E)
      BY <2>1, <3>1, <3>2, <3>3, <3>4
    <3> QED BY <1>1, <1>2, <2>4, <3>2, <3>5, <3>6 DEF B
  <2> QED BY <2>3, <2>4
<1> QED BY <1>3, <1>4

LEMMA BacklogStep ==
  ASSUME StreamInv, BacklogInv, [Next]_vars
  PROVE  BacklogInv'
<1>1. ASSUME UNCHANGED <<batch, slots, permits>> PROVE BacklogInv'
  <2>1. Batches' = Batches /\ Ended' = Ended
    BY <1>1, BatchUnchanged DEF SameBatches
  <2>2. SendingSet' = SendingSet /\ \A s \in Subs : OpenOf(s)' = OpenOf(s)
    BY <1>1, <2>1 DEF SendingSet, OpenOf
  <2>3. \A s \in Subs : EventsIn(OpenOf(s))' = EventsIn(OpenOf(s))
    BY <1>1, <2>2, InFlightSame
  <2> QED BY <1>1, <2>2, <2>3 DEF BacklogInv
<1>2. CASE UNCHANGED vars
  BY <1>1, <1>2 DEF vars
<1>3. CASE \/ AddStream \/ AddConfig \/ AddProcessor \/ AddStats \/ AddHandle
           \/ RemoveStream \/ RemoveProcessor \/ RemoveConfig \/ RemoveStats
           \/ SetEnabled \/ Publish
           \/ ShutdownBegins \/ ShutdownDropsHandle \/ ShutdownProcessors
  BY <1>1, <1>3 DEF AddStream, AddConfig, AddProcessor, AddStats, AddHandle, RemoveStream,
                    RemoveProcessor, RemoveConfig, RemoveStats, SetEnabled, Publish, ShutdownBegins, ShutdownDropsHandle, ShutdownProcessors, taskVars
<1>4. ASSUME NEW s \in Subs, ListenerStep(s) PROVE BacklogInv'
  <2>1. permits' = permits
    BY <1>4, ListenerLeaves
  <2>2. CASE UNCHANGED <<batch, slots>>
    BY <1>1, <2>1, <2>2
  <2>3. CASE SpawnBatch(s)
    <3>1. SendingSet' = SendingSet
      <4>1. CASE BatchesClosed
        BY <2>3, <4>1, BatchUnchanged DEF SpawnBatch, SendingSet, SameBatches
      <4>2. CASE ~BatchesClosed
        <5>1. PICK n \in Names :
           /\ n \notin Batches /\ n[1] = s /\ Batches' = Batches \union {n} /\ Ended' = Ended
           /\ batch'[n].events = listener[s].out /\ batch'[n].at = "start" /\ ~batch'[n].abort
           /\ \A b \in Batches : batch'[b] = batch[b]
           /\ slots' = [slots EXCEPT ![s] = @ - Cardinality(listener[s].out)]
          BY <2>3, <4>2, SpawnAdds
        <5> QED BY <5>1 DEF SendingSet
      <4> QED BY <4>1, <4>2
    <3>2. \A t \in Subs : slots'[t] + Cardinality(EventsIn(OpenOf(t))') = MaxInFlight
      BY <2>3, SpawnSlots DEF BacklogInv
    <3> QED BY <2>1, <3>1, <3>2 DEF BacklogInv
  <2> QED BY <1>4, <2>2, <2>3, ListenerLeaves
<1>5. ASSUME NEW b, NEW r, Moves(b, r) PROVE BacklogInv'
  <2>1. permits' + Cardinality(SendingSet') = MaxConcurrent
    BY <1>5, MovesPermits DEF BacklogInv
  <2>2. \A s \in Subs : slots'[s] + Cardinality(EventsIn(OpenOf(s))') = MaxInFlight
    BY <1>5, MovesSlots DEF BacklogInv
  <2> QED BY <2>1, <2>2 DEF BacklogInv
<1>6. CASE ShutdownDrains
  <2>1. /\ SameBatches /\ Ended' = Ended
        /\ \A b \in Batches : batch'[b].at = batch[b].at
    BY <1>6, DrainsEffect DEF StreamInv
  <2>2. UNCHANGED <<slots, permits>>
    BY <1>6 DEF ShutdownDrains
  <2>3. SendingSet' = SendingSet /\ \A s \in Subs : OpenOf(s)' = OpenOf(s)
    BY <2>1 DEF SendingSet, OpenOf, SameBatches
  <2>4. \A s \in Subs : EventsIn(OpenOf(s))' = EventsIn(OpenOf(s))
    BY <2>1, <2>3, InFlightSame DEF SameBatches, OpenOf
  <2> QED BY <2>2, <2>3, <2>4 DEF BacklogInv
<1>7. CASE Next
  <2>1. TypeOK /\ BatchesSound
    BY DEF StreamInv
  <2> QED BY <1>3, <1>4, <1>5, <1>6, <1>7, <2>1, StepsAre
<1> QED BY <1>2, <1>7

LEMMA BacklogInit == Init => BacklogInv
<1> SUFFICES ASSUME Init PROVE BacklogInv
  OBVIOUS
<1>1. Batches = {}
  BY DEF Init, Batches
<1>2. SendingSet = {} /\ \A s \in Subs : EventsIn(OpenOf(s)) = {}
  BY <1>1 DEF SendingSet, OpenOf, EventsIn
<1>3. Cardinality({}) = 0
  BY FS_EmptySet
<1>4. permits = MaxConcurrent /\ \A s \in Subs : slots[s] = MaxInFlight
  BY DEF Init
<1> QED BY <1>2, <1>3, <1>4, Constants DEF BacklogInv

\* The semaphores of streaming.rs: whatever way a batch ends, without a
\* processor, recorded or aborted in the middle of a send, the slots of its
\* events and the permit of its send come back, and a listener never has more
\* than max_events of them in batches.
THEOREM BacklogStaysBounded == Spec => []BacklogIsBounded
<1>1. StreamInv /\ BacklogInv /\ [Next]_vars => BacklogInv'
  BY BacklogStep
<1>2. Spec => []BacklogInv
  BY <1>1, BacklogInit, StreamAlways, PTL DEF Spec
<1>3. StreamInv /\ BacklogInv => BacklogIsBounded
  BY DEF StreamInv, TypeOK, BacklogInv, BacklogIsBounded, SendingSet, OpenOf
<1> QED BY <1>2, <1>3, StreamAlways, PTL

-----------------------------------------------------------------------------
(* Every event is accounted for.                                           *)

\* Of one subscription are all the batches and the only listener.
LEMMA OneListener ==
  ASSUME StreamInv, subs = 1
  PROVE  /\ \A b \in Batches : b[1] = 1
         /\ \A s \in Subs : s # 1 => listener[s].at = "none" /\ s \notin Running
<1>1. \A s \in Subs : s # 1 => s > subs
  BY Constants
<1>2. \A s \in Subs : s # 1 => listener[s].at = "none"
  BY <1>1 DEF StreamInv, Follows
<1>3. \A b \in Batches : b[1] \in Subs
  BY BatchFacts DEF StreamInv
<1>4. \A b \in Batches : b[1] = 1
  BY <1>2, <1>3 DEF StreamInv, Follows
<1> QED BY <1>2, <1>4 DEF Running

\* The terms of the balance are numbers.
LEMMA Terms ==
  ASSUME StreamInv, stats # None
  PROVE  \E u, d, i, f, o, e, l \in Nat :
           /\ u = Unread(1) /\ d = stats.dropped /\ i = ignored[1]
           /\ f = Cardinality(listener[1].buffer) /\ o = Cardinality(listener[1].out)
           /\ e = Cardinality(EventsIn(Batches)) /\ l = Len(log)
<1>1. 1 \in Subs
  BY Constants
<1>2. Unread(1) \in Nat /\ Len(log) \in Nat
  <2>1. Len(log) \in Nat /\ cursor[1] \in Nat /\ cursor[1] <= Len(log) + 1
    BY <1>1, BusFacts DEF StreamInv, TypeOK, Follows
  <2> QED BY <2>1 DEF Unread
<1>3. stats.dropped \in Nat /\ ignored[1] \in Nat
  BY <1>1 DEF StreamInv, TypeOK, Counters
<1>4. Cardinality(listener[1].buffer) \in Nat /\ Cardinality(listener[1].out) \in Nat
  BY <1>1, ListenerFacts, Finite DEF StreamInv
<1>5. Cardinality(EventsIn(Batches)) \in Nat
  <2>1. Batches \in SUBSET Names
    BY DEF Batches
  <2> QED BY <2>1, EventsInIs, PairsFinite
<1> QED BY <1>2, <1>3, <1>4, <1>5

LEMMA EventsInSame ==
  ASSUME SameBatches
  PROVE  EventsIn(Batches)' = EventsIn(Batches)
<1>1. EventsIn(Batches)' = PairsOf(batch', Batches)
  BY DEF EventsIn, PairsOf, SameBatches
<1> QED BY <1>1, EventsInIs, PairsSame DEF SameBatches

\* The tallies stay while no batch is recorded.
LEMMA TalliedSame ==
  ASSUME Tallied, stats'.ok = stats.ok, stats'.failed = stats.failed, Recorded' = Recorded,
         \A b \in Recorded : batch'[b].acked = batch[b].acked /\ batch'[b].events = batch[b].events
  PROVE  Tallied'
<1>1. AckedOf(Recorded)' = AckedOf(Recorded) /\ EventsOf(Recorded)' = EventsOf(Recorded)
  BY DEF AckedOf, EventsOf
<1> QED BY <1>1 DEF Tallied

\* Steps that leave the balance and the tallies alone.
LEMMA AccountSame ==
  ASSUME StreamInv, AccountInv, stage' = stage, UNCHANGED <<log, cursor, subs, stats, batch, ignored>>,
         \A s \in Subs : SameBut(s)
  PROVE  AccountInv'
<1>1. SameBatches /\ Ended' = Ended
  BY BatchUnchanged
<1>2. Recorded' = Recorded
  BY <1>1 DEF Recorded
<1>3. EventsIn(Batches)' = EventsIn(Batches)
  BY <1>1, EventsInSame
<1>4. SameBut(1)
  BY Constants
<1>5. Balanced => Balanced'
  BY <1>3, <1>4 DEF Balanced, SameBut, Unread
<1>6. Tallied => Tallied'
  BY <1>2, TalliedSame
<1>7. (1 \in Running' => 1 \in Running) /\ listener'[1].at = listener[1].at
  BY <1>4 DEF Running, SameBut
<1> QED BY <1>5, <1>6, <1>7 DEF AccountInv, Counting

LEMMA PublishAccounts ==
  ASSUME StreamInv, AccountInv, Publish
  PROVE  AccountInv'
<1>1. PICK kind \in Kinds : PublishEvent(kind)
  BY DEF Publish
<1>2. UNCHANGED <<stats, listener, batch, stage, ignored>>
  BY DEF Publish, streamVars, taskVars
<1>3. Len(log') = Len(log) + 1 /\ UNCHANGED <<cursor, subs>>
  BY <1>1, PublishTyped DEF StreamInv, TypeOK
<1>4. SameBatches /\ Ended' = Ended /\ Recorded' = Recorded
  BY <1>2, BatchUnchanged DEF Recorded
<1>5. EventsIn(Batches)' = EventsIn(Batches)
  BY <1>4, EventsInSame
<1>6. Tallied => Tallied'
  BY <1>2, <1>4, TalliedSame
<1>7. ASSUME stats # None, Balanced PROVE Balanced'
  <2>1. PICK u, d, i, f, o, e, l \in Nat :
           /\ u = Unread(1) /\ d = stats.dropped /\ i = ignored[1]
           /\ f = Cardinality(listener[1].buffer) /\ o = Cardinality(listener[1].out)
           /\ e = Cardinality(EventsIn(Batches)) /\ l = Len(log)
    BY <1>7, Terms
  <2>2. Unread(1)' = u + 1
    <3>1. PICK c \in Nat : c = cursor[1]
      BY BusFacts, Constants DEF StreamInv, TypeOK
    <3>2. u = l + 1 - c /\ Unread(1)' = (l + 1) + 1 - c
      BY <1>3, <2>1, <3>1 DEF Unread
    <3>3. (l + 1) + 1 - c = (l + 1 - c) + 1
      OBVIOUS
    <3> QED BY <3>2, <3>3
  <2>3. u + d + i + f + o + e = l
    BY <1>7, <2>1 DEF Balanced
  <2>4. (u + 1) + d + i + f + o + e = l + 1
    BY <2>3
  <2> QED BY <1>2, <1>3, <1>5, <2>1, <2>2, <2>4 DEF Balanced
<1>8. 1 \in Running' => 1 \in Running
  BY <1>2 DEF Running
<1> QED BY <1>2, <1>3, <1>6, <1>7, <1>8 DEF AccountInv, Counting

\* An add counts from its own subscription on.
LEMMA NothingYet ==
  ASSUME StreamInv, subs = 1, listener[1].at = "none"
  PROVE  /\ Batches = {} /\ Cardinality(EventsIn(Batches)) = 0
         /\ Cardinality(AckedOf(Recorded)) = 0 /\ Cardinality(EventsOf(Recorded)) = 0
<1>1. Batches = {}
  BY OneListener, Constants DEF StreamInv, Follows
<1>2. Recorded = {}
  BY <1>1 DEF Recorded, Ended
<1>3. EventsIn(Batches) = {} /\ AckedOf(Recorded) = {} /\ EventsOf(Recorded) = {}
  BY <1>1, <1>2 DEF EventsIn, AckedOf, EventsOf
<1> QED BY <1>1, <1>3, FS_EmptySet

LEMMA AddAccounts ==
  ASSUME StreamInv, AccountInv, AddStream \/ AddStats \/ AddHandle
  PROVE  AccountInv'
<1>1. CASE AddStream
  <2>1. subs' = subs + 1 /\ stats' = stats /\ subs \in Nat
    BY <1>1, BusFacts DEF AddStream, Subscribe, NextSub, StreamInv, TypeOK, streamVars
  <2> QED BY <2>1 DEF AccountInv, Counting
<1>2. CASE AddStats
  <2>1. /\ call = "stats" /\ stats' = NewStats
        /\ UNCHANGED <<log, cursor, subs, listener, batch, stage, ignored>>
    BY <1>2 DEF AddStats, busVars, taskVars
  <2>2. subs \in Subs /\ listener[subs].at = "none"
    BY <2>1 DEF StreamInv, AddOwnsIts, AddCalls
  <2>3. SUFFICES ASSUME Counting' PROVE 1 \notin Running' /\ Tallied'
    BY <2>1, <2>2, Constants DEF AccountInv
  <2>4. subs = 1 /\ listener[1].at = "none"
    BY <2>1, <2>2, <2>3 DEF Counting
  <2>5. Cardinality(AckedOf(Recorded)) = 0 /\ Cardinality(EventsOf(Recorded)) = 0
    BY <2>4, NothingYet
  <2>6. AckedOf(Recorded)' = AckedOf(Recorded) /\ EventsOf(Recorded)' = EventsOf(Recorded)
    BY <2>1 DEF AckedOf, EventsOf, Recorded, Ended, Batches
  <2>7. stats'.ok = 0 /\ stats'.failed = 0
    BY <2>1 DEF NewStats
  <2> QED BY <2>1, <2>4, <2>5, <2>6, <2>7 DEF Tallied, Running
<1>3. CASE AddHandle
  <2>1. /\ call = "handle" /\ UNCHANGED <<log, subs, stats, batch, stage, ignored>>
        /\ stage = "up" => cursor' = cursor
    BY <1>3 DEF AddHandle
  <2>2. subs \in Subs /\ listener[subs].at = "none" /\ cursor[subs] = ignored[subs] + 1
    BY <2>1 DEF StreamInv, AddOwnsIts, AddCalls
  <2>3. SUFFICES ASSUME Counting' PROVE listener'[1].at # "none" /\ Balanced' /\ Tallied'
    BY <2>1, <2>2, Constants DEF AccountInv
  <2>4. subs = 1 /\ listener[1].at = "none" /\ Counting
    BY <2>1, <2>2, <2>3 DEF Counting
  <2>5. stats = NewStats /\ Tallied
    BY <2>4 DEF AccountInv
  <2>6. PICK r \in Listeners :
           /\ listener' \in [Subs -> Listeners] /\ listener'[subs] = r
           /\ r.buffer = {} /\ r.out = {} /\ r.at = (IF stage = "up" THEN "loop" ELSE "gone")
           /\ \A s \in Subs : s # subs => SameBut(s)
    BY <1>3, AddHandleEffect
  <2>7. Tallied'
    BY <2>1, <2>5, BatchUnchanged, TalliedSame DEF Recorded
  <2>8. EventsIn(Batches)' = EventsIn(Batches) /\ Cardinality(EventsIn(Batches)) = 0
    BY <2>1, <2>4, BatchUnchanged, EventsInSame, NothingYet
  <2>9. Cardinality(listener'[1].buffer) = 0 /\ Cardinality(listener'[1].out) = 0
    BY <2>4, <2>6, FS_EmptySet
  <2>10. Len(log) \in Nat /\ ignored[1] \in Nat /\ cursor[1] = ignored[1] + 1 /\ cursor' = cursor
    BY <2>1, <2>2, <2>4, BusFacts DEF StreamInv, TypeOK, Counting
  <2>11. PICK u \in Int : u = Unread(1)' /\ u = Len(log) - ignored[1]
    BY <2>1, <2>10 DEF Unread
  <2>12. stats'.dropped = 0
    BY <2>1, <2>5 DEF NewStats
  <2>13. u + 0 + ignored[1] + 0 + 0 + 0 = Len(log)
    BY <2>10, <2>11
  <2>14. Balanced'
    BY <2>1, <2>8, <2>9, <2>11, <2>12, <2>13 DEF Balanced
  <2> QED BY <2>4, <2>6, <2>7, <2>14 DEF Counting
<1> QED BY <1>1, <1>2, <1>3

\* Steps of the listener that record no batch: what they owe the balance.
LEMMA ListenerAccounts ==
  ASSUME StreamInv, AccountInv, UNCHANGED <<subs, stage>>, Recorded' = Recorded,
         \A b \in Recorded : batch'[b] = batch[b],
         stats # None => /\ stats' # None /\ stats'.ok = stats.ok /\ stats'.failed = stats.failed,
         stats = None => stats' = None,
         listener'[1].at # "none",
         Counting /\ Balanced /\ 1 \in Running' => Balanced',
         1 \in Running
  PROVE  AccountInv'
<1>1. Counting' => Counting
  BY DEF Counting
<1>2. Counting' => Tallied'
  BY <1>1, TalliedSame DEF AccountInv, Counting
<1> QED BY <1>1, <1>2 DEF AccountInv, Counting

LEMMA TurnAccounts ==
  ASSUME StreamInv, AccountInv, TurnLoop(1) \/ BufferFallsDue(1)
  PROVE  AccountInv'
<1>0. 1 \in Subs
  BY Constants
<1>1. PICK r \in Listeners :
           /\ Listens(1, r) /\ r.at \in {"gone", "slots", "recv"}
           /\ r.buffer \union r.out = listener[1].buffer \union listener[1].out
           /\ Cardinality(r.buffer) + Cardinality(r.out)
                = Cardinality(listener[1].buffer) + Cardinality(listener[1].out)
           /\ IF r.at = "gone" THEN DropSubscription(1) ELSE UNCHANGED busVars
           /\ UNCHANGED <<streamVars, call, slots, batch, permits, stage, changes, ignored>>
  BY <1>0, TurnEffect
<1>2. listener'[1] = r /\ 1 \in Running
  BY <1>0, <1>1, ListensFacts DEF StreamInv, Listens
<1>3. UNCHANGED <<subs, stage, stats, batch, ignored, log>>
  BY <1>1 DEF streamVars, busVars, DropSubscription
<1>4. SameBatches /\ Ended' = Ended /\ Recorded' = Recorded
  BY <1>3, BatchUnchanged DEF Recorded
<1>5. ASSUME stats # None, Balanced, 1 \in Running' PROVE Balanced'
  <2>1. PICK u, d, i, f, o, e, l \in Nat :
           /\ u = Unread(1) /\ d = stats.dropped /\ i = ignored[1]
           /\ f = Cardinality(listener[1].buffer) /\ o = Cardinality(listener[1].out)
           /\ e = Cardinality(EventsIn(Batches)) /\ l = Len(log)
    BY <1>5, Terms
  <2>2. r.at # "gone"
    BY <1>2, <1>5 DEF Running
  <2>3. Unread(1)' = u
    BY <1>1, <2>1, <2>2 DEF Unread, busVars
  <2>4. PICK m, n \in Nat : m = Cardinality(r.buffer) /\ n = Cardinality(r.out)
    BY Finite DEF Listeners
  <2>5. m + n = f + o
    BY <1>1, <2>1, <2>4
  <2>6. u + d + i + f + o + e = l
    BY <1>5, <2>1 DEF Balanced
  <2>7. u + d + i + m + n + e = l
    BY <2>5, <2>6
  <2>8. EventsIn(Batches)' = EventsIn(Batches)
    BY <1>4, EventsInSame
  <2> QED BY <1>2, <1>3, <2>1, <2>3, <2>4, <2>7, <2>8 DEF Balanced
<1>6. listener'[1].at # "none"
  BY <1>1, <1>2
<1> QED BY <1>2, <1>3, <1>4, <1>5, <1>6, ListenerAccounts DEF Counting

LEMMA HearAccounts ==
  ASSUME StreamInv, AccountInv, HearEvent(1)
  PROVE  AccountInv'
<1>0. 1 \in Subs
  BY Constants
<1>1. PICK r \in Listeners :
           /\ Listens(1, r) /\ r.at = "loop" /\ r.out = {} /\ listener[1].out = {}
           /\ \/ /\ r.buffer = listener[1].buffer \union {cursor[1]} /\ ignored' = ignored
                 /\ Cardinality(r.buffer) = Cardinality(listener[1].buffer) + 1
              \/ r.buffer = listener[1].buffer /\ ignored' = [ignored EXCEPT ![1] = @ + 1]
           /\ Receive(1)
           /\ UNCHANGED <<log, registry, subs, streamVars, call, slots, batch, permits, stage,
                          changes>>
  BY <1>0, HearEffect
<1>2. listener'[1] = r /\ 1 \in Running
  BY <1>0, <1>1, ListensFacts DEF StreamInv, Listens
<1>3. UNCHANGED <<subs, stage, stats, batch, log>>
  BY <1>1 DEF streamVars
<1>4. SameBatches /\ Ended' = Ended /\ Recorded' = Recorded
  BY <1>3, BatchUnchanged DEF Recorded
<1>5. ASSUME stats # None, Balanced PROVE Balanced'
  <2>1. PICK u, d, i, f, o, e, l \in Nat :
           /\ u = Unread(1) /\ d = stats.dropped /\ i = ignored[1]
           /\ f = Cardinality(listener[1].buffer) /\ o = Cardinality(listener[1].out)
           /\ e = Cardinality(EventsIn(Batches)) /\ l = Len(log)
    BY <1>5, Terms
  <2>2. PICK v \in Int : v = Unread(1)' /\ v = u - 1
    <3>1. cursor'[1] = cursor[1] + 1
      BY <1>0, <1>1, ReceiveTyped DEF StreamInv, TypeOK
    <3>2. PICK c \in Nat : c = cursor[1]
      BY <1>0, BusFacts DEF StreamInv, TypeOK
    <3>3. u = l + 1 - c /\ Unread(1)' = l + 1 - (c + 1)
      BY <1>3, <2>1, <3>1, <3>2 DEF Unread
    <3>4. l + 1 - (c + 1) = (l + 1 - c) - 1 /\ l + 1 - (c + 1) \in Int
      OBVIOUS
    <3> QED BY <3>3, <3>4
  <2>3. u + d + i + f + o + e = l
    BY <1>5, <2>1 DEF Balanced
  <2>4. EventsIn(Batches)' = EventsIn(Batches)
    BY <1>4, EventsInSame
  <2>5. listener'[1].out = listener[1].out
    BY <1>1, <1>2
  <2>6. CASE ignored' = ignored /\ Cardinality(r.buffer) = Cardinality(listener[1].buffer) + 1
    <3>1. v + d + i + (f + 1) + o + e = l
      <4>1. v = u - 1
        BY <2>2
      <4> QED BY <2>3, <4>1
    <3> QED BY <1>2, <1>3, <2>1, <2>2, <2>4, <2>5, <2>6, <3>1 DEF Balanced
  <2>7. CASE r.buffer = listener[1].buffer /\ ignored' = [ignored EXCEPT ![1] = @ + 1]
    <3>1. v + d + (i + 1) + f + o + e = l
      BY <2>2, <2>3
    <3>2. ignored'[1] = i + 1
      BY <1>0, <2>1, <2>7 DEF StreamInv, TypeOK
    <3> QED BY <1>2, <1>3, <2>1, <2>2, <2>4, <2>5, <2>7, <3>1, <3>2 DEF Balanced
  <2> QED BY <1>1, <2>6, <2>7
<1>6. listener'[1].at # "none"
  BY <1>1, <1>2
<1> QED BY <1>2, <1>3, <1>4, <1>5, <1>6, ListenerAccounts DEF Counting

LEMMA LagAccounts ==
  ASSUME StreamInv, AccountInv, HearLag(1)
  PROVE  AccountInv'
<1>0. 1 \in Subs
  BY Constants
<1>1. PICK r \in Listeners :
           /\ Listens(1, r) /\ r.buffer = listener[1].buffer /\ r.out = listener[1].out
           /\ r.at = "loop"
  BY <1>0, LagEffect
<1>2. listener'[1] = r /\ 1 \in Running
  BY <1>0, <1>1, ListensFacts DEF StreamInv, Listens
<1>3. /\ SkipLost(1) /\ UNCHANGED <<log, registry, subs, stage, batch, ignored>>
      /\ stats' = (IF stats = None THEN None ELSE [stats EXCEPT !.dropped = @ + Skipped(1)])
  BY DEF HearLag
<1>4. SameBatches /\ Ended' = Ended /\ Recorded' = Recorded
  BY <1>3, BatchUnchanged DEF Recorded
<1>5. ASSUME stats # None
      PROVE  /\ stats' # None /\ stats'.ok = stats.ok /\ stats'.failed = stats.failed
             /\ stats'.dropped = stats.dropped + Skipped(1)
  <2>1. stats \in Counters /\ stats.dropped \in Nat /\ Skipped(1) \in Nat
    BY <1>0, <1>3, <1>5, SkipTyped DEF StreamInv, TypeOK, Counters
  <2>2. PICK m \in Nat : m = stats.dropped + Skipped(1)
    BY <2>1
  <2>3. stats' = [stats EXCEPT !.dropped = m]
    BY <1>3, <1>5, <2>2
  <2>4. stats' \in Counters /\ stats'.ok = stats.ok /\ stats'.failed = stats.failed /\ stats'.dropped = m
    BY <2>1, <2>3 DEF Counters
  <2> QED BY <2>2, <2>4, Constants
<1>6. ASSUME stats # None, Balanced PROVE Balanced'
  <2>1. PICK u, d, i, f, o, e, l \in Nat :
           /\ u = Unread(1) /\ d = stats.dropped /\ i = ignored[1]
           /\ f = Cardinality(listener[1].buffer) /\ o = Cardinality(listener[1].out)
           /\ e = Cardinality(EventsIn(Batches)) /\ l = Len(log)
    BY <1>6, Terms
  <2>2. PICK k \in Nat : k = Skipped(1) /\ cursor'[1] = cursor[1] + k
    BY <1>0, <1>3, SkipTyped DEF StreamInv, TypeOK
  <2>3. PICK v \in Int : v = Unread(1)' /\ v = u - k
    <3>1. PICK c \in Nat : c = cursor[1]
      BY <1>0, BusFacts DEF StreamInv, TypeOK
    <3>2. u = l + 1 - c /\ Unread(1)' = l + 1 - (c + k)
      BY <1>3, <2>1, <2>2, <3>1 DEF Unread
    <3>3. l + 1 - (c + k) = (l + 1 - c) - k /\ l + 1 - (c + k) \in Int
      OBVIOUS
    <3> QED BY <3>2, <3>3
  <2>4. u + d + i + f + o + e = l
    BY <1>6, <2>1 DEF Balanced
  <2>5. EventsIn(Batches)' = EventsIn(Batches)
    BY <1>4, EventsInSame
  <2>6. v + (d + k) + i + f + o + e = l
    BY <2>3, <2>4
  <2>7. stats'.dropped = d + k
    BY <1>5, <1>6, <2>1, <2>2
  <2> QED BY <1>1, <1>2, <1>3, <2>1, <2>3, <2>5, <2>6, <2>7 DEF Balanced
<1>7. listener'[1].at # "none"
  BY <1>1, <1>2
<1> QED BY <1>2, <1>3, <1>4, <1>5, <1>6, <1>7, ListenerAccounts DEF Counting

LEMMA EndAccounts ==
  ASSUME StreamInv, AccountInv, ListenerEnds(1)
  PROVE  AccountInv'
<1>0. 1 \in Subs
  BY Constants
<1>1. PICK r \in Listeners :
           /\ Listens(1, r) /\ r.buffer = listener[1].buffer /\ r.out = listener[1].out
           /\ r.at = "gone"
  BY <1>0, LagEffect
<1>2. listener'[1] = r /\ 1 \in Running
  BY <1>0, <1>1, ListensFacts DEF StreamInv, Listens
<1>3. UNCHANGED <<subs, stage, stats, batch>>
  BY DEF ListenerEnds, DropSubscription, streamVars
<1>4. Recorded' = Recorded
  BY <1>3, BatchUnchanged DEF Recorded
<1>5. listener'[1].at # "none" /\ 1 \notin Running'
  BY <1>1, <1>2 DEF Running
<1> QED BY <1>2, <1>3, <1>4, <1>5, ListenerAccounts DEF Counting

\* What the listener had in its hands is in a batch.
LEMMA SpawnAccounts ==
  ASSUME StreamInv, AccountInv, SpawnBatch(1)
  PROVE  AccountInv'
<1>0. 1 \in Subs
  BY Constants
<1> DEFINE E == listener[1].out
<1>1. /\ E \in SUBSET Events /\ listener[1].buffer = {}
      /\ UNCHANGED <<busVars, streamVars, call, permits, stage, changes, ignored>>
  BY <1>0, SpawnEffect
<1>2. PICK r \in Listeners : Listens(1, r) /\ r.at = "loop" /\ r.buffer = {} /\ r.out = {}
  BY <1>0, SpawnEffect
<1>3. listener'[1] = r /\ 1 \in Running
  BY <1>0, <1>2, ListensFacts DEF StreamInv, Listens
<1>4. UNCHANGED <<log, cursor, subs, stage, stats, ignored>>
  BY <1>1 DEF busVars, streamVars
<1>5. CASE BatchesClosed
  BY <1>4, <1>5 DEF AccountInv, Counting, BatchesClosed
<1>6. CASE ~BatchesClosed
  <2>1. PICK n \in Names :
           /\ n \notin Batches /\ n[1] = 1 /\ Batches' = Batches \union {n} /\ Ended' = Ended
           /\ batch'[n].events = listener[1].out /\ batch'[n].at = "start" /\ ~batch'[n].abort
           /\ \A b \in Batches : batch'[b] = batch[b]
           /\ slots' = [slots EXCEPT ![1] = @ - Cardinality(listener[1].out)]
    BY <1>0, <1>6, SpawnAdds
  <2>2. /\ Recorded' = Recorded /\ \A b \in Recorded : batch'[b] = batch[b]
    BY <2>1 DEF Recorded, Ended
  <2>3. Cardinality(EventsIn(Batches)') = Cardinality(EventsIn(Batches)) + Cardinality(E)
    <3>1. EventsIn(Batches)' = PairsOf(batch', Batches \union {n})
      BY <2>1 DEF EventsIn, PairsOf
    <3>2. PairsOf(batch', Batches) = PairsOf(batch, Batches)
      BY <2>1, PairsSame
    <3>3. Batches \in SUBSET Names
      BY DEF Batches
    <3>4. Cardinality(PairsOf(batch', Batches \union {n}))
            = Cardinality(PairsOf(batch', Batches)) + Cardinality(batch'[n].events)
      BY <1>1, <2>1, <3>3, PairsAdd
    <3> QED BY <2>1, <3>1, <3>2, <3>4, EventsInIs
  <2>4. ASSUME stats # None, Balanced PROVE Balanced'
    <3>1. PICK u, d, i, f, o, e, l \in Nat :
           /\ u = Unread(1) /\ d = stats.dropped /\ i = ignored[1]
           /\ f = Cardinality(listener[1].buffer) /\ o = Cardinality(listener[1].out)
           /\ e = Cardinality(EventsIn(Batches)) /\ l = Len(log)
      BY <2>4, Terms
    <3>2. Cardinality({}) = 0
      BY FS_EmptySet
    <3>3. f = 0 /\ Cardinality(listener'[1].buffer) = f /\ Cardinality(listener'[1].out) = f
      BY <1>1, <1>2, <1>3, <3>1, <3>2
    <3>4. u + d + i + f + o + e = l
      BY <2>4, <3>1 DEF Balanced
    <3>5. u + d + i + f + f + (e + o) = l
      BY <3>3, <3>4
    <3>6. Cardinality(EventsIn(Batches)') = e + o
      BY <2>3, <3>1
    <3>7. Unread(1)' = u
      BY <1>4, <3>1 DEF Unread
    <3> QED BY <1>4, <3>1, <3>3, <3>5, <3>6, <3>7 DEF Balanced
  <2>5. listener'[1].at # "none"
    BY <1>2, <1>3
  <2> QED BY <1>3, <1>4, <2>2, <2>4, <2>5, ListenerAccounts DEF Counting
<1> QED BY <1>5, <1>6

\* A batch that is recorded adds its events, and the acknowledged ones among
\* them, to the tallies: they are in no other batch.
LEMMA RecordTallies ==
  ASSUME StreamInv, NEW b, NEW r, Moves(b, r), r.at = "done", r.by # None, subs = 1, stats # None,
         Tallied
  PROVE  stats' # None /\ stats'.dropped = stats.dropped /\ Tallied'
<1>0. TypeOK
  BY DEF StreamInv
<1>1. /\ b \in Batches /\ b \notin Ended /\ b \in Names /\ batch'[b] = r
      /\ \A c \in Names : c # b => batch'[c] = batch[c]
      /\ Batches' = Batches
  BY <1>0, MovesFacts DEF SameBatches
<1>2. r \in Tasks /\ Sound(b, r) /\ r.events = batch[b].events /\ Counted(b, r)
  BY DEF Moves
<1>3. r.events \in SUBSET Events /\ r.acked \in SUBSET r.events
  BY <1>2 DEF Tasks, Sound
<1>4. Recorded' = Recorded \union {b} /\ b \notin Recorded
  BY <1>1 DEF Recorded, Ended, Batches
<1>5. \A c \in Recorded : c \in Batches /\ c # b /\ batch'[c] = batch[c]
  BY <1>1 DEF Recorded, Ended, Batches
<1> DEFINE A == AckedOf(Recorded)
           V == EventsOf(Recorded)
<1>6. AckedOf(Recorded)' = A \union r.acked /\ EventsOf(Recorded)' = V \union r.events
  BY <1>1, <1>4, <1>5 DEF AckedOf, EventsOf
<1>7. \A c \in Recorded : /\ batch[c].events \in SUBSET Events
                          /\ batch[c].acked \in SUBSET batch[c].events
                          /\ batch[c].events \intersect r.events = {}
  <2> SUFFICES ASSUME NEW c \in Recorded
               PROVE  /\ batch[c].events \in SUBSET Events
                      /\ batch[c].acked \in SUBSET batch[c].events
                      /\ batch[c].events \intersect r.events = {}
    OBVIOUS
  <2>1. c \in Batches /\ c # b /\ c[1] = b[1]
    BY <1>1, <1>5, OneListener
  <2>2. batch[c].events \intersect batch[b].events = {}
    BY <1>1, <2>1 DEF StreamInv, Apart
  <2>3. batch[c].acked \in SUBSET batch[c].events
    BY <2>1 DEF StreamInv, BatchesSound, Sound
  <2> QED BY <1>0, <1>2, <2>1, <2>2, <2>3, BatchFacts
<1>8. A \in SUBSET Events /\ V \in SUBSET Events /\ A \intersect r.acked = {} /\ V \intersect r.events = {}
  <2>1. \A x \in A : \E c \in Recorded : x \in batch[c].acked
    BY DEF AckedOf
  <2>2. \A x \in V : \E c \in Recorded : x \in batch[c].events
    BY DEF EventsOf
  <2>3. \A x \in A : x \in Events /\ x \notin r.acked
    BY <1>3, <1>7, <2>1
  <2>4. \A x \in V : x \in Events /\ x \notin r.events
    BY <1>7, <2>2
  <2> HIDE DEF A, V
  <2> QED BY <2>3, <2>4
<1>9. stats.ok = Cardinality(A) /\ stats.ok + stats.failed = Cardinality(V)
  BY DEF Tallied
<1> HIDE DEF A, V
<1>10. r.acked \in SUBSET Events /\ r.events \ r.acked \in SUBSET Events
  BY <1>3
<1>11. /\ IsFiniteSet(A) /\ IsFiniteSet(V) /\ IsFiniteSet(r.acked) /\ IsFiniteSet(r.events)
       /\ IsFiniteSet(r.events \ r.acked)
  BY <1>3, <1>8, <1>10, Finite
<1>12. PICK a, v, x, y, z, m, k, g \in Nat :
         /\ a = Cardinality(A) /\ v = Cardinality(V) /\ x = Cardinality(r.acked)
         /\ y = Cardinality(r.events) /\ z = Cardinality(r.events \ r.acked)
         /\ m = stats.ok /\ k = stats.failed /\ g = stats.dropped
  <2>1. stats.ok \in Nat /\ stats.failed \in Nat /\ stats.dropped \in Nat
    BY <1>0 DEF TypeOK, Counters
  <2> QED BY <1>3, <1>8, <1>10, <2>1, Finite
<1>13. Cardinality({}) = 0
  BY FS_EmptySet
<1>14. Cardinality(A \union r.acked) = a + x
  <2>1. Cardinality(A \union r.acked)
          = Cardinality(A) + Cardinality(r.acked) - Cardinality(A \intersect r.acked)
    BY <1>11, FS_Union
  <2>2. Cardinality(A \union r.acked) = a + x - 0
    BY <1>8, <1>12, <1>13, <2>1
  <2> QED BY <2>2
<1>15. Cardinality(V \union r.events) = v + y
  <2>1. Cardinality(V \union r.events)
          = Cardinality(V) + Cardinality(r.events) - Cardinality(V \intersect r.events)
    BY <1>11, FS_Union
  <2>2. Cardinality(V \union r.events) = v + y - 0
    BY <1>8, <1>12, <1>13, <2>1
  <2> QED BY <2>2
<1>16. y = x + z
  <2>1. /\ r.events = r.acked \union (r.events \ r.acked)
        /\ r.acked \intersect (r.events \ r.acked) = {}
    BY <1>3
  <2>2. Cardinality(r.acked \union (r.events \ r.acked))
          = Cardinality(r.acked) + Cardinality(r.events \ r.acked)
              - Cardinality(r.acked \intersect (r.events \ r.acked))
    BY <1>11, FS_Union
  <2>3. y = x + z - 0
    BY <1>12, <1>13, <2>1, <2>2
  <2> QED BY <2>3
<1>17. PICK n, h \in Nat : n = m + x /\ h = k + z
  OBVIOUS
<1>18. stats' = [stats EXCEPT !.ok = n, !.failed = h]
  <2>1. stats' = IF stats = None THEN None
                 ELSE [stats EXCEPT !.ok = @ + Cardinality(r.acked),
                                    !.failed = @ + Cardinality(r.events \ r.acked)]
    BY <1>2 DEF Counted, IsEnded
  <2> QED BY <1>12, <1>17, <2>1
<1>19. stats \in Counters
  BY <1>0 DEF TypeOK
<1>20. stats' \in Counters /\ stats'.ok = n /\ stats'.failed = h /\ stats'.dropped = stats.dropped
  BY <1>18, <1>19 DEF Counters
<1>21. n = a + x /\ n + h = v + y
  <2>1. m = a /\ m + k = v
    BY <1>9, <1>12
  <2> QED BY <1>16, <1>17, <2>1
<1>22. Tallied'
  BY <1>6, <1>14, <1>15, <1>20, <1>21 DEF Tallied
<1> QED BY <1>20, <1>22, Constants

LEMMA MovesAccounts ==
  ASSUME StreamInv, LastInv, AccountInv, NEW b, NEW r, Moves(b, r)
  PROVE  AccountInv'
<1>0. TypeOK
  BY DEF StreamInv
<1>1. /\ b \in Batches /\ b \notin Ended /\ b \in Names /\ batch'[b] = r
      /\ \A c \in Names : c # b => batch'[c] = batch[c]
      /\ SameBatches /\ Batches' = Batches
  BY <1>0, MovesFacts DEF SameBatches
<1>2. /\ Counted(b, r) /\ UNCHANGED <<log, cursor, subs, stage, listener, ignored>>
  BY DEF Moves, busVars
<1>3. stats = None => stats' = None
  BY <1>2 DEF Counted
<1>4. Counting' => Counting
  BY <1>2, <1>3 DEF Counting
<1>5. ASSUME Counting PROVE stats'.dropped = stats.dropped /\ Tallied'
  <2>1. Tallied /\ subs = 1 /\ stats # None /\ stage = "up"
    BY <1>5 DEF AccountInv, Counting
  <2>2. ~batch[b].abort
    BY <1>1, <2>1 DEF LastInv
  <2>3. CASE r.at = "done" /\ r.by # None
    BY <2>1, <2>3, RecordTallies
  <2>4. CASE ~(r.at = "done" /\ r.by # None)
    <3>1. stats' = stats /\ (~IsEnded(r) \/ r.by = None)
      BY <1>2, <2>2, <2>4 DEF Counted
    <3>2. Recorded' = Recorded
      BY <1>1, <3>1 DEF Recorded, Ended, IsEnded, Batches
    <3>3. \A c \in Recorded : batch'[c] = batch[c]
      BY <1>1 DEF Recorded, Ended, Batches
    <3> QED BY <2>1, <3>1, <3>2, <3>3, TalliedSame
  <2> QED BY <2>3, <2>4
<1>6. ASSUME Counting, 1 \in Running' PROVE Balanced'
  <2>1. EventsIn(Batches)' = EventsIn(Batches)
    BY <1>1, EventsInSame
  <2>2. 1 \in Running
    BY <1>2, <1>6 DEF Running
  <2>3. Balanced
    BY <1>6, <2>2 DEF AccountInv
  <2>4. Unread(1)' = Unread(1)
    BY <1>2 DEF Unread
  <2> QED BY <1>2, <1>5, <1>6, <2>1, <2>3, <2>4 DEF Balanced
<1>7. ASSUME Counting, listener'[1].at = "none" PROVE FALSE
  <2>1. listener[1].at = "none" /\ subs = 1
    BY <1>2, <1>7 DEF Counting
  <2> QED BY <1>1, <2>1, NothingYet
<1> QED BY <1>2, <1>3, <1>4, <1>5, <1>6, <1>7 DEF AccountInv, Counting

LEMMA AccountStep ==
  ASSUME StreamInv, LastInv, AccountInv, [Next]_vars
  PROVE  AccountInv'
<1>1. CASE UNCHANGED vars
  BY <1>1, AccountSame DEF vars, busVars, SameBut
<1>2. CASE RemoveStream
  <2>1. /\ StopListener(handle)
        /\ UNCHANGED <<log, cursor, subs, stats, batch, stage, ignored>>
    BY <1>2 DEF RemoveStream
  <2>2. \A s \in Subs : SameBut(s)
    BY <2>1, StopEffect DEF StreamInv, TypeOK
  <2> QED BY <2>1, <2>2, AccountSame
<1>3. CASE RemoveStats
  BY <1>3 DEF RemoveStats, AccountInv, Counting
<1>4. CASE AddConfig \/ AddProcessor \/ RemoveProcessor \/ RemoveConfig \/ SetEnabled
  BY <1>4, AccountSame DEF AddConfig, AddProcessor, RemoveProcessor, RemoveConfig, SetEnabled,
                           taskVars, busVars, SameBut
<1>5. CASE ShutdownBegins \/ ShutdownDropsHandle \/ ShutdownDrains \/ ShutdownProcessors
  <2>1. stage' # "up" /\ UNCHANGED <<subs, stats>>
    BY <1>5 DEF ShutdownBegins, ShutdownDropsHandle, ShutdownDrains, ShutdownProcessors, streamVars,
                busVars
  <2> QED BY <2>1 DEF AccountInv, Counting
<1>6. ASSUME NEW s \in Subs, ListenerStep(s) PROVE AccountInv'
  <2>1. UNCHANGED <<subs, stage>>
    BY <1>6, ListenerLeaves
  <2>2. s \in Running /\ s \in Nat /\ s > 0
    <3>1. TurnLoop(s) => s \in Running
      BY DEF TurnLoop, Running
    <3>2. HearEvent(s) => s \in Running
      BY DEF HearEvent, Running
    <3>3. HearLag(s) => s \in Running
      BY DEF HearLag, Running
    <3>4. BufferFallsDue(s) => s \in Running
      BY DEF BufferFallsDue, Running
    <3>5. SpawnBatch(s) => s \in Running
      BY DEF SpawnBatch, Running
    <3>6. ListenerEnds(s) => s \in Running
      BY DEF ListenerEnds, Running
    <3>7. s \in Running
      BY <1>6, <3>1, <3>2, <3>3, <3>4, <3>5, <3>6 DEF ListenerStep
    <3> QED BY <3>7, Constants
  <2>3. subs # 0
    BY <2>2, Constants DEF StreamInv, Follows, Running
  <2>4. CASE subs # 1
    BY <2>1, <2>3, <2>4 DEF AccountInv, Counting
  <2>5. CASE subs = 1
    <3>1. s = 1
      BY <2>2, <2>5, OneListener
    <3> QED BY <1>6, <3>1, TurnAccounts, HearAccounts, LagAccounts, SpawnAccounts, EndAccounts
            DEF ListenerStep
  <2> QED BY <2>4, <2>5
<1>7. CASE Next
  <2>1. TypeOK /\ BatchesSound
    BY DEF StreamInv
  <2> QED BY <1>2, <1>3, <1>4, <1>5, <1>6, <1>7, <2>1, StepsAre, AddAccounts, PublishAccounts,
             MovesAccounts
<1> QED BY <1>1, <1>7

\* listen, process_event_batch and record_batch_outcome lose no event and
\* count none twice, while events are published, the receiver lags, batches
\* are retried and the stream is enabled and disabled.
THEOREM StreamEventsAreAccountedFor == Spec => []EventsAccountedFor
<1>1. Init => AccountInv
  BY DEF Init, BusInit, AccountInv, Counting
<1>2. StreamInv /\ LastInv /\ AccountInv /\ [Next]_vars => AccountInv'
  BY AccountStep
<1>3. Spec => []AccountInv
  BY <1>1, <1>2, StreamAlways, LastAlways, PTL DEF Spec
<1>4. AccountInv => EventsAccountedFor
  BY DEF AccountInv, Counting, Balanced, Tallied, EventsAccountedFor, Recorded, AckedOf, EventsOf
<1> QED BY <1>3, <1>4, PTL
=============================================================================
