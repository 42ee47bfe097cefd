---------------------------- MODULE WebhooksProofs ----------------------------
(***************************************************************************)
(* Proofs about one webhook of the webhook manager: its semaphores get     *)
(* back what is taken from them, at most one listener goes on listening, a *)
(* webhook that is listed is listened for, every event is accounted for,   *)
(* and no delivery starts after shutdown; for every number of callers,     *)
(* subscriptions, events, permits, slots and attempts.                     *)
(***************************************************************************)
EXTENDS Webhooks, FiniteSetTheorems, TLAPS

-----------------------------------------------------------------------------
(* The inductive invariants.                                               *)

Places == {"none", "recv", "check", "slot", "spawn", "gone"}
Pairs == Subs \X Events

Listeners == [at : Places, stop : BOOLEAN, abort : BOOLEAN]
Calls == [op : {"idle", "add", "remove"}, at : {"end", "config", "stats", "handle", "start"},
          sub : Subs \union {None}, config : Configs \union {None}]

\* What the variables hold.
TypeOK ==
  /\ BusTypeOK
  /\ config \in Settings \union {None}
  /\ stats \in Counters \union {None}
  /\ handle \in Subs \union {None}
  /\ listener \in [Subs -> Listeners]
  /\ slots \in [Subs -> Nat]
  /\ delivery \in [Pairs -> Tasks \union {None}]
  /\ permits \in Nat
  /\ calls \in [Callers -> Calls]
  /\ stage \in {"up", "closed", "draining", "down"}
  /\ changes \in Nat
  /\ ignored \in [Subs -> Nat]
  /\ mixed \in BOOLEAN

Adding(c) == calls[c].op = "add"
Before(c) == calls[c].at \in {"config", "stats", "handle"}

\* A subscription nobody has made, or whose add is still on its way, has no
\* listener; and an add owns its subscription.
AddsOwnTheirs ==
  /\ \A s \in Subs : s > subs => listener[s].at = "none" /\ ~listener[s].stop /\ handle # s
  /\ \A c \in Callers : Adding(c) =>
       /\ calls[c].at # "end"
       /\ calls[c].sub \in Subs /\ calls[c].sub <= subs /\ calls[c].config \in Configs
       /\ listener[calls[c].sub].at = "none" /\ cursor[calls[c].sub] > 0
  /\ \A c1, c2 \in Callers :
       Adding(c1) /\ Adding(c2) /\ calls[c1].sub = calls[c2].sub => c1 = c2

Holding(s) == listener[s].at \in {"check", "slot", "spawn"}

\* No receiver is ahead of the bus, and no delivery is ahead of its receiver:
\* the event a listener holds has none yet.
Follows(s) ==
  /\ cursor[s] <= Len(log) + 1
  /\ listener[s].at = "none" => \A e \in Events : delivery[<<s, e>>] = None
  /\ s \in Running => cursor[s] > 0 /\ \A e \in Events : delivery[<<s, e>>] # None => e < cursor[s]
  /\ Holding(s) => cursor[s] > 1 /\ delivery[<<s, Held(s)>>] = None

ReadersFollow == \A s \in Subs : Follows(s)

HookInv == TypeOK /\ AddsOwnTheirs /\ ReadersFollow

SentSet == {d \in Pairs : delivery[d] # None /\ delivery[d].at = "sent"}
OpenSet(s) ==
  {d \in Pairs : delivery[d] # None /\ delivery[d].at \notin {"done", "aborted"} /\ d[1] = s}
InHand(s) == IF At(s, "spawn") THEN 1 ELSE 0

PermitsKept == permits + Cardinality(SentSet) = MaxConcurrent
SlotsKept(s) == slots[s] + Cardinality(OpenSet(s)) + InHand(s) = MaxPending
PermitsInv == PermitsKept /\ \A s \in Subs : SlotsKept(s)

\* The listener of a subscription that is not in charge any more was told to
\* stop, also when it has not started yet.
TwinInv ==
  /\ NoTwin
  /\ \A c \in Callers : Adding(c) =>
       IF Before(c) THEN handle # calls[c].sub /\ ~listener[calls[c].sub].stop
       ELSE handle = calls[c].sub \/ listener[calls[c].sub].stop

InCharge(s) == s \in Running /\ ~listener[s].stop
Removing(c) == calls[c].op = "remove"

\* As long as adds and removes do not overlap the manager is up to date but
\* for the calls in progress.
Quiet == stage = "up" /\ ~mixed

Apart == \A c1, c2 \in Callers : ~(Adding(c1) /\ Removing(c2))
ConfigSettled ==
  /\ \A c \in Callers : Removing(c) => config = None
  /\ \A c \in Callers : Adding(c) /\ calls[c].at # "config" => config # None
HandleToCome == config # None => handle # None \/ \E c \in Callers : Adding(c) /\ Before(c)
HandleSettled ==
  handle # None =>
    \/ config # None /\ InCharge(handle)
    \/ \E c \in Callers : Adding(c) /\ calls[c].sub = handle /\ calls[c].at = "start"
                          /\ ~listener[handle].stop
    \/ \E c \in Callers : Removing(c) /\ calls[c].at = "handle"

ListedInv ==
  /\ stage = "up" => \A s \in Subs : ~listener[s].abort
  /\ Quiet => Apart /\ ConfigSettled /\ HandleToCome /\ HandleSettled

\* The attempts made: the first, the second, ... of each delivery.
TriedSet == {p \in Pairs \X (1..MaxAttempts) :
               delivery[p[1]] # None /\ p[2] <= delivery[p[1]].tries}

\* A delivery is tried again only while attempts are left, and aborted only
\* once shutdown has ended.
Tries(d) ==
  delivery[d] # None =>
    /\ delivery[d].tries <= MaxAttempts
    /\ delivery[d].at \in {"waiting", "backoff"} => delivery[d].tries < MaxAttempts
    /\ stage # "down" => ~delivery[d].abort

TriesInv == \A d \in Pairs : Tries(d)

\* The counters come with the webhook's only add, before its listener starts.
StatsComeWithAdd ==
  /\ subs = 0 => stats = None
  /\ subs = 1 => \A c \in Callers : Adding(c) /\ calls[c].at \in {"config", "stats"} => stats = None
  /\ subs = 1 /\ At(1, "none") =>
       ignored[1] + 1 = cursor[1] /\ (stats # None => stats = NewStats)

HeldCount == IF Holding(1) THEN 1 ELSE 0

\* What the listener has read was not meant for the webhook, is counted as
\* dropped, has a delivery or is in its hands.
ReadIsKnown ==
  1 \in Running => Cardinality(Deliveries) + stats.dropped + ignored[1] + HeldCount + 1 = cursor[1]
OutcomesCounted == stats.ok + stats.bad = Cardinality(Ended)
AttemptsCounted == Cardinality(TriedSet) = stats.attempts + Cardinality(SentSet)

AccountInv ==
  /\ TriesInv
  /\ StatsComeWithAdd
  /\ subs = 1 /\ stats # None /\ stage = "up" => ReadIsKnown /\ OutcomesCounted /\ AttemptsCounted

-----------------------------------------------------------------------------
(* What the steps of the model do to the functions they change.            *)

LEMMA Constants ==
  /\ MaxPending \in Nat \ {0} /\ MaxConcurrent \in Nat \ {0} /\ MaxAttempts \in Nat \ {0}
  /\ Buffer \in Nat \ {0} /\ MaxEvents \in Nat /\ MaxSubs \in Nat \ {0}
  /\ Subs \subseteq Nat \ {0} /\ Events \subseteq Nat \ {0}
  /\ Configs \subseteq Settings
  /\ None \notin Settings /\ None \notin Counters /\ None \notin Tasks /\ None \notin Subs
BY EventBusAssumptions, WebhooksAssumptions DEF Subs, Events

LEMMA GoEffect ==
  ASSUME listener \in [Subs -> Listeners], NEW s \in Subs, NEW place \in Places, Go(s, place)
  PROVE  /\ listener' \in [Subs -> Listeners]
         /\ listener'[s].at = place
         /\ \A t \in Subs : /\ listener'[t].stop = listener[t].stop
                            /\ listener'[t].abort = listener[t].abort
                            /\ t # s => listener'[t] = listener[t]
<1>1. listener[s] \in Listeners
  OBVIOUS
<1>2. listener' = [listener EXCEPT ![s] = [listener[s] EXCEPT !.at = place]]
  BY DEF Go
<1>3. /\ [listener[s] EXCEPT !.at = place] \in Listeners
      /\ [listener[s] EXCEPT !.at = place].at = place
      /\ [listener[s] EXCEPT !.at = place].stop = listener[s].stop
      /\ [listener[s] EXCEPT !.at = place].abort = listener[s].abort
  BY <1>1 DEF Listeners
<1>4. QED
  BY <1>2, <1>3

LEMMA StopEffect ==
  ASSUME listener \in [Subs -> Listeners], NEW h \in Subs \union {None}, StopListener(h)
  PROVE  /\ listener' \in [Subs -> Listeners]
         /\ \A t \in Subs : /\ listener'[t].at = listener[t].at
                            /\ listener'[t].abort = listener[t].abort
                            /\ t = h => listener'[t].stop
                            /\ t # h => listener'[t] = listener[t]
<1>0. None \notin Subs
  BY Constants
<1>1. CASE h = None
  <2>1. listener' = listener
    BY <1>1 DEF StopListener
  <2>2. QED
    BY <2>1, <1>1, <1>0
<1>2. CASE h \in Subs
  <2>1. listener[h] \in Listeners
    BY <1>2
  <2>2. listener' = [listener EXCEPT ![h] = [listener[h] EXCEPT !.stop = TRUE]]
    BY <1>2, <1>0 DEF StopListener
  <2>3. /\ [listener[h] EXCEPT !.stop = TRUE] \in Listeners
        /\ [listener[h] EXCEPT !.stop = TRUE].stop = TRUE
        /\ [listener[h] EXCEPT !.stop = TRUE].at = listener[h].at
        /\ [listener[h] EXCEPT !.stop = TRUE].abort = listener[h].abort
    BY <2>1 DEF Listeners
  <2>4. QED
    BY <2>2, <2>3, <1>2
<1>3. QED
  BY <1>1, <1>2

\* A call goes on to its next lock.
LEMMA CallEffect ==
  ASSUME calls \in [Callers -> Calls], NEW c \in Callers,
         NEW place \in {"config", "stats", "handle", "start"},
         calls' = [calls EXCEPT ![c].at = place]
  PROVE  /\ calls' \in [Callers -> Calls]
         /\ calls'[c].at = place
         /\ \A b \in Callers : /\ calls'[b].op = calls[b].op
                               /\ calls'[b].sub = calls[b].sub
                               /\ calls'[b].config = calls[b].config
                               /\ b # c => calls'[b] = calls[b]
<1>1. calls[c] \in Calls
  OBVIOUS
<1>2. calls' = [calls EXCEPT ![c] = [calls[c] EXCEPT !.at = place]]
  OBVIOUS
<1>3. /\ [calls[c] EXCEPT !.at = place] \in Calls
      /\ [calls[c] EXCEPT !.at = place].at = place
      /\ [calls[c] EXCEPT !.at = place].op = calls[c].op
      /\ [calls[c] EXCEPT !.at = place].sub = calls[c].sub
      /\ [calls[c] EXCEPT !.at = place].config = calls[c].config
  BY <1>1 DEF Calls
<1>4. QED
  BY <1>2, <1>3

\* A call begins or ends.
LEMMA CallReplaced ==
  ASSUME calls \in [Callers -> Calls], NEW c \in Callers, NEW r \in Calls,
         calls' = [calls EXCEPT ![c] = r]
  PROVE  /\ calls' \in [Callers -> Calls]
         /\ calls'[c] = r
         /\ \A b \in Callers : b # c => calls'[b] = calls[b]
OBVIOUS

LEMMA IdleIsCall ==
  /\ Idle \in Calls /\ Idle.op = "idle"
  /\ [Idle EXCEPT !.op = "remove", !.at = "handle"] \in Calls
  /\ [Idle EXCEPT !.op = "remove", !.at = "handle"].op = "remove"
  /\ [Idle EXCEPT !.op = "remove", !.at = "handle"].at = "handle"
BY DEF Idle, Calls

\* A step of a delivery: its new record is a delivery again.
TaskStep(d, r) == d \in Deliveries /\ r \in Tasks /\ delivery' = [delivery EXCEPT ![d] = r]

LEMMA DeliveryFacts ==
  ASSUME TypeOK, NEW d \in Deliveries
  PROVE  /\ d \in Pairs /\ delivery[d] \in Tasks
         /\ delivery[d].at \in {"waiting", "sent", "backoff", "outcome", "done", "aborted"}
         /\ delivery[d].tries \in Nat /\ delivery[d].ok \in BOOLEAN /\ delivery[d].abort \in BOOLEAN
<1>1. d \in Pairs /\ delivery[d] \in Tasks
  BY DEF TypeOK, Deliveries, Pairs
<1>2. QED
  BY <1>1 DEF Tasks

LEMMA SendEffect ==
  ASSUME TypeOK, NEW d \in Pairs, SendRequest(d)
  PROVE  \E r \in Tasks : /\ TaskStep(d, r) /\ delivery[d].at = "waiting"
                          /\ r.at = "sent" /\ r.tries = delivery[d].tries + 1
                          /\ r.abort = delivery[d].abort
<1>1. d \in Deliveries /\ delivery[d].at = "waiting"
  BY DEF SendRequest, Stands
<1>2. delivery[d] \in Tasks /\ delivery[d].tries \in Nat
  BY <1>1, DeliveryFacts
<1> DEFINE r == [delivery[d] EXCEPT !.at = "sent", !.tries = @ + 1]
<1>3. r \in Tasks /\ r.at = "sent" /\ r.tries = delivery[d].tries + 1 /\ r.abort = delivery[d].abort
  <2>1. PICK n \in Nat : n = delivery[d].tries + 1
    BY <1>2
  <2>2. r = [delivery[d] EXCEPT !.at = "sent", !.tries = n]
    BY <2>1
  <2>3. r \in Tasks /\ r.at = "sent" /\ r.tries = n /\ r.abort = delivery[d].abort
    BY <1>2, <2>2 DEF Tasks
  <2>4. QED
    BY <2>1, <2>3
<1>4. delivery' = [delivery EXCEPT ![d].at = "sent", ![d].tries = @ + 1]
  BY DEF SendRequest
<1>5. delivery' = [delivery EXCEPT ![d] = r]
  BY <1>2, <1>4, <1>1 DEF TypeOK, Pairs, Tasks
<1>6. QED
  BY <1>1, <1>3, <1>5 DEF TaskStep

LEMMA AnswerEffect ==
  ASSUME TypeOK, NEW d \in Pairs, GetAnswer(d)
  PROVE  \E r \in Tasks : /\ TaskStep(d, r) /\ delivery[d].at = "sent"
                          /\ r.at \in {"outcome", "backoff"} /\ r.tries = delivery[d].tries
                          /\ r.at = "backoff" => delivery[d].tries < MaxAttempts
                          /\ r.abort = delivery[d].abort
<1>1. d \in Deliveries /\ delivery[d].at = "sent"
  BY DEF GetAnswer, Stands
<1>2. delivery[d] \in Tasks /\ delivery[d].tries \in Nat
  BY <1>1, DeliveryFacts
<1>3. PICK a \in {"ok", "retry", "final"} :
        delivery' = [delivery EXCEPT ![d].at = IF LastTry(d, a) THEN "outcome" ELSE "backoff",
                                     ![d].ok = a = "ok"]
  BY DEF GetAnswer
<1> DEFINE place == IF LastTry(d, a) THEN "outcome" ELSE "backoff"
<1> DEFINE r == [delivery[d] EXCEPT !.at = place, !.ok = a = "ok"]
<1>4. place \in {"outcome", "backoff"}
  OBVIOUS
<1>5. place = "backoff" => delivery[d].tries < MaxAttempts
  BY <1>2, Constants DEF LastTry
<1> HIDE DEF place
<1>6. r \in Tasks /\ r.at = place /\ r.tries = delivery[d].tries /\ r.abort = delivery[d].abort
  BY <1>2, <1>4 DEF Tasks
<1>7. delivery' = [delivery EXCEPT ![d] = r]
  BY <1>2, <1>3, <1>1 DEF TypeOK, Pairs, Tasks, place
<1>8. QED
  BY <1>1, <1>4, <1>5, <1>6, <1>7 DEF TaskStep

LEMMA MoveEffect ==
  ASSUME TypeOK, NEW d \in Deliveries,
         NEW place \in {"waiting", "done", "aborted"}, Moves(d, place)
  PROVE  \E r \in Tasks : /\ TaskStep(d, r)
                          /\ r.at = place /\ r.tries = delivery[d].tries
                          /\ r.abort = delivery[d].abort
<1>1. delivery[d] \in Tasks
  BY DeliveryFacts
<1> DEFINE r == [delivery[d] EXCEPT !.at = place]
<1>2. r \in Tasks /\ r.at = place /\ r.tries = delivery[d].tries /\ r.abort = delivery[d].abort
  BY <1>1 DEF Tasks
<1>3. delivery' = [delivery EXCEPT ![d] = r]
  BY DEF Moves
<1>4. QED
  BY <1>2, <1>3 DEF TaskStep

LEMMA SpawnEffect ==
  ASSUME HookInv, NEW s \in Subs, SpawnDelivery(s)
  PROVE  /\ <<s, Held(s)>> \in Pairs /\ delivery[<<s, Held(s)>>] = None
         /\ Held(s) \in Nat /\ Held(s) < cursor[s]
         /\ NewDelivery \in Tasks
         /\ \/ DeliveriesClosed /\ delivery' = delivery /\ slots' = [slots EXCEPT ![s] = @ + 1]
            \/ /\ ~DeliveriesClosed /\ slots' = slots
               /\ delivery' = [delivery EXCEPT ![<<s, Held(s)>>] = NewDelivery]
<1>1. Holding(s)
  BY DEF SpawnDelivery, At, Holding
<1>2. cursor[s] > 1 /\ delivery[<<s, Held(s)>>] = None /\ cursor[s] <= Len(log) + 1
  BY <1>1 DEF HookInv, ReadersFollow, Follows
<1>3. cursor[s] \in Nat /\ Len(log) \in Nat /\ Len(log) <= MaxEvents /\ MaxEvents \in Nat
  BY Constants DEF HookInv, TypeOK, BusTypeOK
<1>4. Held(s) \in Events
  BY <1>2, <1>3 DEF Held, Events
<1>5. NewDelivery \in Tasks
  BY DEF NewDelivery, Tasks
<1>6. Held(s) \in Nat /\ Held(s) < cursor[s]
  BY <1>2, <1>3 DEF Held
<1>7. <<s, Held(s)>> \in Pairs
  BY <1>4 DEF Pairs
<1>8. QED
  BY <1>2, <1>5, <1>6, <1>7 DEF SpawnDelivery

LEMMA BeginsEffect ==
  ASSUME TypeOK, ShutdownBegins
  PROVE  /\ listener' \in [Subs -> Listeners]
         /\ \A s \in Subs : listener'[s].at = listener[s].at /\ listener'[s].stop = listener[s].stop
<1>1. ASSUME NEW s \in Subs
      PROVE  /\ listener'[s] \in Listeners
             /\ listener'[s].at = listener[s].at /\ listener'[s].stop = listener[s].stop
  <2>1. listener[s] \in Listeners
    BY DEF TypeOK
  <2>2. \/ listener'[s] = [listener[s] EXCEPT !.abort = TRUE]
        \/ listener'[s] = [listener[s] EXCEPT !.abort = FALSE]
    <3>1. listener'[s] = [listener[s] EXCEPT !.abort = s \in Running]
      BY DEF ShutdownBegins
    <3>2. (s \in Running) = TRUE \/ (s \in Running) = FALSE
      OBVIOUS
    <3>3. QED
      BY <3>1, <3>2, Zenon
  <2>3. QED
    BY <2>1, <2>2 DEF Listeners
<1>2. listener' = [s \in Subs |-> listener'[s]]
  BY DEF ShutdownBegins
<1>3. QED
  BY <1>1, <1>2

LEMMA EndsEffect ==
  ASSUME TypeOK, ShutdownEnds
  PROVE  /\ delivery' \in [Pairs -> Tasks \union {None}]
         /\ \A d \in Pairs : delivery'[d] # None <=> delivery[d] # None
         /\ \A d \in Deliveries : delivery'[d].at = delivery[d].at
                                  /\ delivery'[d].tries = delivery[d].tries
<1>1. \A d \in Pairs : delivery'[d] =
        IF d \in Deliveries \ Ended THEN [delivery[d] EXCEPT !.abort = TRUE] ELSE delivery[d]
  BY DEF ShutdownEnds, Pairs
<1>2. DOMAIN delivery' = Pairs /\ delivery' = [d \in Pairs |-> delivery'[d]]
  BY DEF ShutdownEnds, Pairs
<1>3. ASSUME NEW d \in Pairs
      PROVE  /\ delivery'[d] \in Tasks \union {None}
             /\ delivery'[d] # None <=> delivery[d] # None
             /\ d \in Deliveries => delivery'[d].at = delivery[d].at
                                    /\ delivery'[d].tries = delivery[d].tries
  <2>1. CASE d \in Deliveries \ Ended
    <3>1. delivery[d] \in Tasks
      BY <2>1, DeliveryFacts
    <3>2. /\ [delivery[d] EXCEPT !.abort = TRUE] \in Tasks
          /\ [delivery[d] EXCEPT !.abort = TRUE].at = delivery[d].at
          /\ [delivery[d] EXCEPT !.abort = TRUE].tries = delivery[d].tries
      BY <3>1 DEF Tasks
    <3>3. QED
      BY <3>1, <3>2, <2>1, <1>1, Constants
  <2>2. CASE d \notin Deliveries \ Ended
    <3>1. delivery'[d] = delivery[d]
      BY <2>2, <1>1
    <3>2. QED
      BY <3>1 DEF TypeOK, Pairs
  <2>3. QED
    BY <2>1, <2>2
<1>4. QED
  <2>1. \A d \in Deliveries : d \in Pairs
    BY DEF Deliveries, Pairs
  <2>2. QED
    BY <1>2, <1>3, <2>1

-----------------------------------------------------------------------------
(* The variables keep their types.                                         *)

LEMMA UnsubscribeTyped ==
  ASSUME BusTypeOK, NEW S, Unsubscribe(S), UNCHANGED <<log, cursor, subs>>
  PROVE  BusTypeOK'
BY DEF BusTypeOK, Unsubscribe

LEMMA DropTyped ==
  ASSUME BusTypeOK, NEW s \in Subs, DropSubscription(s)
  PROVE  BusTypeOK'
BY EventBusAssumptions DEF BusTypeOK, DropSubscription

LEMMA SubscribeTyped ==
  ASSUME BusTypeOK, NEW b, Subscribe(b)
  PROVE  BusTypeOK' /\ NextSub \in Subs /\ NextSub = subs + 1 /\ subs' = NextSub
         /\ cursor' = [cursor EXCEPT ![NextSub] = Len(log) + 1]
<1>1. Len(log) \in Nat /\ Len(log) <= MaxEvents /\ MaxEvents \in Nat /\ subs \in Nat /\ subs < MaxSubs
      /\ MaxSubs \in Nat
  BY EventBusAssumptions DEF BusTypeOK, Subscribe
<1>2. NextSub \in Subs /\ Len(log) + 1 \in 0..(MaxEvents + 1)
  BY <1>1 DEF NextSub, Subs
<1>3. QED
  BY <1>1, <1>2 DEF BusTypeOK, Subscribe, NextSub

LEMMA PublishTyped ==
  ASSUME BusTypeOK, NEW kind \in Kinds, PublishEvent(kind)
  PROVE  BusTypeOK' /\ Len(log') = Len(log) + 1 /\ UNCHANGED <<cursor, registry, subs>>
<1>1. PayloadWanted \in BOOLEAN
  BY DEF PayloadWanted
<1>2. [kind |-> kind, payload |-> PayloadWanted] \in [kind : Kinds, payload : BOOLEAN]
  BY <1>1
<1>3. /\ log' \in Seq([kind : Kinds, payload : BOOLEAN])
      /\ Len(log') = Len(log) + 1
  BY <1>2 DEF BusTypeOK, PublishEvent
<1>4. Len(log') <= MaxEvents
  BY <1>3, EventBusAssumptions DEF BusTypeOK, PublishEvent
<1>5. UNCHANGED <<cursor, registry, subs>>
  BY DEF PublishEvent
<1>6. QED
  BY <1>3, <1>4, <1>5 DEF BusTypeOK

\* A receiver moves on, never past the end of the log.
LEMMA ReadTyped ==
  ASSUME BusTypeOK, NEW s \in Subs, Receive(s) \/ SkipLost(s), UNCHANGED <<log, registry, subs>>
  PROVE  /\ BusTypeOK'
         /\ cursor'[s] > cursor[s] /\ cursor[s] > 0 /\ cursor'[s] <= Len(log) + 1
         /\ \A t \in Subs : t # s => cursor'[t] = cursor[t]
<1>1. Len(log) \in Nat /\ Len(log) <= MaxEvents /\ MaxEvents \in Nat /\ cursor[s] \in Nat
      /\ Buffer \in Nat \ {0}
  BY EventBusAssumptions DEF BusTypeOK
<1>2. PICK n \in Nat : /\ cursor' = [cursor EXCEPT ![s] = n]
                       /\ n > cursor[s] /\ cursor[s] > 0 /\ n <= Len(log) + 1
  <2>1. CASE Receive(s)
    <3>1. cursor[s] > 0 /\ Len(log) + 1 - cursor[s] >= 1 /\ cursor' = [cursor EXCEPT ![s] = cursor[s] + 1]
      BY <2>1, <1>1 DEF Receive, Ready, Unread
    <3>2. PICK n \in Nat : n = cursor[s] + 1
      BY <1>1
    <3>3. n > cursor[s] /\ n <= Len(log) + 1
      BY <3>1, <3>2, <1>1
    <3>4. QED
      BY <3>1, <3>2, <3>3
  <2>2. CASE SkipLost(s)
    <3>1. cursor[s] > 0 /\ Unread(s) > Buffer /\ cursor' = [cursor EXCEPT ![s] = cursor[s] + Skipped(s)]
      BY <2>2 DEF SkipLost, Behind
    <3>2. PICK n \in Int : n = cursor[s] + Skipped(s)
      BY <1>1 DEF Skipped, Unread
    <3>3. n \in Nat /\ n > cursor[s] /\ n <= Len(log) + 1
      BY <3>1, <3>2, <1>1 DEF Skipped, Unread
    <3>4. QED
      BY <3>1, <3>2, <3>3
  <2>3. QED
    BY <2>1, <2>2
<1>3. n \in 0..(MaxEvents + 1)
  BY <1>1, <1>2
<1>4. QED
  BY <1>1, <1>2, <1>3 DEF BusTypeOK

LEMMA CountTyped ==
  ASSUME stats \in Counters \union {None}, NEW f \in {"attempts", "ok", "bad", "dropped"},
         NEW n \in Nat, CountIn(f, n)
  PROVE  stats' \in Counters \union {None}
<1>1. CASE stats = None
  BY <1>1 DEF CountIn
<1>2. CASE stats # None
  <2>1. stats \in Counters /\ stats[f] \in Nat
    BY <1>2 DEF Counters
  <2>2. stats' = [stats EXCEPT ![f] = stats[f] + n]
    BY <1>2 DEF CountIn
  <2>3. PICK m \in Nat : m = stats[f] + n
    BY <2>1
  <2>4. QED
    BY <2>1, <2>2, <2>3 DEF Counters
<1>3. QED
  BY <1>1, <1>2

LEMMA TypeStep == HookInv /\ [Next]_vars => TypeOK'
<1> SUFFICES ASSUME HookInv, [Next]_vars
             PROVE  TypeOK'
  OBVIOUS
<1> USE DEF hookVars, taskVars, countVars
<1>0. /\ TypeOK /\ BusTypeOK /\ listener \in [Subs -> Listeners] /\ calls \in [Callers -> Calls]
      /\ handle \in Subs \union {None} /\ stats \in Counters \union {None}
      /\ slots \in [Subs -> Nat] /\ permits \in Nat /\ changes \in Nat /\ ignored \in [Subs -> Nat]
      /\ delivery \in [Pairs -> Tasks \union {None}]
  BY DEF HookInv, TypeOK
<1>1. ASSUME NEW c \in Callers, AddWebhook(c)
      PROVE  TypeOK'
  <2>1. PICK cf \in Configs :
          /\ Subscribe(cf.payload)
          /\ calls' = [calls EXCEPT ![c] =
                         [op |-> "add", at |-> "config", sub |-> NextSub, config |-> cf]]
    BY <1>1 DEF AddWebhook
  <2>2. BusTypeOK' /\ NextSub \in Subs
    BY <2>1, <1>0, SubscribeTyped
  <2>3. [op |-> "add", at |-> "config", sub |-> NextSub, config |-> cf] \in Calls
    BY <2>2 DEF Calls
  <2>4. calls' \in [Callers -> Calls]
    BY <2>1, <2>3, <1>0, CallReplaced
  <2>5. Len(log) \in Nat
    BY <1>0 DEF BusTypeOK
  <2>6. ignored' \in [Subs -> Nat] /\ mixed' \in BOOLEAN
    BY <1>1, <2>5, <1>0 DEF AddWebhook, TypeOK
  <2>7. QED
    BY <1>1, <1>0, <2>2, <2>4, <2>6 DEF AddWebhook, TypeOK
<1>2. ASSUME NEW c \in Callers, AddConfig(c)
      PROVE  TypeOK'
  <2>1. calls' \in [Callers -> Calls]
    BY <1>2, <1>0, CallEffect DEF AddConfig
  <2>2. config' \in Settings \union {None}
    BY <1>2, <1>0, Constants DEF AddConfig, HookInv, AddsOwnTheirs, Adding
  <2>3. QED
    BY <1>2, <1>0, <2>1, <2>2 DEF AddConfig, TypeOK, BusTypeOK, busVars
<1>3. ASSUME NEW c \in Callers, AddStats(c)
      PROVE  TypeOK'
  <2>1. calls' \in [Callers -> Calls]
    BY <1>3, <1>0, CallEffect DEF AddStats
  <2>2. stats' \in Counters
    BY <1>3 DEF AddStats, NewStats, Counters
  <2>3. QED
    BY <1>3, <1>0, <2>1, <2>2 DEF AddStats, TypeOK, BusTypeOK, busVars
<1>4. ASSUME NEW c \in Callers, AddHandle(c)
      PROVE  TypeOK'
  <2>1. calls' \in [Callers -> Calls]
    BY <1>4, <1>0, CallEffect DEF AddHandle
  <2>2. listener' \in [Subs -> Listeners]
    BY <1>4, <1>0, StopEffect DEF AddHandle
  <2>3. handle' \in Subs
    BY <1>4 DEF AddHandle, HookInv, AddsOwnTheirs, Adding
  <2>4. BusTypeOK'
    BY <1>4, <1>0, UnsubscribeTyped DEF AddHandle
  <2>5. QED
    BY <1>4, <1>0, <2>1, <2>2, <2>3, <2>4 DEF AddHandle, TypeOK
<1>5. ASSUME NEW c \in Callers, AddStart(c)
      PROVE  TypeOK'
  <2>1. calls[c].sub \in Subs
    BY <1>5 DEF AddStart, HookInv, AddsOwnTheirs, Adding
  <2>2. calls' \in [Callers -> Calls]
    BY <1>5, <1>0, CallReplaced, IdleIsCall DEF AddStart
  <2>3. \E place \in Places : Go(calls[c].sub, place)
    BY <1>5 DEF AddStart, Go, Places
  <2>4. listener' \in [Subs -> Listeners]
    BY <2>1, <2>3, <1>0, GoEffect
  <2>5. BusTypeOK'
    <3>1. CASE ListenersClosed
      BY <1>5, <3>1, <2>1, <1>0, DropTyped DEF AddStart
    <3>2. CASE ~ListenersClosed
      BY <1>5, <3>2, <1>0 DEF AddStart, BusTypeOK, busVars
    <3>3. QED
      BY <3>1, <3>2
  <2>6. QED
    BY <1>5, <1>0, <2>2, <2>4, <2>5 DEF AddStart, TypeOK
<1>6. ASSUME NEW c \in Callers, RemoveWebhook(c)
      PROVE  TypeOK'
  <2>1. calls' \in [Callers -> Calls]
    BY <1>6, <1>0, CallReplaced, IdleIsCall DEF RemoveWebhook
  <2>2. config' = None /\ changes' \in Nat /\ mixed' \in BOOLEAN
    BY <1>6, <1>0 DEF RemoveWebhook, TypeOK
  <2>3. QED
    BY <1>6, <1>0, <2>1, <2>2 DEF RemoveWebhook, TypeOK, BusTypeOK, busVars
<1>7. ASSUME NEW c \in Callers, RemoveHandle(c)
      PROVE  TypeOK'
  <2>1. calls' \in [Callers -> Calls]
    BY <1>7, <1>0, CallEffect DEF RemoveHandle
  <2>2. listener' \in [Subs -> Listeners]
    BY <1>7, <1>0, StopEffect DEF RemoveHandle
  <2>3. BusTypeOK'
    BY <1>7, <1>0, UnsubscribeTyped DEF RemoveHandle
  <2>4. QED
    BY <1>7, <1>0, <2>1, <2>2, <2>3 DEF RemoveHandle, TypeOK
<1>8. ASSUME NEW c \in Callers, RemoveStats(c)
      PROVE  TypeOK'
  <2>1. calls' \in [Callers -> Calls]
    BY <1>8, <1>0, CallReplaced, IdleIsCall DEF RemoveStats
  <2>2. QED
    BY <1>8, <1>0, <2>1 DEF RemoveStats, TypeOK, BusTypeOK, busVars
<1>9. ASSUME ChangeConfig
      PROVE  TypeOK'
  <2>1. config \in Settings
    BY <1>9 DEF ChangeConfig, HookInv, TypeOK
  <2>2. \A b \in BOOLEAN : [config EXCEPT !.enabled = b] \in Settings
    BY <2>1 DEF Settings
  <2>3. config' \in Settings /\ changes' \in Nat
    BY <1>9, <1>0, <2>2, Constants DEF ChangeConfig
  <2>4. QED
    BY <1>9, <1>0, <2>3 DEF ChangeConfig, TypeOK, BusTypeOK, busVars
<1>10. ASSUME Publish
       PROVE  TypeOK'
  <2>1. BusTypeOK'
    BY <1>10, <1>0, PublishTyped DEF Publish
  <2>2. QED
    BY <1>10, <1>0, <2>1 DEF Publish, TypeOK
<1>11. ASSUME ShutdownBegins
       PROVE  TypeOK'
  <2>1. listener' \in [Subs -> Listeners]
    BY <1>11, <1>0, BeginsEffect
  <2>2. QED
    BY <1>11, <1>0, <2>1 DEF ShutdownBegins, TypeOK, BusTypeOK, busVars
<1>12. ASSUME ShutdownDropsHandle
       PROVE  TypeOK'
  <2>1. listener' \in [Subs -> Listeners]
    BY <1>12, <1>0, StopEffect DEF ShutdownDropsHandle
  <2>2. BusTypeOK'
    BY <1>12, <1>0, UnsubscribeTyped DEF ShutdownDropsHandle
  <2>3. QED
    BY <1>12, <1>0, <2>1, <2>2 DEF ShutdownDropsHandle, TypeOK
<1>13. ASSUME ShutdownEnds
       PROVE  TypeOK'
  <2>1. delivery' \in [Pairs -> Tasks \union {None}]
    BY <1>13, <1>0, EndsEffect
  <2>2. QED
    BY <1>13, <1>0, <2>1 DEF ShutdownEnds, TypeOK, BusTypeOK, busVars
<1>14. ASSUME NEW s \in Subs, HearEvent(s)
       PROVE  TypeOK'
  <2>1. listener' \in [Subs -> Listeners]
    BY <1>14, <1>0, GoEffect DEF HearEvent, Places
  <2>2. BusTypeOK'
    BY <1>14, <1>0, ReadTyped DEF HearEvent
  <2>3. QED
    BY <1>14, <1>0, <2>1, <2>2 DEF HearEvent, TypeOK
<1>15. ASSUME NEW s \in Subs, HearLag(s)
       PROVE  TypeOK'
  <2>1. BusTypeOK'
    BY <1>15, <1>0, ReadTyped DEF HearLag
  <2>2. Skipped(s) \in Nat
    <3>1. Unread(s) > Buffer /\ Buffer \in Nat /\ cursor[s] \in Nat /\ Len(log) \in Nat
      BY <1>15, <1>0, Constants DEF HearLag, SkipLost, Behind, BusTypeOK
    <3>2. QED
      BY <3>1 DEF Skipped, Unread
  <2>3. stats' \in Counters \union {None}
    BY <1>15, <1>0, <2>2, CountTyped DEF HearLag
  <2>4. QED
    BY <1>15, <1>0, <2>1, <2>3 DEF HearLag, TypeOK
<1>16. ASSUME NEW s \in Subs, CheckEvent(s)
       PROVE  TypeOK'
  <2>1. \E place \in Places : Go(s, place)
    BY <1>16 DEF CheckEvent, Places
  <2>2. listener' \in [Subs -> Listeners]
    BY <2>1, <1>0, GoEffect
  <2>3. BusTypeOK'
    <3>1. CASE config = None
      BY <1>16, <3>1, <1>0, DropTyped DEF CheckEvent
    <3>2. CASE config # None
      BY <1>16, <3>2, <1>0 DEF CheckEvent, BusTypeOK, busVars
    <3>3. QED
      BY <3>1, <3>2
  <2>4. ignored' \in [Subs -> Nat]
    BY <1>16, <1>0 DEF CheckEvent
  <2>5. QED
    BY <1>16, <1>0, <2>2, <2>3, <2>4 DEF CheckEvent, TypeOK
<1>17. ASSUME NEW s \in Subs, TakeSlot(s)
       PROVE  TypeOK'
  <2>1. listener' \in [Subs -> Listeners]
    BY <1>17, <1>0, GoEffect DEF TakeSlot, Places
  <2>2. slots' \in [Subs -> Nat]
    BY <1>17, <1>0 DEF TakeSlot
  <2>3. QED
    BY <1>17, <1>0, <2>1, <2>2 DEF TakeSlot, TypeOK, BusTypeOK, busVars
<1>18. ASSUME NEW s \in Subs, SpawnDelivery(s)
       PROVE  TypeOK'
  <2>1. listener' \in [Subs -> Listeners]
    BY <1>18, <1>0, GoEffect DEF SpawnDelivery, Places
  <2>2. <<s, Held(s)>> \in Pairs /\ NewDelivery \in Tasks
    BY <1>18, SpawnEffect
  <2>3. CASE delivery' = delivery /\ slots' = [slots EXCEPT ![s] = @ + 1]
    <3>1. slots' \in [Subs -> Nat]
      BY <2>3, <1>0
    <3>2. QED
      BY <1>18, <1>0, <2>1, <2>3, <3>1 DEF SpawnDelivery, TypeOK, BusTypeOK, busVars
  <2>4. CASE slots' = slots /\ delivery' = [delivery EXCEPT ![<<s, Held(s)>>] = NewDelivery]
    <3>1. delivery' \in [Pairs -> Tasks \union {None}]
      BY <2>4, <1>0, <2>2
    <3>2. QED
      BY <1>18, <1>0, <2>1, <2>4, <3>1 DEF SpawnDelivery, TypeOK, BusTypeOK, busVars
  <2>5. QED
    BY <1>18, <2>3, <2>4 DEF SpawnDelivery
<1>19. ASSUME NEW s \in Subs, ListenerEnds(s)
       PROVE  TypeOK'
  <2>1. listener' \in [Subs -> Listeners]
    BY <1>19, <1>0, GoEffect DEF ListenerEnds, Places
  <2>2. BusTypeOK'
    BY <1>19, <1>0, DropTyped DEF ListenerEnds
  <2>3. QED
    BY <1>19, <1>0, <2>1, <2>2 DEF ListenerEnds, TypeOK
<1>20. ASSUME NEW d \in Pairs, DeliveryStep(d)
       PROVE  TypeOK'
  <2>1. \E r \in Tasks : TaskStep(d, r)
    BY <1>20, <1>0, SendEffect, AnswerEffect, MoveEffect
       DEF DeliveryStep, BackoffEnds, RecordOutcome, DeliveryAborts, Stands, TaskStep
  <2>2. delivery' \in [Pairs -> Tasks \union {None}]
    BY <2>1, <1>0 DEF TaskStep
  <2>3. d[1] \in Subs
    BY DEF Pairs
  <2>4. CASE SendRequest(d)
    <3>1. permits' \in Nat
      BY <2>4, <1>0 DEF SendRequest
    <3>2. QED
      BY <2>4, <1>0, <2>2, <3>1 DEF SendRequest, TypeOK, BusTypeOK, busVars
  <2>5. CASE GetAnswer(d)
    <3>1. permits' \in Nat
      BY <2>5, <1>0 DEF GetAnswer
    <3>2. stats' \in Counters \union {None}
      BY <2>5, <1>0, CountTyped DEF GetAnswer
    <3>3. QED
      BY <2>5, <1>0, <2>2, <3>1, <3>2 DEF GetAnswer, TypeOK, BusTypeOK, busVars
  <2>6. CASE BackoffEnds(d)
    BY <2>6, <1>0, <2>2 DEF BackoffEnds, TypeOK, BusTypeOK, busVars
  <2>7. CASE RecordOutcome(d)
    <3>1. slots' \in [Subs -> Nat]
      BY <2>7, <1>0, <2>3 DEF RecordOutcome, FreeSlot
    <3>2. \E f \in {"ok", "bad"} : CountIn(f, 1)
      BY <2>7 DEF RecordOutcome
    <3>3. stats' \in Counters \union {None}
      BY <3>2, <1>0, CountTyped
    <3>4. QED
      BY <2>7, <1>0, <2>2, <3>1, <3>3 DEF RecordOutcome, TypeOK, BusTypeOK, busVars
  <2>8. CASE DeliveryAborts(d)
    <3>1. slots' \in [Subs -> Nat]
      BY <2>8, <1>0, <2>3 DEF DeliveryAborts, FreeSlot
    <3>2. permits' \in Nat
      BY <2>8, <1>0 DEF DeliveryAborts
    <3>3. QED
      BY <2>8, <1>0, <2>2, <3>1, <3>2 DEF DeliveryAborts, TypeOK, BusTypeOK, busVars
  <2>9. QED
    BY <1>20, <2>4, <2>5, <2>6, <2>7, <2>8 DEF DeliveryStep
<1>21. ASSUME UNCHANGED vars
       PROVE  TypeOK'
  BY <1>21, <1>0 DEF vars, busVars, TypeOK, BusTypeOK
<1>22. QED
  BY <1>1, <1>2, <1>3, <1>4, <1>5, <1>6, <1>7, <1>8, <1>9, <1>10, <1>11, <1>12, <1>13, <1>14,
     <1>15, <1>16, <1>17, <1>18, <1>19, <1>20, <1>21
     DEF Next, SystemStep, CallStep, ListenerStep, ShutdownStep, Pairs

-----------------------------------------------------------------------------
(* What the steps of listeners and deliveries leave alone.                 *)

LEMMA ListenerFrame ==
  ASSUME HookInv, NEW s \in Subs, ListenerStep(s)
  PROVE  /\ UNCHANGED <<log, subs, config, handle, permits, calls, stage, countVars>>
         /\ s \in Running /\ listener'[s].at # "none"
         /\ \A t \in Subs : /\ listener'[t].stop = listener[t].stop
                            /\ listener'[t].abort = listener[t].abort
                            /\ t # s => listener'[t] = listener[t] /\ cursor'[t] = cursor[t]
<1> USE DEF hookVars, taskVars, countVars
<1>0. TypeOK /\ BusTypeOK /\ listener \in [Subs -> Listeners] /\ cursor \in [Subs -> 0..(MaxEvents + 1)]
  BY DEF HookInv, TypeOK, BusTypeOK
<1> DEFINE Goal == /\ UNCHANGED <<log, subs, config, handle, permits, calls, stage, countVars>>
                   /\ s \in Running /\ listener'[s].at # "none"
                   /\ \A t \in Subs : /\ listener'[t].stop = listener[t].stop
                                      /\ listener'[t].abort = listener[t].abort
                                      /\ t # s => listener'[t] = listener[t] /\ cursor'[t] = cursor[t]
<1>1. ASSUME NEW place \in Places \ {"none"}, Go(s, place), listener[s].at \in {"recv", "check", "slot", "spawn"},
             UNCHANGED <<log, subs, config, handle, permits, calls, stage, countVars>>,
             \A t \in Subs : t # s => cursor'[t] = cursor[t]
      PROVE  Goal
  <2>1. s \in Running
    BY <1>1 DEF Running
  <2>2. QED
    BY <1>1, <1>0, <2>1, GoEffect
<1>2. ASSUME DropSubscription(s)
      PROVE  UNCHANGED <<log, subs>> /\ \A t \in Subs : t # s => cursor'[t] = cursor[t]
  BY <1>2, <1>0 DEF DropSubscription
<1>3. CASE HearEvent(s)
  <2>1. \A t \in Subs : t # s => cursor'[t] = cursor[t]
    BY <1>3, <1>0 DEF HearEvent, Receive
  <2>2. QED
    BY <1>3, <1>1, <2>1 DEF HearEvent, At, Places
<1>4. CASE HearLag(s)
  <2>1. \A t \in Subs : t # s => cursor'[t] = cursor[t]
    BY <1>4, <1>0 DEF HearLag, SkipLost
  <2>2. s \in Running /\ listener[s].at # "none"
    BY <1>4 DEF HearLag, At, Running
  <2>3. QED
    BY <1>4, <2>1, <2>2 DEF HearLag
<1>5. CASE CheckEvent(s)
  <2>1. CASE config = None
    BY <1>5, <2>1, <1>1, <1>2 DEF CheckEvent, At, Places
  <2>2. CASE config # None
    <3>1. \E place \in {"slot", "recv"} : Go(s, place)
      BY <1>5, <2>2 DEF CheckEvent
    <3>2. UNCHANGED <<log, subs, config, handle, permits, calls, stage, countVars, cursor>>
      BY <1>5, <2>2 DEF CheckEvent, busVars
    <3>3. QED
      BY <1>5, <3>1, <3>2, <1>1 DEF CheckEvent, At, Places
  <2>3. QED
    BY <2>1, <2>2
<1>6. CASE TakeSlot(s)
  BY <1>6, <1>1 DEF TakeSlot, At, Places, busVars
<1>7. CASE SpawnDelivery(s)
  BY <1>7, <1>1 DEF SpawnDelivery, At, Places, busVars
<1>8. CASE ListenerEnds(s)
  <2>1. listener[s].at \in {"recv", "check", "slot", "spawn"}
    BY <1>8 DEF ListenerEnds
  <2>2. Go(s, "gone") /\ DropSubscription(s)
        /\ UNCHANGED <<config, handle, permits, calls, stage, countVars>>
    BY <1>8 DEF ListenerEnds
  <2>3. QED
    BY <2>1, <2>2, <1>1, <1>2 DEF Places
<1>9. QED
  BY <1>3, <1>4, <1>5, <1>6, <1>7, <1>8 DEF ListenerStep

LEMMA DeliveryFrame ==
  ASSUME TypeOK, NEW d \in Pairs, DeliveryStep(d)
  PROVE  /\ UNCHANGED <<busVars, config, handle, listener, calls, stage, countVars, ignored>>
         /\ \E r \in Tasks : TaskStep(d, r)
<1>1. UNCHANGED <<busVars, config, handle, listener, calls, stage, countVars, ignored>>
  BY DEF DeliveryStep, SendRequest, GetAnswer, BackoffEnds, RecordOutcome, DeliveryAborts, hookVars
<1>2. \E r \in Tasks : TaskStep(d, r)
  BY SendEffect, AnswerEffect, MoveEffect
     DEF DeliveryStep, BackoffEnds, RecordOutcome, DeliveryAborts, Stands, TaskStep
<1>3. QED
  BY <1>1, <1>2

\* No delivery begins or vanishes by a step of a delivery.
LEMMA DeliveriesKept ==
  ASSUME TypeOK, NEW d, NEW r, TaskStep(d, r)
  PROVE  /\ \A e \in Pairs : delivery'[e] # None <=> delivery[e] # None
         /\ \A e \in Pairs : e # d => delivery'[e] = delivery[e]
         /\ delivery'[d] = r /\ d \in Pairs /\ delivery[d] # None /\ r # None /\ r \in Tasks
<1>1. d \in Pairs /\ delivery[d] # None /\ r \in Tasks /\ r # None
  BY Constants DEF TaskStep, Deliveries, Pairs
<1>2. QED
  BY <1>1 DEF TaskStep, TypeOK

-----------------------------------------------------------------------------
(* Adds own their subscriptions, and readers follow the bus.               *)

\* Nothing happens to the calls or to a listener that has not started.
LEMMA AddsFrame ==
  ASSUME AddsOwnTheirs, UNCHANGED <<subs, handle, calls>>,
         \A s \in Subs : listener[s].at = "none" =>
           /\ listener'[s].at = "none" /\ listener'[s].stop = listener[s].stop
           /\ cursor[s] > 0 => cursor'[s] > 0
  PROVE  AddsOwnTheirs'
BY DEF AddsOwnTheirs, Adding

\* A call goes on, and listeners are told to stop.
LEMMA AddsGoOn ==
  ASSUME TypeOK, AddsOwnTheirs, NEW c \in Callers, UNCHANGED <<subs, cursor>>,
         \A b \in Callers : /\ calls'[b].op = calls[b].op /\ calls'[b].sub = calls[b].sub
                            /\ calls'[b].config = calls[b].config
                            /\ b # c => calls'[b] = calls[b],
         calls'[c].at # "end",
         \A s \in Subs : listener'[s].at = listener[s].at,
         \A s \in Subs : s > subs => handle' # s /\ listener'[s].stop = listener[s].stop
  PROVE  AddsOwnTheirs'
BY DEF AddsOwnTheirs, Adding

\* A call ends.
LEMMA AddsEnd ==
  ASSUME TypeOK, AddsOwnTheirs, NEW c \in Callers, UNCHANGED <<subs, handle>>,
         calls' = [calls EXCEPT ![c] = Idle],
         \A s \in Subs : \/ listener'[s] = listener[s] /\ cursor'[s] = cursor[s]
                         \/ Adding(c) /\ calls[c].sub = s
  PROVE  AddsOwnTheirs'
<1>1. /\ calls'[c].op = "idle"
      /\ \A b \in Callers : b # c => calls'[b] = calls[b]
  <2>1. calls \in [Callers -> Calls]
    BY DEF TypeOK
  <2>2. QED
    BY <2>1, CallReplaced, IdleIsCall
<1>2. ASSUME NEW s \in Subs, s > subs
      PROVE  listener'[s].at = "none" /\ ~listener'[s].stop /\ handle' # s
  <2>1. ~(Adding(c) /\ calls[c].sub = s)
    BY <1>2, Constants DEF AddsOwnTheirs, TypeOK, BusTypeOK
  <2>2. QED
    BY <1>2, <2>1 DEF AddsOwnTheirs
<1>3. ASSUME NEW b \in Callers, Adding(b)'
      PROVE  /\ calls'[b].at # "end"
             /\ calls'[b].sub \in Subs /\ calls'[b].sub <= subs' /\ calls'[b].config \in Configs
             /\ listener'[calls'[b].sub].at = "none" /\ cursor'[calls'[b].sub] > 0
  <2>1. b # c /\ calls'[b] = calls[b] /\ Adding(b)
    BY <1>3, <1>1 DEF Adding
  <2>2. ~(Adding(c) /\ calls[c].sub = calls[b].sub)
    BY <2>1 DEF AddsOwnTheirs
  <2>3. calls[b].sub \in Subs
    BY <2>1 DEF AddsOwnTheirs
  <2>4. listener'[calls[b].sub] = listener[calls[b].sub] /\ cursor'[calls[b].sub] = cursor[calls[b].sub]
    BY <2>2, <2>3
  <2>5. QED
    BY <2>1, <2>4 DEF AddsOwnTheirs
<1>4. ASSUME NEW c1 \in Callers, NEW c2 \in Callers, Adding(c1)', Adding(c2)',
             calls'[c1].sub = calls'[c2].sub
      PROVE  c1 = c2
  BY <1>1, <1>4 DEF AddsOwnTheirs, Adding
<1>5. QED
  BY <1>2, <1>3, <1>4 DEF AddsOwnTheirs

LEMMA AddsStep == HookInv /\ [Next]_vars => AddsOwnTheirs'
<1> SUFFICES ASSUME HookInv, [Next]_vars
             PROVE  AddsOwnTheirs'
  OBVIOUS
<1> USE DEF hookVars, taskVars, countVars
<1>0. /\ TypeOK /\ AddsOwnTheirs /\ BusTypeOK /\ subs \in Nat /\ Len(log) \in Nat
      /\ listener \in [Subs -> Listeners] /\ calls \in [Callers -> Calls]
      /\ handle \in Subs \union {None} /\ cursor \in [Subs -> 0..(MaxEvents + 1)]
  BY DEF HookInv, TypeOK, BusTypeOK
<1>1. ASSUME NEW c \in Callers, AddWebhook(c)
      PROVE  AddsOwnTheirs'
  <2>1. PICK cf \in Configs :
          /\ Subscribe(cf.payload)
          /\ calls' = [calls EXCEPT ![c] =
                         [op |-> "add", at |-> "config", sub |-> NextSub, config |-> cf]]
    BY <1>1 DEF AddWebhook
  <2>2. NextSub \in Subs /\ NextSub = subs + 1 /\ subs' = NextSub
        /\ cursor' = [cursor EXCEPT ![NextSub] = Len(log) + 1]
    BY <2>1, <1>0, SubscribeTyped
  <2>3. /\ calls'[c].op = "add" /\ calls'[c].at = "config" /\ calls'[c].sub = NextSub
        /\ calls'[c].config = cf
        /\ \A b \in Callers : b # c => calls'[b] = calls[b]
    BY <2>1, <1>0
  <2>4. UNCHANGED <<listener, handle>>
    BY <1>1 DEF AddWebhook
  <2>5. listener[NextSub].at = "none" /\ cursor'[NextSub] > 0
    BY <2>2, <1>0 DEF AddsOwnTheirs
  <2>6. \A s \in Subs : s # NextSub => cursor'[s] = cursor[s]
    BY <2>2, <1>0
  <2>7. ASSUME NEW b \in Callers, Adding(b)
        PROVE  calls[b].sub # NextSub /\ calls[b].sub <= subs'
    <3>1. calls[b].sub \in Nat /\ calls[b].sub <= subs
      BY <2>7, <1>0, Constants DEF AddsOwnTheirs
    <3>2. QED
      BY <3>1, <2>2, <1>0
  <2>8. \A s \in Subs : s > subs' => s > subs
    BY <2>2, <1>0, Constants
  <2>9. \A b \in Callers : Adding(b)' => b = c \/ (Adding(b) /\ calls'[b] = calls[b])
    BY <2>3 DEF Adding
  <2>10. ASSUME NEW b \in Callers, Adding(b)'
         PROVE  /\ calls'[b].at # "end"
                /\ calls'[b].sub \in Subs /\ calls'[b].sub <= subs' /\ calls'[b].config \in Configs
                /\ listener'[calls'[b].sub].at = "none" /\ cursor'[calls'[b].sub] > 0
    <3>1. CASE b = c
      BY <3>1, <2>2, <2>3, <2>4, <2>5, <1>0
    <3>2. CASE Adding(b) /\ calls'[b] = calls[b]
      BY <3>2, <2>4, <2>6, <2>7, <1>0 DEF AddsOwnTheirs
    <3>3. QED
      BY <2>9, <2>10, <3>1, <3>2
  <2>11. ASSUME NEW c1 \in Callers, NEW c2 \in Callers, Adding(c1)', Adding(c2)',
                calls'[c1].sub = calls'[c2].sub
         PROVE  c1 = c2
    BY <2>3, <2>7, <2>9, <2>11, <1>0 DEF AddsOwnTheirs
  <2>12. QED
    BY <2>4, <2>8, <2>10, <2>11, <1>0 DEF AddsOwnTheirs
<1>2. ASSUME NEW c \in Callers, AddConfig(c) \/ AddStats(c)
      PROVE  AddsOwnTheirs'
  <2>1. \E place \in {"stats", "handle"} : calls' = [calls EXCEPT ![c].at = place]
    BY <1>2 DEF AddConfig, AddStats
  <2>2. UNCHANGED <<subs, cursor, listener, handle>>
    BY <1>2 DEF AddConfig, AddStats, busVars
  <2>3. calls'[c].at # "end"
        /\ \A b \in Callers : /\ calls'[b].op = calls[b].op /\ calls'[b].sub = calls[b].sub
                              /\ calls'[b].config = calls[b].config
                              /\ b # c => calls'[b] = calls[b]
    BY <2>1, <1>0, CallEffect
  <2>4. \A s \in Subs : s > subs => handle' # s
    BY <2>2, <1>0 DEF AddsOwnTheirs
  <2>5. QED
    BY <2>2, <2>3, <2>4, <1>0, AddsGoOn
<1>3. ASSUME NEW c \in Callers, AddHandle(c) \/ RemoveHandle(c)
      PROVE  AddsOwnTheirs'
  <2>1. \E place \in {"stats", "start"} : calls' = [calls EXCEPT ![c].at = place]
    BY <1>3 DEF AddHandle, RemoveHandle
  <2>2. UNCHANGED <<subs, cursor>> /\ StopListener(handle)
    BY <1>3 DEF AddHandle, RemoveHandle
  <2>3. calls'[c].at # "end"
        /\ \A b \in Callers : /\ calls'[b].op = calls[b].op /\ calls'[b].sub = calls[b].sub
                              /\ calls'[b].config = calls[b].config
                              /\ b # c => calls'[b] = calls[b]
    BY <2>1, <1>0, CallEffect
  <2>4. \A s \in Subs : listener'[s].at = listener[s].at /\ (s # handle => listener'[s] = listener[s])
    BY <2>2, <1>0, StopEffect
  <2>5. \A s \in Subs : s > subs => handle # s
    BY <1>0 DEF AddsOwnTheirs
  <2>6. handle' = None \/ (Adding(c) /\ handle' = calls[c].sub)
    BY <1>3 DEF AddHandle, RemoveHandle, Adding
  <2>7. \A s \in Subs : s > subs => handle' # s
    BY <2>6, <1>0, Constants DEF AddsOwnTheirs
  <2>8. QED
    BY <2>2, <2>3, <2>4, <2>5, <2>7, <1>0, AddsGoOn
<1>4. ASSUME NEW c \in Callers, AddStart(c)
      PROVE  AddsOwnTheirs'
  <2>1. Adding(c) /\ calls[c].sub \in Subs
    BY <1>4, <1>0 DEF AddStart, AddsOwnTheirs, Adding
  <2>2. UNCHANGED <<subs, handle>> /\ calls' = [calls EXCEPT ![c] = Idle]
    BY <1>4 DEF AddStart, DropSubscription, busVars
  <2>3. \E place \in Places : Go(calls[c].sub, place)
    BY <1>4 DEF AddStart, Go, Places
  <2>4. \A s \in Subs : s # calls[c].sub => listener'[s] = listener[s]
    BY <2>1, <2>3, <1>0, GoEffect
  <2>5. \A s \in Subs : s # calls[c].sub => cursor'[s] = cursor[s]
    BY <1>4, <2>1, <1>0 DEF AddStart, DropSubscription, busVars
  <2>6. QED
    BY <2>1, <2>2, <2>4, <2>5, <1>0, AddsEnd
<1>5. ASSUME NEW c \in Callers, RemoveWebhook(c)
      PROVE  AddsOwnTheirs'
  <2>1. UNCHANGED <<subs, cursor, listener, handle>>
    BY <1>5 DEF RemoveWebhook, busVars
  <2>2. calls'[c].op = "remove" /\ \A b \in Callers : b # c => calls'[b] = calls[b]
    BY <1>5, <1>0, CallReplaced, IdleIsCall DEF RemoveWebhook
  <2>3. QED
    BY <2>1, <2>2, <1>0 DEF AddsOwnTheirs, Adding
<1>6. ASSUME NEW c \in Callers, RemoveStats(c)
      PROVE  AddsOwnTheirs'
  <2>1. UNCHANGED <<subs, cursor, listener, handle>> /\ calls' = [calls EXCEPT ![c] = Idle]
    BY <1>6 DEF RemoveStats, busVars
  <2>2. QED
    BY <2>1, <1>0, AddsEnd
<1>7. CASE ChangeConfig
  BY <1>7, <1>0, AddsFrame DEF ChangeConfig, busVars
<1>8. CASE Publish
  <2>1. UNCHANGED <<subs, cursor>>
    BY <1>8 DEF Publish, PublishEvent
  <2>2. UNCHANGED <<listener, handle, calls>>
    BY <1>8 DEF Publish
  <2>3. QED
    BY <2>1, <2>2, <1>0, AddsFrame
<1>9. CASE ShutdownBegins
  <2>1. UNCHANGED <<subs, cursor, handle, calls>>
    BY <1>9 DEF ShutdownBegins, busVars
  <2>2. QED
    BY <1>9, <2>1, <1>0, BeginsEffect, AddsFrame
<1>10. CASE ShutdownDropsHandle
  <2>1. UNCHANGED <<subs, cursor, calls>> /\ StopListener(handle) /\ handle' = None
    BY <1>10 DEF ShutdownDropsHandle
  <2>2. \A s \in Subs : listener'[s].at = listener[s].at /\ (s # handle => listener'[s] = listener[s])
    BY <2>1, <1>0, StopEffect
  <2>3. QED
    BY <2>1, <2>2, <1>0, Constants DEF AddsOwnTheirs, Adding
<1>11. CASE ShutdownEnds
  BY <1>11, <1>0, AddsFrame DEF ShutdownEnds, busVars
<1>12. ASSUME NEW s \in Subs, ListenerStep(s)
       PROVE  AddsOwnTheirs'
  <2>1. listener[s].at # "none"
    BY <1>12, ListenerFrame DEF Running
  <2>2. QED
    BY <1>12, <2>1, <1>0, ListenerFrame, AddsFrame
<1>13. ASSUME NEW d \in Pairs, DeliveryStep(d)
       PROVE  AddsOwnTheirs'
  <2>1. UNCHANGED <<subs, cursor, listener, handle, calls>>
    BY <1>13, <1>0, DeliveryFrame DEF busVars
  <2>2. QED
    BY <2>1, <1>0, AddsFrame
<1>14. CASE UNCHANGED vars
  BY <1>14, <1>0, AddsFrame DEF vars, busVars
<1>15. QED
  BY <1>1, <1>2, <1>3, <1>4, <1>5, <1>6, <1>7, <1>8, <1>9, <1>10, <1>11, <1>12, <1>13, <1>14
     DEF Next, SystemStep, CallStep, ShutdownStep, Pairs

\* The listener stays where it is, and no delivery begins.
LEMMA FollowsFrame ==
  ASSUME NEW s \in Subs, TypeOK, Follows(s), cursor'[s] = cursor[s],
         listener'[s].at = listener[s].at,
         Len(log') = Len(log) \/ Len(log') = Len(log) + 1,
         \A d \in Pairs : delivery[d] = None => delivery'[d] = None
  PROVE  Follows(s)'
<1>1. Len(log) \in Nat /\ cursor[s] \in Nat /\ MaxEvents \in Nat /\ Len(log) <= MaxEvents
  BY Constants DEF TypeOK, BusTypeOK
<1>2. cursor[s] <= Len(log) + 1
  BY DEF Follows
<1>3. cursor'[s] <= Len(log') + 1
  BY <1>1, <1>2
<1>4. (s \in Running)' <=> s \in Running
  BY DEF Running
<1>5. Holding(s)' <=> Holding(s)
  BY DEF Holding
<1>6. \A e \in Events : <<s, e>> \in Pairs
  BY DEF Pairs
<1>7. Holding(s) => <<s, Held(s)>> \in Pairs /\ Held(s)' = Held(s)
  <2>1. Holding(s) => cursor[s] > 1
    BY DEF Follows
  <2>2. Holding(s) => Held(s) \in Events
    BY <2>1, <1>1, <1>2 DEF Held, Events
  <2>3. QED
    BY <2>2 DEF Pairs, Held
<1>8. QED
  BY <1>3, <1>4, <1>5, <1>6, <1>7 DEF Follows

LEMMA ReadersStep == HookInv /\ [Next]_vars => ReadersFollow'
<1> SUFFICES ASSUME HookInv, [Next]_vars, NEW t \in Subs
             PROVE  Follows(t)'
  BY DEF ReadersFollow
<1> USE DEF hookVars, taskVars, countVars
<1>0. /\ TypeOK /\ AddsOwnTheirs /\ BusTypeOK /\ subs \in Nat /\ Len(log) \in Nat
      /\ listener \in [Subs -> Listeners] /\ calls \in [Callers -> Calls]
      /\ handle \in Subs \union {None} /\ cursor \in [Subs -> 0..(MaxEvents + 1)]
      /\ Follows(t) /\ cursor[t] \in Nat /\ MaxEvents \in Nat /\ Len(log) <= MaxEvents
      /\ delivery \in [Pairs -> Tasks \union {None}]
  <2>1. /\ TypeOK /\ AddsOwnTheirs /\ BusTypeOK /\ subs \in Nat /\ Len(log) \in Nat
        /\ listener \in [Subs -> Listeners] /\ calls \in [Callers -> Calls]
        /\ handle \in Subs \union {None} /\ cursor \in [Subs -> 0..(MaxEvents + 1)]
        /\ Follows(t) /\ Len(log) <= MaxEvents
        /\ delivery \in [Pairs -> Tasks \union {None}]
    BY DEF HookInv, TypeOK, BusTypeOK, ReadersFollow
  <2>2. cursor[t] \in Nat /\ MaxEvents \in Nat
    BY <2>1, Constants
  <2>3. QED
    BY <2>1, <2>2
<1>1. ASSUME NEW c \in Callers, AddWebhook(c)
      PROVE  Follows(t)'
  <2>1. PICK cf \in Configs : Subscribe(cf.payload)
    BY <1>1 DEF AddWebhook
  <2>2. NextSub \in Subs /\ NextSub = subs + 1 /\ log' = log
        /\ cursor' = [cursor EXCEPT ![NextSub] = Len(log) + 1]
    BY <2>1, <1>0, SubscribeTyped DEF Subscribe
  <2>3. UNCHANGED <<listener, delivery>>
    BY <1>1 DEF AddWebhook
  <2>4. CASE t = NextSub
    <3>1. listener[t].at = "none"
      BY <2>2, <2>4, <1>0 DEF AddsOwnTheirs
    <3>2. cursor'[t] = Len(log) + 1
      BY <2>2, <2>4, <1>0
    <3>3. QED
      BY <2>2, <2>3, <3>1, <3>2, <1>0 DEF Follows, Running, Holding
  <2>5. CASE t # NextSub
    BY <2>2, <2>3, <2>5, <1>0, FollowsFrame
  <2>6. QED
    BY <2>4, <2>5
<1>2. ASSUME NEW c \in Callers,
             \/ AddConfig(c) \/ AddStats(c) \/ AddHandle(c) \/ RemoveWebhook(c)
             \/ RemoveHandle(c) \/ RemoveStats(c)
      PROVE  Follows(t)'
  <2>1. UNCHANGED <<log, cursor, delivery>> /\ (listener' = listener \/ StopListener(handle))
    BY <1>2 DEF AddConfig, AddStats, AddHandle, RemoveWebhook, RemoveHandle, RemoveStats, busVars
  <2>2. listener'[t].at = listener[t].at
    BY <2>1, <1>0, StopEffect
  <2>3. QED
    BY <2>1, <2>2, <1>0, FollowsFrame
<1>3. ASSUME NEW c \in Callers, AddStart(c)
      PROVE  Follows(t)'
  <2>1. Adding(c) /\ calls[c].sub \in Subs /\ listener[calls[c].sub].at = "none"
        /\ cursor[calls[c].sub] > 0
    BY <1>3, <1>0 DEF AddStart, AddsOwnTheirs, Adding
  <2>2. UNCHANGED <<log, delivery>>
    BY <1>3 DEF AddStart, DropSubscription, busVars
  <2>3. CASE t # calls[c].sub
    <3>1. \E place \in Places : Go(calls[c].sub, place)
      BY <1>3 DEF AddStart, Go, Places
    <3>2. listener'[t] = listener[t]
      BY <2>1, <2>3, <3>1, <1>0, GoEffect
    <3>3. cursor'[t] = cursor[t]
      BY <1>3, <2>3, <1>0 DEF AddStart, DropSubscription, busVars
    <3>4. QED
      BY <2>2, <3>2, <3>3, <1>0, FollowsFrame
  <2>4. CASE t = calls[c].sub /\ ListenersClosed
    <3>1. Go(t, "gone") /\ cursor' = [cursor EXCEPT ![t] = 0]
      BY <1>3, <2>4 DEF AddStart, DropSubscription, Go
    <3>2. listener'[t].at = "gone"
      BY <3>1, <1>0, GoEffect DEF Places
    <3>3. cursor'[t] = 0
      BY <3>1, <1>0
    <3>4. QED
      BY <3>2, <3>3, <2>2, <1>0 DEF Follows, Running, Holding
  <2>5. CASE t = calls[c].sub /\ ~ListenersClosed
    <3>1. Go(t, "recv") /\ cursor' = cursor
      BY <1>3, <2>5 DEF AddStart, busVars, Go
    <3>2. listener'[t].at = "recv"
      BY <3>1, <1>0, GoEffect DEF Places
    <3>3. \A e \in Events : delivery[<<t, e>>] = None
      BY <2>1, <2>5, <1>0 DEF Follows
    <3>4. QED
      BY <3>1, <3>2, <3>3, <2>1, <2>2, <2>5, <1>0 DEF Follows, Running, Holding
  <2>6. QED
    BY <2>3, <2>4, <2>5
<1>4. CASE ChangeConfig
  BY <1>4, <1>0, FollowsFrame DEF ChangeConfig, busVars
<1>5. CASE Publish
  <2>1. Len(log') = Len(log) + 1 /\ cursor' = cursor
    BY <1>5, <1>0, PublishTyped DEF Publish
  <2>2. UNCHANGED <<listener, delivery>>
    BY <1>5 DEF Publish
  <2>3. QED
    BY <2>1, <2>2, <1>0, FollowsFrame
<1>6. CASE ShutdownBegins
  <2>1. listener'[t].at = listener[t].at
    BY <1>6, <1>0, BeginsEffect
  <2>2. UNCHANGED <<log, cursor, delivery>>
    BY <1>6 DEF ShutdownBegins, busVars
  <2>3. QED
    BY <2>1, <2>2, <1>0, FollowsFrame
<1>7. CASE ShutdownDropsHandle
  <2>1. UNCHANGED <<log, cursor, delivery>> /\ StopListener(handle)
    BY <1>7 DEF ShutdownDropsHandle
  <2>2. listener'[t].at = listener[t].at
    BY <2>1, <1>0, StopEffect
  <2>3. QED
    BY <2>1, <2>2, <1>0, FollowsFrame
<1>8. CASE ShutdownEnds
  <2>1. UNCHANGED <<log, cursor, listener>>
    BY <1>8 DEF ShutdownEnds, busVars
  <2>2. QED
    BY <1>8, <2>1, <1>0, EndsEffect, FollowsFrame
<1>9. ASSUME NEW s \in Subs, ListenerStep(s), t # s
      PROVE  Follows(t)'
  <2>1. log' = log /\ listener'[t] = listener[t] /\ cursor'[t] = cursor[t]
    BY <1>9, ListenerFrame
  <2>2. CASE \A e \in Events : delivery'[<<t, e>>] = delivery[<<t, e>>]
    <3>1. Holding(t) => Held(t) \in Events /\ Held(t)' = Held(t)
      BY <2>1, <1>0 DEF Follows, Held, Events
    <3>2. QED
      BY <2>1, <2>2, <3>1, <1>0 DEF Follows, Running, Holding
  <2>3. CASE SpawnDelivery(s)
    <3>1. <<s, Held(s)>> \in Pairs /\ (delivery' = delivery
            \/ delivery' = [delivery EXCEPT ![<<s, Held(s)>>] = NewDelivery])
      BY <2>3, SpawnEffect
    <3>2. \A e \in Events : <<t, e>> \in Pairs /\ <<t, e>> # <<s, Held(s)>>
      BY <1>9 DEF Pairs
    <3>3. \A e \in Events : delivery'[<<t, e>>] = delivery[<<t, e>>]
      BY <3>1, <3>2, <1>0
    <3>4. QED
      BY <3>3, <2>2
  <2>4. CASE ~SpawnDelivery(s)
    <3>1. delivery' = delivery
      BY <1>9, <2>4 DEF ListenerStep, HearEvent, HearLag, CheckEvent, TakeSlot, ListenerEnds
    <3>2. QED
      BY <3>1, <2>2
  <2>5. QED
    BY <2>3, <2>4
<1>10. CASE HearEvent(t)
  <2>1. listener[t].at = "recv" /\ Go(t, "check") /\ UNCHANGED <<log, registry, subs, delivery>>
        /\ Receive(t) /\ cursor' = [cursor EXCEPT ![t] = cursor[t] + 1]
    BY <1>10 DEF HearEvent, At, Receive
  <2>2. listener'[t].at = "check"
    BY <2>1, <1>0, GoEffect DEF Places
  <2>3. cursor[t] > 0 /\ cursor'[t] = cursor[t] + 1 /\ cursor'[t] <= Len(log) + 1
    BY <2>1, <1>0, ReadTyped
  <2>4. \A e \in Events : delivery[<<t, e>>] # None => e < cursor[t]
    BY <2>1, <1>0 DEF Follows, Running
  <2>5. cursor[t] \in Events /\ Held(t)' = cursor[t]
    BY <2>3, <1>0 DEF Events, Held
  <2>6. delivery[<<t, cursor[t]>>] = None
    BY <2>4, <2>5, <1>0
  <2>7. \A e \in Events : delivery'[<<t, e>>] # None => e < cursor'[t]
    BY <2>1, <2>3, <2>4, <1>0, Constants
  <2>8. QED
    BY <2>1, <2>2, <2>3, <2>5, <2>6, <2>7, <1>0 DEF Follows
<1>11. CASE HearLag(t)
  <2>1. listener[t].at = "recv" /\ UNCHANGED <<log, registry, subs, delivery, listener>> /\ SkipLost(t)
    BY <1>11 DEF HearLag, At
  <2>2. cursor'[t] > cursor[t] /\ cursor[t] > 0 /\ cursor'[t] <= Len(log) + 1 /\ BusTypeOK'
    BY <2>1, <1>0, ReadTyped
  <2>3. cursor'[t] \in Nat
    BY <2>2, Constants DEF BusTypeOK
  <2>4. \A e \in Events : delivery[<<t, e>>] # None => e < cursor[t]
    BY <2>1, <1>0 DEF Follows, Running
  <2>5. \A e \in Events : delivery'[<<t, e>>] # None => e < cursor'[t]
    BY <2>1, <2>2, <2>3, <2>4, <1>0, Constants
  <2>6. QED
    BY <2>1, <2>2, <2>3, <2>5, <1>0 DEF Follows, Holding
<1>12. ASSUME CheckEvent(t), config # None
       PROVE  Follows(t)'
  <2>1. PICK place \in {"slot", "recv"} : Go(t, place)
    BY <1>12 DEF CheckEvent
  <2>2. UNCHANGED <<log, cursor, delivery>> /\ listener[t].at = "check"
    BY <1>12 DEF CheckEvent, busVars, At
  <2>3. listener'[t].at \in {"slot", "recv"}
    BY <2>1, <1>0, GoEffect DEF Places
  <2>4. QED
    BY <2>2, <2>3, <1>0 DEF Follows, Running, Holding, Held
<1>13. ASSUME DropSubscription(t), Go(t, "gone"), delivery' = delivery
       PROVE  Follows(t)'
  <2>1. cursor'[t] = 0 /\ log' = log
    BY <1>13, <1>0 DEF DropSubscription
  <2>2. listener'[t].at = "gone"
    BY <1>13, <1>0, GoEffect DEF Places
  <2>3. QED
    BY <2>1, <2>2, <1>0 DEF Follows, Running, Holding
<1>14. CASE TakeSlot(t)
  <2>1. UNCHANGED <<log, cursor, delivery>> /\ listener[t].at = "slot" /\ Go(t, "spawn")
    BY <1>14 DEF TakeSlot, At, busVars
  <2>2. listener'[t].at = "spawn"
    BY <2>1, <1>0, GoEffect DEF Places
  <2>3. QED
    BY <2>1, <2>2, <1>0 DEF Follows, Running, Holding, Held
<1>15. CASE SpawnDelivery(t)
  <2>1. UNCHANGED <<log, cursor>> /\ listener[t].at = "spawn" /\ Go(t, "recv")
    BY <1>15 DEF SpawnDelivery, At, busVars
  <2>2. listener'[t].at = "recv"
    BY <2>1, <1>0, GoEffect DEF Places
  <2>3. Held(t) < cursor[t] /\ Held(t) \in Nat /\ (delivery' = delivery
          \/ delivery' = [delivery EXCEPT ![<<t, Held(t)>>] = NewDelivery])
    BY <1>15, SpawnEffect
  <2>4. \A e \in Events : <<t, e>> \in Pairs
    BY DEF Pairs
  <2>5. \A e \in Events : delivery'[<<t, e>>] # None => delivery[<<t, e>>] # None \/ e = Held(t)
    BY <2>3, <2>4, <1>0
  <2>6. cursor[t] > 0 /\ \A e \in Events : delivery[<<t, e>>] # None => e < cursor[t]
    BY <2>1, <1>0 DEF Follows, Running
  <2>7. \A e \in Events : delivery'[<<t, e>>] # None => e < cursor'[t]
    BY <2>1, <2>3, <2>5, <2>6
  <2>8. QED
    BY <2>1, <2>2, <2>6, <2>7, <1>0 DEF Follows, Holding
<1>16. ASSUME ListenerStep(t)
       PROVE  Follows(t)'
  BY <1>16, <1>10, <1>11, <1>12, <1>13, <1>14, <1>15 DEF ListenerStep, CheckEvent, ListenerEnds
<1>17. ASSUME NEW d \in Pairs, DeliveryStep(d)
       PROVE  Follows(t)'
  <2>1. UNCHANGED <<log, cursor, listener>>
    BY <1>17, <1>0, DeliveryFrame DEF busVars
  <2>2. \A e \in Pairs : delivery[e] = None => delivery'[e] = None
    BY <1>17, <1>0, DeliveryFrame, DeliveriesKept
  <2>3. QED
    BY <2>1, <2>2, <1>0, FollowsFrame
<1>18. CASE UNCHANGED vars
  BY <1>18, <1>0, FollowsFrame DEF vars, busVars
<1>19. QED
  BY <1>1, <1>2, <1>3, <1>4, <1>5, <1>6, <1>7, <1>8, <1>9, <1>16, <1>17, <1>18
     DEF Next, SystemStep, CallStep, ShutdownStep, Pairs

LEMMA HookInit == Init => HookInv
<1> SUFFICES ASSUME Init
             PROVE  HookInv
  OBVIOUS
<1>1. /\ log = <<>> /\ cursor = [s \in Subs |-> 0] /\ registry = [s \in Subs |-> "none"] /\ subs = 0
      /\ config = None /\ stats = None /\ handle = None
      /\ listener = [s \in Subs |-> NoListener] /\ slots = [s \in Subs |-> MaxPending]
      /\ delivery = [d \in Pairs |-> None] /\ permits = MaxConcurrent
      /\ calls = [c \in Callers |-> Idle] /\ stage = "up" /\ changes = 0
      /\ ignored = [s \in Subs |-> 0] /\ mixed = FALSE
  BY DEF Init, BusInit, Pairs
<1>2. NoListener \in Listeners /\ NoListener.at = "none" /\ ~NoListener.stop
  BY DEF NoListener, Listeners, Places
<1>3. BusTypeOK
  BY <1>1, Constants DEF BusTypeOK
<1>4. TypeOK
  BY <1>1, <1>2, <1>3, Constants, IdleIsCall DEF TypeOK
<1>5. \A c \in Callers : ~Adding(c)
  BY <1>1, IdleIsCall DEF Adding
<1>6. AddsOwnTheirs
  BY <1>1, <1>2, <1>5, Constants DEF AddsOwnTheirs
<1>7. ASSUME NEW s \in Subs
      PROVE  Follows(s)
  <2>1. cursor[s] = 0 /\ listener[s].at = "none" /\ Len(log) = 0
    BY <1>1, <1>2
  <2>2. \A e \in Events : delivery[<<s, e>>] = None
    BY <1>1 DEF Pairs
  <2>3. QED
    BY <2>1, <2>2 DEF Follows, Running, Holding
<1>8. QED
  BY <1>4, <1>6, <1>7 DEF HookInv, ReadersFollow

LEMMA HookAlways == Spec => []HookInv
<1>1. HookInv /\ [Next]_vars => HookInv'
  BY TypeStep, AddsStep, ReadersStep DEF HookInv
<1>2. QED
  BY <1>1, HookInit, PTL DEF Spec

-----------------------------------------------------------------------------
(* The registry of the bus follows the listeners.                          *)

\* Nobody subscribes, and no listener starts, ends or is told to stop.
LEMMA RegistryFrame ==
  ASSUME RegistryIsCurrent, UNCHANGED registry,
         \A s \in Subs : (InUse(s)' <=> InUse(s)) /\ listener'[s].stop = listener[s].stop
  PROVE  RegistryIsCurrent'
BY DEF RegistryIsCurrent

\* One subscription comes into use or goes out of use, with its filter.
LEMMA RegistryOne ==
  ASSUME RegistryIsCurrent, NEW s \in Subs,
         \A t \in Subs : t # s => /\ registry'[t] = registry[t] /\ (InUse(t)' <=> InUse(t))
                                 /\ listener'[t].stop = listener[t].stop,
         InUse(s)' <=> registry'[s] # "none"
  PROVE  RegistryIsCurrent'
BY DEF RegistryIsCurrent

\* The handle is given up: its listener is told to stop and its filter taken off.
LEMMA RegistryHandle ==
  ASSUME RegistryIsCurrent, TypeOK, StopListener(handle), Unsubscribe({handle} \ {None}),
         \A s \in Subs : InUse(s)' <=> InUse(s)
  PROVE  RegistryIsCurrent'
<1>1. /\ listener \in [Subs -> Listeners] /\ handle \in Subs \union {None}
      /\ registry \in [Subs -> {"none", "plain", "payload"}] /\ None \notin Subs
  BY Constants DEF TypeOK, BusTypeOK
<1>2. \A s \in Subs : /\ s = handle => listener'[s].stop
                      /\ s # handle => listener'[s] = listener[s]
  BY <1>1, StopEffect
<1>3. \A s \in Subs : /\ s = handle => registry'[s] = "none"
                      /\ s # handle => registry'[s] = registry[s]
  BY <1>1 DEF Unsubscribe
<1>4. QED
  BY <1>2, <1>3 DEF RegistryIsCurrent

\* Which subscriptions are in use, by listeners and adds.
LEMMA UseFrame ==
  ASSUME \A c \in Callers : Adding(c)' <=> Adding(c),
         \A c \in Callers : Adding(c) => calls'[c].sub = calls[c].sub,
         \A s \in Subs : (s \in Running)' <=> s \in Running
  PROVE  \A s \in Subs : InUse(s)' <=> InUse(s)
BY DEF InUse, CallsIn, Adding

LEMMA RegistryStep == HookInv /\ RegistryIsCurrent /\ [Next]_vars => RegistryIsCurrent'
<1> SUFFICES ASSUME HookInv, RegistryIsCurrent, [Next]_vars
             PROVE  RegistryIsCurrent'
  OBVIOUS
<1> USE DEF hookVars, taskVars, countVars
<1>0. /\ TypeOK /\ AddsOwnTheirs /\ BusTypeOK /\ subs \in Nat
      /\ listener \in [Subs -> Listeners] /\ calls \in [Callers -> Calls]
      /\ registry \in [Subs -> {"none", "plain", "payload"}]
  BY DEF HookInv, TypeOK, BusTypeOK
<1>1. ASSUME NEW b \in Callers, Adding(b)
      PROVE  /\ calls[b].sub \in Subs /\ listener[calls[b].sub].at = "none" /\ calls[b].sub <= subs
             /\ calls[b].sub \notin Running
  BY <1>1, <1>0 DEF AddsOwnTheirs, Running
<1>2. ASSUME UNCHANGED listener
      PROVE  \A s \in Subs : ((s \in Running)' <=> s \in Running) /\ listener'[s].stop = listener[s].stop
  BY <1>2 DEF Running
<1>3. ASSUME NEW c \in Callers, AddWebhook(c)
      PROVE  RegistryIsCurrent'
  <2>1. PICK cf \in Configs :
          /\ Subscribe(cf.payload)
          /\ calls' = [calls EXCEPT ![c] =
                         [op |-> "add", at |-> "config", sub |-> NextSub, config |-> cf]]
    BY <1>3 DEF AddWebhook
  <2>2. NextSub \in Subs /\ NextSub = subs + 1 /\ calls[c] = Idle
    BY <1>3, <2>1, <1>0, SubscribeTyped DEF AddWebhook
  <2> PICK n \in Subs : n = NextSub
    BY <2>2
  <2>3. /\ calls'[c].op = "add" /\ calls'[c].sub = n
        /\ \A b \in Callers : b # c => calls'[b] = calls[b]
    BY <2>1, <1>0
  <2>4. ~Adding(c)
    BY <2>2, IdleIsCall DEF Adding
  <2>5. UNCHANGED listener
    BY <1>3 DEF AddWebhook
  <2>6. registry'[n] # "none" /\ \A t \in Subs : t # n => registry'[t] = registry[t]
    BY <2>1, <2>2, <1>0 DEF Subscribe
  <2>7. InUse(n)'
    BY <2>3 DEF InUse, CallsIn
  <2>8. \A t \in Subs : t # n => (InUse(t)' <=> InUse(t))
    BY <2>3, <2>4, <2>5, <1>2 DEF InUse, CallsIn, Adding
  <2>9. QED
    BY <2>5, <2>6, <2>7, <2>8, RegistryOne
<1>4. ASSUME NEW c \in Callers, NEW place \in {"config", "stats", "handle", "start"},
             calls' = [calls EXCEPT ![c].at = place],
             \A s \in Subs : listener'[s].at = listener[s].at
      PROVE  \A s \in Subs : InUse(s)' <=> InUse(s)
  <2>1. \A b \in Callers : calls'[b].op = calls[b].op /\ calls'[b].sub = calls[b].sub
    BY <1>4, <1>0, CallEffect
  <2>2. QED
    BY <2>1, <1>4, UseFrame DEF Adding, Running
<1>5. ASSUME NEW c \in Callers, AddConfig(c) \/ AddStats(c)
      PROVE  RegistryIsCurrent'
  <2>1. \E place \in {"stats", "handle"} : calls' = [calls EXCEPT ![c].at = place]
    BY <1>5 DEF AddConfig, AddStats
  <2>2. UNCHANGED <<listener, registry>>
    BY <1>5 DEF AddConfig, AddStats, busVars
  <2>3. QED
    BY <2>1, <2>2, <1>4, RegistryFrame
<1>6. ASSUME NEW c \in Callers, AddHandle(c) \/ RemoveHandle(c)
      PROVE  RegistryIsCurrent'
  <2>1. StopListener(handle) /\ Unsubscribe({handle} \ {None})
    BY <1>6 DEF AddHandle, RemoveHandle
  <2>2. \E place \in {"start", "stats"} : calls' = [calls EXCEPT ![c].at = place]
    BY <1>6 DEF AddHandle, RemoveHandle
  <2>3. \A s \in Subs : listener'[s].at = listener[s].at
    BY <2>1, <1>0, StopEffect DEF TypeOK
  <2>4. QED
    BY <2>1, <2>2, <2>3, <1>0, <1>4, RegistryHandle
<1>7. ASSUME NEW c \in Callers, AddStart(c)
      PROVE  RegistryIsCurrent'
  <2>1. Adding(c) /\ calls' = [calls EXCEPT ![c] = Idle]
    BY <1>7 DEF AddStart, Adding
  <2>2. calls'[c].op = "idle" /\ \A b \in Callers : b # c => calls'[b] = calls[b]
    BY <2>1, <1>0, CallReplaced, IdleIsCall
  <2>3. PICK s \in Subs : s = calls[c].sub
    BY <2>1, <1>1
  <2>4. ~ \E b \in Callers : b # c /\ Adding(b) /\ calls[b].sub = s
    BY <2>1, <2>3, <1>0 DEF AddsOwnTheirs
  <2>5. InUse(s)' <=> (s \in Running)'
    BY <2>2, <2>4 DEF InUse, CallsIn, Adding
  <2>6. ASSUME NEW place \in {"recv", "gone"}, Go(s, place)
        PROVE  /\ (s \in Running)' <=> place = "recv"
               /\ listener'[s].stop = listener[s].stop
               /\ \A t \in Subs : t # s => /\ (InUse(t)' <=> InUse(t))
                                          /\ listener'[t].stop = listener[t].stop
    <3>1. /\ listener'[s].at = place /\ listener'[s].stop = listener[s].stop
          /\ \A t \in Subs : t # s => listener'[t] = listener[t]
      BY <2>6, <1>0, GoEffect DEF Places
    <3>2. \A t \in Subs : t # s => ((t \in Running)' <=> t \in Running)
      BY <3>1 DEF Running
    <3>3. \A t \in Subs : t # s => (InUse(t)' <=> InUse(t))
      BY <3>2, <2>2, <2>3 DEF InUse, CallsIn
    <3>4. QED
      BY <3>1, <3>3 DEF Running
  <2>7. CASE ListenersClosed
    <3>1. DropSubscription(s) /\ Go(s, "gone")
      BY <1>7, <2>3, <2>7 DEF AddStart, Go
    <3>2. registry'[s] = "none" /\ \A t \in Subs : t # s => registry'[t] = registry[t]
      BY <3>1, <1>0 DEF DropSubscription
    <3>3. QED
      BY <3>1, <3>2, <2>5, <2>6, RegistryOne
  <2>8. CASE ~ListenersClosed
    <3>1. UNCHANGED registry /\ Go(s, "recv")
      BY <1>7, <2>3, <2>8 DEF AddStart, Go, busVars
    <3>2. InUse(s)
      BY <2>1, <2>3 DEF InUse, CallsIn, Adding
    <3>3. QED
      BY <3>1, <3>2, <2>5, <2>6, RegistryFrame
  <2>9. QED
    BY <2>7, <2>8
<1>8. ASSUME NEW c \in Callers, RemoveWebhook(c) \/ RemoveStats(c)
      PROVE  RegistryIsCurrent'
  <2>1. UNCHANGED <<listener, registry>> /\ ~Adding(c)
    BY <1>8, IdleIsCall DEF RemoveWebhook, RemoveStats, busVars, Adding
  <2>2. calls'[c].op # "add" /\ \A b \in Callers : b # c => calls'[b] = calls[b]
    BY <1>8, <1>0, CallReplaced, IdleIsCall DEF RemoveWebhook, RemoveStats
  <2>3. \A s \in Subs : InUse(s)' <=> InUse(s)
    BY <2>1, <2>2, <1>2 DEF InUse, CallsIn, Adding
  <2>4. QED
    BY <2>1, <2>3, RegistryFrame
<1>9. CASE ShutdownDropsHandle
  <2>1. StopListener(handle) /\ Unsubscribe({handle} \ {None}) /\ UNCHANGED calls
    BY <1>9 DEF ShutdownDropsHandle
  <2>2. \A s \in Subs : listener'[s].at = listener[s].at
    BY <2>1, <1>0, StopEffect DEF TypeOK
  <2>3. \A s \in Subs : InUse(s)' <=> InUse(s)
    BY <2>1, <2>2 DEF InUse, CallsIn, Running
  <2>4. QED
    BY <2>1, <2>3, <1>0, RegistryHandle
<1>10. CASE ShutdownBegins
  <2>1. UNCHANGED <<registry, calls>>
    BY <1>10 DEF ShutdownBegins, busVars
  <2>2. \A s \in Subs : listener'[s].at = listener[s].at /\ listener'[s].stop = listener[s].stop
    BY <1>10, <1>0, BeginsEffect
  <2>3. \A s \in Subs : InUse(s)' <=> InUse(s)
    BY <2>1, <2>2 DEF InUse, CallsIn, Running
  <2>4. QED
    BY <2>1, <2>2, <2>3, RegistryFrame
<1>11. ASSUME UNCHANGED <<listener, calls, registry>>
       PROVE  RegistryIsCurrent'
  BY <1>11, RegistryFrame DEF InUse, CallsIn, Running
<1>12. CASE ChangeConfig \/ Publish \/ ShutdownEnds \/ UNCHANGED vars
  BY <1>11, <1>12 DEF ChangeConfig, Publish, PublishEvent, ShutdownEnds, vars, busVars
<1>13. ASSUME NEW s \in Subs, ListenerStep(s)
       PROVE  RegistryIsCurrent'
  <2>1. /\ s \in Running /\ UNCHANGED calls
        /\ \A t \in Subs : /\ listener'[t].stop = listener[t].stop
                           /\ t # s => listener'[t] = listener[t]
    BY <1>13, ListenerFrame
  <2>2. ~ \E b \in Callers : Adding(b) /\ calls[b].sub = s
    BY <2>1, <1>1
  <2>3. \A t \in Subs : t # s => (InUse(t)' <=> InUse(t))
    BY <2>1 DEF InUse, CallsIn, Running
  <2>4. InUse(s) /\ (InUse(s)' <=> (s \in Running)')
    BY <2>1, <2>2 DEF InUse, CallsIn, Adding
  <2>5. CASE Go(s, "gone") /\ DropSubscription(s)
    <3>1. registry'[s] = "none" /\ \A t \in Subs : t # s => registry'[t] = registry[t]
      BY <2>5, <1>0 DEF DropSubscription
    <3>2. listener'[s].at = "gone"
      BY <2>5, <1>0, GoEffect DEF Places
    <3>3. ~InUse(s)'
      BY <3>2, <2>4 DEF Running
    <3>4. QED
      BY <3>1, <3>3, <2>1, <2>3, RegistryOne
  <2>6. ASSUME NEW place \in {"recv", "check", "slot", "spawn"}, Go(s, place), UNCHANGED registry
        PROVE  RegistryIsCurrent'
    <3>1. listener'[s].at = place
      BY <2>6, <1>0, GoEffect DEF Places
    <3>2. InUse(s)'
      BY <3>1, <2>4 DEF Running
    <3>3. QED
      BY <2>1, <2>3, <2>4, <2>6, <3>2, RegistryFrame
  <2>7. CASE HearEvent(s) \/ TakeSlot(s) \/ SpawnDelivery(s)
    BY <2>6, <2>7 DEF HearEvent, TakeSlot, SpawnDelivery, busVars
  <2>8. CASE HearLag(s)
    BY <2>8, <2>1, <1>11 DEF HearLag
  <2>9. CASE CheckEvent(s)
    <3>1. CASE config = None
      BY <2>9, <3>1, <2>5 DEF CheckEvent
    <3>2. CASE config # None
      <4>1. \E place \in {"slot", "recv"} : Go(s, place)
        BY <2>9, <3>2 DEF CheckEvent
      <4>2. UNCHANGED registry
        BY <2>9, <3>2 DEF CheckEvent, busVars
      <4>3. QED
        BY <4>1, <4>2, <2>6
    <3>3. QED
      BY <3>1, <3>2
  <2>10. CASE ListenerEnds(s)
    BY <2>10, <2>5 DEF ListenerEnds
  <2>11. QED
    BY <1>13, <2>7, <2>8, <2>9, <2>10 DEF ListenerStep
<1>14. ASSUME NEW d \in Pairs, DeliveryStep(d)
       PROVE  RegistryIsCurrent'
  BY <1>11, <1>14, <1>0, DeliveryFrame DEF busVars
<1>15. QED
  BY <1>3, <1>5, <1>6, <1>7, <1>8, <1>9, <1>10, <1>12, <1>13, <1>14
     DEF Next, SystemStep, CallStep, ShutdownStep, Pairs

\* Whatever calls overlap and however listeners end, the filters registered on
\* the bus are those of the subscriptions in use (RegistryIsCurrent:
\* add_webhook, remove_webhook and shutdown of webhooks.rs, and the Drop of a
\* subscription in events.rs).
THEOREM RegistryFollowsListeners == Spec => []RegistryIsCurrent
<1>1. Init => RegistryIsCurrent
  <2> SUFFICES ASSUME Init
               PROVE  RegistryIsCurrent
    OBVIOUS
  <2>1. \A s \in Subs : registry[s] = "none" /\ s \notin Running
    BY DEF Init, BusInit, NoListener, Running
  <2>2. \A c \in Callers : calls[c].op # "add"
    BY IdleIsCall DEF Init
  <2>3. QED
    BY <2>1, <2>2 DEF RegistryIsCurrent, InUse, CallsIn
<1>2. QED
  BY <1>1, HookAlways, RegistryStep, PTL DEF Spec

-----------------------------------------------------------------------------
(* At most one listener goes on listening.                                 *)

\* No listener starts or is told to stop, and no call goes on.
LEMMA TwinFrame ==
  ASSUME TwinInv, UNCHANGED <<handle, calls>>,
         \A s \in Subs : /\ listener'[s].stop = listener[s].stop
                         /\ listener'[s].at \in {"recv", "check", "slot", "spawn"} =>
                              listener[s].at \in {"recv", "check", "slot", "spawn"}
         , AddsOwnTheirs
  PROVE  TwinInv'
<1>1. NoTwin'
  BY DEF TwinInv, NoTwin, Running
<1>2. \A c \in Callers : Adding(c) => calls[c].sub \in Subs
  BY DEF AddsOwnTheirs
<1>3. QED
  BY <1>1, <1>2 DEF TwinInv, Adding, Before

LEMMA TwinStep == HookInv /\ TwinInv /\ [Next]_vars => TwinInv'
<1> SUFFICES ASSUME HookInv, TwinInv, [Next]_vars
             PROVE  TwinInv'
  OBVIOUS
<1> USE DEF hookVars, taskVars, countVars
<1>0. /\ TypeOK /\ AddsOwnTheirs /\ BusTypeOK /\ subs \in Nat
      /\ listener \in [Subs -> Listeners] /\ calls \in [Callers -> Calls]
      /\ handle \in Subs \union {None}
  BY DEF HookInv, TypeOK, BusTypeOK
<1>1. ASSUME NEW b \in Callers, Adding(b)
      PROVE  /\ calls[b].sub \in Subs /\ listener[calls[b].sub].at = "none"
             /\ calls[b].sub <= subs /\ calls[b].at # "end"
             /\ IF Before(b) THEN handle # calls[b].sub /\ ~listener[calls[b].sub].stop
                ELSE handle = calls[b].sub \/ listener[calls[b].sub].stop
  BY <1>1, <1>0 DEF AddsOwnTheirs, TwinInv
<1>2. \A s \in Subs : listener[s].at \in {"recv", "check", "slot", "spawn"} /\ ~listener[s].stop
        => s = handle
  BY DEF TwinInv, NoTwin, Running
<1>3. ASSUME NEW c \in Callers, AddWebhook(c)
      PROVE  TwinInv'
  <2>1. PICK cf \in Configs :
          /\ Subscribe(cf.payload)
          /\ calls' = [calls EXCEPT ![c] =
                         [op |-> "add", at |-> "config", sub |-> NextSub, config |-> cf]]
    BY <1>3 DEF AddWebhook
  <2>2. NextSub \in Subs /\ NextSub = subs + 1
    BY <2>1, <1>0, SubscribeTyped
  <2>3. UNCHANGED <<listener, handle>>
    BY <1>3 DEF AddWebhook
  <2>4. handle # NextSub /\ ~listener[NextSub].stop
    BY <2>2, <1>0 DEF AddsOwnTheirs
  <2>5. /\ calls'[c].op = "add" /\ calls'[c].at = "config" /\ calls'[c].sub = NextSub
        /\ \A b \in Callers : b # c => calls'[b] = calls[b]
    BY <2>1, <1>0
  <2>6. NoTwin'
    BY <2>3 DEF TwinInv, NoTwin, Running
  <2>7. QED
    BY <2>3, <2>4, <2>5, <2>6 DEF TwinInv, Adding, Before
<1>4. ASSUME NEW c \in Callers, AddConfig(c) \/ AddStats(c)
      PROVE  TwinInv'
  <2>1. PICK place \in {"stats", "handle"} : calls' = [calls EXCEPT ![c].at = place]
    BY <1>4 DEF AddConfig, AddStats
  <2>2. UNCHANGED <<listener, handle>> /\ Adding(c) /\ Before(c)
    BY <1>4 DEF AddConfig, AddStats, Adding, Before
  <2>3. calls'[c].at \in {"stats", "handle"}
        /\ \A b \in Callers : /\ calls'[b].op = calls[b].op /\ calls'[b].sub = calls[b].sub
                              /\ b # c => calls'[b] = calls[b]
    BY <2>1, <1>0, CallEffect
  <2>4. \A b \in Callers : (Adding(b)' <=> Adding(b)) /\ (Before(b)' <=> Before(b))
    BY <2>2, <2>3 DEF Adding, Before
  <2>5. NoTwin'
    BY <2>2 DEF TwinInv, NoTwin, Running
  <2>6. QED
    BY <2>2, <2>3, <2>4, <2>5 DEF TwinInv
<1>5. ASSUME NEW c \in Callers, AddHandle(c)
      PROVE  TwinInv'
  <2>1. calls' = [calls EXCEPT ![c].at = "start"] /\ StopListener(handle) /\ handle' = calls[c].sub
        /\ Adding(c) /\ Before(c)
    BY <1>5 DEF AddHandle, Adding, Before
  <2>2. calls'[c].at = "start"
        /\ \A b \in Callers : /\ calls'[b].op = calls[b].op /\ calls'[b].sub = calls[b].sub
                              /\ b # c => calls'[b] = calls[b]
    BY <2>1, <1>0, CallEffect
  <2>3. \A s \in Subs : /\ listener'[s].at = listener[s].at
                        /\ s = handle => listener'[s].stop
                        /\ s # handle => listener'[s] = listener[s]
    BY <2>1, <1>0, StopEffect
  <2>4. NoTwin'
    BY <2>3, <1>2 DEF NoTwin, Running
  <2>5. ASSUME NEW b \in Callers, Adding(b)'
        PROVE  IF Before(b)' THEN handle' # calls'[b].sub /\ ~listener'[calls'[b].sub].stop
               ELSE handle' = calls'[b].sub \/ listener'[calls'[b].sub].stop
    <3>1. Adding(b) /\ calls[b].sub \in Subs /\ calls'[b].sub = calls[b].sub
      BY <2>5, <2>2, <1>1 DEF Adding
    <3>2. CASE b = c
      BY <3>2, <2>1, <2>2 DEF Before
    <3>3. CASE b # c
      <4>1. calls[b].sub # calls[c].sub
        BY <3>1, <3>3, <2>1, <1>0 DEF AddsOwnTheirs
      <4>2. Before(b)' <=> Before(b)
        BY <3>3, <2>2 DEF Before
      <4>3. QED
        BY <4>1, <4>2, <3>1, <2>1, <2>3, <1>1
    <3>4. QED
      BY <3>2, <3>3
  <2>6. QED
    BY <2>4, <2>5 DEF TwinInv
<1>6. ASSUME NEW c \in Callers, AddStart(c)
      PROVE  TwinInv'
  <2>1. Adding(c) /\ ~Before(c) /\ handle' = handle /\ calls' = [calls EXCEPT ![c] = Idle]
    BY <1>6 DEF AddStart, Adding, Before
  <2>2. \E place \in Places : Go(calls[c].sub, place)
    BY <1>6 DEF AddStart, Go, Places
  <2>3. \A s \in Subs : /\ listener'[s].stop = listener[s].stop
                        /\ s # calls[c].sub => listener'[s] = listener[s]
    BY <2>2, <2>1, <1>1, <1>0, GoEffect
  <2>4. handle = calls[c].sub \/ listener[calls[c].sub].stop
    BY <2>1, <1>1
  <2>5. NoTwin'
    BY <2>1, <2>3, <2>4, <1>2 DEF NoTwin, Running
  <2>6. calls'[c].op = "idle" /\ \A b \in Callers : b # c => calls'[b] = calls[b]
    BY <2>1, <1>0, CallReplaced, IdleIsCall
  <2>7. ASSUME NEW b \in Callers, Adding(b)'
        PROVE  IF Before(b)' THEN handle' # calls'[b].sub /\ ~listener'[calls'[b].sub].stop
               ELSE handle' = calls'[b].sub \/ listener'[calls'[b].sub].stop
    <3>1. Adding(b) /\ calls'[b] = calls[b] /\ (Before(b)' <=> Before(b))
      BY <2>6, <2>7 DEF Adding, Before
    <3>2. QED
      BY <3>1, <2>1, <2>3, <1>1
  <2>8. QED
    BY <2>5, <2>7 DEF TwinInv
<1>7. ASSUME NEW c \in Callers, RemoveWebhook(c) \/ RemoveStats(c)
      PROVE  TwinInv'
  <2>1. UNCHANGED <<listener, handle>>
    BY <1>7 DEF RemoveWebhook, RemoveStats
  <2>2. calls'[c].op # "add" /\ \A b \in Callers : b # c => calls'[b] = calls[b]
    BY <1>7, <1>0, CallReplaced, IdleIsCall DEF RemoveWebhook, RemoveStats
  <2>3. NoTwin'
    BY <2>1 DEF TwinInv, NoTwin, Running
  <2>4. QED
    BY <2>1, <2>2, <2>3 DEF TwinInv, Adding, Before
<1>8. ASSUME StopListener(handle), handle' = None,
             \A b \in Callers : Adding(b)' => Adding(b) /\ calls'[b] = calls[b]
      PROVE  TwinInv'
  <2>1. \A s \in Subs : /\ listener'[s].at = listener[s].at
                        /\ s = handle => listener'[s].stop
                        /\ s # handle => listener'[s] = listener[s]
    BY <1>8, <1>0, StopEffect
  <2>2. NoTwin'
    BY <2>1, <1>2 DEF NoTwin, Running
  <2>3. ASSUME NEW b \in Callers, Adding(b)'
        PROVE  IF Before(b)' THEN handle' # calls'[b].sub /\ ~listener'[calls'[b].sub].stop
               ELSE handle' = calls'[b].sub \/ listener'[calls'[b].sub].stop
    <3>1. Adding(b) /\ calls'[b] = calls[b] /\ (Before(b)' <=> Before(b))
      BY <1>8, <2>3 DEF Adding, Before
    <3>2. PICK s \in Subs : s = calls[b].sub
      BY <3>1, <1>1
    <3>3. /\ s = handle => listener'[s].stop
          /\ s # handle => listener'[s].stop = listener[s].stop
      BY <2>1
    <3>4. IF Before(b) THEN handle # s /\ ~listener[s].stop ELSE handle = s \/ listener[s].stop
      BY <3>1, <3>2, <1>1
    <3>5. handle' # s
      BY <1>8, Constants
    <3>6. CASE Before(b)
      BY <3>1, <3>2, <3>3, <3>4, <3>5, <3>6
    <3>7. CASE ~Before(b)
      BY <3>1, <3>2, <3>3, <3>4, <3>7
    <3>8. QED
      BY <3>6, <3>7
  <2>4. QED
    BY <2>2, <2>3 DEF TwinInv
<1>9. ASSUME NEW c \in Callers, RemoveHandle(c)
      PROVE  TwinInv'
  <2>1. calls' = [calls EXCEPT ![c].at = "stats"] /\ StopListener(handle) /\ handle' = None
        /\ ~Adding(c)
    BY <1>9 DEF RemoveHandle, Adding
  <2>2. \A b \in Callers : calls'[b].op = calls[b].op /\ (b # c => calls'[b] = calls[b])
    BY <2>1, <1>0, CallEffect
  <2>3. \A b \in Callers : Adding(b)' => Adding(b) /\ calls'[b] = calls[b]
    BY <2>1, <2>2 DEF Adding
  <2>4. QED
    BY <2>1, <2>3, <1>8
<1>10. CASE ShutdownDropsHandle
  BY <1>10, <1>8 DEF ShutdownDropsHandle, Adding
<1>11. CASE ShutdownBegins
  <2>1. UNCHANGED <<handle, calls>>
    BY <1>11 DEF ShutdownBegins
  <2>2. QED
    BY <1>11, <2>1, <1>0, BeginsEffect, TwinFrame
<1>12. CASE ChangeConfig \/ Publish \/ ShutdownEnds \/ UNCHANGED vars
  <2>1. UNCHANGED <<listener, handle, calls>>
    BY <1>12 DEF ChangeConfig, Publish, ShutdownEnds, vars
  <2>2. QED
    BY <2>1, <1>0, TwinFrame
<1>13. ASSUME NEW s \in Subs, ListenerStep(s)
       PROVE  TwinInv'
  <2>1. listener[s].at \in {"recv", "check", "slot", "spawn"}
    BY <1>13, ListenerFrame DEF Running
  <2>2. UNCHANGED <<handle, calls>>
    BY <1>13, ListenerFrame
  <2>3. QED
    BY <1>13, <2>1, <2>2, <1>0, ListenerFrame, TwinFrame
<1>14. ASSUME NEW d \in Pairs, DeliveryStep(d)
       PROVE  TwinInv'
  <2>1. UNCHANGED <<listener, handle, calls>>
    BY <1>14, <1>0, DeliveryFrame
  <2>2. QED
    BY <2>1, <1>0, TwinFrame
<1>15. QED
  BY <1>3, <1>4, <1>5, <1>6, <1>7, <1>9, <1>10, <1>11, <1>12, <1>13, <1>14
     DEF Next, SystemStep, CallStep, ShutdownStep, Pairs

\* Whatever calls of add_webhook, remove_webhook and shutdown overlap, at most
\* one listener of the webhook has not been told to stop: the one whose handle
\* the manager has (NoTwin).
THEOREM OneListenerOnly == Spec => []NoTwin
<1>1. Init => TwinInv
  <2> SUFFICES ASSUME Init
               PROVE  TwinInv
    OBVIOUS
  <2>1. \A s \in Subs : listener[s].at = "none"
    BY DEF Init, NoListener
  <2>2. \A c \in Callers : ~Adding(c)
    BY IdleIsCall DEF Init, Adding
  <2>3. QED
    BY <2>1, <2>2 DEF TwinInv, NoTwin, Running
<1>2. TwinInv => NoTwin
  BY DEF TwinInv
<1>3. QED
  BY <1>1, <1>2, HookAlways, TwinStep, PTL DEF Spec

-----------------------------------------------------------------------------
(* A webhook that is listed is listened for.                               *)

\* A listener that is neither told to stop nor aborted ends only because the
\* configuration is gone.
LEMMA GoesOnListening ==
  ASSUME HookInv, NEW s \in Subs, ListenerStep(s),
         config # None, ~listener[s].stop, ~listener[s].abort
  PROVE  (s \in Running)'
<1>1. listener \in [Subs -> Listeners]
  BY DEF HookInv, TypeOK
<1>2. ~ListenerEnds(s)
  BY DEF ListenerEnds
<1>3. CASE HearLag(s)
  BY <1>3 DEF HearLag, At, Running, taskVars
<1>4. CASE ~HearLag(s)
  <2>1. \E place \in {"recv", "check", "slot", "spawn"} : Go(s, place)
    BY <1>2, <1>4 DEF ListenerStep, HearEvent, CheckEvent, TakeSlot, SpawnDelivery
  <2>2. listener'[s].at \in {"recv", "check", "slot", "spawn"}
    BY <2>1, <1>1, GoEffect DEF Places
  <2>3. QED
    BY <2>2 DEF Running
<1>5. QED
  BY <1>3, <1>4

\* Calls, configuration and handle stay as they are, and so does the listener
\* of a handle whose add has not started it.
LEMMA ListedFrame ==
  ASSUME Quiet, ListedInv, AddsOwnTheirs, UNCHANGED <<config, handle, calls>>,
         \A s \in Subs : ~listener[s].stop => ~listener'[s].stop,
         handle # None /\ config # None /\ InCharge(handle) => InCharge(handle)'
  PROVE  Apart' /\ ConfigSettled' /\ HandleToCome' /\ HandleSettled'
<1>1. Apart /\ ConfigSettled /\ HandleToCome /\ HandleSettled
  BY DEF ListedInv
<1>2. \A c \in Callers : /\ Adding(c)' <=> Adding(c)
                         /\ Removing(c)' <=> Removing(c)
                         /\ Before(c)' <=> Before(c)
  BY DEF Adding, Removing, Before
<1>3. \A c \in Callers : Adding(c) => calls[c].sub \in Subs
  BY DEF AddsOwnTheirs
<1>4. Apart' /\ ConfigSettled' /\ HandleToCome'
  BY <1>1, <1>2 DEF Apart, ConfigSettled, HandleToCome
<1>5. HandleSettled'
  BY <1>1, <1>2, <1>3 DEF HandleSettled
<1>6. QED
  BY <1>4, <1>5

LEMMA NeverUpAgain ==
  ASSUME HookInv, [Next]_vars
  PROVE  stage' = "up" => stage = "up"
<1>0. TypeOK
  BY DEF HookInv
<1>1. ASSUME NEW c \in Callers, AddWebhook(c) \/ RemoveWebhook(c) \/ CallStep(c)
      PROVE  stage' = stage
  BY <1>1 DEF AddWebhook, RemoveWebhook, CallStep, AddConfig, AddStats, AddHandle, AddStart,
              RemoveHandle, RemoveStats
<1>2. ASSUME NEW s \in Subs, ListenerStep(s)
      PROVE  stage' = stage
  BY <1>2, ListenerFrame
<1>3. ASSUME NEW d \in Pairs, DeliveryStep(d)
      PROVE  stage' = stage
  BY <1>3, <1>0, DeliveryFrame
<1>4. ASSUME ChangeConfig \/ Publish \/ UNCHANGED vars
      PROVE  stage' = stage
  BY <1>4 DEF ChangeConfig, Publish, vars
<1>5. ASSUME ShutdownBegins \/ ShutdownStep
      PROVE  stage' # "up"
  BY <1>5 DEF ShutdownBegins, ShutdownStep, ShutdownDropsHandle, ShutdownEnds
<1>6. QED
  BY <1>1, <1>2, <1>3, <1>4, <1>5 DEF Next, SystemStep, Pairs

LEMMA ListedStep == HookInv /\ TwinInv /\ ListedInv /\ [Next]_vars => ListedInv'
<1> SUFFICES ASSUME HookInv, TwinInv, ListedInv, [Next]_vars, stage' = "up"
             PROVE  /\ stage = "up" => \A s \in Subs : ~listener'[s].abort
                    /\ Quiet' => Apart' /\ ConfigSettled' /\ HandleToCome' /\ HandleSettled'
  BY NeverUpAgain DEF ListedInv, Quiet
<1> USE DEF hookVars, taskVars, countVars
<1>0. /\ TypeOK /\ AddsOwnTheirs /\ BusTypeOK /\ subs \in Nat
      /\ listener \in [Subs -> Listeners] /\ calls \in [Callers -> Calls]
      /\ handle \in Subs \union {None} /\ None \notin Subs /\ None \notin Settings
      /\ Configs \subseteq Settings
  <2>1. /\ TypeOK /\ AddsOwnTheirs /\ BusTypeOK /\ subs \in Nat
        /\ listener \in [Subs -> Listeners] /\ calls \in [Callers -> Calls]
        /\ handle \in Subs \union {None}
    BY DEF HookInv, TypeOK, BusTypeOK
  <2>2. QED
    BY <2>1, Constants
<1>1. stage = "up" => \A s \in Subs : ~listener[s].abort
  BY DEF ListedInv
<1> DEFINE Goal == Apart' /\ ConfigSettled' /\ HandleToCome' /\ HandleSettled'
<1>2. ASSUME Quiet
      PROVE  Apart /\ ConfigSettled /\ HandleToCome /\ HandleSettled
  BY <1>2 DEF ListedInv
<1>3. \A b \in Callers : Adding(b) => /\ calls[b].sub \in Subs /\ listener[calls[b].sub].at = "none"
                                      /\ calls[b].config \in Configs
  BY <1>0 DEF AddsOwnTheirs
<1>4. ASSUME NEW c \in Callers, AddWebhook(c)
      PROVE  listener' = listener /\ (Quiet' => Goal)
  <2>1. PICK cf \in Configs :
          calls' = [calls EXCEPT ![c] =
                      [op |-> "add", at |-> "config", sub |-> NextSub, config |-> cf]]
    BY <1>4 DEF AddWebhook
  <2>2. UNCHANGED <<listener, handle, config, stage>> /\ mixed' = (mixed \/ CallsIn("remove") # {})
        /\ calls[c] = Idle
    BY <1>4 DEF AddWebhook
  <2>3. /\ calls'[c].op = "add" /\ calls'[c].at = "config"
        /\ \A b \in Callers : b # c => calls'[b] = calls[b]
    BY <2>1, <1>0
  <2>4. SUFFICES ASSUME Quiet'
                 PROVE  Goal
    BY <2>2
  <2>5. Quiet /\ \A b \in Callers : ~Removing(b)
    BY <2>2, <2>4 DEF Quiet, CallsIn, Removing
  <2>6. calls[c].op = "idle"
    BY <2>2, IdleIsCall
  <2>7. \A b \in Callers : ~Removing(b)' /\ (Adding(b) => b # c /\ calls'[b] = calls[b])
    BY <2>3, <2>5, <2>6 DEF Adding, Removing
  <2>8. Apart' /\ ConfigSettled'
    BY <2>2, <2>3, <2>5, <2>7, <1>2 DEF Apart, ConfigSettled, Adding
  <2>9. HandleToCome'
    BY <2>2, <2>3, <2>5, <2>7, <1>2 DEF HandleToCome, Adding, Before
  <2>10. HandleSettled'
    BY <2>2, <2>3, <2>5, <2>7, <1>2 DEF HandleSettled, Adding, InCharge, Running
  <2>11. QED
    BY <2>8, <2>9, <2>10
<1>5. ASSUME NEW c \in Callers, AddConfig(c) \/ AddStats(c)
      PROVE  listener' = listener /\ (Quiet' => Goal)
  <2>1. PICK place \in {"stats", "handle"} : calls' = [calls EXCEPT ![c].at = place]
    BY <1>5 DEF AddConfig, AddStats
  <2>2. UNCHANGED <<listener, handle, stage, mixed>> /\ Adding(c) /\ calls[c].at \in {"config", "stats"}
    BY <1>5 DEF AddConfig, AddStats, Adding
  <2>3. calls'[c].at \in {"stats", "handle"}
        /\ \A b \in Callers : /\ calls'[b].op = calls[b].op /\ calls'[b].sub = calls[b].sub
                              /\ b # c => calls'[b] = calls[b]
    BY <2>1, <1>0, CallEffect
  <2>4. SUFFICES ASSUME Quiet'
                 PROVE  Goal
    BY <2>2
  <2>5. Quiet
    BY <2>2, <2>4 DEF Quiet
  <2>6. \A b \in Callers : (Adding(b)' <=> Adding(b)) /\ (Removing(b)' <=> Removing(b))
    BY <2>3 DEF Adding, Removing
  <2>7. \A b \in Callers : ~Removing(b)
    BY <2>2, <2>5, <1>2 DEF Apart
  <2>8. config' # None
    <3>1. CASE AddConfig(c)
      BY <3>1, <1>0, <2>2, <1>3 DEF AddConfig
    <3>2. CASE AddStats(c)
      BY <3>2, <2>2, <2>5, <1>2 DEF AddStats, ConfigSettled
    <3>3. QED
      BY <1>5, <3>1, <3>2
  <2>9. Apart' /\ ConfigSettled'
    BY <2>6, <2>7, <2>8 DEF Apart, ConfigSettled
  <2>10. HandleToCome'
    BY <2>2, <2>3, <2>6 DEF HandleToCome, Before
  <2>11. HandleSettled'
    <3>1. \A b \in Callers : Adding(b) /\ calls[b].at = "start" => calls'[b] = calls[b]
      BY <2>2, <2>3
    <3>2. QED
      BY <2>2, <2>5, <2>6, <2>7, <2>8, <3>1, <1>2 DEF HandleSettled, InCharge, Running
  <2>12. QED
    BY <2>9, <2>10, <2>11
<1>6. ASSUME NEW c \in Callers, AddHandle(c)
      PROVE  (\A s \in Subs : listener'[s].abort = listener[s].abort) /\ (Quiet' => Goal)
  <2>1. calls' = [calls EXCEPT ![c].at = "start"] /\ StopListener(handle) /\ handle' = calls[c].sub
        /\ Adding(c) /\ calls[c].at = "handle" /\ UNCHANGED <<config, stage, mixed>>
    BY <1>6 DEF AddHandle, Adding
  <2>2. calls'[c].at = "start"
        /\ \A b \in Callers : /\ calls'[b].op = calls[b].op /\ calls'[b].sub = calls[b].sub
                              /\ b # c => calls'[b] = calls[b]
    BY <2>1, <1>0, CallEffect
  <2>3. \A s \in Subs : /\ listener'[s].abort = listener[s].abort
                        /\ s # handle => listener'[s] = listener[s]
    BY <2>1, <1>0, StopEffect
  <2>4. SUFFICES ASSUME Quiet'
                 PROVE  Goal
    BY <2>3
  <2>5. Quiet
    BY <2>1, <2>4 DEF Quiet
  <2>6. \A b \in Callers : (Adding(b)' <=> Adding(b)) /\ (Removing(b)' <=> Removing(b))
    BY <2>2 DEF Adding, Removing
  <2>7. (\A b \in Callers : ~Removing(b)) /\ config # None
    BY <2>1, <2>5, <1>2 DEF Apart, ConfigSettled
  <2>8. Apart' /\ ConfigSettled'
    BY <2>1, <2>6, <2>7 DEF Apart, ConfigSettled
  <2>9. handle' \in Subs /\ handle' # None
    BY <2>1, <1>3, <1>0
  <2>10. HandleToCome'
    BY <2>9 DEF HandleToCome
  <2>11. calls[c].sub # handle /\ ~listener[calls[c].sub].stop
    BY <2>1 DEF TwinInv, Before
  <2>12. ~listener'[handle'].stop
    BY <2>1, <2>3, <2>9, <2>11
  <2>13. HandleSettled'
    BY <2>1, <2>2, <2>6, <2>12 DEF HandleSettled
  <2>14. QED
    BY <2>8, <2>10, <2>13
<1>7. ASSUME NEW c \in Callers, AddStart(c)
      PROVE  (\A s \in Subs : listener'[s].abort = listener[s].abort) /\ (Quiet' => Goal)
  <2>1. Adding(c) /\ calls[c].at = "start" /\ calls' = [calls EXCEPT ![c] = Idle]
        /\ UNCHANGED <<config, handle, stage, mixed>>
    BY <1>7 DEF AddStart, Adding
  <2>2. calls'[c].op = "idle" /\ \A b \in Callers : b # c => calls'[b] = calls[b]
    BY <2>1, <1>0, CallReplaced, IdleIsCall
  <2>3. \E place \in Places : Go(calls[c].sub, place)
    BY <1>7 DEF AddStart, Go, Places
  <2>4. \A s \in Subs : /\ listener'[s].stop = listener[s].stop
                        /\ listener'[s].abort = listener[s].abort
                        /\ s # calls[c].sub => listener'[s] = listener[s]
    BY <2>1, <2>3, <1>0, <1>3, GoEffect
  <2>5. SUFFICES ASSUME Quiet'
                 PROVE  Goal
    BY <2>4
  <2>6. Quiet
    BY <2>1, <2>5 DEF Quiet
  <2>7. \A b \in Callers : /\ (Adding(b)' <=> Adding(b) /\ b # c)
                           /\ (Removing(b)' <=> Removing(b))
                           /\ b # c => (Before(b)' <=> Before(b))
    BY <2>1, <2>2 DEF Adding, Removing, Before
  <2>8. (\A b \in Callers : ~Removing(b)) /\ config # None
    BY <2>1, <2>6, <1>2 DEF Apart, ConfigSettled
  <2>9. Apart' /\ ConfigSettled'
    BY <2>1, <2>7, <2>8 DEF Apart, ConfigSettled
  <2>10. HandleToCome'
    <3>1. handle # None \/ \E b \in Callers : Adding(b) /\ Before(b)
      BY <2>6, <2>8, <1>2 DEF HandleToCome
    <3>2. ~Before(c)
      BY <2>1 DEF Before
    <3>3. QED
      BY <2>1, <2>7, <3>1, <3>2 DEF HandleToCome
  <2>11. ASSUME handle # None
         PROVE  \/ InCharge(handle)'
                \/ \E b \in Callers : Adding(b)' /\ calls'[b].sub = handle /\ calls'[b].at = "start"
                                      /\ ~listener'[handle].stop
    <3>0. handle \in Subs
      BY <2>11, <1>0
    <3>1. CASE InCharge(handle)
      <4>1. handle # calls[c].sub
        BY <3>1, <2>1, <1>3 DEF InCharge, Running
      <4>2. listener'[handle] = listener[handle]
        BY <4>1, <3>0, <2>4
      <4>3. QED
        BY <3>1, <4>2, <2>1 DEF InCharge, Running
    <3>2. ASSUME NEW b \in Callers, Adding(b), calls[b].sub = handle, calls[b].at = "start",
                 ~listener[handle].stop
          PROVE  \/ InCharge(handle)'
                 \/ \E a \in Callers : Adding(a)' /\ calls'[a].sub = handle /\ calls'[a].at = "start"
                                       /\ ~listener'[handle].stop
      <4>1. ~listener'[handle].stop
        BY <3>2, <3>0, <2>4
      <4>2. CASE b # c
        BY <4>1, <4>2, <3>2, <2>2, <2>7
      <4>3. CASE b = c
        <5>1. Go(handle, "recv")
          BY <4>3, <3>2, <1>7, <2>6 DEF AddStart, Quiet, ListenersClosed, Go
        <5>2. listener'[handle].at = "recv"
          BY <5>1, <3>0, <1>0, GoEffect DEF Places
        <5>3. QED
          BY <5>2, <4>1, <3>0, <2>1 DEF InCharge, Running
      <4>4. QED
        BY <4>2, <4>3
    <3>3. QED
      BY <3>1, <3>2, <2>11, <2>6, <2>8, <1>2 DEF HandleSettled
  <2>12. HandleSettled'
    BY <2>1, <2>8, <2>11 DEF HandleSettled
  <2>13. QED
    BY <2>9, <2>10, <2>12
<1>8. ASSUME NEW c \in Callers, RemoveWebhook(c)
      PROVE  listener' = listener /\ (Quiet' => Goal)
  <2>1. UNCHANGED <<listener, handle, stage>> /\ config' = None
        /\ mixed' = (mixed \/ CallsIn("add") # {}) /\ calls[c] = Idle
    BY <1>8 DEF RemoveWebhook
  <2>2. calls'[c].op = "remove" /\ calls'[c].at = "handle"
        /\ \A b \in Callers : b # c => calls'[b] = calls[b]
    BY <1>8, <1>0, CallReplaced, IdleIsCall DEF RemoveWebhook
  <2>3. SUFFICES ASSUME Quiet'
                 PROVE  Goal
    BY <2>1
  <2>4. \A b \in Callers : ~Adding(b)
    BY <2>1, <2>3 DEF Quiet, CallsIn, Adding
  <2>5. \A b \in Callers : ~Adding(b)'
    BY <2>2, <2>4 DEF Adding
  <2>6. Removing(c)'
    BY <2>2 DEF Removing
  <2>7. QED
    BY <2>1, <2>2, <2>5, <2>6 DEF Apart, ConfigSettled, HandleToCome, HandleSettled
<1>9. ASSUME NEW c \in Callers, RemoveHandle(c)
      PROVE  (\A s \in Subs : listener'[s].abort = listener[s].abort) /\ (Quiet' => Goal)
  <2>1. calls' = [calls EXCEPT ![c].at = "stats"] /\ StopListener(handle) /\ handle' = None
        /\ Removing(c) /\ UNCHANGED <<config, stage, mixed>>
    BY <1>9 DEF RemoveHandle, Removing
  <2>2. \A b \in Callers : calls'[b].op = calls[b].op
    BY <2>1, <1>0, CallEffect
  <2>3. \A s \in Subs : listener'[s].abort = listener[s].abort
    BY <2>1, <1>0, StopEffect
  <2>4. SUFFICES ASSUME Quiet'
                 PROVE  Goal
    BY <2>3
  <2>5. Quiet
    BY <2>1, <2>4 DEF Quiet
  <2>6. config = None /\ \A b \in Callers : ~Adding(b)
    BY <2>1, <2>5, <1>2 DEF Apart, ConfigSettled
  <2>7. \A b \in Callers : ~Adding(b)'
    BY <2>2, <2>6 DEF Adding
  <2>8. QED
    BY <2>1, <2>6, <2>7 DEF Apart, ConfigSettled, HandleToCome, HandleSettled
<1>10. ASSUME NEW c \in Callers, RemoveStats(c)
       PROVE  listener' = listener /\ (Quiet' => Goal)
  <2>1. UNCHANGED <<listener, handle, config, stage, mixed>> /\ Removing(c) /\ calls[c].at = "stats"
    BY <1>10 DEF RemoveStats, Removing
  <2>2. calls'[c].op = "idle" /\ \A b \in Callers : b # c => calls'[b] = calls[b]
    BY <1>10, <1>0, CallReplaced, IdleIsCall DEF RemoveStats
  <2>3. SUFFICES ASSUME Quiet'
                 PROVE  Goal
    BY <2>1
  <2>4. Quiet
    BY <2>1, <2>3 DEF Quiet
  <2>5. config = None /\ \A b \in Callers : ~Adding(b)
    BY <2>1, <2>4, <1>2 DEF Apart, ConfigSettled
  <2>6. \A b \in Callers : ~Adding(b)' /\ (b # c => (Removing(b)' <=> Removing(b)))
    BY <2>2, <2>5 DEF Adding, Removing
  <2>7. HandleSettled'
    <3>1. handle # None => \E b \in Callers : Removing(b) /\ calls[b].at = "handle"
      BY <2>4, <2>5, <1>2 DEF HandleSettled
    <3>2. QED
      BY <3>1, <2>1, <2>2, <2>6 DEF HandleSettled
  <2>8. QED
    BY <2>1, <2>5, <2>6, <2>7 DEF Apart, ConfigSettled, HandleToCome
<1>11. ASSUME ChangeConfig
       PROVE  listener' = listener /\ (Quiet' => Goal)
  <2>1. UNCHANGED <<listener, handle, calls, stage, mixed>> /\ config # None
    BY <1>11 DEF ChangeConfig
  <2>2. config \in Settings
    BY <2>1, <1>0 DEF TypeOK
  <2>3. \A b \in BOOLEAN : [config EXCEPT !.enabled = b] \in Settings
    BY <2>2 DEF Settings
  <2>4. config' # None
    BY <1>11, <2>3, <1>0 DEF ChangeConfig
  <2>5. SUFFICES ASSUME Quiet'
                 PROVE  Goal
    BY <2>1
  <2>6. Quiet
    BY <2>1, <2>5 DEF Quiet
  <2>7. \A b \in Callers : (Adding(b)' <=> Adding(b)) /\ (Removing(b)' <=> Removing(b))
                           /\ (Before(b)' <=> Before(b))
    BY <2>1 DEF Adding, Removing, Before
  <2>8. \A b \in Callers : ~Removing(b)
    BY <2>1, <2>6, <1>2 DEF ConfigSettled
  <2>9. Apart' /\ ConfigSettled' /\ HandleToCome'
    BY <2>1, <2>4, <2>6, <2>7, <2>8, <1>2 DEF Apart, ConfigSettled, HandleToCome
  <2>10. HandleSettled'
    BY <2>1, <2>4, <2>6, <2>7, <2>8, <1>2 DEF HandleSettled, InCharge, Running
  <2>11. QED
    BY <2>9, <2>10
<1>12. ~ShutdownBegins /\ ~ShutdownStep
  BY DEF ShutdownBegins, ShutdownStep, ShutdownDropsHandle, ShutdownEnds
<1>13. ASSUME UNCHANGED <<listener, handle, config, calls, stage, mixed>>
       PROVE  Quiet' => Goal
  <2>1. SUFFICES ASSUME Quiet'
                 PROVE  Goal
    OBVIOUS
  <2>2. Quiet
    BY <2>1, <1>13 DEF Quiet
  <2>3. handle # None /\ config # None /\ InCharge(handle) => InCharge(handle)'
    BY <1>13 DEF InCharge, Running
  <2>4. QED
    BY <2>2, <2>3, <1>13, <1>0, ListedFrame
<1>14. ASSUME NEW s \in Subs, ListenerStep(s)
       PROVE  (\A t \in Subs : listener'[t].abort = listener[t].abort) /\ (Quiet' => Goal)
  <2>1. /\ UNCHANGED <<config, handle, calls, stage, mixed>>
        /\ \A t \in Subs : /\ listener'[t].abort = listener[t].abort
                           /\ listener'[t].stop = listener[t].stop
                           /\ t # s => listener'[t] = listener[t]
    BY <1>14, ListenerFrame
  <2>2. SUFFICES ASSUME Quiet'
                 PROVE  Goal
    BY <2>1
  <2>3. Quiet
    BY <2>1, <2>2 DEF Quiet
  <2>4. \A t \in Subs : ~listener[t].abort
    BY <2>3, <1>1 DEF Quiet
  <2>5. ASSUME handle # None, config # None, InCharge(handle)
        PROVE  InCharge(handle)'
    <3>1. handle \in Subs /\ ~listener'[handle].stop
      BY <2>5, <2>1 DEF InCharge, Running
    <3>2. CASE handle = s
      <4>1. (s \in Running)'
        BY <3>2, <2>5, <2>4, <1>14, GoesOnListening DEF InCharge
      <4>2. QED
        BY <4>1, <3>1, <3>2, <2>1 DEF InCharge
    <3>3. CASE handle # s
      <4>1. listener'[handle] = listener[handle]
        BY <3>1, <3>3, <2>1
      <4>2. QED
        BY <4>1, <2>5, <2>1 DEF InCharge, Running
    <3>4. QED
      BY <3>2, <3>3
  <2>6. QED
    BY <2>1, <2>3, <2>5, <1>0, ListedFrame
<1>15. ASSUME NEW d \in Pairs, DeliveryStep(d)
       PROVE  UNCHANGED <<listener, handle, config, calls, stage, mixed>>
  BY <1>15, <1>0, DeliveryFrame
<1>16. ASSUME Publish \/ UNCHANGED vars
       PROVE  UNCHANGED <<listener, handle, config, calls, stage, mixed>>
  BY <1>16 DEF Publish, vars
<1> HIDE DEF Goal
<1>17. (\A s \in Subs : listener'[s].abort = listener[s].abort) /\ (Quiet' => Goal)
  BY <1>4, <1>5, <1>6, <1>7, <1>8, <1>9, <1>10, <1>11, <1>12, <1>13, <1>14, <1>15, <1>16
     DEF Next, SystemStep, CallStep, Pairs
<1>18. QED
  BY <1>1, <1>17 DEF Goal

\* A webhook that is listed is listened for once no call is in progress, unless
\* an add and a remove of it overlapped or shutdown has begun
\* (ListedIsListening): the listener in charge of a webhook with a
\* configuration ends only when it is replaced or shut down.
THEOREM ListedWebhookListens == Spec => []ListedIsListening
<1>1. Init => TwinInv /\ ListedInv
  <2> SUFFICES ASSUME Init
               PROVE  TwinInv /\ ListedInv
    OBVIOUS
  <2>1. \A s \in Subs : listener[s].at = "none" /\ ~listener[s].abort
    BY DEF Init, NoListener
  <2>2. \A c \in Callers : ~Adding(c) /\ ~Removing(c)
    BY IdleIsCall DEF Init, Adding, Removing
  <2>3. config = None /\ handle = None
    BY DEF Init
  <2>4. TwinInv
    BY <2>1, <2>2 DEF TwinInv, NoTwin, Running
  <2>5. ListedInv
    BY <2>1, <2>2, <2>3 DEF ListedInv, Apart, ConfigSettled, HandleToCome, HandleSettled
  <2>6. QED
    BY <2>4, <2>5
<1>2. ListedInv => ListedIsListening
  <2> SUFFICES ASSUME ListedInv, CallsIn("idle") = Callers, stage = "up", ~mixed, config # None
               PROVE  handle \in Running /\ ~listener[handle].stop
    BY DEF ListedIsListening
  <2>1. \A c \in Callers : ~Adding(c) /\ ~Removing(c)
    BY DEF CallsIn, Adding, Removing
  <2>2. HandleToCome /\ HandleSettled
    BY DEF ListedInv, Quiet
  <2>3. handle # None
    BY <2>1, <2>2 DEF HandleToCome
  <2>4. QED
    BY <2>1, <2>2, <2>3 DEF HandleSettled, InCharge
<1>3. QED
  BY <1>1, <1>2, HookAlways, TwinStep, ListedStep, PTL DEF Spec

-----------------------------------------------------------------------------
(* Permits and slots.                                                      *)

Countable ==
  /\ IsFiniteSet(Pairs)
  /\ IsFiniteSet(SentSet) /\ Cardinality(SentSet) \in Nat
  /\ \A s : IsFiniteSet(OpenSet(s)) /\ Cardinality(OpenSet(s)) \in Nat

LEMMA PairsFinite == Countable
<1>1. IsFiniteSet(Subs) /\ IsFiniteSet(Events)
  BY EventBusAssumptions, FS_Interval DEF Subs, Events
<1>2. IsFiniteSet(Pairs)
  BY <1>1, FS_Product DEF Pairs
<1>3. SentSet \subseteq Pairs /\ \A s : OpenSet(s) \subseteq Pairs
  BY DEF SentSet, OpenSet
<1>4. QED
  BY <1>2, <1>3, FS_Subset, FS_CardinalityType DEF Countable

LEMMA PairsFiniteNext == Countable'
BY PairsFinite, PTL

\* The counts after one element came or went.
LEMMA CountSteps ==
  ASSUME NEW S, IsFiniteSet(S), NEW d
  PROVE  /\ d \notin S => Cardinality(S \union {d}) = Cardinality(S) + 1
         /\ d \in S => Cardinality(S \ {d}) + 1 = Cardinality(S)
<1>1. Cardinality(S) \in Nat
  BY FS_CardinalityType
<1>2. d \notin S => Cardinality(S \union {d}) = Cardinality(S) + 1
  BY FS_AddElement
<1>3. d \in S => Cardinality(S \ {d}) = Cardinality(S) - 1
  BY FS_RemoveElement
<1>4. d \in S => Cardinality(S \ {d}) + 1 = Cardinality(S)
  BY <1>1, <1>3
<1>5. QED
  BY <1>2, <1>4

\* The requests in flight after a step of a delivery.
LEMMA SentChange ==
  ASSUME TypeOK, NEW d, NEW r, TaskStep(d, r)
  PROVE  /\ delivery[d].at # "sent" /\ r.at # "sent" => Cardinality(SentSet)' = Cardinality(SentSet)
         /\ delivery[d].at # "sent" /\ r.at = "sent" => Cardinality(SentSet)' = Cardinality(SentSet) + 1
         /\ delivery[d].at = "sent" /\ r.at # "sent" => Cardinality(SentSet)' + 1 = Cardinality(SentSet)
<1>0. /\ \A e \in Pairs : delivery'[e] # None <=> delivery[e] # None
      /\ \A e \in Pairs : e # d => delivery'[e] = delivery[e]
      /\ delivery'[d] = r /\ d \in Pairs /\ delivery[d] # None /\ r # None
  BY DeliveriesKept
<1>1. CASE delivery[d].at # "sent" /\ r.at # "sent"
  <2>1. SentSet' = SentSet
    BY <1>0, <1>1 DEF SentSet
  <2>2. QED
    BY <2>1, <1>1
<1>2. CASE delivery[d].at # "sent" /\ r.at = "sent"
  <2>1. SentSet' = SentSet \union {d} /\ d \notin SentSet
    BY <1>0, <1>2 DEF SentSet
  <2>2. QED
    BY <2>1, <1>2, PairsFinite, CountSteps DEF Countable
<1>3. CASE delivery[d].at = "sent" /\ r.at # "sent"
  <2>1. SentSet' = SentSet \ {d} /\ d \in SentSet
    BY <1>0, <1>3 DEF SentSet
  <2>2. QED
    BY <2>1, <1>3, PairsFinite, CountSteps DEF Countable
<1>4. QED
  BY <1>1, <1>2, <1>3

\* The deliveries of a subscription that are not over.
LEMMA OpenChange ==
  ASSUME TypeOK, NEW d, NEW r, TaskStep(d, r), delivery[d].at \notin {"done", "aborted"}, NEW s
  PROVE  /\ s # d[1] \/ r.at \notin {"done", "aborted"} =>
              Cardinality(OpenSet(s))' = Cardinality(OpenSet(s))
         /\ s = d[1] /\ r.at \in {"done", "aborted"} =>
              Cardinality(OpenSet(s))' + 1 = Cardinality(OpenSet(s))
<1>0. /\ \A e \in Pairs : delivery'[e] # None <=> delivery[e] # None
      /\ \A e \in Pairs : e # d => delivery'[e] = delivery[e]
      /\ delivery'[d] = r /\ d \in Pairs /\ delivery[d] # None /\ r # None
  BY DeliveriesKept
<1>1. CASE s # d[1] \/ r.at \notin {"done", "aborted"}
  <2>1. OpenSet(s)' = OpenSet(s)
    BY <1>0, <1>1 DEF OpenSet
  <2>2. QED
    BY <2>1, <1>1
<1>2. CASE s = d[1] /\ r.at \in {"done", "aborted"}
  <2>1. OpenSet(s)' = OpenSet(s) \ {d} /\ d \in OpenSet(s)
    BY <1>0, <1>2 DEF OpenSet
  <2>2. QED
    BY <2>1, <1>2, PairsFinite, CountSteps DEF Countable
<1>3. QED
  BY <1>1, <1>2

\* Nothing is taken, given back, started or ended.
LEMMA PermitsFrame ==
  ASSUME PermitsInv, UNCHANGED <<permits, slots>>, SentSet' = SentSet,
         \A s \in Subs : OpenSet(s)' = OpenSet(s) /\ (At(s, "spawn")' <=> At(s, "spawn"))
  PROVE  PermitsInv'
<1>1. PermitsKept'
  BY DEF PermitsInv, PermitsKept
<1>2. ASSUME NEW s \in Subs
      PROVE  SlotsKept(s)'
  <2>1. InHand(s)' = InHand(s)
    BY DEF InHand
  <2>2. QED
    BY <2>1 DEF PermitsInv, SlotsKept
<1>3. QED
  BY <1>1, <1>2 DEF PermitsInv

LEMMA PermitsStep == HookInv /\ PermitsInv /\ [Next]_vars => PermitsInv'
<1> SUFFICES ASSUME HookInv, PermitsInv, [Next]_vars
             PROVE  PermitsInv'
  OBVIOUS
<1> USE DEF hookVars, taskVars, countVars
<1>0. /\ TypeOK /\ AddsOwnTheirs /\ permits \in Nat /\ slots \in [Subs -> Nat]
      /\ listener \in [Subs -> Listeners] /\ handle \in Subs \union {None}
      /\ delivery \in [Pairs -> Tasks \union {None}]
  BY DEF HookInv, TypeOK
<1>1. ASSUME UNCHANGED <<permits, slots, delivery>>,
             \A s \in Subs : At(s, "spawn")' <=> At(s, "spawn")
      PROVE  PermitsInv'
  BY <1>1, PermitsFrame DEF SentSet, OpenSet
<1>2. ASSUME NEW c \in Callers, AddWebhook(c) \/ RemoveWebhook(c) \/ CallStep(c)
      PROVE  PermitsInv'
  <2>1. UNCHANGED <<permits, slots, delivery>>
    BY <1>2 DEF AddWebhook, RemoveWebhook, CallStep, AddConfig, AddStats, AddHandle, AddStart,
                RemoveHandle, RemoveStats
  <2>2. CASE AddStart(c)
    <3>1. calls[c].sub \in Subs /\ listener[calls[c].sub].at = "none"
      BY <2>2, <1>0 DEF AddStart, AddsOwnTheirs, Adding
    <3>2. PICK place \in {"gone", "recv"} : Go(calls[c].sub, place)
      BY <2>2 DEF AddStart, Go
    <3>3. listener'[calls[c].sub].at \in {"gone", "recv"}
          /\ \A s \in Subs : s # calls[c].sub => listener'[s] = listener[s]
      BY <3>1, <3>2, <1>0, GoEffect DEF Places
    <3>4. \A s \in Subs : At(s, "spawn")' <=> At(s, "spawn")
      BY <3>1, <3>3 DEF At
    <3>5. QED
      BY <2>1, <3>4, <1>1
  <2>3. CASE ~AddStart(c)
    <3>1. listener' = listener \/ StopListener(handle)
      BY <1>2, <2>3 DEF AddWebhook, RemoveWebhook, CallStep, AddConfig, AddStats, AddHandle,
                RemoveHandle, RemoveStats
    <3>2. \A s \in Subs : At(s, "spawn")' <=> At(s, "spawn")
      BY <3>1, <1>0, StopEffect DEF At
    <3>3. QED
      BY <2>1, <3>2, <1>1
  <2>4. QED
    BY <2>2, <2>3
<1>3. CASE ChangeConfig \/ Publish \/ UNCHANGED vars
  <2>1. UNCHANGED <<permits, slots, delivery, listener>>
    BY <1>3 DEF ChangeConfig, Publish, vars
  <2>2. QED
    BY <2>1, <1>1 DEF At
<1>4. CASE ShutdownBegins
  <2>1. UNCHANGED <<permits, slots, delivery>>
    BY <1>4 DEF ShutdownBegins
  <2>2. \A s \in Subs : At(s, "spawn")' <=> At(s, "spawn")
    BY <1>4, <1>0, BeginsEffect DEF At
  <2>3. QED
    BY <2>1, <2>2, <1>1
<1>5. CASE ShutdownDropsHandle
  <2>1. UNCHANGED <<permits, slots, delivery>> /\ StopListener(handle)
    BY <1>5 DEF ShutdownDropsHandle
  <2>2. \A s \in Subs : At(s, "spawn")' <=> At(s, "spawn")
    BY <2>1, <1>0, StopEffect DEF At
  <2>3. QED
    BY <2>1, <2>2, <1>1
<1>6. CASE ShutdownEnds
  <2>1. UNCHANGED <<permits, slots, listener>>
    BY <1>6 DEF ShutdownEnds
  <2>2. /\ \A d \in Pairs : delivery'[d] # None <=> delivery[d] # None
        /\ \A d \in Pairs : delivery[d] # None => delivery'[d].at = delivery[d].at
    BY <1>6, <1>0, EndsEffect DEF Deliveries, Pairs
  <2>3. SentSet' = SentSet /\ \A s \in Subs : OpenSet(s)' = OpenSet(s)
    BY <2>2 DEF SentSet, OpenSet
  <2>4. \A s \in Subs : At(s, "spawn")' <=> At(s, "spawn")
    BY <2>1 DEF At
  <2>5. QED
    BY <2>1, <2>3, <2>4, PermitsFrame
<1>7. ASSUME NEW s \in Subs, HearEvent(s) \/ HearLag(s) \/ CheckEvent(s) \/ ListenerEnds(s)
      PROVE  PermitsInv'
  <2>1. UNCHANGED <<permits, slots, delivery>>
    BY <1>7 DEF HearEvent, HearLag, CheckEvent, ListenerEnds
  <2>2. listener[s].at \in {"recv", "check", "slot"}
    BY <1>7 DEF HearEvent, HearLag, CheckEvent, ListenerEnds, At
  <2>3. listener' = listener \/ \E place \in {"recv", "check", "slot", "gone"} : Go(s, place)
    BY <1>7 DEF HearEvent, HearLag, CheckEvent, ListenerEnds
  <2>4. /\ listener'[s].at \in {"recv", "check", "slot", "gone"}
        /\ \A t \in Subs : t # s => listener'[t] = listener[t]
    BY <2>2, <2>3, <1>0, GoEffect DEF Places
  <2>5. \A t \in Subs : At(t, "spawn")' <=> At(t, "spawn")
    BY <2>2, <2>4 DEF At
  <2>6. QED
    BY <2>1, <2>5, <1>1
<1>8. ASSUME NEW s \in Subs, NEW t \in Subs, t # s, SlotsKept(t),
             slots'[t] = slots[t], listener'[t] = listener[t], OpenSet(t)' = OpenSet(t)
      PROVE  SlotsKept(t)'
  <2>1. InHand(t)' = InHand(t)
    BY <1>8 DEF InHand, At
  <2>2. QED
    BY <2>1, <1>8 DEF SlotsKept
<1>9. ASSUME NEW s \in Subs, TakeSlot(s)
      PROVE  PermitsInv'
  <2>1. At(s, "slot") /\ slots[s] > 0 /\ slots' = [slots EXCEPT ![s] = slots[s] - 1] /\ Go(s, "spawn")
        /\ UNCHANGED <<permits, delivery>>
    BY <1>9 DEF TakeSlot
  <2>2. /\ listener'[s].at = "spawn"
        /\ \A t \in Subs : t # s => listener'[t] = listener[t]
    BY <2>1, <1>0, GoEffect DEF Places
  <2>3. InHand(s) = 0 /\ InHand(s)' = 1
    BY <2>1, <2>2 DEF InHand, At
  <2>4. SentSet' = SentSet /\ \A t \in Subs : OpenSet(t)' = OpenSet(t)
    BY <2>1 DEF SentSet, OpenSet
  <2>5. PermitsKept'
    BY <2>1, <2>4 DEF PermitsInv, PermitsKept
  <2>6. SlotsKept(s)'
    <3>1. PICK n \in Nat : n = Cardinality(OpenSet(s)) /\ n = Cardinality(OpenSet(s))'
      BY <2>4, PairsFinite DEF Countable
    <3>2. slots[s] \in Nat /\ slots'[s] = slots[s] - 1 /\ slots[s] > 0
      BY <2>1, <1>0
    <3>3. slots[s] + n + 0 = MaxPending
      BY <3>1, <2>3 DEF PermitsInv, SlotsKept
    <3>4. slots'[s] + n + 1 = MaxPending
      BY <3>2, <3>3
    <3>5. QED
      BY <3>1, <3>4, <2>3 DEF SlotsKept
  <2>7. ASSUME NEW t \in Subs, t # s
        PROVE  SlotsKept(t)'
    <3>1. slots'[t] = slots[t]
      BY <2>1, <2>7, <1>0
    <3>2. QED
      BY <3>1, <2>2, <2>4, <2>7, <1>8 DEF PermitsInv
  <2>8. QED
    BY <2>5, <2>6, <2>7 DEF PermitsInv
<1>10. ASSUME NEW s \in Subs, SpawnDelivery(s)
       PROVE  PermitsInv'
  <2>1. At(s, "spawn") /\ Go(s, "recv") /\ permits' = permits
    BY <1>10 DEF SpawnDelivery
  <2>2. /\ listener'[s].at = "recv"
        /\ \A t \in Subs : t # s => listener'[t] = listener[t]
    BY <2>1, <1>0, GoEffect DEF Places
  <2>3. InHand(s) = 1 /\ InHand(s)' = 0
    BY <2>1, <2>2 DEF InHand, At
  <2>4. PICK n \in Nat : n = Cardinality(OpenSet(s))
    BY PairsFinite DEF Countable
  <2>5. slots[s] + n + 1 = MaxPending /\ slots[s] \in Nat
    BY <2>3, <2>4, <1>0 DEF PermitsInv, SlotsKept
  <2>6. CASE DeliveriesClosed
    <3>1. delivery' = delivery /\ slots' = [slots EXCEPT ![s] = slots[s] + 1]
      BY <1>10, <2>6 DEF SpawnDelivery
    <3>2. SentSet' = SentSet /\ \A t \in Subs : OpenSet(t)' = OpenSet(t)
      BY <3>1 DEF SentSet, OpenSet
    <3>3. slots'[s] + n + 0 = MaxPending
      BY <3>1, <2>5, <1>0
    <3>4. SlotsKept(s)'
      BY <3>2, <3>3, <2>3, <2>4 DEF SlotsKept
    <3>5. ASSUME NEW t \in Subs, t # s
          PROVE  SlotsKept(t)'
      <4>1. slots'[t] = slots[t]
        BY <3>1, <3>5, <1>0
      <4>2. QED
        BY <4>1, <2>2, <3>2, <3>5, <1>8 DEF PermitsInv
    <3>6. PermitsKept'
      BY <2>1, <3>2 DEF PermitsInv, PermitsKept
    <3>7. QED
      BY <3>4, <3>5, <3>6 DEF PermitsInv
  <2>7. CASE ~DeliveriesClosed
    <3>1. delivery' = [delivery EXCEPT ![<<s, Held(s)>>] = NewDelivery] /\ slots' = slots
      BY <1>10, <2>7 DEF SpawnDelivery
    <3>2. <<s, Held(s)>> \in Pairs /\ delivery[<<s, Held(s)>>] = None /\ NewDelivery \in Tasks
      BY <1>10, SpawnEffect
    <3>3. NewDelivery # None /\ NewDelivery.at = "waiting"
      BY <3>2, Constants DEF NewDelivery
    <3>4. /\ delivery'[<<s, Held(s)>>] = NewDelivery
          /\ \A e \in Pairs : e # <<s, Held(s)>> => delivery'[e] = delivery[e]
      BY <3>1, <3>2, <1>0
    <3>5. SentSet' = SentSet
      BY <3>2, <3>3, <3>4 DEF SentSet
    <3>6. /\ OpenSet(s)' = OpenSet(s) \union {<<s, Held(s)>>} /\ <<s, Held(s)>> \notin OpenSet(s)
          /\ \A t \in Subs : t # s => OpenSet(t)' = OpenSet(t)
      BY <3>2, <3>3, <3>4 DEF OpenSet
    <3>7. Cardinality(OpenSet(s))' = n + 1
      BY <3>6, <2>4, PairsFinite, CountSteps DEF Countable
    <3>8. slots'[s] + (n + 1) + 0 = MaxPending
      BY <3>1, <2>5
    <3>9. SlotsKept(s)'
      BY <3>7, <3>8, <2>3 DEF SlotsKept
    <3>10. ASSUME NEW t \in Subs, t # s
           PROVE  SlotsKept(t)'
      BY <3>1, <2>2, <3>6, <3>10, <1>8 DEF PermitsInv
    <3>11. PermitsKept'
      BY <2>1, <3>5 DEF PermitsInv, PermitsKept
    <3>12. QED
      BY <3>9, <3>10, <3>11 DEF PermitsInv
  <2>8. QED
    BY <2>6, <2>7
<1>11. ASSUME NEW d \in Pairs, DeliveryStep(d)
       PROVE  PermitsInv'
  <2>0. listener' = listener /\ d[1] \in Subs
    BY <1>11, <1>0, DeliveryFrame DEF Pairs
  <2>1. \A s : InHand(s)' = InHand(s)
    BY <2>0 DEF InHand, At
  <2>2. PICK m \in Nat, m2 \in Nat : m = Cardinality(SentSet) /\ m2 = Cardinality(SentSet)'
    BY PairsFinite, PairsFiniteNext DEF Countable
  <2>3. permits + m = MaxConcurrent
    BY <2>2 DEF PermitsInv, PermitsKept
  <2>4. ASSUME permits' + m2 = MaxConcurrent
        PROVE  PermitsKept'
    BY <2>2, <2>4 DEF PermitsKept
  <2>5. ASSUME NEW r, TaskStep(d, r), r.at \notin {"done", "aborted"},
               delivery[d].at \notin {"done", "aborted"}, slots' = slots
        PROVE  \A s \in Subs : SlotsKept(s)'
    <3>1. \A s : Cardinality(OpenSet(s))' = Cardinality(OpenSet(s))
      BY <2>5, <1>0, OpenChange
    <3>2. QED
      BY <3>1, <2>1, <2>5 DEF PermitsInv, SlotsKept
  <2>6. ASSUME NEW r, TaskStep(d, r), r.at \in {"done", "aborted"},
               delivery[d].at \notin {"done", "aborted"}, FreeSlot(d), NEW s \in Subs
        PROVE  SlotsKept(s)'
    <3>1. CASE s # d[1]
      <4>1. Cardinality(OpenSet(s))' = Cardinality(OpenSet(s))
        BY <3>1, <2>6, <1>0, OpenChange
      <4>2. slots'[s] = slots[s]
        BY <3>1, <2>6, <1>0 DEF FreeSlot
      <4>3. QED
        BY <4>1, <4>2, <2>1 DEF PermitsInv, SlotsKept
    <3>2. CASE s = d[1]
      <4>1. PICK n \in Nat, n2 \in Nat : n = Cardinality(OpenSet(s)) /\ n2 = Cardinality(OpenSet(s))'
        BY PairsFinite, PairsFiniteNext DEF Countable
      <4>2. n2 + 1 = n
        BY <3>2, <4>1, <2>6, <1>0, OpenChange
      <4>3. slots'[s] = slots[s] + 1 /\ slots[s] \in Nat
        BY <3>2, <2>6, <1>0 DEF FreeSlot
      <4>4. PICK k \in Nat : k = InHand(s)
        BY DEF InHand
      <4>5. slots[s] + n + k = MaxPending
        BY <4>1, <4>4 DEF PermitsInv, SlotsKept
      <4>6. slots'[s] + n2 + k = MaxPending
        BY <4>2, <4>3, <4>5
      <4>7. QED
        BY <4>1, <4>4, <4>6, <2>1 DEF SlotsKept
    <3>3. QED
      BY <3>1, <3>2
  <2>7. CASE SendRequest(d)
    <3>1. PICK r \in Tasks : TaskStep(d, r) /\ delivery[d].at = "waiting" /\ r.at = "sent"
      BY <2>7, <1>0, SendEffect
    <3>2. permits' = permits - 1 /\ slots' = slots /\ permits > 0
      BY <2>7 DEF SendRequest
    <3>3. m2 = m + 1
      BY <3>1, <2>2, <1>0, SentChange
    <3>4. permits' + m2 = MaxConcurrent
      BY <3>2, <3>3, <2>3, <1>0
    <3>5. QED
      BY <3>1, <3>2, <3>4, <2>4, <2>5 DEF PermitsInv
  <2>8. CASE GetAnswer(d)
    <3>1. PICK r \in Tasks : TaskStep(d, r) /\ delivery[d].at = "sent" /\ r.at \in {"outcome", "backoff"}
      BY <2>8, <1>0, AnswerEffect
    <3>2. permits' = permits + 1 /\ slots' = slots
      BY <2>8 DEF GetAnswer
    <3>3. m2 + 1 = m
      BY <3>1, <2>2, <1>0, SentChange
    <3>4. permits' + m2 = MaxConcurrent
      BY <3>2, <3>3, <2>3, <1>0
    <3>5. QED
      BY <3>1, <3>2, <3>4, <2>4, <2>5 DEF PermitsInv
  <2>9. CASE BackoffEnds(d)
    <3>1. d \in Deliveries /\ delivery[d].at = "backoff" /\ Moves(d, "waiting")
          /\ permits' = permits /\ slots' = slots
      BY <2>9 DEF BackoffEnds, Stands
    <3>2. PICK r \in Tasks : TaskStep(d, r) /\ r.at = "waiting"
      BY <3>1, <1>0, MoveEffect
    <3>3. m2 = m
      BY <3>1, <3>2, <2>2, <1>0, SentChange
    <3>4. permits' + m2 = MaxConcurrent
      BY <3>1, <3>3, <2>3
    <3>5. QED
      BY <3>1, <3>2, <3>4, <2>4, <2>5 DEF PermitsInv
  <2>10. CASE RecordOutcome(d)
    <3>1. d \in Deliveries /\ delivery[d].at = "outcome" /\ Moves(d, "done")
          /\ permits' = permits /\ FreeSlot(d)
      BY <2>10 DEF RecordOutcome, Stands
    <3>2. PICK r \in Tasks : TaskStep(d, r) /\ r.at = "done"
      BY <3>1, <1>0, MoveEffect
    <3>3. m2 = m
      BY <3>1, <3>2, <2>2, <1>0, SentChange
    <3>4. permits' + m2 = MaxConcurrent
      BY <3>1, <3>3, <2>3
    <3>5. QED
      BY <3>1, <3>2, <3>4, <2>4, <2>6 DEF PermitsInv
  <2>11. CASE DeliveryAborts(d)
    <3>1. d \in Deliveries /\ delivery[d].at \notin {"done", "aborted"} /\ Moves(d, "aborted")
          /\ FreeSlot(d) /\ permits' = IF delivery[d].at = "sent" THEN permits + 1 ELSE permits
      BY <2>11 DEF DeliveryAborts, Stands, Ended
    <3>2. PICK r \in Tasks : TaskStep(d, r) /\ r.at = "aborted"
      BY <3>1, <1>0, MoveEffect
    <3>3. IF delivery[d].at = "sent" THEN m2 + 1 = m ELSE m2 = m
      BY <3>1, <3>2, <2>2, <1>0, SentChange
    <3>4. permits' + m2 = MaxConcurrent
      BY <3>1, <3>3, <2>3, <1>0
    <3>5. QED
      BY <3>1, <3>2, <3>4, <2>4, <2>6 DEF PermitsInv
  <2>12. QED
    BY <1>11, <2>7, <2>8, <2>9, <2>10, <2>11 DEF DeliveryStep
<1>12. QED
  BY <1>2, <1>3, <1>4, <1>5, <1>6, <1>7, <1>9, <1>10, <1>11
     DEF Next, SystemStep, ListenerStep, ShutdownStep, Pairs

\* Both semaphores of the webhook manager get back what is taken from them,
\* however a delivery ends (PermitsConserved).
THEOREM WebhookPermitsAreConserved == Spec => []PermitsConserved
<1>1. Init => PermitsInv
  <2> SUFFICES ASSUME Init
               PROVE  PermitsInv
    OBVIOUS
  <2>1. permits = MaxConcurrent /\ slots = [s \in Subs |-> MaxPending]
        /\ delivery = [d \in Pairs |-> None] /\ listener = [s \in Subs |-> NoListener]
    BY DEF Init, Pairs
  <2>2. SentSet = {} /\ \A s \in Subs : OpenSet(s) = {} /\ InHand(s) = 0
    BY <2>1 DEF SentSet, OpenSet, InHand, At, NoListener
  <2>3. Cardinality(SentSet) = 0 /\ \A s \in Subs : Cardinality(OpenSet(s)) = 0
    BY <2>2, FS_EmptySet
  <2>4. QED
    BY <2>1, <2>2, <2>3, Constants DEF PermitsInv, PermitsKept, SlotsKept
<1>2. HookInv /\ PermitsInv => PermitsConserved
  <2> SUFFICES ASSUME HookInv, PermitsInv
               PROVE  PermitsConserved
    OBVIOUS
  <2>1. SentSet = {d \in Deliveries : delivery[d].at = "sent"}
    BY DEF SentSet, Deliveries, Pairs
  <2>2. \A s \in Subs : OpenSet(s) = {d \in Deliveries \ Ended : d[1] = s}
    BY DEF OpenSet, Deliveries, Ended, Pairs
  <2>3. BusTypeOK
    BY DEF HookInv, TypeOK
  <2>4. QED
    BY <2>1, <2>2, <2>3 DEF PermitsConserved, PermitsInv, PermitsKept, SlotsKept, InHand
<1>3. QED
  BY <1>1, <1>2, HookAlways, PermitsStep, PTL DEF Spec

-----------------------------------------------------------------------------
(* Every event is accounted for.                                           *)

LEMMA CountEffect ==
  ASSUME TypeOK, NEW f \in {"attempts", "ok", "bad", "dropped"}, NEW n \in Nat, CountIn(f, n)
  PROVE  /\ stats = None => stats' = None
         /\ stats # None =>
              /\ stats' # None /\ stats'[f] = stats[f] + n
              /\ \A g \in {"attempts", "ok", "bad", "dropped"} : g # f => stats'[g] = stats[g]
<1>1. CASE stats = None
  BY <1>1 DEF CountIn
<1>2. CASE stats # None
  <2>1. stats \in Counters
    BY <1>2 DEF TypeOK
  <2>2. stats[f] \in Nat /\ DOMAIN stats = {"attempts", "ok", "bad", "dropped"}
    BY <2>1 DEF Counters
  <2>3. PICK m \in Nat : m = stats[f] + n
    BY <2>2
  <2>4. stats' = [stats EXCEPT ![f] = m]
    BY <1>2, <2>3 DEF CountIn
  <2>5. stats'[f] = m /\ \A g \in {"attempts", "ok", "bad", "dropped"} : g # f => stats'[g] = stats[g]
    BY <2>2, <2>4
  <2>6. stats' \in Counters
    BY <2>1, <2>4 DEF Counters
  <2>7. stats' # None
    BY <2>6, Constants
  <2>8. QED
    BY <1>2, <2>3, <2>5, <2>7
<1>3. QED
  BY <1>1, <1>2

\* With one subscription there is one listener, and the deliveries are its.
LEMMA OnlyOne ==
  ASSUME HookInv
  PROVE  /\ subs \in Nat
         /\ subs = 0 => Deliveries = {}
         /\ subs = 1 => 1 \in Subs
         /\ subs = 1 => (\A s \in Subs : s # 1 => listener[s].at = "none")
         /\ subs = 1 => (\A d \in Deliveries : d[1] = 1)
         /\ subs = 1 /\ At(1, "none") => Deliveries = {}
         /\ subs = 0 => (\A s \in Subs : listener[s].at = "none")
<1>1. subs \in 0..MaxSubs /\ MaxSubs \in Nat /\ Subs = 1..MaxSubs
  BY Constants DEF HookInv, TypeOK, BusTypeOK, Subs
<1>2. \A s \in Subs : s > subs => listener[s].at = "none"
  BY DEF HookInv, AddsOwnTheirs
<1>3. \A s \in Subs : listener[s].at = "none" => \A e \in Events : delivery[<<s, e>>] = None
  BY DEF HookInv, ReadersFollow, Follows
<1>4. \A d \in Deliveries : d[1] \in Subs /\ listener[d[1]].at # "none"
  <2>1. ASSUME NEW d \in Deliveries
        PROVE  d[1] \in Subs /\ listener[d[1]].at # "none"
    <3>1. d \in Subs \X Events /\ delivery[d] # None
      BY DEF Deliveries
    <3>2. PICK s \in Subs, e \in Events : d = <<s, e>>
      BY <3>1
    <3>3. QED
      BY <3>1, <3>2, <1>3
  <2>2. QED
    BY <2>1
<1>5. subs = 0 => \A s \in Subs : listener[s].at = "none"
  BY <1>1, <1>2
<1>6. subs = 1 => 1 \in Subs /\ \A s \in Subs : s # 1 => listener[s].at = "none"
  BY <1>1, <1>2
<1>7. QED
  BY <1>1, <1>4, <1>5, <1>6 DEF At

LEMMA TriesStep == HookInv /\ TriesInv /\ [Next]_vars => TriesInv'
<1> SUFFICES ASSUME HookInv, TriesInv, [Next]_vars, NEW d \in Pairs, delivery'[d] # None
             PROVE  /\ delivery'[d].tries <= MaxAttempts
                    /\ delivery'[d].at \in {"waiting", "backoff"} => delivery'[d].tries < MaxAttempts
                    /\ stage' # "down" => ~delivery'[d].abort
  BY DEF TriesInv, Tries
<1> USE DEF hookVars, taskVars, countVars
<1>0. TypeOK /\ delivery \in [Pairs -> Tasks \union {None}] /\ MaxAttempts \in Nat \ {0}
  BY Constants DEF HookInv, TypeOK
<1>1. delivery[d] # None =>
        /\ delivery[d].tries <= MaxAttempts
        /\ delivery[d].at \in {"waiting", "backoff"} => delivery[d].tries < MaxAttempts
        /\ stage # "down" => ~delivery[d].abort
  BY DEF TriesInv, Tries
<1> DEFINE Goal == /\ delivery'[d].tries <= MaxAttempts
                   /\ delivery'[d].at \in {"waiting", "backoff"} => delivery'[d].tries < MaxAttempts
                   /\ stage' # "down" => ~delivery'[d].abort
<1>2. ASSUME delivery'[d] = delivery[d], stage' = stage \/ stage # "down"
      PROVE  Goal
  BY <1>1, <1>2
<1>3. ASSUME NEW c \in Callers, AddWebhook(c) \/ RemoveWebhook(c) \/ CallStep(c)
      PROVE  Goal
  <2>1. delivery' = delivery /\ stage' = stage
    BY <1>3 DEF AddWebhook, RemoveWebhook, CallStep, AddConfig, AddStats, AddHandle, AddStart,
                RemoveHandle, RemoveStats
  <2>2. QED
    BY <2>1, <1>2
<1>4. ASSUME ChangeConfig \/ Publish \/ ShutdownBegins \/ ShutdownDropsHandle \/ UNCHANGED vars
      PROVE  Goal
  <2>1. delivery' = delivery /\ (stage' = stage \/ stage # "down")
    BY <1>4 DEF ChangeConfig, Publish, ShutdownBegins, ShutdownDropsHandle, vars
  <2>2. QED
    BY <2>1, <1>2
<1>5. ASSUME ShutdownEnds
      PROVE  Goal
  <2>1. stage' = "down"
    BY <1>5 DEF ShutdownEnds
  <2>2. delivery[d] # None /\ d \in Deliveries
    BY <1>5, <1>0, EndsEffect DEF Deliveries, Pairs
  <2>3. delivery'[d].at = delivery[d].at /\ delivery'[d].tries = delivery[d].tries
    BY <1>5, <1>0, <2>2, EndsEffect
  <2>4. QED
    BY <2>1, <2>2, <2>3, <1>1
<1>6. ASSUME NEW s \in Subs, ListenerStep(s)
      PROVE  Goal
  <2>1. stage' = stage
    BY <1>6, ListenerFrame
  <2>2. CASE SpawnDelivery(s)
    <3>1. <<s, Held(s)>> \in Pairs /\ (delivery' = delivery
            \/ delivery' = [delivery EXCEPT ![<<s, Held(s)>>] = NewDelivery])
      BY <2>2, SpawnEffect
    <3>2. delivery'[d] = delivery[d] \/ delivery'[d] = NewDelivery
      BY <3>1, <1>0
    <3>3. CASE delivery'[d] = NewDelivery
      BY <3>3, <1>0 DEF NewDelivery
    <3>4. QED
      BY <2>1, <3>2, <3>3, <1>2
  <2>3. CASE ~SpawnDelivery(s)
    <3>1. delivery' = delivery
      BY <1>6, <2>3 DEF ListenerStep, HearEvent, HearLag, CheckEvent, TakeSlot, ListenerEnds
    <3>2. QED
      BY <3>1, <2>1, <1>2
  <2>4. QED
    BY <2>2, <2>3
<1>7. ASSUME NEW e \in Pairs, DeliveryStep(e), NEW r \in Tasks, TaskStep(e, r),
             r.tries \in Nat, r.tries <= MaxAttempts, r.abort = delivery[e].abort,
             r.at \in {"waiting", "backoff"} => r.tries < MaxAttempts
      PROVE  Goal
  <2>1. stage' = stage
    BY <1>7, <1>0, DeliveryFrame
  <2>2. delivery[d] # None /\ (d # e => delivery'[d] = delivery[d]) /\ delivery'[e] = r
    BY <1>7, <1>0, DeliveriesKept
  <2>3. CASE d # e
    BY <2>1, <2>2, <2>3, <1>2
  <2>4. CASE d = e
    BY <2>1, <2>2, <2>4, <1>1, <1>7
  <2>5. QED
    BY <2>3, <2>4
<1> HIDE DEF Goal
<1>8. ASSUME NEW e \in Pairs, DeliveryStep(e)
      PROVE  Goal
  <2>0. e \in Deliveries
    BY <1>8 DEF DeliveryStep, SendRequest, GetAnswer, BackoffEnds, RecordOutcome, DeliveryAborts, Stands
  <2>1. /\ delivery[e].tries \in Nat /\ delivery[e].tries <= MaxAttempts
        /\ delivery[e].at \in {"waiting", "backoff"} => delivery[e].tries < MaxAttempts
    BY <2>0, <1>0, <1>8, DeliveryFacts DEF TriesInv, Tries, Deliveries
  <2>2. CASE SendRequest(e)
    <3>1. PICK r \in Tasks : TaskStep(e, r) /\ delivery[e].at = "waiting" /\ r.at = "sent"
                             /\ r.tries = delivery[e].tries + 1 /\ r.abort = delivery[e].abort
      BY <2>2, <1>0, SendEffect
    <3>2. r.tries \in Nat /\ r.tries <= MaxAttempts
      BY <3>1, <2>1, <1>0
    <3>3. QED
      BY <3>1, <3>2, <1>7, <1>8
  <2>3. CASE GetAnswer(e)
    <3>1. PICK r \in Tasks : TaskStep(e, r) /\ r.at \in {"outcome", "backoff"}
                             /\ r.tries = delivery[e].tries /\ r.abort = delivery[e].abort
                             /\ (r.at = "backoff" => delivery[e].tries < MaxAttempts)
      BY <2>3, <1>0, AnswerEffect
    <3>2. QED
      BY <3>1, <2>1, <1>7, <1>8
  <2>4. CASE BackoffEnds(e)
    <3>1. delivery[e].at = "backoff" /\ Moves(e, "waiting")
      BY <2>4 DEF BackoffEnds, Stands
    <3>2. PICK r \in Tasks : TaskStep(e, r) /\ r.at = "waiting"
                             /\ r.tries = delivery[e].tries /\ r.abort = delivery[e].abort
      BY <3>1, <2>0, <1>0, MoveEffect
    <3>3. QED
      BY <3>1, <3>2, <2>1, <1>7, <1>8
  <2>5. CASE RecordOutcome(e) \/ DeliveryAborts(e)
    <3>1. \E place \in {"done", "aborted"} : Moves(e, place)
      BY <2>5 DEF RecordOutcome, DeliveryAborts
    <3>2. PICK r \in Tasks : TaskStep(e, r) /\ r.at \in {"done", "aborted"}
                             /\ r.tries = delivery[e].tries /\ r.abort = delivery[e].abort
      BY <3>1, <2>0, <1>0, MoveEffect
    <3>3. QED
      BY <3>2, <2>1, <1>7, <1>8
  <2>6. QED
    BY <1>8, <2>2, <2>3, <2>4, <2>5 DEF DeliveryStep
<1>9. Goal
  BY <1>3, <1>4, <1>5, <1>6, <1>8 DEF Next, SystemStep, ShutdownStep, Pairs
<1>10. QED
  BY <1>9 DEF Goal

LEMMA StatsStep == HookInv /\ StatsComeWithAdd /\ [Next]_vars => StatsComeWithAdd'
<1> SUFFICES ASSUME HookInv, StatsComeWithAdd, [Next]_vars
             PROVE  StatsComeWithAdd'
  OBVIOUS
<1> USE DEF hookVars, taskVars, countVars
<1>0. /\ TypeOK /\ AddsOwnTheirs /\ BusTypeOK /\ subs \in Nat /\ Len(log) \in Nat
      /\ listener \in [Subs -> Listeners] /\ calls \in [Callers -> Calls]
      /\ handle \in Subs \union {None} /\ ignored \in [Subs -> Nat]
      /\ cursor \in [Subs -> 0..(MaxEvents + 1)]
  BY DEF HookInv, TypeOK, BusTypeOK
<1>1. /\ subs = 0 => stats = None
      /\ subs = 1 => \A c \in Callers : Adding(c) /\ calls[c].at \in {"config", "stats"} => stats = None
      /\ subs = 1 /\ listener[1].at = "none" =>
           ignored[1] + 1 = cursor[1] /\ (stats # None => stats = NewStats)
  BY DEF StatsComeWithAdd, At
<1>2. ASSUME subs' = subs, stats' = stats \/ stats' = None,
             subs = 1 /\ listener'[1].at = "none" =>
               listener[1].at = "none" /\ ignored'[1] = ignored[1] /\ cursor'[1] = cursor[1],
             \A c \in Callers : Adding(c)' /\ calls'[c].at \in {"config", "stats"}
                => Adding(c) /\ calls[c].at \in {"config", "stats"}
      PROVE  StatsComeWithAdd'
  BY <1>1, <1>2 DEF StatsComeWithAdd, At
<1>3. ASSUME NEW c \in Callers, AddWebhook(c)
      PROVE  StatsComeWithAdd'
  <2>1. PICK cf \in Configs : Subscribe(cf.payload)
    BY <1>3 DEF AddWebhook
  <2>2. NextSub \in Subs /\ NextSub = subs + 1 /\ subs' = NextSub
        /\ cursor' = [cursor EXCEPT ![NextSub] = Len(log) + 1]
    BY <2>1, <1>0, SubscribeTyped
  <2>3. stats' = stats /\ ignored' = [ignored EXCEPT ![NextSub] = Len(log)]
    BY <1>3 DEF AddWebhook
  <2>4. subs' # 0 /\ (subs' = 1 => subs = 0 /\ NextSub = 1)
    BY <2>2, <1>0
  <2>5. subs' = 1 => stats' = None /\ ignored'[1] = Len(log) /\ cursor'[1] = Len(log) + 1
    BY <2>2, <2>3, <2>4, <1>0, <1>1
  <2>6. QED
    BY <2>4, <2>5 DEF StatsComeWithAdd
<1>4. ASSUME NEW c \in Callers, AddConfig(c)
      PROVE  StatsComeWithAdd'
  <2>1. calls' = [calls EXCEPT ![c].at = "stats"] /\ Adding(c) /\ calls[c].at = "config"
        /\ UNCHANGED <<subs, cursor, stats, listener, ignored>>
    BY <1>4 DEF AddConfig, Adding, busVars
  <2>2. \A b \in Callers : calls'[b].op = calls[b].op /\ (b # c => calls'[b] = calls[b])
    BY <2>1, <1>0, CallEffect
  <2>3. QED
    BY <2>1, <2>2, <1>2 DEF Adding
<1>5. ASSUME NEW c \in Callers, AddStats(c)
      PROVE  StatsComeWithAdd'
  <2>1. calls' = [calls EXCEPT ![c].at = "handle"] /\ Adding(c)
        /\ UNCHANGED <<subs, cursor, listener, ignored>> /\ stats' = NewStats
    BY <1>5 DEF AddStats, Adding, busVars
  <2>2. calls'[c].at = "handle" /\ \A b \in Callers : /\ calls'[b].op = calls[b].op
                                                      /\ b # c => calls'[b] = calls[b]
    BY <2>1, <1>0, CallEffect
  <2>3. \A b \in Callers : Adding(b) => calls[b].sub \in Nat \ {0} /\ calls[b].sub <= subs
    BY <1>0, Constants DEF AddsOwnTheirs
  <2>4. subs # 0
    <3>1. calls[c].sub \in Nat \ {0} /\ calls[c].sub <= subs
      BY <2>1, <2>3
    <3>2. subs \in Nat
      BY <1>0
    <3> QED BY ONLY <3>1, <3>2
  <2>5. subs = 1 => \A b \in Callers : Adding(b) => calls[b].sub = 1
    BY <2>3
  <2>6. subs = 1 => \A b \in Callers : Adding(b) => b = c
    BY <2>1, <2>5, <1>0 DEF AddsOwnTheirs
  <2>7. subs = 1 => \A b \in Callers : ~(Adding(b)' /\ calls'[b].at \in {"config", "stats"})
    BY <2>2, <2>6 DEF Adding
  <2>8. QED
    BY <2>1, <2>4, <2>7, <1>1 DEF StatsComeWithAdd, At
<1>6. ASSUME NEW c \in Callers, AddHandle(c) \/ RemoveHandle(c)
      PROVE  StatsComeWithAdd'
  <2>1. \/ Adding(c) /\ calls' = [calls EXCEPT ![c].at = "start"]
        \/ ~Adding(c) /\ calls' = [calls EXCEPT ![c].at = "stats"]
    BY <1>6 DEF AddHandle, RemoveHandle, Adding
  <2>2. UNCHANGED <<subs, cursor, stats, ignored>> /\ StopListener(handle)
    BY <1>6 DEF AddHandle, RemoveHandle
  <2>3. \A b \in Callers : /\ calls'[b].op = calls[b].op
                           /\ b # c => calls'[b] = calls[b]
    BY <2>1, <1>0, CallEffect
  <2>4. Adding(c) => calls'[c].at = "start"
    BY <2>1, <1>0, CallEffect
  <2>5. \A b \in Callers : Adding(b)' /\ calls'[b].at \in {"config", "stats"}
          => Adding(b) /\ calls[b].at \in {"config", "stats"}
    BY <2>3, <2>4 DEF Adding
  <2>6. \A s \in Subs : listener'[s].at = listener[s].at
    BY <2>2, <1>0, StopEffect
  <2>7. subs = 1 => 1 \in Subs
    BY OnlyOne
  <2>8. QED
    BY <2>2, <2>5, <2>6, <2>7, <1>2
<1>7. ASSUME NEW c \in Callers, AddStart(c)
      PROVE  StatsComeWithAdd'
  <2>1. calls' = [calls EXCEPT ![c] = Idle] /\ UNCHANGED <<subs, stats, ignored>>
        /\ calls[c].sub \in Subs
    BY <1>7, <1>0 DEF AddStart, DropSubscription, busVars, AddsOwnTheirs, Adding
  <2>2. calls'[c].op = "idle" /\ \A b \in Callers : b # c => calls'[b] = calls[b]
    BY <2>1, <1>0, CallReplaced, IdleIsCall
  <2>3. PICK place \in {"gone", "recv"} : Go(calls[c].sub, place)
    BY <1>7 DEF AddStart, Go
  <2>4. listener'[calls[c].sub].at # "none"
        /\ \A s \in Subs : s # calls[c].sub => listener'[s] = listener[s]
    BY <2>1, <2>3, <1>0, GoEffect DEF Places
  <2>5. \A s \in Subs : s # calls[c].sub => cursor'[s] = cursor[s]
    BY <1>7, <2>1, <1>0 DEF AddStart, DropSubscription, busVars
  <2>6. subs = 1 => 1 \in Subs
    BY OnlyOne
  <2>7. QED
    BY <2>1, <2>2, <2>4, <2>5, <2>6, <1>2 DEF Adding
<1>8. ASSUME NEW c \in Callers, RemoveWebhook(c) \/ RemoveStats(c)
      PROVE  StatsComeWithAdd'
  <2>1. UNCHANGED <<subs, cursor, listener, ignored>> /\ (stats' = stats \/ stats' = None)
    BY <1>8 DEF RemoveWebhook, RemoveStats, busVars
  <2>2. calls'[c].op # "add" /\ \A b \in Callers : b # c => calls'[b] = calls[b]
    BY <1>8, <1>0, CallReplaced, IdleIsCall DEF RemoveWebhook, RemoveStats
  <2>3. QED
    BY <2>1, <2>2, <1>2 DEF Adding
<1>9. CASE ChangeConfig \/ Publish \/ ShutdownEnds \/ UNCHANGED vars
  <2>1. UNCHANGED <<subs, cursor, listener, ignored, stats, calls>>
    BY <1>9 DEF ChangeConfig, Publish, PublishEvent, ShutdownEnds, vars, busVars
  <2>2. QED
    BY <2>1, <1>2 DEF Adding
<1>10. CASE ShutdownBegins
  <2>1. UNCHANGED <<subs, cursor, ignored, stats, calls>>
    BY <1>10 DEF ShutdownBegins, busVars
  <2>2. subs = 1 => listener'[1].at = listener[1].at
    BY <1>10, <1>0, BeginsEffect, OnlyOne
  <2>3. QED
    BY <2>1, <2>2, <1>2 DEF Adding
<1>11. CASE ShutdownDropsHandle
  <2>1. UNCHANGED <<subs, cursor, ignored, stats, calls>> /\ StopListener(handle)
    BY <1>11 DEF ShutdownDropsHandle
  <2>2. subs = 1 => listener'[1].at = listener[1].at
    BY <2>1, <1>0, StopEffect, OnlyOne
  <2>3. QED
    BY <2>1, <2>2, <1>2 DEF Adding
<1>12. ASSUME NEW s \in Subs, ListenerStep(s)
       PROVE  StatsComeWithAdd'
  <2>1. UNCHANGED <<subs, calls>> /\ listener[s].at # "none" /\ listener'[s].at # "none"
    BY <1>12, ListenerFrame DEF Running
  <2>2. subs # 0 /\ (subs = 1 => s = 1)
    BY <2>1, OnlyOne
  <2>3. stats = None => stats' = None
    <3>1. CASE HearLag(s)
      BY <3>1 DEF HearLag, CountIn
    <3>2. CASE ~HearLag(s)
      BY <1>12, <3>2 DEF ListenerStep, HearEvent, CheckEvent, TakeSlot, SpawnDelivery, ListenerEnds
    <3>3. QED
      BY <3>1, <3>2
  <2>4. QED
    BY <2>1, <2>2, <2>3, <1>1 DEF StatsComeWithAdd, At, Adding
<1>13. ASSUME NEW d \in Pairs, DeliveryStep(d)
       PROVE  StatsComeWithAdd'
  <2>1. UNCHANGED <<subs, cursor, listener, ignored, calls>>
    BY <1>13, <1>0, DeliveryFrame DEF busVars
  <2>2. d \in Deliveries
    BY <1>13 DEF DeliveryStep, SendRequest, GetAnswer, BackoffEnds, RecordOutcome, DeliveryAborts, Stands
  <2>3. subs # 0 /\ (subs = 1 => listener[1].at # "none")
    BY <2>2, OnlyOne DEF At
  <2>4. stats = None => stats' = None
    BY <1>13 DEF DeliveryStep, SendRequest, GetAnswer, BackoffEnds, RecordOutcome, DeliveryAborts, CountIn
  <2>5. QED
    BY <2>1, <2>3, <2>4, <1>1 DEF StatsComeWithAdd, At, Adding
<1>14. QED
  BY <1>3, <1>4, <1>5, <1>6, <1>7, <1>8, <1>9, <1>10, <1>11, <1>12, <1>13
     DEF Next, SystemStep, CallStep, ShutdownStep, Pairs

Accountable ==
  /\ IsFiniteSet(Deliveries) /\ Cardinality(Deliveries) \in Nat
  /\ IsFiniteSet(Ended) /\ Cardinality(Ended) \in Nat
  /\ IsFiniteSet(TriedSet) /\ Cardinality(TriedSet) \in Nat

LEMMA AccountsFinite == Accountable
<1>1. IsFiniteSet(Pairs)
  BY PairsFinite DEF Countable
<1>2. IsFiniteSet(1..MaxAttempts)
  BY Constants, FS_Interval
<1>3. IsFiniteSet(Pairs \X (1..MaxAttempts))
  BY <1>1, <1>2, FS_Product
<1>4. Deliveries \subseteq Pairs /\ Ended \subseteq Pairs /\ TriedSet \subseteq Pairs \X (1..MaxAttempts)
  BY DEF Deliveries, Ended, Pairs, TriedSet
<1>5. QED
  BY <1>1, <1>3, <1>4, FS_Subset, FS_CardinalityType DEF Accountable

LEMMA AccountsFiniteNext == Accountable'
BY AccountsFinite, PTL

\* A delivery that is attempted, or that ends, is counted once more.
LEMMA TriedChange ==
  ASSUME TypeOK, NEW d, NEW r, TaskStep(d, r)
  PROVE  /\ Deliveries' = Deliveries
         /\ r.tries = delivery[d].tries => Cardinality(TriedSet)' = Cardinality(TriedSet)
         /\ r.tries = delivery[d].tries + 1 /\ r.tries <= MaxAttempts =>
              Cardinality(TriedSet)' = Cardinality(TriedSet) + 1
<1>0. /\ \A e \in Pairs : delivery'[e] # None <=> delivery[e] # None
      /\ \A e \in Pairs : e # d => delivery'[e] = delivery[e]
      /\ delivery'[d] = r /\ d \in Pairs /\ delivery[d] # None /\ r # None
  BY DeliveriesKept
<1>1. Deliveries' = Deliveries
  BY <1>0 DEF Deliveries, Pairs
<1>2. CASE r.tries = delivery[d].tries
  <2>1. TriedSet' = TriedSet
    BY <1>0, <1>2 DEF TriedSet
  <2>2. delivery[d].tries \in Nat
    BY <1>0, DeliveryFacts DEF Deliveries, Pairs
  <2>3. QED
    BY <1>1, <1>2, <2>1, <2>2
<1>3. CASE r.tries = delivery[d].tries + 1 /\ r.tries <= MaxAttempts
  <2>1. PICK n \in Nat : n = delivery[d].tries
    BY <1>0, DeliveryFacts DEF Deliveries, Pairs
  <2>2. n + 1 \in 1..MaxAttempts /\ r.tries = n + 1
    BY <1>3, <2>1, Constants
  <2>3. <<d, n + 1>> \in Pairs \X (1..MaxAttempts) /\ <<d, n + 1>> \notin TriedSet
    BY <2>1, <2>2, <1>0 DEF TriedSet
  <2>4. ASSUME NEW p \in Pairs \X (1..MaxAttempts)
        PROVE  p \in TriedSet' <=> p \in TriedSet \union {<<d, n + 1>>}
    <3>1. p = <<p[1], p[2]>> /\ p[1] \in Pairs /\ p[2] \in 1..MaxAttempts /\ p[2] \in Nat
      BY <2>4
    <3>2. CASE p[1] # d
      <4>1. delivery'[p[1]] = delivery[p[1]] /\ p # <<d, n + 1>>
        BY <3>1, <3>2, <1>0
      <4>2. QED
        BY <4>1, <2>4 DEF TriedSet
    <3>3. CASE p[1] = d
      <4>1. p \in TriedSet <=> p[2] <= n
        BY <3>3, <2>1, <2>4, <1>0 DEF TriedSet
      <4>2. p \in TriedSet' <=> p[2] <= n + 1
        BY <3>3, <2>2, <2>4, <1>0 DEF TriedSet
      <4>3. p = <<d, n + 1>> <=> p[2] = n + 1
        BY <3>1, <3>3
      <4>4. p[2] <= n + 1 <=> p[2] <= n \/ p[2] = n + 1
        BY <3>1
      <4>5. QED
        BY <4>1, <4>2, <4>3, <4>4
    <3>4. QED
      BY <3>2, <3>3
  <2>5. TriedSet' \subseteq Pairs \X (1..MaxAttempts) /\ TriedSet \subseteq Pairs \X (1..MaxAttempts)
    BY DEF TriedSet
  <2>6. TriedSet' = TriedSet \union {<<d, n + 1>>}
    BY <2>3, <2>4, <2>5
  <2>7. Cardinality(TriedSet)' = Cardinality(TriedSet) + 1
    BY <2>3, <2>6, AccountsFinite, CountSteps DEF Accountable
  <2>8. QED
    BY <1>1, <1>3, <2>1, <2>2, <2>7
<1>4. QED
  BY <1>1, <1>2, <1>3

LEMMA EndedChange ==
  ASSUME TypeOK, NEW d, NEW r, TaskStep(d, r), delivery[d].at \notin {"done", "aborted"}
  PROVE  /\ r.at \notin {"done", "aborted"} => Cardinality(Ended)' = Cardinality(Ended)
         /\ r.at \in {"done", "aborted"} => Cardinality(Ended)' = Cardinality(Ended) + 1
<1>0. /\ \A e \in Pairs : delivery'[e] # None <=> delivery[e] # None
      /\ \A e \in Pairs : e # d => delivery'[e] = delivery[e]
      /\ delivery'[d] = r /\ d \in Pairs /\ delivery[d] # None /\ r # None
  BY DeliveriesKept
<1>1. \A e : /\ e \in Ended <=> e \in Pairs /\ delivery[e] # None /\ delivery[e].at \in {"done", "aborted"}
             /\ e \in Ended' <=> e \in Pairs /\ delivery'[e] # None /\ delivery'[e].at \in {"done", "aborted"}
  BY DEF Ended, Deliveries, Pairs
<1>2. CASE r.at \notin {"done", "aborted"}
  <2>1. Ended' = Ended
    BY <1>0, <1>1, <1>2
  <2>2. QED
    BY <2>1, <1>2
<1>3. CASE r.at \in {"done", "aborted"}
  <2>1. Ended' = Ended \union {d} /\ d \notin Ended
    BY <1>0, <1>1, <1>3
  <2>2. QED
    BY <2>1, <1>3, AccountsFinite, CountSteps DEF Accountable
<1>4. QED
  BY <1>2, <1>3

\* A new delivery has neither been attempted nor ended.
LEMMA SpawnCounts ==
  ASSUME HookInv, NEW s \in Subs, SpawnDelivery(s), ~DeliveriesClosed
  PROVE  /\ Cardinality(Deliveries)' = Cardinality(Deliveries) + 1
         /\ Ended' = Ended /\ TriedSet' = TriedSet /\ SentSet' = SentSet
<1>0. TypeOK /\ delivery \in [Pairs -> Tasks \union {None}]
  BY DEF HookInv, TypeOK
<1> DEFINE d == <<s, Held(s)>>
<1>1. delivery' = [delivery EXCEPT ![d] = NewDelivery] /\ d \in Pairs /\ delivery[d] = None
      /\ NewDelivery \in Tasks
  BY SpawnEffect
<1>2. NewDelivery # None /\ NewDelivery.at = "waiting" /\ NewDelivery.tries = 0
  BY <1>1, Constants DEF NewDelivery
<1> HIDE DEF d
<1>3. delivery'[d] = NewDelivery /\ \A e \in Pairs : e # d => delivery'[e] = delivery[e]
  BY <1>0, <1>1
<1>4. Deliveries' = Deliveries \union {d} /\ d \notin Deliveries
  BY <1>1, <1>2, <1>3 DEF Deliveries, Pairs
<1>5. SentSet' = SentSet
  BY <1>1, <1>2, <1>3 DEF SentSet
<1>6. Ended' = Ended
  <2>1. \A e : /\ e \in Ended <=> e \in Pairs /\ delivery[e] # None /\ delivery[e].at \in {"done", "aborted"}
               /\ e \in Ended' <=> e \in Pairs /\ delivery'[e] # None /\ delivery'[e].at \in {"done", "aborted"}
    BY DEF Ended, Deliveries, Pairs
  <2>2. QED
    BY <2>1, <1>1, <1>2, <1>3
<1>7. TriedSet' = TriedSet
  <2>1. ASSUME NEW p \in Pairs \X (1..MaxAttempts)
        PROVE  p \in TriedSet' <=> p \in TriedSet
    <3>1. p[1] \in Pairs /\ p[2] \in Nat /\ p[2] > 0
      BY Constants
    <3>2. CASE p[1] = d
      BY <3>1, <3>2, <1>1, <1>2, <1>3 DEF TriedSet
    <3>3. CASE p[1] # d
      BY <3>1, <3>3, <1>3 DEF TriedSet
    <3>4. QED
      BY <3>2, <3>3
  <2>2. QED
    BY <2>1 DEF TriedSet
<1>8. QED
  BY <1>4, <1>5, <1>6, <1>7, AccountsFinite, CountSteps DEF Accountable

LEMMA AccountStep ==
  HookInv /\ AccountInv /\ [Next]_vars => AccountInv'
<1> SUFFICES ASSUME HookInv, AccountInv, [Next]_vars, subs' = 1, stats' # None, stage' = "up"
             PROVE  ReadIsKnown' /\ OutcomesCounted' /\ AttemptsCounted'
  BY TriesStep, StatsStep DEF AccountInv
<1> USE DEF hookVars, taskVars, countVars
<1> DEFINE Goal == ReadIsKnown' /\ OutcomesCounted' /\ AttemptsCounted'
<1>0. /\ TypeOK /\ AddsOwnTheirs /\ BusTypeOK /\ subs \in Nat /\ Len(log) \in Nat
      /\ listener \in [Subs -> Listeners] /\ calls \in [Callers -> Calls]
      /\ handle \in Subs \union {None} /\ ignored \in [Subs -> Nat]
      /\ cursor \in [Subs -> 0..(MaxEvents + 1)] /\ StatsComeWithAdd /\ TriesInv
  BY DEF HookInv, TypeOK, BusTypeOK, AccountInv
<1>1. stage = "up"
  BY NeverUpAgain
<1>2. PICK n \in Nat, n2 \in Nat : n = Cardinality(Deliveries) /\ n2 = Cardinality(Deliveries)'
  BY AccountsFinite, AccountsFiniteNext DEF Accountable
<1>3. PICK e \in Nat, e2 \in Nat : e = Cardinality(Ended) /\ e2 = Cardinality(Ended)'
  BY AccountsFinite, AccountsFiniteNext DEF Accountable
<1>4. PICK k \in Nat, k2 \in Nat : k = Cardinality(TriedSet) /\ k2 = Cardinality(TriedSet)'
  BY AccountsFinite, AccountsFiniteNext DEF Accountable
<1>5. PICK m \in Nat, m2 \in Nat : m = Cardinality(SentSet) /\ m2 = Cardinality(SentSet)'
  BY PairsFinite, PairsFiniteNext DEF Countable
<1>6. PICK h \in Nat, h2 \in Nat : h = HeldCount /\ h2 = HeldCount'
  BY DEF HeldCount
<1>7. ASSUME (1 \in Running)' => n2 + stats'.dropped + ignored'[1] + h2 + 1 = cursor'[1],
             stats'.ok + stats'.bad = e2, k2 = stats'.attempts + m2
      PROVE  Goal
  BY <1>7, <1>2, <1>3, <1>4, <1>5, <1>6 DEF ReadIsKnown, OutcomesCounted, AttemptsCounted
<1>8. ASSUME subs = 1, stats # None
      PROVE  /\ 1 \in Running => n + stats.dropped + ignored[1] + h + 1 = cursor[1]
             /\ stats.ok + stats.bad = e /\ k = stats.attempts + m
             /\ stats.dropped \in Nat /\ stats.ok \in Nat /\ stats.bad \in Nat /\ stats.attempts \in Nat
             /\ 1 \in Subs /\ cursor[1] \in Nat /\ ignored[1] \in Nat
             /\ \A s \in Subs : listener[s].at # "none" => s = 1
  <2>1. ReadIsKnown /\ OutcomesCounted /\ AttemptsCounted
    BY <1>8, <1>1 DEF AccountInv
  <2>2. stats \in Counters
    BY <1>8, <1>0 DEF TypeOK
  <2>3. stats.dropped \in Nat /\ stats.ok \in Nat /\ stats.bad \in Nat /\ stats.attempts \in Nat
    BY <2>2 DEF Counters
  <2>4. 1 \in Subs /\ \A s \in Subs : listener[s].at # "none" => s = 1
    BY <1>8, OnlyOne
  <2>5. cursor[1] \in Nat /\ ignored[1] \in Nat
    BY <2>4, <1>0
  <2>6. QED
    BY <2>1, <2>3, <2>4, <2>5, <1>2, <1>3, <1>4, <1>5, <1>6
       DEF ReadIsKnown, OutcomesCounted, AttemptsCounted
<1>9. ASSUME delivery' = delivery
      PROVE  n2 = n /\ e2 = e /\ k2 = k /\ m2 = m
  BY <1>9, <1>2, <1>3, <1>4, <1>5 DEF Deliveries, Ended, TriedSet, SentSet
<1>10. ASSUME subs' = subs, stats' = stats, delivery' = delivery,
              (1 \in Running)' => 1 \in Running /\ h2 = h /\ ignored'[1] = ignored[1] /\ cursor'[1] = cursor[1]
       PROVE  Goal
  <2>1. n2 = n /\ e2 = e /\ k2 = k /\ m2 = m
    BY <1>9, <1>10
  <2>2. /\ 1 \in Running => n + stats.dropped + ignored[1] + h + 1 = cursor[1]
        /\ stats.ok + stats.bad = e /\ k = stats.attempts + m
    BY <1>8, <1>10
  <2>3. QED
    BY <1>7, <1>10, <2>1, <2>2
<1>11. ASSUME subs' = subs, stats' = stats, delivery' = delivery, 1 \in Subs,
              listener'[1].at = listener[1].at, ignored'[1] = ignored[1], cursor'[1] = cursor[1]
       PROVE  Goal
  <2>1. (1 \in Running)' => 1 \in Running
    BY <1>11 DEF Running
  <2>2. h2 = h
    BY <1>11, <1>6 DEF HeldCount, Holding
  <2>3. QED
    BY <2>1, <2>2, <1>10, <1>11
<1>12. subs = 1 => 1 \in Subs
  BY OnlyOne
<1>13. ASSUME NEW c \in Callers, AddWebhook(c)
       PROVE  FALSE
  <2>1. PICK cf \in Configs : Subscribe(cf.payload)
    BY <1>13 DEF AddWebhook
  <2>2. subs' = subs + 1
    BY <2>1, <1>0, SubscribeTyped
  <2>3. subs = 0 /\ stats' = stats
    BY <1>13, <2>2, <1>0 DEF AddWebhook
  <2>4. QED
    BY <2>3, <1>0 DEF StatsComeWithAdd
<1>14. ASSUME NEW c \in Callers, AddStats(c)
       PROVE  Goal
  <2>1. Adding(c) /\ stats' = NewStats /\ UNCHANGED <<subs, listener, delivery>>
    BY <1>14 DEF AddStats, Adding, busVars
  <2>2. listener[calls[c].sub].at = "none" /\ calls[c].sub \in Nat \ {0} /\ calls[c].sub <= 1
    BY <2>1, <1>0, Constants DEF AddsOwnTheirs
  <2>3. calls[c].sub = 1
    BY <2>2
  <2>4. At(1, "none") /\ subs = 1
    BY <2>1, <2>2, <2>3 DEF At
  <2>5. Deliveries = {}
    BY <2>4, OnlyOne
  <2>6. Deliveries = {} /\ Ended = {} /\ TriedSet = {} /\ SentSet = {}
    <3>1. \A d \in Pairs : delivery[d] = None
      BY <2>5 DEF Deliveries, Pairs
    <3>2. QED
      BY <3>1, <2>5 DEF Ended, TriedSet, SentSet
  <2>7. e2 = 0 /\ k2 = 0 /\ m2 = 0
    BY <2>1, <2>6, <1>3, <1>4, <1>5, <1>9, FS_EmptySet
  <2>8. ~(1 \in Running)'
    BY <2>1, <2>4 DEF Running, At
  <2>9. stats'.ok = 0 /\ stats'.bad = 0 /\ stats'.attempts = 0
    BY <2>1 DEF NewStats
  <2>10. QED
    BY <2>7, <2>8, <2>9, <1>7
<1>15. ASSUME NEW c \in Callers, AddConfig(c) \/ AddHandle(c) \/ RemoveWebhook(c) \/ RemoveHandle(c)
       PROVE  Goal
  <2>1. UNCHANGED <<subs, cursor, stats, delivery, ignored>> /\ (listener' = listener \/ StopListener(handle))
    BY <1>15 DEF AddConfig, AddHandle, RemoveWebhook, RemoveHandle, busVars
  <2>2. \A s \in Subs : listener'[s].at = listener[s].at
    BY <2>1, <1>0, StopEffect
  <2>3. QED
    BY <2>1, <2>2, <1>11, <1>12
<1>16. ASSUME NEW c \in Callers, RemoveStats(c)
       PROVE  FALSE
  BY <1>16 DEF RemoveStats
<1>17. ASSUME NEW c \in Callers, AddStart(c)
       PROVE  Goal
  <2>1. Adding(c) /\ UNCHANGED <<subs, cursor, stats, delivery, ignored>>
        /\ listener' = [listener EXCEPT ![calls[c].sub].at = "recv"]
    BY <1>17, <1>1 DEF AddStart, Adding, ListenersClosed, busVars
  <2>2. listener[calls[c].sub].at = "none" /\ calls[c].sub \in Nat \ {0} /\ calls[c].sub <= 1
    BY <2>1, <1>0, Constants DEF AddsOwnTheirs
  <2>3. calls[c].sub = 1 /\ 1 \in Subs /\ subs = 1
    BY <2>1, <2>2, <1>12
  <2>4. Go(1, "recv")
    BY <2>1, <2>3 DEF Go
  <2>5. listener'[1].at = "recv"
    BY <2>3, <2>4, <1>0, GoEffect DEF Places
  <2>6. h2 = 0
    BY <2>5, <1>6 DEF HeldCount, Holding
  <2>7. At(1, "none")
    BY <2>2, <2>3 DEF At
  <2>8. ignored[1] + 1 = cursor[1] /\ stats = NewStats
    BY <2>1, <2>3, <2>7, <1>0 DEF StatsComeWithAdd
  <2>9. n2 = 0
    BY <2>1, <2>3, <2>7, <1>2, <1>9, OnlyOne, FS_EmptySet
  <2>10. stats'.dropped = 0
    BY <2>1, <2>8 DEF NewStats
  <2>11. ignored[1] \in Nat
    BY <2>3, <1>0
  <2>12. n2 + stats'.dropped + ignored'[1] + h2 + 1 = cursor'[1]
    BY <2>1, <2>6, <2>8, <2>9, <2>10, <2>11
  <2>13. e2 = e /\ k2 = k /\ m2 = m
    BY <2>1, <1>9
  <2>14. stats'.ok + stats'.bad = e2 /\ k2 = stats'.attempts + m2
    BY <2>1, <2>3, <2>13, <1>8
  <2>15. QED
    BY <2>12, <2>14, <1>7
<1>18. ASSUME ChangeConfig \/ Publish \/ UNCHANGED vars
       PROVE  Goal
  <2>1. UNCHANGED <<subs, cursor, stats, delivery, ignored, listener>>
    BY <1>18 DEF ChangeConfig, Publish, PublishEvent, vars, busVars
  <2>2. QED
    BY <2>1, <1>11, <1>12
<1>19. ASSUME ShutdownBegins \/ ShutdownStep
       PROVE  FALSE
  BY <1>19 DEF ShutdownBegins, ShutdownStep, ShutdownDropsHandle, ShutdownEnds
<1>20. ASSUME NEW s \in Subs, ListenerStep(s)
       PROVE  s = 1 /\ subs = 1 /\ stats # None /\ listener[1].at # "none"
  <2>1. subs' = subs /\ listener[s].at # "none"
    BY <1>20, ListenerFrame DEF Running
  <2>2. stats = None => stats' = None
    <3>1. CASE HearLag(s)
      BY <3>1 DEF HearLag, CountIn
    <3>2. CASE ~HearLag(s)
      BY <1>20, <3>2 DEF ListenerStep, HearEvent, CheckEvent, TakeSlot, SpawnDelivery, ListenerEnds
    <3>3. QED
      BY <3>1, <3>2
  <2>3. QED
    BY <2>1, <2>2, <1>8
<1>21. ASSUME HearEvent(1), 1 \in Subs, subs = 1, stats # None
       PROVE  Goal
  <2>1. listener[1].at = "recv" /\ Go(1, "check") /\ cursor' = [cursor EXCEPT ![1] = cursor[1] + 1]
        /\ UNCHANGED <<stats, delivery, ignored>>
    BY <1>21 DEF HearEvent, At, Receive
  <2>2. listener'[1].at = "check"
    BY <2>1, <1>21, <1>0, GoEffect DEF Places
  <2>3. h = 0 /\ h2 = 1 /\ 1 \in Running
    BY <2>1, <2>2, <1>6, <1>21 DEF HeldCount, Holding, Running
  <2>4. cursor'[1] = cursor[1] + 1
    BY <2>1, <1>0, <1>21
  <2>5. n2 = n /\ e2 = e /\ k2 = k /\ m2 = m
    BY <2>1, <1>9
  <2>6. n2 + stats'.dropped + ignored'[1] + h2 + 1 = cursor'[1]
    BY <2>1, <2>3, <2>4, <2>5, <1>8, <1>21
  <2>7. QED
    BY <2>1, <2>5, <2>6, <1>7, <1>8, <1>21
<1>22. ASSUME HearLag(1), 1 \in Subs, subs = 1, stats # None
       PROVE  Goal
  <2>1. listener[1].at = "recv" /\ cursor' = [cursor EXCEPT ![1] = cursor[1] + Skipped(1)]
        /\ CountIn("dropped", Skipped(1)) /\ UNCHANGED <<delivery, ignored, listener>>
        /\ Unread(1) > Buffer
    BY <1>22 DEF HearLag, At, SkipLost, Behind
  <2>2. PICK q \in Nat : q = Skipped(1)
    BY <2>1, <1>8, <1>22, <1>0, Constants DEF Skipped, Unread
  <2>3. stats'.dropped = stats.dropped + q /\ stats'.ok = stats.ok /\ stats'.bad = stats.bad
        /\ stats'.attempts = stats.attempts
    <3>1. /\ stats'["dropped"] = stats["dropped"] + q /\ stats'["ok"] = stats["ok"]
          /\ stats'["bad"] = stats["bad"] /\ stats'["attempts"] = stats["attempts"]
      BY <2>1, <2>2, <1>0, <1>22, CountEffect
    <3>2. QED
      BY <3>1
  <2>4. h2 = h /\ 1 \in Running
    BY <2>1, <1>6, <1>22 DEF HeldCount, Holding, Running
  <2>5. cursor'[1] = cursor[1] + q
    BY <2>1, <2>2, <1>0, <1>22
  <2>6. n2 = n /\ e2 = e /\ k2 = k /\ m2 = m
    BY <2>1, <1>9
  <2>7. n2 + stats'.dropped + ignored'[1] + h2 + 1 = cursor'[1]
    BY <2>1, <2>3, <2>4, <2>5, <2>6, <1>8, <1>22
  <2>8. QED
    BY <2>3, <2>6, <2>7, <1>7, <1>8, <1>22
<1>23. ASSUME CheckEvent(1), config # None, 1 \in Subs, subs = 1, stats # None
       PROVE  Goal
  <2>1. listener[1].at = "check" /\ UNCHANGED <<subs, cursor, stats, delivery>>
    BY <1>23 DEF CheckEvent, At, busVars
  <2>2. h = 1 /\ 1 \in Running
    BY <2>1, <1>6, <1>23 DEF HeldCount, Holding, Running
  <2>3. CASE Matches(1)
    <3>1. Go(1, "slot") /\ ignored' = [ignored EXCEPT ![1] = ignored[1]]
      BY <1>23, <2>3 DEF CheckEvent
    <3>2. listener'[1].at = "slot" /\ ignored'[1] = ignored[1]
      BY <3>1, <1>0, <1>23, GoEffect DEF Places
    <3>3. h2 = 1
      BY <3>2, <1>6 DEF HeldCount, Holding
    <3>4. QED
      BY <2>1, <2>2, <3>2, <3>3, <1>10
  <2>4. CASE ~Matches(1)
    <3>1. Go(1, "recv") /\ ignored' = [ignored EXCEPT ![1] = ignored[1] + 1]
      BY <1>23, <2>4 DEF CheckEvent
    <3>2. listener'[1].at = "recv" /\ ignored'[1] = ignored[1] + 1
      BY <3>1, <1>0, <1>23, GoEffect DEF Places
    <3>3. h2 = 0
      BY <3>2, <1>6 DEF HeldCount, Holding
    <3>4. n2 = n /\ e2 = e /\ k2 = k /\ m2 = m
      BY <2>1, <1>9
    <3>5. n2 + stats'.dropped + ignored'[1] + h2 + 1 = cursor'[1]
      BY <2>1, <2>2, <3>2, <3>3, <3>4, <1>8, <1>23
    <3>6. QED
      BY <2>1, <3>4, <3>5, <1>7, <1>8, <1>23
  <2>5. QED
    BY <2>3, <2>4
<1>24. ASSUME Go(1, "gone"), DropSubscription(1), UNCHANGED <<stats, delivery>>, 1 \in Subs
       PROVE  Goal
  <2>1. subs' = subs
    BY <1>24 DEF DropSubscription
  <2>2. listener'[1].at = "gone"
    BY <1>24, <1>0, GoEffect DEF Places
  <2>3. ~(1 \in Running)'
    BY <2>2 DEF Running
  <2>4. QED
    BY <2>1, <2>3, <1>10, <1>24
<1>25. ASSUME TakeSlot(1), 1 \in Subs, subs = 1, stats # None
       PROVE  Goal
  <2>1. listener[1].at = "slot" /\ Go(1, "spawn") /\ UNCHANGED <<subs, cursor, stats, delivery, ignored>>
    BY <1>25 DEF TakeSlot, At, busVars
  <2>2. listener'[1].at = "spawn"
    BY <2>1, <1>25, <1>0, GoEffect DEF Places
  <2>3. h2 = h /\ 1 \in Running
    BY <2>1, <2>2, <1>6, <1>25 DEF HeldCount, Holding, Running
  <2>4. QED
    BY <2>1, <2>3, <1>10
<1>26. ASSUME SpawnDelivery(1), 1 \in Subs, subs = 1, stats # None
       PROVE  Goal
  <2>1. listener[1].at = "spawn" /\ Go(1, "recv") /\ UNCHANGED <<subs, cursor, stats, ignored>>
    BY <1>26 DEF SpawnDelivery, At, busVars
  <2>2. listener'[1].at = "recv"
    BY <2>1, <1>26, <1>0, GoEffect DEF Places
  <2>3. h = 1 /\ h2 = 0 /\ 1 \in Running
    BY <2>1, <2>2, <1>6, <1>26 DEF HeldCount, Holding, Running
  <2>4. ~DeliveriesClosed
    BY <1>1 DEF DeliveriesClosed
  <2>5. n2 = n + 1 /\ e2 = e /\ k2 = k /\ m2 = m
    BY <2>4, <1>26, <1>2, <1>3, <1>4, <1>5, SpawnCounts
  <2>6. n2 + stats'.dropped + ignored'[1] + h2 + 1 = cursor'[1]
    BY <2>1, <2>3, <2>5, <1>8, <1>26
  <2>7. QED
    BY <2>1, <2>5, <2>6, <1>7, <1>8, <1>26
<1>27. ASSUME NEW s \in Subs, ListenerStep(s)
       PROVE  Goal
  BY <1>20, <1>21, <1>22, <1>23, <1>24, <1>25, <1>26, <1>27 DEF ListenerStep, CheckEvent, ListenerEnds
<1>28. ASSUME NEW d \in Pairs, DeliveryStep(d)
       PROVE  Goal
  <2>0. d \in Deliveries
    BY <1>28 DEF DeliveryStep, SendRequest, GetAnswer, BackoffEnds, RecordOutcome, DeliveryAborts, Stands
  <2>1. UNCHANGED <<subs, cursor, listener, ignored>>
    BY <1>28, <1>0, DeliveryFrame DEF busVars
  <2>2. stats # None
    BY <1>28 DEF DeliveryStep, SendRequest, GetAnswer, BackoffEnds, RecordOutcome, DeliveryAborts, CountIn
  <2>3. subs = 1 /\ h2 = h /\ ((1 \in Running)' <=> 1 \in Running)
    BY <2>1, <1>6 DEF HeldCount, Holding, Running
  <2>4. /\ 1 \in Running => n + stats.dropped + ignored[1] + h + 1 = cursor[1]
        /\ stats.ok + stats.bad = e /\ k = stats.attempts + m
        /\ stats.dropped \in Nat /\ stats.ok \in Nat /\ stats.bad \in Nat /\ stats.attempts \in Nat
    BY <2>2, <2>3, <1>8
  <2>5. n2 = n
    BY <1>28, <1>0, <1>2, DeliveryFrame, TriedChange
  <2>6. delivery[d].tries \in Nat /\ Tries(d) /\ delivery[d] # None /\ delivery[d].abort \in BOOLEAN
    BY <2>0, <1>0, <1>28, DeliveryFacts DEF TriesInv, Deliveries
  <2>7. CASE SendRequest(d)
    <3>1. PICK r \in Tasks : TaskStep(d, r) /\ delivery[d].at = "waiting" /\ r.at = "sent"
                             /\ r.tries = delivery[d].tries + 1
      BY <2>7, <1>0, SendEffect
    <3>2. r.tries <= MaxAttempts
      BY <3>1, <2>6, Constants DEF Tries
    <3>3. m2 = m + 1 /\ e2 = e /\ k2 = k + 1
      BY <3>1, <3>2, <1>0, <1>3, <1>4, <1>5, SentChange, EndedChange, TriedChange
    <3>4. stats' = stats
      BY <2>7 DEF SendRequest
    <3>5. QED
      BY <3>3, <3>4, <2>1, <2>3, <2>4, <2>5, <1>7
  <2>8. CASE GetAnswer(d)
    <3>1. PICK r \in Tasks : TaskStep(d, r) /\ delivery[d].at = "sent" /\ r.at \in {"outcome", "backoff"}
                             /\ r.tries = delivery[d].tries
      BY <2>8, <1>0, AnswerEffect
    <3>2. m2 + 1 = m /\ e2 = e /\ k2 = k
      BY <3>1, <1>0, <1>3, <1>4, <1>5, SentChange, EndedChange, TriedChange
    <3>3. /\ stats'["attempts"] = stats["attempts"] + 1 /\ stats'["ok"] = stats["ok"]
          /\ stats'["bad"] = stats["bad"] /\ stats'["dropped"] = stats["dropped"]
      BY <2>8, <2>2, <1>0, CountEffect DEF GetAnswer
    <3>4. k2 = stats'.attempts + m2
      BY <3>2, <3>3, <2>4
    <3>5. QED
      BY <3>2, <3>3, <3>4, <2>1, <2>3, <2>4, <2>5, <1>7
  <2>9. CASE BackoffEnds(d)
    <3>1. delivery[d].at = "backoff" /\ Moves(d, "waiting") /\ stats' = stats
      BY <2>9 DEF BackoffEnds, Stands
    <3>2. PICK r \in Tasks : TaskStep(d, r) /\ r.at = "waiting" /\ r.tries = delivery[d].tries
      BY <3>1, <2>0, <1>0, MoveEffect
    <3>3. m2 = m /\ e2 = e /\ k2 = k
      BY <3>1, <3>2, <1>0, <1>3, <1>4, <1>5, SentChange, EndedChange, TriedChange
    <3>4. QED
      BY <3>1, <3>3, <2>1, <2>3, <2>4, <2>5, <1>7
  <2>10. CASE RecordOutcome(d)
    <3>1. delivery[d].at = "outcome" /\ Moves(d, "done")
      BY <2>10 DEF RecordOutcome, Stands
    <3>2. PICK r \in Tasks : TaskStep(d, r) /\ r.at = "done" /\ r.tries = delivery[d].tries
      BY <3>1, <2>0, <1>0, MoveEffect
    <3>3. m2 = m /\ e2 = e + 1 /\ k2 = k
      BY <3>1, <3>2, <1>0, <1>3, <1>4, <1>5, SentChange, EndedChange, TriedChange
    <3>4. PICK f \in {"ok", "bad"} : CountIn(f, 1)
      BY <2>10 DEF RecordOutcome
    <3>5. /\ stats'[f] = stats[f] + 1
          /\ \A g \in {"attempts", "ok", "bad", "dropped"} : g # f => stats'[g] = stats[g]
      BY <3>4, <2>2, <1>0, CountEffect
    <3>6. stats'.attempts = stats.attempts /\ stats'.dropped = stats.dropped
      BY <3>5
    <3>7. stats'.ok + stats'.bad = stats.ok + stats.bad + 1
      <4>1. CASE f = "ok"
        BY <4>1, <3>5, <2>4
      <4>2. CASE f = "bad"
        BY <4>2, <3>5, <2>4
      <4>3. QED
        BY <4>1, <4>2
    <3>8. QED
      BY <3>3, <3>6, <3>7, <2>1, <2>3, <2>4, <2>5, <1>7
  <2>11. CASE DeliveryAborts(d)
    <3>1. delivery[d].abort
      BY <2>11 DEF DeliveryAborts
    <3>2. QED
      BY <3>1, <2>6, <1>1 DEF Tries
  <2>12. QED
    BY <1>28, <2>7, <2>8, <2>9, <2>10, <2>11 DEF DeliveryStep
<1> HIDE DEF Goal
<1>29. Goal
  BY <1>13, <1>14, <1>15, <1>16, <1>17, <1>18, <1>19, <1>27, <1>28
     DEF Next, SystemStep, CallStep, ShutdownStep, Pairs
<1>30. QED
  BY <1>29 DEF Goal

\* As long as the webhook has been added once, every event since then is
\* waiting in the buffer, in the listener's hands, being delivered, ignored as
\* the configuration demands or counted as dropped, and the statistics count
\* the deliveries that ended and at most MaxAttempts requests for each delivery
\* (EventsAccountedFor).
THEOREM EventsAreAccountedFor == Spec => []EventsAccountedFor
<1>1. Init => AccountInv
  <2> SUFFICES ASSUME Init
               PROVE  AccountInv
    OBVIOUS
  <2>1. stats = None /\ subs = 0 /\ delivery = [d \in Pairs |-> None]
    BY DEF Init, BusInit, Pairs
  <2>2. QED
    BY <2>1 DEF AccountInv, TriesInv, Tries, StatsComeWithAdd
<1>2. HookInv /\ AccountInv => EventsAccountedFor
  <2> SUFFICES ASSUME HookInv, AccountInv, subs = 1, stats # None, 1 \in Running, ~ListenersClosed
               PROVE  /\ Cardinality(Deliveries) + stats.dropped + ignored[1] + HeldCount
                           + Unread(1) = Len(log)
                      /\ stats.ok + stats.bad = Cardinality(Ended)
                      /\ stats.attempts <= MaxAttempts * Cardinality(Deliveries)
    BY DEF EventsAccountedFor, HeldCount, Holding
  <2>1. ReadIsKnown /\ OutcomesCounted /\ AttemptsCounted
    BY DEF AccountInv, ListenersClosed
  <2>2. PICK n \in Nat : n = Cardinality(Deliveries)
    BY AccountsFinite DEF Accountable
  <2>3. PICK k \in Nat, m \in Nat : k = Cardinality(TriedSet) /\ m = Cardinality(SentSet)
    BY AccountsFinite, PairsFinite DEF Accountable, Countable
  <2>4. stats \in Counters /\ 1 \in Subs /\ Len(log) \in Nat /\ ignored \in [Subs -> Nat]
        /\ cursor \in [Subs -> 0..(MaxEvents + 1)]
    BY DEF HookInv, TypeOK, BusTypeOK, Running
  <2>5. stats.dropped \in Nat /\ stats.attempts \in Nat /\ ignored[1] \in Nat
    BY <2>4 DEF Counters
  <2>6. cursor[1] \in Nat
    BY <2>4
  <2>7. PICK h \in Nat : h = HeldCount
    BY DEF HeldCount
  <2>8. n + stats.dropped + ignored[1] + h + 1 = cursor[1]
    BY <2>1, <2>2, <2>7 DEF ReadIsKnown
  <2>9. n + stats.dropped + ignored[1] + h + Unread(1) = Len(log)
    BY <2>4, <2>5, <2>6, <2>8 DEF Unread
  <2>10. k <= MaxAttempts * n
    <3>1. IsFiniteSet(Deliveries) /\ IsFiniteSet(1..MaxAttempts) /\ Cardinality(1..MaxAttempts) = MaxAttempts
      <4>1. MaxAttempts \in Nat \ {0}
        BY Constants
      <4>2. 1 \in Int /\ MaxAttempts \in Int /\ ~(1 > MaxAttempts) /\ MaxAttempts - 1 + 1 = MaxAttempts
        BY <4>1
      <4>3. IsFiniteSet(1..MaxAttempts) /\ Cardinality(1..MaxAttempts) = MaxAttempts - 1 + 1
        BY <4>2, FS_Interval
      <4>4. QED
        BY <4>2, <4>3, AccountsFinite DEF Accountable
    <3>2. /\ IsFiniteSet(Deliveries \X (1..MaxAttempts))
          /\ Cardinality(Deliveries \X (1..MaxAttempts)) = Cardinality(Deliveries) * Cardinality(1..MaxAttempts)
      BY <3>1, FS_Product
    <3>3. TriedSet \subseteq Deliveries \X (1..MaxAttempts)
      BY DEF TriedSet, Deliveries, Pairs
    <3>4. k <= Cardinality(Deliveries \X (1..MaxAttempts))
      BY <3>2, <3>3, <2>3, FS_Subset
    <3>5. Cardinality(Deliveries \X (1..MaxAttempts)) = n * MaxAttempts
      BY <3>1, <3>2, <2>2
    <3>6. QED
      BY <3>4, <3>5, Constants
  <2>11. k = stats.attempts + m
    BY <2>1, <2>3 DEF AttemptsCounted
  <2>12. stats.attempts <= k
    BY <2>3, <2>5, <2>11
  <2>13. PICK w \in Nat : w = MaxAttempts * n
    BY Constants
  <2>14. stats.attempts <= MaxAttempts * n
    BY <2>5, <2>3, <2>10, <2>12, <2>13
  <2>15. QED
    BY <2>1, <2>2, <2>7, <2>9, <2>14 DEF OutcomesCounted
<1>3. QED
  BY <1>1, <1>2, HookAlways, AccountStep, PTL DEF Spec
=============================================================================
