------------------------------ MODULE EventBus ------------------------------
(***************************************************************************)
(* The event manager (src/events.rs): one broadcast channel with a bounded *)
(* buffer, and a registry of the filters of its subscriptions.             *)
(*                                                                         *)
(* Every receiver reads the whole channel at its own pace.  One that falls *)
(* more than the buffer behind is moved to the oldest event still there    *)
(* and is told how many it missed.  Filters are applied by the subscriber; *)
(* the registry only decides whether an event keeps its payload.           *)
(***************************************************************************)
EXTENDS Naturals, Sequences, FiniteSets

CONSTANTS
  Kinds,      \* what filters tell apart: event type, queue, priority, ...
  Buffer,     \* max_buffer_size
  MaxEvents,  \* bound: events published
  MaxSubs,    \* bound: subscriptions made
  MaxWork     \* bound: events and subscriptions together (see Work)

ASSUME EventBusAssumptions ==
  /\ Buffer \in Nat \ {0} /\ MaxEvents \in Nat /\ MaxSubs \in Nat \ {0} /\ MaxWork \in Nat

VARIABLES
  log,        \* every event ever published, in order
  cursor,     \* by subscription: the next event its receiver reads, 0 without one
  registry,   \* by subscription: "none", or whether its filter asks for payloads
  subs        \* subscriptions made so far

busVars == <<log, cursor, registry, subs>>

Subs == 1..MaxSubs
Events == 1..MaxEvents

\* A subscription counts as much as two events: instances with several
\* subscriptions get fewer events.
Work == Len(log) + 2 * subs

\* payload_wanted: an event keeps its payload if a registered filter asks for it.
PayloadWanted == \E s \in Subs : registry[s] = "payload"

PublishEvent(kind) ==
  /\ Len(log) < MaxEvents /\ Work + 1 <= MaxWork
  /\ log' = Append(log, [kind |-> kind, payload |-> PayloadWanted])
  /\ UNCHANGED <<cursor, registry, subs>>

\* subscribe: the receiver gets what is published from now on.
NextSub == subs + 1
Subscribe(wantsPayload) ==
  /\ subs < MaxSubs /\ Work + 2 <= MaxWork
  /\ subs' = NextSub
  /\ cursor' = [cursor EXCEPT ![NextSub] = Len(log) + 1]
  /\ registry' = [registry EXCEPT ![NextSub] = IF wantsPayload THEN "payload" ELSE "plain"]
  /\ UNCHANGED log

\* unsubscribe takes the filter off the registry; the receiver stays.
Unsubscribe(S) == registry' = [s \in Subs |-> IF s \in S THEN "none" ELSE registry[s]]

\* The subscription is dropped, with its receiver.
DropSubscription(s) ==
  /\ registry' = [registry EXCEPT ![s] = "none"]
  /\ cursor' = [cursor EXCEPT ![s] = 0]
  /\ UNCHANGED <<log, subs>>

Unread(s) == Len(log) + 1 - cursor[s]

\* recv: the next event of a receiver that keeps up, ...
Ready(s) == cursor[s] > 0 /\ Unread(s) \in 1..Buffer
Receive(s) == Ready(s) /\ cursor' = [cursor EXCEPT ![s] = @ + 1]

\* ... or Lagged(skipped) for one that fell behind.
Behind(s) == cursor[s] > 0 /\ Unread(s) > Buffer
Skipped(s) == Unread(s) - Buffer
SkipLost(s) == Behind(s) /\ cursor' = [cursor EXCEPT ![s] = @ + Skipped(s)]

BusInit ==
  /\ log = <<>>
  /\ cursor = [s \in Subs |-> 0]
  /\ registry = [s \in Subs |-> "none"]
  /\ subs = 0

BusTypeOK ==
  /\ log \in Seq([kind : Kinds, payload : BOOLEAN]) /\ Len(log) <= MaxEvents
  /\ cursor \in [Subs -> 0..(MaxEvents + 1)]
  /\ registry \in [Subs -> {"none", "plain", "payload"}]
  /\ subs \in 0..MaxSubs
=============================================================================
