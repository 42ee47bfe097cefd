-------------------------- MODULE WorkerPoolProofs --------------------------
(***************************************************************************)
(* Proofs about WorkerPool, for any number of workers, limits, steps and   *)
(* scaling decisions: through restarts, retirements and reuse of slots     *)
(* every slot keeps its worker, and the pool has the workers the           *)
(* autoscaler believes it has.                                             *)
(***************************************************************************)
EXTENDS WorkerPool, FiniteSetTheorems, TLAPS

\* What the supervisor knows of a slot.
SlotRows == [retired : BOOLEAN, finished : BOOLEAN, scaled : BOOLEAN]

\* How many slots there are.
Size == Len(slots)

SlotTypeOK ==
  /\ slots \in Seq(SlotRows)
  /\ sender \in [1..Size -> ((1..Size) \X {0}) \union {NoTask}]
  /\ Live \subseteq (1..Size) \X {0}

\* The inductive invariant behind SlotsAreManned.  It adds that a slot is only
\* marked as finished after its last task has been joined, which is why a
\* slot that is used again has no task left.
SlotInv ==
  /\ SlotTypeOK
  /\ \A t \in Live : sender[SlotOf(t)] = t /\ ~slots[SlotOf(t)].finished
  /\ \A i \in 1..Size :
       /\ slots[i].finished => slots[i].retired
       /\ (sender[i] = <<i, 0>> /\ sender[i] \in Live)
            \/ (sender[i] = NoTask /\ (shutting \/ slots[i].finished))

\* The counts the autoscaler keeps.
CountsOK == active \in Nat /\ desired \in Nat

\* The limits that a decision keeps once the autoscaler knows the pool.
InLimits(n) == n \in Nat /\ WithinLimits(n)

\* The inductive invariant behind ScalingIsApplied: where the number of
\* workers, the decision on its way and the autoscaler's belief stand.
ScaleInv ==
  /\ SlotInv /\ CountsOK
  /\ \A i \in 1..Size : slots[i].retired => slots[i].scaled
  /\ ~early /\ ~shutting =>
       /\ ~announced => ~unseen /\ Cardinality(ActiveSlots) = Initial
       /\ announced => /\ InLimits(active) /\ InLimits(Cardinality(ActiveSlots))
                       /\ unseen => desired = active
                       /\ ~unseen => Cardinality(ActiveSlots) = active

-----------------------------------------------------------------------------
(* Slots and their tasks.                                                  *)

\* In the first state every slot has its task.
LEMMA InitSlots == Init => SlotInv
<1> SUFFICES ASSUME Init PROVE SlotInv
  OBVIOUS
<1> DEFINE n == Initial + Others
<1>1. n \in Nat
  BY WorkerPoolAssumptions
<1>2. slots = [i \in 1..n |-> [retired |-> FALSE, finished |-> FALSE, scaled |-> i <= Initial]]
  BY DEF Init
<1>3. sender = [i \in 1..n |-> <<i, 0>>] /\ Live = (1..n) \X {0}
  BY DEF Init, Live
<1> HIDE DEF n
<1>4. slots \in Seq(SlotRows) /\ Size = n
  BY <1>1, <1>2 DEF SlotRows, Size
<1>5. SlotTypeOK
  BY <1>3, <1>4 DEF SlotTypeOK
<1>6. \A t \in Live : SlotOf(t) \in 1..n /\ t = <<SlotOf(t), 0>>
  BY <1>3 DEF SlotOf
<1> QED BY <1>2, <1>3, <1>4, <1>5, <1>6 DEF SlotInv

\* A task is named by its slot.
LEMMA TaskNames ==
  ASSUME SlotTypeOK
  PROVE  /\ Size \in Nat /\ DOMAIN slots = 1..Size
         /\ \A i \in 1..Size : slots[i] \in SlotRows
         /\ \A t \in Live : SlotOf(t) \in 1..Size /\ t = <<SlotOf(t), 0>>
BY DEF SlotTypeOK, Size, SlotOf

\* Steps that leave the slots, their channels and the tasks that exist.
LEMMA SlotsKept ==
  ASSUME SlotInv, UNCHANGED <<slots, sender>>, Live' = Live, shutting => shutting'
  PROVE  SlotInv'
<1>1. Size' = Size
  BY DEF Size
<1> QED BY <1>1 DEF SlotInv, SlotTypeOK

\* A message neither starts nor ends a task.
LEMMA TellTasks ==
  ASSUME NEW S, Tell(S)
  PROVE  Live' = Live
BY DEF Tell, Live

\* Retired slots keep their tasks.
LEMMA RetireManned ==
  ASSUME SlotInv, NEW n, RetireWorkers(n), shutting' = shutting
  PROVE  SlotInv'
<1>1. PICK chosen \in SUBSET ActiveSlots :
        /\ slots' = [i \in DOMAIN slots |->
             IF i \in chosen THEN [slots[i] EXCEPT !.retired = TRUE] ELSE slots[i]]
        /\ Tell(chosen) /\ sender' = sender
  BY DEF RetireWorkers
<1>2. /\ Size \in Nat /\ DOMAIN slots = 1..Size
      /\ \A i \in 1..Size : slots[i] \in SlotRows
      /\ \A t \in Live : SlotOf(t) \in 1..Size
  BY TaskNames DEF SlotInv
<1>3. \A i \in 1..Size : /\ slots'[i] \in SlotRows
                         /\ slots'[i].finished = slots[i].finished
                         /\ slots[i].retired => slots'[i].retired
  BY <1>1, <1>2 DEF SlotRows
<1>4. slots' \in Seq(SlotRows) /\ Size' = Size
  BY <1>1, <1>2, <1>3 DEF Size
<1>5. Live' = Live
  BY <1>1, TellTasks
<1>6. SlotTypeOK'
  BY <1>1, <1>4, <1>5 DEF SlotInv, SlotTypeOK
<1> QED BY <1>1, <1>2, <1>3, <1>4, <1>5, <1>6 DEF SlotInv

\* The rows that starting n workers leaves: those of reused slots and of added
\* ones are new, and each gets a task of its own name.
Started(reused, added) == reused \union ((Size + 1)..(Size + added))

LEMMA StartEffect ==
  ASSUME SlotInv, NEW n \in Nat, StartWorkers(n)
  PROVE  \E reused \in SUBSET Reusable : \E added \in Nat :
           /\ Cardinality(reused) \in Nat /\ added = n - Cardinality(reused)
           /\ IsFiniteSet(reused)
           /\ Size' = Size + added
           /\ slots' \in Seq(SlotRows)
           /\ \A i \in 1..(Size + added) :
                /\ slots'[i] = IF i \in Started(reused, added)
                                 THEN [retired |-> FALSE, finished |-> FALSE, scaled |-> TRUE]
                                 ELSE slots[i]
                /\ sender'[i] = IF i \in Started(reused, added) THEN <<i, 0>> ELSE sender[i]
           /\ DOMAIN sender' = 1..(Size + added)
           /\ Live' = Live \union {<<i, 0>> : i \in Started(reused, added)}
           /\ sender' = [i \in 1..(Size + added) |-> sender'[i]]
<1>1. /\ Size \in Nat /\ DOMAIN slots = 1..Size
      /\ \A i \in 1..Size : slots[i] \in SlotRows
      /\ \A t \in Live : SlotOf(t) \in 1..Size /\ t = <<SlotOf(t), 0>>
  BY TaskNames DEF SlotInv
<1>2. PICK reused \in SUBSET Reusable :
        LET added == n - Cardinality(reused)
            started == reused \union ((Len(slots) + 1)..(Len(slots) + added))
            indices == 1..(Len(slots) + added)
        IN  /\ Cardinality(reused) = Least(n, Cardinality(Reusable))
            /\ slots' = [i \in indices |->
                 IF i \in started THEN [retired |-> FALSE, finished |-> FALSE, scaled |-> TRUE]
                 ELSE slots[i]]
            /\ sender' = [i \in indices |-> IF i \in started THEN TaskFor(i) ELSE sender[i]]
            /\ tasks' = [t \in Live \union {TaskFor(i) : i \in started} |->
                 IF t \in Live THEN tasks[t] ELSE NewTask("running")]
  BY DEF StartWorkers
<1> DEFINE added == n - Cardinality(reused)
           started == Started(reused, added)
<1>3. Reusable \in SUBSET (1..Size)
  BY <1>1 DEF Reusable
<1>4. IsFiniteSet(1..Size)
  BY <1>1, FS_Interval
<1>5. IsFiniteSet(Reusable) /\ IsFiniteSet(reused)
  <2>1. reused \in SUBSET (1..Size)
    BY <1>3
  <2> QED BY <1>3, <1>4, <2>1, FS_Subset
<1>6. Cardinality(Reusable) \in Nat /\ Cardinality(reused) \in Nat
  BY <1>5, FS_CardinalityType
<1>7. added \in Nat
  BY <1>2, <1>6 DEF Least
<1>8. \A i \in started : i \in 1..(Size + added) /\ \A t \in Live : SlotOf(t) # i
  <2> SUFFICES ASSUME NEW i \in started
               PROVE  i \in 1..(Size + added) /\ \A t \in Live : SlotOf(t) # i
    OBVIOUS
  <2> HIDE DEF added
  <2>1. CASE i \in reused
    <3>1. i \in 1..Size /\ slots[i].finished
      BY <1>1, <2>1 DEF Reusable
    <3> QED BY <1>1, <1>7, <3>1 DEF SlotInv
  <2>2. CASE i \in (Size + 1)..(Size + added)
    BY <1>1, <1>7, <2>2
  <2> QED BY <2>1, <2>2 DEF Started
<1>9. \A i \in started : TaskFor(i) = <<i, 0>>
  <2> SUFFICES ASSUME NEW i \in started PROVE TaskFor(i) = <<i, 0>>
    OBVIOUS
  <2>1. {t \in Live : SlotOf(t) = i} = {}
    BY <1>8
  <2>2. Cardinality({t \in Live : SlotOf(t) = i}) = 0
    BY <2>1, FS_EmptySet
  <2> QED BY <2>2 DEF TaskFor
<1>10. /\ slots' = [i \in 1..(Size + added) |->
             IF i \in started THEN [retired |-> FALSE, finished |-> FALSE, scaled |-> TRUE]
             ELSE slots[i]]
       /\ sender' = [i \in 1..(Size + added) |-> IF i \in started THEN TaskFor(i) ELSE sender[i]]
       /\ tasks' = [t \in Live \union {TaskFor(i) : i \in started} |->
             IF t \in Live THEN tasks[t] ELSE NewTask("running")]
  BY <1>2 DEF Started, Size
<1>11. {TaskFor(i) : i \in started} = {<<i, 0>> : i \in started}
  BY <1>9
<1>12. Live' = Live \union {<<i, 0>> : i \in started}
  BY <1>10, <1>11 DEF Live
<1>13. \A i \in 1..(Size + added) : i \notin started => i \in 1..Size
  <2> HIDE DEF added
  <2> QED BY <1>1, <1>7 DEF Started
<1> HIDE DEF started
<1>14. slots' \in Seq(SlotRows) /\ Size' = Size + added
  <2> HIDE DEF added
  <2>1. \A i \in 1..(Size + added) :
          (IF i \in started THEN [retired |-> FALSE, finished |-> FALSE, scaled |-> TRUE]
           ELSE slots[i]) \in SlotRows
    BY <1>1, <1>13 DEF SlotRows
  <2> DEFINE m == Size + added
  <2>2. m \in Nat
    BY <1>1, <1>7
  <2>3. slots' = [i \in 1..m |->
          IF i \in started THEN [retired |-> FALSE, finished |-> FALSE, scaled |-> TRUE]
          ELSE slots[i]]
    BY <1>10
  <2>4. \A i \in 1..m :
          (IF i \in started THEN [retired |-> FALSE, finished |-> FALSE, scaled |-> TRUE]
           ELSE slots[i]) \in SlotRows
    BY <2>1
  <2> HIDE DEF m
  <2>5. slots' \in Seq(SlotRows) /\ Len(slots') = m
    BY <2>2, <2>3, <2>4
  <2> QED BY <2>5 DEF Size, m
<1>15. /\ \A i \in 1..(Size + added) :
            /\ slots'[i] = IF i \in started
                             THEN [retired |-> FALSE, finished |-> FALSE, scaled |-> TRUE]
                             ELSE slots[i]
            /\ sender'[i] = IF i \in started THEN <<i, 0>> ELSE sender[i]
       /\ DOMAIN sender' = 1..(Size + added)
       /\ sender' = [i \in 1..(Size + added) |-> sender'[i]]
  BY <1>9, <1>10
<1> QED BY <1>5, <1>6, <1>7, <1>12, <1>14, <1>15 DEF started

\* A slot that is used again, or added, gets the one task it has.
LEMMA StartManned ==
  ASSUME SlotInv, NEW n \in Nat, StartWorkers(n), shutting' = shutting
  PROVE  SlotInv'
<1>1. PICK reused \in SUBSET Reusable, added \in Nat :
           /\ Size' = Size + added
           /\ slots' \in Seq(SlotRows)
           /\ \A i \in 1..(Size + added) :
                /\ slots'[i] = IF i \in Started(reused, added)
                                 THEN [retired |-> FALSE, finished |-> FALSE, scaled |-> TRUE]
                                 ELSE slots[i]
                /\ sender'[i] = IF i \in Started(reused, added) THEN <<i, 0>> ELSE sender[i]
           /\ DOMAIN sender' = 1..(Size + added)
           /\ Live' = Live \union {<<i, 0>> : i \in Started(reused, added)}
           /\ sender' = [i \in 1..(Size + added) |-> sender'[i]]
  BY StartEffect
<1> DEFINE started == Started(reused, added)
<1>2. /\ Size \in Nat /\ DOMAIN slots = 1..Size
      /\ \A t \in Live : SlotOf(t) \in 1..Size /\ t = <<SlotOf(t), 0>>
  BY TaskNames DEF SlotInv
<1>3. /\ started \subseteq 1..(Size + added)
      /\ \A i \in 1..(Size + added) : i \notin started => i \in 1..Size
      /\ \A i \in started : i \in 1..Size => slots[i].finished
  BY <1>2 DEF Started, Reusable
<1> HIDE DEF started
<1>4. Live' = Live \union {<<i, 0>> : i \in started}
  BY <1>1 DEF started
<1>5. \A i \in 1..(Size + added) :
        /\ i \in started => ~slots'[i].retired /\ ~slots'[i].finished /\ sender'[i] = <<i, 0>>
        /\ i \notin started => slots'[i] = slots[i] /\ sender'[i] = sender[i]
  BY <1>1 DEF started
<1>6. \A t \in Live : SlotOf(t) \notin started /\ SlotOf(t) \in 1..(Size + added)
  BY <1>2, <1>3 DEF SlotInv
<1>7. \A t \in Live' : \/ t \in Live
                       \/ SlotOf(t) \in started /\ t = <<SlotOf(t), 0>>
  BY <1>4 DEF SlotOf
<1>8. Live' \subseteq (1..(Size + added)) \X {0}
  <2> SUFFICES ASSUME NEW t \in Live' PROVE t \in (1..(Size + added)) \X {0}
    OBVIOUS
  <2>1. SlotOf(t) \in 1..(Size + added) /\ t = <<SlotOf(t), 0>>
    BY <1>2, <1>3, <1>6, <1>7
  <2> QED BY <2>1
<1>9. \A i \in 1..(Size + added) :
        (sender'[i] = <<i, 0>> /\ sender'[i] \in Live')
          \/ (sender'[i] = NoTask /\ (shutting' \/ slots'[i].finished))
  <2> SUFFICES ASSUME NEW i \in 1..(Size + added)
               PROVE  (sender'[i] = <<i, 0>> /\ sender'[i] \in Live')
                        \/ (sender'[i] = NoTask /\ (shutting' \/ slots'[i].finished))
    OBVIOUS
  <2>1. CASE i \in started
    <3>1. sender'[i] = <<i, 0>>
      BY <1>5, <2>1
    <3>2. <<i, 0>> \in Live'
      BY <1>4, <2>1
    <3> QED BY <3>1, <3>2
  <2>2. CASE i \notin started
    <3>1. i \in 1..Size /\ slots'[i] = slots[i] /\ sender'[i] = sender[i]
      BY <1>3, <1>5, <2>2
    <3>2. sender[i] \in Live => sender[i] \in Live'
      BY <1>4
    <3> QED BY <3>1, <3>2 DEF SlotInv
  <2> QED BY <2>1, <2>2
<1>10. SlotTypeOK'
  <2>1. \A i \in 1..(Size + added) : <<i, 0>> \in (1..(Size + added)) \X {0}
    OBVIOUS
  <2>2. \A i \in 1..(Size + added) : sender'[i] = <<i, 0>> \/ sender'[i] = NoTask
    BY <1>9
  <2>3. \A i \in 1..(Size + added) : sender'[i] \in ((1..(Size + added)) \X {0}) \union {NoTask}
    BY <2>1, <2>2
  <2> QED BY <1>1, <1>8, <2>3 DEF SlotTypeOK
<1>11. \A t \in Live' : sender'[SlotOf(t)] = t /\ ~slots'[SlotOf(t)].finished
  BY <1>3, <1>5, <1>6, <1>7 DEF SlotInv
<1>12. \A i \in 1..(Size + added) : slots'[i].finished => slots'[i].retired
  BY <1>3, <1>5 DEF SlotInv
<1> QED BY <1>1, <1>9, <1>10, <1>11, <1>12 DEF SlotInv

\* A joined task is replaced, or its slot is finished.
LEMMA JoinManned ==
  ASSUME SlotInv, NEW t \in Live, Join(t)
  PROVE  SlotInv'
<1> DEFINE i == SlotOf(t)
           restart == ~shutting /\ ~slots[i].retired
           noted == slots[i].retired /\ ~(shutting /\ tasks[t].state = "returned")
<1>1. /\ slots' = [slots EXCEPT ![i].finished = @ \/ noted]
      /\ tasks' = [u \in (IF restart THEN Live ELSE Live \ {t}) |->
           IF u = t THEN NewTask("delayed") ELSE tasks[u]]
      /\ sender' = [sender EXCEPT ![i] = IF restart THEN t ELSE IF @ = t THEN NoTask ELSE @]
      /\ shutting' = shutting
  BY DEF Join
<1>2. /\ Size \in Nat /\ DOMAIN slots = 1..Size /\ i \in 1..Size
      /\ \A k \in 1..Size : slots[k] \in SlotRows
      /\ \A u \in Live : SlotOf(u) \in 1..Size /\ u = <<SlotOf(u), 0>>
  BY TaskNames DEF SlotInv
<1>3. sender[i] = t /\ ~slots[i].finished
  BY DEF SlotInv
<1>4. \A u \in Live \ {t} : SlotOf(u) # i
  BY <1>2
<1>5. ~restart /\ ~shutting => noted
  BY <1>2 DEF SlotRows
<1>6. noted \in BOOLEAN /\ (noted => slots[i].retired)
  OBVIOUS
<1>7. Live' = IF restart THEN Live ELSE Live \ {t}
  BY <1>1 DEF Live
<1> HIDE DEF i, restart, noted
<1>8. /\ \A k \in 1..Size : k # i => slots'[k] = slots[k] /\ sender'[k] = sender[k]
      /\ slots'[i] = [slots[i] EXCEPT !.finished = slots[i].finished \/ noted]
      /\ sender'[i] = IF restart THEN t ELSE NoTask
      /\ DOMAIN sender' = 1..Size
  BY <1>1, <1>2, <1>3 DEF SlotInv, SlotTypeOK
<1>9. slots'[i] \in SlotRows /\ slots'[i].retired = slots[i].retired /\ slots'[i].finished = noted
  BY <1>2, <1>3, <1>6, <1>8 DEF SlotRows
<1>10. slots' \in Seq(SlotRows) /\ Size' = Size
  BY <1>1, <1>2, <1>8, <1>9 DEF SlotInv, SlotTypeOK, Size
<1>11. \A k \in 1..Size :
         (sender'[k] = <<k, 0>> /\ sender'[k] \in Live')
           \/ (sender'[k] = NoTask /\ (shutting' \/ slots'[k].finished))
  <2> SUFFICES ASSUME NEW k \in 1..Size
               PROVE  (sender'[k] = <<k, 0>> /\ sender'[k] \in Live')
                        \/ (sender'[k] = NoTask /\ (shutting' \/ slots'[k].finished))
    OBVIOUS
  <2>1. CASE k = i
    <3>1. CASE restart
      <4>1. t = <<i, 0>> /\ sender'[i] = t /\ t \in Live'
        BY <1>2, <1>7, <1>8, <3>1 DEF i
      <4> QED BY <2>1, <4>1
    <3>2. CASE ~restart
      <4>1. sender'[i] = NoTask /\ (shutting' \/ slots'[i].finished)
        BY <1>1, <1>5, <1>8, <1>9, <3>2
      <4> QED BY <2>1, <4>1
    <3> QED BY <3>1, <3>2
  <2>2. CASE k # i
    <3>1. sender'[k] = sender[k] /\ slots'[k] = slots[k]
      BY <1>8, <2>2
    <3>2. <<k, 0>> # t
      BY <1>2, <2>2 DEF i
    <3>3. <<k, 0>> \in Live => <<k, 0>> \in Live'
      BY <1>7, <3>2
    <3> QED BY <1>1, <3>1, <3>3 DEF SlotInv
  <2> QED BY <2>1, <2>2
<1>12. \A u \in Live' : sender'[SlotOf(u)] = u /\ ~slots'[SlotOf(u)].finished
  <2> SUFFICES ASSUME NEW u \in Live'
               PROVE  sender'[SlotOf(u)] = u /\ ~slots'[SlotOf(u)].finished
    OBVIOUS
  <2>1. CASE u = t
    <3>1. restart /\ SlotOf(u) = i
      BY <1>7, <2>1 DEF i
    <3>2. ~noted
      BY <3>1 DEF restart, noted
    <3> QED BY <1>8, <1>9, <2>1, <3>1, <3>2
  <2>2. CASE u # t
    <3>1. u \in Live /\ SlotOf(u) # i /\ SlotOf(u) \in 1..Size
      BY <1>2, <1>4, <1>7, <2>2
    <3> QED BY <1>8, <3>1 DEF SlotInv
  <2> QED BY <2>1, <2>2
<1>13. \A k \in 1..Size : slots'[k].finished => slots'[k].retired
  <2> SUFFICES ASSUME NEW k \in 1..Size, slots'[k].finished PROVE slots'[k].retired
    OBVIOUS
  <2>1. CASE k = i
    BY <1>6, <1>9, <2>1
  <2>2. CASE k # i
    BY <1>8, <2>2 DEF SlotInv
  <2> QED BY <2>1, <2>2
<1>14. SlotTypeOK'
  <2>1. \A k \in 1..Size : sender'[k] \in ((1..Size) \X {0}) \union {NoTask}
    BY <1>11
  <2>2. sender' \in [1..Size -> ((1..Size) \X {0}) \union {NoTask}]
    BY <1>1, <1>8, <2>1 DEF SlotInv, SlotTypeOK
  <2>3. Live' \subseteq (1..Size) \X {0}
    BY <1>7 DEF SlotInv, SlotTypeOK
  <2> QED BY <1>10, <2>2, <2>3 DEF SlotTypeOK
<1> QED BY <1>10, <1>11, <1>12, <1>13, <1>14 DEF SlotInv

-----------------------------------------------------------------------------
(* The counts of the autoscaler.                                           *)

\* Whatever the depth, the new count is a number, and it is between the
\* limits when the old one was.
LEMMA CountScaled ==
  ASSUME CountsOK, NEW depth
  PROVE  /\ ScaledCount(depth) \in Nat
         /\ InLimits(active) => InLimits(ScaledCount(depth))
<1> DEFINE above == DepthIsAbove(depth, ScaleUpThreshold)
           below == DepthIsBelow(depth, ScaleDownThreshold)
<1>1. ScaledCount(depth) =
        IF above /\ active < MaxWorkers THEN Least(active + ScaleStep, MaxWorkers)
        ELSE IF below /\ active > MinWorkers
          THEN IF active < MinWorkers + ScaleStep THEN MinWorkers ELSE active - ScaleStep
        ELSE active
  BY DEF ScaledCount
<1> HIDE DEF above, below
<1>2. active \in Nat /\ MinWorkers \in Nat /\ MaxWorkers \in Nat /\ ScaleStep \in Nat
  BY WorkerPoolAssumptions DEF CountsOK
<1>3. MinWorkers <= MaxWorkers /\ Initial \in Nat
  BY WorkerPoolAssumptions
<1> QED BY <1>1, <1>2, <1>3 DEF Least, InLimits, WithinLimits

\* The workers a decision counts can be counted.
LEMMA ActiveCount ==
  ASSUME SlotInv
  PROVE  /\ ActiveSlots \in SUBSET (1..Size) /\ IsFiniteSet(ActiveSlots)
         /\ Cardinality(ActiveSlots) \in Nat
<1>1. Size \in Nat /\ DOMAIN slots = 1..Size
  BY TaskNames DEF SlotInv
<1>2. ActiveSlots \in SUBSET (1..Size)
  BY <1>1 DEF ActiveSlots
<1>3. IsFiniteSet(1..Size)
  BY <1>1, FS_Interval
<1>4. IsFiniteSet(ActiveSlots)
  BY <1>2, <1>3, FS_Subset
<1> QED BY <1>2, <1>4, FS_CardinalityType

\* Every step keeps the counts.
LEMMA NextCounts ==
  ASSUME CountsOK, [Next]_vars
  PROVE  CountsOK'
<1> USE DEF CountsOK
<1>1. CASE SeeSignal
  BY <1>1 DEF SeeSignal, scaleVars
<1>2. CASE ApplyDesired
  BY <1>2 DEF ApplyDesired
<1>3. CASE SupervisorEnds
  BY <1>3 DEF SupervisorEnds, scaleVars
<1>4. ASSUME NEW t \in Live, Join(t) PROVE CountsOK'
  BY <1>4 DEF Join, scaleVars
<1>5. ASSUME NEW t \in Live, DelayEnds(t) \/ WorkerReturns(t) \/ WorkerPanics(t) PROVE CountsOK'
  BY <1>5 DEF DelayEnds, WorkerReturns, WorkerPanics, scaleVars
<1>6. CASE Announce
  BY <1>6, WorkerPoolAssumptions DEF Announce
<1>7. CASE Evaluate
  BY <1>7, CountScaled DEF Evaluate
<1>8. CASE CooldownEnds \/ Shutdown
  BY <1>8 DEF CooldownEnds, Shutdown
<1>9. CASE StartPass \/ PassEnds \/ LoopStops
  BY <1>9 DEF StartPass, PassEnds, LoopStops, scaleVars
<1>10. CASE UNCHANGED vars
  BY <1>10 DEF vars
<1> QED BY <1>1, <1>2, <1>3, <1>4, <1>5, <1>6, <1>7, <1>8, <1>9, <1>10 DEF Next, Supervise

\* Every step keeps the slots manned.
LEMMA NextManned ==
  ASSUME SlotInv, CountsOK, [Next]_vars
  PROVE  SlotInv'
<1>1. CASE SeeSignal
  <2>1. Live' = Live /\ UNCHANGED <<slots, sender>> /\ shutting'
    BY <1>1, TellTasks DEF SeeSignal
  <2> QED BY <2>1, SlotsKept
<1>2. CASE ApplyDesired
  <2> DEFINE n == Cardinality(ActiveSlots)
  <2>1. n \in Nat
    BY ActiveCount
  <2>2. shutting' = shutting
    BY <1>2 DEF ApplyDesired
  <2>3. (desired > n /\ StartWorkers(desired - n)) \/ RetireWorkers(n - desired)
    BY <1>2 DEF ApplyDesired
  <2>4. desired > n => desired - n \in Nat
    BY <2>1 DEF CountsOK
  <2> QED BY <2>2, <2>3, <2>4, StartManned, RetireManned
<1>3. CASE SupervisorEnds
  BY <1>3, SlotsKept DEF SupervisorEnds, slotVars, Live
<1>4. ASSUME NEW t \in Live, Join(t) PROVE SlotInv'
  BY <1>4, JoinManned
<1>5. ASSUME NEW t \in Live, DelayEnds(t) \/ WorkerReturns(t) \/ WorkerPanics(t) PROVE SlotInv'
  <2>1. Live' = Live /\ UNCHANGED <<slots, sender, shutting>>
    BY <1>5 DEF DelayEnds, WorkerReturns, WorkerPanics, Live
  <2> QED BY <2>1, SlotsKept
<1>6. CASE Announce
  BY <1>6, SlotsKept DEF Announce, slotVars, Live
<1>7. CASE Evaluate
  BY <1>7, SlotsKept DEF Evaluate, slotVars, Live
<1>8. CASE CooldownEnds \/ Shutdown
  BY <1>8, SlotsKept DEF CooldownEnds, Shutdown, slotVars, Live
<1>9. CASE StartPass \/ PassEnds \/ LoopStops
  BY <1>9, SlotsKept DEF StartPass, PassEnds, LoopStops, slotVars, Live
<1>10. CASE UNCHANGED vars
  BY <1>10, SlotsKept DEF vars, Live
<1> QED BY <1>1, <1>2, <1>3, <1>4, <1>5, <1>6, <1>7, <1>8, <1>9, <1>10 DEF Next, Supervise

\* For any pool: no worker task escapes the supervisor's channels and outside
\* shutdown every slot that is not retired for good has its task, through
\* crashes, restarts, retirements and reuse (supervise, spawn_worker in
\* pool.rs).
THEOREM SlotsStayManned == Spec => []SlotsAreManned
<1>1. Init => SlotInv /\ CountsOK
  BY InitSlots, WorkerPoolAssumptions DEF Init, CountsOK
<1>2. SlotInv /\ CountsOK /\ [Next]_vars => (SlotInv /\ CountsOK)'
  BY NextManned, NextCounts
<1>3. SlotInv => SlotsAreManned
  <2> SUFFICES ASSUME SlotInv PROVE SlotsAreManned
    OBVIOUS
  <2>1. DOMAIN slots = 1..Size
    BY TaskNames DEF SlotInv
  <2> QED BY <2>1 DEF SlotInv, SlotsAreManned
<1> QED BY <1>1, <1>2, <1>3, PTL DEF Spec

-----------------------------------------------------------------------------
(* Decisions and the workers they stand for.                               *)

\* The pool starts within the widened limits.
LEMMA StartIsWithin == InLimits(Initial)
BY WorkerPoolAssumptions DEF InLimits, WithinLimits, Least

\* Slots that differ at most in what is noted as finished count the same.
LEMMA SameActive ==
  ASSUME DOMAIN slots' = DOMAIN slots,
         \A i \in DOMAIN slots : /\ slots'[i].retired = slots[i].retired
                                 /\ slots'[i].scaled = slots[i].scaled
  PROVE  ActiveSlots' = ActiveSlots
BY DEF ActiveSlots

\* Starting n workers adds n to those a decision counts.
LEMMA StartCounts ==
  ASSUME SlotInv, \A i \in 1..Size : slots[i].retired => slots[i].scaled,
         NEW n \in Nat, StartWorkers(n)
  PROVE  /\ Cardinality(ActiveSlots') = Cardinality(ActiveSlots) + n
         /\ \A i \in 1..Size' : slots'[i].retired => slots'[i].scaled
<1>1. PICK reused \in SUBSET Reusable, added \in Nat :
           /\ Cardinality(reused) \in Nat /\ added = n - Cardinality(reused)
           /\ IsFiniteSet(reused)
           /\ Size' = Size + added
           /\ slots' \in Seq(SlotRows)
           /\ \A i \in 1..(Size + added) :
                /\ slots'[i] = IF i \in Started(reused, added)
                                 THEN [retired |-> FALSE, finished |-> FALSE, scaled |-> TRUE]
                                 ELSE slots[i]
                /\ sender'[i] = IF i \in Started(reused, added) THEN <<i, 0>> ELSE sender[i]
  BY StartEffect
<1> DEFINE new == (Size + 1)..(Size + added)
<1>2. Size \in Nat /\ DOMAIN slots = 1..Size
  BY TaskNames DEF SlotInv
<1>3. /\ ActiveSlots \in SUBSET (1..Size) /\ IsFiniteSet(ActiveSlots)
      /\ Cardinality(ActiveSlots) \in Nat
  BY ActiveCount
<1>4. IsFiniteSet(new) /\ Cardinality(new) = added
  <2>1. Size + 1 \in Int /\ Size + added \in Int
    BY <1>2
  <2>2. IsFiniteSet(new)
    BY <2>1, FS_Interval
  <2>3. Cardinality(new) = IF Size + 1 > Size + added THEN 0 ELSE (Size + added) - (Size + 1) + 1
    BY <2>1, FS_Interval
  <2> QED BY <1>2, <2>2, <2>3
<1>5. reused \in SUBSET (1..Size) /\ reused \cap new = {} /\ reused \cap ActiveSlots = {}
  BY <1>2 DEF Reusable, ActiveSlots
<1>6. ActiveSlots \cap new = {}
  BY <1>2, <1>3
<1>7. DOMAIN slots' = 1..(Size + added)
  BY <1>1 DEF Size
<1>8. \A i \in 1..(Size + added) :
        /\ i \in reused \union new => ~slots'[i].retired /\ slots'[i].scaled
        /\ i \notin reused \union new => i \in 1..Size /\ slots'[i] = slots[i]
  <2>1. Started(reused, added) = reused \union new
    BY DEF Started
  <2>2. \A i \in 1..(Size + added) : i \notin new => i \in 1..Size
    BY <1>2
  <2> DEFINE some == reused \union new
  <2>3. \A i \in 1..(Size + added) :
          slots'[i] = IF i \in some
                        THEN [retired |-> FALSE, finished |-> FALSE, scaled |-> TRUE]
                        ELSE slots[i]
    BY <1>1, <2>1
  <2>4. \A i \in 1..(Size + added) : i \notin some => i \in 1..Size
    BY <2>2
  <2> HIDE DEF new, some
  <2>5. \A i \in 1..(Size + added) :
          /\ i \in some => ~slots'[i].retired /\ slots'[i].scaled
          /\ i \notin some => i \in 1..Size /\ slots'[i] = slots[i]
    BY <2>3, <2>4
  <2> QED BY <2>5 DEF some
<1>9. reused \union new \subseteq 1..(Size + added) /\ 1..Size \subseteq 1..(Size + added)
  BY <1>2, <1>5
<1> HIDE DEF new
<1>10. ActiveSlots' = ActiveSlots \union (reused \union new)
  <2>1. ActiveSlots' = {i \in 1..(Size + added) : ~slots'[i].retired /\ slots'[i].scaled}
    BY <1>7 DEF ActiveSlots
  <2>2. ActiveSlots = {i \in 1..Size : ~slots[i].retired /\ slots[i].scaled}
    BY <1>2 DEF ActiveSlots
  <2> QED BY <1>5, <1>6, <1>8, <1>9, <2>1, <2>2
<1>11. IsFiniteSet(reused \union new) /\ Cardinality(reused \union new) = Cardinality(reused) + added
  <2>1. IsFiniteSet(reused \union new)
    BY <1>1, <1>4, FS_Union
  <2>2. Cardinality(reused \union new)
          = Cardinality(reused) + Cardinality(new) - Cardinality(reused \cap new)
    BY <1>1, <1>4, FS_Union
  <2>3. Cardinality(reused \cap new) = 0
    BY <1>5, FS_EmptySet
  <2> QED BY <1>1, <1>4, <2>1, <2>2, <2>3
<1>12. Cardinality(ActiveSlots') = Cardinality(ActiveSlots) + Cardinality(reused \union new)
  <2>1. ActiveSlots \cap (reused \union new) = {}
    BY <1>5, <1>6
  <2>2. Cardinality(ActiveSlots \union (reused \union new))
          = Cardinality(ActiveSlots) + Cardinality(reused \union new)
              - Cardinality(ActiveSlots \cap (reused \union new))
    BY <1>3, <1>11, FS_Union
  <2>3. Cardinality(ActiveSlots \cap (reused \union new)) = 0
    BY <2>1, FS_EmptySet
  <2> QED BY <1>1, <1>3, <1>10, <1>11, <2>2, <2>3
<1>13. Cardinality(ActiveSlots') = Cardinality(ActiveSlots) + n
  BY <1>1, <1>3, <1>11, <1>12
<1>14. \A i \in 1..(Size + added) : slots'[i].retired => slots'[i].scaled
  BY <1>8
<1> QED BY <1>1, <1>13, <1>14

\* Retiring n workers takes n from those a decision counts, and only workers
\* of the template's queue.
LEMMA RetireCounts ==
  ASSUME SlotInv, \A i \in 1..Size : slots[i].retired => slots[i].scaled,
         NEW n \in Nat, RetireWorkers(n)
  PROVE  /\ Cardinality(ActiveSlots') = Cardinality(ActiveSlots) - n
         /\ \A i \in 1..Size' : slots'[i].retired => slots'[i].scaled
<1>1. PICK chosen \in SUBSET ActiveSlots :
        /\ Cardinality(chosen) = n
        /\ slots' = [i \in DOMAIN slots |->
             IF i \in chosen THEN [slots[i] EXCEPT !.retired = TRUE] ELSE slots[i]]
  BY DEF RetireWorkers
<1>2. /\ Size \in Nat /\ DOMAIN slots = 1..Size
      /\ \A i \in 1..Size : slots[i] \in SlotRows
  BY TaskNames DEF SlotInv
<1>3. /\ ActiveSlots \in SUBSET (1..Size) /\ IsFiniteSet(ActiveSlots)
      /\ Cardinality(ActiveSlots) \in Nat
  BY ActiveCount
<1>4. \A i \in 1..Size :
        /\ i \in chosen => slots'[i].retired
        /\ i \notin chosen => slots'[i].retired = slots[i].retired
        /\ slots'[i].scaled = slots[i].scaled
  BY <1>1, <1>2 DEF SlotRows
<1>5. Size' = Size /\ DOMAIN slots' = 1..Size
  <2>1. \A i \in 1..Size :
          (IF i \in chosen THEN [slots[i] EXCEPT !.retired = TRUE] ELSE slots[i]) \in SlotRows
    BY <1>2 DEF SlotRows
  <2> QED BY <1>1, <1>2, <2>1 DEF Size
<1>6. ActiveSlots' = ActiveSlots \ chosen
  BY <1>2, <1>4, <1>5 DEF ActiveSlots
<1>7. Cardinality(ActiveSlots \ chosen)
        = Cardinality(ActiveSlots) - Cardinality(ActiveSlots \cap chosen)
  BY <1>3, FS_Difference
<1>8. ActiveSlots \cap chosen = chosen
  OBVIOUS
<1>9. \A i \in 1..Size : slots'[i].retired => slots'[i].scaled
  BY <1>1, <1>4 DEF ActiveSlots
<1> QED BY <1>1, <1>5, <1>6, <1>7, <1>8, <1>9

\* Steps that leave what ScaleInv relates.
LEMMA ScaleKept ==
  ASSUME ScaleInv, SlotInv', CountsOK', Size' = Size,
         \A i \in 1..Size : /\ slots'[i].retired = slots[i].retired
                            /\ slots'[i].scaled = slots[i].scaled,
         UNCHANGED <<active, desired, unseen, announced, early>>, shutting => shutting'
  PROVE  ScaleInv'
<1>1. DOMAIN slots = 1..Size
  BY TaskNames DEF ScaleInv, SlotInv
<1>2. SlotTypeOK'
  BY DEF SlotInv
<1>3. DOMAIN slots' = 1..Size
  BY <1>2 DEF SlotTypeOK, Size
<1>4. ActiveSlots' = ActiveSlots
  BY <1>1, <1>3, SameActive
<1> QED BY <1>4 DEF ScaleInv

\* Once the decision is applied the pool has the workers it asks for.
LEMMA DecisionApplied ==
  ASSUME SlotInv, CountsOK, ApplyDesired,
         \A i \in 1..Size : slots[i].retired => slots[i].scaled
  PROVE  /\ Cardinality(ActiveSlots') = desired
         /\ \A i \in 1..Size' : slots'[i].retired => slots'[i].scaled
<1> DEFINE n == Cardinality(ActiveSlots)
<1>1. n \in Nat /\ desired \in Nat
  BY ActiveCount DEF CountsOK
<1>2. IF desired > n THEN StartWorkers(desired - n) ELSE RetireWorkers(n - desired)
  BY DEF ApplyDesired
<1>3. CASE desired > n
  <2>1. desired - n \in Nat
    BY <1>1, <1>3
  <2>2. /\ Cardinality(ActiveSlots') = n + (desired - n)
        /\ \A i \in 1..Size' : slots'[i].retired => slots'[i].scaled
    BY <1>2, <1>3, <2>1, StartCounts
  <2> QED BY <1>1, <2>2
<1>4. CASE ~(desired > n)
  <2>1. n - desired \in Nat
    BY <1>1, <1>4
  <2>2. /\ Cardinality(ActiveSlots') = n - (n - desired)
        /\ \A i \in 1..Size' : slots'[i].retired => slots'[i].scaled
    BY <1>2, <1>4, <2>1, RetireCounts
  <2> QED BY <1>1, <2>2
<1> QED BY <1>3, <1>4

\* Joining a task changes only whether its slot is finished.
LEMMA JoinRows ==
  ASSUME SlotInv, NEW t \in Live, Join(t)
  PROVE  /\ Size' = Size
         /\ \A i \in 1..Size : /\ slots'[i].retired = slots[i].retired
                               /\ slots'[i].scaled = slots[i].scaled
<1> DEFINE s == SlotOf(t)
           noted == slots[s].retired /\ ~(shutting /\ tasks[t].state = "returned")
<1>1. slots' = [slots EXCEPT ![s].finished = @ \/ noted]
  BY DEF Join
<1>2. /\ DOMAIN slots = 1..Size /\ s \in 1..Size /\ slots \in Seq(SlotRows)
      /\ \A i \in 1..Size : slots[i] \in SlotRows
  BY TaskNames DEF SlotInv, SlotTypeOK
<1> HIDE DEF s, noted
<1>3. \A i \in 1..Size : /\ slots'[i].retired = slots[i].retired
                         /\ slots'[i].scaled = slots[i].scaled
  BY <1>1, <1>2 DEF SlotRows
<1>4. Len(slots') = Len(slots)
  BY <1>1, <1>2
<1> QED BY <1>3, <1>4 DEF Size

\* In the first state the pool has its initial workers.
LEMMA InitScale == Init => ScaleInv
<1> SUFFICES ASSUME Init PROVE ScaleInv
  OBVIOUS
<1> DEFINE n == Initial + Others
<1>1. Initial \in Nat /\ n \in Nat /\ Initial <= n
  BY WorkerPoolAssumptions
<1>2. slots = [i \in 1..n |-> [retired |-> FALSE, finished |-> FALSE, scaled |-> i <= Initial]]
  BY DEF Init
<1>3. SlotInv /\ CountsOK
  BY InitSlots, WorkerPoolAssumptions DEF Init, CountsOK
<1> HIDE DEF n
<1>4. DOMAIN slots = 1..n /\ DOMAIN slots = 1..Size
  BY <1>2, <1>3, TaskNames DEF SlotInv
<1>5. \A i \in 1..n : ~slots[i].retired /\ (slots[i].scaled <=> i <= Initial)
  BY <1>2
<1>6. ActiveSlots = {i \in 1..n : i <= Initial}
  BY <1>4, <1>5 DEF ActiveSlots
<1>7. {i \in 1..n : i <= Initial} = 1..Initial
  BY <1>1
<1>8. Cardinality(1..Initial) = Initial
  BY <1>1, FS_Interval
<1>9. Cardinality(ActiveSlots) = Initial
  BY <1>6, <1>7, <1>8
<1> QED BY <1>3, <1>4, <1>5, <1>9 DEF Init, ScaleInv

\* Every step keeps the decision, the belief and the workers in step.
LEMMA NextScale ==
  ASSUME ScaleInv, [Next]_vars
  PROVE  ScaleInv'
<1>1. SlotInv' /\ CountsOK' /\ SlotInv /\ CountsOK
  BY NextManned, NextCounts DEF ScaleInv
<1>2. slots' = slots => /\ Size' = Size /\ ActiveSlots' = ActiveSlots
                        /\ \A i \in 1..Size : /\ slots'[i].retired = slots[i].retired
                                              /\ slots'[i].scaled = slots[i].scaled
  BY DEF Size, ActiveSlots
<1>3. CASE SeeSignal
  BY <1>1, <1>2, <1>3, ScaleKept DEF SeeSignal, scaleVars
<1>4. CASE ApplyDesired
  <2>1. /\ Cardinality(ActiveSlots') = desired
        /\ \A i \in 1..Size' : slots'[i].retired => slots'[i].scaled
    BY <1>1, <1>4, DecisionApplied DEF ScaleInv
  <2>2. /\ ~shutting /\ unseen /\ ~unseen'
        /\ UNCHANGED <<shutting, desired, active, announced, early>>
    BY <1>4 DEF ApplyDesired
  <2> QED BY <1>1, <2>1, <2>2 DEF ScaleInv
<1>5. CASE SupervisorEnds
  BY <1>1, <1>2, <1>5, ScaleKept DEF SupervisorEnds, scaleVars, slotVars
<1>6. ASSUME NEW t \in Live, Join(t) PROVE ScaleInv'
  BY <1>1, <1>6, JoinRows, ScaleKept DEF Join, scaleVars
<1>7. ASSUME NEW t \in Live, DelayEnds(t) \/ WorkerReturns(t) \/ WorkerPanics(t) PROVE ScaleInv'
  BY <1>1, <1>2, <1>7, ScaleKept DEF DelayEnds, WorkerReturns, WorkerPanics, scaleVars
<1>8. CASE Announce
  <2>1. /\ ~announced /\ announced' /\ active' = Initial /\ slots' = slots
        /\ UNCHANGED <<shutting, desired, unseen, early>>
    BY <1>8 DEF Announce, slotVars
  <2> QED BY <1>1, <1>2, <2>1, StartIsWithin DEF ScaleInv
<1>9. CASE Evaluate
  <2>1. PICK depth \in Depths : active' = ScaledCount(depth)
    BY <1>9 DEF Evaluate
  <2>2. /\ desired' = active' /\ unseen' /\ early' = (early \/ ~announced) /\ slots' = slots
        /\ UNCHANGED <<shutting, announced>>
    BY <1>9 DEF Evaluate, slotVars
  <2>3. InLimits(active) => InLimits(active')
    BY <1>1, <2>1, CountScaled
  <2> QED BY <1>1, <1>2, <2>2, <2>3 DEF ScaleInv
<1>10. CASE CooldownEnds \/ Shutdown
  BY <1>1, <1>2, <1>10, ScaleKept DEF CooldownEnds, Shutdown, slotVars
<1>11. CASE StartPass \/ PassEnds \/ LoopStops
  BY <1>1, <1>2, <1>11, ScaleKept DEF StartPass, PassEnds, LoopStops, slotVars, scaleVars
<1>12. CASE UNCHANGED vars
  BY <1>1, <1>2, <1>12, ScaleKept DEF vars
<1> QED BY <1>3, <1>4, <1>5, <1>6, <1>7, <1>8, <1>9, <1>10, <1>11, <1>12 DEF Next, Supervise

\* For any limits, steps, depths and start: whenever the last decision has been
\* seen the supervisor runs as many workers of the queue as the autoscaler
\* believes, their number never leaves the limits, or never gets further away
\* from them than it started, and no worker of another queue is retired (the
\* desired branch of supervise, apply_queue_depth in autoscale.rs).
THEOREM ScalingStaysApplied == Spec => []ScalingIsApplied
<1>1. Init => ScaleInv
  BY InitScale
<1>2. ScaleInv /\ [Next]_vars => ScaleInv'
  BY NextScale
<1>3. ScaleInv => ScalingIsApplied
  <2> SUFFICES ASSUME ScaleInv PROVE ScalingIsApplied
    OBVIOUS
  <2>1. DOMAIN slots = 1..Size /\ \A i \in 1..Size : slots[i] \in SlotRows
    BY TaskNames DEF ScaleInv, SlotInv
  <2>2. \A i \in DOMAIN slots : ~slots[i].scaled => ~slots[i].retired
    BY <2>1 DEF ScaleInv
  <2>3. ~shutting /\ ~early =>
          /\ announced /\ ~unseen => Cardinality(ActiveSlots) = active
          /\ WithinLimits(Cardinality(ActiveSlots))
    BY StartIsWithin DEF ScaleInv, InLimits
  <2> QED BY <2>2, <2>3 DEF ScalingIsApplied
<1> QED BY <1>1, <1>2, <1>3, PTL DEF Spec
=============================================================================
