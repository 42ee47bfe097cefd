------------------------- MODULE BatchWorkerProofs -------------------------
(***************************************************************************)
(* Proofs about BatchWorker.                                               *)
(***************************************************************************)
EXTENDS BatchWorker, FiniteSetTheorems, TLAPS

States == {"none"} \union Permitted \union HandedBack
Phases == {"polling", "permitted", "claiming", "idling", "batch", "draining", "stopped"}

\* Jobs a token was taken for and whose handler has not started.
Owing == {"queued", "lost", "confirming", "failing", "starting"} \union HandedBack

\* Pairs of a worker and a member of its set.
Pairs(A, T) == {p \in Workers \X T : p[2] \in A[p[1]]}

\* The jobs workers are busy with, and the permits or tokens they hold.
Held(S) == {p \in Workers \X Jobs : task[p[1]][p[2]] \in S}
Taken(f) == {p \in Workers \X (1..BatchSize) : p[2] <= f[p[1]]}

TypeOK ==
  /\ row \in [Jobs -> {"pending", "running", "done"}]
  /\ holder \in [Jobs -> Workers \union {NoWorker}]
  /\ {tokens, free, refilled, ran} \subseteq Nat
  /\ phase \in [Workers -> Phases]
  /\ permits \in [Workers -> 0..BatchSize] /\ inHand \in [Workers -> 0..BatchSize]
  /\ task \in [Workers -> [Jobs -> States]]

\* What a worker holds depends on where its loop is: permits and tokens while
\* it acquires, jobs while it has a batch, and no waiting jobs once it drains.
Loop(w) ==
  /\ inHand[w] <= permits[w]
  /\ phase[w] \notin {"permitted", "claiming", "idling"} => permits[w] = 0
  /\ phase[w] # "claiming" => inHand[w] = 0
  /\ phase[w] \notin {"batch", "draining"} => \A j \in Jobs : task[w][j] = "none"
  /\ phase[w] = "draining" => \A j \in Jobs : task[w][j] \notin Waiting

LoopInv == TypeOK /\ \A w \in Workers : Loop(w)

PermitsInv == LoopInv /\ PermitsConserved

\* Every token that left the bucket is in hand, owed to a job whose handler
\* has not started, or was spent on a handler.
RateInv ==
  /\ LoopInv
  /\ ran + tokens + Cardinality(Taken(inHand)) + Cardinality(Held(Owing)) <= Burst + refilled
  /\ tokens <= Burst

\* A job is put down as lost only when the run is another's.
LeftInv ==
  /\ LoopInv
  /\ \A w \in Workers, j \in Jobs : task[w][j] = "lost" => holder[j] # w
  /\ NothingLeftBehind

-----------------------------------------------------------------------------
(* Counting.                                                               *)

\* The pairs of one worker are as many as the members of its set; the others
\* do not depend on it.
LEMMA PairsSplit ==
  ASSUME NEW T, IsFiniteSet(T), NEW A \in [Workers -> SUBSET T], NEW w \in Workers,
         NEW R, R = {p \in Workers \X T : p[1] # w /\ p[2] \in A[p[1]]}
  PROVE  /\ IsFiniteSet(R) /\ Cardinality(R) \in Nat
         /\ IsFiniteSet(Pairs(A, T)) /\ Cardinality(A[w]) \in Nat
         /\ Cardinality(Pairs(A, T)) = Cardinality(R) + Cardinality(A[w])
<1> DEFINE M == {w} \X A[w]
<1>1. IsFiniteSet(Workers \X T)
  BY FS_Product, BatchWorkerAssumptions
<1>2. IsFiniteSet(R) /\ Cardinality(R) \in Nat
  <2>1. R \in SUBSET (Workers \X T)
    OBVIOUS
  <2> QED BY <1>1, <2>1, FS_Subset, FS_CardinalityType
<1>3. IsFiniteSet(A[w]) /\ Cardinality(A[w]) \in Nat
  <2>1. A[w] \in SUBSET T
    OBVIOUS
  <2> QED BY <2>1, FS_Subset, FS_CardinalityType
<1>4. IsFiniteSet(M) /\ Cardinality(M) = Cardinality(A[w])
  <2>1. IsFiniteSet({w}) /\ Cardinality({w}) = 1
    BY FS_Singleton
  <2>2. IsFiniteSet(M) /\ Cardinality(M) = 1 * Cardinality(A[w])
    BY <1>3, <2>1, FS_Product
  <2> HIDE DEF M
  <2> QED BY <1>3, <2>2
<1>5. R \intersect M = {}
  OBVIOUS
<1>6. Pairs(A, T) = R \union M
  BY DEF Pairs
<1> HIDE DEF M
<1>7. /\ IsFiniteSet(R \union M)
      /\ Cardinality(R \union M) = Cardinality(R) + Cardinality(M) - Cardinality(R \intersect M)
  BY <1>2, <1>4, FS_Union
<1>8. Cardinality(R \intersect M) = 0
  BY <1>5, FS_EmptySet
<1> QED BY <1>2, <1>3, <1>4, <1>6, <1>7, <1>8

\* A change of one worker's set changes the number of pairs by as much.
LEMMA PairsChange ==
  ASSUME NEW T, IsFiniteSet(T), NEW A \in [Workers -> SUBSET T], NEW B \in [Workers -> SUBSET T],
         NEW w \in Workers, \A u \in Workers \ {w} : B[u] = A[u]
  PROVE  /\ Cardinality(Pairs(A, T)) \in Nat /\ Cardinality(Pairs(B, T)) \in Nat
         /\ Cardinality(A[w]) \in Nat /\ Cardinality(B[w]) \in Nat
         /\ Cardinality(Pairs(B, T)) + Cardinality(A[w])
              = Cardinality(Pairs(A, T)) + Cardinality(B[w])
<1> DEFINE R(C) == {p \in Workers \X T : p[1] # w /\ p[2] \in C[p[1]]}
<1>1. R(A) = R(B)
  OBVIOUS
<1>2. /\ Cardinality(R(A)) \in Nat /\ Cardinality(A[w]) \in Nat
      /\ Cardinality(Pairs(A, T)) = Cardinality(R(A)) + Cardinality(A[w])
  BY PairsSplit
<1>3. /\ Cardinality(B[w]) \in Nat
      /\ Cardinality(Pairs(B, T)) = Cardinality(R(B)) + Cardinality(B[w])
  BY PairsSplit
<1> HIDE DEF R
<1> QED BY <1>1, <1>2, <1>3

\* A worker that changes what it does with its jobs.
LEMMA HeldChange ==
  ASSUME NEW w \in Workers, NEW S, task \in [Workers -> [Jobs -> States]],
         task' \in [Workers -> [Jobs -> States]], \A u \in Workers \ {w} : task'[u] = task[u]
  PROVE  /\ Cardinality(Held(S)) \in Nat /\ Cardinality(Held(S)') \in Nat
         /\ Cardinality(In(w, S)) \in Nat /\ Cardinality(In(w, S)') \in Nat
         /\ Cardinality(Held(S)') + Cardinality(In(w, S))
              = Cardinality(Held(S)) + Cardinality(In(w, S)')
<1> DEFINE A == [u \in Workers |-> In(u, S)]
           B == [u \in Workers |-> In(u, S)']
<1>1. Held(S) = Pairs(A, Jobs)
  BY DEF Held, Pairs, In
<1>2. Held(S)' = Pairs(B, Jobs)
  BY DEF Held, Pairs, In
<1>3. A \in [Workers -> SUBSET Jobs] /\ B \in [Workers -> SUBSET Jobs]
  BY DEF In
<1>4. \A u \in Workers \ {w} : B[u] = A[u]
  BY DEF In
<1>5. A[w] = In(w, S) /\ B[w] = In(w, S)'
  OBVIOUS
<1> HIDE DEF A, B
<1> QED BY <1>1, <1>2, <1>3, <1>4, <1>5, PairsChange, BatchWorkerAssumptions

\* A worker that changes what it does with one job.
LEMMA HeldChangeOne ==
  ASSUME TypeOK, NEW w \in Workers, NEW j \in Jobs, NEW state \in States, NEW S,
         SetTask(w, j, state)
  PROVE  /\ Cardinality(Held(S)) \in Nat /\ Cardinality(Held(S)') \in Nat
         /\ task[w][j] \in S /\ state \in S => Cardinality(Held(S)') = Cardinality(Held(S))
         /\ task[w][j] \notin S /\ state \notin S => Cardinality(Held(S)') = Cardinality(Held(S))
         /\ task[w][j] \in S /\ state \notin S => Cardinality(Held(S)') + 1 = Cardinality(Held(S))
         /\ task[w][j] \notin S /\ state \in S => Cardinality(Held(S)') = Cardinality(Held(S)) + 1
<1>1. /\ task \in [Workers -> [Jobs -> States]] /\ task' \in [Workers -> [Jobs -> States]]
      /\ \A u \in Workers \ {w} : task'[u] = task[u]
      /\ \A i \in Jobs : task'[w][i] = IF i = j THEN state ELSE task[w][i]
  BY DEF TypeOK, SetTask
<1>2. /\ Cardinality(Held(S)) \in Nat /\ Cardinality(Held(S)') \in Nat
      /\ Cardinality(In(w, S)) \in Nat /\ Cardinality(In(w, S)') \in Nat
      /\ Cardinality(Held(S)') + Cardinality(In(w, S))
           = Cardinality(Held(S)) + Cardinality(In(w, S)')
  BY <1>1, HeldChange
<1>3. IsFiniteSet(In(w, S))
  BY BatchWorkerAssumptions, FS_Subset DEF In
<1>4. CASE task[w][j] \in S <=> state \in S
  <2>1. In(w, S)' = In(w, S)
    BY <1>1, <1>4 DEF In
  <2> QED BY <1>2, <1>4, <2>1
<1>5. CASE task[w][j] \in S /\ state \notin S
  <2>1. In(w, S)' = In(w, S) \ {j} /\ j \in In(w, S)
    BY <1>1, <1>5 DEF In
  <2>2. Cardinality(In(w, S) \ {j}) = Cardinality(In(w, S)) - 1
    BY <1>3, <2>1, FS_RemoveElement
  <2> QED BY <1>2, <1>5, <2>1, <2>2
<1>6. CASE task[w][j] \notin S /\ state \in S
  <2>1. In(w, S)' = In(w, S) \union {j} /\ j \notin In(w, S)
    BY <1>1, <1>6 DEF In
  <2>2. Cardinality(In(w, S) \union {j}) = Cardinality(In(w, S)) + 1
    BY <1>3, <2>1, FS_AddElement
  <2> QED BY <1>2, <1>6, <2>1, <2>2
<1> QED BY <1>2, <1>4, <1>5, <1>6

\* A worker that takes or gives up permits or tokens.
LEMMA TakenChange ==
  ASSUME NEW f \in [Workers -> 0..BatchSize], NEW w \in Workers, NEW n \in 0..BatchSize
  PROVE  /\ Cardinality(Taken(f)) \in Nat
         /\ Cardinality(Taken([f EXCEPT ![w] = n])) \in Nat
         /\ Cardinality(Taken([f EXCEPT ![w] = n])) + f[w] = Cardinality(Taken(f)) + n
<1> DEFINE g == [f EXCEPT ![w] = n]
           A == [u \in Workers |-> 1..f[u]]
           B == [u \in Workers |-> 1..g[u]]
           T == 1..BatchSize
<1>1. BatchSize \in Nat /\ \A u \in Workers : f[u] \in Nat /\ g[u] \in Nat
  BY BatchWorkerAssumptions
<1>2. IsFiniteSet(T)
  BY <1>1, FS_Interval
<1>3. Taken(f) = Pairs(A, T) /\ Taken(g) = Pairs(B, T)
  BY <1>1 DEF Taken, Pairs
<1>4. A \in [Workers -> SUBSET T] /\ B \in [Workers -> SUBSET T]
  BY <1>1
<1>5. \A u \in Workers \ {w} : B[u] = A[u]
  OBVIOUS
<1>6. /\ A[w] = 1..f[w] /\ B[w] = 1..n
      /\ f[w] \in Nat /\ n \in Nat
  BY <1>1
<1>7. \A k \in Nat : Cardinality(1..k) = k
  <2> SUFFICES ASSUME NEW k \in Nat PROVE Cardinality(1..k) = k
    OBVIOUS
  <2>1. Cardinality(1..k) = IF 1 > k THEN 0 ELSE k - 1 + 1
    BY FS_Interval
  <2> QED BY <2>1
<1> HIDE DEF A, B, T, g
<1>8. /\ Cardinality(Pairs(A, T)) \in Nat /\ Cardinality(Pairs(B, T)) \in Nat
      /\ Cardinality(Pairs(B, T)) + Cardinality(A[w]) = Cardinality(Pairs(A, T)) + Cardinality(B[w])
  BY <1>2, <1>4, <1>5, PairsChange
<1> QED BY <1>3, <1>6, <1>7, <1>8 DEF g

-----------------------------------------------------------------------------
(* The loops.                                                              *)

\* The minimum and the refund are what they are called.
LEMMA LeastFacts ==
  \A m, n \in Nat : Least(m, n) \in Nat /\ Least(m, n) <= m /\ Least(m, n) <= n
  BY DEF Least

LEMMA RefundFacts ==
  ASSUME tokens \in Nat
  PROVE  \A n \in Nat : Refunded(n) \in Nat /\ Refunded(n) <= Burst /\ Refunded(n) <= tokens + n
<1>1. Burst \in Nat
  BY BatchWorkerAssumptions
<1> QED BY <1>1, LeastFacts DEF Refunded

\* The steps that move one job on.
LEMMA JobMoves ==
  ASSUME TypeOK, NEW w \in Workers, HandBack(w) \/ \E j \in Jobs : JobStep(w, j)
  PROVE  /\ \E j \in Jobs, state \in States :
              /\ SetTask(w, j, state) /\ task[w][j] # "none"
              /\ state \in Waiting => task[w][j] \in Waiting
         /\ UNCHANGED <<phase, permits, inHand>>
<1>1. ASSUME NEW j \in Jobs, JobStep(w, j)
      PROVE  /\ \E state \in {"none", "lost", "confirming", "starting", "processing", "failing"} :
                  /\ SetTask(w, j, state) /\ task[w][j] # "none"
                  /\ state \in Waiting => task[w][j] \in Waiting
             /\ UNCHANGED <<phase, permits, inHand>>
  BY <1>1 DEF JobStep, StartHeld, StartRun, FinishRun, ConfirmHeld, FailHeld, HeldLeaseLost,
              TaskEnds, Waiting
<1>2. ASSUME NEW j \in Jobs, Release(w, j) \/ ConfirmDoomed(w, j) \/ FailDoomed(w, j)
      PROVE  /\ \E state \in {"none", "dooming"} :
                  /\ SetTask(w, j, state) /\ task[w][j] # "none"
                  /\ state \in Waiting => task[w][j] \in Waiting
             /\ UNCHANGED <<phase, permits, inHand>>
  BY <1>2 DEF Release, ConfirmDoomed, FailDoomed, Waiting
<1>3. {"none", "lost", "confirming", "starting", "processing", "failing", "dooming"} \subseteq States
  BY DEF States, Permitted, Active, Waiting, HandedBack
<1> QED BY <1>1, <1>2, <1>3 DEF HandBack

\* The steps of w that drain its queue.
LEMMA Drains ==
  ASSUME TypeOK, NEW w \in Workers, DrainQueue(w)
  PROVE  /\ task' \in [Workers -> [Jobs -> States]]
         /\ \A u \in Workers \ {w} : task'[u] = task[u]
         /\ \A j \in Jobs : IF task[w][j] \in Waiting THEN task'[w][j] \in {"doomed", "releasing"}
                            ELSE task'[w][j] = task[w][j]
<1> DEFINE g == [j \in Jobs |-> IF task[w][j] \notin Waiting THEN task[w][j]
                 ELSE IF j \in FailFastJobs /\ knowsFailed'[w] THEN "doomed" ELSE "releasing"]
<1>1. task' = [task EXCEPT ![w] = g]
  BY DEF DrainQueue
<1>2. {"doomed", "releasing"} \subseteq States
  BY DEF States, HandedBack
<1>3. g \in [Jobs -> States]
  BY <1>2 DEF TypeOK
<1>4. \A j \in Jobs : IF task[w][j] \in Waiting THEN g[j] \in {"doomed", "releasing"}
                      ELSE g[j] = task[w][j]
  OBVIOUS
<1> HIDE DEF g
<1> QED BY <1>1, <1>3, <1>4 DEF TypeOK

WorkerStep(w) ==
  \/ Acquire(w) \/ CheckHeld(w) \/ BatchEnds(w) \/ HandBack(w) \/ Stop(w) \/ AskShutdown(w)
  \/ \E j \in Jobs : JobStep(w, j)

\* A claim.
LEMMA Claims ==
  ASSUME LoopInv, NEW w \in Workers, Dequeue(w)
  PROVE  \E S \in SUBSET Jobs :
           /\ IsFiniteSet(S) /\ Cardinality(S) \in Nat /\ Cardinality(S) <= inHand[w]
           /\ row' = [j \in Jobs |-> IF j \in S THEN "running" ELSE row[j]]
           /\ holder' = [j \in Jobs |-> IF j \in S THEN w ELSE holder[j]]
           /\ task' = [task EXCEPT ![w] = [j \in Jobs |-> IF j \in S THEN "queued" ELSE "none"]]
           /\ tokens' = Refunded(inHand[w] - Cardinality(S))
           /\ excused' = excused \ S
           /\ \/ /\ S = {} /\ phase' = [phase EXCEPT ![w] = "idling"]
                 /\ permits' = permits /\ free' = free
              \/ /\ S # {} /\ phase' = [phase EXCEPT ![w] = "batch"]
                 /\ permits' = [permits EXCEPT ![w] = 0]
                 /\ free' = free + permits[w] - Cardinality(S)
<1>1. PICK S \in Claimable(w) :
        /\ row' = [j \in Jobs |-> IF j \in S THEN "running" ELSE row[j]]
        /\ holder' = [j \in Jobs |-> IF j \in S THEN w ELSE holder[j]]
        /\ task' = [task EXCEPT ![w] = [j \in Jobs |-> IF j \in S THEN "queued" ELSE "none"]]
        /\ excused' = excused \ S
        /\ tokens' = Refunded(inHand[w] - Cardinality(S))
        /\ IF S = {}
             THEN /\ phase' = [phase EXCEPT ![w] = "idling"]
                  /\ UNCHANGED <<permits, free>>
             ELSE /\ phase' = [phase EXCEPT ![w] = "batch"]
                  /\ free' = free + permits[w] - Cardinality(S)
                  /\ permits' = [permits EXCEPT ![w] = 0]
  BY DEF Dequeue
<1>2. inHand[w] \in Nat
  BY BatchWorkerAssumptions DEF LoopInv, TypeOK
<1>3. S \in SUBSET Jobs /\ Cardinality(S) <= inHand[w]
  <2>1. Cardinality({}) = 0
    BY FS_EmptySet
  <2> QED BY <1>2, <2>1 DEF Claimable
<1>4. IsFiniteSet(S) /\ Cardinality(S) \in Nat
  BY <1>3, FS_Subset, FS_CardinalityType, BatchWorkerAssumptions
<1>5. \/ /\ S = {} /\ phase' = [phase EXCEPT ![w] = "idling"]
         /\ permits' = permits /\ free' = free
      \/ /\ S # {} /\ phase' = [phase EXCEPT ![w] = "batch"]
         /\ permits' = [permits EXCEPT ![w] = 0]
         /\ free' = free + permits[w] - Cardinality(S)
  BY <1>1
<1> QED BY <1>1, <1>3, <1>4, <1>5

\* Steps keep the types of the rows.
LEMMA RowsTyped ==
  ASSUME LoopInv, [Next]_vars
  PROVE  /\ row' \in [Jobs -> {"pending", "running", "done"}]
         /\ holder' \in [Jobs -> Workers \union {NoWorker}]
<1>0. /\ row \in [Jobs -> {"pending", "running", "done"}]
      /\ holder \in [Jobs -> Workers \union {NoWorker}]
  BY DEF LoopInv, TypeOK
<1>1. ASSUME NEW w \in Workers, Dequeue(w)
      PROVE  /\ row' \in [Jobs -> {"pending", "running", "done"}]
             /\ holder' \in [Jobs -> Workers \union {NoWorker}]
  BY <1>0, <1>1, Claims
<1>2. \/ UNCHANGED rowVars
      \/ \E w \in Workers : Dequeue(w)
      \/ \E j \in Jobs, end \in {"done", "pending"} :
           /\ row' = [row EXCEPT ![j] = end]
           /\ holder' = [holder EXCEPT ![j] = NoWorker]
      \/ BatchFails
  <2>1. ASSUME NEW w \in Workers, WorkerStep(w)
        PROVE  \/ UNCHANGED rowVars
               \/ \E v \in Workers : Dequeue(v)
               \/ \E j \in Jobs, end \in {"done", "pending"} :
                    /\ row' = [row EXCEPT ![j] = end]
                    /\ holder' = [holder EXCEPT ![j] = NoWorker]
    <3>1. CASE Acquire(w) \/ CheckHeld(w) \/ BatchEnds(w) \/ Stop(w) \/ AskShutdown(w)
      BY <3>1
      DEF Acquire, Stop, AcquirePermits, AcquireTokens, DequeueError, IdleEnds, CheckHeld,
          BatchEnds, StopIdle, BeginShutdown, Drained, GraceEnds, AskShutdown
    <3>2. CASE HandBack(w)
      BY <3>2 DEF HandBack, Release, ConfirmDoomed, FailDoomed, FailRow, rowVars
    <3>3. CASE \E j \in Jobs : JobStep(w, j)
      BY <3>3 DEF JobStep, StartHeld, StartRun, FinishRun, ConfirmHeld, FailHeld, HeldLeaseLost,
                  FailRow, rowVars
    <3> QED BY <2>1, <3>1, <3>2, <3>3 DEF WorkerStep
  <2>2. ASSUME NEW j \in Jobs, LoseRun(j)
        PROVE  \E end \in {"done", "pending"} : /\ row' = [row EXCEPT ![j] = end]
                                                /\ holder' = [holder EXCEPT ![j] = NoWorker]
    BY <2>2 DEF LoseRun
  <2>3. CASE Refill \/ TogglePause \/ UNCHANGED vars
    BY <2>3 DEF Refill, TogglePause, vars, rowVars
  <2> QED BY <2>1, <2>2, <2>3 DEF Next, WorkerStep
<1>3. CASE BatchFails
  BY <1>0, <1>3 DEF BatchFails
<1>4. CASE \E j \in Jobs, end \in {"done", "pending"} :
             /\ row' = [row EXCEPT ![j] = end]
             /\ holder' = [holder EXCEPT ![j] = NoWorker]
  BY <1>0, <1>4
<1> QED BY <1>0, <1>1, <1>2, <1>3, <1>4 DEF rowVars

\* Counts of a worker's jobs are numbers.
LEMMA InFinite ==
  \A w, S : IsFiniteSet(In(w, S)) /\ Cardinality(In(w, S)) \in Nat
<1> SUFFICES ASSUME NEW w, NEW S
             PROVE  IsFiniteSet(In(w, S)) /\ Cardinality(In(w, S)) \in Nat
  OBVIOUS
<1>1. In(w, S) \in SUBSET Jobs
  BY DEF In
<1> QED BY <1>1, FS_Subset, FS_CardinalityType, BatchWorkerAssumptions

\* Steps keep the types of the counters.
LEMMA NumbersTyped ==
  ASSUME LoopInv, [Next]_vars
  PROVE  {tokens', free', refilled', ran'} \subseteq Nat
<1>0. /\ tokens \in Nat /\ free \in Nat /\ refilled \in Nat /\ ran \in Nat
      /\ Burst \in Nat /\ BatchSize \in Nat
  BY BatchWorkerAssumptions DEF LoopInv, TypeOK
<1>1. /\ \A w \in Workers : permits[w] \in Nat /\ inHand[w] \in Nat /\ inHand[w] <= permits[w]
      /\ \A n \in Nat : Refunded(n) \in Nat
      /\ \A m, n \in Nat : Least(m, n) \in Nat /\ Least(m, n) <= m /\ Least(m, n) <= n
  <2>1. \A w \in Workers : /\ permits[w] \in 0..BatchSize /\ inHand[w] \in 0..BatchSize
                            /\ inHand[w] <= permits[w]
    BY DEF LoopInv, TypeOK, Loop
  <2>2. \A n \in 0..BatchSize : n \in Nat
    BY <1>0
  <2> QED BY <1>0, <2>1, <2>2, RefundFacts, LeastFacts
<1>2. Refunded(1) \in Nat
  BY <1>1
<1>3. ASSUME NEW w \in Workers, AcquirePermits(w) \/ AcquireTokens(w)
      PROVE  {tokens', free', refilled', ran'} \subseteq Nat
  <2>1. CASE AcquirePermits(w)
    <3>1. Least(BatchSize, free) \in Nat /\ Least(BatchSize, free) <= free
      BY <1>0, <1>1
    <3>2. free' = free - Least(BatchSize, free)
      BY <2>1 DEF AcquirePermits
    <3> QED BY <1>0, <2>1, <3>1, <3>2 DEF AcquirePermits
  <2>2. CASE AcquireTokens(w)
    <3>1. Least(permits[w], tokens) \in Nat /\ Least(permits[w], tokens) <= tokens
      BY <1>0, <1>1
    <3>2. tokens' = tokens - Least(permits[w], tokens)
      BY <2>2 DEF AcquireTokens
    <3> QED BY <1>0, <2>2, <3>1, <3>2 DEF AcquireTokens
  <2> QED BY <1>3, <2>1, <2>2
<1>4. ASSUME NEW w \in Workers, Dequeue(w)
      PROVE  {tokens', free', refilled', ran'} \subseteq Nat
  <2>1. PICK S \in SUBSET Jobs :
          /\ Cardinality(S) \in Nat /\ Cardinality(S) <= inHand[w]
          /\ tokens' = Refunded(inHand[w] - Cardinality(S))
          /\ free' = free \/ free' = free + permits[w] - Cardinality(S)
    BY <1>4, Claims
  <2>2. inHand[w] - Cardinality(S) \in Nat /\ free + permits[w] - Cardinality(S) \in Nat
    <3>1. permits[w] \in Nat /\ inHand[w] \in Nat /\ inHand[w] <= permits[w]
      BY <1>1
    <3>2. Cardinality(S) \in Nat /\ Cardinality(S) <= inHand[w]
      BY <2>1
    <3> QED BY <1>0, <3>1, <3>2
  <2> QED BY <1>0, <1>1, <1>4, <2>1, <2>2 DEF Dequeue
<1>5. ASSUME NEW w \in Workers, DequeueError(w) \/ IdleEnds(w) \/ StopIdle(w)
      PROVE  {tokens', free', refilled', ran'} \subseteq Nat
  <2>1. /\ free' = free + permits[w] /\ refilled' = refilled /\ ran' = ran
        /\ tokens' = tokens \/ tokens' = Refunded(inHand[w])
    BY <1>5 DEF DequeueError, IdleEnds, StopIdle, DropPermits
  <2>2. free + permits[w] \in Nat /\ Refunded(inHand[w]) \in Nat
    <3>1. permits[w] \in Nat /\ inHand[w] \in Nat /\ \A n \in Nat : Refunded(n) \in Nat
      BY <1>1
    <3> QED BY <1>0, <3>1
  <2> QED BY <1>0, <2>1, <2>2
<1>6. ASSUME NEW w \in Workers, CheckHeld(w) \/ BeginShutdown(w) \/ GraceEnds(w)
      PROVE  {tokens', free', refilled', ran'} \subseteq Nat
  <2>1. free' \in Nat
    BY <1>0, <1>6, InFinite DEF CheckHeld, BeginShutdown, GraceEnds, DrainQueue
  <2> QED BY <1>0, <1>6, <2>1 DEF CheckHeld, BeginShutdown, GraceEnds
<1>7. ASSUME NEW w \in Workers, HandBack(w) \/ \E j \in Jobs : JobStep(w, j)
      PROVE  {tokens', free', refilled', ran'} \subseteq Nat
  <2>1. /\ tokens' \in {tokens, Refunded(1)} /\ free' \in {free, free + 1} /\ refilled' = refilled
        /\ ran' \in {ran, ran + 1}
    <3>1. ASSUME NEW j \in Jobs, JobStep(w, j)
          PROVE  /\ tokens' \in {tokens, Refunded(1)} /\ free' \in {free, free + 1}
                 /\ refilled' = refilled /\ ran' \in {ran, ran + 1}
      BY <3>1 DEF JobStep, StartHeld, StartRun, FinishRun, ConfirmHeld, FailHeld, HeldLeaseLost,
                  TaskEnds, limitVars
    <3>2. ASSUME NEW j \in Jobs, Release(w, j) \/ ConfirmDoomed(w, j) \/ FailDoomed(w, j)
          PROVE  /\ tokens' \in {tokens, Refunded(1)} /\ free' \in {free, free + 1}
                 /\ refilled' = refilled /\ ran' \in {ran, ran + 1}
      BY <3>2 DEF Release, ConfirmDoomed, FailDoomed
    <3> QED BY <1>7, <3>1, <3>2 DEF HandBack
  <2> QED BY <1>0, <1>2, <2>1
<1>8. ASSUME NEW w \in Workers, BatchEnds(w) \/ Drained(w) \/ AskShutdown(w)
      PROVE  {tokens', free', refilled', ran'} \subseteq Nat
  BY <1>0, <1>8 DEF BatchEnds, Drained, AskShutdown, limitVars
<1>9. CASE Refill \/ BatchFails \/ TogglePause \/ UNCHANGED vars \/ \E j \in Jobs : LoseRun(j)
  BY <1>0, <1>2, <1>9 DEF Refill, BatchFails, TogglePause, vars, LoseRun, limitVars
<1> QED BY <1>3, <1>4, <1>5, <1>6, <1>7, <1>8, <1>9 DEF Next, Acquire, Stop

\* Steps keep what the loops hold.
LEMMA LoopKept == LoopInv /\ [Next]_vars => LoopInv'
<1> SUFFICES ASSUME LoopInv, [Next]_vars PROVE LoopInv'
  OBVIOUS
<1>0. TypeOK /\ \A w \in Workers : Loop(w)
  BY DEF LoopInv
<1>1. /\ row' \in [Jobs -> {"pending", "running", "done"}]
      /\ holder' \in [Jobs -> Workers \union {NoWorker}]
      /\ {tokens', free', refilled', ran'} \subseteq Nat
  BY RowsTyped, NumbersTyped
<1> DEFINE Goal == /\ phase' \in [Workers -> Phases]
                   /\ permits' \in [Workers -> 0..BatchSize] /\ inHand' \in [Workers -> 0..BatchSize]
                   /\ task' \in [Workers -> [Jobs -> States]]
                   /\ \A w \in Workers : Loop(w)'
<1>2. SUFFICES Goal
  BY <1>1 DEF LoopInv, TypeOK
<1>3. CASE UNCHANGED <<phase, permits, inHand, task>>
  BY <1>0, <1>3 DEF TypeOK, Loop
\* What follows when only the loop of w moves.
<1>4. ASSUME NEW w \in Workers, NEW at \in Phases, phase' = [phase EXCEPT ![w] = at],
             NEW n \in 0..BatchSize, permits' = [permits EXCEPT ![w] = n],
             NEW k \in 0..BatchSize, inHand' = [inHand EXCEPT ![w] = k],
             task' \in [Workers -> [Jobs -> States]],
             \A u \in Workers \ {w} : task'[u] = task[u],
             k <= n,
             at \notin {"permitted", "claiming", "idling"} => n = 0,
             at # "claiming" => k = 0,
             at \notin {"batch", "draining"} => \A j \in Jobs : task'[w][j] = "none",
             at = "draining" => \A j \in Jobs : task'[w][j] \notin Waiting
      PROVE  Goal
  <2>1. /\ phase' \in [Workers -> Phases]
        /\ permits' \in [Workers -> 0..BatchSize] /\ inHand' \in [Workers -> 0..BatchSize]
    BY <1>0, <1>4 DEF TypeOK
  <2>2. Loop(w)'
    <3>1. phase'[w] = at /\ permits'[w] = n /\ inHand'[w] = k
      BY <1>0, <1>4 DEF TypeOK
    <3> QED BY <1>4, <3>1 DEF Loop
  <2>3. ASSUME NEW u \in Workers \ {w} PROVE Loop(u)'
    <3>1. /\ phase'[u] = phase[u] /\ permits'[u] = permits[u] /\ inHand'[u] = inHand[u]
          /\ task'[u] = task[u]
      BY <1>0, <1>4 DEF TypeOK
    <3> QED BY <1>0, <3>1 DEF Loop
  <2> QED BY <1>4, <2>1, <2>2, <2>3
<1>5. /\ BatchSize \in Nat /\ 0 \in 0..BatchSize /\ 0 <= 0
      /\ \A n \in 0..BatchSize : n \in Nat /\ 0 <= n /\ n <= n
  BY BatchWorkerAssumptions
<1>6. ASSUME NEW w \in Workers
      PROVE  /\ phase = [phase EXCEPT ![w] = phase[w]] /\ phase[w] \in Phases
             /\ permits = [permits EXCEPT ![w] = permits[w]] /\ permits[w] \in 0..BatchSize
             /\ inHand = [inHand EXCEPT ![w] = inHand[w]] /\ inHand[w] \in 0..BatchSize
             /\ task \in [Workers -> [Jobs -> States]]
             /\ Loop(w)
  BY <1>0, <1>6 DEF TypeOK
<1>7. ASSUME NEW w \in Workers, AcquirePermits(w)
      PROVE  Goal
  <2> DEFINE n == Least(BatchSize, free)
  <2>1. /\ phase' = [phase EXCEPT ![w] = "permitted"] /\ permits' = [permits EXCEPT ![w] = n]
        /\ inHand' = inHand /\ task' = task /\ phase[w] = "polling"
    BY <1>7 DEF AcquirePermits
  <2>2. n \in 0..BatchSize /\ "permitted" \in Phases
    <3>1. n \in Nat /\ n <= BatchSize
      BY <1>0, <1>5, LeastFacts DEF TypeOK
    <3> QED BY <1>5, <3>1 DEF Phases
  <2>3. inHand[w] = 0 /\ \A j \in Jobs : task[w][j] = "none"
    BY <1>6, <2>1 DEF Loop
  <2> HIDE DEF n, Goal
  <2> QED BY <1>4, <1>5, <1>6, <2>1, <2>2, <2>3
<1>8. ASSUME NEW w \in Workers, AcquireTokens(w)
      PROVE  Goal
  <2> DEFINE k == Least(permits[w], tokens)
  <2>1. /\ phase' = [phase EXCEPT ![w] = "claiming"] /\ permits' = permits
        /\ inHand' = [inHand EXCEPT ![w] = k] /\ task' = task /\ phase[w] = "permitted"
    BY <1>8 DEF AcquireTokens
  <2>2. k \in 0..BatchSize /\ k <= permits[w] /\ "claiming" \in Phases
    <3>1. permits[w] \in Nat /\ tokens \in Nat /\ permits[w] <= BatchSize
      BY <1>0, <1>5, <1>6 DEF TypeOK
    <3>2. k \in Nat /\ k <= permits[w]
      BY <3>1, LeastFacts
    <3> HIDE DEF k
    <3> QED BY <1>5, <3>1, <3>2 DEF Phases
  <2>3. \A j \in Jobs : task[w][j] = "none"
    BY <1>6, <2>1 DEF Loop
  <2> HIDE DEF k, Goal
  <2> QED BY <1>4, <1>6, <2>1, <2>2, <2>3
<1>9. ASSUME NEW w \in Workers, Dequeue(w)
      PROVE  Goal
  <2>1. PICK S \in SUBSET Jobs :
          /\ task' = [task EXCEPT ![w] = [j \in Jobs |-> IF j \in S THEN "queued" ELSE "none"]]
          /\ \/ /\ S = {} /\ phase' = [phase EXCEPT ![w] = "idling"]
                /\ permits' = permits
             \/ /\ S # {} /\ phase' = [phase EXCEPT ![w] = "batch"]
                /\ permits' = [permits EXCEPT ![w] = 0]
    BY <1>9, Claims
  <2>2. inHand' = [inHand EXCEPT ![w] = 0]
    BY <1>9 DEF Dequeue
  <2>3. {"queued", "none"} \subseteq States /\ {"idling", "batch"} \subseteq Phases
    BY DEF States, Permitted, Waiting, Phases
  <2>4. /\ task' \in [Workers -> [Jobs -> States]] /\ \A u \in Workers \ {w} : task'[u] = task[u]
        /\ S = {} => \A j \in Jobs : task'[w][j] = "none"
    BY <1>6, <2>1, <2>3
  <2> HIDE DEF Goal
  <2>5. CASE S = {}
    <3>1. /\ permits' = [permits EXCEPT ![w] = permits[w]] /\ permits[w] \in 0..BatchSize
          /\ 0 <= permits[w] /\ phase' = [phase EXCEPT ![w] = "idling"]
      BY <1>5, <1>6, <2>1, <2>5
    <3>2. "idling" \in Phases
      BY <2>3
    <3> QED BY <1>4, <1>5, <2>2, <2>4, <2>5, <3>1, <3>2
  <2>6. CASE S # {}
    BY <1>4, <1>5, <2>1, <2>2, <2>3, <2>4, <2>6
  <2> QED BY <2>5, <2>6
<1>10. ASSUME NEW w \in Workers, DequeueError(w) \/ IdleEnds(w) \/ StopIdle(w)
       PROVE  Goal
  <2>1. PICK at \in {"polling", "stopped"} : phase' = [phase EXCEPT ![w] = at]
    BY <1>10 DEF DequeueError, IdleEnds, StopIdle
  <2>2. /\ permits' = [permits EXCEPT ![w] = 0] /\ task' = task
        /\ phase[w] \in {"claiming", "idling", "polling", "permitted"}
        /\ (inHand' = inHand /\ phase[w] # "claiming") \/ inHand' = [inHand EXCEPT ![w] = 0]
    BY <1>10 DEF DequeueError, IdleEnds, StopIdle, DropPermits
  <2>3. \A j \in Jobs : task[w][j] = "none"
    BY <1>6, <2>2 DEF Loop
  <2>4. inHand' = [inHand EXCEPT ![w] = 0]
    BY <1>6, <2>2 DEF Loop
  <2>5. at \in Phases
    BY DEF Phases
  <2> HIDE DEF Goal
  <2> QED BY <1>4, <1>5, <1>6, <2>1, <2>2, <2>3, <2>4, <2>5
<1>11. ASSUME NEW w \in Workers, CheckHeld(w)
       PROVE  Goal
  <2>1. CASE task' = task
    BY <1>3, <1>11, <2>1 DEF CheckHeld
  <2>2. CASE DrainQueue(w)
    <3>1. UNCHANGED <<phase, permits, inHand>> /\ phase[w] = "batch"
      BY <1>11 DEF CheckHeld
    <3>2. task' \in [Workers -> [Jobs -> States]] /\ \A u \in Workers \ {w} : task'[u] = task[u]
      BY <1>0, <2>2, Drains
    <3>3. permits[w] = 0 /\ inHand[w] = 0
      BY <1>6, <3>1 DEF Loop
    <3> HIDE DEF Goal
    <3> QED BY <1>4, <1>5, <1>6, <3>1, <3>2, <3>3
  <2> QED BY <1>11, <2>1, <2>2 DEF CheckHeld
<1>12. ASSUME NEW w \in Workers, BeginShutdown(w)
       PROVE  Goal
  <2>1. /\ phase' = [phase EXCEPT ![w] = "draining"] /\ UNCHANGED <<permits, inHand>>
        /\ phase[w] = "batch" /\ DrainQueue(w)
    BY <1>12 DEF BeginShutdown
  <2>2. /\ task' \in [Workers -> [Jobs -> States]] /\ \A u \in Workers \ {w} : task'[u] = task[u]
        /\ \A j \in Jobs : task'[w][j] \notin Waiting
    <3>1. "doomed" \notin Waiting /\ "releasing" \notin Waiting
      BY DEF Waiting
    <3> QED BY <1>0, <2>1, <3>1, Drains
  <2>3. permits[w] = 0 /\ inHand[w] = 0 /\ "draining" \in Phases
    BY <1>6, <2>1 DEF Loop, Phases
  <2> HIDE DEF Goal
  <2> QED BY <1>4, <1>5, <1>6, <2>1, <2>2, <2>3
<1>13. ASSUME NEW w \in Workers, GraceEnds(w)
       PROVE  Goal
  <2>1. /\ phase' = [phase EXCEPT ![w] = "stopped"] /\ UNCHANGED <<permits, inHand>>
        /\ phase[w] = "draining" /\ task' = [task EXCEPT ![w] = [j \in Jobs |-> "none"]]
    BY <1>13 DEF GraceEnds
  <2>2. /\ task' \in [Workers -> [Jobs -> States]] /\ \A u \in Workers \ {w} : task'[u] = task[u]
        /\ \A j \in Jobs : task'[w][j] = "none"
    BY <1>6, <2>1 DEF States
  <2>3. permits[w] = 0 /\ inHand[w] = 0 /\ "stopped" \in Phases
    BY <1>6, <2>1 DEF Loop, Phases
  <2> HIDE DEF Goal
  <2> QED BY <1>4, <1>5, <1>6, <2>1, <2>2, <2>3
<1>14. ASSUME NEW w \in Workers, BatchEnds(w) \/ Drained(w)
       PROVE  Goal
  <2>1. PICK at \in {"polling", "stopped"} : phase' = [phase EXCEPT ![w] = at]
    BY <1>14 DEF BatchEnds, Drained
  <2>2. UNCHANGED <<permits, inHand, task>> /\ phase[w] \in {"batch", "draining"}
    BY <1>14 DEF BatchEnds, Drained
  <2>3. \A j \in Jobs : task[w][j] = "none"
    <3>1. CASE BatchEnds(w)
      BY <1>6, <3>1 DEF BatchEnds, In, States
    <3>2. CASE Drained(w)
      <4>1. \A j \in Jobs : task[w][j] \notin Waiting /\ task[w][j] \notin Active \union HandedBack
        BY <1>6, <3>2 DEF Drained, In, Loop
      <4> QED BY <1>6, <4>1 DEF States, Permitted
    <3> QED BY <1>14, <3>1, <3>2
  <2>4. permits[w] = 0 /\ inHand[w] = 0 /\ at \in Phases
    BY <1>6, <2>2 DEF Loop, Phases
  <2> HIDE DEF Goal
  <2> QED BY <1>4, <1>5, <1>6, <2>1, <2>2, <2>3, <2>4
<1>15. ASSUME NEW w \in Workers, HandBack(w) \/ \E j \in Jobs : JobStep(w, j)
       PROVE  Goal
  <2>1. PICK j \in Jobs, state \in States : /\ SetTask(w, j, state) /\ task[w][j] # "none"
                                            /\ state \in Waiting => task[w][j] \in Waiting
    BY <1>0, <1>15, JobMoves
  <2>2. UNCHANGED <<phase, permits, inHand>>
    BY <1>0, <1>15, JobMoves
  <2>3. /\ task' \in [Workers -> [Jobs -> States]] /\ \A u \in Workers \ {w} : task'[u] = task[u]
        /\ \A i \in Jobs : task'[w][i] = IF i = j THEN state ELSE task[w][i]
    BY <1>6, <2>1 DEF SetTask
  <2>4. phase[w] \in {"batch", "draining"} /\ permits[w] = 0 /\ inHand[w] = 0
    BY <1>6, <2>1 DEF Loop
  <2>5. phase[w] = "draining" => \A i \in Jobs : task'[w][i] \notin Waiting
    BY <1>6, <2>1, <2>3 DEF Loop
  <2> HIDE DEF Goal
  <2> QED BY <1>4, <1>5, <1>6, <2>2, <2>3, <2>4, <2>5
<1>16. ASSUME NEW w \in Workers, AskShutdown(w)
       PROVE  Goal
  BY <1>3, <1>16 DEF AskShutdown
<1>17. CASE Refill \/ BatchFails \/ TogglePause \/ UNCHANGED vars \/ \E j \in Jobs : LoseRun(j)
  BY <1>3, <1>17 DEF Refill, BatchFails, TogglePause, vars, LoseRun
<1> HIDE DEF Goal
<1> QED BY <1>7, <1>8, <1>9, <1>10, <1>11, <1>12, <1>13, <1>14, <1>15, <1>16, <1>17
        DEF Next, Acquire, Stop

LEMMA LoopInit == Init => LoopInv
<1> SUFFICES ASSUME Init PROVE LoopInv
  OBVIOUS
<1>1. 0 \in 0..BatchSize /\ Burst \in Nat /\ MaxConcurrent \in Nat /\ 0 <= 0
  BY BatchWorkerAssumptions
<1>2. "none" \in States /\ "polling" \in Phases
  BY DEF States, Phases
<1>3. TypeOK
  BY <1>1, <1>2 DEF Init, TypeOK
<1> QED BY <1>1, <1>3 DEF Init, LoopInv, Loop

-----------------------------------------------------------------------------
(* The throttle.                                                           *)

\* A job that moves keeps its permit or drops it.
LEMMA PermitMoves ==
  ASSUME TypeOK, NEW w \in Workers, HandBack(w) \/ \E j \in Jobs : JobStep(w, j)
  PROVE  \E j \in Jobs, state \in States :
           /\ SetTask(w, j, state)
           /\ \/ task[w][j] \in Permitted /\ state \in Permitted /\ free' = free
              \/ task[w][j] \in Permitted /\ state \notin Permitted /\ free' = free + 1
              \/ task[w][j] \notin Permitted /\ state \notin Permitted /\ free' = free
<1> DEFINE Moves(j, state) ==
             /\ SetTask(w, j, state)
             /\ \/ task[w][j] \in Permitted /\ state \in Permitted /\ free' = free
                \/ task[w][j] \in Permitted /\ state \notin Permitted /\ free' = free + 1
                \/ task[w][j] \notin Permitted /\ state \notin Permitted /\ free' = free
<1>0. /\ {"queued", "lost", "confirming", "failing", "starting", "processing"} = Permitted
      /\ {"doomed", "dooming", "releasing", "none"} \intersect Permitted = {}
      /\ Permitted \union {"none", "dooming"} \subseteq States
  BY DEF Permitted, Active, Waiting, HandedBack, States
<1>1. ASSUME NEW j \in Jobs, JobStep(w, j)
      PROVE  \E state \in {"none", "lost", "confirming", "starting", "processing", "failing"} :
               Moves(j, state)
  <2>1. /\ task[w][j] \in {"queued", "lost", "confirming", "failing", "starting", "processing"}
        /\ \/ TaskEnds(w, j)
           \/ \E state \in {"lost", "confirming", "starting", "processing", "failing"} :
                SetTask(w, j, state) /\ free' = free
    BY <1>1 DEF JobStep, StartHeld, StartRun, FinishRun, ConfirmHeld, FailHeld, HeldLeaseLost,
                limitVars
  <2> QED BY <1>0, <2>1 DEF TaskEnds
<1>2. ASSUME NEW j \in Jobs, Release(w, j) \/ ConfirmDoomed(w, j) \/ FailDoomed(w, j)
      PROVE  \E state \in {"none", "dooming"} : Moves(j, state)
  BY <1>0, <1>2 DEF Release, ConfirmDoomed, FailDoomed
<1> HIDE DEF Moves
<1>3. \E j \in Jobs, state \in States : Moves(j, state)
  BY <1>0, <1>1, <1>2 DEF HandBack
<1> QED BY <1>3 DEF Moves

\* Steps keep the account of permits.
LEMMA PermitsKept == PermitsInv /\ [Next]_vars => PermitsInv'
<1> SUFFICES ASSUME PermitsInv, [Next]_vars PROVE PermitsInv'
  OBVIOUS
<1> DEFINE H == Cardinality(Held(Permitted))
           P == Cardinality(Taken(permits))
<1>0. LoopInv /\ LoopInv' /\ TypeOK /\ TypeOK' /\ free + H + P = MaxConcurrent
  BY LoopKept DEF PermitsInv, PermitsConserved, Held, Taken, LoopInv
<1>1. SUFFICES free' + H' + P' = MaxConcurrent
  BY <1>0 DEF PermitsInv, PermitsConserved, Held, Taken
<1>2. /\ task \in [Workers -> [Jobs -> States]] /\ task' \in [Workers -> [Jobs -> States]]
      /\ permits \in [Workers -> 0..BatchSize] /\ \A w \in Workers : permits[w] \in Nat
      /\ free \in Nat /\ BatchSize \in Nat /\ 0 \in 0..BatchSize /\ MaxConcurrent \in Nat
  BY <1>0, BatchWorkerAssumptions DEF TypeOK
<1>3. ASSUME NEW w \in Workers
      PROVE  H \in Nat /\ P \in Nat
  <2>1. P \in Nat
    BY <1>2, TakenChange
  <2>2. H \in Nat
    <3>1. IsFiniteSet(Workers \X Jobs) /\ Held(Permitted) \in SUBSET (Workers \X Jobs)
      BY BatchWorkerAssumptions, FS_Product DEF Held
    <3> QED BY <3>1, FS_Subset, FS_CardinalityType
  <2> QED BY <2>1, <2>2
<1>4. CASE UNCHANGED <<task, permits, free>>
  BY <1>0, <1>4 DEF Held
<1>5. ASSUME NEW w \in Workers, NEW n \in 0..BatchSize, permits' = [permits EXCEPT ![w] = n]
      PROVE  P' \in Nat /\ P' + permits[w] = P + n
  BY <1>2, <1>5, TakenChange
<1>6. ASSUME NEW w \in Workers, AcquirePermits(w)
      PROVE  free' + H' + P' = MaxConcurrent
  <2> DEFINE n == Least(BatchSize, free)
  <2>1. /\ permits' = [permits EXCEPT ![w] = n] /\ free' = free - n /\ task' = task
        /\ phase[w] = "polling"
    BY <1>6 DEF AcquirePermits
  <2>2. n \in 0..BatchSize /\ n \in Nat /\ n <= free
    <3>1. n \in Nat /\ n <= BatchSize /\ n <= free
      BY <1>2, LeastFacts
    <3> QED BY <1>2, <3>1
  <2>3. permits[w] = 0
    BY <1>0, <2>1 DEF LoopInv, Loop
  <2>4. H' = H
    BY <2>1 DEF Held
  <2> HIDE DEF n, H, P
  <2>5. P' \in Nat /\ P' + 0 = P + n
    BY <1>5, <2>1, <2>2, <2>3
  <2> QED BY <1>0, <1>2, <1>3, <2>1, <2>2, <2>4, <2>5
<1>7. ASSUME NEW w \in Workers, DequeueError(w) \/ IdleEnds(w) \/ StopIdle(w)
      PROVE  free' + H' + P' = MaxConcurrent
  <2>1. /\ permits' = [permits EXCEPT ![w] = 0] /\ free' = free + permits[w] /\ task' = task
    BY <1>7 DEF DequeueError, IdleEnds, StopIdle, DropPermits
  <2>2. H' = H
    BY <2>1 DEF Held
  <2> HIDE DEF H, P
  <2>3. P' \in Nat /\ P' + permits[w] = P + 0 /\ permits[w] \in Nat
    BY <1>2, <1>5, <2>1
  <2> QED BY <1>0, <1>2, <1>3, <2>1, <2>2, <2>3
<1>8. ASSUME NEW w \in Workers, \A u \in Workers \ {w} : task'[u] = task[u]
      PROVE  /\ H' \in Nat /\ Cardinality(In(w, Permitted)) \in Nat
             /\ Cardinality(In(w, Permitted)') \in Nat
             /\ H' + Cardinality(In(w, Permitted)) = H + Cardinality(In(w, Permitted)')
  BY <1>2, <1>8, HeldChange
<1>9. ASSUME NEW w \in Workers, Dequeue(w)
      PROVE  free' + H' + P' = MaxConcurrent
  <2>1. PICK S \in SUBSET Jobs :
          /\ IsFiniteSet(S) /\ Cardinality(S) \in Nat /\ Cardinality(S) <= inHand[w]
          /\ task' = [task EXCEPT ![w] = [j \in Jobs |-> IF j \in S THEN "queued" ELSE "none"]]
          /\ \/ S = {} /\ permits' = permits /\ free' = free
             \/ /\ S # {} /\ permits' = [permits EXCEPT ![w] = 0]
                /\ free' = free + permits[w] - Cardinality(S)
    BY <1>0, <1>9, Claims
  <2>2. phase[w] = "claiming" /\ Loop(w)
    BY <1>0, <1>9 DEF Dequeue, LoopInv
  <2>3. "queued" \in Permitted /\ "none" \notin Permitted
    BY DEF Permitted, Active, Waiting
  <2>4. In(w, Permitted) = {} /\ In(w, Permitted)' = S /\ \A u \in Workers \ {w} : task'[u] = task[u]
    BY <1>2, <2>1, <2>2, <2>3 DEF In, Loop
  <2>5. H' \in Nat /\ H' = H + Cardinality(S)
    <3>1. Cardinality({}) = 0
      BY FS_EmptySet
    <3> HIDE DEF H
    <3>2. H' \in Nat /\ H' + 0 = H + Cardinality(S) /\ H \in Nat
      BY <1>3, <1>8, <2>4, <3>1
    <3>3. Cardinality(S) \in Nat
      BY <2>1
    <3> QED BY <3>2, <3>3
  <2>6. inHand[w] \in Nat /\ permits[w] \in Nat /\ inHand[w] <= permits[w]
    BY <1>0, <1>2, <2>2 DEF TypeOK, Loop
  <2>7. CASE S = {}
    <3>1. Cardinality(S) = 0
      BY <2>7, FS_EmptySet
    <3>2. P' = P /\ free' = free
      BY <2>1, <2>7
    <3> HIDE DEF H, P
    <3> QED BY <1>0, <1>2, <1>3, <2>5, <3>1, <3>2
  <2>8. CASE S # {}
    <3> HIDE DEF H, P
    <3>1. P' \in Nat /\ P' + permits[w] = P + 0
      BY <1>2, <1>5, <2>1, <2>8
    <3>2. Cardinality(S) \in Nat /\ free' = free + permits[w] - Cardinality(S)
      BY <2>1, <2>8
    <3> QED BY <1>0, <1>2, <1>3, <2>5, <2>6, <3>1, <3>2
  <2> QED BY <2>7, <2>8
<1>10. ASSUME NEW w \in Workers, DrainQueue(w), permits' = permits
       PROVE  free' + H' + P' = MaxConcurrent
  <2>1. /\ \A u \in Workers \ {w} : task'[u] = task[u]
        /\ \A j \in Jobs : IF task[w][j] \in Waiting THEN task'[w][j] \in {"doomed", "releasing"}
                           ELSE task'[w][j] = task[w][j]
    BY <1>0, <1>10, Drains
  <2>2. free' = free + Cardinality(In(w, Waiting)) /\ P' = P
    BY <1>10 DEF DrainQueue
  <2>3. Waiting \intersect Active = {} /\ {"doomed", "releasing"} \intersect Permitted = {}
    BY DEF Waiting, Active, Permitted
  <2>4. In(w, Permitted)' = In(w, Active)
    BY <2>1, <2>3 DEF In, Permitted
  <2>5. In(w, Permitted) = In(w, Active) \union In(w, Waiting) /\ In(w, Active) \intersect In(w, Waiting) = {}
    BY <2>3 DEF In, Permitted
  <2>6. Cardinality(In(w, Permitted)) = Cardinality(In(w, Active)) + Cardinality(In(w, Waiting))
    <3>1. Cardinality(In(w, Active) \union In(w, Waiting))
            = Cardinality(In(w, Active)) + Cardinality(In(w, Waiting))
              - Cardinality(In(w, Active) \intersect In(w, Waiting))
      BY InFinite, FS_Union
    <3>2. /\ Cardinality(In(w, Active)) \in Nat /\ Cardinality(In(w, Waiting)) \in Nat
          /\ Cardinality(In(w, Active) \intersect In(w, Waiting)) = 0
      BY <2>5, InFinite, FS_EmptySet
    <3> QED BY <2>5, <3>1, <3>2
  <2>7. Cardinality(In(w, Active)) \in Nat /\ Cardinality(In(w, Waiting)) \in Nat
    BY InFinite
  <2> HIDE DEF H, P
  <2>8. H' \in Nat /\ H' + Cardinality(In(w, Permitted)) = H + Cardinality(In(w, Active))
    BY <1>8, <2>1, <2>4
  <2>9. H \in Nat /\ P \in Nat /\ free \in Nat
    BY <1>2, <1>3
  <2>10. H' + Cardinality(In(w, Waiting)) = H
    BY <2>6, <2>7, <2>8, <2>9
  <2> QED BY <1>0, <2>2, <2>7, <2>8, <2>9, <2>10
<1>11. ASSUME NEW w \in Workers, GraceEnds(w)
       PROVE  free' + H' + P' = MaxConcurrent
  <2>1. /\ free' = free + Cardinality(In(w, Active)) /\ permits' = permits /\ phase[w] = "draining"
        /\ task' = [task EXCEPT ![w] = [j \in Jobs |-> "none"]]
    BY <1>11 DEF GraceEnds
  <2>2. \A j \in Jobs : task[w][j] \notin Waiting
    BY <1>0, <2>1 DEF LoopInv, Loop
  <2>3. /\ In(w, Permitted) = In(w, Active) /\ In(w, Permitted)' = {}
        /\ \A u \in Workers \ {w} : task'[u] = task[u]
    <3>1. "none" \notin Permitted
      BY DEF Permitted, Active, Waiting
    <3> QED BY <1>2, <2>1, <2>2, <3>1 DEF In, Permitted
  <2>4. Cardinality({}) = 0 /\ Cardinality(In(w, Active)) \in Nat
    BY FS_EmptySet, InFinite
  <2>5. P' = P
    BY <2>1
  <2> HIDE DEF H, P
  <2>6. H' \in Nat /\ H' + Cardinality(In(w, Active)) = H + 0
    BY <1>8, <2>3, <2>4
  <2> QED BY <1>0, <1>2, <1>3, <2>1, <2>4, <2>5, <2>6
<1>12. ASSUME NEW w \in Workers, HandBack(w) \/ \E j \in Jobs : JobStep(w, j)
       PROVE  free' + H' + P' = MaxConcurrent
  <2>1. permits' = permits
    BY <1>0, <1>12, JobMoves
  <2>2. PICK j \in Jobs, state \in States :
          /\ SetTask(w, j, state)
          /\ \/ task[w][j] \in Permitted /\ state \in Permitted /\ free' = free
             \/ task[w][j] \in Permitted /\ state \notin Permitted /\ free' = free + 1
             \/ task[w][j] \notin Permitted /\ state \notin Permitted /\ free' = free
    BY <1>0, <1>12, PermitMoves
  <2>3. /\ H' \in Nat
        /\ (free' = free /\ H' = H) \/ (free' = free + 1 /\ H' + 1 = H)
    BY <1>0, <2>2, HeldChangeOne
  <2>4. P' = P
    BY <2>1
  <2> HIDE DEF H, P
  <2> QED BY <1>0, <1>2, <1>3, <2>3, <2>4
<1>13. ASSUME NEW w \in Workers,
              AcquireTokens(w) \/ CheckHeld(w) \/ BeginShutdown(w) \/ BatchEnds(w) \/ Drained(w)
                \/ AskShutdown(w)
       PROVE  UNCHANGED <<task, permits, free>> \/ (DrainQueue(w) /\ permits' = permits)
  BY <1>13 DEF AcquireTokens, CheckHeld, BeginShutdown, BatchEnds, Drained, AskShutdown, limitVars
<1>14. CASE Refill \/ BatchFails \/ TogglePause \/ UNCHANGED vars \/ \E j \in Jobs : LoseRun(j)
  BY <1>4, <1>14 DEF Refill, BatchFails, TogglePause, vars, LoseRun, limitVars
<1> HIDE DEF H, P
<1> QED BY <1>4, <1>6, <1>7, <1>9, <1>10, <1>11, <1>12, <1>13, <1>14 DEF Next, Acquire, Stop

\* No permit of the throttle leaks or is dropped twice, for any number of
\* workers, jobs and permits: the worker's acquisition, its batch and its
\* shutdown account for every one (acquire_batch, run_batch_until_done).
THEOREM PermitsAreConserved == Spec => []PermitsConserved
<1>1. Init => PermitsInv
  <2> SUFFICES ASSUME Init PROVE PermitsInv
    OBVIOUS
  <2>1. Held(Permitted) = {}
    BY DEF Init, Held, Permitted, Active, Waiting
  <2>2. Taken(permits) = {}
    BY BatchWorkerAssumptions DEF Init, Taken
  <2>3. free = MaxConcurrent /\ MaxConcurrent \in Nat /\ Cardinality({}) = 0
    BY BatchWorkerAssumptions, FS_EmptySet DEF Init
  <2>4. free + Cardinality(Held(Permitted)) + Cardinality(Taken(permits)) = MaxConcurrent
    BY <2>1, <2>2, <2>3
  <2> QED BY <2>4, LoopInit DEF PermitsInv, PermitsConserved, Held, Taken
<1>2. PermitsInv => PermitsConserved
  BY DEF PermitsInv
<1> QED BY <1>1, <1>2, PermitsKept, PTL DEF Spec

-----------------------------------------------------------------------------
(* The rate limit.                                                         *)

\* A job that moves keeps its token, or the token is refunded, lost or spent.
LEMMA TokenMoves ==
  ASSUME TypeOK, NEW w \in Workers, HandBack(w) \/ \E j \in Jobs : JobStep(w, j)
  PROVE  /\ \E j \in Jobs, state \in States :
              /\ SetTask(w, j, state)
              /\ \/ /\ (task[w][j] \in Owing <=> state \in Owing)
                    /\ tokens' = tokens /\ ran' = ran
                 \/ /\ task[w][j] \in Owing /\ state \notin Owing
                    /\ tokens' \in {tokens, Refunded(1)} /\ ran' = ran
                 \/ /\ task[w][j] \in Owing /\ state \notin Owing
                    /\ tokens' = tokens /\ ran' = ran + 1
         /\ refilled' = refilled
<1> DEFINE Moves(j, state) ==
             /\ SetTask(w, j, state)
             /\ \/ /\ (task[w][j] \in Owing <=> state \in Owing)
                   /\ tokens' = tokens /\ ran' = ran
                \/ /\ task[w][j] \in Owing /\ state \notin Owing
                   /\ tokens' \in {tokens, Refunded(1)} /\ ran' = ran
                \/ /\ task[w][j] \in Owing /\ state \notin Owing
                   /\ tokens' = tokens /\ ran' = ran + 1
<1>0. /\ Owing = {"queued", "lost", "confirming", "failing", "starting", "doomed", "dooming",
                  "releasing"}
      /\ Owing \union {"none", "processing"} \subseteq States
  BY DEF Owing, Permitted, Active, Waiting, HandedBack, States
<1>1. ASSUME NEW j \in Jobs, JobStep(w, j)
      PROVE  \E state \in {"none", "lost", "confirming", "starting", "processing", "failing"} :
               Moves(j, state) /\ refilled' = refilled
  <2>1. CASE StartHeld(w, j)
    BY <1>0, <2>1 DEF StartHeld, TaskEnds
  <2>2. CASE StartRun(w, j)
    BY <1>0, <2>2 DEF StartRun, TaskEnds
  <2>3. CASE FinishRun(w, j) \/ HeldLeaseLost(w, j)
    BY <1>0, <2>3 DEF FinishRun, HeldLeaseLost, TaskEnds, limitVars
  <2>4. CASE ConfirmHeld(w, j) \/ FailHeld(w, j)
    BY <1>0, <2>4 DEF ConfirmHeld, FailHeld, TaskEnds
  <2> QED BY <1>1, <2>1, <2>2, <2>3, <2>4 DEF JobStep
<1>2. ASSUME NEW j \in Jobs, Release(w, j) \/ ConfirmDoomed(w, j) \/ FailDoomed(w, j)
      PROVE  \E state \in {"none", "dooming"} : Moves(j, state) /\ refilled' = refilled
  BY <1>0, <1>2 DEF Release, ConfirmDoomed, FailDoomed
<1> HIDE DEF Moves
<1>3. \E j \in Jobs, state \in States : Moves(j, state) /\ refilled' = refilled
  BY <1>0, <1>1, <1>2 DEF HandBack
<1> QED BY <1>3 DEF Moves

\* The counts are numbers.
LEMMA CountsAreNumbers ==
  /\ \A S : Cardinality(Held(S)) \in Nat /\ Cardinality(Held(S)') \in Nat
  /\ \A f : Cardinality(Taken(f)) \in Nat
<1>1. BatchSize \in Nat
  BY BatchWorkerAssumptions
<1>2. IsFiniteSet(1..BatchSize)
  BY <1>1, FS_Interval
<1>3. IsFiniteSet(Workers \X Jobs) /\ IsFiniteSet(Workers \X (1..BatchSize))
  BY <1>2, BatchWorkerAssumptions, FS_Product
<1>4. \A S : Held(S) \in SUBSET (Workers \X Jobs) /\ Held(S)' \in SUBSET (Workers \X Jobs)
  BY DEF Held
<1>5. \A f : Taken(f) \in SUBSET (Workers \X (1..BatchSize))
  BY DEF Taken
<1> QED BY <1>3, <1>4, <1>5, FS_Subset, FS_CardinalityType

\* Steps keep the account of tokens.
LEMMA RateKept == RateInv /\ [Next]_vars => RateInv'
<1> SUFFICES ASSUME RateInv, [Next]_vars PROVE RateInv'
  OBVIOUS
<1>0. /\ LoopInv /\ LoopInv' /\ TypeOK /\ TypeOK'
      /\ ran + tokens + Cardinality(Taken(inHand)) + Cardinality(Held(Owing)) <= Burst + refilled
      /\ tokens <= Burst
  BY LoopKept DEF RateInv, LoopInv
<1>1. /\ task \in [Workers -> [Jobs -> States]] /\ task' \in [Workers -> [Jobs -> States]]
      /\ inHand \in [Workers -> 0..BatchSize] /\ BatchSize \in Nat /\ 0 \in 0..BatchSize
      /\ \A w \in Workers : inHand[w] \in Nat
  BY <1>0, BatchWorkerAssumptions DEF TypeOK
\* The counts before and after the step.
<1>2. PICK r \in Nat, k \in Nat, c \in Nat, r2 \in Nat, k2 \in Nat, c2 \in Nat :
        ran = r /\ tokens = k /\ refilled = c /\ ran' = r2 /\ tokens' = k2 /\ refilled' = c2
  BY <1>0 DEF TypeOK
<1>3. PICK h \in Nat, h2 \in Nat, t \in Nat, t2 \in Nat :
        /\ h = Cardinality(Held(Owing)) /\ h2 = Cardinality(Held(Owing)')
        /\ t = Cardinality(Taken(inHand)) /\ t2 = Cardinality(Taken(inHand'))
  BY CountsAreNumbers
<1>4. r + k + t + h <= Burst + c /\ k <= Burst /\ Burst \in Nat
  BY <1>0, <1>2, <1>3, BatchWorkerAssumptions
<1> DEFINE Goal == r2 + k2 + t2 + h2 <= Burst + c2 /\ k2 <= Burst
<1>5. SUFFICES Goal
  <2>1. ran' + tokens' + Cardinality(Taken(inHand')) + Cardinality(Held(Owing)') <= Burst + refilled'
    BY <1>2, <1>3, <1>5
  <2>2. tokens' <= Burst
    BY <1>2, <1>5
  <2> QED BY <1>0, <2>1, <2>2 DEF RateInv
<1>6. task' = task => h2 = h
  BY <1>3 DEF Held
<1>7. inHand' = inHand => t2 = t
  BY <1>3
<1>8. ASSUME NEW w \in Workers, NEW n \in 0..BatchSize, inHand' = [inHand EXCEPT ![w] = n]
      PROVE  t2 + inHand[w] = t + n
  BY <1>1, <1>3, <1>8, TakenChange
<1>9. \A n \in Nat : Refunded(n) <= Burst /\ Refunded(n) <= k + n
  BY <1>2, RefundFacts
<1>10. ASSUME NEW w \in Workers, \A u \in Workers \ {w} : task'[u] = task[u]
       PROVE  /\ Cardinality(In(w, Owing)) \in Nat /\ Cardinality(In(w, Owing)') \in Nat
              /\ h2 + Cardinality(In(w, Owing)) = h + Cardinality(In(w, Owing)')
  BY <1>1, <1>3, <1>10, HeldChange
<1>11. CASE UNCHANGED <<task, inHand, tokens, refilled, ran>>
  <2>1. r2 = r /\ k2 = k /\ c2 = c /\ h2 = h /\ t2 = t
    BY <1>2, <1>6, <1>7, <1>11
  <2> QED BY <1>4, <2>1
<1>12. ASSUME NEW w \in Workers, AcquireTokens(w)
       PROVE  Goal
  <2>1. PICK n : n = Least(permits[w], tokens)
    OBVIOUS
  <2>2. /\ inHand' = [inHand EXCEPT ![w] = n] /\ tokens' = tokens - n /\ task' = task
        /\ UNCHANGED <<ran, refilled>> /\ phase[w] = "permitted"
    BY <1>12, <2>1 DEF AcquireTokens
  <2>3. n \in 0..BatchSize /\ n \in Nat
    <3>1. permits[w] \in Nat /\ permits[w] <= BatchSize
      BY <1>0, <1>1 DEF TypeOK
    <3>2. n \in Nat /\ n <= permits[w]
      BY <1>2, <2>1, <3>1, LeastFacts
    <3> QED BY <1>1, <3>1, <3>2
  <2>4. inHand[w] = 0
    BY <1>0, <2>2 DEF LoopInv, Loop
  <2>5. t2 + 0 = t + n
    BY <1>8, <2>2, <2>3, <2>4
  <2>6. r2 = r /\ k2 = k - n /\ c2 = c /\ h2 = h
    BY <1>2, <1>6, <2>2
  <2> QED BY <1>4, <2>3, <2>5, <2>6
<1>13. ASSUME NEW w \in Workers, DequeueError(w)
       PROVE  Goal
  <2>1. /\ inHand' = [inHand EXCEPT ![w] = 0] /\ tokens' = Refunded(inHand[w]) /\ task' = task
        /\ UNCHANGED <<ran, refilled>>
    BY <1>13 DEF DequeueError
  <2>2. t2 + inHand[w] = t + 0 /\ inHand[w] \in Nat
    BY <1>1, <1>8, <2>1
  <2>3. r2 = r /\ c2 = c /\ h2 = h /\ k2 <= Burst /\ k2 <= k + inHand[w]
    BY <1>2, <1>6, <1>9, <2>1, <2>2
  <2> QED BY <1>4, <2>2, <2>3
<1>14. ASSUME NEW w \in Workers, Dequeue(w)
       PROVE  Goal
  <2>1. PICK S \in SUBSET Jobs :
          /\ IsFiniteSet(S) /\ Cardinality(S) \in Nat /\ Cardinality(S) <= inHand[w]
          /\ task' = [task EXCEPT ![w] = [j \in Jobs |-> IF j \in S THEN "queued" ELSE "none"]]
          /\ tokens' = Refunded(inHand[w] - Cardinality(S))
    BY <1>0, <1>14, Claims
  <2>2. /\ phase[w] = "claiming" /\ Loop(w) /\ UNCHANGED <<ran, refilled>>
        /\ inHand' = [inHand EXCEPT ![w] = 0]
    BY <1>0, <1>14 DEF Dequeue, LoopInv
  <2>3. "queued" \in Owing /\ "none" \notin Owing
    BY DEF Owing, HandedBack
  <2>4. In(w, Owing) = {} /\ In(w, Owing)' = S /\ \A u \in Workers \ {w} : task'[u] = task[u]
    BY <1>1, <2>1, <2>2, <2>3 DEF In, Loop
  <2>5. h2 + 0 = h + Cardinality(S)
    <3>1. Cardinality({}) = 0
      BY FS_EmptySet
    <3> QED BY <1>10, <2>4, <3>1
  <2>6. t2 + inHand[w] = t + 0 /\ inHand[w] \in Nat
    BY <1>1, <1>8, <2>2
  <2>7. inHand[w] - Cardinality(S) \in Nat /\ Cardinality(S) \in Nat
    BY <2>1, <2>6
  <2>8. k2 <= Burst /\ k2 <= k + (inHand[w] - Cardinality(S))
    BY <1>2, <1>9, <2>1, <2>7
  <2>9. r2 = r /\ c2 = c
    BY <1>2, <2>2
  <2> QED BY <1>4, <2>5, <2>6, <2>7, <2>8, <2>9
<1>15. ASSUME NEW w \in Workers, DrainQueue(w), UNCHANGED <<inHand, tokens, refilled, ran>>
       PROVE  Goal
  <2>1. /\ \A u \in Workers \ {w} : task'[u] = task[u]
        /\ \A j \in Jobs : IF task[w][j] \in Waiting THEN task'[w][j] \in {"doomed", "releasing"}
                           ELSE task'[w][j] = task[w][j]
    BY <1>0, <1>15, Drains
  <2>2. Waiting \subseteq Owing /\ {"doomed", "releasing"} \subseteq Owing
    BY DEF Waiting, Owing, HandedBack
  <2>3. In(w, Owing)' = In(w, Owing)
    BY <2>1, <2>2 DEF In
  <2>4. /\ Cardinality(In(w, Owing)) \in Nat
        /\ h2 + Cardinality(In(w, Owing)) = h + Cardinality(In(w, Owing))
    BY <1>10, <2>1, <2>3
  <2>5. r2 = r /\ k2 = k /\ c2 = c /\ t2 = t
    BY <1>2, <1>7, <1>15
  <2> QED BY <1>4, <2>4, <2>5
<1>16. ASSUME NEW w \in Workers, GraceEnds(w)
       PROVE  Goal
  <2>1. /\ UNCHANGED <<inHand, tokens, refilled, ran>>
        /\ task' = [task EXCEPT ![w] = [j \in Jobs |-> "none"]]
    BY <1>16 DEF GraceEnds
  <2>2. In(w, Owing)' = {} /\ \A u \in Workers \ {w} : task'[u] = task[u]
    <3>1. "none" \notin Owing
      BY DEF Owing, HandedBack
    <3> QED BY <1>1, <2>1, <3>1 DEF In
  <2>3. Cardinality({}) = 0
    BY FS_EmptySet
  <2>4. Cardinality(In(w, Owing)) \in Nat /\ h2 + Cardinality(In(w, Owing)) = h + 0
    BY <1>10, <2>2, <2>3
  <2>5. r2 = r /\ k2 = k /\ c2 = c /\ t2 = t
    BY <1>2, <1>7, <2>1
  <2> QED BY <1>4, <2>4, <2>5
<1>17. ASSUME NEW w \in Workers, HandBack(w) \/ \E j \in Jobs : JobStep(w, j)
       PROVE  Goal
  <2>1. inHand' = inHand /\ refilled' = refilled
    BY <1>0, <1>17, JobMoves, TokenMoves
  <2>2. PICK j \in Jobs, state \in States :
          /\ SetTask(w, j, state)
          /\ \/ /\ (task[w][j] \in Owing <=> state \in Owing)
                /\ tokens' = tokens /\ ran' = ran
             \/ /\ task[w][j] \in Owing /\ state \notin Owing
                /\ tokens' \in {tokens, Refunded(1)} /\ ran' = ran
             \/ /\ task[w][j] \in Owing /\ state \notin Owing
                /\ tokens' = tokens /\ ran' = ran + 1
    BY <1>0, <1>17, TokenMoves
  <2>3. /\ (task[w][j] \in Owing <=> state \in Owing) => h2 = h
        /\ task[w][j] \in Owing /\ state \notin Owing => h2 + 1 = h
    BY <1>0, <1>3, <2>2, HeldChangeOne
  <2>4. Refunded(1) <= Burst /\ Refunded(1) <= k + 1
    BY <1>9
  <2>5. t2 = t /\ c2 = c
    BY <1>2, <1>7, <2>1
  <2>6. \/ h2 = h /\ k2 = k /\ r2 = r
        \/ h2 + 1 = h /\ k2 = k /\ r2 = r
        \/ h2 + 1 = h /\ k2 = Refunded(1) /\ r2 = r
        \/ h2 + 1 = h /\ k2 = k /\ r2 = r + 1
    BY <1>2, <2>2, <2>3
  <2>7. CASE h2 = h /\ k2 = k /\ r2 = r
    BY <1>4, <2>5, <2>7
  <2>8. CASE h2 + 1 = h /\ k2 = k /\ r2 = r
    BY <1>4, <2>5, <2>8
  <2>9. CASE h2 + 1 = h /\ k2 = Refunded(1) /\ r2 = r
    BY <1>4, <2>4, <2>5, <2>9
  <2>10. CASE h2 + 1 = h /\ k2 = k /\ r2 = r + 1
    BY <1>4, <2>5, <2>10
  <2> QED BY <2>6, <2>7, <2>8, <2>9, <2>10
<1>18. ASSUME NEW w \in Workers,
              AcquirePermits(w) \/ IdleEnds(w) \/ StopIdle(w) \/ CheckHeld(w) \/ BeginShutdown(w)
                \/ BatchEnds(w) \/ Drained(w) \/ AskShutdown(w)
       PROVE  /\ UNCHANGED <<inHand, tokens, refilled, ran>>
              /\ task' = task \/ DrainQueue(w)
  BY <1>18 DEF AcquirePermits, IdleEnds, StopIdle, CheckHeld, BeginShutdown, BatchEnds, Drained,
               AskShutdown, limitVars
<1>19. CASE Refill
  <2>1. UNCHANGED <<task, inHand, ran>> /\ tokens' = Refunded(1) /\ refilled' = refilled + 1
    BY <1>19 DEF Refill
  <2>2. r2 = r /\ c2 = c + 1 /\ h2 = h /\ t2 = t /\ k2 <= Burst /\ k2 <= k + 1
    BY <1>2, <1>6, <1>7, <1>9, <2>1
  <2> QED BY <1>4, <2>2
<1>20. CASE BatchFails \/ TogglePause \/ UNCHANGED vars \/ \E j \in Jobs : LoseRun(j)
  BY <1>11, <1>20 DEF BatchFails, TogglePause, vars, LoseRun, limitVars
<1> HIDE DEF Goal
<1> QED BY <1>11, <1>12, <1>13, <1>14, <1>15, <1>16, <1>17, <1>18, <1>19, <1>20
        DEF Next, Acquire, Stop

\* The rate limit holds over any stretch of time, for any number of workers
\* and jobs: tokens are taken before jobs are known and refunded on many
\* paths, and still no more handlers start than the burst and the refills
\* allow (acquire_batch, refund_rate_token).
THEOREM RateLimitIsKept == Spec => []RateIsKept
<1>1. Init => RateInv
  <2> SUFFICES ASSUME Init PROVE RateInv
    OBVIOUS
  <2>1. Held(Owing) = {}
    BY DEF Init, Held, Owing, HandedBack
  <2>2. Taken(inHand) = {}
    BY BatchWorkerAssumptions DEF Init, Taken
  <2>3. tokens = Burst /\ ran = 0 /\ refilled = 0 /\ Burst \in Nat /\ Cardinality({}) = 0
    BY BatchWorkerAssumptions, FS_EmptySet DEF Init
  <2> QED BY <2>1, <2>2, <2>3, LoopInit DEF RateInv
<1>2. RateInv => RateIsKept
  <2> SUFFICES ASSUME RateInv PROVE RateIsKept
    OBVIOUS
  <2>1. /\ ran \in Nat /\ tokens \in Nat /\ refilled \in Nat /\ Burst \in Nat /\ tokens <= Burst
        /\ inHand \in [Workers -> 0..BatchSize] /\ BatchSize \in Nat
        /\ ran + tokens + Cardinality(Taken(inHand)) + Cardinality(Held(Owing)) <= Burst + refilled
    BY BatchWorkerAssumptions DEF RateInv, LoopInv, TypeOK
  <2>2. Cardinality(Taken(inHand)) \in Nat /\ Cardinality(Held(Owing)) \in Nat
    BY CountsAreNumbers
  <2> QED BY <2>1, <2>2 DEF RateIsKept
<1> QED BY <1>1, <1>2, RateKept, PTL DEF Spec

-----------------------------------------------------------------------------
(* The claimed jobs.                                                       *)

\* Steps keep the claimed jobs in hand.
LEMMA LeftKept == LeftInv /\ [Next]_vars => LeftInv'
<1> SUFFICES ASSUME LeftInv, [Next]_vars PROVE LeftInv'
  OBVIOUS
<1> DEFINE Kept(u, i) == /\ task[u][i] = "lost" => holder[i] # u
                         /\ holder[i] = u /\ task[u][i] = "none" => i \in excused
           Goal == \A u \in Workers, i \in Jobs : Kept(u, i)'
<1>0. LoopInv /\ LoopInv' /\ TypeOK /\ TypeOK' /\ \A u \in Workers, i \in Jobs : Kept(u, i)
  BY LoopKept DEF LeftInv, LoopInv, NothingLeftBehind
<1>1. SUFFICES Goal
  BY <1>0 DEF LeftInv, NothingLeftBehind
<1>2. /\ task \in [Workers -> [Jobs -> States]] /\ row \in [Jobs -> {"pending", "running", "done"}]
      /\ holder \in [Jobs -> Workers \union {NoWorker}] /\ NoWorker \notin Workers
      /\ \A u \in Workers : Loop(u)
  BY <1>0, BatchWorkerAssumptions DEF TypeOK, LoopInv
<1>3. CASE UNCHANGED <<task, holder, excused>>
  BY <1>0, <1>3
\* What follows when w moves j on and takes up no new job.
<1>4. ASSUME NEW w \in Workers, NEW j \in Jobs, NEW state \in States, SetTask(w, j, state),
             holder' = holder \/ holder' = [holder EXCEPT ![j] = NoWorker],
             excused \subseteq excused',
             state = "lost" => holder[j] # w,
             state = "none" => holder'[j] # w \/ j \in excused'
      PROVE  Goal
  <2>1. /\ \A u \in Workers, i \in Jobs :
             task'[u][i] = IF u = w /\ i = j THEN state ELSE task[u][i]
        /\ \A i \in Jobs : holder'[i] = holder[i] \/ (i = j /\ holder'[i] = NoWorker)
    BY <1>2, <1>4 DEF SetTask
  <2>2. SUFFICES ASSUME NEW u \in Workers, NEW i \in Jobs PROVE Kept(u, i)'
    OBVIOUS
  <2>3. CASE u = w /\ i = j
    BY <1>2, <1>4, <2>1, <2>3
  <2>4. CASE ~(u = w /\ i = j)
    BY <1>0, <1>2, <1>4, <2>1, <2>4
  <2> QED BY <2>3, <2>4
<1>5. ASSUME NEW w \in Workers, NEW j \in Jobs, JobStep(w, j)
      PROVE  Goal
  <2>0. {"none", "lost", "confirming", "starting", "processing", "failing"} \subseteq States
    BY DEF States, Permitted, Active, Waiting
  <2>1. CASE StartHeld(w, j)
    <3>1. /\ UNCHANGED <<holder, excused>>
          /\ \/ task[w][j] = "lost" /\ SetTask(w, j, "none")
             \/ \E state \in {"confirming", "starting", "processing"} : SetTask(w, j, state)
      BY <2>1 DEF StartHeld, TaskEnds, rowVars
    <3>2. task[w][j] = "lost" => holder[j] # w
      BY <1>0
    <3> HIDE DEF Goal
    <3> QED BY <1>4, <2>0, <3>1, <3>2
  <2>2. CASE StartRun(w, j)
    <3>1. /\ UNCHANGED <<holder, excused>>
          /\ \/ holder[j] # w /\ SetTask(w, j, "none")
             \/ SetTask(w, j, "processing")
      BY <2>2 DEF StartRun, TaskEnds, rowVars
    <3> HIDE DEF Goal
    <3> QED BY <1>4, <2>0, <3>1
  <2>3. CASE FinishRun(w, j)
    <3>1. /\ SetTask(w, j, "none") /\ excused \subseteq excused'
          /\ \/ holder' = [holder EXCEPT ![j] = NoWorker]
             \/ holder[j] # w /\ holder' = holder
             \/ Excuse(w, {j}) /\ holder' = holder
      BY <2>3 DEF FinishRun, TaskEnds, rowVars, Excuse
    <3>2. holder'[j] # w \/ j \in excused'
      BY <1>2, <3>1 DEF Excuse
    <3> HIDE DEF Goal
    <3> QED BY <1>4, <2>0, <3>1, <3>2
  <2>4. CASE ConfirmHeld(w, j)
    <3>1. /\ UNCHANGED <<holder, excused>>
          /\ \/ holder[j] # w /\ SetTask(w, j, "none")
             \/ SetTask(w, j, "failing")
      BY <2>4 DEF ConfirmHeld, TaskEnds, rowVars
    <3> HIDE DEF Goal
    <3> QED BY <1>4, <2>0, <3>1
  <2>5. CASE FailHeld(w, j)
    <3>1. /\ SetTask(w, j, "none") /\ excused \subseteq excused'
          /\ \/ holder' = [holder EXCEPT ![j] = NoWorker]
             \/ Excuse(w, {j}) /\ holder' = holder
      BY <2>5 DEF FailHeld, FailRow, TaskEnds, rowVars, Excuse
    <3>2. holder'[j] # w \/ j \in excused'
      BY <1>2, <3>1 DEF Excuse
    <3> HIDE DEF Goal
    <3> QED BY <1>4, <2>0, <3>1, <3>2
  <2>6. CASE HeldLeaseLost(w, j)
    <3>1. UNCHANGED <<holder, excused>> /\ holder[j] # w /\ SetTask(w, j, "lost")
      BY <2>6 DEF HeldLeaseLost, rowVars
    <3> HIDE DEF Goal
    <3> QED BY <1>4, <2>0, <3>1
  <2> QED BY <1>5, <2>1, <2>2, <2>3, <2>4, <2>5, <2>6 DEF JobStep
<1>6. ASSUME NEW w \in Workers, NEW j \in Jobs,
             Release(w, j) \/ ConfirmDoomed(w, j) \/ FailDoomed(w, j)
      PROVE  Goal
  <2>0. {"none", "dooming"} \subseteq States
    BY DEF States, HandedBack
  <2>1. CASE Release(w, j)
    <3>1. /\ SetTask(w, j, "none") /\ excused \subseteq excused'
          /\ \/ holder' = [holder EXCEPT ![j] = NoWorker]
             \/ holder[j] # w /\ holder' = holder
             \/ Excuse(w, {j}) /\ holder' = holder
      BY <2>1 DEF Release, rowVars, Excuse
    <3>2. holder'[j] # w \/ j \in excused'
      BY <1>2, <3>1 DEF Excuse
    <3> HIDE DEF Goal
    <3> QED BY <1>4, <2>0, <3>1, <3>2
  <2>2. CASE ConfirmDoomed(w, j)
    <3>1. /\ UNCHANGED <<holder, excused>>
          /\ \/ holder[j] # w /\ SetTask(w, j, "none")
             \/ SetTask(w, j, "dooming")
      BY <2>2 DEF ConfirmDoomed, rowVars
    <3> HIDE DEF Goal
    <3> QED BY <1>4, <2>0, <3>1
  <2>3. CASE FailDoomed(w, j)
    <3>1. /\ SetTask(w, j, "none") /\ excused \subseteq excused'
          /\ \/ holder' = [holder EXCEPT ![j] = NoWorker]
             \/ Excuse(w, {j}) /\ holder' = holder
      BY <2>3 DEF FailDoomed, FailRow, rowVars, Excuse
    <3>2. holder'[j] # w \/ j \in excused'
      BY <1>2, <3>1 DEF Excuse
    <3> HIDE DEF Goal
    <3> QED BY <1>4, <2>0, <3>1, <3>2
  <2> QED BY <1>6, <2>1, <2>2, <2>3
<1>7. ASSUME NEW w \in Workers, Dequeue(w)
      PROVE  Goal
  <2>1. PICK S \in SUBSET Jobs :
          /\ holder' = [j \in Jobs |-> IF j \in S THEN w ELSE holder[j]]
          /\ task' = [task EXCEPT ![w] = [j \in Jobs |-> IF j \in S THEN "queued" ELSE "none"]]
          /\ excused' = excused \ S
    BY <1>0, <1>7, Claims
  <2>2. \A j \in Jobs : task[w][j] = "none"
    BY <1>2, <1>7 DEF Dequeue, Loop
  <2>3. SUFFICES ASSUME NEW u \in Workers, NEW i \in Jobs PROVE Kept(u, i)'
    OBVIOUS
  <2>4. CASE i \in S
    <3>1. holder'[i] = w /\ (u = w => task'[u][i] = "queued")
      BY <1>2, <2>1, <2>4
    <3> QED BY <3>1
  <2>5. CASE i \notin S
    <3>1. holder'[i] = holder[i] /\ task'[u][i] = task[u][i] /\ (i \in excused => i \in excused')
      BY <1>2, <2>1, <2>2, <2>5
    <3> QED BY <1>0, <3>1
  <2> QED BY <2>4, <2>5
<1>8. ASSUME NEW w \in Workers, DrainQueue(w), UNCHANGED <<holder, excused>>
      PROVE  Goal
  <2>1. /\ \A u \in Workers \ {w} : task'[u] = task[u]
        /\ \A j \in Jobs : task'[w][j] \in {"doomed", "releasing"} \/ task'[w][j] = task[w][j]
    BY <1>0, <1>8, Drains
  <2> QED BY <1>0, <1>8, <2>1
<1>9. ASSUME NEW w \in Workers, GraceEnds(w)
      PROVE  Goal
  <2>1. /\ holder' = holder /\ task' = [task EXCEPT ![w] = [j \in Jobs |-> "none"]]
        /\ excused' = excused \union {j \in In(w, Active) : holder[j] = w}
        /\ phase[w] = "draining" /\ In(w, HandedBack) = {}
    BY <1>9 DEF GraceEnds, rowVars, Excuse
  <2>2. \A j \in Jobs : task[w][j] = "none" \/ j \in In(w, Active)
    <3>1. \A j \in Jobs : task[w][j] \in States /\ task[w][j] \notin Waiting /\ task[w][j] \notin HandedBack
      BY <1>2, <2>1 DEF Loop, In
    <3> QED BY <3>1 DEF States, Permitted, In
  <2>3. SUFFICES ASSUME NEW u \in Workers, NEW i \in Jobs PROVE Kept(u, i)'
    OBVIOUS
  <2>4. CASE u = w
    <3>1. task'[u][i] = "none" /\ (holder[i] = w => i \in excused')
      BY <1>0, <1>2, <2>1, <2>2, <2>4
    <3> QED BY <2>1, <2>4, <3>1
  <2>5. CASE u # w
    <3>1. task'[u][i] = task[u][i]
      BY <1>2, <2>1, <2>5
    <3> QED BY <1>0, <2>1, <3>1
  <2> QED BY <2>4, <2>5
<1>10. ASSUME NEW j \in Jobs, LoseRun(j)
       PROVE  Goal
  <2>1. holder' = [holder EXCEPT ![j] = NoWorker] /\ excused' = excused \ {j} /\ task' = task
    BY <1>10 DEF LoseRun
  <2> QED BY <1>0, <1>2, <2>1
<1>11. ASSUME NEW w \in Workers,
              AcquirePermits(w) \/ AcquireTokens(w) \/ DequeueError(w) \/ IdleEnds(w) \/ StopIdle(w)
                \/ CheckHeld(w) \/ BeginShutdown(w) \/ BatchEnds(w) \/ Drained(w) \/ AskShutdown(w)
       PROVE  UNCHANGED <<holder, excused>> /\ (task' = task \/ DrainQueue(w))
  BY <1>11
  DEF AcquirePermits, AcquireTokens, DequeueError, IdleEnds, StopIdle, CheckHeld, BeginShutdown,
      BatchEnds, Drained, AskShutdown, rowVars
<1>12. CASE Refill \/ BatchFails \/ TogglePause \/ UNCHANGED vars
  BY <1>3, <1>12 DEF Refill, BatchFails, TogglePause, vars, rowVars
<1> HIDE DEF Goal
<1> QED BY <1>3, <1>5, <1>6, <1>7, <1>8, <1>9, <1>10, <1>11, <1>12
        DEF Next, Acquire, Stop, HandBack

\* A claimed job is never forgotten while its row is the worker's run, for any
\* number of workers and jobs: on every path of the batch the worker either
\* still has the job, or its outcome or release was written, or the run was
\* given up after an error or at the end of the grace period
\* (run_batch_until_done, hand_back_unstarted).
THEOREM ClaimedJobsAreKept == Spec => []NothingLeftBehind
<1>1. Init => LeftInv
  <2> SUFFICES ASSUME Init PROVE LeftInv
    OBVIOUS
  <2>1. /\ \A w \in Workers, j \in Jobs : task[w][j] = "none" /\ holder[j] = NoWorker
        /\ NoWorker \notin Workers
    BY BatchWorkerAssumptions DEF Init
  <2> QED BY <2>1, LoopInit DEF LeftInv, NothingLeftBehind
<1>2. LeftInv => NothingLeftBehind
  BY DEF LeftInv
<1> QED BY <1>1, <1>2, LeftKept, PTL DEF Spec
=============================================================================
