----------------------------- MODULE MCJobRuns -----------------------------
(* Model-checking instances of JobRuns. *)
EXTENDS JobRuns, FiniteSetsExt, TLC

\* Workers and clock readings are interchangeable.
Symmetry == Permutations(Workers) \union Permutations(Stamps)

\* Where symmetry cannot be used (liveness), readings are numbers and the
\* clock always moves on to the smallest that is free.
CanonicalClock == now' # now => now' = Min(Stamps \ StoredStamps)

\* No action reads result, and storing one may always fail: runs that look
\* at progress only need not tell results apart.
ResultNotTracked == result' = result

\* FairSpec with these two reductions.  They are part of the next-state
\* relation, and of the one fair action that moves the clock, so that
\* fairness never asks for a step they exclude.
CanonicalSpec ==
  /\ Init /\ now = Min(Stamps)
  /\ [][Next /\ CanonicalClock /\ ResultNotTracked]_vars
  /\ WF_vars(Tick /\ CanonicalClock)
  /\ \A j \in Jobs : WF_vars(Reap(j)) /\ WF_vars(\E w \in Workers : Claim(w, j))
  /\ \A w \in Workers : WF_vars(Proceed(w))

=============================================================================
