--------------------------- MODULE MCKeyRotation ---------------------------
(* Instances of KeyRotation for TLC.                                       *)
EXTENDS KeyRotation, TLC

CONSTANTS m1, m2, t1, t2, t3

\* Two processes; the first runs two tasks on clones of its manager, which are
\* alike.
Cloned == t1 :> m1 @@ t2 :> m1 @@ t3 :> m2
Swap == Permutations({t1, t2})
=============================================================================
