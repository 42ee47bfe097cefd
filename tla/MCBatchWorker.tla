--------------------------- MODULE MCBatchWorker ---------------------------
(* Model-checking instances of BatchWorker.                                *)
EXTENDS BatchWorker, TLC

\* Jobs outside the fail-fast batch are interchangeable, and so are workers.
Symmetry == Permutations(Workers) \union Permutations(Jobs \ FailFastJobs)
=============================================================================
