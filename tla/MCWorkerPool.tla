---------------------------- MODULE MCWorkerPool ----------------------------
(* Model-checking instances of WorkerPool.                                 *)
EXTENDS WorkerPool
=============================================================================
