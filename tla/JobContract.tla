---------------------------- MODULE JobContract ----------------------------
(***************************************************************************)
(* What the queue promises about the runs of a job, whatever leases,       *)
(* stamps, attempts and statuses it uses to keep the promise               *)
(* (src/queue/lifecycle.rs, src/queue/mod.rs).                             *)
(*                                                                         *)
(* A job starts to run only when a worker claims it, and then has one      *)
(* holder.  Only its holder settles the run.  The reaper and the operators *)
(* may take a job away from its holder at any time; the worker finds out   *)
(* only when it next calls the queue, and can then only give up.           *)
(***************************************************************************)
CONSTANTS Jobs, Workers, NoWorker, NoJob

VARIABLES
  phase,   \* "waiting", "running", "finished" or "gone"
  holder,  \* by job: the worker that may settle it
  works    \* by worker: the job it works on and whether its handler has started

vars == <<phase, holder, works>>

Init ==
  /\ phase = [j \in Jobs |-> "waiting"]
  /\ holder = [j \in Jobs |-> NoWorker]
  /\ works = [w \in Workers |-> NoJob]

\* The job is no one's, waiting, finished or gone.
Settled(j, p) ==
  /\ phase' = [phase EXCEPT ![j] = p]
  /\ holder' = [holder EXCEPT ![j] = NoWorker]

Claim(w, j) ==
  /\ works[w] = NoJob /\ phase[j] = "waiting"
  /\ phase' = [phase EXCEPT ![j] = "running"]
  /\ holder' = [holder EXCEPT ![j] = w]
  /\ \E s \in BOOLEAN : works' = [works EXCEPT ![w] = [job |-> j, started |-> s]]

Start(w) ==
  /\ works[w] # NoJob
  /\ works' = [works EXCEPT ![w] = [job |-> works[w].job, started |-> TRUE]]
  /\ UNCHANGED <<phase, holder>>

\* The holder hands the job back or records how its run ended.  It may not
\* learn that this succeeded and try again.
Settle(w) ==
  /\ works[w] # NoJob
  /\ phase[works[w].job] = "running" /\ holder[works[w].job] = w
  /\ \E p \in {"waiting", "finished"} : Settled(works[w].job, p)
  /\ works' = [works EXCEPT ![w] = NoJob] \/ UNCHANGED works

\* A job not started yet may be failed by its id, without regard to who
\* holds it (fail_held_job).
FailUnstarted(w) ==
  /\ works[w] # NoJob /\ ~works[w].started
  /\ phase[works[w].job] \in {"waiting", "running"}
  /\ Settled(works[w].job, "finished")
  /\ works' = [works EXCEPT ![w] = NoJob]

\* A crash, a lost lease, an outcome that was discarded.
GiveUp(w) ==
  /\ works[w] # NoJob
  /\ works' = [works EXCEPT ![w] = NoJob]
  /\ UNCHANGED <<phase, holder>>

\* The reaper, an operator or the archive.
TakeAway(j) ==
  /\ phase[j] # "gone"
  /\ \E p \in {"waiting", "finished", "gone"} : Settled(j, p)
  /\ UNCHANGED works

Next ==
  \/ \E w \in Workers :
       \/ \E j \in Jobs : Claim(w, j)
       \/ Start(w) \/ Settle(w) \/ FailUnstarted(w) \/ GiveUp(w)
  \/ \E j \in Jobs : TakeAway(j)

Spec == Init /\ [][Next]_vars
=============================================================================
