---------------------------- MODULE MCWorkflows ----------------------------
(* Model-checking instances of Workflows: small dependency graphs.         *)
EXTENDS Workflows

CONSTANTS a, b, c, d, e, x, y

NoJobs == [j \in Jobs |-> {}]

\* A diamond of four jobs.  The completion of b spawns e, which also depends
\* on c, the other arm.
Diamond == [NoJobs EXCEPT ![b] = {a}, ![c] = {a}, ![d] = {b, c}, ![e] = {b, c}]
DiamondChildren == [NoJobs EXCEPT ![b] = {e}]

\* A chain a <- b in one unit and a chain x <- y outside it.
TwoChains == [NoJobs EXCEPT ![b] = {a}, ![y] = {x}]

\* A chain a <- b <- x that leaves its unit with x.
ChainOut == [NoJobs EXCEPT ![b] = {a}, ![x] = {b}]

\* A job b of the batch that depends on x outside it.
DependsOutside == [NoJobs EXCEPT ![b] = {x}]

\* Chains a <- b in the workflow and x <- y in the batch, and a job c outside
\* that depends on both.
Mixed == [NoJobs EXCEPT ![b] = {a}, ![c] = {a, x}, ![y] = {x}]
=============================================================================
