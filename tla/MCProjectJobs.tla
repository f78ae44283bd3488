----------------------------- MODULE MCProjectJobs -----------------------------
(* Instances of ProjectJobs for TLC.                                         *)
EXTENDS ProjectJobs, TLC

CONSTANTS j1, j2, p1, t1, t2, h1, h2, w1

\* All jobs belong to one project: the project is what they compete for.
OneProject == [j \in Jobs |-> p1]

\* Handlers differ in nothing but their state, and so do tasks of one process.  (Jobs
\* may differ in CommitsEarly.)
Symmetry == Permutations(Handlers) \cup Permutations(WebTasks)
===============================================================================
