-------------------------------- MODULE JobSlot --------------------------------
(***************************************************************************)
(* What the job API promises, whoever executes the jobs: a project has one  *)
(* slot, a job is submitted into it, started at most once, and ends; a      *)
(* submission frees the slot by failing what is still in it.  Requests,     *)
(* tasks, the queue, timers and faults of ProjectJobs, which implements     *)
(* this specification, are steps that change nothing here.                  *)
(***************************************************************************)
EXTENDS Naturals

CONSTANTS Jobs, ProjectOf  \* as in ProjectJobs

VARIABLES
  status,  \* as a client sees it; "none" before the submission
  runs     \* how often the job was started

slotVars == <<status, runs>>

Ended == {"completed", "failed", "cancelled"}

Init ==
  /\ status = [j \in Jobs |-> "none"]
  /\ runs = [j \in Jobs |-> 0]

SameProject(j) == {k \in Jobs : ProjectOf[k] = ProjectOf[j]}

\* The jobs a submission of j has to end first, and what is in their way.
InSlot(j) == {k \in SameProject(j) : status[k] \in {"pending", "running"}}
Known(j)  == {k \in SameProject(j) : status[k] # "none"}

\* j enters with the status given, and the jobs of S are failed in the same step: all
\* that are in the slot, perhaps also some that ended while the request was under way.
Enter(j, S, to) ==
  /\ status[j] = "none"
  /\ InSlot(j) \subseteq S /\ S \subseteq Known(j)
  /\ status' = [k \in Jobs |-> IF k = j THEN to ELSE IF k \in S THEN "failed" ELSE status[k]]

Submit(j) ==
  /\ \E S \in SUBSET Known(j) : Enter(j, S, "pending")
  /\ UNCHANGED runs

\* Submitted, executed and ended within one request.
RunAtOnce(j) ==
  /\ \E S \in SUBSET Known(j), to \in {"completed", "failed"} : Enter(j, S, to)
  /\ runs' = [runs EXCEPT ![j] = @ + 1]

Start(j) ==
  /\ status[j] = "pending"
  /\ status' = [status EXCEPT ![j] = "running"]
  /\ runs' = [runs EXCEPT ![j] = @ + 1]

\* The end of a job, or of several at once.  The API lets a late writer replace one
\* end by another; "completed" takes a job that was started.
End(S, to) ==
  /\ \A j \in S : status[j] # "none"
  /\ to = "completed" => \A j \in S : runs[j] = 1
  /\ status' = [j \in Jobs |-> IF j \in S THEN to ELSE status[j]]
  /\ UNCHANGED runs

Next ==
  \/ \E j \in Jobs : Submit(j) \/ RunAtOnce(j) \/ Start(j)
  \/ \E S \in SUBSET Jobs, to \in Ended : End(S, to)

Spec == Init /\ [][Next]_slotVars

-------------------------------------------------------------------------------
\* What the three ways a job may move amount to: the slot holds one job, nothing leads
\* back to "pending", so a job is started once, and "completed" means that it was.
Promise ==
  /\ \A j \in Jobs : \A k, l \in InSlot(j) : k = l
  /\ \A j \in Jobs :
       /\ runs[j] \in 0..1
       /\ status[j] \in {"none", "pending"} => runs[j] = 0
       /\ status[j] \in {"running", "completed"} => runs[j] = 1

===============================================================================
