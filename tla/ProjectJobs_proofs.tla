--------------------------- MODULE ProjectJobs_proofs ---------------------------
(* Theorems about ProjectJobs, for any set of jobs, projects, handlers and      *)
(* tasks, any thresholds and any number of faults; and its refinement of the    *)
(* slot that JobSlot promises.                                                  *)
EXTENDS ProjectJobs, TLAPS

USE ConstantsAssumption

-------------------------------------------------------------------------------
(* Types.                                                                       *)

RowsTyped ==
  /\ status \in [Jobs -> Statuses]
  /\ age \in [Jobs -> 0..MaxAge]
  /\ runs \in [Jobs -> Nat]
  /\ effects \in [Jobs -> Nat]

TasksTyped ==
  /\ taskPc \in [Tasks -> TaskPcs]
  /\ taskJob \in [Tasks -> Jobs \cup {None}]
  /\ taskSeen \in [Tasks -> Statuses \cup {None}]
  /\ taskTimer \in [Tasks -> 0..WorkerTimeout]
  /\ \A e \in Tasks : taskPc[e] # "idle" => taskJob[e] \in Jobs

ReqsTyped ==
  /\ reqPc \in [Handlers -> ReqPcs]
  /\ reqJob \in [Handlers -> Jobs \cup {None}]
  /\ reqProject \in [Handlers -> Projects \cup {None}]
  /\ reqJobs \in [Handlers -> SUBSET Jobs]
  /\ reqTo \in [Handlers -> {"failed", "cancelled"}]
  /\ \A h \in Handlers : reqPc[h] \in {"create", "inline", "enqueue"} => reqJob[h] \in Jobs
  /\ \A h \in Handlers : reqPc[h] = "writereread" => reqProject[h] \in Projects

\* Statements about the program counters that give an operation its arguments:
\* a task at work has a job, a request under way has the row it is about.
PcsTyped ==
  /\ \A e \in Tasks : taskPc[e] # "idle" => taskJob[e] \in Jobs
  /\ \A h \in Handlers : reqPc[h] \in {"create", "inline", "enqueue"} => reqJob[h] \in Jobs
  /\ \A h \in Handlers : reqPc[h] = "writereread" => reqProject[h] \in Projects

TypeInv == TypeOK /\ PcsTyped

LEMMA TypeParts ==
  TypeInv <=> /\ RowsTyped /\ TasksTyped /\ ReqsTyped
              /\ queue \subseteq Jobs /\ watchdog \subseteq Jobs /\ faults \in 0..MaxFaults
BY DEF TypeInv, TypeOK, PcsTyped, RowsTyped, TasksTyped, ReqsTyped

LEMMA MaxAgeNat == MaxAge \in Nat \ {0}
BY DEF MaxAge

LEMMA TypeInit == Init => TypeInv
BY MaxAgeNat DEF Init, TypeInv, TypeOK, PcsTyped, Statuses, ActiveStatuses, TerminalStatuses,
   TaskPcs, ReqPcs

\* The helpers keep the part of the state they assign in its type.
LEMMA SetTaskType ==
  ASSUME TasksTyped, NEW e \in Tasks, NEW pc \in TaskPcs, NEW j \in Jobs \cup {None},
         NEW seen \in Statuses \cup {None}, NEW t \in 0..WorkerTimeout,
         pc # "idle" => j \in Jobs,
         SetTask(e, pc, j, seen, t)
  PROVE  TasksTyped'
BY DEF TasksTyped, SetTask

LEMMA SpawnType ==
  ASSUME TasksTyped, NEW j \in Jobs, Spawn(j) \/ Kick(j) \/ UNCHANGED taskVars
  PROVE  TasksTyped'
<1>1. ASSUME NEW e \in WebTasks, SetTask(e, "start", j, None, 0)
      PROVE  TasksTyped'
  BY <1>1, SetTaskType DEF Tasks, TaskPcs
<1>2. ASSUME UNCHANGED taskVars
      PROVE  TasksTyped'
  BY <1>2 DEF taskVars, TasksTyped
<1> QED
  BY <1>1, <1>2 DEF Spawn, Kick, IdleWebTasks

LEMMA SetReqType ==
  ASSUME ReqsTyped, NEW h \in Handlers, NEW pc \in ReqPcs, NEW j \in Jobs \cup {None},
         NEW p \in Projects \cup {None}, NEW S \in SUBSET Jobs, NEW to \in {"failed", "cancelled"},
         pc \in {"create", "inline", "enqueue"} => j \in Jobs,
         pc = "writereread" => p \in Projects,
         SetReq(h, pc, j, p, S, to)
  PROVE  ReqsTyped'
BY DEF ReqsTyped, SetReq

LEMMA EndReqType ==
  ASSUME ReqsTyped, NEW h \in Handlers, EndReq(h)
  PROVE  ReqsTyped'
BY SetReqType DEF EndReq, ReqPcs

\* The type invariant, action by action.
LEMMA TypeExec ==
  ASSUME TypeInv, NEW e \in Tasks, ExecStep(e)
  PROVE  TypeInv'
<1> USE DEF TypeInv, TypeOK, PcsTyped, Statuses, ActiveStatuses, TerminalStatuses, TaskPcs,
        rowVars, reqVars, taskVars
<1>0. MaxAge \in Nat \ {0}
  BY MaxAgeNat
<1>1. CASE ExecRead(e)
  BY <1>1 DEF ExecRead, SetTask, EndTask
<1>2. CASE ExecLock(e)
  BY <1>2 DEF ExecLock, GoTo
<1>3. CASE ExecClaim(e)
  <2>1. CASE status[taskJob[e]] = "pending"
    <3>1. taskJob[e] \in Jobs
      BY <1>3 DEF ExecClaim
    <3>2. status' \in [Jobs -> Statuses] /\ age' \in [Jobs -> 0..MaxAge]
      BY <1>0, <1>3, <2>1 DEF ExecClaim, SetStatus
    <3>3. runs' \in [Jobs -> Nat] /\ effects' \in [Jobs -> Nat]
      BY <1>3, <2>1, <3>1 DEF ExecClaim
    <3>4. TasksTyped'
      BY <1>3, <2>1, <3>1, SetTaskType, TypeParts DEF ExecClaim, TasksTyped
    <3> QED
      BY <1>3, <3>2, <3>3, <3>4 DEF ExecClaim, TasksTyped
  <2>2. CASE status[taskJob[e]] # "pending"
    BY <1>3, <2>2 DEF ExecClaim, SetTask, EndTask
  <2> QED
    BY <2>1, <2>2
<1>4. CASE BodyDone(e)
  BY <1>4 DEF BodyDone, GoTo
<1>5. CASE BodyFails(e)
  BY <1>5 DEF BodyFails, GoTo
<1>6. CASE ExecFinish(e)
  BY <1>0, <1>6 DEF ExecFinish, SetStatus, SetTask, EndTask
<1>7. CASE ExecError(e)
  BY <1>7 DEF ExecError, GoTo
<1>8. CASE FailRead(e)
  BY <1>8 DEF FailRead, SetTask, EndTask
<1>9. CASE FailWrite(e)
  BY <1>0, <1>9 DEF FailWrite, SetStatus, SetTask, EndTask
<1> QED
  BY <1>1, <1>2, <1>3, <1>4, <1>5, <1>6, <1>7, <1>8, <1>9 DEF ExecStep

LEMMA TypeWorker ==
  ASSUME TypeInv,
         \/ \E w \in WorkerTasks, j \in Jobs : WorkerTake(w, j)
         \/ \E w \in WorkerTasks : WorkerTimesOut(w)
         \/ \E j \in Jobs : WatchdogFires(j)
  PROVE  TypeInv'
<1> USE DEF TypeInv, TypeOK, PcsTyped, Statuses, TaskPcs, Tasks, rowVars, reqVars, taskVars
<1>1. ASSUME NEW w \in WorkerTasks, NEW j \in Jobs, WorkerTake(w, j)
      PROVE  TypeInv'
  BY <1>1 DEF WorkerTake, SetTask
<1>2. ASSUME NEW w \in WorkerTasks, WorkerTimesOut(w)
      PROVE  TypeInv'
  BY <1>2 DEF WorkerTimesOut, EndTask, SetTask
<1>3. ASSUME NEW j \in Jobs, WatchdogFires(j)
      PROVE  TypeInv'
  BY <1>3 DEF WatchdogFires, Spawn, SetTask, IdleWebTasks
<1> QED
  BY <1>1, <1>2, <1>3

LEMMA TypeStartedRequest ==
  ASSUME TypeInv, NEW h \in Handlers, HandlerStep(h) \/ RequestDies(h)
  PROVE  TypeInv'
<1> USE DEF TypeInv, TypeOK, PcsTyped, Statuses, ActiveStatuses, TerminalStatuses, TaskPcs,
        ReqPcs, Tasks, IdleWebTasks, rowVars, reqVars, taskVars
<1>0. MaxAge \in Nat \ {0}
  BY MaxAgeNat
<1>1. CASE CommitJob(h)
  <2>1. reqJob[h] \in Jobs /\ reqJobs[h] \in SUBSET Jobs
    BY <1>1 DEF CommitJob
  <2>2. RowsTyped'
    BY <1>0, <1>1, <2>1 DEF CommitJob, RowsTyped
  <2>3. ReqsTyped'
    BY <1>1, <2>1, SetReqType, EndReqType, TypeParts DEF CommitJob
  <2> QED
    BY <1>1, <2>2, <2>3 DEF CommitJob, RowsTyped, ReqsTyped
<1>2. CASE RunInline(h)
  <2>1. RowsTyped'
    BY <1>0, <1>2 DEF RunInline, RowsTyped
  <2>2. ReqsTyped'
    BY <1>2, EndReqType, TypeParts DEF RunInline
  <2> QED
    BY <1>2, <2>1, <2>2 DEF RunInline, RowsTyped, ReqsTyped
<1>3. CASE Enqueue(h)
  BY <1>3 DEF Enqueue, SetReq, EndReq
<1>4. CASE EnqueueFails(h)
  <2>1. TasksTyped'
    BY <1>4, SpawnType, TypeParts DEF EnqueueFails
  <2>2. ReqsTyped'
    BY <1>4, EndReqType, TypeParts DEF EnqueueFails
  <2> QED
    BY <1>4, <2>1, <2>2 DEF EnqueueFails, TasksTyped, ReqsTyped
<1>5. CASE ScheduleInProcess(h)
  BY <1>5 DEF ScheduleInProcess, Spawn, SetTask, SetReq, EndReq
<1>6. CASE RereadActiveJob(h)
  BY <1>6 DEF RereadActiveJob, ActiveJobs, Kick, Spawn, SetTask, SetReq, EndReq
<1>7. CASE WriteStatus(h)
  <2>1. RowsTyped'
    BY <1>0, <1>7 DEF WriteStatus, SetStatus, RowsTyped
  <2>2. ReqsTyped'
    BY <1>7, SetReqType, EndReqType, TypeParts DEF WriteStatus
  <2> QED
    BY <1>7, <2>1, <2>2 DEF WriteStatus, RowsTyped, ReqsTyped
<1>8. CASE RequestDies(h)
  BY <1>8 DEF RequestDies, Fault, SetReq, EndReq
<1> QED
  BY <1>1, <1>2, <1>3, <1>4, <1>5, <1>6, <1>7, <1>8 DEF HandlerStep

\* What a handler may do first.
HandlerStart(h) ==
  \/ \E j \in Jobs :
       \/ \E pc \in {"create", "inline"} : CreateJob(h, j, pc)
       \/ GetJob(h, j) \/ CancelJob(h, j) \/ AdminCancelJob(h, j)
  \/ \E p \in Projects : GetActiveJob(h, p)
  \/ AdminJobsHealth(h)

LEMMA TypeNewRequest ==
  ASSUME TypeInv, NEW h \in Handlers, HandlerStart(h)
  PROVE  TypeInv'
<1> USE DEF TypeInv, TypeOK, PcsTyped, Statuses, TaskPcs, ReqPcs, Tasks, IdleWebTasks,
        rowVars, reqVars, taskVars
<1>1. ASSUME NEW j \in Jobs, NEW pc \in {"create", "inline"}, CreateJob(h, j, pc)
      PROVE  TypeInv'
  BY <1>1 DEF CreateJob, ActiveJobs, SetReq
<1>2. ASSUME NEW j \in Jobs, GetJob(h, j)
      PROVE  TypeInv'
  <2>1. TasksTyped'
    BY <1>2, SpawnType, TypeParts DEF GetJob
  <2>2. ReqsTyped'
    <3>1. CASE UNCHANGED reqVars
      BY <3>1 DEF ReqsTyped
    <3>2. CASE SetReq(h, "write", None, None, {j}, "failed")
      BY <3>2, SetReqType, TypeParts
    <3> QED
      BY <1>2, <3>1, <3>2 DEF GetJob
  <2> QED
    BY <1>2, <2>1, <2>2 DEF GetJob, TasksTyped, ReqsTyped
<1>3. ASSUME NEW j \in Jobs, CancelJob(h, j) \/ AdminCancelJob(h, j)
      PROVE  TypeInv'
  <2>1. \E to \in {"failed", "cancelled"} : SetReq(h, "write", None, None, {j}, to)
    BY <1>3 DEF CancelJob, AdminCancelJob
  <2>2. ReqsTyped'
    BY <2>1, SetReqType, TypeParts
  <2> QED
    BY <1>3, <2>2 DEF CancelJob, AdminCancelJob, ReqsTyped
<1>4. ASSUME NEW p \in Projects, GetActiveJob(h, p)
      PROVE  TypeInv'
  BY <1>4 DEF GetActiveJob, ActiveJobs, SetReq
<1>5. CASE AdminJobsHealth(h)
  BY <1>5 DEF AdminJobsHealth, SetReq
<1> HIDE DEF TypeInv
<1> QED
  BY <1>1, <1>2, <1>3, <1>4, <1>5 DEF HandlerStart

LEMMA TypeEnvironment ==
  ASSUME TypeInv, Tick \/ WorkerCrash \/ WebCrash \/ QueueLost \/ \E e \in Tasks : TaskDies(e)
  PROVE  TypeInv'
<1> USE DEF TypeInv, TypeOK, PcsTyped, Statuses, TaskPcs, ReqPcs, Tasks, Fault,
        rowVars, reqVars, taskVars
<1>1. CASE Tick
  BY <1>1, MaxAgeNat DEF Tick
<1>2. CASE WorkerCrash
  BY <1>2 DEF WorkerCrash
<1>3. CASE WebCrash
  BY <1>3 DEF WebCrash
<1>4. CASE QueueLost
  BY <1>4 DEF QueueLost
<1>5. ASSUME NEW e \in Tasks, TaskDies(e)
      PROVE  TypeInv'
  BY <1>5 DEF TaskDies, EndTask, SetTask
<1> QED
  BY <1>1, <1>2, <1>3, <1>4, <1>5

\* The cases of Next as the lemmas have them.
LEMMA NextCases ==
  ASSUME Next
  PROVE  \/ \E e \in Tasks : ExecStep(e)
         \/ \E w \in WorkerTasks, j \in Jobs : WorkerTake(w, j)
         \/ \E w \in WorkerTasks : WorkerTimesOut(w)
         \/ \E j \in Jobs : WatchdogFires(j)
         \/ \E h \in Handlers : HandlerStep(h) \/ RequestDies(h)
         \/ \E h \in Handlers : HandlerStart(h)
         \/ Tick \/ WorkerCrash \/ WebCrash \/ QueueLost
         \/ \E e \in Tasks : TaskDies(e)
BY Zenon DEF Next, HandlerStart

LEMMA TypeStep == TypeInv /\ [Next]_vars => TypeInv'
<1> SUFFICES ASSUME TypeInv, [Next]_vars
             PROVE  TypeInv'
  OBVIOUS
<1>1. CASE Next
  BY <1>1, NextCases, TypeExec, TypeWorker, TypeStartedRequest, TypeNewRequest, TypeEnvironment, Zenon
<1>2. CASE UNCHANGED vars
  BY <1>2 DEF TypeInv, TypeOK, PcsTyped, vars, rowVars, taskVars, reqVars
<1> QED
  BY <1>1, <1>2

\* The type invariant of the module, for every value of the constants.
THEOREM TypeCorrect == Spec => []TypeOK
<1>1. TypeInv => TypeOK
  BY DEF TypeInv
<1> QED
  BY <1>1, TypeInit, TypeStep, PTL DEF Spec

-------------------------------------------------------------------------------
(* The inductive invariant.                                                     *)

Creating(h) == reqPc[h] \in {"create", "inline"}

\* A row about to be inserted does not exist, and one request inserts it.  The
\* rows a request will write, or enqueue, exist.
RequestsInv ==
  \A h \in Handlers :
    /\ Creating(h) => /\ status[reqJob[h]] = "none"
                      /\ \A g \in Handlers : Creating(g) /\ reqJob[g] = reqJob[h] => g = h
    /\ reqPc[h] = "enqueue" => status[reqJob[h]] # "none"
    /\ \A j \in reqJobs[h] : status[j] # "none"

\* What is queued, watched or executed exists.
KnownInv ==
  /\ \A j \in queue \cup watchdog : status[j] # "none"
  /\ \A e \in Tasks : taskPc[e] # "idle" => status[taskJob[e]] # "none"

\* What a row's status says about the executions of its runner.
HistoryInv ==
  \A j \in Jobs :
    /\ runs[j] \in {0, 1}
    /\ effects[j] <= runs[j]
    /\ status[j] \in {"none", "pending"} => runs[j] = 0
    /\ status[j] = "running" => runs[j] = 1
    /\ status[j] = "completed" => runs[j] = 1 /\ effects[j] = 1

Holds(e) == taskPc[e] \in {"body", "finish"}

\* The task that won the claim is the only one at work on its job, and the
\* runner's writes are committed when, and only when, an import has ended.
HolderInv ==
  \A e \in Tasks :
    Holds(e) => /\ taskSeen[e] = "running"
                /\ runs[taskJob[e]] = 1
                /\ effects[taskJob[e]] =
                     IF taskPc[e] = "finish" /\ taskJob[e] \in CommitsEarly THEN 1 ELSE 0
                /\ \A d \in Tasks : Holds(d) /\ taskJob[d] = taskJob[e] => d = e

\* A job a worker task is at work on has been running for no longer than ARQ has
\* been timing the task.
TimerInv ==
  \A w \in WorkerTasks :
    Holds(w) /\ status[taskJob[w]] = "running" => age[taskJob[w]] <= taskTimer[w]

\* Who moves a job on as long as nothing is lost.  A message in the queue does not
\* count, since the worker's timeout may use it up and leave the row pending.
Waiting(j) ==
  status[j] = "pending" =>
    \/ \E h \in Handlers : reqPc[h] = "enqueue" /\ reqJob[h] = j
    \/ j \in watchdog
    \/ \E e \in WebTasks : taskPc[e] # "idle" /\ taskJob[e] = j

WorkedOn(j) ==
  status[j] = "running" /\ WorkerTasks = {} =>
    \E e \in WebTasks : /\ taskPc[e] \in {"body", "finish", "failing", "failwrite"}
                        /\ taskJob[e] = j

DriverInv == faults = 0 => \A j \in Jobs : Waiting(j) /\ WorkedOn(j)

JobsInv == /\ RequestsInv /\ KnownInv /\ HistoryInv /\ HolderInv
           /\ OneActivePerProject /\ TimerInv /\ DriverInv

IInv == TypeInv /\ JobsInv

-------------------------------------------------------------------------------
(* Every action keeps JobsInv.                                                  *)

LEMMA JobsExec ==
  ASSUME IInv, TypeInv',
         NEW e \in Tasks, ExecStep(e)
  PROVE  JobsInv'
<1> USE DEF IInv, JobsInv, TypeInv, TypeOK, PcsTyped, Statuses, ActiveStatuses,
        TerminalStatuses, Tasks, IdleWebTasks, rowVars, reqVars, taskVars, Fault
<1>1. CASE ExecRead(e)
  <2>1. RequestsInv' /\ KnownInv'
    BY <1>1 DEF ExecRead, SetTask, EndTask, RequestsInv, KnownInv, Creating
  <2>2. HistoryInv'
    BY <1>1 DEF ExecRead, SetTask, EndTask, HistoryInv, HolderInv, RequestsInv, Holds, Creating
  <2>3. HolderInv'
    BY <1>1 DEF ExecRead, SetTask, EndTask, HistoryInv, HolderInv, RequestsInv, Holds, Creating
  <2>4. OneActivePerProject'
    BY <1>1 DEF ExecRead, SetTask, EndTask, OneActivePerProject, IsActive
  <2>5. TimerInv'
    BY <1>1 DEF ExecRead, SetTask, EndTask, TimerInv, HistoryInv, HolderInv, Holds
  <2>6. DriverInv'
    BY <1>1 DEF ExecRead, SetTask, EndTask, DriverInv, Waiting, WorkedOn, HistoryInv,
       HolderInv, Holds
  <2> QED
    BY <2>1, <2>2, <2>3, <2>4, <2>5, <2>6
<1>2. CASE ExecLock(e)
  BY <1>2 DEF ExecLock, GoTo, RequestsInv, KnownInv, HistoryInv, HolderInv,
     OneActivePerProject, TimerInv, DriverInv, Waiting, WorkedOn, Holds, Creating, IsActive
<1>3. CASE ExecClaim(e)
  <2>1. RequestsInv' /\ KnownInv'
    <3>1. RequestsInv'
      BY <1>3 DEF ExecClaim, SetStatus, SetTask, EndTask, RequestsInv, KnownInv, Creating
    <3>2. KnownInv'
      BY <1>3 DEF ExecClaim, SetStatus, SetTask, EndTask, KnownInv
    <3> QED
      BY <3>1, <3>2
  <2>2. HistoryInv'
    BY <1>3 DEF ExecClaim, SetStatus, SetTask, EndTask, HistoryInv, HolderInv, RequestsInv,
       Holds, Creating
  <2>3. HolderInv'
    <3>1. CASE status[taskJob[e]] = "pending"
      BY <1>3, <3>1 DEF ExecClaim, SetTask, HistoryInv, HolderInv, Holds
    <3>2. CASE status[taskJob[e]] # "pending"
      BY <1>3, <3>2 DEF ExecClaim, SetTask, EndTask, HolderInv, Holds
    <3> QED
      BY <3>1, <3>2
  <2>4. OneActivePerProject'
    BY <1>3 DEF ExecClaim, SetStatus, SetTask, EndTask, OneActivePerProject, IsActive
  <2>5. TimerInv'
    BY <1>3 DEF ExecClaim, SetStatus, SetTask, EndTask, TimerInv, HistoryInv, HolderInv, Holds
  <2>6. DriverInv'
    BY <1>3, SMTT(30) DEF ExecClaim, SetStatus, SetTask, EndTask, DriverInv, Waiting, WorkedOn,
       HistoryInv, HolderInv, Holds
  <2> QED
    BY <2>1, <2>2, <2>3, <2>4, <2>5, <2>6
<1>4. CASE BodyDone(e)
  BY <1>4, SMTT(30) DEF BodyDone, GoTo, RequestsInv, KnownInv, HistoryInv, HolderInv,
     OneActivePerProject, TimerInv, DriverInv, Waiting, WorkedOn, Holds, Creating, IsActive
<1>5. CASE BodyFails(e)
  <2>1. RequestsInv' /\ KnownInv'
    BY <1>5 DEF BodyFails, GoTo, RequestsInv, KnownInv, Creating
  <2>2. HistoryInv'
    BY <1>5 DEF BodyFails, GoTo, HistoryInv, HolderInv, RequestsInv, Holds, Creating
  <2>3. HolderInv'
    BY <1>5 DEF BodyFails, GoTo, HistoryInv, HolderInv, RequestsInv, Holds, Creating
  <2>4. OneActivePerProject'
    BY <1>5 DEF BodyFails, GoTo, OneActivePerProject, IsActive
  <2>5. TimerInv'
    BY <1>5 DEF BodyFails, GoTo, TimerInv, HistoryInv, HolderInv, Holds
  <2>6. DriverInv'
    BY <1>5 DEF BodyFails, GoTo, DriverInv, Waiting, WorkedOn, HistoryInv, HolderInv, Holds
  <2> QED
    BY <2>1, <2>2, <2>3, <2>4, <2>5, <2>6
<1>6. CASE ExecFinish(e)
  <2>1. RequestsInv' /\ KnownInv'
    BY <1>6 DEF ExecFinish, SetStatus, SetTask, EndTask, RequestsInv, KnownInv, Creating
  <2>2. HistoryInv'
    BY <1>6 DEF ExecFinish, SetStatus, SetTask, EndTask, HistoryInv, HolderInv, RequestsInv,
       Holds, Creating
  <2>3. HolderInv'
    BY <1>6 DEF ExecFinish, SetStatus, SetTask, EndTask, HistoryInv, HolderInv, RequestsInv,
       Holds, Creating
  <2>4. OneActivePerProject'
    BY <1>6 DEF ExecFinish, SetStatus, SetTask, EndTask, OneActivePerProject, IsActive
  <2>5. TimerInv'
    BY <1>6 DEF ExecFinish, SetStatus, SetTask, EndTask, TimerInv, HistoryInv, HolderInv, Holds
  <2>6. DriverInv'
    <3> SUFFICES ASSUME faults' = 0, NEW j \in Jobs
                 PROVE  /\ Waiting(j)' /\ WorkedOn(j)'
      BY DEF DriverInv
    <3>1. Waiting(j) /\ WorkedOn(j)
      BY <1>6 DEF ExecFinish, DriverInv
    <3>2. Waiting(j)'
      BY <1>6, <3>1 DEF ExecFinish, SetStatus, SetTask, EndTask, Waiting, HistoryInv,
         HolderInv, Holds
    <3>3. WorkedOn(j)'
      BY <1>6, <3>1 DEF ExecFinish, SetStatus, SetTask, EndTask, WorkedOn, HistoryInv,
         HolderInv, Holds
    <3> QED
      BY <3>2, <3>3
  <2> QED
    BY <2>1, <2>2, <2>3, <2>4, <2>5, <2>6
<1>7. CASE ExecError(e)
  BY <1>7 DEF ExecError, GoTo, RequestsInv, KnownInv, HistoryInv, HolderInv,
     OneActivePerProject, TimerInv, DriverInv, Waiting, WorkedOn, Holds, Creating, IsActive
<1>8. CASE FailRead(e)
  <2>1. RequestsInv' /\ KnownInv'
    BY <1>8 DEF FailRead, IsActive, SetTask, EndTask, RequestsInv, KnownInv, Creating
  <2>2. HistoryInv'
    BY <1>8 DEF FailRead, IsActive, SetTask, EndTask, HistoryInv, HolderInv, RequestsInv,
       Holds, Creating
  <2>3. HolderInv'
    BY <1>8 DEF FailRead, IsActive, SetTask, EndTask, HistoryInv, HolderInv, RequestsInv,
       Holds, Creating
  <2>4. OneActivePerProject'
    BY <1>8 DEF FailRead, IsActive, SetTask, EndTask, OneActivePerProject, IsActive
  <2>5. TimerInv'
    BY <1>8 DEF FailRead, IsActive, SetTask, EndTask, TimerInv, HistoryInv, HolderInv, Holds
  <2>6. DriverInv'
    <3> SUFFICES ASSUME faults' = 0, NEW j \in Jobs
                 PROVE  /\ Waiting(j)' /\ WorkedOn(j)'
      BY DEF DriverInv
    <3>1. Waiting(j) /\ WorkedOn(j)
      BY <1>8 DEF FailRead, DriverInv
    <3>2. Waiting(j)'
      BY <1>8, <3>1 DEF FailRead, IsActive, SetTask, EndTask, Waiting, HistoryInv,
         HolderInv, Holds
    <3>3. WorkedOn(j)'
      BY <1>8, <3>1 DEF FailRead, IsActive, SetTask, EndTask, WorkedOn, HistoryInv,
         HolderInv, Holds
    <3> QED
      BY <3>2, <3>3
  <2> QED
    BY <2>1, <2>2, <2>3, <2>4, <2>5, <2>6
<1>9. CASE FailWrite(e)
  <2>1. RequestsInv' /\ KnownInv'
    BY <1>9 DEF FailWrite, SetStatus, SetTask, EndTask, RequestsInv, KnownInv, Creating
  <2>2. HistoryInv'
    BY <1>9 DEF FailWrite, SetStatus, SetTask, EndTask, HistoryInv, HolderInv, RequestsInv,
       Holds, Creating
  <2>3. HolderInv'
    BY <1>9 DEF FailWrite, SetStatus, SetTask, EndTask, HistoryInv, HolderInv, RequestsInv,
       Holds, Creating
  <2>4. OneActivePerProject'
    BY <1>9 DEF FailWrite, SetStatus, SetTask, EndTask, OneActivePerProject, IsActive
  <2>5. TimerInv'
    BY <1>9 DEF FailWrite, SetStatus, SetTask, EndTask, TimerInv, HistoryInv, HolderInv, Holds
  <2>6. DriverInv'
    <3> SUFFICES ASSUME faults' = 0, NEW j \in Jobs
                 PROVE  /\ Waiting(j)' /\ WorkedOn(j)'
      BY DEF DriverInv
    <3>1. Waiting(j) /\ WorkedOn(j)
      BY <1>9 DEF FailWrite, DriverInv
    <3>2. Waiting(j)'
      BY <1>9, <3>1 DEF FailWrite, SetStatus, SetTask, EndTask, Waiting, HistoryInv,
         HolderInv, Holds
    <3>3. WorkedOn(j)'
      BY <1>9, <3>1 DEF FailWrite, SetStatus, SetTask, EndTask, WorkedOn, HistoryInv,
         HolderInv, Holds
    <3> QED
      BY <3>2, <3>3
  <2> QED
    BY <2>1, <2>2, <2>3, <2>4, <2>5, <2>6
<1> QED
  BY <1>1, <1>2, <1>3, <1>4, <1>5, <1>6, <1>7, <1>8, <1>9, Zenon DEF ExecStep

LEMMA JobsWorker ==
  ASSUME IInv, TypeInv',
         \/ \E w \in WorkerTasks, j \in Jobs : WorkerTake(w, j)
         \/ \E w \in WorkerTasks : WorkerTimesOut(w)
         \/ \E j \in Jobs : WatchdogFires(j)
  PROVE  JobsInv'
<1> USE DEF IInv, JobsInv, TypeInv, TypeOK, PcsTyped, Statuses, ActiveStatuses,
        TerminalStatuses, Tasks, IdleWebTasks, rowVars, reqVars, taskVars, Fault
<1>1. ASSUME NEW w \in WorkerTasks, NEW j \in Jobs, WorkerTake(w, j)
      PROVE  JobsInv'
  BY <1>1 DEF WorkerTake, SetTask, RequestsInv, KnownInv, HistoryInv, HolderInv,
     OneActivePerProject, TimerInv, DriverInv, Waiting, WorkedOn, Holds, Creating, IsActive
<1>2. ASSUME NEW w \in WorkerTasks, WorkerTimesOut(w)
      PROVE  JobsInv'
  BY <1>2 DEF WorkerTimesOut, EndTask, SetTask, RequestsInv, KnownInv, HistoryInv,
     HolderInv, OneActivePerProject, TimerInv, DriverInv, Waiting, WorkedOn, Holds,
     Creating, IsActive
<1>3. ASSUME NEW j \in Jobs, WatchdogFires(j)
      PROVE  JobsInv'
  <2>1. RequestsInv' /\ KnownInv'
    BY <1>3 DEF WatchdogFires, Spawn, SetTask, RequestsInv, KnownInv, Creating
  <2>2. HistoryInv'
    BY <1>3 DEF WatchdogFires, Spawn, SetTask, HistoryInv, HolderInv, RequestsInv, Holds,
       Creating
  <2>3. HolderInv'
    BY <1>3 DEF WatchdogFires, Spawn, SetTask, HistoryInv, HolderInv, RequestsInv, Holds,
       Creating
  <2>4. OneActivePerProject'
    BY <1>3 DEF WatchdogFires, Spawn, SetTask, OneActivePerProject, IsActive
  <2>5. TimerInv'
    BY <1>3 DEF WatchdogFires, Spawn, SetTask, TimerInv, HistoryInv, HolderInv, Holds
  <2>6. DriverInv'
    BY <1>3 DEF WatchdogFires, Spawn, SetTask, DriverInv, Waiting, WorkedOn, HistoryInv,
       HolderInv, Holds
  <2> QED
    BY <2>1, <2>2, <2>3, <2>4, <2>5, <2>6
<1> QED
  BY <1>1, <1>2, <1>3

LEMMA JobsStartedRequest ==
  ASSUME IInv, TypeInv',
         NEW h \in Handlers, HandlerStep(h) \/ RequestDies(h)
  PROVE  JobsInv'
<1> USE DEF IInv, JobsInv, TypeInv, TypeOK, PcsTyped, Statuses, ActiveStatuses,
        TerminalStatuses, Tasks, IdleWebTasks, rowVars, reqVars, taskVars, Fault
<1>1. CASE CommitJob(h)
  <2>1. CASE Conflicting(h) # {}
    BY <1>1, <2>1, SMTT(30) DEF CommitJob, SetReq, EndReq, RequestsInv, KnownInv, HistoryInv, HolderInv,
       OneActivePerProject, TimerInv, DriverInv, Waiting, WorkedOn, Holds, Creating, IsActive
  <2>2. CASE Conflicting(h) = {}
    <3> DEFINE i == reqJob[h]
    <3>1. i \in Jobs /\ status[i] = "none"
      BY <1>1 DEF CommitJob, RequestsInv, Creating
    <3>2. /\ status' = [k \in Jobs |-> IF k = i THEN "pending"
                                       ELSE IF k \in reqJobs[h] THEN "failed" ELSE status[k]]
          /\ age' = [k \in Jobs |-> IF k \in reqJobs[h] \cup {i} THEN 0 ELSE age[k]]
          /\ SetReq(h, "enqueue", i, None, {}, "failed")
          /\ UNCHANGED <<runs, effects, queue, watchdog, taskVars, faults>>
          /\ reqPc[h] = "create"
      BY <1>1, <2>2 DEF CommitJob
    <3>3. RequestsInv'
      BY <3>1, <3>2 DEF SetReq, RequestsInv, Creating
    <3>4. KnownInv'
      BY <3>1, <3>2 DEF KnownInv
    <3>5. HistoryInv'
      BY <3>1, <3>2 DEF HistoryInv
    <3>6. HolderInv'
      BY <3>2 DEF HolderInv, Holds
    <3>7. OneActivePerProject'
      BY <2>2, <3>1, <3>2 DEF Conflicting, ActiveJobs, OneActivePerProject, IsActive
    <3>8. TimerInv'
      BY <3>1, <3>2 DEF TimerInv, KnownInv, Holds
    <3>9. DriverInv'
      <4>1. \A j \in Jobs : Waiting(j) => Waiting(j)'
        BY <3>1, <3>2 DEF SetReq, Waiting
      <4>2. \A j \in Jobs : WorkedOn(j) => WorkedOn(j)'
        BY <3>1, <3>2 DEF WorkedOn
      <4> QED
        BY <3>2, <4>1, <4>2 DEF DriverInv
    <3> QED
      BY <3>3, <3>4, <3>5, <3>6, <3>7, <3>8, <3>9
  <2> QED
    BY <2>1, <2>2
<1>2. CASE RunInline(h)
  <2>1. RequestsInv' /\ KnownInv'
    <3>1. RequestsInv'
      BY <1>2 DEF RunInline, SetReq, EndReq, RequestsInv, KnownInv, Creating
    <3>2. KnownInv'
      BY <1>2 DEF RunInline, SetReq, EndReq, KnownInv
    <3> QED
      BY <3>1, <3>2
  <2>2. HistoryInv'
    BY <1>2 DEF RunInline, SetReq, EndReq, HistoryInv, HolderInv, RequestsInv, Holds, Creating
  <2>3. HolderInv'
    BY <1>2 DEF RunInline, SetReq, EndReq, HistoryInv, HolderInv, RequestsInv, Holds, Creating
  <2>4. OneActivePerProject'
    BY <1>2 DEF RunInline, SetReq, EndReq, OneActivePerProject, IsActive
  <2>5. TimerInv'
    BY <1>2 DEF RunInline, SetReq, EndReq, TimerInv, HistoryInv, HolderInv, Holds
  <2>6. DriverInv'
    BY <1>2 DEF RunInline, SetReq, EndReq, DriverInv, Waiting, WorkedOn, HistoryInv,
       HolderInv, Holds
  <2> QED
    BY <2>1, <2>2, <2>3, <2>4, <2>5, <2>6
<1>3. CASE Enqueue(h)
  BY <1>3 DEF Enqueue, SetReq, EndReq, RequestsInv, KnownInv, HistoryInv, HolderInv,
     OneActivePerProject, TimerInv, DriverInv, Waiting, WorkedOn, Holds, Creating, IsActive
<1>4. CASE EnqueueFails(h)
  <2>1. RequestsInv' /\ KnownInv'
    BY <1>4 DEF EnqueueFails, Spawn, SetTask, SetReq, EndReq, RequestsInv, KnownInv, Creating
  <2>2. HistoryInv'
    BY <1>4 DEF EnqueueFails, Spawn, SetTask, SetReq, EndReq, HistoryInv, HolderInv,
       RequestsInv, Holds, Creating
  <2>3. HolderInv'
    BY <1>4 DEF EnqueueFails, Spawn, SetTask, SetReq, EndReq, HistoryInv, HolderInv,
       RequestsInv, Holds, Creating
  <2>4. OneActivePerProject'
    BY <1>4 DEF EnqueueFails, Spawn, SetTask, SetReq, EndReq, OneActivePerProject, IsActive
  <2>5. TimerInv'
    BY <1>4 DEF EnqueueFails, Spawn, SetTask, SetReq, EndReq, TimerInv, HistoryInv,
       HolderInv, Holds
  <2>6. DriverInv'
    BY <1>4 DEF EnqueueFails, Spawn, SetTask, SetReq, EndReq, DriverInv, Waiting, WorkedOn,
       HistoryInv, HolderInv, Holds
  <2> QED
    BY <2>1, <2>2, <2>3, <2>4, <2>5, <2>6
<1>5. CASE ScheduleInProcess(h)
  <2>1. RequestsInv' /\ KnownInv'
    BY <1>5 DEF ScheduleInProcess, Spawn, SetTask, SetReq, EndReq, RequestsInv, KnownInv,
       Creating
  <2>2. HistoryInv'
    BY <1>5 DEF ScheduleInProcess, Spawn, SetTask, SetReq, EndReq, HistoryInv, HolderInv,
       RequestsInv, Holds, Creating
  <2>3. HolderInv'
    BY <1>5 DEF ScheduleInProcess, Spawn, SetTask, SetReq, EndReq, HistoryInv, HolderInv,
       RequestsInv, Holds, Creating
  <2>4. OneActivePerProject'
    BY <1>5 DEF ScheduleInProcess, Spawn, SetTask, SetReq, EndReq, OneActivePerProject, IsActive
  <2>5. TimerInv'
    BY <1>5 DEF ScheduleInProcess, Spawn, SetTask, SetReq, EndReq, TimerInv, HistoryInv,
       HolderInv, Holds
  <2>6. DriverInv'
    BY <1>5 DEF ScheduleInProcess, Spawn, SetTask, SetReq, EndReq, DriverInv, Waiting,
       WorkedOn, HistoryInv, HolderInv, Holds
  <2> QED
    BY <2>1, <2>2, <2>3, <2>4, <2>5, <2>6
<1>6. CASE RereadActiveJob(h)
  <2>1. /\ UNCHANGED <<rowVars, queue, watchdog, faults>>
        /\ SetReq(h, "idle", None, None, {}, "failed")
        /\ reqPc[h] = "reread"
    BY <1>6 DEF RereadActiveJob, EndReq
  <2>2. UNCHANGED taskVars
        \/ \E e \in WebTasks, j \in Jobs : /\ taskPc[e] = "idle" /\ status[j] # "none"
                                           /\ SetTask(e, "start", j, None, 0)
    BY <1>6 DEF RereadActiveJob, ActiveJobs, IsActive, Kick, Spawn
  <2>3. RequestsInv' /\ KnownInv'
    <3>1. RequestsInv'
      BY <2>1, <2>2 DEF SetTask, SetReq, RequestsInv, KnownInv, Creating
    <3>2. KnownInv'
      BY <2>1, <2>2 DEF SetTask, SetReq, KnownInv
    <3> QED
      BY <3>1, <3>2
  <2>4. HistoryInv' /\ OneActivePerProject'
    BY <2>1 DEF HistoryInv, OneActivePerProject, IsActive
  <2>5. HolderInv' /\ TimerInv'
    <3>1. HolderInv'
      BY <2>1, <2>2, SMTT(30) DEF SetTask, HolderInv, Holds
    <3>2. TimerInv'
      BY <2>1, <2>2 DEF SetTask, TimerInv, Holds
    <3> QED
      BY <3>1, <3>2
  <2>6. DriverInv'
    BY <2>1, <2>2 DEF SetTask, SetReq, DriverInv, Waiting, WorkedOn
  <2> QED
    BY <2>3, <2>4, <2>5, <2>6
<1>7. CASE WriteStatus(h)
  <2>1. RequestsInv' /\ KnownInv'
    <3>1. reqJobs[h] \in SUBSET Jobs /\ reqTo[h] # "none" /\ \A j \in reqJobs[h] : status[j]
            # "none"
      BY DEF RequestsInv
    <3>2. \A j \in Jobs : status'[j] = "none" <=> status[j] = "none"
      BY <1>7, <3>1 DEF WriteStatus, SetStatus
    <3> QED
      <4>1. RequestsInv'
        BY <1>7, <3>2, SMTT(30) DEF WriteStatus, SetReq, EndReq, RequestsInv, Creating
      <4>2. KnownInv'
        BY <1>7, <3>2 DEF WriteStatus, KnownInv
      <4> QED
        BY <4>1, <4>2
  <2>2. HistoryInv'
    BY <1>7 DEF WriteStatus, SetStatus, SetReq, EndReq, HistoryInv, HolderInv, RequestsInv,
       Holds, Creating
  <2>3. HolderInv'
    BY <1>7 DEF WriteStatus, SetStatus, SetReq, EndReq, HistoryInv, HolderInv, RequestsInv,
       Holds, Creating
  <2>4. OneActivePerProject'
    BY <1>7 DEF WriteStatus, SetStatus, SetReq, EndReq, OneActivePerProject, IsActive
  <2>5. TimerInv'
    BY <1>7 DEF WriteStatus, SetStatus, SetReq, EndReq, TimerInv, HistoryInv, HolderInv, Holds
  <2>6. DriverInv'
    <3> SUFFICES ASSUME faults' = 0, NEW j \in Jobs
                 PROVE  /\ Waiting(j)' /\ WorkedOn(j)'
      BY DEF DriverInv
    <3>1. Waiting(j) /\ WorkedOn(j)
      BY <1>7 DEF WriteStatus, DriverInv
    <3>2. Waiting(j)'
      BY <1>7, <3>1 DEF WriteStatus, SetStatus, SetReq, EndReq, Waiting, HistoryInv,
         HolderInv, Holds
    <3>3. WorkedOn(j)'
      BY <1>7, <3>1 DEF WriteStatus, SetStatus, SetReq, EndReq, WorkedOn, HistoryInv,
         HolderInv, Holds
    <3> QED
      BY <3>2, <3>3
  <2> QED
    BY <2>1, <2>2, <2>3, <2>4, <2>5, <2>6
<1>8. CASE RequestDies(h)
  BY <1>8 DEF RequestDies, Fault, SetReq, EndReq, RequestsInv, KnownInv, HistoryInv,
     HolderInv, OneActivePerProject, TimerInv, DriverInv, Waiting, WorkedOn, Holds,
     Creating, IsActive
<1> QED
  BY <1>1, <1>2, <1>3, <1>4, <1>5, <1>6, <1>7, <1>8, Zenon DEF HandlerStep

LEMMA JobsNewRequest ==
  ASSUME IInv, TypeInv',
         NEW h \in Handlers, HandlerStart(h)
  PROVE  JobsInv'
<1> USE DEF IInv, JobsInv, TypeInv, TypeOK, PcsTyped, Statuses, ActiveStatuses,
        TerminalStatuses, Tasks, IdleWebTasks, rowVars, reqVars, taskVars, Fault
<1>1. ASSUME NEW j \in Jobs, NEW pc \in {"create", "inline"}, CreateJob(h, j, pc)
      PROVE  JobsInv'
  BY <1>1 DEF CreateJob, Fresh, ActiveJobs, SetReq, RequestsInv, KnownInv, HistoryInv,
     HolderInv, OneActivePerProject, TimerInv, DriverInv, Waiting, WorkedOn, Holds,
     Creating, IsActive
<1>2. ASSUME NEW j \in Jobs, GetJob(h, j)
      PROVE  JobsInv'
  <2>1. /\ UNCHANGED <<rowVars, queue, watchdog, faults>>
        /\ UNCHANGED reqVars \/ SetReq(h, "write", None, None, {j}, "failed")
        /\ reqPc[h] = "idle"
        /\ status[j] # "none"
    BY <1>2 DEF GetJob, IsActive
  <2>2. UNCHANGED taskVars \/ \E e \in WebTasks : taskPc[e] = "idle" /\ SetTask(e, "start",
          j, None, 0)
    BY <1>2 DEF GetJob, Kick, Spawn
  <2>3. RequestsInv' /\ KnownInv'
    <3>1. RequestsInv'
      BY <2>1, <2>2, SMTT(30) DEF SetTask, SetReq, RequestsInv, KnownInv, Creating
    <3>2. KnownInv'
      BY <2>1, <2>2 DEF SetTask, SetReq, KnownInv
    <3> QED
      BY <3>1, <3>2
  <2>4. HistoryInv' /\ OneActivePerProject'
    BY <2>1 DEF HistoryInv, OneActivePerProject, IsActive
  <2>5. HolderInv' /\ TimerInv'
    <3>1. HolderInv'
      BY <2>1, <2>2 DEF SetTask, HolderInv, Holds
    <3>2. TimerInv'
      BY <2>1, <2>2 DEF SetTask, TimerInv, Holds
    <3> QED
      BY <3>1, <3>2
  <2>6. DriverInv'
    <3> SUFFICES ASSUME faults' = 0, NEW k \in Jobs
                 PROVE  /\ Waiting(k)' /\ WorkedOn(k)'
      BY DEF DriverInv
    <3>1. Waiting(k) /\ WorkedOn(k)
      BY <2>1 DEF DriverInv
    <3>2. Waiting(k)'
      BY <2>1, <2>2, <3>1 DEF SetTask, SetReq, Waiting
    <3>3. WorkedOn(k)'
      BY <2>1, <2>2, <3>1 DEF SetTask, WorkedOn
    <3> QED
      BY <3>2, <3>3
  <2> QED
    BY <2>3, <2>4, <2>5, <2>6
<1>3. ASSUME NEW j \in Jobs, CancelJob(h, j)
      PROVE  JobsInv'
  <2>1. \E to \in {"failed", "cancelled"} : SetReq(h, "write", None, None, {j}, to)
    BY <1>3 DEF CancelJob
  <2>2. /\ reqPc[h] = "idle" /\ status[j] # "none"
        /\ UNCHANGED <<rowVars, queue, watchdog, taskVars, faults>>
    BY <1>3 DEF CancelJob, IsJobStale
  <2>3. RequestsInv' /\ KnownInv'
    BY <2>1, <2>2 DEF SetReq, RequestsInv, KnownInv, Creating
  <2>4. HistoryInv' /\ HolderInv' /\ OneActivePerProject' /\ TimerInv'
    BY <2>2 DEF HistoryInv, HolderInv, Holds, OneActivePerProject, IsActive, TimerInv
  <2>5. DriverInv'
    BY <2>1, <2>2 DEF SetReq, DriverInv, Waiting, WorkedOn
  <2> QED
    BY <2>3, <2>4, <2>5
<1>4. ASSUME NEW j \in Jobs, AdminCancelJob(h, j)
      PROVE  JobsInv'
  BY <1>4 DEF AdminCancelJob, SetReq, RequestsInv, KnownInv, HistoryInv, HolderInv,
     OneActivePerProject, TimerInv, DriverInv, Waiting, WorkedOn, Holds, Creating, IsActive
<1>5. ASSUME NEW p \in Projects, GetActiveJob(h, p)
      PROVE  JobsInv'
  BY <1>5 DEF GetActiveJob, ActiveJobs, SetReq, RequestsInv, KnownInv, HistoryInv,
     HolderInv, OneActivePerProject, TimerInv, DriverInv, Waiting, WorkedOn, Holds,
     Creating, IsActive
<1>6. CASE AdminJobsHealth(h)
  BY <1>6 DEF AdminJobsHealth, IsJobStale, SetReq, RequestsInv, KnownInv, HistoryInv,
     HolderInv, OneActivePerProject, TimerInv, DriverInv, Waiting, WorkedOn, Holds,
     Creating, IsActive
<1> HIDE DEF IInv, JobsInv, TypeInv, TypeOK
<1> QED
  BY <1>1, <1>2, <1>3, <1>4, <1>5, <1>6, Zenon DEF HandlerStart

LEMMA JobsEnvironment ==
  ASSUME IInv, TypeInv',
         Tick \/ WorkerCrash \/ WebCrash \/ QueueLost \/ \E e \in Tasks : TaskDies(e)
  PROVE  JobsInv'
<1> USE DEF IInv, JobsInv, TypeInv, TypeOK, PcsTyped, Statuses, ActiveStatuses,
        TerminalStatuses, Tasks, IdleWebTasks, rowVars, reqVars, taskVars, Fault
<1>1. CASE Tick
  <2>1. UNCHANGED <<status, runs, effects, queue, watchdog, taskPc, taskJob, taskSeen, reqVars, faults>>
    BY <1>1 DEF Tick
  <2>2. RequestsInv' /\ KnownInv' /\ HistoryInv' /\ HolderInv' /\ OneActivePerProject'
    BY <2>1 DEF RequestsInv, KnownInv, HistoryInv, HolderInv, OneActivePerProject, Holds,
       Creating, IsActive
  <2>3. TimerInv'
    BY <1>1, <2>1 DEF Tick, TimerInv, Holds, IsActive
  <2>4. DriverInv'
    BY <2>1 DEF DriverInv, Waiting, WorkedOn
  <2> QED
    BY <2>2, <2>3, <2>4
<1>2. CASE WorkerCrash
  BY <1>2 DEF WorkerCrash, RequestsInv, KnownInv, HistoryInv, HolderInv,
     OneActivePerProject, TimerInv, DriverInv, Waiting, WorkedOn, Holds, Creating, IsActive
<1>3. CASE WebCrash
  BY <1>3 DEF WebCrash, RequestsInv, KnownInv, HistoryInv, HolderInv, OneActivePerProject,
     TimerInv, DriverInv, Waiting, WorkedOn, Holds, Creating, IsActive
<1>4. CASE QueueLost
  BY <1>4 DEF QueueLost, RequestsInv, KnownInv, HistoryInv, HolderInv, OneActivePerProject,
     TimerInv, DriverInv, Waiting, WorkedOn, Holds, Creating, IsActive
<1>5. ASSUME NEW e \in Tasks, TaskDies(e)
      PROVE  JobsInv'
  BY <1>5 DEF TaskDies, EndTask, SetTask, RequestsInv, KnownInv, HistoryInv, HolderInv,
     OneActivePerProject, TimerInv, DriverInv, Waiting, WorkedOn, Holds, Creating, IsActive
<1> QED
  BY <1>1, <1>2, <1>3, <1>4, <1>5

LEMMA IInvInit == Init => IInv
<1> SUFFICES ASSUME Init
             PROVE  IInv
  OBVIOUS
<1>1. TypeInv
  BY TypeInit
<1>2. JobsInv
  <2>1. RequestsInv /\ KnownInv /\ HistoryInv
    BY DEF Init, RequestsInv, KnownInv, HistoryInv, Creating
  <2>2. HolderInv /\ TimerInv
    BY DEF Init, HolderInv, TimerInv, Holds, Tasks
  <2>3. OneActivePerProject
    BY DEF Init, OneActivePerProject, IsActive, ActiveStatuses
  <2>4. DriverInv
    BY DEF Init, DriverInv, Waiting, WorkedOn
  <2> QED
    BY <2>1, <2>2, <2>3, <2>4 DEF JobsInv
<1> QED
  BY <1>1, <1>2 DEF IInv

LEMMA IInvStep == IInv /\ [Next]_vars => IInv'
<1> SUFFICES ASSUME IInv, [Next]_vars
             PROVE  IInv'
  OBVIOUS
<1>1. TypeInv'
  BY TypeStep DEF IInv
<1>2. CASE Next
  BY <1>1, <1>2, NextCases, JobsExec, JobsWorker, JobsStartedRequest, JobsNewRequest,
     JobsEnvironment, Zenon DEF IInv
<1>3. CASE UNCHANGED vars
  BY <1>1, <1>3 DEF IInv, JobsInv, RequestsInv, KnownInv, HistoryInv, HolderInv,
     OneActivePerProject, TimerInv, DriverInv, Waiting, WorkedOn, Holds, Creating, IsActive,
     ActiveStatuses, vars, rowVars, taskVars, reqVars
<1> QED
  BY <1>2, <1>3

LEMMA IInvHolds == Spec => []IInv
BY IInvInit, IInvStep, PTL DEF Spec

-------------------------------------------------------------------------------
(* The theorems.                                                                *)

\* At most one job of a project is active, for any number of handlers that create,
\* expire and cancel at the same time.
THEOREM OneActive == Spec => []OneActivePerProject
<1>1. IInv => OneActivePerProject
  BY DEF IInv, JobsInv
<1> QED
  BY <1>1, IInvHolds, PTL

\* However many tasks the queue, the watchdog, the polls and the fallback start for
\* a job, its runner is started at most once.
THEOREM RunnerStartedOnce == Spec => []ClaimedOnce
<1>1. IInv => ClaimedOnce
  BY DEF IInv, JobsInv, HistoryInv, ClaimedOnce
<1> QED
  BY <1>1, IInvHolds, PTL

\* A completed job ran, and what it wrote is committed exactly once.
THEOREM CompletedOnce == Spec => []CompletedIsBacked
<1>1. IInv => CompletedIsBacked
  BY DEF IInv, JobsInv, HistoryInv, CompletedIsBacked
<1> QED
  BY <1>1, IInvHolds, PTL

\* No reader takes a job for stale while the worker is at work on it, when
\* job_timeout is at most JOB_STALE_RUNNING_SECONDS.
THEOREM WorkerNeverStale == Spec => []WorkerRunNotStale
<1>1. ASSUME IInv
      PROVE  WorkerRunNotStale
  <2> SUFFICES ASSUME NEW w \in WorkerTasks, taskPc[w] \in {"body", "finish"}
               PROVE  ~IsJobStale(taskJob[w])
    BY DEF WorkerRunNotStale
  <2>1. w \in Tasks /\ taskJob[w] \in Jobs /\ Holds(w)
    BY <1>1 DEF IInv, TypeInv, PcsTyped, Tasks, Holds
  <2>2. status[taskJob[w]] # "pending"
    BY <1>1, <2>1 DEF IInv, JobsInv, HistoryInv, HolderInv
  <2>3. status[taskJob[w]] = "running" => age[taskJob[w]] <= taskTimer[w]
    BY <1>1, <2>1 DEF IInv, JobsInv, TimerInv
  <2>4. taskTimer[w] \in 0..WorkerTimeout /\ age[taskJob[w]] \in Nat
    BY <1>1, <2>1, MaxAgeNat DEF IInv, TypeInv, TypeOK
  <2> QED
    BY <2>2, <2>3, <2>4, TimeoutsAssumption DEF IsJobStale
<1> QED
  BY <1>1, IInvHolds, PTL

\* As long as nothing crashes and nothing is lost, every pending job has a request,
\* message, watchdog or task that will move it, and without a worker every running
\* one its task.
THEOREM NothingStranded == Spec => []StrandedOnlyByFaults
<1>1. IInv => StrandedOnlyByFaults
  BY DEF IInv, JobsInv, DriverInv, Waiting, WorkedOn, StrandedOnlyByFaults, Driven, HasTask,
     Tasks
<1> QED
  BY <1>1, IInvHolds, PTL

\* A terminal job stays terminal: only the insertion makes a row pending, only the
\* claim of a pending one makes it running.
THEOREM TerminalForGood == Spec => NoResurrection
<1>1. ASSUME IInv, [Next]_vars
      PROVE  \A j \in Jobs : IsTerminal(j) => IsTerminal(j)'
  <2> USE DEF IInv, JobsInv, TypeInv, TypeOK, PcsTyped, IsTerminal, TerminalStatuses, rowVars
  <2> SUFFICES ASSUME NEW j \in Jobs, IsTerminal(j), status'[j] # status[j]
               PROVE  IsTerminal(j)'
    OBVIOUS
  <2>1. CASE \E e \in Tasks : ExecClaim(e) \/ ExecFinish(e) \/ FailWrite(e)
    BY <2>1 DEF ExecClaim, ExecFinish, FailWrite, SetStatus
  <2>2. CASE \E h \in Handlers : CommitJob(h) \/ RunInline(h)
    <3>1. PICK h \in Handlers : CommitJob(h) \/ RunInline(h)
      BY <2>2
    <3>2. reqPc[h] \in {"create", "inline"} /\ j # reqJob[h]
      BY <1>1, <3>1 DEF CommitJob, RunInline, RequestsInv, Creating
    <3> QED
      BY <1>1, <3>1, <3>2 DEF CommitJob, RunInline
  <2>3. CASE \E h \in Handlers : WriteStatus(h)
    <3>1. PICK h \in Handlers : WriteStatus(h)
      BY <2>3
    <3>2. reqTo[h] \in {"failed", "cancelled"}
      BY <1>1
    <3> QED
      BY <1>1, <3>1, <3>2 DEF WriteStatus, SetStatus
  <2>4. CASE \/ UNCHANGED status
             \/ \E e \in Tasks : ExecStep(e) /\ ~(ExecClaim(e) \/ ExecFinish(e) \/ FailWrite(e))
             \/ \E h \in Handlers : HandlerStep(h) /\ ~(CommitJob(h) \/ RunInline(h) \/
                     WriteStatus(h))
    BY <2>4 DEF ExecStep, ExecRead, ExecLock, BodyDone, BodyFails, ExecError, FailRead,
       HandlerStep, Enqueue, EnqueueFails, ScheduleInProcess, RereadActiveJob
  <2>5. [Next]_vars => \/ UNCHANGED status
                       \/ \E e \in Tasks : ExecStep(e)
                       \/ \E h \in Handlers : HandlerStep(h)
    BY DEF Next, vars, TaskDies, WorkerTimesOut, WorkerTake, WatchdogFires, RequestDies,
       CreateJob, GetJob, CancelJob, AdminCancelJob, GetActiveJob, AdminJobsHealth,
       Tick, WorkerCrash, WebCrash, QueueLost
  <2> QED
    BY <1>1, <2>1, <2>2, <2>3, <2>4, <2>5
<1> QED
  BY <1>1, IInvHolds, PTL DEF NoResurrection, Spec

-------------------------------------------------------------------------------
(* ProjectJobs implements JobSlot.                                              *)

Ends == {"completed", "failed", "cancelled"}

LEMMA SlotEnds == Slot!Ended = Ends
BY DEF Slot!Ended, Ends

LEMMA SlotInit == Init => Slot!Init
BY DEF Init, Slot!Init

\* Rows that exist get an end: a step of the slot, if "completed" takes a started job.
LEMMA SetStatusIsEnd ==
  ASSUME NEW S \in SUBSET Jobs, NEW to \in Ends, SetStatus(S, to), UNCHANGED runs,
         \A j \in S : status[j] # "none",
         to = "completed" => \A j \in S : runs[j] = 1
  PROVE  Slot!Next
<1>1. Slot!End(S, to)
  BY DEF Slot!End, SetStatus
<1> QED
  BY <1>1, SlotEnds DEF Slot!Next

\* The winner of the claim starts the job; a task ends it or changes nothing of it.
LEMMA SlotExec ==
  ASSUME IInv, NEW e \in Tasks, ExecStep(e)
  PROVE  [Slot!Next]_(Slot!slotVars)
<1> USE DEF Slot!slotVars
<1>0. taskPc[e] # "idle" => taskJob[e] \in Jobs /\ status[taskJob[e]] # "none"
  BY DEF IInv, TypeInv, PcsTyped, JobsInv, KnownInv
<1>1. CASE ExecClaim(e)
  <2>1. taskJob[e] \in Jobs
    BY <1>0, <1>1 DEF ExecClaim
  <2>2. CASE status[taskJob[e]] = "pending"
    <3>1. status' = [status EXCEPT ![taskJob[e]] = "running"]
      BY <1>1, <2>1, <2>2 DEF ExecClaim, SetStatus, IInv, TypeInv, TypeOK
    <3>2. Slot!Start(taskJob[e])
      BY <1>1, <2>2, <3>1 DEF ExecClaim, Slot!Start
    <3> QED
      BY <2>1, <3>2 DEF Slot!Next
  <2>3. CASE status[taskJob[e]] # "pending"
    BY <1>1, <2>3 DEF ExecClaim
  <2> QED
    BY <2>2, <2>3
<1>2. CASE ExecFinish(e)
  <2>1. taskJob[e] \in Jobs /\ status[taskJob[e]] # "none"
    BY <1>0, <1>2 DEF ExecFinish
  <2>2. runs[taskJob[e]] = 1
    <3>1. Holds(e)
      BY <1>2 DEF ExecFinish, Holds
    <3> QED
      BY <2>1, <3>1 DEF IInv, JobsInv, HolderInv
  <2>3. CASE taskSeen[e] = "running"
    BY <1>2, <2>1, <2>2, <2>3, SetStatusIsEnd DEF ExecFinish, Ends
  <2>4. CASE taskSeen[e] # "running"
    BY <1>2, <2>4 DEF ExecFinish
  <2> QED
    BY <2>3, <2>4
<1>3. CASE FailWrite(e)
  <2>1. taskJob[e] \in Jobs /\ status[taskJob[e]] # "none"
    BY <1>0, <1>3 DEF FailWrite
  <2> QED
    BY <1>3, <2>1, SetStatusIsEnd DEF FailWrite, Ends
<1>4. CASE ExecRead(e) \/ ExecLock(e) \/ BodyDone(e) \/ BodyFails(e) \/ ExecError(e) \/ FailRead(e)
  BY <1>4 DEF ExecRead, ExecLock, BodyDone, BodyFails, ExecError, FailRead, rowVars
<1> QED
  BY <1>1, <1>2, <1>3, <1>4 DEF ExecStep

-------------------------------------------------------------------------------
\* A creating request fails jobs of its own project only.
SameSlot ==
  \A h \in Handlers : Creating(h) =>
    \A k \in reqJobs[h] : ProjectOf[k] = ProjectOf[reqJob[h]]

LEMMA SameSlotInit == Init => SameSlot
BY DEF Init, SameSlot, Creating

\* One request sets its record, to that of a creating one only in CreateJob.
LEMMA SetReqSameSlot ==
  ASSUME TypeInv, SameSlot, NEW h \in Handlers,
         NEW pc, NEW j, NEW p, NEW S, NEW to, SetReq(h, pc, j, p, S, to),
         pc \in {"create", "inline"} => \A k \in S : ProjectOf[k] = ProjectOf[j]
  PROVE  SameSlot'
BY DEF TypeInv, TypeOK, SameSlot, Creating, SetReq

LEMMA EndReqSameSlot ==
  ASSUME TypeInv, SameSlot, NEW h \in Handlers, EndReq(h)
  PROVE  SameSlot'
BY SetReqSameSlot DEF EndReq

LEMMA SameSlotStep == TypeInv /\ SameSlot /\ [Next]_vars => SameSlot'
<1> SUFFICES ASSUME TypeInv, SameSlot, [Next]_vars
             PROVE  SameSlot'
  OBVIOUS
<1>1. ASSUME UNCHANGED reqVars
      PROVE  SameSlot'
  BY <1>1 DEF SameSlot, Creating, reqVars
<1>2. ASSUME NEW h \in Handlers, HandlerStep(h) \/ RequestDies(h)
      PROVE  SameSlot'
  <2>1. CASE CommitJob(h)
    BY <2>1, SetReqSameSlot, EndReqSameSlot DEF CommitJob
  <2>2. CASE WriteStatus(h)
    BY <2>2, SetReqSameSlot, EndReqSameSlot DEF WriteStatus
  <2>3. CASE ~(CommitJob(h) \/ WriteStatus(h))
    BY <1>2, <2>3, EndReqSameSlot DEF HandlerStep, RequestDies, RunInline, Enqueue, EnqueueFails,
       ScheduleInProcess, RereadActiveJob
  <2> QED
    BY <2>1, <2>2, <2>3
<1>3. ASSUME NEW h \in Handlers, HandlerStart(h)
      PROVE  SameSlot'
  <2>1. ASSUME NEW j \in Jobs, NEW pc \in {"create", "inline"}, CreateJob(h, j, pc)
        PROVE  SameSlot'
    BY <2>1, SetReqSameSlot DEF CreateJob, ActiveJobs
  <2>2. ASSUME NEW j \in Jobs, GetJob(h, j)
        PROVE  SameSlot'
    BY <1>1, <2>2, SetReqSameSlot DEF GetJob
  <2>3. ASSUME NEW j \in Jobs, CancelJob(h, j) \/ AdminCancelJob(h, j)
        PROVE  SameSlot'
    BY <2>3, SetReqSameSlot DEF CancelJob, AdminCancelJob
  <2>4. ASSUME NEW p \in Projects, GetActiveJob(h, p)
        PROVE  SameSlot'
    BY <2>4, SetReqSameSlot DEF GetActiveJob
  <2>5. ASSUME AdminJobsHealth(h)
        PROVE  SameSlot'
    BY <2>5, SetReqSameSlot DEF AdminJobsHealth
  <2> QED
    BY <1>3, <2>1, <2>2, <2>3, <2>4, <2>5 DEF HandlerStart
<1>4. CASE WebCrash
  BY <1>4 DEF WebCrash, SameSlot, Creating
<1>5. ASSUME NEW e \in Tasks, ExecStep(e)
      PROVE  SameSlot'
  BY <1>1, <1>5 DEF ExecStep, ExecRead, ExecLock, ExecClaim, BodyDone, BodyFails, ExecFinish,
     ExecError, FailRead, FailWrite
<1>6. CASE \/ \E w \in WorkerTasks, j \in Jobs : WorkerTake(w, j)
           \/ \E w \in WorkerTasks : WorkerTimesOut(w)
           \/ \E j \in Jobs : WatchdogFires(j)
           \/ Tick \/ WorkerCrash \/ QueueLost
           \/ \E e \in Tasks : TaskDies(e)
           \/ UNCHANGED vars
  BY <1>1, <1>6 DEF WorkerTake, WorkerTimesOut, WatchdogFires, Tick, WorkerCrash, QueueLost,
     TaskDies, vars
<1> QED
  BY <1>2, <1>3, <1>4, <1>5, <1>6, NextCases, Zenon

-------------------------------------------------------------------------------
\* What a creating request writes is what the slot allows it to.
LEMMA SlotEntered ==
  ASSUME IInv, SameSlot, NEW h \in Handlers, Creating(h), Conflicting(h) = {},
         NEW to \in {"pending", "completed", "failed"},
         status' = [k \in Jobs |-> IF k = reqJob[h] THEN to
                                   ELSE IF k \in reqJobs[h] THEN "failed" ELSE status[k]]
  PROVE  /\ reqJob[h] \in Jobs
         /\ \E S \in SUBSET Slot!Known(reqJob[h]) : Slot!Enter(reqJob[h], S, to)
<1>1. /\ reqJob[h] \in Jobs /\ status[reqJob[h]] = "none"
      /\ reqJobs[h] \subseteq Jobs
      /\ \A k \in reqJobs[h] : status[k] # "none"
  BY DEF IInv, TypeInv, TypeOK, PcsTyped, JobsInv, RequestsInv, Creating
<1>2. reqJobs[h] \subseteq Slot!Known(reqJob[h])
  BY <1>1 DEF SameSlot, Slot!Known, Slot!SameProject
<1>3. Slot!InSlot(reqJob[h]) \subseteq reqJobs[h]
  BY <1>1 DEF Conflicting, ActiveJobs, IsActive, ActiveStatuses, Slot!InSlot, Slot!SameProject
<1>4. Slot!Enter(reqJob[h], reqJobs[h], to)
  BY <1>1, <1>2, <1>3 DEF Slot!Enter
<1> QED
  BY <1>1, <1>2, <1>4

LEMMA SlotHandler ==
  ASSUME IInv, SameSlot, NEW h \in Handlers, HandlerStep(h)
  PROVE  [Slot!Next]_(Slot!slotVars)
<1>1. CASE CommitJob(h)
  <2>1. CASE Conflicting(h) = {}
    <3>1. reqJob[h] \in Jobs
          /\ \E S \in SUBSET Slot!Known(reqJob[h]) : Slot!Enter(reqJob[h], S, "pending")
      BY <1>1, <2>1, SlotEntered DEF CommitJob, Creating
    <3>2. Slot!Submit(reqJob[h])
      BY <1>1, <3>1 DEF CommitJob, Slot!Submit
    <3> QED
      BY <3>1, <3>2 DEF Slot!Next
  <2>2. CASE Conflicting(h) # {}
    BY <1>1, <2>2 DEF CommitJob, Slot!slotVars
  <2> QED
    BY <2>1, <2>2
<1>2. CASE RunInline(h)
  <2>1. CASE Conflicting(h) = {}
    <3>1. PICK to \in {"completed", "failed"} :
            /\ status' = [k \in Jobs |-> IF k = reqJob[h] THEN to
                                         ELSE IF k \in reqJobs[h] THEN "failed" ELSE status[k]]
            /\ runs' = [runs EXCEPT ![reqJob[h]] = @ + 1]
      BY <1>2, <2>1 DEF RunInline
    <3>2. reqJob[h] \in Jobs
          /\ \E S \in SUBSET Slot!Known(reqJob[h]) : Slot!Enter(reqJob[h], S, to)
      BY <1>2, <2>1, <3>1, SlotEntered DEF RunInline, Creating
    <3>3. Slot!RunAtOnce(reqJob[h])
      BY <3>1, <3>2 DEF Slot!RunAtOnce
    <3> QED
      BY <3>2, <3>3 DEF Slot!Next
  <2>2. CASE Conflicting(h) # {}
    BY <1>2, <2>2 DEF RunInline, Slot!slotVars, rowVars
  <2> QED
    BY <2>1, <2>2
<1>3. CASE WriteStatus(h)
  <2>1. reqJobs[h] \in SUBSET Jobs /\ reqTo[h] \in {"failed", "cancelled"}
        /\ \A j \in reqJobs[h] : status[j] # "none"
    BY DEF IInv, TypeInv, TypeOK, JobsInv, RequestsInv
  <2> QED
    BY <1>3, <2>1, SetStatusIsEnd DEF WriteStatus, Ends
<1>4. CASE Enqueue(h) \/ EnqueueFails(h) \/ ScheduleInProcess(h) \/ RereadActiveJob(h)
  BY <1>4 DEF Enqueue, EnqueueFails, ScheduleInProcess, RereadActiveJob, rowVars, Slot!slotVars
<1> QED
  BY <1>1, <1>2, <1>3, <1>4 DEF HandlerStep

\* Everything else leaves status and runs alone.
LEMMA SlotStutters ==
  ASSUME \/ \E w \in WorkerTasks, j \in Jobs : WorkerTake(w, j)
         \/ \E w \in WorkerTasks : WorkerTimesOut(w)
         \/ \E j \in Jobs : WatchdogFires(j)
         \/ \E h \in Handlers : RequestDies(h) \/ HandlerStart(h)
         \/ Tick \/ WorkerCrash \/ WebCrash \/ QueueLost
         \/ \E e \in Tasks : TaskDies(e)
         \/ UNCHANGED vars
  PROVE  UNCHANGED Slot!slotVars
BY DEF WorkerTake, WorkerTimesOut, WatchdogFires, RequestDies, HandlerStart, CreateJob, GetJob,
   CancelJob, AdminCancelJob, GetActiveJob, AdminJobsHealth, Tick, WorkerCrash, WebCrash,
   QueueLost, TaskDies, vars, rowVars, Slot!slotVars

LEMMA SlotStep == IInv /\ SameSlot /\ [Next]_vars => [Slot!Next]_(Slot!slotVars)
<1> SUFFICES ASSUME IInv, SameSlot, [Next]_vars
             PROVE  [Slot!Next]_(Slot!slotVars)
  OBVIOUS
<1>1. CASE Next
  BY <1>1, NextCases, SlotExec, SlotHandler, SlotStutters, Zenon
<1>2. CASE UNCHANGED vars
  BY <1>2, SlotStutters
<1> QED
  BY <1>1, <1>2

\* The handlers, the executor, the worker, the watchdog and any faults together do to
\* the jobs only what JobSlot allows: submit into a free slot, start once, end.
THEOREM SlotImplemented == Spec => SlotSpec
<1>1. IInv => TypeInv
  BY DEF IInv
<1>2. Spec => [](IInv /\ SameSlot)
  BY <1>1, IInvInit, IInvStep, SameSlotInit, SameSlotStep, PTL DEF Spec
<1> QED
  BY <1>2, SlotInit, SlotStep, PTL DEF Spec, SlotSpec, Slot!Spec

-------------------------------------------------------------------------------
\* The abstract slot keeps its promise.  Its invariant: the types, and the promise.
SlotInv ==
  /\ status \in [Jobs -> {"none", "pending", "running"} \cup Ends]
  /\ runs \in [Jobs -> Nat]
  /\ Slot!Promise

LEMMA SlotInvInit == Slot!Init => SlotInv
BY DEF Slot!Init, SlotInv, Slot!Promise, Slot!InSlot, Slot!SameProject

\* A job enters when no other is left in the slot.
LEMMA SlotInvEnter ==
  ASSUME SlotInv, NEW j \in Jobs, NEW S \in SUBSET Slot!Known(j),
         NEW to \in {"pending", "completed", "failed"}, Slot!Enter(j, S, to),
         runs' = IF to = "pending" THEN runs ELSE [runs EXCEPT ![j] = @ + 1]
  PROVE  SlotInv'
<1>1. /\ status' \in [Jobs -> {"none", "pending", "running"} \cup Ends]
      /\ runs' \in [Jobs -> Nat]
  BY DEF SlotInv, Slot!Enter, Ends
<1>2. \A k \in Jobs : \A l, m \in Slot!InSlot(k)' : l = m
  <2>1. SUFFICES ASSUME NEW k \in Jobs, NEW l \in Slot!InSlot(k)', NEW m \in Slot!InSlot(k)'
                 PROVE  l = m
    OBVIOUS
  <2>2. ASSUME NEW n \in Slot!InSlot(k)', n # j
        PROVE  n \in Slot!InSlot(k) /\ ProjectOf[n] # ProjectOf[j]
    BY <2>2 DEF Slot!InSlot, Slot!SameProject, Slot!Enter
  <2>3. ProjectOf[l] = ProjectOf[k] /\ ProjectOf[m] = ProjectOf[k]
    BY DEF Slot!InSlot, Slot!SameProject
  <2> QED
    BY <2>1, <2>2, <2>3 DEF SlotInv, Slot!Promise
<1>3. \A k \in Jobs :
        /\ runs'[k] \in 0..1
        /\ status'[k] \in {"none", "pending"} => runs'[k] = 0
        /\ status'[k] \in {"running", "completed"} => runs'[k] = 1
  BY <1>1 DEF SlotInv, Slot!Promise, Slot!Enter
<1> QED
  BY <1>1, <1>2, <1>3 DEF SlotInv, Slot!Promise

LEMMA SlotInvStep == SlotInv /\ [Slot!Next]_(Slot!slotVars) => SlotInv'
<1> SUFFICES ASSUME SlotInv, [Slot!Next]_(Slot!slotVars)
             PROVE  SlotInv'
  OBVIOUS
<1>1. ASSUME NEW j \in Jobs, Slot!Submit(j)
      PROVE  SlotInv'
  BY <1>1, SlotInvEnter DEF Slot!Submit
<1>2. ASSUME NEW j \in Jobs, Slot!RunAtOnce(j)
      PROVE  SlotInv'
  <2>1. PICK S \in SUBSET Slot!Known(j), to \in {"completed", "failed"} : Slot!Enter(j, S, to)
    BY <1>2 DEF Slot!RunAtOnce
  <2> QED
    BY <1>2, <2>1, SlotInvEnter DEF Slot!RunAtOnce
<1>3. ASSUME NEW j \in Jobs, Slot!Start(j)
      PROVE  SlotInv'
  BY <1>3 DEF SlotInv, Slot!Start, Slot!Promise, Slot!InSlot, Slot!SameProject, Ends
<1>4. ASSUME NEW S \in SUBSET Jobs, NEW to \in Slot!Ended, Slot!End(S, to)
      PROVE  SlotInv'
  BY <1>4, SlotEnds DEF SlotInv, Slot!End, Slot!Promise, Slot!InSlot, Slot!SameProject, Ends
<1>5. CASE UNCHANGED Slot!slotVars
  BY <1>5 DEF SlotInv, Slot!Promise, Slot!InSlot, Slot!SameProject, Slot!slotVars
<1> QED
  BY <1>1, <1>2, <1>3, <1>4, <1>5 DEF Slot!Next

\* Whatever implements the slot has one job in the slot of a project, starts each job
\* at most once, and completes only what it started: JobSlot promises no less than that.
THEOREM SlotKeepsPromise == SlotSpec => []Slot!Promise
<1>1. SlotInv => Slot!Promise
  BY DEF SlotInv
<1> QED
  BY <1>1, SlotInvInit, SlotInvStep, PTL DEF SlotSpec, Slot!Spec

===============================================================================
