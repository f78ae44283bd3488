------------------------------ MODULE ProjectJobs ------------------------------
(***************************************************************************)
(* Background jobs of a project: the rows of project_jobs, the API handlers *)
(* that create, poll, expire and cancel them, the ARQ queue with its worker *)
(* and watchdog, and execute_project_job, which any of four triggers may    *)
(* start for the same row (queue, watchdog, kick by a poll, in-process).    *)
(*                                                                          *)
(* The database is PostgreSQL at READ COMMITTED.  A handler or a task reads *)
(* a row, decides on what it read, and later writes: two steps here.  The   *)
(* ORM writes UPDATE ... WHERE id = ..., so the write is unconditional      *)
(* except in try_claim_pending_job, whose UPDATE repeats the test of the    *)
(* status.  A transaction takes effect in the step of its commit.           *)
(*                                                                          *)
(* Time is counted in ticks.  age[j] is the time since created_at while the *)
(* row is pending and since started_at while it is running, which is all    *)
(* that is_job_stale and kick_stuck_pending_job compare with a threshold.   *)
(***************************************************************************)
EXTENDS Naturals, FiniteSets

CONSTANTS
  Jobs,           \* ids of the rows that may ever be inserted (a bound)
  Projects,
  ProjectOf,      \* project_id of a row
  None,           \* "no job", "no project", "no cached status"
  Handlers,       \* API requests in flight at the same time (a bound)
  WebTasks,       \* in-process executions in the web process (a bound)
  WorkerTasks,    \* executions in the ARQ worker: WorkerSettings.max_jobs
  CommitsEarly,   \* jobs whose runner commits by itself (import_file, pad_placement_apply)
  UseQueue,       \* settings.jobs_use_queue: REDIS_URL is set
  SyncFallback,   \* settings.JOBS_SYNC_FALLBACK
  KickGrace,      \* min(5, JOB_QUEUE_WATCHDOG_SECONDS), in ticks
  WatchdogDelay,  \* max(5, JOB_QUEUE_WATCHDOG_SECONDS)
  StalePending,   \* JOB_STALE_PENDING_SECONDS
  StaleRunning,   \* JOB_STALE_RUNNING_SECONDS
  WorkerTimeout,  \* WorkerSettings.job_timeout
  MaxFaults       \* crashes and losses in one behaviour (a bound)

ASSUME ConstantsAssumption ==
  /\ ProjectOf \in [Jobs -> Projects]
  /\ None \notin Jobs /\ None \notin Projects
  /\ None \notin {"none", "pending", "running", "completed", "failed", "cancelled"}
  /\ WebTasks \cap WorkerTasks = {}
  /\ CommitsEarly \subseteq Jobs
  /\ UseQueue \in BOOLEAN /\ SyncFallback \in BOOLEAN
  /\ KickGrace \in Nat /\ WatchdogDelay \in Nat
  /\ StalePending \in Nat /\ StaleRunning \in Nat
  /\ WorkerTimeout \in Nat /\ MaxFaults \in Nat

\* The stability settings fit together (docs/features/backend-stability/plan.md):
\* a running job of the worker is cut off before it counts as stale.
ASSUME TimeoutsAssumption == WorkerTimeout <= StaleRunning

VARIABLES
  status,     \* project_jobs.status; "none": no such row yet
  age,        \* see above; 0 in a terminal row
  queue,      \* jobs whose message is in the ARQ queue
  watchdog,   \* jobs with a sleeping _run_pending_job_watchdog
  taskPc,     \* where execute_project_job stands in each task
  taskJob,    \* the job_id it was called with
  taskSeen,   \* job.status in the identity map of the task's session
  taskTimer,  \* ticks since ARQ started the task (worker tasks)
  reqPc,      \* where each API handler stands
  reqJob,     \* the row it is creating
  reqProject, \* the project it will look at again
  reqJobs,    \* the rows it read and decided to write
  reqTo,      \* the status it will write into them
  faults      \* crashes and losses so far

\* History: how often a row was claimed (its runner was started), and how often
\* the writes of its runner were committed.  No code reads them.
VARIABLES runs, effects

rowVars  == <<status, age, runs, effects>>
taskVars == <<taskPc, taskJob, taskSeen, taskTimer>>
reqVars  == <<reqPc, reqJob, reqProject, reqJobs, reqTo>>
vars     == <<rowVars, queue, watchdog, taskVars, reqVars, faults>>

Tasks == WebTasks \cup WorkerTasks

ActiveStatuses   == {"pending", "running"}
TerminalStatuses == {"completed", "failed", "cancelled"}
Statuses         == {"none"} \cup ActiveStatuses \cup TerminalStatuses

MaxAge == StalePending + StaleRunning + 1

\* "body" is the runner; "failing" and "failwrite" are the except clause.
TaskPcs == {"idle", "start", "locking", "locked", "body", "finish", "failing", "failwrite"}
ReqPcs  == {"idle", "create", "inline", "enqueue", "write", "reread", "writereread"}

TypeOK ==
  /\ status \in [Jobs -> Statuses]
  /\ age \in [Jobs -> 0..MaxAge]
  /\ runs \in [Jobs -> Nat]
  /\ effects \in [Jobs -> Nat]
  /\ queue \subseteq Jobs
  /\ watchdog \subseteq Jobs
  /\ taskPc \in [Tasks -> TaskPcs]
  /\ taskJob \in [Tasks -> Jobs \cup {None}]
  /\ taskSeen \in [Tasks -> Statuses \cup {None}]
  /\ taskTimer \in [Tasks -> 0..WorkerTimeout]
  /\ reqPc \in [Handlers -> ReqPcs]
  /\ reqJob \in [Handlers -> Jobs \cup {None}]
  /\ reqProject \in [Handlers -> Projects \cup {None}]
  /\ reqJobs \in [Handlers -> SUBSET Jobs]
  /\ reqTo \in [Handlers -> {"failed", "cancelled"}]
  /\ faults \in 0..MaxFaults

Init ==
  /\ status = [j \in Jobs |-> "none"]
  /\ age = [j \in Jobs |-> 0]
  /\ runs = [j \in Jobs |-> 0]
  /\ effects = [j \in Jobs |-> 0]
  /\ queue = {}
  /\ watchdog = {}
  /\ taskPc = [e \in Tasks |-> "idle"]
  /\ taskJob = [e \in Tasks |-> None]
  /\ taskSeen = [e \in Tasks |-> None]
  /\ taskTimer = [e \in Tasks |-> 0]
  /\ reqPc = [h \in Handlers |-> "idle"]
  /\ reqJob = [h \in Handlers |-> None]
  /\ reqProject = [h \in Handlers |-> None]
  /\ reqJobs = [h \in Handlers |-> {}]
  /\ reqTo = [h \in Handlers |-> "failed"]
  /\ faults = 0

-------------------------------------------------------------------------------
(* Reading rows.                                                            *)

IsActive(j)   == status[j] \in ActiveStatuses
IsTerminal(j) == status[j] \in TerminalStatuses

\* get_active_job_for_project takes the newest active row of the project; the
\* unique index uq_project_jobs_one_active leaves at most one (OneActivePerProject).
ActiveJobs(p) == {j \in Jobs : ProjectOf[j] = p /\ IsActive(j)}

IsJobStaleWhilePending(j) == status[j] = "pending" /\ age[j] > StalePending

\* is_job_stale: older than the threshold of its status.
IsJobStale(j) ==
  \/ status[j] = "pending" /\ age[j] > StalePending
  \/ status[j] = "running" /\ age[j] > StaleRunning

KickDue(j) == status[j] = "pending" /\ age[j] >= KickGrace

\* A write to the row's status, whatever it held; leaving the active statuses
\* makes its age irrelevant, entering them starts it at 0.
SetStatus(S, to) ==
  /\ status' = [j \in Jobs |-> IF j \in S THEN to ELSE status[j]]
  /\ age' = [j \in Jobs |-> IF j \in S THEN 0 ELSE age[j]]

-------------------------------------------------------------------------------
(* Tasks: coroutines running execute_project_job.                           *)

SetTask(e, pc, j, seen, timer) ==
  /\ taskPc' = [taskPc EXCEPT ![e] = pc]
  /\ taskJob' = [taskJob EXCEPT ![e] = j]
  /\ taskSeen' = [taskSeen EXCEPT ![e] = seen]
  /\ taskTimer' = [taskTimer EXCEPT ![e] = timer]

GoTo(e, pc) ==
  /\ taskPc' = [taskPc EXCEPT ![e] = pc]
  /\ UNCHANGED <<taskJob, taskSeen, taskTimer>>

EndTask(e) == SetTask(e, "idle", None, None, 0)

IdleWebTasks == {e \in WebTasks : taskPc[e] = "idle"}

\* _fire_and_forget(execute_project_job(job_id)).
Spawn(j) == \E e \in IdleWebTasks : SetTask(e, "start", j, None, 0)

\* The same, asked for by a poll.  With all WebTasks busy the bound on them is
\* reached and the kick is not modelled; the poll itself goes on.
Kick(j) == IF IdleWebTasks = {} THEN UNCHANGED taskVars ELSE Spawn(j)

\* execute_project_job opens its session and reads the row; only a pending one
\* goes on.
ExecRead(e) ==
  /\ taskPc[e] = "start"
  /\ IF status[taskJob[e]] = "pending"
     THEN SetTask(e, "locking", taskJob[e], "pending", taskTimer[e])
     ELSE EndTask(e)
  /\ UNCHANGED <<rowVars, queue, watchdog, reqVars, faults>>

\* pg_advisory_xact_lock on the project: waits for the transaction that holds it.
LockFree(p) ==
  \A d \in Tasks : taskPc[d] = "locked" => ProjectOf[taskJob[d]] # p

ExecLock(e) ==
  /\ taskPc[e] = "locking"
  /\ LockFree(ProjectOf[taskJob[e]])
  /\ GoTo(e, "locked")
  /\ UNCHANGED <<rowVars, queue, watchdog, reqVars, faults>>

\* Plausible slips in the claim, see the mutants of PROJECT.json.
ExecClaimAfterRead(e) ==
  /\ taskPc[e] = "locked"
  /\ SetStatus({taskJob[e]}, "running")
  /\ runs' = [runs EXCEPT ![taskJob[e]] = @ + 1]
  /\ SetTask(e, "body", taskJob[e], "running", taskTimer[e])
  /\ UNCHANGED <<effects, queue, watchdog, reqVars, faults>>

ExecClaimUnlessRunning(e) ==
  /\ taskPc[e] = "locked"
  /\ IF status[taskJob[e]] # "running"
     THEN /\ SetStatus({taskJob[e]}, "running")
          /\ runs' = [runs EXCEPT ![taskJob[e]] = @ + 1]
          /\ SetTask(e, "body", taskJob[e], "running", taskTimer[e])
     ELSE EndTask(e) /\ UNCHANGED <<status, age, runs>>
  /\ UNCHANGED <<effects, queue, watchdog, reqVars, faults>>

ExecClaimKeepsAge(e) ==
  /\ taskPc[e] = "locked"
  /\ IF status[taskJob[e]] = "pending"
     THEN /\ status' = [status EXCEPT ![taskJob[e]] = "running"]
          /\ runs' = [runs EXCEPT ![taskJob[e]] = @ + 1]
          /\ SetTask(e, "body", taskJob[e], "running", taskTimer[e])
     ELSE EndTask(e) /\ UNCHANGED <<status, runs>>
  /\ UNCHANGED <<age, effects, queue, watchdog, reqVars, faults>>

\* try_claim_pending_job, the commit after it, and the db.get that follows.  The
\* commit ends the transaction, and with it the advisory lock, before the body.
\* The UPDATE brought the session's copy of the row to "running"; sessions are
\* made with expire_on_commit=False, so db.get returns that copy and passes.
ExecClaim(e) ==
  /\ taskPc[e] = "locked"
  /\ IF status[taskJob[e]] = "pending"
     THEN /\ SetStatus({taskJob[e]}, "running")
          /\ runs' = [runs EXCEPT ![taskJob[e]] = @ + 1]
          /\ SetTask(e, "body", taskJob[e], "running", taskTimer[e])
     ELSE EndTask(e) /\ UNCHANGED <<status, age, runs>>
  /\ UNCHANGED <<effects, queue, watchdog, reqVars, faults>>

\* The runner returned.  process_import_log and apply_variant commit by themselves.
BodyDone(e) ==
  /\ taskPc[e] = "body"
  /\ effects' = IF taskJob[e] \in CommitsEarly
                THEN [effects EXCEPT ![taskJob[e]] = @ + 1] ELSE effects
  /\ GoTo(e, "finish")
  /\ UNCHANGED <<status, age, runs, queue, watchdog, reqVars, faults>>

\* The runner raised; one that commits by itself may have done so before.
BodyFails(e) ==
  /\ taskPc[e] = "body"
  /\ \/ UNCHANGED effects
     \/ taskJob[e] \in CommitsEarly
        /\ effects' = [effects EXCEPT ![taskJob[e]] = @ + 1]
  /\ GoTo(e, "failing")
  /\ UNCHANGED <<status, age, runs, queue, watchdog, reqVars, faults>>

\* mark_job_completed committed apart from what the runner wrote.
ExecFinishLosesWrites(e) ==
  /\ taskPc[e] = "finish"
  /\ IF taskSeen[e] = "running"
     THEN SetStatus({taskJob[e]}, "completed")
     ELSE UNCHANGED <<status, age>>
  /\ EndTask(e)
  /\ UNCHANGED <<runs, effects, queue, watchdog, reqVars, faults>>

\* The last db.get again returns the session's copy, so mark_job_completed
\* overwrites whatever the row holds by now, in the commit of the runner's writes.
ExecFinish(e) ==
  /\ taskPc[e] = "finish"
  /\ IF taskSeen[e] = "running"
     THEN SetStatus({taskJob[e]}, "completed")
     ELSE UNCHANGED <<status, age>>
  /\ effects' = IF taskJob[e] \in CommitsEarly
                THEN effects ELSE [effects EXCEPT ![taskJob[e]] = @ + 1]
  /\ EndTask(e)
  /\ UNCHANGED <<runs, queue, watchdog, reqVars, faults>>

\* A database error in the locking, claiming or finishing transaction: the
\* except clause rolls it back.
ExecError(e) ==
  /\ taskPc[e] \in {"locking", "locked", "finish"}
  /\ GoTo(e, "failing")
  /\ UNCHANGED <<rowVars, queue, watchdog, reqVars, faults>>

FailReadOnlyPending(e) ==
  /\ taskPc[e] = "failing"
  /\ IF status[taskJob[e]] = "pending"
     THEN SetTask(e, "failwrite", taskJob[e], status[taskJob[e]], taskTimer[e])
     ELSE EndTask(e)
  /\ UNCHANGED <<rowVars, queue, watchdog, reqVars, faults>>

\* The except clause reads the row in a session of its own.
FailRead(e) ==
  /\ taskPc[e] = "failing"
  /\ IF IsActive(taskJob[e])
     THEN SetTask(e, "failwrite", taskJob[e], status[taskJob[e]], taskTimer[e])
     ELSE EndTask(e)
  /\ UNCHANGED <<rowVars, queue, watchdog, reqVars, faults>>

\* ... and marks it failed.  A row read as pending is claimed first, in the same
\* transaction.  When that UPDATE matches no row the session still holds a copy
\* set to "running" (the ORM evaluates the criteria on its own copy), so the row
\* is marked failed all the same.
FailWrite(e) ==
  /\ taskPc[e] = "failwrite"
  /\ SetStatus({taskJob[e]}, "failed")
  /\ EndTask(e)
  /\ UNCHANGED <<runs, effects, queue, watchdog, reqVars, faults>>

-------------------------------------------------------------------------------
(* The ARQ worker and the watchdog.                                         *)

\* ARQ hands a message to a free slot; max_tries = 1, so never a second time.
WorkerTake(w, j) ==
  /\ taskPc[w] = "idle"
  /\ j \in queue
  /\ queue' = queue \ {j}
  /\ SetTask(w, "start", j, None, 0)
  /\ UNCHANGED <<rowVars, watchdog, reqVars, faults>>

\* ARQ cancels the coroutine at job_timeout.  CancelledError is no Exception:
\* the except clause of execute_project_job does not run.
WorkerTimesOut(w) ==
  /\ taskPc[w] # "idle"
  /\ taskTimer[w] = WorkerTimeout
  /\ EndTask(w)
  /\ UNCHANGED <<rowVars, queue, watchdog, reqVars, faults>>

WatchdogTrustsQueue(j) ==
  /\ j \in watchdog
  /\ status[j] = "pending" => age[j] >= WatchdogDelay
  /\ watchdog' = watchdog \ {j}
  /\ IF status[j] = "pending" /\ j \notin queue THEN Spawn(j) ELSE UNCHANGED taskVars
  /\ UNCHANGED <<rowVars, queue, reqVars, faults>>

\* _run_pending_job_watchdog wakes up and calls execute_project_job when the row
\* is still pending.  It slept from the enqueue on, so a pending row is at least
\* that old.
WatchdogFires(j) ==
  /\ j \in watchdog
  /\ status[j] = "pending" => age[j] >= WatchdogDelay
  /\ watchdog' = watchdog \ {j}
  /\ IF status[j] = "pending" THEN Spawn(j) ELSE UNCHANGED taskVars
  /\ UNCHANGED <<rowVars, queue, reqVars, faults>>

-------------------------------------------------------------------------------
(* API handlers.                                                            *)

SetReq(h, pc, j, p, S, to) ==
  /\ reqPc' = [reqPc EXCEPT ![h] = pc]
  /\ reqJob' = [reqJob EXCEPT ![h] = j]
  /\ reqProject' = [reqProject EXCEPT ![h] = p]
  /\ reqJobs' = [reqJobs EXCEPT ![h] = S]
  /\ reqTo' = [reqTo EXCEPT ![h] = to]

EndReq(h) == SetReq(h, "idle", None, None, {}, "failed")

\* The row id is fresh: not inserted and not about to be.
Fresh(j) == status[j] = "none" /\ \A h \in Handlers : reqJob[h] # j

\* jobs_async_enabled, for PostgreSQL.
JobsAsyncEnabled == UseQueue \/ SyncFallback

\* create_project_job up to the INSERT: an active row of the project that is not
\* stale ends the request with ActiveProjectJobError, its transaction rolled
\* back; a stale one will be failed together with the INSERT.  POST /jobs always
\* goes on to schedule the job; that of the line elevation profiles runs it inside
\* the request (run_project_job_inline) when no background execution is enabled.
CreateJob(h, j, pc) ==
  LET active == ActiveJobs(ProjectOf[j]) IN
  /\ reqPc[h] = "idle"
  /\ Fresh(j)
  /\ pc = "inline" => ~JobsAsyncEnabled
  /\ \A k \in active : IsJobStale(k)
  /\ SetReq(h, pc, j, None, active, "failed")
  /\ UNCHANGED <<rowVars, queue, watchdog, taskVars, faults>>

\* Rows the unique index sees in the way of an INSERT for project p by h.
Conflicting(h) == ActiveJobs(ProjectOf[reqJob[h]]) \ reqJobs[h]

CommitJobUnchecked(h) ==
  /\ reqPc[h] = "create"
  /\ status' = [k \in Jobs |-> IF k = reqJob[h] THEN "pending"
                               ELSE IF k \in reqJobs[h] THEN "failed" ELSE status[k]]
  /\ age' = [k \in Jobs |-> IF k \in reqJobs[h] \cup {reqJob[h]} THEN 0 ELSE age[k]]
  /\ SetReq(h, "enqueue", reqJob[h], None, {}, "failed")
  /\ UNCHANGED <<runs, effects, queue, watchdog, taskVars, faults>>

\* The INSERT and its commit.  The unique index refuses a second active row
\* (IntegrityError) and the transaction is rolled back.
CommitJob(h) ==
  /\ reqPc[h] = "create"
  /\ IF Conflicting(h) = {}
     THEN /\ status' = [k \in Jobs |-> IF k = reqJob[h] THEN "pending"
                                       ELSE IF k \in reqJobs[h] THEN "failed" ELSE status[k]]
          /\ age' = [k \in Jobs |-> IF k \in reqJobs[h] \cup {reqJob[h]} THEN 0 ELSE age[k]]
          /\ SetReq(h, "enqueue", reqJob[h], None, {}, "failed")
     ELSE EndReq(h) /\ UNCHANGED <<status, age>>
  /\ UNCHANGED <<runs, effects, queue, watchdog, taskVars, faults>>

\* run_project_job_inline: INSERT, running, the runner and the terminal status in
\* one transaction, so the row appears in its terminal status.  A runner that
\* raises is not rolled back: what it had written is committed with "failed".
RunInline(h) ==
  /\ reqPc[h] = "inline"
  /\ IF Conflicting(h) = {}
     THEN \E to \in {"completed", "failed"}, partial \in BOOLEAN :
            /\ status' = [k \in Jobs |-> IF k = reqJob[h] THEN to
                                         ELSE IF k \in reqJobs[h] THEN "failed" ELSE status[k]]
            /\ age' = [k \in Jobs |-> IF k \in reqJobs[h] THEN 0 ELSE age[k]]
            /\ runs' = [runs EXCEPT ![reqJob[h]] = @ + 1]
            /\ effects' = IF to = "completed" \/ partial
                          THEN [effects EXCEPT ![reqJob[h]] = @ + 1] ELSE effects
     ELSE UNCHANGED rowVars
  /\ EndReq(h)
  /\ UNCHANGED <<queue, watchdog, taskVars, faults>>

EnqueueWithoutWatchdog(h) ==
  /\ reqPc[h] = "enqueue"
  /\ UseQueue
  /\ queue' = queue \cup {reqJob[h]}
  /\ EndReq(h)
  /\ UNCHANGED <<rowVars, watchdog, taskVars, faults>>

\* enqueue_project_job: the message is in the queue and the watchdog is set.
Enqueue(h) ==
  /\ reqPc[h] = "enqueue"
  /\ UseQueue
  /\ queue' = queue \cup {reqJob[h]}
  /\ watchdog' = watchdog \cup {reqJob[h]}
  /\ EndReq(h)
  /\ UNCHANGED <<rowVars, taskVars, faults>>

\* The enqueue raised, or took over 5 s and was cancelled, when Redis may have
\* the message all the same.  No watchdog; in-process only by SyncFallback.
EnqueueFails(h) ==
  /\ reqPc[h] = "enqueue"
  /\ UseQueue
  /\ faults < MaxFaults
  /\ faults' = faults + 1
  /\ queue' \in {queue, queue \cup {reqJob[h]}}
  /\ IF SyncFallback THEN Spawn(reqJob[h]) ELSE UNCHANGED taskVars
  /\ EndReq(h)
  /\ UNCHANGED <<rowVars, watchdog>>

\* No Redis: in-process at once.
ScheduleInProcess(h) ==
  /\ reqPc[h] = "enqueue"
  /\ ~UseQueue
  /\ Spawn(reqJob[h])
  /\ EndReq(h)
  /\ UNCHANGED <<rowVars, queue, watchdog, faults>>

\* GET /jobs/{id}: kicks a row that has been pending for a while, and then, by
\* what it read, expires it.  A stale pending row gets both.
GetJob(h, j) ==
  /\ reqPc[h] = "idle"
  /\ IsActive(j)
  /\ IF KickDue(j) THEN Kick(j) ELSE UNCHANGED taskVars
  /\ IF IsJobStale(j)
     THEN SetReq(h, "write", None, None, {j}, "failed") ELSE UNCHANGED reqVars
  /\ UNCHANGED <<rowVars, queue, watchdog, faults>>

\* GET /jobs/active: reconcile_stale_active_job, committed, ...
GetActiveJob(h, p) ==
  LET stale == {j \in ActiveJobs(p) : IsJobStale(j)} IN
  /\ reqPc[h] = "idle"
  /\ SetReq(h, IF stale = {} THEN "reread" ELSE "writereread", None, p, stale, "failed")
  /\ UNCHANGED <<rowVars, queue, watchdog, taskVars, faults>>

\* ... then the active row is read again and kicked.
RereadActiveJob(h) ==
  /\ reqPc[h] = "reread"
  /\ LET due == {j \in ActiveJobs(reqProject[h]) : KickDue(j)} IN
       IF due = {} THEN UNCHANGED taskVars ELSE \E j \in due : Kick(j)
  /\ EndReq(h)
  /\ UNCHANGED <<rowVars, queue, watchdog, faults>>

\* POST /jobs/{id}/cancel: a stale row is failed, a pending one cancelled, any
\* other refused with 409.
CancelJob(h, j) ==
  /\ reqPc[h] = "idle"
  /\ \/ IsJobStale(j) /\ SetReq(h, "write", None, None, {j}, "failed")
     \/ /\ status[j] = "pending" /\ ~IsJobStale(j)
        /\ SetReq(h, "write", None, None, {j}, "cancelled")
  /\ UNCHANGED <<rowVars, queue, watchdog, taskVars, faults>>

\* POST /admin/jobs/{id}/cancel: any active row, a live running one included.
AdminCancelJob(h, j) ==
  /\ reqPc[h] = "idle"
  /\ IsActive(j)
  /\ SetReq(h, "write", None, None, {j}, "cancelled")
  /\ UNCHANGED <<rowVars, queue, watchdog, taskVars, faults>>

\* GET /admin/jobs/health: reconcile_all_stale_active_jobs over all projects.
AdminJobsHealth(h) ==
  LET stale == {j \in Jobs : IsJobStale(j)} IN
  /\ reqPc[h] = "idle"
  /\ stale # {}
  /\ SetReq(h, "write", None, None, stale, "failed")
  /\ UNCHANGED <<rowVars, queue, watchdog, taskVars, faults>>

\* mark_job_failed or mark_job_cancelled by a handler, and its commit.
WriteStatus(h) ==
  /\ reqPc[h] \in {"write", "writereread"}
  /\ SetStatus(reqJobs[h], reqTo[h])
  /\ IF reqPc[h] = "write" THEN EndReq(h)
     ELSE SetReq(h, "reread", None, reqProject[h], {}, "failed")
  /\ UNCHANGED <<runs, effects, queue, watchdog, taskVars, faults>>

-------------------------------------------------------------------------------
(* The environment.                                                         *)

TickBeyondTimeout ==
  /\ age' = [j \in Jobs |-> IF IsActive(j) /\ age[j] < MaxAge THEN age[j] + 1 ELSE age[j]]
  /\ taskTimer' = [e \in Tasks |->
       IF e \in WorkerTasks /\ taskPc[e] # "idle" THEN taskTimer[e] + 1 ELSE taskTimer[e]]
  /\ UNCHANGED <<status, runs, effects, queue, watchdog, taskPc, taskJob, taskSeen, reqVars, faults>>

\* One tick.  ARQ's timer is prompt: a task at its timeout ends first.
Tick ==
  /\ \A w \in WorkerTasks : taskPc[w] # "idle" => taskTimer[w] < WorkerTimeout
  /\ age' = [j \in Jobs |-> IF IsActive(j) /\ age[j] < MaxAge THEN age[j] + 1 ELSE age[j]]
  /\ taskTimer' = [e \in Tasks |->
       IF e \in WorkerTasks /\ taskPc[e] # "idle" THEN taskTimer[e] + 1 ELSE taskTimer[e]]
  /\ UNCHANGED <<status, runs, effects, queue, watchdog, taskPc, taskJob, taskSeen, reqVars, faults>>

Fault == faults < MaxFaults /\ faults' = faults + 1

\* The task ends with nothing written: the session of the except clause failed
\* too, or the first db.get raised.
TaskDies(e) ==
  /\ taskPc[e] \in {"start", "failing", "failwrite"}
  /\ Fault
  /\ EndTask(e)
  /\ UNCHANGED <<rowVars, queue, watchdog, reqVars>>

\* A request ends early: a database error rolls its transaction back, or the
\* refresh between the commit of the INSERT and the enqueue raises.
RequestDies(h) ==
  /\ reqPc[h] # "idle"
  /\ Fault
  /\ EndReq(h)
  /\ UNCHANGED <<rowVars, queue, watchdog, taskVars>>

\* The worker process dies, and the database drops its open transactions.
WorkerCrash ==
  /\ Fault
  /\ taskPc' = [e \in Tasks |-> IF e \in WorkerTasks THEN "idle" ELSE taskPc[e]]
  /\ taskJob' = [e \in Tasks |-> IF e \in WorkerTasks THEN None ELSE taskJob[e]]
  /\ taskSeen' = [e \in Tasks |-> IF e \in WorkerTasks THEN None ELSE taskSeen[e]]
  /\ taskTimer' = [e \in Tasks |-> IF e \in WorkerTasks THEN 0 ELSE taskTimer[e]]
  /\ UNCHANGED <<rowVars, queue, watchdog, reqVars>>

\* The web process restarts: requests, watchdogs and in-process tasks are gone.
WebCrash ==
  /\ Fault
  /\ watchdog' = {}
  /\ taskPc' = [e \in Tasks |-> IF e \in WebTasks THEN "idle" ELSE taskPc[e]]
  /\ taskJob' = [e \in Tasks |-> IF e \in WebTasks THEN None ELSE taskJob[e]]
  /\ taskSeen' = [e \in Tasks |-> IF e \in WebTasks THEN None ELSE taskSeen[e]]
  /\ UNCHANGED taskTimer
  /\ reqPc' = [h \in Handlers |-> "idle"]
  /\ reqJob' = [h \in Handlers |-> None]
  /\ reqProject' = [h \in Handlers |-> None]
  /\ reqJobs' = [h \in Handlers |-> {}]
  /\ reqTo' = [h \in Handlers |-> "failed"]
  /\ UNCHANGED <<rowVars, queue>>

\* Redis restarts without its data.
QueueLost ==
  /\ Fault
  /\ queue # {}
  /\ queue' = {}
  /\ UNCHANGED <<rowVars, watchdog, taskVars, reqVars>>

-------------------------------------------------------------------------------
ExecStep(e) ==
  \/ ExecRead(e) \/ ExecLock(e) \/ ExecClaim(e)
  \/ BodyDone(e) \/ BodyFails(e) \/ ExecFinish(e)
  \/ ExecError(e) \/ FailRead(e) \/ FailWrite(e)

\* The second half of a request that is already on its way.
HandlerStep(h) ==
  \/ CommitJob(h) \/ RunInline(h)
  \/ Enqueue(h) \/ EnqueueFails(h) \/ ScheduleInProcess(h)
  \/ RereadActiveJob(h) \/ WriteStatus(h)

Next ==
  \/ \E e \in Tasks : ExecStep(e) \/ TaskDies(e)
  \/ \E w \in WorkerTasks : WorkerTimesOut(w) \/ \E j \in Jobs : WorkerTake(w, j)
  \/ \E j \in Jobs : WatchdogFires(j)
  \/ \E h \in Handlers :
       \/ HandlerStep(h) \/ RequestDies(h)
       \/ \E j \in Jobs :
            \/ \E pc \in {"create", "inline"} : CreateJob(h, j, pc)
            \/ GetJob(h, j) \/ CancelJob(h, j) \/ AdminCancelJob(h, j)
       \/ \E p \in Projects : GetActiveJob(h, p)
       \/ AdminJobsHealth(h)
  \/ Tick \/ WorkerCrash \/ WebCrash \/ QueueLost

Spec == Init /\ [][Next]_vars

\* Time passes and ARQ cuts off what runs too long.
ClockFairness == WF_vars(Tick) /\ \A w \in WorkerTasks : WF_vars(WorkerTimesOut(w))

TimedSpec == Spec /\ ClockFairness

\* A client keeps asking for the job, and a request the server has accepted is
\* served.  Strong fairness for the poll: the handlers of the model are a bound,
\* the server starts a coroutine for every request.  Nothing is assumed of the
\* tasks: the worker may be down, and a runner need not return.
Polled ==
  /\ \A j \in Jobs : SF_vars(\E h \in Handlers : GetJob(h, j))
  /\ \A h \in Handlers : WF_vars(HandlerStep(h))

\* The event loop of the web process runs its coroutines up to the claim.  No
\* client polls, the worker takes nothing for granted.
WebRuns ==
  /\ \A j \in Jobs : WF_vars(WatchdogFires(j))
  /\ \A e \in WebTasks :
       WF_vars(ExecRead(e) \/ ExecLock(e) \/ ExecClaim(e) \/ FailRead(e) \/ FailWrite(e))

-------------------------------------------------------------------------------
(* Safety.                                                                  *)

\* At most one job of a project is pending or running, however requests that
\* expire, create and cancel interleave (the unique index of migration 019, and
\* test_project_jobs.py: a second create raises).
OneActivePerProject ==
  \A j, k \in Jobs :
    IsActive(j) /\ IsActive(k) /\ ProjectOf[j] = ProjectOf[k] => j = k

\* The runner of a job is started at most once, although the queue, the watchdog,
\* every poll and the fallback may each start execute_project_job for it.
ClaimedOnce == \A j \in Jobs : runs[j] <= 1

\* A completed job has run, and what its runner wrote is committed, exactly once;
\* no job has its writes committed twice.
CompletedIsBacked ==
  \A j \in Jobs :
    /\ effects[j] <= runs[j]
    /\ status[j] = "completed" => runs[j] = 1 /\ effects[j] = 1

\* While the worker executes a job no reader takes the job for stale, since
\* job_timeout comes first and both clocks start no later than the claim.
WorkerRunNotStale ==
  \A w \in WorkerTasks :
    taskPc[w] \in {"body", "finish"} => ~IsJobStale(taskJob[w])

HasTask(j) == \E e \in Tasks : taskPc[e] # "idle" /\ taskJob[e] = j

Driven(j) ==
  \/ \E h \in Handlers : reqPc[h] = "enqueue" /\ reqJob[h] = j
  \/ j \in queue \/ j \in watchdog \/ HasTask(j)

\* Only a crash, a loss or a failed enqueue strands a job: short of them a pending
\* job always has a request, message, watchdog or task that will move it, and
\* without a worker (whose timeout leaves the row running) a running one its task.
StrandedOnlyByFaults ==
  faults = 0 =>
    \A j \in Jobs :
      /\ status[j] = "pending" => Driven(j)
      /\ status[j] = "running" /\ WorkerTasks = {} => HasTask(j)

\* A job that has ended is never pending or running again: a late message, kick or
\* watchdog finds nothing to claim, whatever request ended the job.
NoResurrection ==
  [][\A j \in Jobs : IsTerminal(j) => IsTerminal(j)']_vars

-------------------------------------------------------------------------------
(* Liveness.                                                                *)

\* A job a client keeps polling ends, with the worker down, its runner hung, the
\* web process restarted between commit and enqueue, or the message lost: the
\* staleness thresholds see to it.
PolledJobEnds == Polled => \A j \in Jobs : IsActive(j) ~> IsTerminal(j)

\* Without any poll and any worker, the watchdog alone brings a job that was
\* enqueued out of "pending", unless its process crashes.
WatchdogStarts ==
  WebRuns => \A j \in Jobs : j \in watchdog ~> status[j] # "pending" \/ faults > 0

-------------------------------------------------------------------------------
(* What a document of the repository says, and the code does not keep.          *)

\* docs/features/map/map-objects-and-spatial-calculations.md:300, serialisation:
\* at most one active job of a project, "and in the worker pg_advisory_xact_lock
\* on the project": no two runners work on one project at the same time.
RunnersSerialised ==
  \A d, e \in Tasks :
    /\ taskPc[d] = "body" /\ taskPc[e] = "body"
    /\ ProjectOf[taskJob[d]] = ProjectOf[taskJob[e]]
    => d = e

-------------------------------------------------------------------------------
(* What the API promises, without requests, tasks, queue and faults.           *)

Slot == INSTANCE JobSlot WITH status <- status, runs <- runs

\* Every step of the handlers, the executor and the environment is a submission, a
\* start or an end of a job in its project's slot, or changes neither status nor runs.
SlotSpec == Slot!Spec

===============================================================================
