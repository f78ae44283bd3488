# Verification of the concurrent parts of the Scaning decision matrix

This directory holds TLA+ models of the parts of `src/decision-matrix` whose
correctness depends on the order of events: the background jobs of a project
(creation, queue, execution, expiry, cancellation), the way their status reaches the
browser, the circuit breaker of the calls to the microservices, the session of a
browser with the rotation of its tokens, and the editing of the map with its undo. TLC
checks small instances, and TLAPS proves the main safety properties for every value of
the constants.

Paths below are relative to `src/decision-matrix/backend/` unless they say otherwise.

## 1. Inventory

The repository is a decision-support system for oil field development: a FastAPI
backend with PostgreSQL, an optional Redis with an ARQ worker, a React frontend, three
numerical microservices, an assistant and deployment scripts.

| Part | State | Operations | Interacts with | Hard behaviours |
|---|---|---|---|---|
| Project jobs (`app/services/project_jobs.py`, `app/api/v1/jobs.py`) | the rows of `project_jobs`: `status`, `created_at`, `started_at` | create (after expiry of a stale job), claim, complete, fail, cancel, poll, get active | every other job part, through the row | read, decide, write in two steps at READ COMMITTED; unique index as the last line of defence |
| Job scheduling (`app/services/job_queue.py`, `job_enqueue.py`) | the ARQ queue; watchdogs asleep in memory | enqueue, enqueue failure, watchdog, kick, in-process run, inline run | Redis, execution | the same job may be started by four triggers; a restart loses the watchdog; Redis loses the queue |
| Job execution (`app/services/project_job_run.py`, `app/worker/settings.py`) | a coroutine, its session with a cached row, the advisory lock | read, lock, claim, commit, runner, complete, except clause | rows, runners | cached status, lock released before the work, job_timeout, worker death |
| Admin job console (`app/services/admin_jobs.py`) | none | cancel any active job, reconcile all stale jobs | rows | cancels a live runner's row |
| Circuit breaker and retries (`app/core/circuit_breaker.py`, `http_retry.py`) | `_failures`, `_opened_at`, `_half_open`, per process and service | call, record success, record failure | adapters of the microservices | late answers of old calls, cancelled probes, error mapping inside the retry loop |
| Shared HTTP client (`app/core/http_client.py`) | one client, the main loop | run_on_main_loop | breaker | the waiter gives up, the coroutine goes on |
| Job events (`app/services/job_events.py`, `job_realtime_events.py`, `app/api/v1/jobs_ws.py`) | subscriber queues, Redis channel | publish, broadcast, bridge, connect, subscribe | rows, frontend | published before the commit, delivered twice, dropped when the queue is full |
| Job steps (`app/services/job_steps.py`) | step rows, progress of the job | init, start, finish, fail, skip | execution | each in a session of its own, progress recomputed from rows |
| Frontend job tracking (`frontend/src/hooks/useJobRealtime.ts`, `lib/pollProjectJob.ts`, `lib/realtime/createJobWebSocket.ts`) | active job, socket, poll timer, task log | connect, reconnect, poll, finish | events, API | reconnect against a terminal event, poll and socket racing |
| Frontend session (`frontend/src/lib/api/client.ts`, `lib/api/session.ts`, `lib/authSession.ts`, `store/index.ts`) | per tab: tokens in sessionStorage, `refreshInFlight`, user, `authEpoch`; per browser: the cookies | request with refresh and one retry, fetchUser, login, register, logout | auth API, other tabs through the cookies | several 401 share one refresh; answers of an earlier session; two tabs with one token |
| Authentication (`app/api/v1/auth.py`, `app/services/auth_tokens.py`, `app/api/deps.py`) | refresh tokens, revoked or not | issue, rotate, revoke, verify access and CSRF | frontend session | rotation reads and writes in two steps |
| Map editing, undo and clipboard (`frontend/src/hooks/useMapGeometrySave.ts`, `useMapPageDelete.ts`, `useMapUndo.ts`, `lib/map2d/mapUndo.ts`, `mapInfraClickCreate.ts`, `app/api/v1/infrastructure.py`) | cached query of objects, undo stack, `geometrySavePending`, `geometrySaveSeqRef`, `undoingRef` | drag, group drag, form, delete, place, split, paste, undo, refetch | backend objects, query cache | edits beside each other, beside an undo and refetches; many requests of which one fails |
| File import (`app/services/file_import/run.py`) | import log | run | execution | commits in a session of its own |
| Flow propagation, sand logistics, line split | none | pure functions of a graph | analysis | conservation, capacity |
| Microservices (autoroad, earthwork, trajectory) | none | one computation per request | breaker | numerical, not concurrent |
| Access control, analysis, POI, 3D models, assistant, pages, migrations, deployment | CRUD or none | | | none of their own beyond a transaction |

What makes the job parts correct:

- one active job per project, whatever requests interleave;
- a job's runner starts at most once, whatever triggers start it;
- "completed" means the runner ran and its writes are committed;
- a job that ended stays ended;
- a healthy job is not expired; a stuck one is, as long as somebody asks for it;
- a pending job always has something that will move it, unless a fault took it away.

The status on its way to the browser: a tab that lost nothing shows the end its row has,
no tab shows an end that is not there, and the tab that waits for its job learns its
end whatever was lost.

And the breaker: it opens at the threshold and only there, is half open only after the
whole reset timeout, and recovers once the service does.

The session: many refused requests cost one refresh and not the session, no call waits
for a refresh that is over, nobody is shown whose session has ended, and the cookie can
always be exchanged. The map: when nothing is under way the cache shows what the backend
has, undoing everything gives the map back, and the counters and flags that block pasting
and undoing are neither stuck nor ahead of the work they stand for.

`PROJECT.json` lists every component with its status, and every hazard of this code at
its line with the properties that watch it.

## 2. Modules

| Module | Models | Extends or instantiates |
|---|---|---|
| `ProjectJobs` | rows, handlers, queue, watchdog, tasks, worker, faults | `JobSlot` (as `Slot`, WITH its two variables) |
| `JobSlot` | what the job API promises: a slot per project | |
| `MCProjectJobs` | instances for TLC | `ProjectJobs` |
| `ProjectJobs_proofs` | inductive invariant, safety theorems, the refinement of the slot | `ProjectJobs` |
| `JobFeed` | how the status of a job reaches a browser tab | |
| `JobFeed_proofs` | what a tab shows, as theorems | `JobFeed` |
| `CircuitBreaker` | one breaker with the retry loops inside it | `BreakerStates` (as `States`, WITH its four variables) |
| `BreakerStates` | what a breaker promises: three states | |
| `MCCircuitBreaker` | instances for TLC | `CircuitBreaker` |
| `CircuitBreaker_proofs` | invariants of the breaker, the refinement of the three states | `CircuitBreaker` |
| `SessionRefresh` | tabs, their shared refresh, cookies, token rotation | |
| `MCSessionRefresh` | instances for TLC | `SessionRefresh` |
| `SessionRefresh_proofs` | the sharing of the refresh, whose user is shown, no session is lost without a cause | `SessionRefresh` |
| `MapEdit` | edits of the map, its cache, the undo stack, the backend | |
| `MCMapEdit` | instances for TLC: a point and a line | `MapEdit` |
| `MapEdit_proofs` | the count of saves, the limit of the stack, the types | `MapEdit` |
| `MapCache_proofs` | the cache shows what the backend has | `MapEdit_proofs` |
| `MapKnown_proofs` | what the coroutines know of their objects in the backend, and which undos are doomed | `MapCache_proofs` |
| `MapRound_proofs` | undoing everything gives the map back | `MapKnown_proofs` |

### ProjectJobs

*Rows.* `status[j]` is `project_jobs.status`, with "none" before the INSERT. `age[j]`
is the time since `created_at` (pending) or `started_at` (running): all that
`is_job_stale` and `kick_stuck_pending_job` look at. It saturates at `MaxAge`, above
every threshold. `runs` and `effects` are history: claims of the row, and commits of
the runner's writes.

*Tasks.* Each task is a coroutine in `execute_project_job`; `WebTasks` run in the web
process (watchdog, kick, in-process), `WorkerTasks` in the ARQ worker.

| Action | Code (`app/services/project_job_run.py`) |
|---|---|
| `ExecRead` | the first `db.get` and the test for "pending" |
| `ExecLock` | `pg_advisory_xact_lock`, which waits for the holder's transaction |
| `ExecClaim` | `try_claim_pending_job`, the commit, and the ineffective recheck |
| `BodyDone`, `BodyFails` | the runner |
| `ExecFinish` | the last recheck, `mark_job_completed`, commit |
| `ExecError` | a database error on the way |
| `FailRead`, `FailWrite` | the except clause, in a second session |

`taskSeen` is the session's copy of the status. Sessions are made with
`expire_on_commit=False`, so `db.get` returns that copy: the checks after the claim see
"running" whatever the row says. In the except clause a claim that lost still leaves
"running" in the copy, and the row is then marked failed.

*Scheduling.* `Enqueue` adds the message and the watchdog; `EnqueueFails` has the
message arrive or not and falls back only with `SyncFallback`; `ScheduleInProcess` is
the path without Redis; `RunInline` is `run_project_job_inline`, one transaction.
`WorkerTake` removes a message, `WorkerTimesOut` is `job_timeout` (CancelledError skips
the except clause), `WatchdogFires` is the end of its sleep.

*Handlers.* A handler reads and decides in one step and writes in a later one
(`CommitJob`, `WriteStatus`), with anything in between. The unique index of migration
019 is the test of `Conflicting` in the commit. `GetJob` kicks and, by the same read,
expires; `GetActiveJob` expires, reads again and kicks; `CancelJob`, `AdminCancelJob`,
`AdminJobsHealth` are the remaining writers.

*Faults.* `WorkerCrash`, `WebCrash`, `QueueLost`, `TaskDies`, `RequestDies` and
`EnqueueFails` spend from `MaxFaults`.

Abstractions: a runner's work is whether its writes are committed; the transaction takes
effect at its commit; `CommitsEarly` are the jobs whose runner commits by itself
(file import, pad placement apply), by which a failed job may have changed the project;
a kick with every `WebTask` busy is not modelled (the bound stands for a web process
that can always spawn), the poll itself is.

### JobSlot

Two variables, four actions: a job is submitted into its project's slot (failing what
is there), started, ended, or run at once. `ProjectJobs` instantiates it
(`Slot == INSTANCE JobSlot WITH status <- status, runs <- runs`) and maps to it by the
identity on those two; requests, tasks, queue, timers and faults are stuttering steps.

### JobFeed

One job, one tab. `status` is the committed row, and `txPc`, `txBy`, `txTo`, `txLeft` the
transaction that holds it: `Flush` is the UPDATE of a `mark_job_*` or of the claim, which
waits for the one before; `PublishLocal` and `PublishRedis` are the two halves of
`publish_job_event`, gone through twice for an end (`job.status_changed`, `job.result`);
`Commit` is the caller's. So the code announces before it commits, and `Rollback` may
follow. Which write comes when is the matter of `ProjectJobs`; here the row takes any
course `JobSlot` allows (`MayWrite`).

`redis` and `bridge` are the channel and `_redis_bridge_loop`, which only the connection
of a socket starts (`Subscribe`), although the comment at `app/services/job_events.py:11`
speaks of application start-up. `sock` is "accepted" between `websocket.accept`, when the
tab takes itself for connected, and `hub.subscribe`. `queue` is the subscriber's queue up
to the tab's `onmessage`.

`shown` is the status in the tab's task log. It is written by `Receive` (`patchJob`,
`updateStep`), by `QueryAnswer` (`useActiveProjectJob`, which leaves an ended entry
alone), and without such a guard by `Register`, `LoopAnswer` (`pollProjectJobUntilDone`)
and `PanelAnswer` (`TaskLogPanel`). The history variable `missed` notes that an
announcement got lost or an unguarded snapshot came late; the properties are stated up
to it.

Faults are `RedisFails`, `Rollback`, `BridgeCrash`, `Disconnect` and `Reload`, limited by
`MaxFaults`; `MaxMoves` limits writes, steps and requests of the panel. Left out: jobs
run within their request (no client waits for them), progress events (they carry no
status), the subscription filter, the heartbeat (a `Disconnect`), toasts.

### CircuitBreaker

`failures`, `opened`, `sinceOpen`, `halfOpen` are the fields of `CircuitBreaker`, with
the monotonic clock replaced by the time since opening. A call goes `Admit` or `Reject`
(`call`), `AttemptOk` or `AttemptFails` (the answer, the mapping of its error, the
decision of tenacity and what is recorded), `Retry` (after the backoff; the breaker is
not asked again). `Cancelled` is a CancelledError, recorded by nobody. The service goes
down and comes back (`Outage`); a service that is up still fails `MaxGlitches` times.

### BreakerStates

Four variables: the state as the property `state` reads it, the count, the time waited,
and the calls inside. Calls enter unless it is open, and succeed, fail or abandon it; time
makes an open breaker half open. `CircuitBreaker` maps to it by `State` and `Inside`,
the other two are its own: flags, attempts, backoff, errors and the service are gone.

### SessionRefresh

Sessions are numbered as the backend issues them; number n stands for the access, the
refresh and the CSRF token of one answer. `store[t]` is a tab's sessionStorage, `jar` the
cookies that all tabs share (with `cookies = FALSE` the API is on another origin and they
do not reach it). `call[c]` is a coroutine of a tab and `refresh[r]` one run of the
function inside `tryRefreshSession`; any number of calls wait for it.

| Action | Code |
|---|---|
| `PageRequest`, `Request`, `Send`, `TryAgain`, `GoOn`, `GiveUp` | `request` and `requestBlob` of `client.ts`: headers of the session first, one retry after 401 or 403 |
| `TryRefresh`, `RefreshAnswered`, `RefreshFails` | `tryRefreshSession`, with its `finally` |
| `FetchUser`, `UserFetched` | `fetchUser`, with its two looks at the epoch |
| `Login`, `SessionCleared`, `LoggedIn`, `Confirmed` | `login`, `register`, `applyAuthSession`, `confirmSession` |
| `Logout`, `LoggedOut` | `logout` by `clearServerSession` |
| `AuthLost` | `clearClientAuth`, `sppr:auth-lost`, and the way to the login page |
| `Serve` | CSRF, access token and endpoint, in the backend |
| `RotateRead`, `RotateCommit` | `rotate_refresh_token`: the SELECT, later the commit |
| `CallFails`, `Reload`, `Revoke`, `Expire` | network, the user, an admin, time |

A tab runs what has been woken before anything else (`Quiet`), as the microtasks of a
browser do. A page that is left leaves requests behind that the backend still serves
(`LeavePage`, `Unwanted`). History: `account` is the last login; `mishaps` notes what may
cost a session for good reason ("excused": a logout, a revocation, a lost answer, two tabs
with one token), that a refresh of an earlier session was answered after a login
("mixed"), and that a session was given up ("dropped").

Abstractions: an access token does not expire between a refresh and the retry that uses
it (`Fresh`; an hour against a request); `refreshUser`, rate limits, password checks and
the WebSocket's use of the token are left out.

### MapEdit

An object has its ends (a point one, a line two), its path, and `form`, which is
everything else. Of geometry there is one question, whether a line hangs on a point, and
the code answers it in two ways. The backend compares coordinates up to 1e-6
(`infra_delete.py:31`), which is equality of places here (`Linked`, `Expand`). The tab's
`linkCoordMatch` (`infraLinks.ts:10`) also takes an end for a point's when both coordinates
round to the same three decimals, some 100 m: the pairs of `Near` (`TabLinked`,
`TabExpand`). So a drag or a delete in the tab may take lines along that the backend does
not hang on the point. The backend refuses a line that does not end at points
(`line_endpoint_rules.py:177`, `Anchored`) when it is created or saved by itself; a paste,
the only batch, is exempt. The rule snaps an end within 1e-6 to the point, which equal
places say already. An edit is a coroutine `op[o]`: it patches `cache`, sends the requests
of its `stages`, and ends by pushing an undo entry or by its catch clause.

| Action | Code (`frontend/src/`) |
|---|---|
| `Move`, `MoveSaved`, `MoveFailed` | `handleGeometryChange` of `useMapGeometrySave.ts`: a drag or a reshaped line; a later call supersedes it (`seq`) |
| `MoveGroup`, `GroupSaved`, `GroupFailed` | `handleBatchGeometryChange` |
| `SaveDetail`, `DetailSaved`, `DetailFailed` | the object form |
| `DeleteSelection`, `Deleted`, `DeleteFailed` | `useMapPageDelete.ts`, optimistic, with a snapshot |
| `PlacePoint`, `SplitLine`, `Placed`, `SplitDone`, `SplitFailed`, `PlaceFailed` | `mapInfraClickCreate.ts`; a split is three requests and a clean-up |
| `Paste`, `Pasted`, `PasteFailed` | the clipboard, one transaction of the backend |
| `Undo`, `UndoDone`, `UndoFailed` | `performUndo` and `applyMapUndo` |
| `Refetch`, `FetchRead`, `FetchAnswer`, `FetchFails`, `Released` | the query of the objects, its invalidation and cancellation |
| `Serve`, `ServeStray` | the endpoints; a deleted point takes along the lines at its very place, a line that would end at no point is refused (`Accepted`) |

History: `drift` notes that the cache cannot be expected to agree until a clean refetch,
`holes` that the stack does not have what was done. Their causes:

| Cause | `drift` | `holes` |
|---|---|---|
| edits in each other's way (`InTheWay`) | yes | yes |
| a delete of what is gone, or in which the tab takes other lines along than the backend will (`Misjudged`) | yes | yes |
| an answer is lost, or a request left behind by a failed undo is served | yes | yes |
| a request failed after others of its edit were carried out (`applied`) | yes | yes, unless a split only made its point, which it deletes |
| a form, a group of points or a superseded drag failed: nothing is taken back | yes | if half done |
| a delete failed (its snapshot goes over whatever came since), a placement failed, an undo ended: each refetches | yes | no |
| an edit begun on a cache that had drifted, ended during an undo or superseded, or pushed onto a full stack | no | yes |

These are the limits of what `CacheAgrees` and `RoundTrip` say; what the code does in those
cases is in section 6. Two edits of the same objects, or of objects that
hang together, are `InTheWay` of each other: their requests overwrite each other in any
order, and no property is stated of the map for them; the counter, the flag and the
stack are checked all the same.

`MaxIds` bounds in `Undo` how many ids were handed out: a restore half done, with its
line refused by the endpoint rule, goes back onto the stack and can be tried for ever,
each time with another copy of the point.

Left out: points of interest (points that no line hangs on), group drags of lines,
lines to bottomholes (`well_bottomhole_gs`, which the endpoint rule exempts and the tab
attaches to a pad), the healing of lines of another version, and snapping of a placement
to what is near it.

## 3. Runs

| Run | Checks | Instance | Shows |
|---|---|---|---|
| `queue` | `TypeOK`, `ClaimedOnce`, `CompletedIsBacked`, `WorkerRunNotStale`, `StrandedOnlyByFaults`, `NoResurrection` | 2 jobs of 1 project, 1 handler, 1 web task, 1 worker task, 1 fault; 1.5 M states | the production setup with Redis |
| `inprocess` | `OneActivePerProject`, `ClaimedOnce`, `CompletedIsBacked`, `StrandedOnlyByFaults`, `SlotSpec` | 2 jobs, 2 handlers, 2 web tasks, no worker; 355 k states up to symmetry | requests and executions interleaving in one process, and the refinement |
| `polled` | `PolledJobEnds`, `WatchdogStarts` | 1 job, 1 handler, 2 web tasks, 1 worker task, 2 faults; 170 k states | a job that is polled ends; without polls the watchdog gets it out of pending |
| `breaker` | `TypeOK`, `OpenIffThreshold`, `HalfOpenOnlyWhenDue`, `BreakerRecovers`, `StatesSpec` | 2 calls, threshold 3, reset 2, 2 attempts, 2 glitches | the breaker's bookkeeping, the refinement of its three states, its recovery |
| `feed` | `TypeOK`, `LastWordAgrees`, `EndShownIsEnd`, `CreatorLearnsEnd` | queue of 1, 2 moves, 1 fault, with and without Redis; 840 k states | what a tab shows, up to losses, and the poll of the creating tab in spite of them |
| `session` | `TypeOK`, `SessionKept`, `WaitersShareRefresh`, `ShownUserRight`, `CookieGood`, `CallsEnd` | 2 tabs, 2 users, 2 calls, 2 refreshes, 3 events, with and without cookies; 486 k states | one refresh for many, no session lost without cause, the right user, no call stuck |
| `edit` | `TypeOK`, `PendingCoversSaves`, `RoundTrip`, `CacheAgrees`, `UndoEnds` | a point with a line that begins and ends at it, new points near that point, 2 coroutines, 2 edits, 1 fault; 546 k states | cache, undo and counters with overlapping edits |
| `serialised` | `RunnersSerialised` | | violated: section 6 |
| `retries` | `RetriesAsDocumented` | | violated: section 6 |
| `missed` | `MissedEventsRecovered` | | violated: section 6 |
| `logout` | `LogoutClearsTab` | | violated: section 6 |
| `undo` | `UndoApplies` | | violated: section 6 |

Why the bounds are enough. What jobs compete for is the slot of one project, and two
jobs meet there: the old and the new one. A third could only repeat what the second
does. Two executions of one row need two tasks (web and worker in `queue`, two web
tasks in `inprocess`); two requests that both see an empty slot need two handlers. All
thresholds are 1 tick, so that every order of "kicked", "watchdog fires", "stale" and
"timed out" occurs; `MaxAge` lies above them all. One job of each instance commits
early, the other with the row. One fault strikes at any point; the liveness run has
two. `queue` has one handler, for the interleaving of requests is what `inprocess` is
about; the theorems below have no such bound.

In `feed` two moves are the claim and the end of a job, or two ends of which the second
replaces the first; with the direct and the bridged copies of up to three announcements
under way, older ones arrive after newer ones. A queue of one is full as soon as one
event waits, so losses by overflow occur as well as those by a fault.

In `session` two calls are what it takes to share a refresh, and two tabs with a refresh
each to present one token twice. Three events suffice for a login after a logout with a
call of the earlier session under way, or for two calls and a fault. The browser starts
with a session in one tab and none in the other, so the second tab begins by the cookies.

In `edit` two edits overlap in every order, or one edit overlaps an undo of another, with
a refetch in place of an edit, and one request fails or loses its answer. The line begins
and ends at one point, so that the point's drag and its delete take the line along in the
instance with the fewest objects; a place of a new point is near it, and a new point
placed and deleted again, or dragged, takes the line along in the tab only. `MaxIds = 8`
leaves six ids for what is made and restored. `undo` has two points with a line
between them and no fault. Two edits never
fill the undo stack (`MaxUndo = 2`): its limit is a matter of the theorem
`StackBounded` instead.

Symmetry in `inprocess` permutes handlers and web tasks; its properties are safety
properties that do not tell them apart. Deadlock is checked in the runs of `ProjectJobs`
and `CircuitBreaker`, where time goes on forever. It is not in those of `JobFeed`,
`SessionRefresh` and `MapEdit`: a user may do nothing more, and once the bounded events
are spent the system rightly stops.

## 4. Fairness

- Time passes, and ARQ cuts off what runs too long (`ClockFairness`).
- `TimedSpec` adds no more than that. The two liveness properties of jobs name the rest
  as their premise. `PolledJobEnds` presumes `Polled`: strong fairness of `GetJob` per
  job, since a client that polls gets a coroutine of the server each time (the handlers
  of the model are a bound, so the action is not enabled for good), and weak fairness of
  each request under way; nothing of tasks, worker or runner, for the job ends by expiry
  at the latest. `WatchdogStarts` presumes `WebRuns`: weak fairness of the watchdog and
  of web tasks up to the claim, which the event loop provides; nothing of the worker or
  of the runner, and no polls.
- `FairSpec` of `JobFeed`: a transaction that announces goes on to its commit, bridge and
  endpoint forward what they have, the tab handles its messages, and the timers of its
  two polls fire. Nothing is assumed of the writers, of the reconnection (a refused token
  ends it), of the panel (the user opens it) or of the poll's deadline.
- `FairSpec` of the breaker: the loop runs what is ready, each attempt has an HTTP
  timeout, and somebody keeps calling.
- `FairSpec` of `SessionRefresh`: while some call or refresh can go on, one of them does
  (`Work`): requests have `REQUEST_TIMEOUT_MS`, and event loops run what is ready.
  Nothing is assumed of users, of expiry and of faults.
- `FairSpec` of `MapEdit`: the same, while a coroutine or a refetch can go on (`Work`).
  Nothing is assumed of the user. Requests left behind by a failed undo need not ever be
  served.

## 5. Proofs

All theorems hold for every value of the constants that satisfies the assumptions.

Assumptions. `ConstantsAssumption` types the constants. `TimeoutsAssumption` is
`WorkerTimeout <= StaleRunning`: `job_timeout` 600 s against
`JOB_STALE_RUNNING_SECONDS` 1200 s (`app/core/config.py:29`); only `WorkerNeverStale` needs it.
`BreakerAssumption`, `FeedAssumption`, `SessionAssumption` and `MapAssumption` type the
constants of their modules; the last one adds that the coroutines are finitely many,
that the objects of `Start` are at places that no edit brings (an edit that places a new
object brings a place that no object had before it), and that `Near` is symmetric and
between different places. Nothing else is assumed of it: the theorems hold for any
test of the tab that is at least as wide as the backend's.

`ProjectJobs_proofs`. The inductive invariant `IInv` is `TypeInv` (`TypeOK` and, per
program counter, which fields hold a job) with `JobsInv`:

- `RequestsInv`: the rows a request is about to write exist, the row it creates does
  not, and no two requests create the same one;
- `KnownInv`: queue, watchdogs and tasks name existing rows only;
- `HistoryInv`: pending rows were never claimed, running and completed ones were, a
  row is claimed at most once and its writes committed at most as often;
- `HolderInv`: a task at work on a row is the only one, and holds the row's only run;
- `OneActivePerProject`;
- `TimerInv`: a running row of a worker task is no older than the task's timer;
- `DriverInv`: without faults, a pending row has a request, message, watchdog or task.

No conjunct can go. `ClaimedOnce` needs the claim's test of the row to imply `runs = 0`
(`HistoryInv`), `CompletedIsBacked` needs the finishing task to be the one that claimed
(`HolderInv`), `WorkerRunNotStale` needs the order of the two clocks (`TimerInv`).

| Theorem | Statement |
|---|---|
| `TypeCorrect` | `Spec => []TypeOK` |
| `OneActive` | `Spec => []OneActivePerProject` |
| `RunnerStartedOnce` | `Spec => []ClaimedOnce` |
| `CompletedOnce` | `Spec => []CompletedIsBacked` |
| `WorkerNeverStale` | `Spec => []WorkerRunNotStale` |
| `NothingStranded` | `Spec => []StrandedOnlyByFaults` |
| `TerminalForGood` | `Spec => NoResurrection` |

The slot. `SlotImplemented` is `Spec => SlotSpec`: each action of the executor
and of a handler is a submission, a start or an end of a job in its slot or leaves
`status` and `runs` alone. It needs `IInv` and one more invariant, `SameSlot`: a
creating request fails jobs of its own project only. `SlotKeepsPromise` shows from the
abstract specification alone that one job is in a slot, is started once, and completes
only after a start, so the refinement is not to a specification that allows anything.

`CircuitBreaker_proofs`. `BreakerTypes`, `OpensAtThreshold` and `HalfOpenWhenDue` from
one inductive invariant, `BreakerInv`: the types, the count against the threshold, the
half-open flag against the clock, and the attempts of a call against its state.
`StatesImplemented` is `Spec => StatesSpec`, the refinement of `BreakerStates`: each
attempt that leaves the retry loop is a success or a failure of the abstract breaker, a
cancelled call abandons it, and refusals, retries and outages are stuttering steps. It
needs the whole of `BreakerInv`: that the count is at the threshold exactly while the
breaker is not closed makes a late failure restart the timeout and not count on, and that
the half-open flag implies the passed timeout makes "half open" by flag and by clock one.

`JobFeed_proofs`. `FeedInv` is inductive. Its core:

- `EndInv`: as long as the row has not ended and no transaction is ending it, no
  announcement on its way, in Redis or in the queue, is of an end, and none is shown;
- `WordInv`: once an end is committed, or about to be, the last status among what Redis
  holds, then what the queue holds, then what is shown, is that end. Only the last
  announcement counts, so the copies that arrive twice and out of order do no harm;
- `ClaimInv`, `LoopInv`, `ChannelInv`: a claiming transaction holds a pending row, nobody
  polls for a row that is not there, and without Redis its channel is empty.

| Theorem | Statement |
|---|---|
| `FeedTypes` | `Spec => []TypeOK` |
| `EndShownHolds` | `Spec => []EndShownIsEnd` |
| `LastWordHolds` | `Spec => []LastWordAgrees` |

`SessionRefresh_proofs`. `RefreshShared` is `Spec => []WaitersShareRefresh`. The invariant
adds to it that `refreshInFlight` is a refresh of the tab itself (`InFlightOwn`), without
which a refresh could be started where another is waited for, and that what is woken
belongs to a tab (`WokenInTab`). It is what `CallsEnd` rests on: a waiting call has a
refresh under way that will wake it.

Whose session. `SessionTypes` is `Spec => []TypeOK`, from an invariant `TypeInv`
that adds, per state of a call and of a refresh, what its fields hold. `UserShown` is
`Spec => []ShownUserRight`. The property is about the user on the page; what the page
could come to show is in `ShownInv`, whose parts hold one another up:

- `EpochsBehind`, `LoginAlone`: no call is ahead of the epoch of its tab, and while
  somebody logs in the tab shows nobody, and every `fetchUser` asked before is of an
  earlier epoch. This is what `authEpoch` is for;
- `IssuedToAsker`, `LastLogin`: the answer of a login is a session of who asked, and the
  login that has its answer in the tab of the last login is that one;
- `TokensOfAccount`: the cookie, the tokens of that tab and those of each of its calls
  that are still current belong to the last account. Only this part is given up once a
  refresh of an earlier session is answered after a login ("mixed").

No session lost. `SessionsKept` and `CookiesGood` follow from one invariant,
`KeptInv`: unless one of the named causes occurred,

- each refresh under way holds a token that can be exchanged, or the successor is issued
  (`RefreshesGood`), and no two hold the same (`TokensApart`), in different tabs included;
- sessions in answers under way are known to nobody else (`AnswersNew`), and what the
  browser will send next can be exchanged or its successor is coming (`CredentialsGood`);
- without cookies tabs have tokens of their own (`StoresApart`), and a tab that shows a
  user has some (`PagesHaveTokens`);
- each call is `Sound`: a call woken by a refresh finds tokens newer than the last expiry,
  so its second attempt is not refused. That is the step at which a session would be
  given up.

`MapEdit_proofs`. `PendingHolds` is `Spec => []PendingCoversSaves`. The property says
nothing about a count above zero, so the invariant `CountInv` bounds the number of savers
by the count: not equal to it, for a superseded save never lowers it. `StackBounded` is
`Spec => [](Len(stack) <= MaxUndo)`; its invariant `StackInv` says that there is one undo
at a time and that there is room for its entry while it is under way, since an edit
that ends meanwhile records nothing. `MapTypes` is `Spec => []TypeOK`; its `TypeInv`
types requests, entries, snapshots and answers as well, for each of them becomes part of
one of the two maps later: an update merges into an object whatever fields it carries, and
an undo restores what its entry says.

`MapCache_proofs`. `CacheHolds` is `Spec => []CacheAgrees`: with nothing under way and
nothing gone wrong, cache = server. While edits are under way the two differ, so the
invariant is about whose the differences are: `CacheInv == drift \/ SomeLost \/ Agree`.

- `Agree`: an object is the same in both maps, or in the `Area` of exactly one edit, the
  objects it names or was answered with. Of those it knows enough to end well (`Holds`).
  A save: what the cache has and the backend has not is in a request still to be answered,
  and a drag that has brought nothing yet has the snapshot that takes it back. A delete:
  its request reaches all that left the cache, or all of it has left the backend. The tab
  finds every line that the backend finds (`TabFinds`), and a delete of which the backend
  would keep one has set `drift` when it began (`Misjudged`). A
  creation: what it was not answered with it did not change.
- Nobody else's request reaches an edit's area. For updates this is disjointness. A delete
  takes lines along that it does not name, by their ends, so `Harmless` says it of places:
  no object outside an edit's area is at a place the edit brings (`Own`), no line outside
  it hangs on a point it deletes (`Doors`). New places are nobody's (`TypeInv`), and an
  edit that begins with others `InTheWay` sets `drift`.
- `SomeLost`: a coroutine that will set `drift` at its end (a form whose save failed, a
  split that is undone, a drag superseded and failed). It stays so until it ends, and no
  coroutine ends it for it (`LostStep`).
- `drift` is cleared by nothing but the answer of a refetch that is still what the
  backend has and finds no edit under way, and that answer replaces the whole cache
  (`DriftStep`, `RefetchHolds`).

Each action is taken apart in the same way: what the stepping coroutine still knows, that
it stays within its bounds (`Within`, `Mindful`), and one lemma, `StepOfOne`, that this
suffices for all others. Proving it showed an error of the model: a coroutine of which a
request had failed could go on with its next stage, where the code's `await` has thrown.
`GoOn` now asks for `err = "none"`.

`MapKnown_proofs` and `MapRound_proofs`. `RoundTripHolds` is `Spec => []RoundTrip`: with
nothing under way and nothing left on the stack the backend has the map one started with,
each object as often, unless the stack does not have what was done (`holes`), a delete
among it of which the backend kept a line. The property is
about the end of a history, so the invariant is about all of it:
`RoundInv == holes \/ Doomed \/ (Discreet /\ (drift \/ InStep) /\ Kept)`.

- `Kept`: there is a map for each entry of the stack, and below them one that is `Start`
  up to ids (`SameMap`), such that undoing an entry leads from its map to the one below
  (`Leads`). The topmost is what the backend would have without what is under way
  (`BaseOf`, `Before`): what an edit recorded put back, what it made taken out. An edit
  that ends adds its map (`KeptPushed`), an undo that begins takes the topmost for its
  own (`Pending`), and from its first answer on it works towards the one below. No
  coroutine brings an object to a place that some map of the history needs (`Elsewhere`).
- A restored object has a new id. The maps of the history are then renamed
  (`Renamed`), which changes no multiplicity (`RenamedSame`) and nothing that an entry
  says, except one that names the old id.
- `Doomed`: such an entry, or an undo under way that is bound to fail. A request of the
  entry is `Vain`, for an id that is gone is never handed out again; it fails whenever it
  is undone, and the entry goes back onto the stack (`DoomedStep`). So the stack is not empty when all is quiet, and the property
  holds for that reason: it is how "older entries fail and stay on top" of section 6
  appears here, and why the disjunct is no escape.
- `Discreet`: per kind of edit and stage what the coroutine knows of its objects in the
  backend (`Knows`), and that all others are safe from it (`Safe`). Unlike `Agree` it
  speaks of undos as well, and holds whatever becomes of the cache.
- `InStep`: an edit records what the cache shows, which is what the backend has only as
  long as the two agree. It is `Agree` for what an entry needs, with undos; once the
  cache has drifted no edit begins without leaving a hole.

TLC checked the invariant on instances of `edit` before it was proved, with the maps of
the history computed from the entries. Looking for it showed two errors of the model, both
where two points are at one place. The requests that restore deleted objects were a set
of objects, in which two equal ones were one; a request now names the entry's object it
is for (`Restore`). And `InTheWay` did not see an undo of a drag that puts a line back to
the place of a point that is being deleted, whereupon the backend deletes the line as
well; `Hooks` now compares with the ends the line has, not only with the points the entry
names. TLC showed that one as a violation of `RoundTrip` on a start with two points at one
place; both are places where the code's matching by coordinates is looser than its ids.

| Theorem | Statement |
|---|---|
| `RefreshShared` | `Spec => []WaitersShareRefresh` |
| `SessionTypes` | `Spec => []TypeOK` (of `SessionRefresh`) |
| `UserShown` | `Spec => []ShownUserRight` |
| `SessionsKept` | `Spec => []SessionKept` |
| `CookiesGood` | `Spec => []CookieGood` |
| `PendingHolds` | `Spec => []PendingCoversSaves` |
| `StackBounded` | `Spec => [](Len(stack) <= MaxUndo)` |
| `MapTypes` | `Spec => []TypeOK` (of `MapEdit`) |
| `CacheHolds` | `Spec => []CacheAgrees` |
| `RoundTripHolds` | `Spec => []RoundTrip` |
| `StatesImplemented` | `Spec => StatesSpec` (of `CircuitBreaker`) |

Every invariant that a passing run checks is a theorem, and so are `NoResurrection`,
`SlotSpec` and `StatesSpec`. Only model-checked are the liveness properties
(`PolledJobEnds`, `WatchdogStarts`, `BreakerRecovers`, `CreatorLearnsEnd`, `CallsEnd`,
`UndoEnds`): temporal reasoning with fairness and ENABLED is beyond the prover.

## 6. Where documents and code disagree

Five runs each find a statement of a document violated; `PROJECT.json` quotes them.

- `serialised`: the advisory lock is released by the commit of the claim, so it does not
  serialise runners: after a running job is expired or cancelled, the project's next
  job runs beside the old runner.
- `retries`: error mapping inside the attempt makes tenacity retry 4xx answers and give
  up on connection errors at once.
- `missed`: `data-model.md` of the WebSocket journal has the client fetch a snapshot when
  the connection is restored; `fetchJobSteps` has no caller, the poll stops when the
  socket connects, and `/jobs/active` answers null after the end, which the tab ignores.
  A tab that missed the end shows the job as running until somebody opens the panel.
- `logout`: logging out clears the tab's tokens and then sends `POST /auth/logout`, which
  `request` takes for a change that needs a session: it refreshes by the cookie and stores
  the new tokens, and nobody clears those. The user is gone from the page, the tokens are
  in sessionStorage.
- `undo`: the undo of a paste sends a DELETE per object at once. When that of a point is
  served first it takes the line on it along, the line's answers 404, and the entry goes
  back onto the stack, from where it fails ever after.

Others were met while modelling and have no run.

*Jobs.* The guard against cancellation reads the session's cached copy, so a job that an
admin cancels while it runs becomes completed (`docs/architecture/architecture.md:93`). A
job executed in the web process has no timeout and is expired while it works, for the
margin of `JOB_STALE_RUNNING_SECONDS` (`app/core/config.py:29`) protects the worker's
only. A cancel request that read an active row overwrites a job that completes before its
write (`docs/product/user-flows.md:489` promises the actual status; `NoResurrection` is
stated over "ended" for this reason). The half-open breaker lets every call through, not
the one of `docs/features/backend-stability/contract.md:157`.

*Session.* Across origins a logout revokes nothing, for the refresh token is only sent as
a cookie. Two tabs that rotate one token at once cost the loser its session. A refresh of
the earlier session that is answered after a login overwrites the new tokens ("mixed").
The theme switch calls `fetchUser`, whose answer during a logout brings the user back.
`login` shows the user even when `confirmSession` found the epoch changed. The cookies a
refused refresh clears are not cleared: the HTTPException drops those headers.

*Map.* A superseded save leaves `geometrySavePending` raised for good (the `finally`
returns early, `useMapGeometrySave.ts:303`), and pasting is blocked until the page is
loaded again; its undo entry is lost, and if it fails it is neither taken back nor
reported. Restored objects get new ids, so older entries that name the old ones fail and
stay on top of the stack. A failed undo refetches nothing, and the retry of one that was
half done creates objects twice. A split that fails after the line was moved to the new
point deletes the line with the point. A failed save of the form stays in the cache, and a
late answer of one brings a deleted object back there. The two tests of whether a line
hangs on a point disagree (`infraLinks.ts:10`, `infra_delete.py:31`): deleting a point with
a line's end near it, not at it, takes the line off the map and into the undo entry while
the backend keeps it. It is back with the next refetch, and the undo creates it a second
time. Where the end is at no other point the endpoint rule refuses that create: the undo
stays half done, and each retry creates the point again.

## 7. Not modelled

The map of `PROJECT.json` covers a small share of the implementation, and cannot cover
much more: nine tenths of the frontend are rendering, forms, tables and geometry, whose
state is what React derives from props, and the rest of the backend is CRUD in one
transaction per request. In particular:

- Numerical planners (Steiner trees of the road network, earthwork, well trajectories),
  flow propagation, sand allocation and line splitting are stateless functions of real
  numbers. A model over small integers would not be the same function, and its rounding,
  tolerances and geometry are what could be wrong with them.
- CRUD, access control, pages, assistant, 3D models, migrations and deployment have no
  state across steps that another actor could disturb, beyond a row and its transaction.
- The journal of job steps: it is written by the one task that runs a job and read by
  the panel only.
- `run_on_main_loop`: the abandoned coroutine is one more call of the breaker.
- Read-only endpoints and logging of the modelled parts; the paths listed as left out in
  section 2. Redis and PostgreSQL are modelled by what the code uses of them.

## 8. What could come next

1. `JobSteps`, should a second writer of the journal appear.
2. Points of interest and group drags of lines in `MapEdit`.
