-------------------------------- MODULE JobFeed --------------------------------
(***************************************************************************)
(* How the status of one job reaches one browser tab: the writers of the    *)
(* row announce each status before they commit it, the hub of the web       *)
(* process and the Redis bridge carry the announcements, the WebSocket      *)
(* endpoint sends them, and the tab keeps what it shows in the task log,    *)
(* which polls also write.                                                  *)
(*                                                                          *)
(* A writer is a transaction of mark_job_* or try_claim_pending_job, in the *)
(* web process or in the worker.  Its flush takes the lock of the row, which*)
(* the next writer waits for until the commit: so announcements are made in *)
(* the order of the commits.  ProjectJobs says which writes happen when;    *)
(* here a row goes through any sequence JobSlot allows it, but for a job    *)
(* run within its request, for which no client waits.                       *)
(***************************************************************************)
EXTENDS Naturals, Sequences

CONSTANTS
  None,        \* no answer on its way, no entry in the task log
  QueueLimit,  \* maxsize of a subscriber's queue
  MaxMoves,    \* status writes, step events and requests of the panel (a bound)
  MaxFaults    \* disconnections, crashes and rollbacks (a bound)

ASSUME FeedAssumption ==
  /\ None \notin {"pending", "running", "completed", "failed", "cancelled", "null", "new"}
  /\ QueueLimit \in Nat \ {0}
  /\ MaxMoves \in Nat /\ MaxFaults \in Nat

VARIABLES
  useQueue,  \* settings.jobs_use_queue: there is a Redis (never changes)
  status,    \* the committed status of the row; "none": not inserted
  txPc,      \* the transaction that holds the row: what it does next
  txBy,      \* its process
  txTo,      \* the status it wrote
  txLeft,    \* announcements it still has to make: status_changed, result
  redis,     \* announcements between Redis and the bridge
  bridge,    \* _redis_bridge_loop of the web process
  sock,      \* the socket of the tab: "accepted" is before hub.subscribe
  queue,     \* the subscriber's queue, up to the tab's onmessage
  shown,     \* the status in the tab's task log entry of the job
  query,     \* the job in the cache of useActiveProjectJob, by its status
  answer,    \* the answer to its request on its way
  loop,      \* pollProjectJobUntilDone, in the tab that created the job
  loopAnswer,\* the answer to its request on its way
  panel,     \* the answer to the request of an open TaskLogPanel on its way
  moves, faults

\* History: what this tab shows has not heard an announcement of the last end written,
\* or has been overwritten since by an older snapshot.  No code reads it.
VARIABLE missed

txVars   == <<txPc, txBy, txTo, txLeft>>
hubVars  == <<redis, bridge, queue>>
pollVars == <<query, answer, loop, loopAnswer, panel>>
vars     == <<useQueue, status, txVars, hubVars, sock, shown, pollVars, moves, faults, missed>>

Active == {"pending", "running"}
Ended  == {"completed", "failed", "cancelled"}

Messages == Active \cup Ended \cup {"step"}

TypeOK ==
  /\ useQueue \in BOOLEAN
  /\ status \in {"none"} \cup Active \cup Ended
  /\ txPc \in {"none", "local", "redis", "commit"}
  /\ txBy \in {"web", "worker"}
  /\ txTo \in {"running"} \cup Ended
  /\ txLeft \in 1..2
  /\ redis \in Seq(Messages)
  /\ bridge \in {"off", "starting", "on"}
  /\ sock \in {"closed", "accepted", "open"}
  /\ queue \in Seq(Messages) /\ Len(queue) <= QueueLimit
  /\ shown \in {None} \cup Active \cup Ended
  /\ query \in {None, "new"} \cup Active
  /\ answer \in {None, "null"} \cup Active
  /\ loop \in {"off", "new", "wait", "asked", "done", "gaveup"}
  /\ loopAnswer \in {None} \cup Active \cup Ended
  /\ panel \in {None} \cup Active \cup Ended
  /\ moves \in 0..MaxMoves /\ faults \in 0..MaxFaults
  /\ missed \in BOOLEAN

\* query = "new": the page has not asked yet.  loop = "new": this tab will create the job;
\* its page was there before, and was answered that there is none.
Init ==
  /\ useQueue \in BOOLEAN
  /\ status = "none"
  /\ txPc = "none" /\ txBy = "web" /\ txTo = "running" /\ txLeft = 1
  /\ redis = <<>> /\ bridge = "off" /\ queue = <<>>
  /\ sock = "closed"
  /\ shown = None
  /\ loop \in {"off", "new"} /\ loopAnswer = None /\ panel = None
  /\ query = (IF loop = "off" THEN "new" ELSE None) /\ answer = None
  /\ moves = 0 /\ faults = 0
  /\ missed = FALSE

Fault == faults < MaxFaults /\ faults' = faults + 1

-------------------------------------------------------------------------------
(* The writers of the row.                                                  *)

\* publish_job_event: first to the hub of the own process, where the worker has no
\* subscribers, then to Redis, if there is one.
Announce(by) == IF by = "web" THEN "local" ELSE "redis"

\* Announcements of a write: an end is announced by status_changed and by result.
Announcements(to) == IF to \in Ended THEN 2 ELSE 1

\* The INSERT is not announced.
Insert ==
  /\ status = "none"
  /\ status' = "pending"
  /\ UNCHANGED <<useQueue, txVars, hubVars, sock, shown, pollVars, moves, faults, missed>>

\* A claim that does not test for "pending" (see the mutants in PROJECT.json).
MayWriteUnclaimed(by, to) ==
  \/ to = "running" /\ status # "none"
  \/ to \in {"completed", "failed"} /\ status # "none"
  \/ to = "cancelled" /\ status # "none" /\ by = "web"

\* The writes a row may undergo: the claim tests for "pending"; an end may replace an
\* end; only a job that was started completes.  Cancelling is up to the API.
MayWrite(by, to) ==
  \/ to = "running" /\ status = "pending"
  \/ to = "completed" /\ status \in {"running"} \cup Ended
  \/ to = "failed" /\ status # "none"
  \/ to = "cancelled" /\ status # "none" /\ by = "web"

\* The flush of a mark_job_* or of the claim: the UPDATE waits for the transaction that
\* holds the row.  Without Redis there is no worker.
Flush(by, to) ==
  /\ txPc = "none"
  /\ moves < MaxMoves
  /\ by = "worker" => useQueue
  /\ MayWrite(by, to)
  /\ txPc' = Announce(by) /\ txBy' = by /\ txTo' = to /\ txLeft' = Announcements(to)
  /\ moves' = moves + 1
  /\ missed' = (missed /\ to \notin Ended)
  /\ UNCHANGED <<useQueue, status, hubVars, sock, shown, pollVars, faults>>

\* The except clause of execute_project_job claims a pending row and marks it failed in
\* the same transaction.
FlushAgain ==
  /\ txPc = "commit"
  /\ txTo = "running"
  /\ moves < MaxMoves
  /\ txPc' = Announce(txBy) /\ txTo' = "failed" /\ txLeft' = Announcements("failed")
  /\ moves' = moves + 1
  /\ missed' = FALSE
  /\ UNCHANGED <<useQueue, status, txBy, hubVars, sock, shown, pollVars, faults>>

\* A queue without maxsize (see the mutants in PROJECT.json).
AcceptsAlways == sock = "open"

\* JobEventHub.broadcast for this subscriber: dropped when there is none or it is full.
Accepts == sock = "open" /\ Len(queue) < QueueLimit

Broadcast(m) == queue' = IF Accepts THEN Append(queue, m) ELSE queue

NextAnnouncement ==
  IF txLeft = 2 THEN txPc' = Announce(txBy) /\ txLeft' = 1 ELSE txPc' = "commit" /\ UNCHANGED txLeft

\* A loss matters only when there is no second copy to come.
PublishLocal ==
  /\ txPc = "local"
  /\ Broadcast(txTo)
  /\ IF useQueue THEN txPc' = "redis" /\ UNCHANGED <<txLeft, missed>>
                 ELSE NextAnnouncement /\ missed' = (missed \/ ~Accepts)
  /\ UNCHANGED <<useQueue, status, txBy, txTo, redis, bridge, sock, shown, pollVars, moves, faults>>

\* The Redis channel keeps nothing for a bridge that is not there.
PublishRedis ==
  /\ txPc = "redis"
  /\ redis' = IF bridge = "on" THEN Append(redis, txTo) ELSE redis
  /\ missed' = (missed \/ bridge # "on")
  /\ NextAnnouncement
  /\ UNCHANGED <<useQueue, status, txBy, txTo, bridge, queue, sock, shown, pollVars, moves, faults>>

\* A failing PUBLISH is logged and forgotten.
RedisFails ==
  /\ txPc = "redis"
  /\ Fault
  /\ missed' = TRUE
  /\ NextAnnouncement
  /\ UNCHANGED <<useQueue, status, txBy, txTo, hubVars, sock, shown, pollVars, moves>>

EndTransaction == txPc' = "none" /\ txBy' = "web" /\ txTo' = "running" /\ txLeft' = 1

Commit ==
  /\ txPc = "commit"
  /\ status' = txTo
  /\ EndTransaction
  /\ UNCHANGED <<useQueue, hubVars, sock, shown, pollVars, moves, faults, missed>>

\* The commit fails, or the process dies before it: what was announced is not so.
Rollback ==
  /\ txPc # "none"
  /\ Fault
  /\ missed' = TRUE
  /\ EndTransaction
  /\ UNCHANGED <<useQueue, status, hubVars, sock, shown, pollVars, moves>>

\* The runner announces a step of the job, after the commit of the step's own session;
\* it goes on when the job was expired or cancelled meanwhile.  The two halves of
\* publish_job_event are one step here: a "step" tells nothing but that the job exists.
PublishStep(by) ==
  /\ status \in {"running"} \cup Ended
  /\ moves < MaxMoves
  /\ by = "worker" => useQueue
  /\ IF by = "web" THEN Broadcast("step") ELSE UNCHANGED queue
  /\ redis' = IF useQueue /\ bridge = "on" THEN Append(redis, "step") ELSE redis
  /\ moves' = moves + 1
  /\ UNCHANGED <<useQueue, status, txVars, bridge, sock, shown, pollVars, faults, missed>>

-------------------------------------------------------------------------------
(* The bridge and the endpoint.                                             *)

\* psubscribe has returned.
BridgeStarted ==
  /\ bridge = "starting"
  /\ bridge' = "on"
  /\ UNCHANGED <<useQueue, status, txVars, redis, queue, sock, shown, pollVars, moves, faults, missed>>

BridgeForward ==
  /\ redis # <<>>
  /\ redis' = Tail(redis)
  /\ Broadcast(Head(redis))
  /\ missed' = (missed \/ (Head(redis) # "step" /\ ~Accepts))
  /\ UNCHANGED <<useQueue, status, txVars, bridge, sock, shown, pollVars, moves, faults>>

\* pubsub.listen raises.  Only the next connection of a socket starts the bridge again.
BridgeCrash ==
  /\ bridge # "off"
  /\ Fault
  /\ bridge' = "off"
  /\ redis' = <<>>
  /\ missed' = (missed \/ redis # <<>>)
  /\ UNCHANGED <<useQueue, status, txVars, queue, sock, shown, pollVars, moves>>

\* websocket.accept: the tab takes the connection for open.
Connect ==
  /\ sock = "closed"
  /\ sock' = "accepted"
  /\ UNCHANGED <<useQueue, status, txVars, hubVars, shown, pollVars, moves, faults, missed>>

\* start_redis_bridge, then hub.subscribe.
Subscribe ==
  /\ sock = "accepted"
  /\ sock' = "open"
  /\ bridge' = IF useQueue /\ bridge = "off" THEN "starting" ELSE bridge
  /\ UNCHANGED <<useQueue, status, txVars, redis, queue, shown, pollVars, moves, faults, missed>>

\* The connection breaks, and what was on its way in it is lost.
Disconnect ==
  /\ sock # "closed"
  /\ Fault
  /\ sock' = "closed"
  /\ queue' = <<>>
  /\ missed' = (missed \/ queue # <<>>)
  /\ UNCHANGED <<useQueue, status, txVars, redis, bridge, shown, pollVars, moves>>

-------------------------------------------------------------------------------
(* The tab.                                                                 *)

\* An event with a status changes an entry that exists.
Patch(to) ==
  /\ shown' = IF shown = None THEN None ELSE to
  /\ missed' = (missed \/ shown = None)

\* A step also creates one, "running" whatever the row says.
UpdateStep == shown' = IF shown = None THEN "running" ELSE shown

Receive ==
  /\ queue # <<>>
  /\ queue' = Tail(queue)
  /\ \/ Head(queue) = "step" /\ UpdateStep /\ UNCHANGED missed
     \/ Head(queue) # "step" /\ Patch(Head(queue))
  /\ UNCHANGED <<useQueue, status, txVars, redis, bridge, sock, pollVars, moves, faults>>

\* GET /jobs/active by useActiveProjectJob is due when the page opens, and from then on by
\* the timer, while no socket is connected and the last answer was an active job.  It is
\* also sent when the network returns or a mutation has invalidated it.
QueryDue == query = "new" \/ (query \in Active /\ sock = "closed")

QueryAsk ==
  /\ answer = None
  /\ answer' = IF status \in Active THEN status ELSE "null"
  /\ UNCHANGED <<useQueue, status, txVars, hubVars, sock, shown, query, loop, loopAnswer, panel,
                 moves, faults, missed>>

\* An answer without the guard of the effect (see the mutants in PROJECT.json).
QueryAnswerUnguarded ==
  /\ answer # None
  /\ query' = IF answer = "null" THEN None ELSE answer
  /\ shown' = IF answer = "null" THEN shown ELSE answer
  /\ answer' = None
  /\ UNCHANGED <<useQueue, status, txVars, hubVars, sock, loop, loopAnswer, panel, moves, faults,
                 missed>>

\* The effect writes the entry when the answer differs from the one before, if only in
\* the progress; an active answer leaves alone an entry that has ended.
QueryAnswer ==
  /\ answer # None
  /\ query' = IF answer = "null" THEN None ELSE answer
  /\ \/ answer # "null" /\ shown \notin Ended /\ shown' = answer
     \/ (answer \in {"null", query} \/ shown \in Ended) /\ UNCHANGED shown
  /\ answer' = None
  /\ UNCHANGED <<useQueue, status, txVars, hubVars, sock, loop, loopAnswer, panel, moves, faults,
                 missed>>

\* updateJob and mergeJobsFromApi write the snapshot whatever the entry says.
Overwrite(snapshot) ==
  /\ shown' = snapshot
  /\ missed' = (missed \/ snapshot # status \/ txPc # "none")

\* The 202 answer of the POST: registerJob starts the entry afresh, and the caller starts
\* to poll (or gives up at once).
Register ==
  /\ loop = "new"
  /\ status # "none"
  /\ Overwrite("pending")
  /\ loop' = "wait"
  /\ UNCHANGED <<useQueue, status, txVars, hubVars, sock, query, answer, loopAnswer, panel, moves,
                 faults>>

\* Polling only as useActiveProjectJob does (see the mutants in PROJECT.json).
LoopAskUnlessConnected ==
  /\ loop = "wait"
  /\ sock = "closed"
  /\ loop' = "asked" /\ loopAnswer' = status
  /\ UNCHANGED <<useQueue, status, txVars, hubVars, sock, shown, query, answer, panel, moves,
                 faults, missed>>

\* pollProjectJobUntilDone: GET /jobs/{id}, connected or not.
LoopAsk ==
  /\ loop = "wait"
  /\ loop' = "asked" /\ loopAnswer' = status
  /\ UNCHANGED <<useQueue, status, txVars, hubVars, sock, shown, query, answer, panel, moves,
                 faults, missed>>

LoopAnswer ==
  /\ loop = "asked"
  /\ Overwrite(loopAnswer)
  /\ loop' = IF loopAnswer \in Ended THEN "done" ELSE "wait"
  /\ loopAnswer' = None
  /\ UNCHANGED <<useQueue, status, txVars, hubVars, sock, query, answer, panel, moves, faults>>

\* timeoutMs is over, or the request fails.
LoopGivesUp ==
  /\ loop \in {"wait", "asked"}
  /\ loop' = "gaveup" /\ loopAnswer' = None
  /\ UNCHANGED <<useQueue, status, txVars, hubVars, sock, shown, query, answer, panel, moves,
                 faults, missed>>

\* The list of jobs that TaskLogPanel asks for while it is open.  (A bound: only in a
\* tab that never polls, as the answers of a poll overwrite the entry in the same way.)
PanelAsk ==
  /\ panel = None
  /\ loop = "off"
  /\ status # "none"
  /\ moves < MaxMoves /\ moves' = moves + 1
  /\ panel' = status
  /\ UNCHANGED <<useQueue, status, txVars, hubVars, sock, shown, query, answer, loop, loopAnswer,
                 faults, missed>>

PanelAnswer ==
  /\ panel # None
  /\ Overwrite(panel)
  /\ panel' = None
  /\ UNCHANGED <<useQueue, status, txVars, hubVars, sock, query, answer, loop, loopAnswer, moves,
                 faults>>

\* The page is loaded again: the entry is kept in sessionStorage, and nothing else.
Reload ==
  /\ Fault
  /\ sock' = "closed" /\ queue' = <<>>
  /\ missed' = (missed \/ queue # <<>>)
  /\ query' = "new" /\ answer' = None
  /\ loop' = IF loop \in {"wait", "asked"} THEN "gaveup" ELSE loop
  /\ loopAnswer' = None /\ panel' = None
  /\ UNCHANGED <<useQueue, status, txVars, redis, bridge, shown, moves>>

-------------------------------------------------------------------------------
Write ==
  \/ Insert \/ FlushAgain \/ Commit
  \/ \E by \in {"web", "worker"} : PublishStep(by) \/ \E to \in {"running"} \cup Ended : Flush(by, to)
  \/ PublishLocal \/ PublishRedis

Transport == BridgeStarted \/ BridgeForward \/ Connect \/ Subscribe

Tab ==
  \/ Receive \/ QueryAsk \/ QueryAnswer
  \/ Register \/ LoopAsk \/ LoopAnswer \/ LoopGivesUp
  \/ PanelAsk \/ PanelAnswer

Faults == RedisFails \/ Rollback \/ BridgeCrash \/ Disconnect \/ Reload

Next == Write \/ Transport \/ Tab \/ Faults

Spec == Init /\ [][Next]_vars

\* The coroutines that are on their way go on, and the timers of the tab fire.  Nothing
\* is assumed of the writers' decisions, of the reconnection, which needs a valid token,
\* of the panel, which the user opens, and of the faults.
FairSpec ==
  /\ Spec
  /\ WF_vars(PublishLocal \/ PublishRedis \/ Commit)
  /\ WF_vars(BridgeStarted \/ BridgeForward) /\ WF_vars(Subscribe) /\ WF_vars(Receive)
  /\ WF_vars((QueryDue /\ QueryAsk) \/ QueryAnswer)
  /\ WF_vars(LoopAsk \/ LoopAnswer)

-------------------------------------------------------------------------------
Quiet == txPc = "none" /\ redis = <<>> /\ queue = <<>> /\ answer = None

\* The announcements arrive over two paths, some twice and out of order, some before a
\* commit and some after an older answer of useActiveProjectJob.  Yet when all have
\* arrived the tab shows the end that the row has, unless one was lost or an unguarded
\* snapshot overwrote it.
LastWordAgrees ==
  Quiet /\ ~missed /\ status \in Ended => shown \in {None, status}

\* A tab says that a job has ended only if its row has, or if the transaction that ends
\* it is open: nothing brings a row back.  A rollback after the announcement breaks this.
EndShownIsEnd ==
  shown \in Ended /\ ~missed => status \in Ended \/ (txPc # "none" /\ txTo \in Ended)

\* A caller of pollProjectJobUntilDone learns that its job has ended, whatever became of
\* the announcements, unless the page is left, a request fails or the time is over.
CreatorLearnsEnd ==
  status \in Ended /\ loop \in {"wait", "asked"}
    ~> (loop = "done" /\ shown \in Ended) \/ loop = "gaveup"

\* docs/features/websocket-journal/data-model.md:129: for events it missed the client
\* takes a snapshot when the connection is restored.  So a tab that is connected does not
\* show a job as active for ever after its end.
MissedEventsRecovered ==
  sock = "open" /\ shown \in Active /\ status \in Ended ~> shown \in Ended \/ sock # "open"

===============================================================================
