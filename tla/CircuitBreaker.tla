---------------------------- MODULE CircuitBreaker ----------------------------
(***************************************************************************)
(* The circuit breaker of one microservice in one web or worker process,    *)
(* with the retries that run inside it: the adapters call                   *)
(* breaker.call(_with_retry), and retry_microservice_call makes the HTTP    *)
(* attempts.  All of it runs on one event loop, so a step is what a         *)
(* coroutine does between two awaits: the await of the HTTP attempt and the *)
(* sleep before the next one.                                               *)
(***************************************************************************)
EXTENDS Naturals

CONSTANTS
  Calls,         \* calls in flight at the same time (a bound)
  Threshold,     \* MICROSERVICE_CIRCUIT_FAILURE_THRESHOLD
  ResetTimeout,  \* MICROSERVICE_CIRCUIT_RESET_TIMEOUT_SECONDS, in ticks
  MaxAttempts,   \* MICROSERVICE_RETRY_MAX_ATTEMPTS
  MaxGlitches    \* failures of a service that is up, and cancellations (a bound)

ASSUME BreakerAssumption ==
  /\ Threshold \in Nat \ {0}
  /\ ResetTimeout \in Nat \ {0}
  /\ MaxAttempts \in Nat \ {0}
  /\ MaxGlitches \in Nat

VARIABLES
  failures,   \* _failures, counted up to Threshold
  opened,     \* _opened_at is not None
  sinceOpen,  \* time.monotonic() - _opened_at, counted up to ResetTimeout
  halfOpen,   \* _half_open
  pc,         \* where each call stands: in an attempt, before the next one, or over
  attempts,   \* attempt_number of its retry loop
  error,      \* the error of its last attempt, after the mapping
  up,         \* the service answers
  glitches    \* see MaxGlitches

breakerVars == <<failures, opened, sinceOpen, halfOpen>>
callVars    == <<pc, attempts, error>>
vars        == <<breakerVars, callVars, up, glitches>>

\* What map_httpx_error tells apart: no connection or a timeout, 5xx, and the rest
\* (4xx, or a body that fails validation), of which only the first is not a
\* MicroserviceResponseError.  "open": refused by the breaker.
Transport == {"transport"}
Response  == {"5xx", "4xx"}
Errors    == {"none", "open"} \cup Transport \cup Response

TypeOK ==
  /\ failures \in 0..Threshold
  /\ opened \in BOOLEAN
  /\ sinceOpen \in 0..ResetTimeout
  /\ halfOpen \in BOOLEAN
  /\ pc \in [Calls -> {"idle", "trying", "backoff"}]
  /\ attempts \in [Calls -> 0..MaxAttempts]
  /\ error \in [Calls -> Errors]
  /\ up \in BOOLEAN
  /\ glitches \in 0..MaxGlitches

Init ==
  /\ failures = 0
  /\ opened = FALSE
  /\ sinceOpen = 0
  /\ halfOpen = FALSE
  /\ pc = [c \in Calls |-> "idle"]
  /\ attempts = [c \in Calls |-> 0]
  /\ error = [c \in Calls |-> "none"]
  /\ up = TRUE
  /\ glitches = 0

-------------------------------------------------------------------------------
\* A faulty variant: the timeout ends a tick too early.
DueEarly == opened /\ sinceOpen + 1 >= ResetTimeout

\* The reset timeout has passed; the property "state" then reads half_open.
Due == opened /\ sinceOpen = ResetTimeout

\* The property "state" is "open".
IsOpen == opened /\ ~halfOpen /\ ~Due

\* Plausible slips in the bookkeeping, see the mutants of PROJECT.json.
RecordSuccessKeepsCount ==
  /\ opened' = FALSE
  /\ sinceOpen' = 0
  /\ halfOpen' = FALSE
  /\ UNCHANGED failures

RecordFailureStaysHalfOpen ==
  /\ failures' = IF failures < Threshold THEN failures + 1 ELSE Threshold
  /\ IF failures + 1 >= Threshold \/ halfOpen
     THEN opened' = TRUE /\ sinceOpen' = 0 /\ UNCHANGED halfOpen
     ELSE UNCHANGED <<opened, sinceOpen, halfOpen>>

RecordSuccess ==
  /\ failures' = 0
  /\ opened' = FALSE
  /\ sinceOpen' = 0
  /\ halfOpen' = FALSE

\* The threshold, or any failure while half open, starts the timeout again.
RecordFailure ==
  /\ failures' = IF failures < Threshold THEN failures + 1 ELSE Threshold
  /\ IF failures + 1 >= Threshold \/ halfOpen
     THEN opened' = TRUE /\ sinceOpen' = 0 /\ halfOpen' = FALSE
     ELSE UNCHANGED <<opened, sinceOpen, halfOpen>>

SetCall(c, to, n, e) ==
  /\ pc' = [pc EXCEPT ![c] = to]
  /\ attempts' = [attempts EXCEPT ![c] = n]
  /\ error' = [error EXCEPT ![c] = e]

\* breaker.call lets the call through to its first attempt.  It turns half open
\* first when the timeout has passed, and while half open it lets every call through.
Admit(c) ==
  /\ pc[c] = "idle"
  /\ ~IsOpen
  /\ halfOpen' = (halfOpen \/ Due)
  /\ SetCall(c, "trying", 1, "none")
  /\ UNCHANGED <<failures, opened, sinceOpen, up, glitches>>

RejectCounts(c) ==
  /\ pc[c] = "idle"
  /\ IsOpen
  /\ SetCall(c, "idle", 0, "open")
  /\ RecordFailure
  /\ UNCHANGED <<up, glitches>>

\* ... or refuses it, which is not recorded as a failure.
Reject(c) ==
  /\ pc[c] = "idle"
  /\ IsOpen
  /\ SetCall(c, "idle", 0, "open")
  /\ UNCHANGED <<breakerVars, up, glitches>>

\* The attempt is answered.
AttemptOk(c) ==
  /\ pc[c] = "trying"
  /\ up
  /\ SetCall(c, "idle", attempts[c], "none")
  /\ RecordSuccess
  /\ UNCHANGED <<up, glitches>>

WillRetryForever(c, e) == e \in Response

\* retry_if_exception_type, after map_httpx_error has replaced every httpx error:
\* only a MicroserviceResponseError is tried again, up to stop_after_attempt.
WillRetry(c, e) == e \in Response /\ attempts[c] < MaxAttempts

\* The attempt fails.  The last error leaves the retry loop and is recorded.
AttemptFails(c, e) ==
  /\ pc[c] = "trying"
  /\ IF up THEN glitches < MaxGlitches /\ glitches' = glitches + 1
           ELSE e \in Transport \cup {"5xx"} /\ UNCHANGED glitches
  /\ IF WillRetry(c, e)
     THEN SetCall(c, "backoff", attempts[c], e) /\ UNCHANGED breakerVars
     ELSE SetCall(c, "idle", attempts[c], e) /\ RecordFailure
  /\ UNCHANGED up

\* The backoff is over; the breaker is not asked again.
Retry(c) ==
  /\ pc[c] = "backoff"
  /\ SetCall(c, "trying", attempts[c] + 1, error[c])
  /\ UNCHANGED <<breakerVars, up, glitches>>

\* The calling task is cancelled (job_timeout of the worker): CancelledError is
\* recorded neither as a success nor as a failure.
Cancelled(c) ==
  /\ pc[c] # "idle"
  /\ glitches < MaxGlitches
  /\ glitches' = glitches + 1
  /\ SetCall(c, "idle", 0, "none")
  /\ UNCHANGED <<breakerVars, up>>

Tick ==
  /\ opened
  /\ sinceOpen < ResetTimeout
  /\ sinceOpen' = sinceOpen + 1
  /\ UNCHANGED <<failures, opened, halfOpen, callVars, up, glitches>>

\* The service goes down or comes back.
Outage ==
  /\ up' = ~up
  /\ UNCHANGED <<breakerVars, callVars, glitches>>

Attempt(c) == AttemptOk(c) \/ \E e \in Transport \cup Response : AttemptFails(c, e)

Next ==
  \/ \E c \in Calls : Admit(c) \/ Reject(c) \/ Attempt(c) \/ Retry(c) \/ Cancelled(c)
  \/ Tick
  \/ Outage

Spec == Init /\ [][Next]_vars

\* The event loop runs what is ready, time passes, an HTTP attempt ends (each has a
\* timeout), and somebody keeps calling the service.
FairSpec ==
  /\ Spec
  /\ WF_vars(Tick)
  /\ \A c \in Calls : WF_vars(Admit(c)) /\ WF_vars(Attempt(c)) /\ WF_vars(Retry(c))

-------------------------------------------------------------------------------
\* A closed breaker has counted fewer failures in a row than the threshold and is not
\* half open; one that is not closed has counted that many, whatever calls that were
\* let through before it opened bring back later.
OpenIffThreshold ==
  /\ opened <=> failures = Threshold
  /\ halfOpen => opened

\* Half open only after the whole reset timeout: each failure after that shuts the
\* breaker for a full timeout again, also when other probes are still in flight.
HalfOpenOnlyWhenDue == halfOpen => Due

\* Once the service is up for good and somebody calls it, the breaker closes for
\* good, late failures of old calls and cancelled probes notwithstanding.
BreakerRecovers == <>[]up => <>[]~opened

-------------------------------------------------------------------------------
\* The property "state", and the calls that breaker.call has let through.
State == IF ~opened THEN "closed" ELSE IF IsOpen THEN "open" ELSE "half_open"
Inside == {c \in Calls : pc[c] # "idle"}

\* The two flags, the clock and the count, under late answers, retries and cancellations
\* of concurrent calls, are a breaker of three states that only opens at the threshold or
\* by a failure after it, refuses calls for the whole timeout and closes by a success.
States == INSTANCE BreakerStates WITH
            state <- State, count <- failures, waited <- sinceOpen, inside <- Inside
StatesSpec == States!Spec

-------------------------------------------------------------------------------
\* docs/features/backend-stability/contract.md:134-135: connection errors, timeouts and
\* 5xx are retried, so a call gives up on one only after its last attempt; 4xx is not.
RetriesAsDocumented ==
  \A c \in Calls :
    /\ pc[c] = "idle" /\ error[c] \in {"transport", "5xx"} => attempts[c] = MaxAttempts
    /\ pc[c] = "backoff" => error[c] # "4xx"

===============================================================================
