------------------------- MODULE CircuitBreaker_proofs -------------------------
(* The breaker's bookkeeping is right for every number of concurrent calls,   *)
(* every threshold, every reset timeout and every number of retries.          *)
EXTENDS CircuitBreaker, TLAPS

\* The types of the breaker's own variables, and of the rest.
StateTyped ==
  /\ failures \in 0..Threshold /\ opened \in BOOLEAN
  /\ sinceOpen \in 0..ResetTimeout /\ halfOpen \in BOOLEAN

CallsTyped ==
  /\ pc \in [Calls -> {"idle", "trying", "backoff"}]
  /\ attempts \in [Calls -> 0..MaxAttempts]
  /\ error \in [Calls -> Errors]

\* A call that sleeps before its next attempt has one left.
AttemptLeft == \A c \in Calls : pc[c] = "backoff" => attempts[c] < MaxAttempts

BreakerOK == StateTyped /\ OpenIffThreshold /\ HalfOpenOnlyWhenDue

\* The inductive invariant.
BreakerInv ==
  /\ BreakerOK
  /\ CallsTyped
  /\ AttemptLeft
  /\ up \in BOOLEAN
  /\ glitches \in 0..MaxGlitches

LEMMA BreakerInit == Init => BreakerInv
<1> SUFFICES ASSUME Init PROVE BreakerInv
  OBVIOUS
<1> USE BreakerAssumption DEF Init
<1>1. StateTyped
  <2>1. failures \in 0..Threshold /\ sinceOpen \in 0..ResetTimeout
    OBVIOUS
  <2>2. opened \in BOOLEAN /\ halfOpen \in BOOLEAN
    OBVIOUS
  <2>3. QED
    BY <2>1, <2>2 DEF StateTyped
<1>2. failures # Threshold /\ opened = FALSE
  OBVIOUS
<1>3. OpenIffThreshold /\ HalfOpenOnlyWhenDue
  BY <1>2 DEF OpenIffThreshold, HalfOpenOnlyWhenDue, Due
<1>4. CallsTyped
  <2>1. attempts \in [Calls -> 0..MaxAttempts]
    OBVIOUS
  <2>2. QED
    BY <2>1 DEF CallsTyped, Errors
<1>5. AttemptLeft
  BY DEF AttemptLeft
<1>6. up \in BOOLEAN
  OBVIOUS
<1>7. glitches \in 0..MaxGlitches
  OBVIOUS
<1>8. QED
  BY <1>1, <1>3, <1>4, <1>5, <1>6, <1>7 DEF BreakerInv, BreakerOK

-------------------------------------------------------------------------------
(* What the steps do to the breaker.                                          *)

LEMMA RecordFailureKeeps ==
  ASSUME BreakerOK, RecordFailure
  PROVE  BreakerOK'
<1> USE BreakerAssumption
<1>1. failures \in 0..Threshold /\ opened \in BOOLEAN /\ sinceOpen \in 0..ResetTimeout
  BY DEF BreakerOK, StateTyped
<1>2. CASE failures + 1 >= Threshold \/ halfOpen
  <2>1. opened' = TRUE /\ sinceOpen' = 0 /\ halfOpen' = FALSE
    BY <1>2 DEF RecordFailure
  <2>2. failures' = Threshold
    <3>1. CASE halfOpen
      <4>1. failures = Threshold
        BY <3>1 DEF BreakerOK, OpenIffThreshold
      <4>2. QED
        BY <4>1 DEF RecordFailure
    <3>2. CASE failures + 1 >= Threshold
      BY <1>1, <3>2 DEF RecordFailure
    <3>3. QED
      BY <1>2, <3>1, <3>2
  <2>3. 0 \in 0..ResetTimeout /\ Threshold \in 0..Threshold
    OBVIOUS
  <2>4. StateTyped'
    BY <2>1, <2>2, <2>3 DEF StateTyped
  <2>5. QED
    BY <2>1, <2>2, <2>4 DEF BreakerOK, OpenIffThreshold, HalfOpenOnlyWhenDue
<1>3. CASE ~(failures + 1 >= Threshold \/ halfOpen)
  <2>1. UNCHANGED <<opened, sinceOpen, halfOpen>>
    BY <1>3 DEF RecordFailure
  <2>2. failures' = failures + 1 /\ failures' \in 0..Threshold /\ failures' # Threshold
        /\ failures # Threshold
    BY <1>1, <1>3 DEF RecordFailure
  <2>3. ~opened /\ ~halfOpen
    BY <1>3, <2>2 DEF BreakerOK, OpenIffThreshold
  <2>4. QED
    BY <2>1, <2>2, <2>3 DEF BreakerOK, StateTyped, OpenIffThreshold, HalfOpenOnlyWhenDue
<1>4. QED
  BY <1>2, <1>3

LEMMA RecordSuccessKeeps ==
  ASSUME RecordSuccess
  PROVE  BreakerOK'
<1> USE BreakerAssumption
<1>1. failures' = 0 /\ opened' = FALSE /\ sinceOpen' = 0 /\ halfOpen' = FALSE
  BY DEF RecordSuccess
<1>2. 0 \in 0..Threshold /\ 0 \in 0..ResetTimeout /\ 0 # Threshold
  OBVIOUS
<1>3. QED
  BY <1>1, <1>2 DEF BreakerOK, StateTyped, OpenIffThreshold, HalfOpenOnlyWhenDue

LEMMA UnchangedKeeps ==
  ASSUME BreakerOK, UNCHANGED breakerVars
  PROVE  BreakerOK'
  BY DEF BreakerOK, StateTyped, breakerVars, OpenIffThreshold, HalfOpenOnlyWhenDue, Due

LEMMA AdmitKeeps ==
  ASSUME BreakerOK, halfOpen' = (halfOpen \/ Due), UNCHANGED <<failures, opened, sinceOpen>>
  PROVE  BreakerOK'
<1>1. halfOpen' => Due
  BY DEF BreakerOK, HalfOpenOnlyWhenDue
<1>2. halfOpen' \in BOOLEAN /\ Due' = Due
  BY DEF Due
<1>3. Due => opened
  BY DEF Due
<1>4. QED
  BY <1>1, <1>2, <1>3, Zenon
  DEF BreakerOK, StateTyped, OpenIffThreshold, HalfOpenOnlyWhenDue

LEMMA TickKeeps ==
  ASSUME BreakerOK, Tick
  PROVE  BreakerOK'
<1> USE BreakerAssumption
<1>1. sinceOpen' \in 0..ResetTimeout
  BY DEF BreakerOK, StateTyped, Tick
<1>2. sinceOpen # ResetTimeout /\ UNCHANGED <<failures, opened, halfOpen>>
  BY DEF BreakerOK, StateTyped, Tick
<1>3. ~halfOpen
  BY <1>2 DEF BreakerOK, HalfOpenOnlyWhenDue, Due
<1>4. QED
  BY <1>1, <1>2, <1>3 DEF BreakerOK, StateTyped, OpenIffThreshold, HalfOpenOnlyWhenDue

\* What SetCall does to the calls.
LEMMA SetCallTyped ==
  ASSUME CallsTyped, AttemptLeft,
         NEW c \in Calls, NEW to \in {"idle", "trying", "backoff"},
         NEW n \in 0..MaxAttempts, NEW e \in Errors,
         to = "backoff" => n < MaxAttempts,
         SetCall(c, to, n, e)
  PROVE  CallsTyped' /\ AttemptLeft'
  BY DEF CallsTyped, AttemptLeft, SetCall

-------------------------------------------------------------------------------
LEMMA BreakerStep == BreakerInv /\ [Next]_vars => BreakerInv'
<1> SUFFICES ASSUME BreakerInv, [Next]_vars PROVE BreakerInv'
  OBVIOUS
<1> USE BreakerAssumption
<1>0. /\ BreakerOK /\ CallsTyped /\ AttemptLeft
      /\ up \in BOOLEAN /\ glitches \in 0..MaxGlitches
  BY DEF BreakerInv
<1>1. /\ "none" \in Errors /\ "open" \in Errors
      /\ \A e \in Transport \cup Response : e \in Errors
  BY DEF Errors
<1>2. ASSUME NEW c \in Calls, Admit(c) PROVE BreakerInv'
  <2>1. BreakerOK'
    BY <1>0, <1>2, AdmitKeeps DEF Admit
  <2>2. 1 \in 0..MaxAttempts
    OBVIOUS
  <2>3. CallsTyped' /\ AttemptLeft'
    BY <1>0, <1>1, <1>2, <2>2, SetCallTyped DEF Admit
  <2>4. QED
    BY <1>0, <1>2, <2>1, <2>3 DEF Admit, BreakerInv
<1>3. ASSUME NEW c \in Calls, Reject(c) PROVE BreakerInv'
  <2>1. BreakerOK'
    BY <1>0, <1>3, UnchangedKeeps DEF Reject
  <2>2. CallsTyped' /\ AttemptLeft'
    <3>1. 0 \in 0..MaxAttempts
      OBVIOUS
    <3>2. QED
      BY <1>0, <1>1, <1>3, <3>1, SetCallTyped DEF Reject
  <2>3. QED
    BY <1>0, <1>3, <2>1, <2>2 DEF Reject, BreakerInv
<1>4. ASSUME NEW c \in Calls, AttemptOk(c) PROVE BreakerInv'
  <2>1. BreakerOK'
    BY <1>4, RecordSuccessKeeps DEF AttemptOk
  <2>2. attempts[c] \in 0..MaxAttempts
    BY <1>0 DEF CallsTyped
  <2>3. CallsTyped' /\ AttemptLeft'
    BY <1>0, <1>1, <1>4, <2>2, SetCallTyped DEF AttemptOk
  <2>4. QED
    BY <1>0, <1>4, <2>1, <2>3 DEF AttemptOk, BreakerInv
<1>5. ASSUME NEW c \in Calls, NEW e \in Transport \cup Response, AttemptFails(c, e)
      PROVE  BreakerInv'
  <2>1. attempts[c] \in 0..MaxAttempts /\ e \in Errors
    BY <1>0, <1>1 DEF CallsTyped
  <2>2. up' = up /\ glitches' \in 0..MaxGlitches
    BY <1>0, <1>5 DEF AttemptFails
  <2>3. CASE WillRetry(c, e)
    <3>1. SetCall(c, "backoff", attempts[c], e) /\ UNCHANGED breakerVars
      BY <1>5, <2>3 DEF AttemptFails
    <3>2. attempts[c] < MaxAttempts
      BY <2>3 DEF WillRetry
    <3>3. CallsTyped' /\ AttemptLeft'
      BY <1>0, <2>1, <3>1, <3>2, SetCallTyped
    <3>4. BreakerOK'
      BY <1>0, <3>1, UnchangedKeeps
    <3>5. QED
      BY <1>0, <2>2, <3>3, <3>4 DEF BreakerInv
  <2>4. CASE ~WillRetry(c, e)
    <3>1. SetCall(c, "idle", attempts[c], e) /\ RecordFailure
      BY <1>5, <2>4 DEF AttemptFails
    <3>2. CallsTyped' /\ AttemptLeft'
      BY <1>0, <2>1, <3>1, SetCallTyped
    <3>3. BreakerOK'
      BY <1>0, <3>1, RecordFailureKeeps
    <3>4. QED
      BY <1>0, <2>2, <3>2, <3>3 DEF BreakerInv
  <2>5. QED
    BY <2>3, <2>4
<1>6. ASSUME NEW c \in Calls, Retry(c) PROVE BreakerInv'
  <2>1. attempts[c] + 1 \in 0..MaxAttempts /\ error[c] \in Errors
    BY <1>0, <1>6 DEF CallsTyped, AttemptLeft, Retry
  <2>2. CallsTyped' /\ AttemptLeft'
    BY <1>0, <1>6, <2>1, SetCallTyped DEF Retry
  <2>3. BreakerOK'
    BY <1>0, <1>6, UnchangedKeeps DEF Retry
  <2>4. QED
    BY <1>0, <1>6, <2>2, <2>3 DEF Retry, BreakerInv
<1>7. ASSUME NEW c \in Calls, Cancelled(c) PROVE BreakerInv'
  <2>1. 0 \in 0..MaxAttempts /\ glitches' \in 0..MaxGlitches
    BY <1>0, <1>7 DEF Cancelled
  <2>2. CallsTyped' /\ AttemptLeft'
    BY <1>0, <1>1, <1>7, <2>1, SetCallTyped DEF Cancelled
  <2>3. BreakerOK'
    BY <1>0, <1>7, UnchangedKeeps DEF Cancelled
  <2>4. QED
    BY <1>0, <1>7, <2>1, <2>2, <2>3 DEF Cancelled, BreakerInv
<1>8. ASSUME Tick PROVE BreakerInv'
  <2>1. BreakerOK'
    BY <1>0, <1>8, TickKeeps
  <2>2. QED
    BY <1>0, <1>8, <2>1 DEF Tick, callVars, BreakerInv, CallsTyped, AttemptLeft
<1>9. ASSUME Outage PROVE BreakerInv'
  <2>1. BreakerOK'
    BY <1>0, <1>9, UnchangedKeeps DEF Outage
  <2>2. up' \in BOOLEAN
    BY <1>9 DEF Outage
  <2>3. QED
    BY <1>0, <1>9, <2>1, <2>2 DEF Outage, callVars, BreakerInv, CallsTyped, AttemptLeft
<1>10. CASE UNCHANGED vars
  <2>1. BreakerOK'
    BY <1>0, <1>10, UnchangedKeeps DEF vars
  <2>2. QED
    BY <1>0, <1>10, <2>1 DEF vars, callVars, BreakerInv, CallsTyped, AttemptLeft
<1>11. QED
  BY <1>2, <1>3, <1>4, <1>5, <1>6, <1>7, <1>8, <1>9, <1>10 DEF Next, Attempt

\* What the theorems below take from the invariant.
LEMMA BreakerHolds == Spec => []BreakerInv
  BY BreakerInit, BreakerStep, PTL DEF Spec

\* Type correctness of the breaker and of its calls; no call makes more attempts than
\* stop_after_attempt allows.
THEOREM BreakerTypes == Spec => []TypeOK
<1>1. BreakerInv => TypeOK
  BY DEF BreakerInv, BreakerOK, StateTyped, CallsTyped, TypeOK
<1>2. QED
  BY BreakerHolds, <1>1, PTL

\* The breaker of circuit_breaker.py is open or half open exactly from the failure
\* that reaches the threshold to the next success, with any number of calls in flight.
THEOREM OpensAtThreshold == Spec => []OpenIffThreshold
<1>1. BreakerInv => OpenIffThreshold
  BY DEF BreakerInv, BreakerOK
<1>2. QED
  BY BreakerHolds, <1>1, PTL

\* _half_open is set only when the whole reset timeout has passed since _opened_at.
THEOREM HalfOpenWhenDue == Spec => []HalfOpenOnlyWhenDue
<1>1. BreakerInv => HalfOpenOnlyWhenDue
  BY DEF BreakerInv, BreakerOK
<1>2. QED
  BY BreakerHolds, <1>1, PTL

-------------------------------------------------------------------------------
(* The breaker implements the one of three states.                            *)

\* Half open is one of the flags or the clock alone.
LEMMA StateIs ==
  ASSUME BreakerOK
  PROVE  /\ State = "closed" <=> ~opened
         /\ State = "open" <=> opened /\ ~Due
         /\ State \in {"closed", "open", "half_open"}
  BY DEF State, IsOpen, BreakerOK, HalfOpenOnlyWhenDue, Due

LEMMA StatesInit == Init => States!Init
<1> SUFFICES ASSUME Init PROVE States!Init
  OBVIOUS
<1>1. State = "closed" /\ Inside = {}
  BY DEF Init, State, Inside
<1>2. QED
  BY <1>1 DEF Init, States!Init

\* A call comes back from the breaker.
LEMMA Leaves ==
  ASSUME CallsTyped, NEW c \in Calls, pc[c] # "idle", NEW n, NEW e, SetCall(c, "idle", n, e)
  PROVE  States!Leave(c)
  BY DEF CallsTyped, SetCall, Inside, States!Leave

\* Its calls may come and go without that.
LEMMA InsideStands ==
  ASSUME CallsTyped, NEW c \in Calls, NEW to, NEW n, NEW e,
         pc[c] # "idle" <=> to # "idle", SetCall(c, to, n, e)
  PROVE  Inside' = Inside
  BY DEF CallsTyped, SetCall, Inside

LEMMA FlagsStand ==
  ASSUME UNCHANGED breakerVars
  PROVE  UNCHANGED <<State, failures, sinceOpen>>
  BY DEF breakerVars, State, IsOpen, Due

LEMMA StatesEnter ==
  ASSUME BreakerInv, NEW c \in Calls, Admit(c)
  PROVE  States!Enter(c)
<1>1. BreakerOK /\ CallsTyped /\ ~IsOpen /\ UNCHANGED <<failures, opened, sinceOpen>>
  BY DEF BreakerInv, Admit
<1>2. halfOpen' <=> halfOpen \/ Due
  BY DEF Admit
<1>3. State # "open" /\ State' = State
  BY <1>1, <1>2 DEF State, IsOpen, BreakerOK, HalfOpenOnlyWhenDue, Due
<1>4. Inside' = Inside \cup {c}
  BY <1>1 DEF Admit, SetCall, Inside, CallsTyped
<1>5. QED
  BY <1>1, <1>3, <1>4 DEF States!Enter

LEMMA StatesSucceed ==
  ASSUME BreakerInv, NEW c \in Calls, AttemptOk(c)
  PROVE  States!Succeed(c)
<1>1. States!Leave(c)
  BY Leaves DEF BreakerInv, AttemptOk
<1>2. State' = "closed" /\ failures' = 0 /\ sinceOpen' = 0
  BY DEF AttemptOk, RecordSuccess, State
<1>3. QED
  BY <1>1, <1>2 DEF States!Succeed

\* A failure that leaves the retry loop is counted, or starts the timeout again.
LEMMA StatesFail ==
  ASSUME BreakerInv, NEW c \in Calls, States!Leave(c), RecordFailure
  PROVE  States!FailClosed(c) \/ States!FailOpened(c)
<1> USE BreakerAssumption
<1>1. BreakerOK /\ failures \in 0..Threshold /\ (opened <=> failures = Threshold)
  BY DEF BreakerInv, BreakerOK, StateTyped, OpenIffThreshold
<1>2. CASE opened
  <2>1. opened' = TRUE /\ sinceOpen' = 0 /\ halfOpen' = FALSE /\ failures' = failures
    <3>1. failures = Threshold /\ failures + 1 >= Threshold /\ ~(failures < Threshold)
      BY <1>1, <1>2
    <3>2. QED
      BY <3>1 DEF RecordFailure
  <2>2. State # "closed" /\ State' = "open"
    BY <1>1, <1>2, <2>1, StateIs DEF State, IsOpen, Due
  <2>3. QED
    BY <2>1, <2>2 DEF States!FailOpened
<1>3. CASE ~opened
  <2>1. failures < Threshold /\ failures' = failures + 1 /\ ~halfOpen /\ State = "closed"
    <3>1. failures # Threshold /\ ~halfOpen
      BY <1>1, <1>3 DEF BreakerOK, OpenIffThreshold
    <3>2. failures < Threshold
      BY <1>1, <3>1
    <3>3. QED
      BY <1>1, <1>3, <3>1, <3>2, StateIs DEF RecordFailure
  <2>2. CASE failures + 1 = Threshold
    <3>1. opened' = TRUE /\ sinceOpen' = 0 /\ halfOpen' = FALSE
      BY <2>1, <2>2 DEF RecordFailure
    <3>2. State' = "open"
      BY <3>1 DEF State, IsOpen, Due
    <3>3. QED
      BY <2>1, <2>2, <3>1, <3>2 DEF States!FailClosed
  <2>3. CASE failures + 1 # Threshold
    <3>1. UNCHANGED <<opened, sinceOpen, halfOpen>>
      <4>1. ~(failures + 1 >= Threshold)
        BY <1>1, <2>1, <2>3
      <4>2. QED
        BY <2>1, <4>1 DEF RecordFailure
    <3>2. State' = "closed"
      BY <1>3, <3>1 DEF State
    <3>3. QED
      BY <2>1, <2>3, <3>1, <3>2 DEF States!FailClosed
  <2>4. QED
    BY <2>2, <2>3
<1>4. QED
  BY <1>2, <1>3

LEMMA StatesAttemptFails ==
  ASSUME BreakerInv, NEW c \in Calls, NEW e, AttemptFails(c, e)
  PROVE  [States!Next]_(States!statesVars)
<1>1. CASE WillRetry(c, e)
  <2>1. Inside' = Inside
    <3>1. SetCall(c, "backoff", attempts[c], e)
      BY <1>1 DEF AttemptFails
    <3>2. QED
      BY <3>1, InsideStands DEF BreakerInv, AttemptFails
  <2>2. UNCHANGED <<State, failures, sinceOpen>>
    BY <1>1, FlagsStand DEF AttemptFails
  <2>3. QED
    BY <2>1, <2>2 DEF States!statesVars
<1>2. CASE ~WillRetry(c, e)
  <2>1. SetCall(c, "idle", attempts[c], e) /\ RecordFailure /\ pc[c] # "idle"
    BY <1>2 DEF AttemptFails
  <2>2. States!Leave(c)
    BY <2>1, Leaves DEF BreakerInv
  <2>3. QED
    BY <2>1, <2>2, StatesFail DEF States!Next
<1>3. QED
  BY <1>1, <1>2

\* Time brings an open breaker to the end of its timeout; a half-open one has no more.
LEMMA StatesWait ==
  ASSUME BreakerInv, Tick
  PROVE  States!Wait
<1>1. /\ BreakerOK /\ opened /\ sinceOpen < ResetTimeout /\ sinceOpen' = sinceOpen + 1
      /\ UNCHANGED <<failures, opened, halfOpen, callVars>>
  BY DEF BreakerInv, Tick
<1>2. ~Due /\ ~halfOpen /\ ~halfOpen'
  <2>1. sinceOpen # ResetTimeout
    BY <1>1, BreakerAssumption DEF BreakerOK, StateTyped
  <2>2. QED
    BY <1>1, <2>1 DEF Due, BreakerOK, HalfOpenOnlyWhenDue
<1>3. State = "open" /\ State' = IF sinceOpen' = ResetTimeout THEN "half_open" ELSE "open"
  BY <1>1, <1>2 DEF State, IsOpen, Due
<1>4. Inside' = Inside
  BY <1>1 DEF callVars, Inside
<1>5. QED
  BY <1>1, <1>3, <1>4 DEF States!Wait

\* Refusals, the backoff, and the service itself are nothing to the three states.
LEMMA StatesStutter ==
  ASSUME BreakerInv,
         \/ \E c \in Calls : Reject(c) \/ Retry(c)
         \/ Outage \/ UNCHANGED vars
  PROVE  UNCHANGED States!statesVars
<1>1. UNCHANGED breakerVars
  BY DEF Reject, Retry, Outage, vars
<1>2. Inside' = Inside
  <2>1. ASSUME NEW c \in Calls, Reject(c) PROVE Inside' = Inside
    BY <2>1, InsideStands DEF Reject, BreakerInv
  <2>2. ASSUME NEW c \in Calls, Retry(c) PROVE Inside' = Inside
    BY <2>2, InsideStands DEF Retry, BreakerInv
  <2>3. CASE Outage \/ UNCHANGED vars
    BY <2>3 DEF Outage, vars, callVars, Inside
  <2>4. QED
    BY <2>1, <2>2, <2>3
<1>3. QED
  BY <1>1, <1>2, FlagsStand DEF States!statesVars

LEMMA StatesStep == BreakerInv /\ [Next]_vars => [States!Next]_(States!statesVars)
<1> SUFFICES ASSUME BreakerInv, [Next]_vars PROVE [States!Next]_(States!statesVars)
  OBVIOUS
<1>1. ASSUME NEW c \in Calls, Admit(c) PROVE States!Next
  BY <1>1, StatesEnter DEF States!Next
<1>2. ASSUME NEW c \in Calls, AttemptOk(c) PROVE States!Next
  BY <1>2, StatesSucceed DEF States!Next
<1>3. ASSUME NEW c \in Calls, Cancelled(c) PROVE States!Next
  <2>1. States!Leave(c)
    BY <1>3, Leaves DEF BreakerInv, Cancelled
  <2>2. States!Abandon(c)
    BY <1>3, <2>1, FlagsStand DEF Cancelled, States!Abandon
  <2>3. QED
    BY <2>2 DEF States!Next
<1>4. CASE Tick
  BY <1>4, StatesWait DEF States!Next
<1>5. QED
  BY <1>1, <1>2, <1>3, <1>4, StatesAttemptFails, StatesStutter DEF Next, Attempt

\* circuit_breaker.py with its retries implements the breaker of three states, for any
\* number of concurrent calls, late answers and cancellations.
THEOREM StatesImplemented == Spec => StatesSpec
  BY BreakerHolds, StatesInit, StatesStep, PTL DEF Spec, StatesSpec, States!Spec

===============================================================================
