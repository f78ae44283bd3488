----------------------------- MODULE BreakerStates -----------------------------
(***************************************************************************)
(* What a circuit breaker promises the callers of a microservice: it is     *)
(* closed, open or half open, lets calls in unless it is open, and moves by *)
(* what the calls inside bring back and by the passing of the timeout.  How *)
(* often a call tries, what the service does and which flags the breaker    *)
(* keeps are steps that change nothing here; CircuitBreaker implements it.  *)
(***************************************************************************)
EXTENDS Naturals

CONSTANTS Calls, Threshold, ResetTimeout  \* as in CircuitBreaker

VARIABLES
  state,   \* "closed", "open" or "half_open"
  count,   \* failures in a row that were brought back, up to Threshold
  waited,  \* time since it was opened last
  inside   \* the calls that were let in and have not come back

statesVars == <<state, count, waited, inside>>

Init == state = "closed" /\ count = 0 /\ waited = 0 /\ inside = {}

Enter(c) ==
  /\ state # "open"
  /\ inside' = inside \cup {c}
  /\ UNCHANGED <<state, count, waited>>

Leave(c) == c \in inside /\ inside' = inside \ {c}

\* Whoever succeeds closes it, also one let in before it opened.
Succeed(c) ==
  /\ Leave(c)
  /\ state' = "closed" /\ count' = 0 /\ waited' = 0

\* A closed breaker counts failures and opens at the threshold ...
FailClosed(c) ==
  /\ Leave(c)
  /\ state = "closed"
  /\ count' = count + 1
  /\ state' = IF count' = Threshold THEN "open" ELSE "closed"
  /\ waited' = IF count' = Threshold THEN 0 ELSE waited

\* ... and after that any failure starts the timeout again.
FailOpened(c) ==
  /\ Leave(c)
  /\ state # "closed"
  /\ state' = "open" /\ waited' = 0
  /\ UNCHANGED count

Abandon(c) == Leave(c) /\ UNCHANGED <<state, count, waited>>

Wait ==
  /\ state = "open"
  /\ waited' = waited + 1
  /\ state' = IF waited' = ResetTimeout THEN "half_open" ELSE "open"
  /\ UNCHANGED <<count, inside>>

Next ==
  \/ \E c \in Calls : Enter(c) \/ Succeed(c) \/ FailClosed(c) \/ FailOpened(c) \/ Abandon(c)
  \/ Wait

Spec == Init /\ [][Next]_statesVars

===============================================================================
