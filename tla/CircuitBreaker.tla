--------------------------- MODULE CircuitBreaker ---------------------------
(***************************************************************************)
(* CircuitBreaker (circuit_breaker.go) in the middleware that feeds it     *)
(* (circuit_breaker_middleware.go).  Every operation of the breaker runs   *)
(* under its mutex and is one action; a request holds the mutex twice, to  *)
(* read the state before the limiter runs and to record the limiter's      *)
(* verdict after it, and any number of other requests run in between.      *)
(***************************************************************************)
EXTENDS Integers

CONSTANTS
    Callers,        \* goroutines that serve requests, one after another
    Threshold,      \* WithTripThreshold
    ResetAfter,     \* WithResetAfter, in clock ticks
    MaxFailures     \* the failure count stops here, see Count

(***************************************************************************)
(* The code tells failure counts apart only by `>= threshold` and `> 0`, so *)
(* a count that stops at MaxFailures behaves as one that does not.         *)
(***************************************************************************)
ASSUME BreakerAssumption ==
    /\ Threshold \in Int
    /\ ResetAfter \in Nat
    /\ MaxFailures \in Nat \ {0}
    /\ Threshold <= MaxFailures

VARIABLES
    state,      \* cb.state
    failures,   \* cb.failures
    age,        \* time since lastFailureTime, up to ResetAfter
    progress,   \* progress[r]: where r's current request is
    limiting,   \* whether the rate limiter answers 429 at present
    tripped     \* history: onTrip was called and onReset was not since

cbVars == <<state, failures, age, progress, limiting, tripped>>

CircuitStates == {"closed", "open", "half_open"}
CircuitStages == {"idle", "running", "blocked", "allowed"}

CBTypeOK ==
    /\ state \in CircuitStates
    /\ failures \in 0 .. MaxFailures
    /\ age \in 0 .. ResetAfter
    /\ progress \in [Callers -> CircuitStages]
    /\ limiting \in BOOLEAN
    /\ tripped \in BOOLEAN

CBInit ==
    /\ state = "closed"
    /\ failures = 0
    /\ age = ResetAfter         \* lastFailureTime is the zero time
    /\ progress = [r \in Callers |-> "idle"]
    /\ limiting \in BOOLEAN
    /\ tripped = FALSE

Count(n) == IF n < MaxFailures THEN n + 1 ELSE n

CBTick ==
    /\ age < ResetAfter
    /\ age' = age + 1
    /\ UNCHANGED <<state, failures, progress, limiting, tripped>>

\* Mutant: an exact comparison that the clock never meets.
currentStateStuck ==
    IF state = "open" /\ age > ResetAfter THEN "half_open" ELSE state

currentState ==
    IF state = "open" /\ age >= ResetAfter THEN "half_open" ELSE state

\* Anybody may call State(), which moves an open circuit to half-open.
State ==
    /\ state' = currentState
    /\ UNCHANGED <<failures, age, progress, limiting, tripped>>

\* Both middlewares answer 503 when the state they read is open.
Refuses == currentState = "open"

\* The middleware's first step: 503 while open, else on to the limiter.
Admit(r) ==
    /\ progress[r] = "idle"
    /\ state' = currentState
    /\ progress' = [progress EXCEPT
                     ![r] = IF Refuses THEN "idle" ELSE "running"]
    /\ UNCHANGED <<failures, age, limiting, tripped>>

\* The rate limiter and the handler write their status.
WriteStatus(r) ==
    /\ progress[r] = "running"
    /\ progress' = [progress EXCEPT
                     ![r] = IF limiting THEN "blocked" ELSE "allowed"]
    /\ UNCHANGED <<state, failures, age, limiting, tripped>>

\* Mutant: off by one, the circuit trips one block too late.
TripsLate(n) == state = "closed" /\ n > Threshold

Trips(n) == state = "closed" /\ n >= Threshold

RecordBlocked(r) ==
    /\ progress[r] = "blocked"
    /\ progress' = [progress EXCEPT ![r] = "idle"]
    /\ failures' = Count(failures)
    /\ age' = 0
    /\ IF Trips(Count(failures))
       THEN state' = "open" /\ tripped' = TRUE
       ELSE UNCHANGED <<state, tripped>>
    /\ UNCHANGED limiting

\* Mutant: an allowed request clears the count of a closed circuit only.
RecordAllowedClosedOnly(r) ==
    /\ progress[r] = "allowed"
    /\ progress' = [progress EXCEPT ![r] = "idle"]
    /\ failures' = IF state = "closed" THEN 0 ELSE failures
    /\ UNCHANGED <<state, age, limiting, tripped>>

RecordAllowed(r) ==
    /\ progress[r] = "allowed"
    /\ progress' = [progress EXCEPT ![r] = "idle"]
    /\ IF state = "half_open" \/ failures > 0
       THEN /\ state' = "closed"
            /\ failures' = 0
            /\ tripped' = (tripped /\ state # "half_open")
       ELSE UNCHANGED <<state, failures, tripped>>
    /\ UNCHANGED <<age, limiting>>

\* The clients' load changes: the limiter starts or stops answering 429.
LimitingChanges ==
    /\ limiting' = ~limiting
    /\ UNCHANGED <<state, failures, age, progress, tripped>>

CBNext ==
    \/ CBTick
    \/ State
    \/ LimitingChanges
    \/ \E r \in Callers :
          Admit(r) \/ WriteStatus(r) \/ RecordBlocked(r) \/ RecordAllowed(r)

(***************************************************************************)
(* Fairness: time passes, requests keep arriving, handlers return, and a   *)
(* goroutine that waits for the mutex gets it.                             *)
(***************************************************************************)
CBStep(r) == Admit(r) \/ WriteStatus(r) \/ RecordBlocked(r) \/ RecordAllowed(r)

CBFairness == WF_cbVars(CBTick) /\ \A r \in Callers : WF_cbVars(CBStep(r))

CBSpec == CBInit /\ [][CBNext]_cbVars
CBFairSpec == CBSpec /\ CBFairness

-----------------------------------------------------------------------------
(***************************************************************************)
(* A closed circuit never sits on a failure count that should have tripped *)
(* it, and an open or half-open one never has a count of zero: if it had,  *)
(* RecordAllowed would not close an open circuit.  onTrip was called       *)
(* for the outage under way.  All that whatever verdicts arrive late, from *)
(* requests let in before a trip, a half-open period or a reset.           *)
(***************************************************************************)
CountMatchesState ==
    /\ state = "closed" => failures = 0 \/ failures < Threshold
    /\ state # "closed" => failures > 0 /\ tripped

(***************************************************************************)
(* An open circuit does not stay open: the verdicts of requests that were  *)
(* in flight when it tripped push lastFailureTime forward, but only so     *)
(* often.                                                                  *)
(***************************************************************************)
OpenEnds == state = "open" ~> state # "open"

(***************************************************************************)
(* "Giving the backend a chance to recover": once the limiter stops        *)
(* answering 429 for good, the circuit closes for good.                    *)
(***************************************************************************)
ClosesOnRecovery == <>[](~limiting) => <>[](state = "closed")

(***************************************************************************)
(* "Trips open when the rate limiter blocks too many consecutive           *)
(* requests": if from some time on the limiter answers every request with  *)
(* 429, the circuit is open again and again.                               *)
(***************************************************************************)
TripsUnderOverload == <>[]limiting => []<>(state = "open")
=============================================================================
