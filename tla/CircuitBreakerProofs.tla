------------------------ MODULE CircuitBreakerProofs ------------------------
(***************************************************************************)
(* The breaker's state and its failure count agree, for any threshold      *)
(* (zero and negative ones included), any resetAfter, any number of        *)
(* requests in flight and any moment their verdicts arrive.                *)
(***************************************************************************)
EXTENDS CircuitBreaker, TLAPS

\* The saturating count stays in its range, grows from zero, and reaches any
\* threshold the real count reaches.
LEMMA CountRange ==
    ASSUME NEW n \in 0 .. MaxFailures
    PROVE  /\ Count(n) \in 1 .. MaxFailures
           /\ n < Threshold => Count(n) <= n + 1
BY BreakerAssumption DEF Count

LEMMA CurrentStateType ==
    ASSUME CBTypeOK
    PROVE  /\ currentState \in CircuitStates
           /\ currentState = "closed" <=> state = "closed"
BY DEF CBTypeOK, currentState, CircuitStates

LEMMA NextCBTypeOK == CBTypeOK /\ [CBNext]_cbVars => CBTypeOK'
<1>. SUFFICES ASSUME CBTypeOK, [CBNext]_cbVars PROVE CBTypeOK'
  OBVIOUS
<1>. USE BreakerAssumption DEF CBTypeOK, CircuitStates, CircuitStages
<1>1. CASE CBTick
  BY <1>1 DEF CBTick
<1>2. CASE State
  BY <1>2, CurrentStateType DEF State
<1>3. CASE LimitingChanges
  BY <1>3 DEF LimitingChanges
<1>4. ASSUME NEW r \in Callers, Admit(r)
      PROVE  CBTypeOK'
  BY <1>4, CurrentStateType DEF Admit, Refuses
<1>5. ASSUME NEW r \in Callers, WriteStatus(r)
      PROVE  CBTypeOK'
  BY <1>5 DEF WriteStatus
<1>6. ASSUME NEW r \in Callers, RecordBlocked(r)
      PROVE  CBTypeOK'
  <2>1. /\ state' \in CircuitStates /\ failures' \in 0 .. MaxFailures
        /\ age' \in 0 .. ResetAfter /\ progress' \in [Callers -> CircuitStages]
    BY <1>6, CountRange DEF RecordBlocked
  <2>2. limiting' \in BOOLEAN /\ tripped' \in BOOLEAN
    BY <1>6, Zenon DEF RecordBlocked
  <2>. QED BY <2>1, <2>2, Zenon
<1>7. ASSUME NEW r \in Callers, RecordAllowed(r)
      PROVE  CBTypeOK'
  <2>1. /\ state' \in CircuitStates /\ failures' \in 0 .. MaxFailures
        /\ age' \in 0 .. ResetAfter /\ progress' \in [Callers -> CircuitStages]
    BY <1>7 DEF RecordAllowed
  <2>2. limiting' \in BOOLEAN /\ tripped' \in BOOLEAN
    BY <1>7, Zenon DEF RecordAllowed
  <2>. QED BY <2>1, <2>2, Zenon
<1>8. CASE UNCHANGED cbVars
  BY <1>8 DEF cbVars
<1>. QED BY <1>1, <1>2, <1>3, <1>4, <1>5, <1>6, <1>7, <1>8 DEF CBNext

LEMMA NextCount ==
    CBTypeOK /\ CountMatchesState /\ [CBNext]_cbVars => CountMatchesState'
<1>. SUFFICES ASSUME CBTypeOK, CountMatchesState, [CBNext]_cbVars
              PROVE  CountMatchesState'
  OBVIOUS
<1>. USE BreakerAssumption DEF CBTypeOK, CountMatchesState, CircuitStates, CircuitStages
<1>1. CASE CBTick
  BY <1>1 DEF CBTick
<1>2. CASE State
  BY <1>2, CurrentStateType DEF State
<1>3. CASE LimitingChanges
  BY <1>3 DEF LimitingChanges
<1>4. ASSUME NEW r \in Callers, Admit(r)
      PROVE  CountMatchesState'
  BY <1>4, CurrentStateType DEF Admit, Refuses
<1>5. ASSUME NEW r \in Callers, WriteStatus(r)
      PROVE  CountMatchesState'
  BY <1>5 DEF WriteStatus
<1>6. ASSUME NEW r \in Callers, RecordBlocked(r)
      PROVE  CountMatchesState'
  <2>1. CASE Trips(Count(failures))
    BY <1>6, <2>1, CountRange DEF RecordBlocked
  <2>2. CASE ~Trips(Count(failures))
    <3>1. state = "closed" => Count(failures) < Threshold
      BY <2>2, CountRange DEF Trips
    <3>. QED BY <1>6, <2>2, <3>1, CountRange DEF RecordBlocked
  <2>. QED BY <2>1, <2>2
<1>7. ASSUME NEW r \in Callers, RecordAllowed(r)
      PROVE  CountMatchesState'
  BY <1>7 DEF RecordAllowed
<1>8. CASE UNCHANGED cbVars
  BY <1>8 DEF cbVars
<1>. QED BY <1>1, <1>2, <1>3, <1>4, <1>5, <1>6, <1>7, <1>8 DEF CBNext

-----------------------------------------------------------------------------
(***************************************************************************)
(* Every field of the breaker and every progress's stage keep their type.   *)
(***************************************************************************)
THEOREM BreakerTypes == CBSpec => []CBTypeOK
<1>1. CBInit => CBTypeOK
  <2>. SUFFICES ASSUME CBInit PROVE CBTypeOK
    OBVIOUS
  <2>1. /\ state \in CircuitStates /\ failures \in 0 .. MaxFailures
        /\ age \in 0 .. ResetAfter /\ progress \in [Callers -> CircuitStages]
    BY BreakerAssumption DEF CBInit, CircuitStates, CircuitStages
  <2>2. limiting \in BOOLEAN /\ tripped \in BOOLEAN
    BY Zenon DEF CBInit
  <2>. QED BY <2>1, <2>2, Zenon DEF CBTypeOK
<1>. QED BY <1>1, NextCBTypeOK, PTL DEF CBSpec

(***************************************************************************)
(* A closed circuit has no count that should have tripped it, and an open  *)
(* or half-open circuit always has a positive count, so that the next      *)
(* RecordAllowed closes it, and an onTrip to its name.                     *)
(***************************************************************************)
THEOREM CountsAgree == CBSpec => []CountMatchesState
<1>1. CBInit => CountMatchesState
  BY DEF CBInit, CountMatchesState
<1>. QED BY <1>1, NextCount, BreakerTypes, PTL DEF CBSpec
=============================================================================
