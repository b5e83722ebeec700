------------------------------ MODULE Priority ------------------------------
(***************************************************************************)
(* WithRequestPriority (request_priority.go) over a store.  The requests   *)
(* of all priorities of one client share one counter, which each compares  *)
(* with the limit of its own priority.  An error of the store is dropped,  *)
(* and reads as a count of zero.                                           *)
(***************************************************************************)
EXTENDS StoreCalls

CONSTANTS
    PriorityLimit,      \* limit
    HighPercent,        \* highLimitMult, in percent
    LowPercent,         \* lowLimitMult, in percent
    PriorityWindow,     \* windowTTL
    PriorityHeaders     \* the numbers in X-Request-Priority, 0 if it has none

\* What the options accept: multipliers of at least 1, and of at most 1.
ASSUME PriorityAssumption ==
    /\ PriorityLimit \in Int
    /\ HighPercent \in Nat /\ HighPercent >= 100
    /\ LowPercent \in 1 .. 100
    /\ PriorityWindow \in Lifetimes
    /\ PriorityHeaders \subseteq Int

VARIABLES
    counted,    \* history: requests counted in the current life of the key
    passedBy,   \* history: passedBy[p], those of priority up to p that the
                \* count let pass since
    refusedBy   \* history: the priorities of which one was refused since

prVars == <<counted, passedBy, refusedBy>>

PriorityLow == 1
PriorityNormal == 5
PriorityHigh == 10

\* A header that is missing or not a positive number means normal.
defaultPriorityKeyFunc(n) == IF n < 1 THEN PriorityNormal ELSE n

Priorities == {defaultPriorityKeyFunc(n) : n \in PriorityHeaders}

Scaled(p) ==
    CASE p >= PriorityHigh -> (PriorityLimit * HighPercent) \div 100
      [] p <= PriorityLow  -> (PriorityLimit * LowPercent) \div 100
      [] OTHER             -> PriorityLimit

\* Mutant: the reduced limit is not kept at one or above.
EffectiveLimitRaw(p) == Scaled(p)

EffectiveLimit(p) == IF Scaled(p) < 1 THEN 1 ELSE Scaled(p)

PriorityKey == <<"priority", 0>>

PRTypeOK ==
    /\ counted \in Nat
    /\ passedBy \in [Priorities -> Nat]
    /\ refusedBy \subseteq Priorities

NonePassed == [p \in Priorities |-> 0]

PRInit == counted = 0 /\ passedBy = NonePassed /\ refusedBy = {}

\* The histories of the life of the key that this Increment counts in.
Passed == IF Found(PriorityKey) THEN passedBy ELSE NonePassed
Refused == IF Found(PriorityKey) THEN refusedBy ELSE {}

Prioritized(p) ==
    /\ Increment(PriorityKey, PriorityWindow)
    /\ counted' = IF Found(PriorityKey) THEN counted + 1 ELSE 1
    /\ IF reply' > EffectiveLimit(p)
       THEN passedBy' = Passed /\ refusedBy' = Refused \cup {p}
       ELSE /\ passedBy' = [q \in Priorities |->
                              IF p <= q THEN Passed[q] + 1 ELSE Passed[q]]
            /\ refusedBy' = Refused

\* The request passes, counted or not.
PriorityError(p) ==
    \/ NotExecuted /\ UNCHANGED prVars
    \/ /\ IncrementedUnheard(PriorityKey, PriorityWindow)
       /\ counted' = IF Found(PriorityKey) THEN counted + 1 ELSE 1
       /\ passedBy' = Passed
       /\ refusedBy' = Refused

PRStep(p) == Prioritized(p) \/ PriorityError(p)

-----------------------------------------------------------------------------
(***************************************************************************)
(* "High-priority requests receive an increased limit multiplier; low-     *)
(* priority requests receive a reduced one": though all priorities share   *)
(* one counter, in one life of it the requests up to each priority pass,   *)
(* together, at most as often as that priority's limit, those aside that   *)
(* pass on an error of the store; a priority is refused only after more    *)
(* requests than its share of the limit, and never the first request.      *)
(***************************************************************************)
TiersRespected ==
    \A p \in Priorities :
        /\ passedBy[p] <= EffectiveLimit(p)
        /\ p \in refusedBy =>
             /\ counted > 1
             /\ 100 * counted > PriorityLimit *
                  (IF p >= PriorityHigh THEN HighPercent
                   ELSE IF p <= PriorityLow THEN LowPercent ELSE 100)
=============================================================================
