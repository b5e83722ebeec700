------------------------------- MODULE Burst --------------------------------
(***************************************************************************)
(* BurstCounter (burst.go) and WithBurst (burst_middleware.go) over a      *)
(* store.  Allow reads the clock, names the counter after the window that  *)
(* the reading falls in, and only then increments it: by that time the     *)
(* window may be over.                                                     *)
(***************************************************************************)
EXTENDS StoreCalls

CONSTANTS
    BurstLimit,     \* b.limit
    BurstExtra,     \* b.burst
    BurstWindow,    \* b.window
    BurstSecond     \* clock ticks per second

\* Windows of whole seconds: shorter ones that start in the same second have
\* one key between them.
ASSUME BurstCounterAssumption ==
    /\ BurstLimit \in Nat /\ BurstExtra \in Nat
    /\ BurstWindow \in Lifetimes \ {0}
    /\ BurstSecond \in Nat \ {0}
    /\ BurstWindow % BurstSecond = 0

VARIABLES
    asked,      \* asked[r]: the clock reading of r's Allow, or NotAsked
    inTime,     \* history: inTime[w], calls of window w let pass before its end
    spent,      \* history: spent[w], calls let pass, or counted and failed
    turnedAway  \* history: the windows of which a call was refused

buVars == <<asked, inTime, spent, turnedAway>>

NotAsked == -1

effectiveLimit == BurstLimit + BurstExtra

WindowOf(s) == (s \div BurstWindow) * BurstWindow
Windows == {WindowOf(s) : s \in 0 .. MaxClock}
windowKey(s) == <<"burst", WindowOf(s) \div BurstSecond>>
BurstKeys == {windowKey(s) : s \in 0 .. MaxClock}

BUTypeOK ==
    /\ asked \in [Requests -> {NotAsked} \cup 0 .. MaxClock]
    /\ inTime \in [Windows -> Nat]
    /\ spent \in [Windows -> Nat]
    /\ turnedAway \subseteq Windows

BUInit ==
    /\ asked = [r \in Requests |-> NotAsked]
    /\ inTime = [w \in Windows |-> 0]
    /\ spent = [w \in Windows |-> 0]
    /\ turnedAway = {}

Ask(r) ==
    /\ asked[r] = NotAsked
    /\ asked' = [asked EXCEPT ![r] = clock]
    /\ UNCHANGED <<msVars, inTime, spent, turnedAway>>

\* Mutant: the base limit alone decides.
WithinBaseLimit(count) == count <= BurstLimit

Within(count) == count <= effectiveLimit

\* The store answers: next, or limitExceeded.
Decide(r) ==
    LET s == asked[r]
        w == WindowOf(s)
    IN  /\ s # NotAsked
        /\ Increment(windowKey(s), BurstWindow)
        /\ IF Within(reply')
           THEN /\ spent' = [spent EXCEPT ![w] = @ + 1]
                /\ inTime' = IF clock < w + BurstWindow
                             THEN [inTime EXCEPT ![w] = @ + 1]
                             ELSE inTime
                /\ UNCHANGED turnedAway
           ELSE /\ turnedAway' = turnedAway \cup {w}
                /\ UNCHANGED <<inTime, spent>>
        /\ asked' = [asked EXCEPT ![r] = NotAsked]

\* The store fails, before or after it counted: 500.
BurstError(r) ==
    LET s == asked[r]
        w == WindowOf(s)
    IN  /\ s # NotAsked
        /\ \/ NotExecuted /\ UNCHANGED spent
           \/ /\ IncrementedUnheard(windowKey(s), BurstWindow)
              /\ spent' = [spent EXCEPT ![w] = @ + 1]
        /\ asked' = [asked EXCEPT ![r] = NotAsked]
        /\ UNCHANGED <<inTime, turnedAway>>

BUStep(r) == Ask(r) \/ Decide(r) \/ BurstError(r)

-----------------------------------------------------------------------------
(***************************************************************************)
(* "Permits up to limit requests per window, with an additional burst": of *)
(* the calls counted before their window ends no more than limit and burst *)
(* pass, and a call is refused only when that many of its window passed or *)
(* failed after they were counted.  The key was created some time into the *)
(* window and expires a window later, so that calls which come after the   *)
(* window may find it gone.                                                *)
(***************************************************************************)
BurstExact ==
    \A w \in Windows :
        /\ inTime[w] <= effectiveLimit
        /\ w \in turnedAway => spent[w] >= effectiveLimit
=============================================================================
