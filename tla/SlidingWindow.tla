--------------------------- MODULE SlidingWindow ---------------------------
(***************************************************************************)
(* SlidingWindowCounter (sliding_window.go).  One MULTI/EXEC transaction   *)
(* drops the entries older than the caller's window, adds the caller's own *)
(* entry (also when the call is then rejected), counts the set and renews  *)
(* the key's expiry.                                                       *)
(*                                                                         *)
(* An entry's member is the stamp in nanoseconds, here in clock ticks, and *)
(* its score the stamp in milliseconds: the score is a function of the     *)
(* member, so that the sorted set is a set of members.                     *)
(***************************************************************************)
EXTENDS AllowCall, FiniteSets

CONSTANT Milli      \* clock ticks per millisecond

ASSUME MilliAssumption == Milli \in Nat \ {0}

VARIABLES
    zset,       \* members of the sorted set
    zsetTill,   \* expiry of its key
    swGranted   \* history: stamps of the calls that were granted

swVars == <<zset, zsetTill, swGranted>>

SWTypeOK ==
    /\ zset \subseteq 0 .. MaxTime
    /\ zsetTill \in Nat
    /\ swGranted \subseteq 0 .. MaxTime

SWInit == zset = {} /\ zsetTill = 0 /\ swGranted = {}

Score(member) == member \div Milli

Entries == IF now > zsetTill THEN {} ELSE zset

\* Mutant: the entries of one more millisecond are removed.
KeptTooFew(s) == {m \in Entries : Score(m) > Score(s - Window) + 1}

\* ZREMRANGEBYSCORE 0 (stamp - Window), bounds included.
Kept(s) == {m \in Entries : Score(m) > Score(s - Window)}

Added(s) == Kept(s) \cup {s}

\* EXPIRE takes whole seconds: go-redis cuts window + 1s down to seconds.
Expire == ((Window + Second) \div Second) * Second

SWStep(r) ==
    LET s == stamp[r]
        ok == Cardinality(Added(s)) <= Limit
    IN  /\ stage[r] = "sent"
        /\ OnTime(r)
        /\ zset' = Added(s)
        /\ zsetTill' = now + Expire
        /\ swGranted' = IF ok THEN swGranted \cup {s} ELSE swGranted
        /\ Reply(r, IF ok THEN "allowed" ELSE "blocked", "sent")
        /\ Observe(r)
        /\ UNCHANGED <<now, from>>

-----------------------------------------------------------------------------
(***************************************************************************)
(* "max requests per window duration": in every stretch of one window, the *)
(* granted calls have at most Limit different stamps, when Redis executed  *)
(* the calls in the order of their stamps.  (Calls that read the very same *)
(* nanosecond share one member and count as one.)                          *)
(***************************************************************************)
SWWindowBounded ==
    ordered =>
        \A t \in 0 .. MaxTime :
            Cardinality({g \in swGranted : /\ Score(g) <= Score(t)
                                           /\ Score(g) > Score(t - Window)})
              <= Limit
=============================================================================
