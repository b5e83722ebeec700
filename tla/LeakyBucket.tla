---------------------------- MODULE LeakyBucket ----------------------------
(***************************************************************************)
(* LeakyBucketCounter (leaky_bucket.go).  Allow reads the count and the    *)
(* time of the last leak in one transaction, computes the new count in the *)
(* process, and writes both keys back in a second transaction: nothing     *)
(* keeps two callers from reading the same count.                          *)
(***************************************************************************)
EXTENDS AllowCall

\* A leak interval of zero makes the code divide by zero.
ASSUME LeakRateAssumption == Limit <= Window

VARIABLES
    leaky,      \* the count and last keys, which are set and expire together
    newCount,   \* newCount[r]: the count r is about to write
    lbAllowed,  \* history: calls allowed with a stamp at or after `from`
    fresh,      \* history: fresh[r], r read the bucket, which did not expire
                \* between r's stamp and the read, and nobody wrote since
    clean       \* history: every write so far was of a fresh value, with a
                \* stamp no older than the one it replaced

lbVars == <<leaky, newCount, lbAllowed, fresh, clean>>

LeakRate == Window \div Limit      \* one request leaks per LeakRate ticks

\* The history counter stops here, above every bound it is compared with.
EnoughAllowed == Limit + MaxTime + 1

LBTypeOK ==
    /\ leaky \in [count : Nat, last : 0 .. MaxTime, expires : {-1} \cup Nat]
    /\ newCount \in [Callers -> Nat]
    /\ lbAllowed \in Nat
    /\ fresh \in [Callers -> BOOLEAN]
    /\ clean \in BOOLEAN

LBInit ==
    /\ leaky = [count |-> 0, last |-> 0, expires |-> -1]
    /\ newCount = [r \in Callers |-> 0]
    /\ lbAllowed = 0
    /\ fresh = [r \in Callers |-> FALSE]
    /\ clean = TRUE

\* Mutant: the division rounds away from zero.
QuotientUp(a, b) == IF a >= 0 THEN (a + b - 1) \div b ELSE -((-a) \div b)

\* Go's division of durations truncates towards zero.
Quotient(a, b) == IF a >= 0 THEN a \div b ELSE -((-a) \div b)

\* Mutant: one request leaks per window, not per leak interval.
DrainedPerWindow(s, read, last) ==
    Greater(0, read - Lesser(Quotient(s - last, Window), read))
\* Mutant: the leak is not limited to what the bucket holds.
DrainedBelowZero(s, read, last) == read - Quotient(s - last, LeakRate)

\* The count after the leak, from the count and last leak that were read.
Drained(s, read, last) ==
    LET leaked == Lesser(Quotient(s - last, LeakRate), read)
    IN  Greater(0, read - leaked)

\* The GETs find the keys, or they have expired, or the pipeline fails: its
\* error is dropped, and a key that was not read counts as a missing one.
ReadCount(ok) == IF ok /\ now <= leaky.expires THEN leaky.count ELSE 0
ReadLast(ok, s) == IF ok /\ now <= leaky.expires THEN leaky.last ELSE s

\* The keys expired while the call was under way.
ExpiredInFlight(s) == s <= leaky.expires /\ leaky.expires < now

LBRead(r, ok) ==
    LET s == stamp[r]
        left == Drained(s, ReadCount(ok), ReadLast(ok, s))
    IN  /\ stage[r] = "sent"
        /\ ok => OnTime(r)
        /\ IF left >= Limit
           THEN /\ Finish(r, "blocked")
                /\ UNCHANGED <<newCount, fresh>>
           ELSE /\ stage' = [stage EXCEPT ![r] = "half"]
                /\ newCount' = [newCount EXCEPT ![r] = left + 1]
                /\ fresh' =
                     [fresh EXCEPT ![r] = ok /\ ~ExpiredInFlight(s)]
                /\ UNCHANGED <<stamp, answer>>
        /\ UNCHANGED <<now, latest, ordered, from, leaky, lbAllowed, clean>>

LBWrite(r) ==
    /\ stage[r] = "half"
    /\ OnTime(r)
    /\ leaky' = [count |-> newCount[r], last |-> stamp[r],
                 expires |-> now + Window]
    /\ clean' = (clean /\ fresh[r] /\ stamp[r] >= leaky.last)
    /\ \/ /\ Finish(r, "allowed")
          /\ lbAllowed' = IF stamp[r] >= from /\ lbAllowed < EnoughAllowed
                          THEN lbAllowed + 1
                          ELSE lbAllowed
          /\ newCount' = [newCount EXCEPT ![r] = 0]
          /\ fresh' = [x \in Callers |-> FALSE]
       \/ /\ Finish(r, "error")
          /\ lbAllowed' = lbAllowed
          /\ newCount' = [newCount EXCEPT ![r] = 0]
          /\ fresh' = [x \in Callers |-> FALSE]
       \/ /\ Resend(r, "half")
          /\ fresh' = [x \in Callers |-> x = r /\ fresh[x]]
          /\ UNCHANGED <<newCount, lbAllowed>>
    /\ UNCHANGED <<now, latest, ordered, from>>

\* The second pipeline never reaches Redis: Allow returns an error.
LBWriteLost(r) ==
    /\ stage[r] = "half"
    /\ Finish(r, "error")
    /\ newCount' = [newCount EXCEPT ![r] = 0]
    /\ fresh' = [fresh EXCEPT ![r] = FALSE]
    /\ UNCHANGED <<now, latest, ordered, from, leaky, lbAllowed, clean>>

LBStep(r) ==
    \/ \E ok \in BOOLEAN : LBRead(r, ok)
    \/ LBWrite(r)
    \/ LBWriteLost(r)

-----------------------------------------------------------------------------
(***************************************************************************)
(* "Requests are processed at a constant rate; excess requests are         *)
(* rejected": the calls allowed since `from` are at most a full bucket and *)
(* what leaked since, for every `from`, as long as the calls were clean:   *)
(* no two read and write pairs overlapped, no read failed or came when the *)
(* bucket had expired since its call took the time, and no write put an    *)
(* older time than it found.  Without each of these the bound may break.   *)
(***************************************************************************)
LBRateBounded ==
    clean => lbAllowed * LeakRate
               <= Limit * LeakRate + Greater(0, now - from)

(***************************************************************************)
(* However calls overlap, fail and overtake each other, a call is rejected *)
(* only when the bucket was last filled less than one leak interval before *)
(* its stamp: lost updates and clocks that run backwards never make the    *)
(* bucket hold more than its capacity.                                     *)
(***************************************************************************)
LBRejectsOnlyAfterFill ==
    [][\A r \in Callers, ok \in BOOLEAN :
          LBRead(r, ok) /\ stage'[r] = "idle"
            => stamp[r] - leaky.last < LeakRate]_<<callVars, lbVars>>
=============================================================================
