------------------------------- MODULE Dedup --------------------------------
(***************************************************************************)
(* DedupStore and WithRequestDedup (request_dedup.go).  IsDuplicate runs   *)
(* under the mutex.  The evictor reads the clock when its ticker fires and *)
(* takes the mutex only then: it sweeps with a clock reading of the past.  *)
(***************************************************************************)
EXTENDS Chain

CONSTANT DedupTTL   \* d.ttl, also the ticker's period

ASSUME DedupAssumption == DedupTTL \in Nat \ {0} /\ MaxLag < DedupTTL

VARIABLES
    entries,    \* d.entries: the time each fingerprint's entry has left
    sinceFire,  \* time since the ticker fired last, as the evictor knows it
    sweepAge,   \* age of the evictor's clock reading, or NoSweep
    sincePass   \* history: time since k was last let pass, up to DedupTTL

deVars == <<entries, sinceFire, sweepAge, sincePass>>

NoSweep == -1

\* How long an entry may stay in the map after its time: the evictor reads the
\* clock every DedupTTL, up to MaxLag late, and sweeps up to MaxLag later.
Linger == DedupTTL + 2 * MaxLag

DETypeOK ==
    /\ entries \in MapsTo(-Linger - 1 .. DedupTTL)
    /\ sinceFire \in 0 .. DedupTTL + MaxLag
    /\ sweepAge \in {NoSweep} \cup 0 .. MaxLag
    /\ sincePass \in [Keys -> 0 .. DedupTTL]

DEInit ==
    /\ entries = NoEntries
    /\ sinceFire = 0
    /\ sweepAge = NoSweep
    /\ sincePass = [k \in Keys |-> DedupTTL]

DEMayTick ==
    /\ sinceFire < DedupTTL + MaxLag
    /\ sweepAge < MaxLag

DETick ==
    /\ entries' = [k \in DOMAIN entries |->
                     IF entries[k] < -Linger THEN entries[k] ELSE entries[k] - 1]
    /\ sinceFire' = sinceFire + 1
    /\ sweepAge' = IF sweepAge = NoSweep THEN NoSweep ELSE sweepAge + 1
    /\ sincePass' = [k \in Keys |->
                       IF sincePass[k] = DedupTTL THEN DedupTTL
                                                  ELSE sincePass[k] + 1]

\* Mutant: whatever is in the map is a duplicate until the evictor comes.
IsDuplicateWhileKept(k) == k \in DOMAIN entries

IsDuplicate(k) == k \in DOMAIN entries /\ entries[k] > 0

Accept(r) ==
    /\ stage[r] = "check"
    /\ ~IsDuplicate(key[r])
    /\ entries' = Insert(entries, key[r], DedupTTL)
    /\ sincePass' = [sincePass EXCEPT ![key[r]] = 0]
    /\ Goto(r, "handling")
    /\ UNCHANGED <<sinceFire, sweepAge>>

Duplicate(r) ==
    /\ stage[r] = "check"
    /\ IsDuplicate(key[r])
    /\ Goto(r, "idle")
    /\ UNCHANGED deVars

\* Mutant: the ticker fires a tick too early.
TickerFiredEarly == sinceFire >= DedupTTL - 1

TickerFired == sinceFire >= DedupTTL

\* range ticker.C, then now := time.Now()
ReadClock ==
    /\ sweepAge = NoSweep
    /\ TickerFired
    /\ sinceFire' = sinceFire - DedupTTL
    /\ sweepAge' = 0
    /\ UNCHANGED <<entries, sincePass>>

\* Mutant: an entry must be over for a whole period.
LapsedPeriod(k) == entries[k] + sweepAge < -DedupTTL

\* now.After(exp), for a `now` of some time ago.
Lapsed(k) == entries[k] + sweepAge < 0

Sweep ==
    /\ sweepAge # NoSweep
    /\ entries' = Remove(entries, {k \in DOMAIN entries : Lapsed(k)})
    /\ sweepAge' = NoSweep
    /\ UNCHANGED <<sinceFire, sincePass>>

Evict == ReadClock \/ Sweep

-----------------------------------------------------------------------------
(***************************************************************************)
(* "Rejects duplicate requests within the TTL window": of the requests of  *)
(* one fingerprint no two are let pass less than a TTL apart, and one is   *)
(* rejected only for another that passed less than a TTL ago.  A sweep     *)
(* with an old clock reading never forgets a fingerprint that is not over, *)
(* in particular none that was recorded anew since the reading.            *)
(***************************************************************************)
OncePerTTL ==
    [][\A r \in Requests :
          /\ Accept(r) => sincePass[key[r]] = DedupTTL
          /\ Duplicate(r) => sincePass[key[r]] < DedupTTL]_<<chainVars, deVars>>

(***************************************************************************)
(* The map does not grow with the requests ever seen: an entry whose time  *)
(* is over is gone after one period of the ticker and the evictor's delays.*)
(***************************************************************************)
EntriesSwept == \A k \in DOMAIN entries : entries[k] >= -Linger
=============================================================================
