-------------------------- MODULE SharedWorkProofs --------------------------
(***************************************************************************)
(* What the middlewares that share work between requests promise, for any  *)
(* number of requests and keys and any durations: the calls that are       *)
(* shared, the duplicates that are turned away, the responses served again.*)
(***************************************************************************)
EXTENDS SharedWork, TLAPS

\* A call has exactly one leader, and followers that know of it.
CoalescingInv == COTypeOK /\ CallsAccounted

\* The map of fingerprints says exactly when each was let pass last, for as
\* long as it matters.
PassesRecorded ==
    \A k \in Keys :
       sincePass[k] = IF k \in DOMAIN entries /\ entries[k] > 0
                      THEN DedupTTL - entries[k] ELSE DedupTTL

\* Between sweeps no entry has been over for longer than since the ticker's
\* last signal: the sweep that answered it took the rest.  While a sweep is
\* under way its clock reading is no older than that signal and at most MaxLag
\* younger, and no entry has been over for longer than since the signal before.
SweepsTimely ==
    IF sweepAge = NoSweep
    THEN \A k \in DOMAIN entries : entries[k] >= -sinceFire
    ELSE /\ sweepAge <= sinceFire /\ sinceFire <= sweepAge + MaxLag
         /\ \A k \in DOMAIN entries : entries[k] >= -(sinceFire + DedupTTL)

DedupInv == DETypeOK /\ PassesRecorded /\ SweepsTimely

\* A live entry is as old as its response was when it was stored, at most
\* MaxLag, and the time that has passed since.
AgesBounded ==
    \A k \in DOMAIN cache :
       cache[k].left >= 0 => cache[k].age <= CacheTTL - cache[k].left + MaxLag

ResponsesRecorded ==
    \A r \in Requests : stage[r] = "recorded" => response[r] # None

CacheInv == RCTypeOK /\ AgesBounded /\ ResponsesRecorded

WorkInv == ChainTypeOK /\ CoalescingInv /\ DedupInv /\ CacheInv

-----------------------------------------------------------------------------
\* The Go maps and their operations.
LEMMA Maps ==
    ASSUME NEW V, NEW m
    PROVE  m \in MapsTo(V) <=> /\ m = [k \in DOMAIN m |-> m[k]]
                               /\ DOMAIN m \subseteq Keys
                               /\ \A k \in DOMAIN m : m[k] \in V
BY DEF MapsTo

LEMMA NoEntriesType == ASSUME NEW V PROVE NoEntries \in MapsTo(V)
BY Maps DEF NoEntries

LEMMA InsertType ==
    ASSUME NEW V, NEW m \in MapsTo(V), NEW k \in Keys, NEW v \in V
    PROVE  Insert(m, k, v) \in MapsTo(V)
<1>1. DOMAIN m \subseteq Keys /\ \A x \in DOMAIN m : m[x] \in V
  BY Maps
<1>2. Insert(m, k, v) \in [DOMAIN m \cup {k} -> V]
  BY <1>1 DEF Insert
<1>. QED BY <1>1, <1>2 DEF MapsTo

LEMMA RemoveType ==
    ASSUME NEW V, NEW m \in MapsTo(V), NEW ks
    PROVE  /\ Remove(m, ks) \in MapsTo(V)
           /\ DOMAIN Remove(m, ks) = DOMAIN m \ ks
           /\ \A x \in DOMAIN m \ ks : Remove(m, ks)[x] = m[x]
<1>1. DOMAIN m \subseteq Keys /\ \A x \in DOMAIN m : m[x] \in V
  BY Maps
<1>2. /\ DOMAIN Remove(m, ks) = DOMAIN m \ ks
      /\ \A x \in DOMAIN m \ ks : Remove(m, ks)[x] = m[x]
  BY DEF Remove
<1>3. Remove(m, ks) \in [DOMAIN m \ ks -> V]
  BY <1>1 DEF Remove
<1>. QED BY <1>1, <1>2, <1>3 DEF MapsTo

-----------------------------------------------------------------------------
\* What a step of one request does to the chain: its stage, its key when it
\* arrives, and nothing of the others.
Moves(r, s) ==
    /\ stage' = [stage EXCEPT ![r] = s]
    /\ \A q \in Requests \ {r} : key'[q] = key[q]

LEMMA GotoMoves ==
    ASSUME ChainTypeOK, NEW r \in Requests, NEW s \in Stages, Goto(r, s)
    PROVE  /\ ChainTypeOK' /\ Moves(r, s) /\ key' = key
           /\ stage'[r] = s /\ \A q \in Requests \ {r} : stage'[q] = stage[q]
<1>1. stage' \in [Requests -> Stages]
  BY DEF ChainTypeOK, Goto
<1>2. cacheable' \in [Requests -> BOOLEAN]
  BY Zenon DEF ChainTypeOK, Goto
<1>. QED BY <1>1, <1>2 DEF ChainTypeOK, Goto, Moves

LEMMA ArriveMoves ==
    ASSUME ChainTypeOK, NEW r \in Requests, Arrive(r)
    PROVE  /\ ChainTypeOK' /\ Moves(r, "arrived")
           /\ stage'[r] = "arrived" /\ \A q \in Requests \ {r} : stage'[q] = stage[q]
<1>1. stage' \in [Requests -> Stages]
  BY DEF ChainTypeOK, Arrive, Stages
<1>2. PICK k \in Keys : key' = [key EXCEPT ![r] = k]
  BY DEF Arrive
<1>3. PICK get \in BOOLEAN : cacheable' = [cacheable EXCEPT ![r] = get]
  BY DEF Arrive
<1>4. cacheable' \in [Requests -> BOOLEAN]
  BY <1>3, Zenon DEF ChainTypeOK
<1>5. key' \in [Requests -> Keys]
  BY <1>2 DEF ChainTypeOK
<1>. QED BY <1>1, <1>2, <1>4, <1>5 DEF ChainTypeOK, Arrive, Moves

-----------------------------------------------------------------------------
(***************************************************************************)
(* Coalescing.                                                             *)
(***************************************************************************)
InCall == {"calling", "called", "waiting"}

\* A request that has to do with no call, before or after its step.
LEMMA OutsideCalls ==
    ASSUME ChainTypeOK, CoalescingInv, UNCHANGED coVars,
           NEW r \in Requests, NEW s \in Stages \ {"calling", "called"}, Moves(r, s),
           stage[r] \notin InCall
    PROVE  CoalescingInv'
<1>1. inflight' = inflight /\ waitsFor' = waitsFor
  BY DEF coVars
<1>2. COTypeOK'
  BY <1>1 DEF CoalescingInv, COTypeOK
<1>3. \A k \in DOMAIN inflight : inflight[k] \in Requests
  BY Maps DEF CoalescingInv, COTypeOK
<1>4. waitsFor[r] = r
  BY DEF CoalescingInv, CallsAccounted, InCall
<1>5. \A q \in Requests : stage'[q] = IF q = r THEN s ELSE stage[q]
  BY DEF ChainTypeOK, Moves
<1>6. \A q \in Requests : stage[q] \in InCall => stage'[q] = stage[q] /\ key'[q] = key[q]
  BY <1>5 DEF Moves
<1>7. \A k \in DOMAIN inflight' :
         key'[inflight'[k]] = k /\ stage'[inflight'[k]] \in {"calling", "called"}
  <2>. SUFFICES ASSUME NEW k \in DOMAIN inflight
                PROVE  /\ key'[inflight[k]] = k
                       /\ stage'[inflight[k]] \in {"calling", "called"}
    BY <1>1
  <2>1. key[inflight[k]] = k /\ stage[inflight[k]] \in {"calling", "called"}
    BY DEF CoalescingInv, CallsAccounted
  <2>. QED BY <1>3, <1>6, <2>1 DEF InCall
<1>8. ASSUME NEW q \in Requests, stage'[q] \in {"calling", "called"}
      PROVE  key'[q] \in DOMAIN inflight' /\ inflight'[key'[q]] = q
  <2>1. q # r
    BY <1>5, <1>8
  <2>. QED BY <1>1, <1>5, <1>8, <2>1 DEF CoalescingInv, CallsAccounted, Moves
<1>9. ASSUME NEW q \in Requests, waitsFor'[q] # q
      PROVE  /\ stage'[q] = "waiting"
             /\ stage'[waitsFor'[q]] = "calling"
             /\ key'[waitsFor'[q]] = key'[q]
  <2>1. /\ stage[q] = "waiting" /\ stage[waitsFor[q]] = "calling"
        /\ key[waitsFor[q]] = key[q]
    BY <1>1, <1>9 DEF CoalescingInv, CallsAccounted
  <2>2. waitsFor[q] \in Requests
    BY DEF CoalescingInv, COTypeOK
  <2>. QED BY <1>1, <1>6, <2>1, <2>2 DEF InCall
<1>. QED BY <1>2, <1>7, <1>8, <1>9 DEF CoalescingInv, CallsAccounted

LEMMA LeadInv ==
    ASSUME ChainTypeOK, CoalescingInv, NEW r \in Requests, Lead(r)
    PROVE  CoalescingInv'
<1>1. Moves(r, "calling") /\ key' = key /\ ChainTypeOK'
      /\ stage'[r] = "calling" /\ \A q \in Requests \ {r} : stage'[q] = stage[q]
  BY GotoMoves DEF Lead, Stages
<1>2. key[r] \in Keys
  BY DEF ChainTypeOK
<1>3. /\ inflight' \in MapsTo(Requests)
      /\ DOMAIN inflight' = DOMAIN inflight \cup {key[r]}
      /\ \A x \in DOMAIN inflight \cup {key[r]} :
            inflight'[x] = IF x = key[r] THEN r ELSE inflight[x]
  <2>1. inflight \in MapsTo(Requests)
    BY DEF CoalescingInv, COTypeOK
  <2>2. inflight' = Insert(inflight, key[r], r)
    BY DEF Lead
  <2>3. /\ DOMAIN inflight' = DOMAIN inflight \cup {key[r]}
        /\ \A x \in DOMAIN inflight \cup {key[r]} :
              inflight'[x] = IF x = key[r] THEN r ELSE inflight[x]
    BY ONLY <2>2 DEF Insert
  <2>. QED BY <1>2, <2>1, <2>2, <2>3, InsertType
<1>4. waitsFor' = waitsFor /\ stage[r] = "arrived" /\ key[r] \notin DOMAIN inflight
  BY DEF Lead
<1>5. COTypeOK'
  BY <1>3, <1>4 DEF CoalescingInv, COTypeOK
<1>6. \A k \in DOMAIN inflight : inflight[k] \in Requests /\ inflight[k] # r
  BY <1>4, Maps DEF CoalescingInv, COTypeOK, CallsAccounted
<1>7. \A k \in DOMAIN inflight' :
         key'[inflight'[k]] = k /\ stage'[inflight'[k]] \in {"calling", "called"}
  BY <1>1, <1>3, <1>4, <1>6 DEF CoalescingInv, CallsAccounted
<1>8. ASSUME NEW q \in Requests, stage'[q] \in {"calling", "called"}
      PROVE  key'[q] \in DOMAIN inflight' /\ inflight'[key'[q]] = q
  BY <1>1, <1>3, <1>4, <1>8 DEF CoalescingInv, CallsAccounted
<1>9. ASSUME NEW q \in Requests, waitsFor'[q] # q
      PROVE  /\ stage'[q] = "waiting"
             /\ stage'[waitsFor'[q]] = "calling"
             /\ key'[waitsFor'[q]] = key'[q]
  <2>1. /\ stage[q] = "waiting" /\ stage[waitsFor[q]] = "calling"
        /\ key[waitsFor[q]] = key[q] /\ waitsFor[q] \in Requests
    BY <1>4, <1>9 DEF CoalescingInv, CallsAccounted, COTypeOK
  <2>. QED BY <1>1, <1>4, <2>1
<1>. QED BY <1>5, <1>7, <1>8, <1>9 DEF CoalescingInv, CallsAccounted

LEMMA JoinInv ==
    ASSUME ChainTypeOK, CoalescingInv, NEW r \in Requests, Join(r)
    PROVE  CoalescingInv'
<1>. DEFINE leader == inflight[key[r]]
<1>1. /\ key[leader] = key[r] /\ stage[leader] \in {"calling", "called"}
      /\ leader \in Requests
  BY Maps DEF Join, CoalescingInv, CallsAccounted, COTypeOK
<1>2. stage[r] = "arrived" /\ inflight' = inflight
  BY DEF Join
<1>3. CASE stage[leader] = "calling"
  <2>1. Goto(r, "waiting") /\ waitsFor' = [waitsFor EXCEPT ![r] = leader]
    BY <1>3 DEF Join
  <2>2. key' = key /\ stage'[r] = "waiting"
        /\ \A q \in Requests \ {r} : stage'[q] = stage[q]
    BY <2>1, GotoMoves DEF Stages
  <2>3. \A q \in Requests : waitsFor'[q] = IF q = r THEN leader ELSE waitsFor[q]
    BY <2>1 DEF CoalescingInv, COTypeOK
  <2>4. COTypeOK'
    BY <1>1, <1>2, <2>1 DEF CoalescingInv, COTypeOK
  <2>5. \A k \in DOMAIN inflight : inflight[k] \in Requests /\ inflight[k] # r
    BY <1>2, Maps DEF CoalescingInv, COTypeOK, CallsAccounted
  <2>6. \A k \in DOMAIN inflight' :
           key'[inflight'[k]] = k /\ stage'[inflight'[k]] \in {"calling", "called"}
    BY <1>2, <2>2, <2>5 DEF CoalescingInv, CallsAccounted
  <2>7. ASSUME NEW q \in Requests, stage'[q] \in {"calling", "called"}
        PROVE  key'[q] \in DOMAIN inflight' /\ inflight'[key'[q]] = q
    BY <1>2, <2>2, <2>7 DEF CoalescingInv, CallsAccounted
  <2>8. ASSUME NEW q \in Requests, waitsFor'[q] # q
        PROVE  /\ stage'[q] = "waiting"
               /\ stage'[waitsFor'[q]] = "calling"
               /\ key'[waitsFor'[q]] = key'[q]
    <3>1. CASE q = r
      BY <1>1, <1>2, <1>3, <2>2, <2>3, <3>1
    <3>2. CASE q # r
      <4>1. /\ stage[q] = "waiting" /\ stage[waitsFor[q]] = "calling"
            /\ key[waitsFor[q]] = key[q] /\ waitsFor[q] \in Requests
        BY <2>3, <2>8, <3>2 DEF CoalescingInv, CallsAccounted, COTypeOK
      <4>. QED BY <1>2, <2>2, <2>3, <3>2, <4>1
    <3>. QED BY <3>1, <3>2
  <2>. QED BY <2>4, <2>6, <2>7, <2>8 DEF CoalescingInv, CallsAccounted
<1>4. CASE stage[leader] # "calling"
  <2>1. Goto(r, "lookup") /\ UNCHANGED coVars
    BY <1>4 DEF Join, coVars
  <2>2. Moves(r, "lookup")
    BY <2>1, GotoMoves DEF Stages
  <2>. QED BY <1>2, <2>1, <2>2, OutsideCalls DEF Stages, InCall
<1>. QED BY <1>3, <1>4

LEMMA CompleteInv ==
    ASSUME ChainTypeOK, CoalescingInv, NEW r \in Requests, Complete(r)
    PROVE  CoalescingInv'
<1>1. stage[r] = "calling" /\ inflight' = inflight
  BY DEF Complete
<1>2. key' = key /\ stage'[r] = "called"
      /\ \A q \in Requests \ {r} : stage'[q] = stage[q]
  BY GotoMoves DEF Complete, Stages
<1>3. \A q \in Requests : waitsFor'[q] = IF waitsFor[q] = r THEN q ELSE waitsFor[q]
  BY DEF Complete, Released
<1>4. COTypeOK'
  BY <1>1 DEF Complete, Released, CoalescingInv, COTypeOK
<1>5. \A k \in DOMAIN inflight : inflight[k] \in Requests
  BY Maps DEF CoalescingInv, COTypeOK
<1>6. \A k \in DOMAIN inflight' :
         key'[inflight'[k]] = k /\ stage'[inflight'[k]] \in {"calling", "called"}
  BY <1>1, <1>2, <1>5 DEF CoalescingInv, CallsAccounted
<1>7. ASSUME NEW q \in Requests, stage'[q] \in {"calling", "called"}
      PROVE  key'[q] \in DOMAIN inflight' /\ inflight'[key'[q]] = q
  BY <1>1, <1>2, <1>7 DEF CoalescingInv, CallsAccounted
<1>8. ASSUME NEW q \in Requests, waitsFor'[q] # q
      PROVE  /\ stage'[q] = "waiting"
             /\ stage'[waitsFor'[q]] = "calling"
             /\ key'[waitsFor'[q]] = key'[q]
  <2>1. waitsFor[q] # r /\ waitsFor'[q] = waitsFor[q]
    BY <1>3, <1>8
  <2>2. /\ stage[q] = "waiting" /\ stage[waitsFor[q]] = "calling"
        /\ key[waitsFor[q]] = key[q] /\ waitsFor[q] \in Requests
    BY <1>8, <2>1 DEF CoalescingInv, CallsAccounted, COTypeOK
  <2>. QED BY <1>1, <1>2, <2>1, <2>2
<1>. QED BY <1>4, <1>6, <1>7, <1>8 DEF CoalescingInv, CallsAccounted

LEMMA UnregisterInv ==
    ASSUME ChainTypeOK, CoalescingInv, NEW r \in Requests, Unregister(r)
    PROVE  CoalescingInv'
<1>1. stage[r] = "called" /\ waitsFor' = waitsFor
  BY DEF Unregister
<1>2. key' = key /\ stage'[r] = "lookup"
      /\ \A q \in Requests \ {r} : stage'[q] = stage[q]
  BY GotoMoves DEF Unregister, Stages
<1>3. /\ inflight' \in MapsTo(Requests)
      /\ DOMAIN inflight' = DOMAIN inflight \ {key[r]}
      /\ \A x \in DOMAIN inflight \ {key[r]} : inflight'[x] = inflight[x]
  BY RemoveType DEF CoalescingInv, COTypeOK, Unregister
<1>4. COTypeOK'
  BY <1>1, <1>3 DEF CoalescingInv, COTypeOK
<1>5. \A k \in DOMAIN inflight : inflight[k] \in Requests
  BY Maps DEF CoalescingInv, COTypeOK
<1>6. \A k \in DOMAIN inflight' :
         key'[inflight'[k]] = k /\ stage'[inflight'[k]] \in {"calling", "called"}
  BY <1>1, <1>2, <1>3, <1>5 DEF CoalescingInv, CallsAccounted
<1>7. ASSUME NEW q \in Requests, stage'[q] \in {"calling", "called"}
      PROVE  key'[q] \in DOMAIN inflight' /\ inflight'[key'[q]] = q
  <2>1. q # r /\ key[q] \in DOMAIN inflight /\ inflight[key[q]] = q
    BY <1>2, <1>7 DEF CoalescingInv, CallsAccounted
  <2>2. inflight[key[r]] = r
    BY <1>1 DEF CoalescingInv, CallsAccounted
  <2>. QED BY <1>2, <1>3, <2>1, <2>2
<1>8. ASSUME NEW q \in Requests, waitsFor'[q] # q
      PROVE  /\ stage'[q] = "waiting"
             /\ stage'[waitsFor'[q]] = "calling"
             /\ key'[waitsFor'[q]] = key'[q]
  <2>1. /\ stage[q] = "waiting" /\ stage[waitsFor[q]] = "calling"
        /\ key[waitsFor[q]] = key[q] /\ waitsFor[q] \in Requests
    BY <1>1, <1>8 DEF CoalescingInv, CallsAccounted, COTypeOK
  <2>. QED BY <1>1, <1>2, <2>1
<1>. QED BY <1>4, <1>6, <1>7, <1>8 DEF CoalescingInv, CallsAccounted

LEMMA WakeInv ==
    ASSUME ChainTypeOK, CoalescingInv, NEW r \in Requests, Wake(r)
    PROVE  CoalescingInv'
<1>1. stage[r] = "waiting" /\ waitsFor[r] = r /\ inflight' = inflight /\ waitsFor' = waitsFor
  BY DEF Wake, coVars
<1>2. key' = key /\ stage'[r] = "lookup"
      /\ \A q \in Requests \ {r} : stage'[q] = stage[q]
  BY GotoMoves DEF Wake, Stages
<1>3. \A k \in DOMAIN inflight : inflight[k] \in Requests /\ inflight[k] # r
  BY <1>1, Maps DEF CoalescingInv, COTypeOK, CallsAccounted
<1>4. \A k \in DOMAIN inflight' :
         key'[inflight'[k]] = k /\ stage'[inflight'[k]] \in {"calling", "called"}
  BY <1>1, <1>2, <1>3 DEF CoalescingInv, CallsAccounted
<1>5. ASSUME NEW q \in Requests, stage'[q] \in {"calling", "called"}
      PROVE  key'[q] \in DOMAIN inflight' /\ inflight'[key'[q]] = q
  BY <1>1, <1>2, <1>5 DEF CoalescingInv, CallsAccounted
<1>6. ASSUME NEW q \in Requests, waitsFor'[q] # q
      PROVE  /\ stage'[q] = "waiting"
             /\ stage'[waitsFor'[q]] = "calling"
             /\ key'[waitsFor'[q]] = key'[q]
  <2>1. /\ stage[q] = "waiting" /\ stage[waitsFor[q]] = "calling" /\ q # r
        /\ key[waitsFor[q]] = key[q] /\ waitsFor[q] \in Requests
    BY <1>1, <1>6 DEF CoalescingInv, CallsAccounted, COTypeOK
  <2>. QED BY <1>1, <1>2, <2>1
<1>. QED BY <1>1, <1>4, <1>5, <1>6 DEF CoalescingInv, CallsAccounted, COTypeOK

LEMMA COStepInv ==
    ASSUME ChainTypeOK, CoalescingInv, NEW r \in Requests, COStep(r)
    PROVE  CoalescingInv' /\ \E s \in Stages \ {"recorded"} : Goto(r, s)
<1>1. CASE Uncoalesced(r)
  <2>1. stage[r] = "arrived" /\ Goto(r, "lookup") /\ UNCHANGED coVars
    BY <1>1 DEF Uncoalesced
  <2>2. Moves(r, "lookup")
    BY <2>1, GotoMoves DEF Stages
  <2>3. CoalescingInv'
    BY <2>1, <2>2, OutsideCalls DEF Stages, InCall
  <2>. QED BY <2>1, <2>3 DEF Stages
<1>2. CASE Lead(r)
  BY <1>2, LeadInv DEF Lead, Stages
<1>3. CASE Join(r)
  <2>1. Goto(r, "waiting") \/ Goto(r, "lookup")
    BY <1>3 DEF Join
  <2>. QED BY <1>3, <2>1, JoinInv DEF Stages
<1>4. CASE Complete(r)
  BY <1>4, CompleteInv DEF Complete, Stages
<1>5. CASE Unregister(r)
  BY <1>5, UnregisterInv DEF Unregister, Stages
<1>6. CASE Wake(r)
  BY <1>6, WakeInv DEF Wake, Stages
<1>. QED BY <1>1, <1>2, <1>3, <1>4, <1>5, <1>6 DEF COStep

-----------------------------------------------------------------------------
(***************************************************************************)
(* Duplicates.                                                             *)
(***************************************************************************)
LEMMA InitDedupInv == DEInit => DedupInv
<1>. SUFFICES ASSUME DEInit PROVE DedupInv
  OBVIOUS
<1>1. entries = NoEntries /\ sinceFire = 0 /\ sweepAge = NoSweep
      /\ sincePass = [k \in Keys |-> DedupTTL] /\ DOMAIN entries = {}
  BY DEF DEInit, NoEntries
<1>2. DETypeOK
  BY <1>1, NoEntriesType, DedupAssumption, ChainAssumption DEF DETypeOK
<1>. QED BY <1>1, <1>2 DEF DedupInv, PassesRecorded, SweepsTimely

\* What the types and the two parts of the invariant say point by point.
LEMMA DedupFacts ==
    ASSUME DETypeOK
    PROVE  /\ MaxLag \in Nat /\ DedupTTL \in Nat \ {0} /\ MaxLag < DedupTTL
           /\ entries \in MapsTo(-Linger - 1 .. DedupTTL)
           /\ DOMAIN entries \subseteq Keys
           /\ \A k \in DOMAIN entries :
                 entries[k] \in Int /\ entries[k] >= -Linger - 1 /\ entries[k] <= DedupTTL
           /\ \A k \in Keys : sincePass[k] \in 0 .. DedupTTL
           /\ sinceFire \in Nat /\ sinceFire <= DedupTTL + MaxLag
           /\ sweepAge # NoSweep => sweepAge \in 0 .. MaxLag
           /\ Linger = DedupTTL + 2 * MaxLag
<1>1. /\ DOMAIN entries \subseteq Keys
      /\ \A k \in DOMAIN entries : entries[k] \in -Linger - 1 .. DedupTTL
  BY Maps DEF DETypeOK
<1>. QED BY <1>1, DedupAssumption, ChainAssumption DEF DETypeOK, Linger

\* No sweep is needed for what time does to the entries: every one is still
\* there, with a tick less.
LEMMA DETickInv ==
    ASSUME DedupInv, DEMayTick, DETick
    PROVE  DedupInv'
<1>. USE DedupFacts DEF DedupInv, NoSweep
<1>1. /\ DOMAIN entries' = DOMAIN entries
      /\ \A k \in DOMAIN entries :
            entries'[k] = IF entries[k] < -Linger THEN entries[k] ELSE entries[k] - 1
      /\ entries' = [k \in DOMAIN entries |-> entries'[k]]
  BY DEF DETick
<1>2. \A k \in DOMAIN entries : entries[k] >= -Linger
  BY DEF SweepsTimely, DEMayTick
<1>3. \A k \in DOMAIN entries : entries'[k] = entries[k] - 1
  BY <1>1, <1>2
<1>4. entries' \in MapsTo(-Linger - 1 .. DedupTTL)
  <2>1. \A k \in DOMAIN entries : entries'[k] \in -Linger - 1 .. DedupTTL
    BY <1>2, <1>3
  <2>. QED BY <1>1, <2>1, Maps
<1>5. /\ \A k \in Keys : sincePass'[k] = IF sincePass[k] = DedupTTL THEN DedupTTL
                                                               ELSE sincePass[k] + 1
      /\ sincePass' \in [Keys -> 0 .. DedupTTL]
  BY DEF DETick
<1>6. /\ sinceFire' = sinceFire + 1 /\ sinceFire < DedupTTL + MaxLag
      /\ sweepAge < MaxLag
      /\ sweepAge' = IF sweepAge = -1 THEN -1 ELSE sweepAge + 1
  BY DEF DETick, DEMayTick
<1>7. DETypeOK'
  BY <1>4, <1>5, <1>6 DEF DETypeOK, Linger
<1>8. PassesRecorded'
  <2>. SUFFICES ASSUME NEW k \in Keys
                PROVE  sincePass'[k] = IF k \in DOMAIN entries /\ entries'[k] > 0
                                       THEN DedupTTL - entries'[k] ELSE DedupTTL
    BY <1>1 DEF PassesRecorded
  <2>1. sincePass[k] = IF k \in DOMAIN entries /\ entries[k] > 0
                       THEN DedupTTL - entries[k] ELSE DedupTTL
    BY DEF PassesRecorded
  <2>2. CASE k \in DOMAIN entries /\ entries[k] > 0
    <3>1. entries'[k] = entries[k] - 1 /\ sincePass[k] # DedupTTL
      BY <1>3, <2>1, <2>2
    <3>2. sincePass'[k] = sincePass[k] + 1
      BY <1>5, <3>1
    <3>. QED BY <2>1, <2>2, <3>1, <3>2
  <2>3. CASE ~(k \in DOMAIN entries /\ entries[k] > 0)
    <3>1. ~(k \in DOMAIN entries /\ entries'[k] > 0)
      BY <1>3, <2>3
    <3>2. sincePass'[k] = DedupTTL
      BY <1>5, <2>1, <2>3
    <3>. QED BY <3>1, <3>2
  <2>. QED BY <2>2, <2>3
<1>9. SweepsTimely'
  <2>1. CASE sweepAge = -1
    BY <1>1, <1>3, <1>6, <2>1 DEF SweepsTimely
  <2>2. CASE sweepAge # -1
    <3>1. /\ sweepAge \in Nat /\ sweepAge' = sweepAge + 1 /\ sweepAge' # -1
          /\ sinceFire' = sinceFire + 1
      BY <1>6, <2>2
    <3>2. sweepAge <= sinceFire /\ sinceFire <= sweepAge + MaxLag
      BY <2>2 DEF SweepsTimely
    <3>3. ASSUME NEW k \in DOMAIN entries
          PROVE  entries'[k] >= -(sinceFire' + DedupTTL)
      <4>1. entries[k] >= -(sinceFire + DedupTTL) /\ entries'[k] = entries[k] - 1
        BY <1>3, <2>2, <3>3 DEF SweepsTimely
      <4>. QED BY <3>1, <3>3, <4>1
    <3>. QED BY <1>1, <3>1, <3>2, <3>3 DEF SweepsTimely
  <2>. QED BY <2>1, <2>2
<1>. QED BY <1>7, <1>8, <1>9

LEMMA AcceptInv ==
    ASSUME ChainTypeOK, DedupInv, NEW r \in Requests, Accept(r)
    PROVE  DedupInv'
<1>. USE DedupFacts DEF DedupInv, NoSweep
<1>1. key[r] \in Keys
  BY DEF ChainTypeOK
<1>2. /\ entries' \in MapsTo(-Linger - 1 .. DedupTTL)
      /\ DOMAIN entries' = DOMAIN entries \cup {key[r]}
      /\ \A k \in DOMAIN entries \cup {key[r]} :
            entries'[k] = IF k = key[r] THEN DedupTTL ELSE entries[k]
  <2>. DEFINE Times == -Linger - 1 .. DedupTTL
  <2>1. entries' = Insert(entries, key[r], DedupTTL)
    BY DEF Accept
  <2>2. DedupTTL \in Times
    <3>1. Linger \in Nat
      OBVIOUS
    <3>. QED BY <3>1
  <2>3. entries \in MapsTo(Times)
    OBVIOUS
  <2>4. Insert(entries, key[r], DedupTTL) \in MapsTo(Times)
    <3>. HIDE DEF Times
    <3>. QED BY ONLY <1>1, <2>2, <2>3, InsertType, Zenon
  <2>5. /\ DOMAIN entries' = DOMAIN entries \cup {key[r]}
        /\ \A k \in DOMAIN entries \cup {key[r]} :
              entries'[k] = IF k = key[r] THEN DedupTTL ELSE entries[k]
    BY ONLY <2>1 DEF Insert
  <2>. QED BY <2>1, <2>4, <2>5
<1>3. /\ \A k \in Keys : sincePass'[k] = IF k = key[r] THEN 0 ELSE sincePass[k]
      /\ sincePass' \in [Keys -> 0 .. DedupTTL]
  BY <1>1 DEF Accept, DETypeOK
<1>4. sinceFire' = sinceFire /\ sweepAge' = sweepAge
  BY DEF Accept
<1>5. DETypeOK'
  BY <1>2, <1>3, <1>4 DEF DETypeOK, Linger
<1>6. PassesRecorded'
  <2>. SUFFICES ASSUME NEW k \in Keys
                PROVE  sincePass'[k] = IF k \in DOMAIN entries' /\ entries'[k] > 0
                                       THEN DedupTTL - entries'[k] ELSE DedupTTL
    BY DEF PassesRecorded
  <2>1. sincePass[k] = IF k \in DOMAIN entries /\ entries[k] > 0
                       THEN DedupTTL - entries[k] ELSE DedupTTL
    BY DEF PassesRecorded
  <2>. QED BY <1>2, <1>3, <2>1
<1>7. SweepsTimely'
  BY <1>2, <1>4 DEF SweepsTimely
<1>. QED BY <1>5, <1>6, <1>7

LEMMA ReadClockInv ==
    ASSUME DedupInv, ReadClock
    PROVE  DedupInv'
<1>. USE DedupFacts DEF DedupInv, NoSweep
<1>1. /\ sweepAge = -1 /\ sinceFire >= DedupTTL
      /\ sinceFire' = sinceFire - DedupTTL /\ sweepAge' = 0
      /\ entries' = entries /\ sincePass' = sincePass
  BY DEF ReadClock, TickerFired
<1>2. DETypeOK'
  BY <1>1 DEF DETypeOK, Linger
<1>3. PassesRecorded'
  BY <1>1 DEF PassesRecorded
<1>4. SweepsTimely'
  BY <1>1 DEF SweepsTimely
<1>. QED BY <1>2, <1>3, <1>4

LEMMA SweepInv ==
    ASSUME DedupInv, Sweep
    PROVE  DedupInv'
<1>. USE DedupFacts DEF DedupInv, NoSweep
<1>1. /\ sweepAge # -1 /\ sweepAge' = -1
      /\ sinceFire' = sinceFire /\ sincePass' = sincePass
  BY DEF Sweep
<1>. DEFINE gone == {k \in DOMAIN entries : Lapsed(k)}
<1>2. /\ entries' \in MapsTo(-Linger - 1 .. DedupTTL)
      /\ DOMAIN entries' = DOMAIN entries \ gone
      /\ \A k \in DOMAIN entries \ gone : entries'[k] = entries[k]
  <2>. DEFINE Times == -Linger - 1 .. DedupTTL
  <2>1. entries' = Remove(entries, gone) /\ entries \in MapsTo(Times)
    BY DEF Sweep
  <2>2. /\ Remove(entries, gone) \in MapsTo(Times)
        /\ DOMAIN Remove(entries, gone) = DOMAIN entries \ gone
        /\ \A k \in DOMAIN entries \ gone : Remove(entries, gone)[k] = entries[k]
    <3>. HIDE DEF gone, Times
    <3>1. entries \in MapsTo(Times)
      BY <2>1
    <3>. QED BY ONLY <3>1, RemoveType, Zenon
  <2>. QED BY <2>1, <2>2
<1>3. DETypeOK'
  BY <1>1, <1>2 DEF DETypeOK, Linger
<1>4. PassesRecorded'
  <2>. SUFFICES ASSUME NEW k \in Keys
                PROVE  sincePass[k] = IF k \in DOMAIN entries' /\ entries'[k] > 0
                                      THEN DedupTTL - entries'[k] ELSE DedupTTL
    BY <1>1 DEF PassesRecorded
  <2>1. sincePass[k] = IF k \in DOMAIN entries /\ entries[k] > 0
                       THEN DedupTTL - entries[k] ELSE DedupTTL
    BY DEF PassesRecorded
  <2>2. k \in gone => entries[k] < 0
    BY <1>1 DEF Lapsed
  <2>. QED BY <1>2, <2>1, <2>2
<1>5. SweepsTimely'
  <2>1. \A k \in DOMAIN entries' : entries'[k] = entries[k] /\ entries[k] + sweepAge >= 0
    BY <1>1, <1>2 DEF Lapsed
  <2>2. sweepAge <= sinceFire
    BY <1>1 DEF SweepsTimely
  <2>. QED BY <1>1, <1>2, <2>1, <2>2 DEF SweepsTimely
<1>. QED BY <1>3, <1>4, <1>5

LEMMA DedupSwept == DedupInv => EntriesSwept
BY DedupFacts DEF DedupInv, SweepsTimely, EntriesSwept, NoSweep

-----------------------------------------------------------------------------
(***************************************************************************)
(* Cached responses.                                                       *)
(***************************************************************************)
LEMMA CacheFacts ==
    ASSUME RCTypeOK
    PROVE  /\ MaxLag \in Nat /\ CacheTTL \in Nat
           /\ DOMAIN cache \subseteq Keys
           /\ \A k \in DOMAIN cache :
                 /\ cache[k] = [left |-> cache[k].left, age |-> cache[k].age]
                 /\ cache[k].left \in -1 .. CacheTTL
                 /\ cache[k].age \in 0 .. CacheTTL + MaxLag + 1
           /\ \A r \in Requests :
                 response[r] # None => response[r] \in 0 .. MaxLag
<1>1. /\ DOMAIN cache \subseteq Keys
      /\ \A k \in DOMAIN cache : cache[k] \in [left : -1 .. CacheTTL, age : 0 .. Aged]
  BY Maps DEF RCTypeOK
<1>2. \A k \in DOMAIN cache : cache[k].age \in 0 .. Aged /\ cache[k].left \in -1 .. CacheTTL
  BY <1>1
<1>. QED BY <1>1, <1>2, CacheAssumption, ChainAssumption DEF RCTypeOK, Aged, Oldest

LEMMA InitCacheInv == ChainInit /\ RCInit => CacheInv
<1>. SUFFICES ASSUME ChainInit, RCInit PROVE CacheInv
  OBVIOUS
<1>1. cache = NoEntries /\ DOMAIN cache = {} /\ response = [r \in Requests |-> None]
  BY DEF RCInit, NoEntries
<1>2. RCTypeOK
  BY <1>1, NoEntriesType DEF RCTypeOK
<1>3. ResponsesRecorded
  BY DEF ChainInit, ResponsesRecorded
<1>. QED BY <1>1, <1>2, <1>3 DEF CacheInv, AgesBounded

\* An entry of the cache after a tick.
LEMMA Aging ==
    ASSUME NEW c \in [left : Int, age : Int], NEW d,
           d = [c EXCEPT !.left = IF @ = -1 THEN -1 ELSE @ - 1,
                         !.age = IF @ = Aged THEN Aged ELSE @ + 1]
    PROVE  /\ d.left = (IF c.left = -1 THEN -1 ELSE c.left - 1)
           /\ d.age = (IF c.age = Aged THEN Aged ELSE c.age + 1)
           /\ d = [left |-> d.left, age |-> d.age]
OBVIOUS

LEMMA RCTickInv ==
    ASSUME CacheInv, RCMayTick, RCTick, stage' = stage
    PROVE  CacheInv'
<1>. USE CacheFacts DEF CacheInv
<1>1. /\ DOMAIN cache' = DOMAIN cache
      /\ cache' = [k \in DOMAIN cache |-> cache'[k]]
      /\ \A k \in DOMAIN cache :
            /\ cache'[k].left = (IF cache[k].left = -1 THEN -1 ELSE cache[k].left - 1)
            /\ cache'[k].age = (IF cache[k].age = Aged THEN Aged ELSE cache[k].age + 1)
            /\ cache'[k] = [left |-> cache'[k].left, age |-> cache'[k].age]
  <2>1. ASSUME NEW k \in DOMAIN cache
        PROVE  /\ cache'[k].left = (IF cache[k].left = -1 THEN -1 ELSE cache[k].left - 1)
               /\ cache'[k].age = (IF cache[k].age = Aged THEN Aged ELSE cache[k].age + 1)
               /\ cache'[k] = [left |-> cache'[k].left, age |-> cache'[k].age]
    <3>1. cache[k] \in [left : Int, age : Int]
      OBVIOUS
    <3>2. cache'[k] = [cache[k] EXCEPT !.left = IF @ = -1 THEN -1 ELSE @ - 1,
                                       !.age = IF @ = Aged THEN Aged ELSE @ + 1]
      BY DEF RCTick
    <3>. QED BY ONLY <3>1, <3>2, Aging
  <2>2. DOMAIN cache' = DOMAIN cache /\ cache' = [k \in DOMAIN cache |-> cache'[k]]
    BY DEF RCTick
  <2>. QED BY <2>1, <2>2
<1>2. /\ \A r \in Requests :
            response'[r] = IF response[r] = -1 THEN -1 ELSE response[r] + 1
      /\ response' = [r \in Requests |-> response'[r]]
      /\ \A r \in Requests : response[r] < MaxLag
  BY DEF RCTick, RCMayTick, None
<1>3. cache' \in MapsTo([left : -1 .. CacheTTL, age : 0 .. Aged])
  <2>1. ASSUME NEW k \in DOMAIN cache
        PROVE  cache'[k] \in [left : -1 .. CacheTTL, age : 0 .. Aged]
    <3>1. cache'[k].left \in -1 .. CacheTTL /\ cache'[k].age \in 0 .. Aged
      BY <1>1 DEF Aged, Oldest
    <3>. QED BY <1>1, <3>1
  <2>. QED BY <1>1, <2>1, Maps
<1>4. response' \in [Requests -> {None} \cup 0 .. MaxLag]
  BY <1>2 DEF None
<1>5. AgesBounded'
  <2>. SUFFICES ASSUME NEW k \in DOMAIN cache, cache'[k].left >= 0
                PROVE  cache'[k].age <= CacheTTL - cache'[k].left + MaxLag
    BY <1>1 DEF AgesBounded
  <2>1. cache[k].left >= 0 => cache[k].age <= CacheTTL - cache[k].left + MaxLag
    BY DEF AgesBounded
  <2>. QED BY <1>1, <2>1 DEF Aged, Oldest
<1>6. ResponsesRecorded'
  BY <1>2 DEF ResponsesRecorded, None
<1>. QED BY <1>3, <1>4, <1>5, <1>6 DEF RCTypeOK, Aged, Oldest

\* A step of another middleware takes no request to "recorded".
LEMMA OutsideCache ==
    ASSUME ChainTypeOK, CacheInv, UNCHANGED rcVars,
           NEW r \in Requests, NEW s \in Stages \ {"recorded"}, Moves(r, s)
    PROVE  CacheInv'
<1>1. cache' = cache /\ response' = response
  BY DEF rcVars
<1>2. \A q \in Requests : stage'[q] = IF q = r THEN s ELSE stage[q]
  BY DEF ChainTypeOK, Moves
<1>3. ResponsesRecorded'
  BY <1>1, <1>2 DEF CacheInv, ResponsesRecorded
<1>. QED BY <1>1, <1>3 DEF CacheInv, RCTypeOK, AgesBounded, Aged, Oldest

LEMMA ReturnInv ==
    ASSUME ChainTypeOK, CacheInv, NEW r \in Requests, NEW ok \in BOOLEAN, Return(r, ok)
    PROVE  CacheInv' /\ stage[r] = "handling" /\ (Goto(r, "recorded") \/ Goto(r, "idle"))
<1>1. stage[r] = "handling" /\ cache' = cache
  BY DEF Return
<1>2. CASE ok /\ cacheable[r]
  <2>1. response' = [response EXCEPT ![r] = 0] /\ Goto(r, "recorded")
    BY <1>2 DEF Return
  <2>2. \A q \in Requests : stage'[q] = IF q = r THEN "recorded" ELSE stage[q]
    BY <2>1, GotoMoves DEF Stages
  <2>3. response' \in [Requests -> {None} \cup 0 .. MaxLag]
    BY <2>1, ChainAssumption DEF CacheInv, RCTypeOK
  <2>4. \A q \in Requests : response'[q] = IF q = r THEN 0 ELSE response[q]
    BY <2>1 DEF CacheInv, RCTypeOK
  <2>5. ResponsesRecorded'
    BY <2>2, <2>4 DEF CacheInv, ResponsesRecorded, None
  <2>. QED BY <1>1, <2>1, <2>3, <2>5 DEF CacheInv, RCTypeOK, AgesBounded, Aged, Oldest
<1>3. CASE ~(ok /\ cacheable[r])
  <2>1. UNCHANGED rcVars /\ Goto(r, "idle")
    BY <1>1, <1>3 DEF Return, rcVars
  <2>2. Moves(r, "idle")
    BY <2>1, GotoMoves DEF Stages
  <2>. QED BY <1>1, <2>1, <2>2, OutsideCache DEF Stages
<1>. QED BY <1>2, <1>3

LEMMA RecordInv ==
    ASSUME ChainTypeOK, CacheInv, NEW r \in Requests, Record(r)
    PROVE  CacheInv'
<1>. USE CacheFacts
<1>. DEFINE entry == [left |-> CacheTTL, age |-> response[r]]
            Entries == [left : -1 .. CacheTTL, age : 0 .. Aged]
<1>1. stage[r] = "recorded" /\ key[r] \in Keys
  BY DEF Record, ChainTypeOK
<1>2. response[r] \in 0 .. MaxLag
  BY <1>1 DEF CacheInv, ResponsesRecorded
<1>3. entry \in Entries
  BY <1>2 DEF CacheInv, Aged, Oldest
<1>4. /\ cache' \in MapsTo(Entries)
      /\ DOMAIN cache' = DOMAIN cache \cup {key[r]}
      /\ \A k \in DOMAIN cache \cup {key[r]} :
            cache'[k] = IF k = key[r] THEN entry ELSE cache[k]
  <2>1. cache \in MapsTo(Entries) /\ cache' = Insert(cache, key[r], entry)
    BY DEF CacheInv, RCTypeOK, Record
  <2>2. Insert(cache, key[r], entry) \in MapsTo(Entries)
    <3>. HIDE DEF entry, Entries
    <3>. QED BY ONLY <1>1, <1>3, <2>1, InsertType, Zenon
  <2>3. /\ DOMAIN cache' = DOMAIN cache \cup {key[r]}
        /\ \A k \in DOMAIN cache \cup {key[r]} :
              cache'[k] = IF k = key[r] THEN entry ELSE cache[k]
    BY ONLY <2>1 DEF Insert
  <2>. QED BY <2>1, <2>2, <2>3
<1>5. /\ response' \in [Requests -> {None} \cup 0 .. MaxLag]
      /\ \A q \in Requests : response'[q] = IF q = r THEN None ELSE response[q]
  BY DEF Record, CacheInv, RCTypeOK
<1>6. \A q \in Requests : stage'[q] = IF q = r THEN "idle" ELSE stage[q]
  BY GotoMoves DEF Record, Stages
<1>7. AgesBounded'
  BY <1>2, <1>4 DEF CacheInv, AgesBounded
<1>8. ResponsesRecorded'
  BY <1>5, <1>6 DEF CacheInv, ResponsesRecorded
<1>. QED BY <1>4, <1>5, <1>7, <1>8 DEF CacheInv, RCTypeOK, Aged, Oldest

LEMMA DeleteInv ==
    ASSUME CacheInv, NEW k \in Keys, Delete(k)
    PROVE  CacheInv'
<1>. DEFINE Entries == [left : -1 .. CacheTTL, age : 0 .. Aged]
<1>1. /\ cache' \in MapsTo(Entries)
      /\ DOMAIN cache' = DOMAIN cache \ {k}
      /\ \A x \in DOMAIN cache \ {k} : cache'[x] = cache[x]
  <2>1. cache \in MapsTo(Entries) /\ cache' = Remove(cache, {k})
    BY DEF CacheInv, RCTypeOK, Delete
  <2>. HIDE DEF Entries
  <2>. QED BY <2>1, RemoveType
<1>2. response' = response /\ stage' = stage
  BY DEF Delete, chainVars
<1>. QED BY <1>1, <1>2 DEF CacheInv, RCTypeOK, AgesBounded, ResponsesRecorded, Aged, Oldest

-----------------------------------------------------------------------------
(***************************************************************************)
(* The three middlewares in one chain.                                     *)
(***************************************************************************)
LEMMA InitWorkInv == Init => WorkInv
<1>. SUFFICES ASSUME Init PROVE WorkInv
  OBVIOUS
<1>1. ChainTypeOK
  BY Zenon DEF Init, ChainInit, ChainTypeOK, Stages
<1>2. inflight = NoEntries /\ DOMAIN inflight = {} /\ waitsFor = [r \in Requests |-> r]
      /\ stage = [r \in Requests |-> "idle"]
  BY DEF Init, COInit, ChainInit, NoEntries
<1>3. CoalescingInv
  BY <1>2, NoEntriesType DEF CoalescingInv, COTypeOK, CallsAccounted
<1>. QED BY <1>1, <1>3, InitDedupInv, InitCacheInv DEF Init, WorkInv

LEMMA DedupStutters == DedupInv /\ UNCHANGED deVars => DedupInv'
BY DEF DedupInv, DETypeOK, PassesRecorded, SweepsTimely, Linger, deVars

LEMMA StepInv ==
    ASSUME WorkInv, NEW r \in Requests, Step(r)
    PROVE  WorkInv'
<1>. USE DEF WorkInv
<1>1. CASE Coalesced(r)
  <2>1. COStep(r) /\ UNCHANGED deVars /\ UNCHANGED rcVars
    BY <1>1 DEF Coalesced
  <2>2. PICK s \in Stages \ {"recorded"} : Goto(r, s)
    BY <2>1, COStepInv
  <2>3. ChainTypeOK' /\ Moves(r, s)
    BY <2>2, GotoMoves
  <2>4. CoalescingInv'
    BY <2>1, COStepInv
  <2>5. CacheInv'
    BY <2>1, <2>3, OutsideCache
  <2>. QED BY <2>1, <2>3, <2>4, <2>5, DedupStutters
<1>2. CASE Cached(r)
  <2>1. RCStep(r) /\ UNCHANGED coVars /\ UNCHANGED deVars
    BY <1>2 DEF Cached
  <2>2. CASE Bypass(r) \/ Hit(r) \/ Miss(r)
    <3>1. stage[r] = "lookup" /\ UNCHANGED rcVars /\ (Goto(r, "check") \/ Goto(r, "idle"))
      BY <2>2 DEF Bypass, Hit, Miss
    <3>2. PICK s \in {"check", "idle"} : Goto(r, s)
      BY <3>1
    <3>3. s \in Stages \ {"calling", "called", "recorded"}
      BY DEF Stages
    <3>4. ChainTypeOK' /\ Moves(r, s)
      BY <3>2, <3>3, GotoMoves
    <3>5. CoalescingInv'
      BY <2>1, <3>1, <3>3, <3>4, OutsideCalls DEF InCall
    <3>6. CacheInv'
      BY <3>1, <3>3, <3>4, OutsideCache
    <3>. QED BY <2>1, <3>4, <3>5, <3>6, DedupStutters
  <2>3. CASE Record(r)
    <3>1. stage[r] = "recorded" /\ Goto(r, "idle")
      BY <2>3 DEF Record
    <3>2. ChainTypeOK' /\ Moves(r, "idle")
      BY <3>1, GotoMoves DEF Stages
    <3>3. CoalescingInv'
      BY <2>1, <3>1, <3>2, OutsideCalls DEF InCall, Stages
    <3>. QED BY <2>1, <2>3, <3>2, <3>3, RecordInv, DedupStutters
  <2>4. CASE \E ok \in BOOLEAN : Return(r, ok)
    <3>1. CacheInv' /\ stage[r] = "handling" /\ (Goto(r, "recorded") \/ Goto(r, "idle"))
      BY <2>4, ReturnInv
    <3>2. PICK s \in {"recorded", "idle"} : Goto(r, s)
      BY <3>1
    <3>3. s \in Stages \ {"calling", "called"}
      BY DEF Stages
    <3>4. ChainTypeOK' /\ Moves(r, s)
      BY <3>2, <3>3, GotoMoves
    <3>5. CoalescingInv'
      BY <2>1, <3>1, <3>3, <3>4, OutsideCalls DEF InCall
    <3>. QED BY <2>1, <3>1, <3>4, <3>5, DedupStutters
  <2>. QED BY <2>1, <2>2, <2>3, <2>4 DEF RCStep
<1>3. CASE Deduplicated(r)
  <2>1. (Accept(r) \/ Duplicate(r)) /\ UNCHANGED coVars /\ UNCHANGED rcVars
    BY <1>3 DEF Deduplicated
  <2>2. stage[r] = "check" /\ (Goto(r, "handling") \/ Goto(r, "idle"))
    BY <2>1 DEF Accept, Duplicate
  <2>3. PICK s \in {"handling", "idle"} : Goto(r, s)
    BY <2>2
  <2>4. s \in Stages \ {"calling", "called", "recorded"}
    BY DEF Stages
  <2>5. ChainTypeOK' /\ Moves(r, s)
    BY <2>3, <2>4, GotoMoves
  <2>6. CoalescingInv'
    BY <2>1, <2>2, <2>4, <2>5, OutsideCalls DEF InCall
  <2>7. CacheInv'
    BY <2>1, <2>4, <2>5, OutsideCache
  <2>8. DedupInv'
    BY <2>1, AcceptInv, DedupStutters DEF Duplicate
  <2>. QED BY <2>5, <2>6, <2>7, <2>8
<1>. QED BY <1>1, <1>2, <1>3 DEF Step

LEMMA ChainStutters ==
    ASSUME ChainTypeOK, CoalescingInv, UNCHANGED <<chainVars, coVars>>
    PROVE  ChainTypeOK' /\ CoalescingInv'
BY DEF ChainTypeOK, CoalescingInv, COTypeOK, CallsAccounted, chainVars, coVars

LEMMA WorkStep == WorkInv /\ [Next]_vars => WorkInv'
<1>. SUFFICES ASSUME WorkInv, [Next]_vars PROVE WorkInv'
  OBVIOUS
<1>. USE DEF WorkInv
<1>1. ASSUME UNCHANGED rcVars, stage' = stage PROVE CacheInv'
  BY <1>1 DEF CacheInv, RCTypeOK, AgesBounded, ResponsesRecorded, Aged, Oldest, rcVars
<1>2. CASE Tick
  BY <1>2, DETickInv, RCTickInv, ChainStutters DEF Tick, chainVars
<1>3. CASE Evict /\ UNCHANGED <<chainVars, coVars, rcVars>>
  BY <1>1, <1>3, ReadClockInv, SweepInv, ChainStutters DEF Evict, chainVars
<1>4. CASE \E k \in Keys : Delete(k) /\ UNCHANGED <<coVars, deVars>>
  BY <1>4, DeleteInv, DedupStutters, ChainStutters DEF Delete
<1>5. ASSUME NEW r \in Requests, Arrive(r) PROVE WorkInv'
  <2>1. stage[r] = "idle" /\ UNCHANGED coVars /\ UNCHANGED deVars /\ UNCHANGED rcVars
    BY <1>5 DEF Arrive
  <2>2. ChainTypeOK' /\ Moves(r, "arrived")
    BY <1>5, ArriveMoves
  <2>3. CoalescingInv'
    BY <2>1, <2>2, OutsideCalls DEF Stages, InCall
  <2>4. CacheInv'
    BY <2>1, <2>2, OutsideCache DEF Stages
  <2>. QED BY <2>1, <2>2, <2>3, <2>4, DedupStutters
<1>6. ASSUME NEW r \in Requests, Step(r) PROVE WorkInv'
  BY <1>6, StepInv
<1>7. CASE UNCHANGED vars
  BY <1>1, <1>7, DedupStutters, ChainStutters DEF vars, chainVars
<1>. QED BY <1>2, <1>3, <1>4, <1>5, <1>6, <1>7 DEF Next

LEMMA WorkInvariant == Spec => []WorkInv
BY InitWorkInv, WorkStep, PTL DEF Spec

-----------------------------------------------------------------------------
\* The middlewares keep their variables in their types.
THEOREM SharedWorkTypes == Spec => []TypeOK
<1>1. WorkInv => TypeOK
  BY DEF WorkInv, TypeOK, CoalescingInv, DedupInv, CacheInv
<1>. QED BY <1>1, WorkInvariant, PTL

\* CoalescingGroup.Do: however many requests share keys, the registered calls
\* are those under way, and nobody waits for a call that is over.
THEOREM CallsAlwaysAccounted == Spec => []CallsAccounted
<1>1. WorkInv => CallsAccounted
  BY DEF WorkInv, CoalescingInv
<1>. QED BY <1>1, WorkInvariant, PTL

\* DedupStore.evict: the map forgets what is over, for any TTL and any delays
\* of the evictor shorter than it.
THEOREM EntriesAlwaysSwept == Spec => []EntriesSwept
<1>1. WorkInv => EntriesSwept
  BY DedupSwept DEF WorkInv
<1>. QED BY <1>1, WorkInvariant, PTL

\* DedupStore.IsDuplicate: a fingerprint passes once in a TTL and is turned
\* away only within it, although sweeps use clock readings of the past.
THEOREM PassesOncePerTTL == Spec => OncePerTTL
<1>1. ASSUME WorkInv, NEW r \in Requests
      PROVE  /\ Accept(r) => sincePass[key[r]] = DedupTTL
             /\ Duplicate(r) => sincePass[key[r]] < DedupTTL
  <2>1. key[r] \in Keys
    BY <1>1 DEF WorkInv, ChainTypeOK
  <2>2. sincePass[key[r]] = IF IsDuplicate(key[r])
                            THEN DedupTTL - entries[key[r]] ELSE DedupTTL
    BY <1>1, <2>1 DEF WorkInv, DedupInv, PassesRecorded, IsDuplicate
  <2>. QED BY <1>1, <2>2, DedupFacts DEF WorkInv, DedupInv, Accept, Duplicate, IsDuplicate
<1>2. WorkInv => [\A r \in Requests :
                     /\ Accept(r) => sincePass[key[r]] = DedupTTL
                     /\ Duplicate(r) => sincePass[key[r]] < DedupTTL]_<<chainVars, deVars>>
  BY <1>1
<1>. QED BY <1>2, WorkInvariant, PTL DEF OncePerTTL

\* ResponseCache.Get: no hit is older than the TTL and the delay of its Set.
THEOREM HitsAlwaysRecent == Spec => HitsRecent
<1>1. ASSUME WorkInv, NEW r \in Requests, Hit(r)
      PROVE  cache[key[r]].age <= Oldest
  <2>1. key[r] \in DOMAIN cache /\ cache[key[r]].left >= 0
    BY <1>1 DEF Hit, Found
  <2>2. cache[key[r]].age <= CacheTTL - cache[key[r]].left + MaxLag
    BY <1>1, <2>1 DEF WorkInv, CacheInv, AgesBounded
  <2>. QED BY <1>1, <2>1, <2>2, CacheFacts DEF WorkInv, CacheInv, Oldest
<1>2. WorkInv => [\A r \in Requests :
                     Hit(r) => cache[key[r]].age <= Oldest]_<<chainVars, rcVars>>
  BY <1>1
<1>. QED BY <1>2, WorkInvariant, PTL DEF HitsRecent
=============================================================================
