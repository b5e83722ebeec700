--------------------------- MODULE ResponseCache ----------------------------
(***************************************************************************)
(* ResponseCache and WithResponseCache (response_cache.go).  A GET request *)
(* looks its key up, and after a miss records the handler's response and,  *)
(* if its status is 200, stores it; the handler runs without the lock.     *)
(* Nothing removes an entry whose time is over but a Delete or a new Set.  *)
(***************************************************************************)
EXTENDS Chain

CONSTANT CacheTTL   \* c.ttl

ASSUME CacheAssumption == CacheTTL \in Nat

VARIABLES
    cache,      \* c.entries: the time each entry has left, -1 if it is over,
                \* and the age of the response in it, up to Aged
    response    \* response[r]: age of the response that r recorded, or None

rcVars == <<cache, response>>

None == -1

\* A response is stored within MaxLag of the handler's return.
Oldest == CacheTTL + MaxLag
Aged == Oldest + 1

RCTypeOK ==
    /\ cache \in MapsTo([left : -1 .. CacheTTL, age : 0 .. Aged])
    /\ response \in [Requests -> {None} \cup 0 .. MaxLag]

RCInit ==
    /\ cache = NoEntries
    /\ response = [r \in Requests |-> None]

RCMayTick == \A r \in Requests : response[r] < MaxLag

RCTick ==
    /\ cache' = [k \in DOMAIN cache |->
                   [cache[k] EXCEPT !.left = IF @ = -1 THEN -1 ELSE @ - 1,
                                    !.age = IF @ = Aged THEN Aged ELSE @ + 1]]
    /\ response' = [r \in Requests |->
                      IF response[r] = None THEN None ELSE response[r] + 1]

\* Mutant: expiry is left to an evictor that the cache does not have.
FoundWhileKept(k) == k \in DOMAIN cache

Found(k) == k \in DOMAIN cache /\ cache[k].left >= 0

\* Not a GET: straight to the next handler.
Bypass(r) ==
    /\ stage[r] = "lookup"
    /\ ~cacheable[r]
    /\ Goto(r, "check")
    /\ UNCHANGED rcVars

Hit(r) ==
    /\ stage[r] = "lookup"
    /\ cacheable[r]
    /\ Found(key[r])
    /\ Goto(r, "idle")
    /\ UNCHANGED rcVars

Miss(r) ==
    /\ stage[r] = "lookup"
    /\ cacheable[r]
    /\ ~Found(key[r])
    /\ Goto(r, "check")
    /\ UNCHANGED rcVars

\* The handler returns: with status 200, or another one.
Return(r, ok) ==
    /\ stage[r] = "handling"
    /\ IF ok /\ cacheable[r]
       THEN /\ response' = [response EXCEPT ![r] = 0]
            /\ Goto(r, "recorded")
       ELSE /\ UNCHANGED response
            /\ Goto(r, "idle")
    /\ UNCHANGED cache

\* cache.Set, and the recorded response goes to the client.
Record(r) ==
    /\ stage[r] = "recorded"
    /\ cache' = Insert(cache, key[r], [left |-> CacheTTL, age |-> response[r]])
    /\ response' = [response EXCEPT ![r] = None]
    /\ Goto(r, "idle")

\* The user's cache.Delete, at any time.
Delete(k) ==
    /\ cache' = Remove(cache, {k})
    /\ UNCHANGED <<response, chainVars>>

RCStep(r) ==
    \/ Bypass(r) \/ Hit(r) \/ Miss(r) \/ Record(r)
    \/ \E ok \in BOOLEAN : Return(r, ok)

-----------------------------------------------------------------------------
(***************************************************************************)
(* The cache never serves a response older than its TTL and the delay with *)
(* which it was stored: whichever of several recorders of one key stores   *)
(* last, whatever was deleted or left in the map in the meantime.          *)
(***************************************************************************)
HitsRecent ==
    [][\A r \in Requests :
          Hit(r) => cache[key[r]].age <= Oldest]_<<chainVars, rcVars>>
=============================================================================
