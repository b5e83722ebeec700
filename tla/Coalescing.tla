----------------------------- MODULE Coalescing -----------------------------
(***************************************************************************)
(* CoalescingGroup.Do and WithRequestCoalescing (request_coalescing.go).   *)
(* The first request of a key registers a call, runs it without the mutex, *)
(* marks it done and, with the mutex again, unregisters it; a request that *)
(* finds a call waits for it, or not at all when it is done already.       *)
(* Afterwards every request goes on to the next handler.                   *)
(***************************************************************************)
EXTENDS Chain

VARIABLES
    inflight,   \* g.inflight: the leader of the call registered for a key
    waitsFor    \* waitsFor[r]: the leader of the call that r waits for, or r

coVars == <<inflight, waitsFor>>

COTypeOK ==
    /\ inflight \in MapsTo(Requests)
    /\ waitsFor \in [Requests -> Requests]

COInit ==
    /\ inflight = NoEntries
    /\ waitsFor = [r \in Requests |-> r]

\* The key function fails or returns no key: straight to the next handler.
Uncoalesced(r) ==
    /\ stage[r] = "arrived"
    /\ Goto(r, "lookup")
    /\ UNCHANGED coVars

Lead(r) ==
    /\ stage[r] = "arrived"
    /\ key[r] \notin DOMAIN inflight
    /\ inflight' = Insert(inflight, key[r], r)
    /\ Goto(r, "calling")
    /\ UNCHANGED waitsFor

\* The call is done between its leader's wg.Done and its removal.
Join(r) ==
    /\ stage[r] = "arrived"
    /\ key[r] \in DOMAIN inflight
    /\ LET leader == inflight[key[r]]
       IN  IF stage[leader] = "calling"
           THEN /\ waitsFor' = [waitsFor EXCEPT ![r] = leader]
                /\ Goto(r, "waiting")
           ELSE /\ UNCHANGED waitsFor
                /\ Goto(r, "lookup")
    /\ UNCHANGED inflight

\* wg.Done wakes whoever waits for r's call.
Released(r) == {w \in Requests : waitsFor[w] = r}

Complete(r) ==
    /\ stage[r] = "calling"
    /\ waitsFor' = [w \in Requests |->
                      IF w \in Released(r) THEN w ELSE waitsFor[w]]
    /\ Goto(r, "called")
    /\ UNCHANGED inflight

\* Mutant: the leader leaves its call in the map.
UnregisterForgotten(r) ==
    /\ stage[r] = "called"
    /\ Goto(r, "lookup")
    /\ UNCHANGED coVars

Unregister(r) ==
    /\ stage[r] = "called"
    /\ inflight' = Remove(inflight, {key[r]})
    /\ Goto(r, "lookup")
    /\ UNCHANGED waitsFor

Wake(r) ==
    /\ stage[r] = "waiting"
    /\ waitsFor[r] = r
    /\ Goto(r, "lookup")
    /\ UNCHANGED coVars

COStep(r) ==
    Uncoalesced(r) \/ Lead(r) \/ Join(r) \/ Complete(r) \/ Unregister(r) \/ Wake(r)

-----------------------------------------------------------------------------
(***************************************************************************)
(* The registered calls are those under way, one for each key and under    *)
(* the right key, whatever order leaders, followers and newcomers take the *)
(* mutex in; and a request that waits does so for a call of its own key    *)
(* which is still registered and has wg.Done ahead of it: no leader ends   *)
(* before its followers know, none removes another leader's call.          *)
(***************************************************************************)
CallsAccounted ==
    /\ \A k \in DOMAIN inflight :
          key[inflight[k]] = k /\ stage[inflight[k]] \in {"calling", "called"}
    /\ \A r \in Requests :
          /\ stage[r] \in {"calling", "called"}
               => key[r] \in DOMAIN inflight /\ inflight[key[r]] = r
          /\ waitsFor[r] # r
               => /\ stage[r] = "waiting"
                  /\ stage[waitsFor[r]] = "calling"
                  /\ key[waitsFor[r]] = key[r]
=============================================================================
