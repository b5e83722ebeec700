------------------------------- MODULE Chain --------------------------------
(***************************************************************************)
(* A chain of middlewares as the goroutines that serve requests go through *)
(* it: which request is at which step of which middleware, and the key its *)
(* key functions gave it.                                                  *)
(*                                                                         *)
(* Time is kept as ages and remaining times, so that it may go on forever. *)
(***************************************************************************)
EXTENDS Integers

CONSTANTS
    Requests,   \* goroutines that serve requests, one after another
    Keys,       \* what the key functions return
    MaxLag      \* a goroutine is delayed at most this long where stated

ASSUME ChainAssumption == MaxLag \in Nat

VARIABLES
    stage,      \* stage[r]: where r's request is
    key,        \* key[r]: its key
    cacheable   \* cacheable[r]: r serves a GET request

chainVars == <<stage, key, cacheable>>

Stages == {"idle", "arrived", "calling", "called", "waiting",   \* coalescing
           "lookup",                                            \* cache
           "check",                                             \* dedup
           "handling", "recorded"}                              \* handler

ChainTypeOK ==
    /\ stage \in [Requests -> Stages]
    /\ key \in [Requests -> Keys]
    /\ cacheable \in [Requests -> BOOLEAN]

ChainInit ==
    /\ stage = [r \in Requests |-> "idle"]
    /\ key \in [Requests -> Keys]
    /\ cacheable = [r \in Requests |-> FALSE]

\* r goes on to the step s; nothing is left of a request that is answered.
Goto(r, s) ==
    /\ stage' = [stage EXCEPT ![r] = s]
    /\ cacheable' = [cacheable EXCEPT ![r] = @ /\ s # "idle"]
    /\ UNCHANGED key

\* The Go map m after m[k] = v, and after delete(m, k).
Insert(m, k, v) == [x \in DOMAIN m \cup {k} |-> IF x = k THEN v ELSE m[x]]
Remove(m, ks) == [x \in DOMAIN m \ ks |-> m[x]]

\* The Go maps from keys to values in V.
MapsTo(V) == UNION {[D -> V] : D \in SUBSET Keys}
NoEntries == [x \in {} |-> 0]
=============================================================================
