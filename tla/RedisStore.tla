----------------------------- MODULE RedisStore -----------------------------
(***************************************************************************)
(* RedisStore (redis_store.go): each operation is one Redis command or one *)
(* transaction, and so one step.  Redis treats a key as absent as soon as  *)
(* its time is over.  The clock ticks in seconds, as EXPIRE does.          *)
(***************************************************************************)
EXTENDS Integers

CONSTANTS
    Keys,
    Values,     \* what users Set a key to
    Lifetimes,  \* the windows and expiries users ask for
    MaxClock,   \* bound on the clock, for model checking
    MaxCount    \* bound on a counter's value, for model checking

VARIABLES
    clock,      \* Redis' clock
    redis,      \* the keys Redis holds, with the moment each expires
    reply       \* what the last operation returned

vars == <<clock, redis, reply>>

NoKey == [value |-> 0, till |-> -1]

Init ==
    /\ clock = 0
    /\ redis = [k \in Keys |-> NoKey]
    /\ reply = 0

Tick ==
    /\ clock < MaxClock
    /\ clock' = clock + 1
    /\ redis' = [k \in Keys |-> IF redis[k].till < clock' THEN NoKey
                                                         ELSE redis[k]]
    /\ UNCHANGED reply

Write(k, value, till) ==
    redis' = [redis EXCEPT ![k] = [value |-> value, till |-> till]]

\* MULTI INCR EXPIRE EXEC: the expiry is renewed with every increment.
Increment(k, window) ==
    /\ redis[k].value < MaxCount
    /\ Write(k, redis[k].value + 1, clock + window)
    /\ reply' = redis[k].value + 1
    /\ UNCHANGED clock

Get(k) ==
    /\ reply' = redis[k].value
    /\ UNCHANGED <<clock, redis>>

Set(k, v, expiry) ==
    /\ Write(k, v, clock + expiry)
    /\ reply' = 0
    /\ UNCHANGED clock

SetNX(k, v, expiry) ==
    /\ IF redis[k] = NoKey
       THEN Write(k, v, clock + expiry) /\ reply' = 1
       ELSE redis' = redis /\ reply' = 0
    /\ UNCHANGED clock

\* Redis answers -2 for a key it does not have.
TTL(k) ==
    /\ reply' = IF redis[k] = NoKey THEN -2 ELSE redis[k].till - clock
    /\ UNCHANGED <<clock, redis>>

Delete(k) ==
    /\ redis' = [redis EXCEPT ![k] = NoKey]
    /\ reply' = 0
    /\ UNCHANGED clock

Next ==
    \/ Tick
    \/ \E k \in Keys :
          \/ Get(k) \/ TTL(k) \/ Delete(k)
          \/ \E ttl \in Lifetimes :
                \/ Increment(k, ttl)
                \/ \E v \in Values : Set(k, v, ttl) \/ SetNX(k, v, ttl)

Spec == Init /\ [][Next]_vars

-----------------------------------------------------------------------------
Contract == INSTANCE Store WITH stored <- redis

(***************************************************************************)
(* "Increment atomically increments the counter and sets the expiry on     *)
(* first creation", and with it the rest of the Store interface: what      *)
(* MemoryStore does (MemoryStore!ImplementsStore).                         *)
(***************************************************************************)
ImplementsStore == Contract!Spec
=============================================================================
