---------------------------- MODULE MemoryStore -----------------------------
(***************************************************************************)
(* MemoryStore (memory_store.go): a map under a mutex.  Nothing removes an *)
(* entry when its time is over: it stays in the map until an operation     *)
(* looks at it, and every operation must treat it as absent.               *)
(***************************************************************************)
EXTENDS Integers

CONSTANTS
    Keys,
    Values,     \* what users Set a key to
    Lifetimes,  \* the windows and expiries users ask for
    MaxClock,   \* bound on the clock, for model checking
    MaxCount    \* bound on what a counter is incremented to, likewise

ASSUME StoreAssumption ==
    /\ Values \subseteq Int
    /\ Lifetimes \subseteq Nat
    /\ MaxClock \in Nat
    /\ MaxCount \in Nat

VARIABLES
    clock,      \* time.Now()
    data,       \* m.data: entries by key, Missing where the map has none
    reply       \* what the last operation returned

msVars == <<clock, data, reply>>

Missing == [value |-> 0, expiry |-> -1]

MSTypeOK ==
    /\ clock \in 0 .. MaxClock
    /\ data \in [Keys -> [value : Int, expiry : {-1} \cup Nat]]
    /\ reply \in Int

MSInit ==
    /\ clock = 0
    /\ data = [k \in Keys |-> Missing]
    /\ reply = 0

MSTick ==
    /\ clock < MaxClock
    /\ clock' = clock + 1
    /\ UNCHANGED <<data, reply>>

\* Mutant: the expiry is not looked at.
getStale(k) == data[k]

\* m.get(key), which also deletes an entry whose time is over.
get(k) == IF clock > data[k].expiry THEN Missing ELSE data[k]

Found(k) == get(k) # Missing

New(value, ttl) == [value |-> value, expiry |-> clock + ttl]
Put(k, entry) == data' = [data EXCEPT ![k] = entry]

Increment(k, window) ==
    /\ get(k).value < MaxCount
    /\ Put(k, [(IF Found(k) THEN get(k) ELSE New(0, window))
                 EXCEPT !.value = @ + 1])
    /\ reply' = data'[k].value
    /\ UNCHANGED clock

\* Not in the package: as Increment, on a key that is present.
Decrement(k) ==
    /\ Put(k, IF Found(k) THEN [get(k) EXCEPT !.value = @ - 1] ELSE Missing)
    /\ reply' = 0
    /\ UNCHANGED clock

Get(k) ==
    /\ Put(k, get(k))
    /\ reply' = get(k).value
    /\ UNCHANGED clock

Set(k, v, expiry) ==
    /\ Put(k, New(v, expiry))
    /\ reply' = 0
    /\ UNCHANGED clock

SetNX(k, v, expiry) ==
    /\ Put(k, IF Found(k) THEN get(k) ELSE New(v, expiry))
    /\ reply' = IF Found(k) THEN 0 ELSE 1
    /\ UNCHANGED clock

TTL(k) ==
    /\ Put(k, get(k))
    /\ reply' = IF Found(k) THEN get(k).expiry - clock ELSE -1
    /\ UNCHANGED clock

Delete(k) ==
    /\ Put(k, Missing)
    /\ reply' = 0
    /\ UNCHANGED clock

-----------------------------------------------------------------------------
\* What the map stands for: the entries whose time is not over.
Abstraction ==
    [k \in Keys |-> IF clock > data[k].expiry
                    THEN [value |-> 0, till |-> -1]
                    ELSE [value |-> data[k].value, till |-> data[k].expiry]]

Contract == INSTANCE Store WITH stored <- Abstraction

(***************************************************************************)
(* The map with its leftover entries behaves as a store whose keys vanish  *)
(* when their time is over, in what it stores and in what it returns.      *)
(***************************************************************************)
ImplementsStore == Contract!Spec
=============================================================================
