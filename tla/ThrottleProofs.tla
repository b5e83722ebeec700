--------------------------- MODULE ThrottleProofs ---------------------------
(***************************************************************************)
(* The throttle's two counts are exact, for any number of requests, slots  *)
(* and queue places.                                                       *)
(***************************************************************************)
EXTENDS Throttle, FiniteSetTheorems, TLAPS

ThrottleInv ==
    /\ THTypeOK
    /\ IsFiniteSet(Running) /\ IsFiniteSet(Waiting)
    /\ SlotsAccounted

-----------------------------------------------------------------------------
\* One request changes its stage from a to b: it joins or leaves the sets of
\* the requests that hold a slot and of those that hold a token.
LEMMA GotoMoves ==
    ASSUME THTypeOK, NEW r \in Requests, NEW b \in ThrottleStages, Goto(r, b)
    PROVE  /\ stage' \in [Requests -> ThrottleStages]
           /\ Running' = IF b = "running" THEN Running \cup {r}
                                          ELSE Running \ {r}
           /\ Waiting' = IF b \in {"queued", "expired", "cancelled"}
                         THEN Waiting \cup {r} ELSE Waiting \ {r}
           /\ r \in Running <=> stage[r] = "running"
           /\ r \in Waiting <=> stage[r] \in {"queued", "expired", "cancelled"}
BY DEF THTypeOK, Goto, Running, Waiting

\* How many elements a finite set has when one joins or leaves.
LEMMA JoinLeave ==
    ASSUME NEW S, IsFiniteSet(S), NEW x
    PROVE  /\ IsFiniteSet(S \cup {x}) /\ IsFiniteSet(S \ {x})
           /\ Cardinality(S) \in Nat
           /\ x \notin S => Cardinality(S \cup {x}) = Cardinality(S) + 1
           /\ x \in S => Cardinality(S \ {x}) = Cardinality(S) - 1
           /\ x \in S => S \cup {x} = S
           /\ x \notin S => S \ {x} = S
<1>1. Cardinality(S) \in Nat
  BY FS_CardinalityType
<1>2. IsFiniteSet(S \cup {x})
      /\ (x \notin S => Cardinality(S \cup {x}) = Cardinality(S) + 1)
  BY FS_AddElement
<1>3. IsFiniteSet(S \ {x})
      /\ (x \in S => Cardinality(S \ {x}) = Cardinality(S) - 1)
  BY FS_RemoveElement
<1>. QED BY <1>1, <1>2, <1>3

LEMMA InitThrottleInv == THInit => ThrottleInv
<1>. SUFFICES ASSUME THInit PROVE ThrottleInv
  OBVIOUS
<1>1. THTypeOK
  BY ThrottleAssumption DEF THInit, THTypeOK, ThrottleStages
<1>2. Running = {} /\ Waiting = {}
  BY DEF THInit, Running, Waiting
<1>3. IsFiniteSet({}) /\ Cardinality({}) = 0
  BY FS_EmptySet
<1>. QED
  BY <1>1, <1>2, <1>3, ThrottleAssumption DEF THInit, ThrottleInv, SlotsAccounted

LEMMA NextThrottleInv == ThrottleInv /\ [THNext]_thVars => ThrottleInv'
<1>. SUFFICES ASSUME ThrottleInv, [THNext]_thVars PROVE ThrottleInv'
  OBVIOUS
<1>. USE ThrottleAssumption DEF ThrottleInv
<1>1. CASE Tick
  <2>1. waited' \in [Requests -> 0 .. QueueTimeout]
    BY <1>1 DEF Tick, Ticking, THTypeOK
  <2>2. sawSlot' \in [Requests -> BOOLEAN]
    BY <1>1 DEF Tick, THTypeOK
  <2>3. UNCHANGED <<active, queueLen, stage>>
    BY <1>1 DEF Tick
  <2>. QED BY <2>1, <2>2, <2>3 DEF THTypeOK, SlotsAccounted, Running, Waiting
<1>2. ASSUME NEW r \in Requests,
             Arrive(r) \/ NoSlot(r) \/ QueueFull(r) \/ Expire(r) \/ Cancel(r)
      PROVE  ThrottleInv'
  <2>1. PICK b \in {"arrived", "noslot", "out", "expired", "cancelled"} :
          /\ Goto(r, b)
          /\ b \in {"expired", "cancelled"} <=> stage[r] = "queued"
          /\ stage[r] \in {"out", "arrived", "noslot", "queued"}
    BY <1>2 DEF Arrive, NoSlot, QueueFull, Expire, Cancel
  <2>2. UNCHANGED <<active, queueLen, waited, sawSlot>>
    BY <1>2 DEF Arrive, NoSlot, QueueFull, Expire, Cancel
  <2>3. Running' = Running /\ Waiting' = Waiting
        /\ stage' \in [Requests -> ThrottleStages]
    BY <2>1, GotoMoves DEF ThrottleStages
  <2>. QED BY <2>2, <2>3 DEF THTypeOK, SlotsAccounted
<1>3. ASSUME NEW r \in Requests, Acquire(r)
      PROVE  ThrottleInv'
  <2>1. /\ Running' = Running \cup {r} /\ r \notin Running
        /\ Waiting' = Waiting
        /\ stage' \in [Requests -> ThrottleStages]
    BY <1>3, GotoMoves DEF Acquire, ThrottleStages
  <2>2. /\ IsFiniteSet(Running')
        /\ Cardinality(Running') = Cardinality(Running) + 1
    BY <2>1, JoinLeave
  <2>. QED BY <1>3, <2>1, <2>2 DEF Acquire, THTypeOK, SlotsAccounted
<1>4. ASSUME NEW r \in Requests, GiveBack(r)
      PROVE  ThrottleInv'
  <2>1. /\ Running' = Running \ {r} /\ r \in Running
        /\ Waiting' = Waiting
        /\ stage' \in [Requests -> ThrottleStages]
    BY <1>4, GotoMoves DEF GiveBack, ThrottleStages
  <2>2. /\ IsFiniteSet(Running')
        /\ Cardinality(Running') = Cardinality(Running) - 1
    BY <2>1, JoinLeave
  <2>3. Cardinality(Running) \in Nat /\ Cardinality(Running') \in Nat
    BY <2>2, FS_CardinalityType
  <2>. QED BY <1>4, <2>1, <2>2, <2>3 DEF GiveBack, THTypeOK, SlotsAccounted
<1>5. ASSUME NEW r \in Requests, Enqueue(r)
      PROVE  ThrottleInv'
  <2>1. /\ Waiting' = Waiting \cup {r} /\ r \notin Waiting
        /\ Running' = Running
        /\ stage' \in [Requests -> ThrottleStages]
    BY <1>5, GotoMoves DEF Enqueue, ThrottleStages
  <2>2. /\ IsFiniteSet(Waiting')
        /\ Cardinality(Waiting') = Cardinality(Waiting) + 1
    BY <2>1, JoinLeave
  <2>. QED BY <1>5, <2>1, <2>2 DEF Enqueue, THTypeOK, SlotsAccounted
<1>6. ASSUME NEW r \in Requests, Dequeue(r)
      PROVE  ThrottleInv'
  <2>1. /\ Waiting' = Waiting \ {r} /\ r \in Waiting
        /\ Running' = Running
        /\ stage' \in [Requests -> ThrottleStages]
    BY <1>6, GotoMoves DEF Dequeue, ThrottleStages
  <2>2. /\ IsFiniteSet(Waiting')
        /\ Cardinality(Waiting') = Cardinality(Waiting) - 1
    BY <2>1, JoinLeave
  <2>3. /\ waited' \in [Requests -> 0 .. QueueTimeout]
        /\ sawSlot' \in [Requests -> BOOLEAN]
    BY <1>6 DEF Dequeue, THTypeOK
  <2>. QED BY <1>6, <2>1, <2>2, <2>3 DEF Dequeue, THTypeOK, SlotsAccounted
<1>7. CASE UNCHANGED thVars
  BY <1>7 DEF thVars, THTypeOK, SlotsAccounted, Running, Waiting
<1>. QED
  BY <1>1, <1>2, <1>3, <1>4, <1>5, <1>6, <1>7 DEF THNext, Serve

-----------------------------------------------------------------------------
(***************************************************************************)
(* At most MaxConcurrent handlers run, active is their number, and the     *)
(* channel holds exactly one token per waiting request.                    *)
(***************************************************************************)
THEOREM SlotsAlwaysAccounted == THSpec => []SlotsAccounted
<1>1. ThrottleInv => SlotsAccounted
  BY DEF ThrottleInv
<1>. QED BY InitThrottleInv, NextThrottleInv, <1>1, PTL DEF THSpec

(***************************************************************************)
(* A request that leaves the queue never blocks on the channel: there is a *)
(* token to receive whenever one is waiting to leave.                      *)
(***************************************************************************)
DequeueNeverBlocks ==
    \A r \in Requests : stage[r] \in {"expired", "cancelled"} => queueLen > 0

THEOREM LeavingNeverBlocks == THSpec => []DequeueNeverBlocks
<1>1. ThrottleInv => DequeueNeverBlocks
  <2>. SUFFICES ASSUME ThrottleInv, NEW r \in Requests,
                       stage[r] \in {"expired", "cancelled"}
                PROVE  queueLen > 0
    BY DEF DequeueNeverBlocks
  <2>1. r \in Waiting /\ IsFiniteSet(Waiting)
    BY DEF ThrottleInv, Waiting
  <2>2. Cardinality(Waiting) \in Nat /\ Cardinality(Waiting \ {r}) \in Nat
        /\ Cardinality(Waiting \ {r}) = Cardinality(Waiting) - 1
    BY <2>1, JoinLeave
  <2>. QED BY <2>2 DEF ThrottleInv, SlotsAccounted
<1>. QED BY InitThrottleInv, NextThrottleInv, <1>1, PTL DEF THSpec
=============================================================================
