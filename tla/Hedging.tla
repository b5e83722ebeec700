------------------------------ MODULE Hedging -------------------------------
(***************************************************************************)
(* WithRequestHedging (request_hedging.go), for one request: the handler   *)
(* is started, after a delay started again, and every attempt writes to    *)
(* one shared writer, which forwards a Write only if no Write was          *)
(* forwarded before, and the attempt's status with it.  The middleware     *)
(* returns when the first attempt does.                                    *)
(*                                                                         *)
(* Header() is left out: it gives every attempt the client's own map, so   *)
(* that headers of several attempts may be sent together.                  *)
(***************************************************************************)
EXTENDS Integers

CONSTANTS
    HedgeDelay,     \* cfg.delay, in clock ticks
    MaxHedges,      \* cfg.maxHedges
    MaxWrites,      \* bound on the Writes of one attempt, for model checking
    MaxElapsed      \* the clock of a request stops here, for model checking

ASSUME HedgingAssumption ==
    /\ HedgeDelay \in Nat
    /\ MaxHedges \in Nat \ {0}
    /\ MaxWrites \in Nat
    /\ MaxElapsed \in Nat

VARIABLES
    elapsed,    \* time since the request arrived
    hedging,    \* cfg.shouldHedge(r)
    loop,       \* the hedger's loop counter i, or Over
    timer,      \* timer.C holds, or will hold, a value
    attempt,    \* attempt[a]: how far the a-th call of the handler is
    writes,     \* writes[a]: how often it called Write
    codes,      \* the attempts whose s.code is set
    written,    \* shared.written
    doneCh,     \* number of values in the channel doneCh
    wire        \* what reached the client: <<a, n>> for the n-th Write of a,
                \* <<a, 0>> for its status

heVars == <<elapsed, hedging, loop, timer, attempt, writes, codes, written, doneCh,
            wire>>

Attempts == 0 .. MaxHedges
Over == MaxHedges + 1       \* the hedger returned
Last == MaxHedges           \* the hedger is at its last <-doneCh

HETypeOK ==
    /\ elapsed \in 0 .. MaxElapsed
    /\ hedging \in BOOLEAN
    /\ loop \in 0 .. Over
    /\ timer \in BOOLEAN
    /\ attempt \in [Attempts -> {"none", "running", "returned", "gone"}]
    /\ writes \in [Attempts -> 0 .. MaxWrites]
    /\ codes \subseteq Attempts
    /\ written \in BOOLEAN
    /\ doneCh \in 0 .. MaxHedges + 1
    /\ wire \subseteq Attempts \X (0 .. MaxWrites)

HEInit ==
    /\ elapsed = 0
    /\ hedging \in BOOLEAN
    /\ loop = 0
    /\ timer = TRUE
    /\ attempt = [a \in Attempts |-> IF a = 0 THEN "running" ELSE "none"]
    /\ writes = [a \in Attempts |-> 0]
    /\ codes = {}
    /\ written = FALSE
    /\ doneCh = 0
    /\ wire = {}

HETick ==
    /\ elapsed < MaxElapsed
    /\ elapsed' = elapsed + 1
    /\ UNCHANGED <<hedging, loop, timer, attempt, writes, codes, written, doneCh,
                   wire>>

\* Mutant: claim() tells every writer that it won.
ForwardsAlways == TRUE

\* claim(); a request that is not hedged has the client's own writer.
Forwards == ~hedging \/ ~written

\* The handler calls WriteHeader, for the first time and before its Writes:
\* the others have no effect.
WriteHeader(a) ==
    /\ attempt[a] = "running" /\ writes[a] = 0
    /\ a \notin codes
    /\ codes' = codes \cup {a}
    /\ wire' = IF hedging THEN wire ELSE wire \cup {<<a, 0>>}
    /\ UNCHANGED <<elapsed, hedging, loop, timer, attempt, writes, written, doneCh>>

Write(a) ==
    LET status == IF hedging /\ a \in codes THEN {<<a, 0>>} ELSE {}
    IN  /\ attempt[a] = "running"
        /\ writes[a] < MaxWrites
        /\ writes' = [writes EXCEPT ![a] = @ + 1]
        /\ written' = hedging
        /\ wire' = IF Forwards THEN wire \cup status \cup {<<a, writes'[a]>>}
                               ELSE wire
        /\ UNCHANGED <<elapsed, hedging, loop, timer, attempt, codes, doneCh>>

Return(a) ==
    /\ attempt[a] = "running"
    /\ attempt' = [attempt EXCEPT ![a] = "returned"]
    /\ loop' = IF hedging THEN loop ELSE Over
    /\ UNCHANGED <<elapsed, hedging, timer, writes, codes, written, doneCh, wire>>

\* Mutant: room for the one value that is waited for.
CapacityOne == 1

Capacity == MaxHedges + 1

\* doneCh <- struct{}{}
Send(a) ==
    /\ hedging
    /\ attempt[a] = "returned"
    /\ doneCh < Capacity
    /\ doneCh' = doneCh + 1
    /\ attempt' = [attempt EXCEPT ![a] = "gone"]
    /\ UNCHANGED <<elapsed, hedging, loop, timer, writes, codes, written, wire>>

\* The timer fires only once: of the loop's rounds one can get past its select.
Hedge ==
    /\ hedging
    /\ loop < Last
    /\ timer
    /\ elapsed >= HedgeDelay
    /\ timer' = FALSE
    /\ loop' = loop + 1
    /\ attempt' = [attempt EXCEPT ![loop'] = "running"]
    /\ UNCHANGED <<elapsed, hedging, writes, codes, written, doneCh, wire>>

\* <-doneCh, in the loop or after it.
Done ==
    /\ hedging
    /\ loop < Over
    /\ doneCh > 0
    /\ doneCh' = doneCh - 1
    /\ loop' = Over
    /\ UNCHANGED <<elapsed, hedging, timer, attempt, writes, codes, written, wire>>

HENext ==
    \/ HETick \/ Hedge \/ Done
    \/ \E a \in Attempts : WriteHeader(a) \/ Write(a) \/ Return(a) \/ Send(a)

HESpec == HEInit /\ [][HENext]_heVars

-----------------------------------------------------------------------------
(***************************************************************************)
(* The attempts' statuses and Writes are never mixed: those that reach the *)
(* client are of one attempt, however the attempts interleave.  Of what    *)
(* they put into the shared Header() nothing is said, nor of the answer    *)
(* that a timeout around the hedging gives (see TimedHedge).               *)
(***************************************************************************)
OneAttemptOnWire == \A x, y \in wire : x[1] = y[1]

(***************************************************************************)
(* No attempt is left behind: an attempt that returns finds room in the    *)
(* channel, also when the middleware has stopped receiving from it.        *)
(***************************************************************************)
DoneHasRoom == \A a \in Attempts : attempt[a] = "returned" => doneCh < Capacity

(***************************************************************************)
(* "Uses whichever response arrives first": when the middleware returns,   *)
(* the client has got the whole response of an attempt that returned.      *)
(***************************************************************************)
FirstResponseUsed ==
    loop = Over =>
        \E a \in Attempts :
            /\ attempt[a] \in {"returned", "gone"}
            /\ {n \in 1 .. MaxWrites : <<a, n>> \in wire} = 1 .. writes[a]
=============================================================================
