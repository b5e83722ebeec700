---------------------------- MODULE RequestBody -----------------------------
(***************************************************************************)
(* One request's body.  Either WithRequestSizeLimit around                 *)
(* WithRequestBodyLogger around a handler, each of which reads or replaces *)
(* r.Body (request_size_limit.go, request_body_logger.go); or              *)
(* WithRequestMirroring around a handler (request_mirroring.go), where a   *)
(* goroutine reads the same r.Body.  The body is 1, 2, .. Size; a Read     *)
(* returns one element, the end, or an error; the connection may break     *)
(* before the end.  Mirroring around the other two is left out: their      *)
(* readers are not made for two goroutines.                                *)
(***************************************************************************)
EXTENDS Integers, Sequences
Seqs == INSTANCE SequencesExt

CONSTANTS
    Sizes,      \* how long bodies are
    ByteLimits  \* the values of the two middlewares' MaxBytes, 0 for no limit

ASSUME BodyAssumption == Sizes \subseteq Nat /\ ByteLimits \subseteq Nat

VARIABLES
    setup,      \* what this request is and which middlewares it meets
    main,       \* what the request's goroutine does
    mirror,     \* what the mirror's goroutine does
    source,     \* the readers: how much was read, what the limit has left
    captured,   \* what the body logger read
    logged,     \* what logFunc was called with
    got         \* what the handler read

boVars == <<setup, main, mirror, source, captured, logged, got>>

\* cut elements arrive, all or as many as before the connection breaks;
\* declared: the request has a Content-Length; maxBytes is the size limit's,
\* logBytes the body logger's.
Setups ==
    {s \in [size : Sizes, cut : UNION {0 .. n : n \in Sizes},
            declared : BOOLEAN, mirrored : BOOLEAN,
            maxBytes : ByteLimits \cup {0}, logBytes : ByteLimits \cup {0}] :
        /\ s.cut <= s.size
        /\ s.mirrored => s.maxBytes = 0 /\ s.logBytes = 0}

Broken == setup.cut < setup.size

Body == [i \in 1 .. setup.size |-> i]

BOTypeOK ==
    /\ setup \in Setups
    /\ main \in {"limiting", "logging", "handling", "eof", "error", "returned",
                 "rejected"}
    /\ mirror \in {"none", "reading", "sent", "dropped"}
    /\ source.pos \in 0 .. setup.cut
    /\ source.left \in 0 .. setup.maxBytes
    /\ source.stuck \in {"no", "eof", "error"}

BOInit ==
    /\ setup \in Setups
    /\ main = "limiting"
    /\ mirror = IF setup.mirrored THEN "reading" ELSE "none"
    /\ source = [pos |-> 0, left |-> setup.maxBytes, stuck |-> "no",
                 broke |-> FALSE, closed |-> FALSE]
    /\ captured = <<>> /\ logged = <<>> /\ got = <<>>

-----------------------------------------------------------------------------
\* A Read of the connection's body, and of the MaxBytesReader around it: the
\* readers afterwards, and the element read or how the Read ended.  Where the
\* connection breaks, net/http fails once, and then gives a clean end to a
\* body with a Content-Length.  The MaxBytesReader reads one more than its
\* limit, and remembers how it ended.
NetRead ==
    CASE source.closed -> [source |-> source, unit |-> 0, end |-> "error"]
      [] ~source.closed /\ source.pos < setup.cut ->
            [source |-> [source EXCEPT !.pos = @ + 1],
             unit |-> source.pos + 1, end |-> "no"]
      [] ~source.closed /\ source.pos = setup.cut
           /\ (Broken => source.broke /\ setup.declared) ->
            [source |-> source, unit |-> 0, end |-> "eof"]
      [] OTHER ->
            [source |-> [source EXCEPT !.broke = TRUE], unit |-> 0, end |-> "error"]

LimitRead ==
    CASE setup.maxBytes = 0 -> NetRead
      [] setup.maxBytes # 0 /\ source.stuck # "no" ->
            [source |-> source, unit |-> 0, end |-> source.stuck]
      [] OTHER ->
            IF NetRead.end = "no" /\ source.left = 0
            THEN [source |-> [NetRead.source EXCEPT !.stuck = "error"],
                  unit |-> 0, end |-> "error"]
            ELSE [NetRead EXCEPT
                    !.source.stuck = NetRead.end,
                    !.source.left = IF NetRead.end = "no" THEN @ - 1 ELSE @]

-----------------------------------------------------------------------------
\* WithRequestSizeLimit
CheckLength ==
    /\ main = "limiting"
    /\ main' = IF setup.maxBytes > 0 /\ setup.declared
                     /\ setup.size > setup.maxBytes
               THEN "rejected" ELSE "logging"
    /\ UNCHANGED <<setup, mirror, source, captured, logged, got>>

\* WithRequestBodyLogger: io.ReadAll of at most logBytes, Read by Read.
Capture ==
    /\ main = "logging" /\ Len(captured) < setup.logBytes
    /\ LimitRead.end = "no"
    /\ captured' = Append(captured, LimitRead.unit)
    /\ source' = LimitRead.source
    /\ UNCHANGED <<setup, main, mirror, logged, got>>

\* Mutant: what was read is logged, and is gone for the handler.
RestoreNothing(seq) == <<>>

\* What of the captured elements the new r.Body starts with.
Restored(seq) == seq

\* All is read, or the Read fails, and then what was captured is dropped.
Restore ==
    LET full == Len(captured) = setup.logBytes
        kept == IF ~full /\ LimitRead.end = "error" THEN <<>> ELSE captured
    IN  /\ main = "logging"
        /\ full \/ LimitRead.end # "no"
        /\ source' = IF full THEN source ELSE LimitRead.source
        /\ logged' = kept
        /\ captured' = Restored(kept)
        /\ main' = "handling"
        /\ UNCHANGED <<setup, mirror, got>>

\* The handler reads what was captured and then the rest, and stops reading
\* when it likes to.
HandlerReads ==
    /\ main = "handling"
    /\ IF captured # <<>>
       THEN /\ got' = Append(got, Head(captured))
            /\ captured' = Tail(captured)
            /\ UNCHANGED <<main, source>>
       ELSE /\ source' = LimitRead.source
            /\ IF LimitRead.end = "no"
               THEN got' = Append(got, LimitRead.unit) /\ UNCHANGED main
               ELSE main' = LimitRead.end /\ UNCHANGED got
            /\ UNCHANGED captured
    /\ UNCHANGED <<setup, mirror, logged>>

\* net/http closes the body when the handler has returned.
HandlerReturnsBody ==
    /\ main \in {"handling", "eof", "error", "rejected"}
    /\ main' = IF main = "handling" THEN "returned" ELSE main
    /\ source' = [source EXCEPT !.closed = TRUE]
    /\ ~source.closed
    /\ UNCHANGED <<setup, mirror, captured, logged, got>>

\* mirrorRequest: io.ReadAll, whose elements nobody else reads, then the copy
\* is sent or dropped.
MirrorReads ==
    /\ mirror = "reading"
    /\ source' = NetRead.source
    /\ IF NetRead.end = "no"
       THEN UNCHANGED mirror
       ELSE mirror' = IF NetRead.end = "eof" THEN "sent" ELSE "dropped"
    /\ UNCHANGED <<setup, main, captured, logged, got>>

BONext ==
    \/ CheckLength \/ Capture \/ Restore \/ HandlerReads \/ HandlerReturnsBody
    \/ MirrorReads

BOSpec == BOInit /\ [][BONext]_boVars

-----------------------------------------------------------------------------
TooLarge == setup.maxBytes > 0 /\ setup.size > setup.maxBytes

\* The logger met the break, and there is no MaxBytesReader to remember it:
\* what arrived is dropped, and the handler finds an empty body.
BreakForgotten ==
    /\ Broken /\ setup.cut < setup.logBytes
    /\ setup.declared /\ setup.maxBytes = 0

(***************************************************************************)
(* "Restores the body so downstream handlers can still read it", and "en-  *)
(* force limit even when Content-Length is absent": the handler reads the  *)
(* body from its start, each element once and in order, the whole of it    *)
(* when it sees the end, never more than MaxBytes, no end of a body that   *)
(* is too large, and an error only where there is one; the logger gets the *)
(* beginning of it.  A connection that breaks makes an error as well, but  *)
(* for BreakForgotten, where the code loses it.  Mirrored requests: below. *)
(***************************************************************************)
BodyIntact ==
    ~setup.mirrored =>
        /\ Seqs!IsPrefix(got, Body) /\ Seqs!IsPrefix(logged, Body)
        /\ main = "eof" /\ ~BreakForgotten => got = Body /\ ~TooLarge
        /\ main = "error" => TooLarge \/ Broken
        /\ setup.maxBytes > 0 => Len(got) <= setup.maxBytes

(***************************************************************************)
(* "Asynchronously mirrors incoming requests to a shadow backend.  The     *)
(* primary response is unaffected": a handler that reads a body which      *)
(* arrived to its end has read all of it.                                  *)
(***************************************************************************)
PrimaryUnaffected ==
    setup.mirrored /\ ~Broken /\ main = "eof" => got = Body
=============================================================================
