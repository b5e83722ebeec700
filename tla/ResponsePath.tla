---------------------------- MODULE ResponsePath ----------------------------
(***************************************************************************)
(* One response on its way out through the writers that middlewares wrap   *)
(* around each other: WithRequestLogger, WithMetrics and                   *)
(* WithRequestEnrichment outside, then perhaps WithHeaderRewrite, then     *)
(* WithRetryAfter and WithRequestTracing around the handler.  Each writer  *)
(* overrides some of Header, WriteHeader and Write and inherits the rest,  *)
(* and the handler calls them in any order.                                *)
(***************************************************************************)
EXTENDS Integers

CONSTANTS
    Codes,      \* the statuses that the handler sends
    MaxCalls    \* bound on the handler's calls

\* Final statuses: net/http sends a 1xx at once and goes on to the next.
ASSUME ResponsePathAssumption == Codes \subseteq 200 .. 999 /\ MaxCalls \in Nat

Renamed == {"Limit", "Retry-After"}     \* the rewriter's headers, two of four
NewNames == {"Limit", "Retry-After", "A", "B", ""}
Headers == {"Limit", "Retry-After", "A", "B", "Trace", "Trace-Latency", "Latency"}
Absent == ""
\* The default configuration renames nothing.
DefaultHeaderRewriteConfig == [h \in Renamed |-> h]
NoHeaders == [h \in Headers |-> Absent]

VARIABLES
    rewriting,  \* whether WithHeaderRewrite is there
    names,      \* its HeaderRewriteConfig
    phase,      \* how far the response is
    calls,      \* the handler's calls
    capture,    \* headerCapture
    retried,    \* retryAfterResponseWriter.wrote
    out         \* the writers outside the rewriter, and the wire

rpVars == <<rewriting, names, phase, calls, capture, retried, out>>

HeaderMaps == [Headers -> {Absent, "limit", "retry", "own", "id", "latency"}]
StatusOrNone == Codes \cup {0, 200}

RPTypeOK ==
    /\ rewriting \in BOOLEAN
    /\ names \in [Renamed -> NewNames]
    /\ phase \in {"handling", "rewriting", "finishing", "over", "panicked"}
    /\ calls \in 0 .. MaxCalls
    /\ capture \in [headers : HeaderMaps, status : StatusOrNone, body : BOOLEAN]
    /\ retried \in BOOLEAN
    /\ out.header \in HeaderMaps /\ out.sent \in HeaderMaps
    /\ {out.status, out.code, out.statusCode} \subseteq StatusOrNone

\* out.header: w.Header(); status, sent: what went over the wire; statusCode:
\* the logger's; code, wrote: the metrics'; wroteHeader: the enrichment's;
\* superfluous: history, WriteHeader was called after the header was sent.
RPInit ==
    /\ rewriting \in BOOLEAN
    /\ names \in [Renamed -> NewNames]
    /\ phase = "handling"
    /\ calls = 0
    /\ capture = [headers |-> [NoHeaders EXCEPT !["Trace"] = "id"],
                  status |-> 0, body |-> FALSE]
    /\ retried = FALSE
    /\ out = [header |-> IF rewriting THEN NoHeaders
                                      ELSE [NoHeaders EXCEPT !["Trace"] = "id"],
              sent |-> NoHeaders, status |-> 0, superfluous |-> FALSE,
              statusCode |-> 200, code |-> 200, wrote |-> FALSE,
              wroteHeader |-> FALSE]

-----------------------------------------------------------------------------
\* The writers, from the wire inwards, as functions of out.
NetWriteHeader(o, c) ==
    IF o.status = 0 THEN [o EXCEPT !.status = c, !.sent = o.header]
                    ELSE [o EXCEPT !.superfluous = TRUE]

NetWrite(o) == IF o.status = 0 THEN NetWriteHeader(o, 200) ELSE o

LoggerWriteHeader(o, c) == NetWriteHeader([o EXCEPT !.statusCode = c], c)

\* Mutant: the last status counts, not the first.
MetricsWriteHeaderLast(o, c) ==
    LoggerWriteHeader([o EXCEPT !.code = c, !.wrote = TRUE], c)

MetricsWriteHeader(o, c) ==
    LoggerWriteHeader(IF o.wrote THEN o
                      ELSE [o EXCEPT !.code = c, !.wrote = TRUE], c)

\* The logger has no Write of its own.
MetricsWrite(o) ==
    NetWrite(IF o.wrote THEN o ELSE [o EXCEPT !.code = 200, !.wrote = TRUE])

EnrichmentWriteHeader(o, c) ==
    MetricsWriteHeader(IF o.wroteHeader THEN o
                       ELSE [o EXCEPT !.wroteHeader = TRUE,
                                      !.header["Latency"] = "latency"], c)

\* Mutant: a Write that sends the header goes past the enrichment.
EnrichmentWriteOnly(o) == MetricsWrite(o)

EnrichmentWrite(o) ==
    MetricsWrite(IF o.wroteHeader THEN o ELSE EnrichmentWriteHeader(o, 200))

-----------------------------------------------------------------------------
\* w.Header().Set(h, v) from the handler or from tracing.
SetHeader(h, v) ==
    IF rewriting
    THEN capture' = [capture EXCEPT !.headers[h] = v] /\ UNCHANGED out
    ELSE out' = [out EXCEPT !.header[h] = v] /\ UNCHANGED capture

HandlerSets(h, v) ==
    /\ SetHeader(h, v)
    /\ UNCHANGED retried

\* retryAfterResponseWriter.WriteHeader, and what it wraps.
HandlerWritesHeader(c) ==
    LET first == c = 429 /\ ~retried
        Put(hs) == IF first THEN [hs EXCEPT !["Retry-After"] = "retry"] ELSE hs
    IN  /\ retried' = (retried \/ first)
        /\ IF rewriting
           THEN /\ capture' = [capture EXCEPT !.headers = Put(@), !.status = c]
                /\ UNCHANGED out
           ELSE /\ out' = EnrichmentWriteHeader([out EXCEPT !.header = Put(@)], c)
                /\ UNCHANGED capture

HandlerWrites ==
    /\ IF rewriting
       THEN capture' = [capture EXCEPT !.body = TRUE] /\ UNCHANGED out
       ELSE out' = EnrichmentWrite(out) /\ UNCHANGED capture
    /\ UNCHANGED retried

HandlerCalls ==
    /\ phase = "handling" /\ calls < MaxCalls
    /\ calls' = calls + 1
    /\ \/ HandlerSets("Limit", "limit") \/ HandlerSets("A", "own")
       \/ \E c \in Codes : HandlerWritesHeader(c)
       \/ HandlerWrites
    /\ UNCHANGED <<rewriting, names, phase>>

\* The handler returns, and WithRequestTracing sets its last header.
HandlerReturns ==
    /\ phase = "handling"
    /\ SetHeader("Trace-Latency", "latency")
    /\ phase' = IF rewriting THEN "rewriting" ELSE "finishing"
    /\ UNCHANGED <<rewriting, names, calls, retried>>

Moved(orig) ==
    capture.headers[orig] # Absent /\ names[orig] # "" /\ names[orig] # orig

\* Mutant: the value is looked up in the response that the capture replaced.
RenameOuter(hs, orig) ==
    IF Moved(orig) THEN [hs EXCEPT ![orig] = Absent, ![names[orig]] = hs[orig]]
                   ELSE hs

Rename(hs, orig) ==
    IF Moved(orig)
    THEN [hs EXCEPT ![orig] = Absent, ![names[orig]] = capture.headers[orig]]
    ELSE hs

\* What the response does not have yet is copied, the old names included.
CopyMissing(hs) ==
    [h \in Headers |-> IF hs[h] = Absent THEN capture.headers[h] ELSE hs[h]]

\* The map of names is walked in any order.  net/http panics on a status 0,
\* which is what a handler leaves that never called WriteHeader.
Rewrite ==
    /\ phase = "rewriting"
    /\ \E first, second \in Renamed :
          /\ first # second
          /\ LET o == [out EXCEPT !.header =
                         CopyMissing(Rename(Rename(@, first), second))]
             IN  IF capture.status = 0
                 THEN out' = o /\ phase' = "panicked"
                 ELSE LET sent == EnrichmentWriteHeader(o, capture.status)
                      IN  /\ out' = IF capture.body THEN EnrichmentWrite(sent)
                                                    ELSE sent
                          /\ phase' = "finishing"
    /\ UNCHANGED <<rewriting, names, calls, capture, retried>>

\* WithRequestEnrichment sends the header if nobody did; the others record.
Finish ==
    /\ phase = "finishing"
    /\ out' = IF out.wroteHeader THEN out ELSE EnrichmentWriteHeader(out, 200)
    /\ phase' = "over"
    /\ UNCHANGED <<rewriting, names, calls, capture, retried>>

RPNext == HandlerCalls \/ HandlerReturns \/ Rewrite \/ Finish

RPSpec == RPInit /\ [][RPNext]_rpVars

-----------------------------------------------------------------------------
(***************************************************************************)
(* What the middlewares record is what the client got: the metrics' status *)
(* is the one on the wire, and the logger's too unless the handler called  *)
(* WriteHeader when the header was gone.  For final statuses.              *)
(***************************************************************************)
StatusAgrees ==
    phase = "over" =>
        /\ out.code = out.status
        /\ ~out.superfluous => out.statusCode = out.status

\* No new name is given twice, or is the old name of another header.
NamesClear ==
    \A a, b \in Renamed : a # b => names[a] # b /\ (names[a] # names[b] \/ names[a] = "")

NewName(h) == IF names[h] \in {"", h} THEN h ELSE names[h]

(***************************************************************************)
(* "Any 429 response automatically includes a Retry-After header", under   *)
(* the name that the rewriter gives it if its names do not clash, and every*)
(* response the enrichment's latency and the trace, whichever call sent    *)
(* the header.  The tracing's own latency makes it if the rewriter held    *)
(* the response back.                                                      *)
(***************************************************************************)
HeadersOnWire ==
    phase = "over" =>
        /\ out.sent["Latency"] = "latency" /\ out.sent["Trace"] = "id"
        /\ rewriting => out.sent["Trace-Latency"] = "latency"
        /\ out.status = 429 /\ ~rewriting => out.sent["Retry-After"] = "retry"
        /\ out.status = 429 /\ rewriting /\ NamesClear =>
             out.sent[NewName("Retry-After")] = "retry"

(***************************************************************************)
(* "Renames rate limit headers according to cfg": whichever way the maps   *)
(* are walked, what the handler set arrives under its new name, if the new *)
(* names do not clash, and its other headers arrive unless a renamed one   *)
(* took their name.  For the old name see OldNameAbsent.                   *)
(***************************************************************************)
RewriteDelivers ==
    phase = "over" /\ rewriting /\ NamesClear =>
        /\ \A h \in Renamed :
              capture.headers[h] # Absent =>
                  out.sent[NewName(h)] = capture.headers[h]
        /\ \A h \in Headers \ Renamed :
              \/ capture.headers[h] \in {Absent, out.sent[h]}
              \/ \E orig \in Renamed : Moved(orig) /\ names[orig] = h

(***************************************************************************)
(* "Expected old header to be absent": a header that arrives under a new   *)
(* name does not arrive under its old one as well.                         *)
(***************************************************************************)
OldNameAbsent ==
    phase = "over" /\ rewriting /\ NamesClear =>
        \A h \in Renamed : Moved(h) => out.sent[h] = Absent
=============================================================================
