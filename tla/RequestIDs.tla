----------------------------- MODULE RequestIDs -----------------------------
(***************************************************************************)
(* The identifiers that WithRequestID (request_id.go),                     *)
(* WithRequestCorrelation (request_correlation.go) and WithRequestTracing  *)
(* (request_tracing_middleware.go), nested in this order, put on a request *)
(* and on its response.  Users choose the header names, and may choose one *)
(* for several identifiers: each middleware then finds the other's.        *)
(***************************************************************************)
EXTENDS Integers

CONSTANT IncomingValues     \* what the client's headers may hold

\* A header's value: none, nothing but blanks, an identifier of the client,
\* the same between blanks, or one that a middleware generated.
ASSUME IncomingAssumption ==
    IncomingValues \subseteq {"", "blanks", "client", " client "}

Names == {"I", "C", "T"}
HeaderValues == IncomingValues \cup {"client", "id", "correlation", "trace", "span"}

\* Which of the names the request ID has makes no difference.
IDConfigs ==
    [header : {"I"}, overwriteID : BOOLEAN,
     IncomingHeader : Names, OutgoingHeader : Names, Overwrite : BOOLEAN,
     traceIDHeader : Names, spanIDHeader : Names]

Incoming == [Names -> IncomingValues]

VARIABLES
    conf,       \* the three middlewares' configurations
    incoming,   \* the request's headers as they came
    request,    \* r.Header, or its clone's
    response,   \* w.Header()
    layer       \* the middleware that runs next

idVars == <<conf, incoming, request, response, layer>>

Layers == {"request_id", "correlation", "tracing", "handler"}

IDTypeOK ==
    /\ conf \in IDConfigs
    /\ incoming \in Incoming
    /\ request \in [Names -> HeaderValues \cup {""}]
    /\ response \in [Names -> HeaderValues \cup {""}]
    /\ layer \in Layers

IDInit ==
    /\ conf \in IDConfigs
    /\ incoming \in Incoming
    /\ request = incoming
    /\ response = [n \in Names |-> ""]
    /\ layer = "request_id"

TrimSpace(v) ==
    CASE v = "blanks" -> "" [] v = " client " -> "client" [] OTHER -> v

AssignID ==
    LET fresh == request[conf.header] = "" \/ conf.overwriteID
        id == IF fresh THEN "id" ELSE request[conf.header]
    IN  /\ layer = "request_id"
        /\ request' = [request EXCEPT ![conf.header] = id]
        /\ response' = [response EXCEPT ![conf.header] = id]
        /\ layer' = "correlation"
        /\ UNCHANGED <<conf, incoming>>

CorrelationFresh ==
    TrimSpace(request[conf.IncomingHeader]) = "" \/ conf.Overwrite

\* Mutant: the clone is made, and the identifier is not put on it.
CorrelatedClone == request

\* r.Clone(), with the new identifier.
Correlated == [request EXCEPT ![conf.IncomingHeader] = "correlation"]

Correlate ==
    LET id == IF CorrelationFresh THEN "correlation"
              ELSE TrimSpace(request[conf.IncomingHeader])
    IN  /\ layer = "correlation"
        /\ request' = IF CorrelationFresh THEN Correlated ELSE request
        /\ response' = [response EXCEPT ![conf.OutgoingHeader] = id]
        /\ layer' = "tracing"
        /\ UNCHANGED <<conf, incoming>>

Trace ==
    LET traceID == IF request[conf.traceIDHeader] = "" THEN "trace"
                   ELSE request[conf.traceIDHeader]
        Set(headers) == [headers EXCEPT ![conf.traceIDHeader] = traceID,
                                        ![conf.spanIDHeader] = "span"]
    IN  /\ layer = "tracing"
        /\ request' = Set(request)
        /\ response' = Set(response)
        /\ layer' = "handler"
        /\ UNCHANGED <<conf, incoming>>

IDNext == AssignID \/ Correlate \/ Trace

-----------------------------------------------------------------------------
\* Headers whose value a configured Overwrite, or a new span, replaces.
Replaced ==
    {conf.spanIDHeader}
      \cup (IF conf.overwriteID THEN {conf.header} ELSE {})
      \cup (IF conf.Overwrite THEN {conf.IncomingHeader} ELSE {})

\* The headers that carry the correlation ID of a request from one name to
\* another, if tracing does not write to them afterwards.
Crossed ==
    IF conf.IncomingHeader = conf.OutgoingHeader THEN {}
    ELSE {conf.IncomingHeader, conf.OutgoingHeader}
           \ {conf.traceIDHeader, conf.spanIDHeader}

(***************************************************************************)
(* "Attaches it to the request header so downstream handlers can use it,   *)
(* and echoes it back on the response"; "if an incoming trace ID header is *)
(* already present it is preserved".  Whichever of the three share header  *)
(* names, handler and client see the same identifier in every header but   *)
(* those of a correlation ID that leaves under another name than it came,  *)
(* and the client's own identifiers are kept where no overwriting is asked *)
(* for.  Such a correlation ID is compared across its two names, if        *)
(* tracing writes to neither.  With the request ID under one of the two,   *)
(* the client may get the correlation ID there and the handler the request *)
(* ID: of that nothing is said here.                                       *)
(***************************************************************************)
IDsEchoed ==
    layer = "handler" =>
        /\ \A h \in Names \ Crossed :
              response[h] # "" => TrimSpace(response[h]) = TrimSpace(request[h])
        /\ \A h \in Names \ Replaced :
              TrimSpace(incoming[h]) # "" =>
                  TrimSpace(request[h]) = TrimSpace(incoming[h])
        /\ {conf.IncomingHeader, conf.OutgoingHeader}
             \cap {conf.traceIDHeader, conf.spanIDHeader} = {} =>
              response[conf.OutgoingHeader] = TrimSpace(request[conf.IncomingHeader])
        /\ request[conf.header] # "" /\ request[conf.traceIDHeader] # ""
=============================================================================
