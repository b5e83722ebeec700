---------------------------- MODULE StacksProofs ----------------------------
(***************************************************************************)
(* What the stacks of Stacks promise, for any numbers of attempts, Writes, *)
(* calls, elements and recorders: one attempt's response on the wire, room *)
(* for every attempt that ends, headers and statuses that agree, bodies    *)
(* that stay whole, identifiers that are the same for all, and counters    *)
(* that add up.                                                            *)
(***************************************************************************)
EXTENDS Stacks, CircuitBreakerProofs, GatedServerProofs

(***************************************************************************)
(* Hedging.                                                                *)
(***************************************************************************)
Gone == {a \in Attempts : attempt[a] = "gone"}

\* The first Write closes the wire for the others; who is not hedged has no
\* others.
WireClaimed ==
    /\ OneAttemptOnWire
    /\ hedging /\ wire # {} => written
    /\ ~hedging => /\ \A a \in Attempts \ {0} : attempt[a] = "none"
                   /\ \A x \in wire : x[1] = 0

\* Every value in the channel is from an attempt that has ended for good: the
\* timer, which fires once, starts no attempt that was there before.
ChannelAccounted ==
    /\ doneCh <= Cardinality(Gone)
    /\ timer => /\ loop \in {0, Over}
                /\ \A a \in Attempts \ {0} : attempt[a] = "none"

HedgingInv == HETypeOK /\ WireClaimed /\ ChannelAccounted

LEMMA GoneFinite ==
    /\ IsFiniteSet(Attempts) /\ Cardinality(Attempts) = MaxHedges + 1
    /\ IsFiniteSet(Gone) /\ Cardinality(Gone) \in Nat
<1>1. IsFiniteSet(Attempts) /\ Cardinality(Attempts) = MaxHedges + 1
  BY HedgingAssumption, FS_Interval DEF Attempts
<1>2. Gone \subseteq Attempts
  BY DEF Gone
<1>. QED BY <1>1, <1>2, FS_Subset, FS_CardinalityType

LEMMA InitHedgingInv == HEInit => HedgingInv
<1>. SUFFICES ASSUME HEInit PROVE HedgingInv
  OBVIOUS
<1>. USE HedgingAssumption DEF Attempts, Over
<1>1. HETypeOK
  <2>1. attempt \in [Attempts -> {"none", "running", "returned", "gone"}]
    BY DEF HEInit
  <2>2. writes \in [Attempts -> 0 .. MaxWrites]
    BY DEF HEInit
  <2>3. hedging \in BOOLEAN /\ timer \in BOOLEAN /\ written \in BOOLEAN
    BY Zenon DEF HEInit
  <2>. QED BY <2>1, <2>2, <2>3 DEF HEInit, HETypeOK
<1>2. WireClaimed
  BY DEF HEInit, WireClaimed, OneAttemptOnWire
<1>3. ChannelAccounted
  BY GoneFinite DEF HEInit, ChannelAccounted
<1>. QED BY <1>1, <1>2, <1>3 DEF HedgingInv

LEMMA WriteHeaderInv ==
    ASSUME HedgingInv, NEW a \in Attempts, WriteHeader(a) PROVE HedgingInv'
<1>. USE HedgingAssumption DEF HedgingInv, HETypeOK, Attempts, Over
<1>1. /\ attempt' = attempt /\ hedging' = hedging /\ written' = written
      /\ codes' = codes \cup {a} /\ doneCh' = doneCh /\ timer' = timer /\ loop' = loop
      /\ elapsed' = elapsed /\ writes' = writes
      /\ wire' = IF hedging THEN wire ELSE wire \cup {<<a, 0>>}
      /\ attempt[a] = "running"
  BY DEF WriteHeader
<1>2. HETypeOK'
  BY <1>1
<1>3. ~hedging => a = 0
  BY <1>1 DEF WireClaimed
<1>4. WireClaimed'
  BY <1>1, <1>3 DEF WireClaimed, OneAttemptOnWire
<1>5. ChannelAccounted'
  BY <1>1 DEF ChannelAccounted, Gone
<1>. QED BY <1>2, <1>4, <1>5

LEMMA WriteInv == ASSUME HedgingInv, NEW a \in Attempts, Write(a) PROVE HedgingInv'
<1>. USE HedgingAssumption DEF HedgingInv, HETypeOK, Attempts, Over
<1>1. HETypeOK'
  <2>1. writes'[a] \in 1 .. MaxWrites /\ writes' \in [Attempts -> 0 .. MaxWrites]
    BY DEF Write
  <2>2. wire' \subseteq Attempts \X (0 .. MaxWrites)
    BY <2>1 DEF Write
  <2>3. written' \in BOOLEAN
    BY Zenon DEF Write
  <2>. QED BY <2>1, <2>2, <2>3 DEF Write
<1>2. WireClaimed'
  <2>. DEFINE status == IF hedging /\ a \in codes THEN {<<a, 0>>} ELSE {}
  <2>1. attempt' = attempt /\ hedging' = hedging /\ written' = hedging
        /\ wire' = IF Forwards THEN wire \cup status \cup {<<a, writes'[a]>>} ELSE wire
    BY DEF Write
  <2>2. CASE hedging
    <3>1. CASE written
      BY <2>1, <2>2, <3>1 DEF WireClaimed, OneAttemptOnWire, Forwards
    <3>2. CASE ~written
      <4>1. wire = {}
        BY <2>2, <3>2 DEF WireClaimed
      <4>2. \A x \in wire' : x[1] = a
        BY <2>1, <3>2, <4>1 DEF Forwards
      <4>. QED BY <2>1, <2>2, <4>2 DEF WireClaimed, OneAttemptOnWire
    <3>. QED BY <3>1, <3>2
  <2>3. CASE ~hedging
    <3>1. a = 0
      BY <2>3 DEF WireClaimed, Write
    <3>2. \A x \in wire' : x[1] = 0
      BY <2>1, <2>3, <3>1 DEF WireClaimed
    <3>. QED BY <2>1, <2>3, <3>2 DEF WireClaimed, OneAttemptOnWire
  <2>. QED BY <2>2, <2>3
<1>3. ChannelAccounted'
  BY DEF Write, ChannelAccounted, Gone
<1>. QED BY <1>1, <1>2, <1>3

LEMMA ReturnInv == ASSUME HedgingInv, NEW a \in Attempts, Return(a) PROVE HedgingInv'
<1>. USE HedgingAssumption DEF HedgingInv, HETypeOK, Attempts, Over
<1>1. HETypeOK'
  BY DEF Return
<1>2. \A b \in Attempts \ {a} : attempt'[b] = attempt[b]
  BY DEF Return
<1>3. a # 0 => hedging /\ ~timer
  BY DEF Return, WireClaimed, ChannelAccounted
<1>4. WireClaimed'
  BY <1>2, <1>3 DEF Return, WireClaimed, OneAttemptOnWire
<1>5. Gone' = Gone
  BY DEF Return, Gone
<1>6. ChannelAccounted'
  BY <1>2, <1>3, <1>5 DEF Return, ChannelAccounted
<1>. QED BY <1>1, <1>4, <1>6

LEMMA SendInv == ASSUME HedgingInv, NEW a \in Attempts, Send(a) PROVE HedgingInv'
<1>. USE HedgingAssumption DEF HedgingInv, HETypeOK, Attempts, Over
<1>1. HETypeOK'
  BY DEF Send, Capacity
<1>2. \A b \in Attempts \ {a} : attempt'[b] = attempt[b]
  BY DEF Send
<1>3. hedging /\ (a # 0 => ~timer)
  BY DEF Send, ChannelAccounted
<1>4. WireClaimed'
  BY <1>2, <1>3 DEF Send, WireClaimed, OneAttemptOnWire
<1>5. Gone' = Gone \cup {a} /\ a \notin Gone
  BY DEF Send, Gone
<1>6. Cardinality(Gone') = Cardinality(Gone) + 1
  BY <1>5, GoneFinite, FS_AddElement
<1>7. ChannelAccounted'
  BY <1>2, <1>3, <1>6, GoneFinite DEF Send, ChannelAccounted
<1>. QED BY <1>1, <1>4, <1>7

LEMMA HedgeInv == ASSUME HedgingInv, Hedge PROVE HedgingInv'
<1>. USE HedgingAssumption DEF HedgingInv, HETypeOK, Attempts, Over
<1>1. /\ loop = 0 /\ loop' = 1 /\ timer' = FALSE /\ hedging /\ 1 \in Attempts
      /\ attempt' = [attempt EXCEPT ![1] = "running"] /\ attempt[1] = "none"
  <2>1. loop = 0 /\ loop' = 1 /\ timer' = FALSE /\ hedging /\ 1 \in Attempts
    BY DEF Hedge, ChannelAccounted, Last
  <2>2. attempt[1] = "none"
    BY <2>1 DEF Hedge, ChannelAccounted
  <2>3. attempt' = [attempt EXCEPT ![1] = "running"]
    BY <2>1, Zenon DEF Hedge
  <2>. QED BY <2>1, <2>2, <2>3
<1>2. HETypeOK'
  <2>1. attempt' \in [Attempts -> {"none", "running", "returned", "gone"}]
    BY <1>1
  <2>2. loop' \in 0 .. Over
    BY <1>1
  <2>3. timer' \in BOOLEAN
    BY <1>1, Zenon
  <2>. QED BY <2>1, <2>2, <2>3 DEF Hedge
<1>3. WireClaimed'
  BY <1>1 DEF Hedge, WireClaimed, OneAttemptOnWire
<1>4. Gone' = Gone
  BY <1>1 DEF Gone
<1>5. ChannelAccounted'
  BY <1>1, <1>4 DEF Hedge, ChannelAccounted
<1>. QED BY <1>2, <1>3, <1>5

LEMMA DoneInv == ASSUME HedgingInv, Done PROVE HedgingInv'
<1>. USE HedgingAssumption DEF HedgingInv, HETypeOK, Attempts, Over
<1>1. HETypeOK' /\ WireClaimed'
  BY DEF Done, WireClaimed, OneAttemptOnWire
<1>2. ChannelAccounted'
  BY GoneFinite DEF Done, ChannelAccounted, Gone
<1>. QED BY <1>1, <1>2

LEMMA HedgingStutters == HedgingInv /\ UNCHANGED heVars => HedgingInv'
BY DEF HedgingInv, HETypeOK, WireClaimed, OneAttemptOnWire, ChannelAccounted, Gone, heVars

LEMMA HedgingStep == HedgingInv /\ HENext => HedgingInv'
<1>. SUFFICES ASSUME HedgingInv, HENext PROVE HedgingInv'
  OBVIOUS
<1>1. CASE HETick
  BY <1>1, HedgingAssumption DEF HETick, HedgingInv, HETypeOK, WireClaimed,
                                  OneAttemptOnWire, ChannelAccounted,
     Gone
<1>. QED BY <1>1, WriteHeaderInv, WriteInv, ReturnInv, SendInv, HedgeInv, DoneInv DEF HENext

LEMMA RoomForDone == HedgingInv => DoneHasRoom
<1>. SUFFICES ASSUME HedgingInv, NEW a \in Attempts, attempt[a] = "returned"
              PROVE  doneCh < Capacity
  BY DEF DoneHasRoom
<1>1. Gone \subseteq Attempts /\ Gone # Attempts
  BY DEF Gone
<1>2. Cardinality(Gone) <= Cardinality(Attempts)
      /\ Cardinality(Gone) # Cardinality(Attempts)
  BY <1>1, GoneFinite, FS_Subset, Zenon
<1>. QED BY <1>2, GoneFinite, HedgingAssumption
         DEF HedgingInv, HETypeOK, ChannelAccounted, Capacity

\* The timeout around it adds no variable of its own to the hedging.
TimeoutInv == TOTypeOK /\ HedgingInv

LEMMA TimeoutStep == TimeoutInv /\ TONext => TimeoutInv'
<1>. SUFFICES ASSUME TimeoutInv, TONext PROVE TimeoutInv'
  OBVIOUS
<1>1. CASE HENext /\ UNCHANGED toVars
  BY <1>1, HedgingStep DEF TimeoutInv, TOTypeOK, HedgingInv, toVars
<1>2. CASE ClientLeaves
  BY <1>2, HedgingStutters DEF ClientLeaves, TimeoutInv, TOTypeOK, HedgingInv
<1>3. CASE Outer
  BY <1>3, HedgingStutters DEF Outer, Direct, Answered, TimedOut, Exceeded, TimeoutInv,
     TOTypeOK, HedgingInv, Stages
<1>. QED BY <1>1, <1>2, <1>3 DEF TONext

-----------------------------------------------------------------------------
(***************************************************************************)
(* Metrics.                                                                *)
(***************************************************************************)
\* A Reset that nobody overlaps finds nobody recording until it has ended.
CountersAgree ==
    ~torn =>
        /\ reset = "none" => total = allowed + blocked + Cardinality(Recording)
        /\ reset # "none" => allowed = 0 /\ Recording = {}
        /\ reset = "total" => blocked = 0

MetricsInv == METypeOK /\ CountersAgree

LEMMA RecordingFinite ==
    IsFiniteSet(Recording) /\ Cardinality(Recording) \in Nat
<1>1. Recording \subseteq Recorders
  BY DEF Recording
<1>. QED BY <1>1, MetricsAssumption, FS_Subset, FS_CardinalityType

LEMMA InitMetricsInv == MEInit => MetricsInv
<1>. SUFFICES ASSUME MEInit PROVE MetricsInv
  OBVIOUS
<1>1. Recording = {}
  BY DEF MEInit, Recording
<1>2. METypeOK
  <2>1. torn \in BOOLEAN
    BY Zenon DEF MEInit
  <2>. QED BY <2>1, MetricsAssumption DEF MEInit, METypeOK
<1>. QED BY <1>1, <1>2, FS_EmptySet DEF MEInit, MetricsInv, CountersAgree

LEMMA AddTotalInv ==
    ASSUME MetricsInv, NEW r \in Recorders, NEW v \in {"allowed", "blocked"}, AddTotal(r, v)
    PROVE  MetricsInv'
<1>. USE MetricsAssumption DEF MetricsInv, METypeOK
<1>1. METypeOK'
  <2>1. torn' \in BOOLEAN
    BY Zenon DEF AddTotal
  <2>. QED BY <2>1 DEF AddTotal
<1>2. Recording' = Recording \cup {r} /\ r \notin Recording
  BY DEF AddTotal, Recording
<1>3. Cardinality(Recording') = Cardinality(Recording) + 1
  BY <1>2, RecordingFinite, FS_AddElement
<1>4. CountersAgree'
  <2>. SUFFICES ASSUME ~torn' PROVE CountersAgree'
    BY DEF CountersAgree
  <2>1. /\ reset = "none" /\ reset' = "none" /\ ~torn
        /\ total' = total + 1 /\ allowed' = allowed /\ blocked' = blocked
    BY DEF AddTotal
  <2>2. total = allowed + blocked + Cardinality(Recording)
    BY <2>1 DEF CountersAgree
  <2>3. total' = allowed' + blocked' + Cardinality(Recording')
    <3>. DEFINE n == Cardinality(Recording)
                m == Cardinality(Recording')
    <3>1. n \in Nat /\ m = n + 1 /\ total = allowed + blocked + n
      BY <1>3, <2>2, RecordingFinite
    <3>2. allowed \in Int /\ blocked \in Int
      OBVIOUS
    <3>. HIDE DEF n, m
    <3>3. total' = allowed' + blocked' + m
      BY ONLY <2>1, <3>1, <3>2
    <3>. QED BY <3>3 DEF m
  <2>. QED BY <2>1, <2>3 DEF CountersAgree
<1>. QED BY <1>1, <1>4

LEMMA AddVerdictInv ==
    ASSUME MetricsInv, NEW r \in Recorders, AddVerdict(r)
    PROVE  MetricsInv'
<1>. USE MetricsAssumption DEF MetricsInv, METypeOK
<1>1. METypeOK'
  <2>1. torn' \in BOOLEAN
    BY Zenon DEF AddVerdict
  <2>. QED BY <2>1 DEF AddVerdict
<1>2. Recording' = Recording \ {r} /\ r \in Recording
  BY DEF AddVerdict, Recording
<1>3. Cardinality(Recording') = Cardinality(Recording) - 1
  BY <1>2, RecordingFinite, FS_RemoveElement
<1>4. allowed' + blocked' = allowed + blocked + 1
  BY DEF AddVerdict
<1>5. allowed' \in Int /\ blocked' \in Int
  BY <1>1
<1>6. CountersAgree'
  <2>. SUFFICES ASSUME ~torn' PROVE CountersAgree'
    BY DEF CountersAgree
  <2>1. reset = "none" /\ reset' = "none" /\ total' = total /\ ~torn
    BY DEF AddVerdict
  <2>2. total = allowed + blocked + Cardinality(Recording)
    BY <2>1 DEF CountersAgree
  <2>3. total' = allowed' + blocked' + Cardinality(Recording')
    <3>. DEFINE n == Cardinality(Recording)
                m == Cardinality(Recording')
    <3>1. n \in Nat /\ m = n - 1 /\ total = allowed + blocked + n
      BY <1>3, <2>2, RecordingFinite
    <3>2. allowed \in Int /\ blocked \in Int
      OBVIOUS
    <3>. HIDE DEF n, m
    <3>3. total' = allowed + blocked + 1 + m
      BY ONLY <2>1, <3>1, <3>2
    <3>4. total' = allowed' + blocked' + m
      BY ONLY <1>4, <3>3
    <3>. QED BY <3>4 DEF m
  <2>. QED BY <2>1, <2>3 DEF CountersAgree
<1>. QED BY <1>1, <1>6

LEMMA ResetInv ==
    ASSUME MetricsInv, ResetAllowed \/ ResetBlocked \/ ResetTotal
    PROVE  MetricsInv'
<1>. USE MetricsAssumption DEF MetricsInv, METypeOK
<1>1. Recording' = Recording
  BY DEF ResetAllowed, ResetBlocked, ResetTotal, Recording
<1>2. Recording = {} => Cardinality(Recording) = 0
  BY FS_EmptySet
<1>3. CASE ResetAllowed
  <2>1. torn' \in BOOLEAN /\ (~torn' => Recording = {})
    BY <1>3, Zenon DEF ResetAllowed
  <2>2. METypeOK'
    BY <1>3, <2>1 DEF ResetAllowed
  <2>. QED BY <1>1, <1>3, <2>1, <2>2 DEF ResetAllowed, CountersAgree
<1>4. CASE ResetBlocked
  BY <1>1, <1>4 DEF ResetBlocked, CountersAgree
<1>5. CASE ResetTotal
  BY <1>1, <1>2, <1>5 DEF ResetTotal, CountersAgree
<1>. QED BY <1>3, <1>4, <1>5

LEMMA MetricsStep == MetricsInv /\ MENext => MetricsInv'
<1>. SUFFICES ASSUME MetricsInv, MENext PROVE MetricsInv'
  OBVIOUS
<1>1. ASSUME NEW r \in Recorders, AddTotal(r, "allowed") \/ AddTotal(r, "blocked")
      PROVE  MetricsInv'
  BY <1>1, AddTotalInv
<1>. QED BY <1>1, AddVerdictInv, ResetInv DEF MENext

LEMMA MetricsStutters == MetricsInv /\ UNCHANGED meVars => MetricsInv'
BY DEF MetricsInv, METypeOK, CountersAgree, Recording, meVars

-----------------------------------------------------------------------------
(***************************************************************************)
(* Identifiers.                                                            *)
(***************************************************************************)
\* Headers that a middleware before the tracing may have replaced.
ReplacedEarly ==
    (IF conf.overwriteID THEN {conf.header} ELSE {})
      \cup (IF conf.Overwrite THEN {conf.IncomingHeader} ELSE {})

\* What the request carries is the client's, but for what is replaced.
ClientsKept(replaced) ==
    \A h \in Names \ replaced :
        TrimSpace(incoming[h]) # "" => TrimSpace(request[h]) = TrimSpace(incoming[h])

\* The names of a correlation ID that leaves under another one than it came.
CrossedEarly ==
    IF conf.IncomingHeader = conf.OutgoingHeader THEN {}
    ELSE {conf.IncomingHeader, conf.OutgoingHeader}

\* The request ID is on the request and alone on the response; then what the
\* response says is what the request says, but under those names.
IDsSoFar ==
    /\ layer = "request_id" =>
         request = incoming /\ \A h \in Names : response[h] = ""
    /\ layer = "correlation" =>
         /\ request[conf.header] # ""
         /\ \A h \in Names : response[h] \in {"", request[h]}
         /\ ClientsKept(ReplacedEarly)
    /\ layer = "tracing" =>
         /\ request[conf.header] # ""
         /\ response[conf.OutgoingHeader] = TrimSpace(request[conf.IncomingHeader])
         /\ \A h \in Names \ CrossedEarly :
              response[h] # "" => TrimSpace(response[h]) = TrimSpace(request[h])
         /\ ClientsKept(ReplacedEarly)
    /\ IDsEchoed

IDsInv == IDTypeOK /\ IDsSoFar

LEMMA ConfFacts ==
    ASSUME IDTypeOK
    PROVE  /\ conf.header \in Names /\ conf.IncomingHeader \in Names
           /\ conf.OutgoingHeader \in Names
           /\ conf.traceIDHeader \in Names /\ conf.spanIDHeader \in Names
BY DEF IDTypeOK, IDConfigs, Names

\* TrimSpace takes blanks away and nothing else.
LEMMA Trimmed ==
    /\ TrimSpace("") = "" /\ TrimSpace("id") = "id" /\ TrimSpace("trace") = "trace"
    /\ TrimSpace("span") = "span" /\ TrimSpace("correlation") = "correlation"
    /\ TrimSpace("client") = "client"
    /\ \A v \in HeaderValues \cup {""} :
          TrimSpace(TrimSpace(v)) = TrimSpace(v)
          /\ TrimSpace(v) \in HeaderValues \cup {""}
BY IncomingAssumption DEF TrimSpace, HeaderValues

LEMMA InitIDsInv == IDInit => IDsInv
<1>. SUFFICES ASSUME IDInit PROVE IDsInv
  OBVIOUS
<1>1. IDTypeOK
  BY DEF IDInit, IDTypeOK, Incoming, HeaderValues, Layers
<1>2. IDsSoFar
  BY DEF IDInit, IDsSoFar, IDsEchoed
<1>. QED BY <1>1, <1>2 DEF IDsInv

LEMMA AssignIDInv == ASSUME IDsInv, AssignID PROVE IDsInv'
<1>. USE ConfFacts DEF IDsInv
<1>. DEFINE fresh == request[conf.header] = "" \/ conf.overwriteID
            id == IF fresh THEN "id" ELSE request[conf.header]
<1>1. /\ request = incoming /\ layer' = "correlation"
      /\ conf' = conf /\ incoming' = incoming
      /\ request' = [request EXCEPT ![conf.header] = id]
      /\ response' = [response EXCEPT ![conf.header] = id]
  BY DEF AssignID, IDsSoFar
<1>2. id # "" /\ id \in HeaderValues \cup {""}
  BY DEF IDTypeOK, HeaderValues
<1>3. /\ \A h \in Names : request'[h] = IF h = conf.header THEN id ELSE request[h]
      /\ \A h \in Names : response'[h] = IF h = conf.header THEN id ELSE response[h]
  BY <1>1 DEF IDTypeOK
<1>4. IDTypeOK'
  <2>. HIDE DEF id
  <2>1. /\ request' \in [Names -> HeaderValues \cup {""}]
        /\ response' \in [Names -> HeaderValues \cup {""}]
    BY <1>1, <1>2 DEF IDTypeOK
  <2>2. conf' \in IDConfigs /\ incoming' \in Incoming /\ layer' \in Layers
    BY ONLY IDsInv, <1>1 DEF IDsInv, IDTypeOK, Layers
  <2>. QED BY <2>1, <2>2 DEF IDTypeOK
<1>5. \A h \in Names : response'[h] \in {"", request'[h]}
  BY <1>1, <1>3 DEF IDsSoFar, AssignID
<1>6. ClientsKept(ReplacedEarly)'
  <2>. SUFFICES ASSUME NEW h \in Names, h \notin ReplacedEarly', TrimSpace(incoming[h]) # ""
                PROVE  TrimSpace(request'[h]) = TrimSpace(incoming[h])
    BY <1>1 DEF ClientsKept
  <2>1. CASE h = conf.header
    <3>1. ~conf.overwriteID
      BY <1>1, <2>1 DEF ReplacedEarly
    <3>2. request[h] # ""
      BY <1>1, Trimmed
    <3>. QED BY <1>1, <1>3, <2>1, <3>1, <3>2
  <2>2. CASE h # conf.header
    BY <1>1, <1>3, <2>2
  <2>. QED BY <2>1, <2>2
<1>7. request'[conf'.header] # ""
  BY <1>1, <1>2, <1>3
<1>. QED BY <1>1, <1>4, <1>5, <1>6, <1>7 DEF IDsSoFar, IDsEchoed

LEMMA CorrelateInv == ASSUME IDsInv, Correlate PROVE IDsInv'
<1>. USE ConfFacts DEF IDsInv
<1>. DEFINE id == IF CorrelationFresh THEN "correlation"
                  ELSE TrimSpace(request[conf.IncomingHeader])
<1>1. /\ layer = "correlation" /\ layer' = "tracing"
      /\ conf' = conf /\ incoming' = incoming
      /\ response' = [response EXCEPT ![conf.OutgoingHeader] = id]
      /\ request' = IF CorrelationFresh THEN Correlated ELSE request
  BY DEF Correlate
<1>2. request \in [Names -> HeaderValues \cup {""}]
      /\ response \in [Names -> HeaderValues \cup {""}]
  BY DEF IDTypeOK
<1>3. /\ id \in HeaderValues \cup {""} /\ id # "" /\ TrimSpace(id) = id
      /\ "correlation" \in HeaderValues
  BY <1>2, Trimmed DEF CorrelationFresh, HeaderValues
<1>4. /\ \A h \in Names :
            request'[h] = IF h = conf.IncomingHeader /\ CorrelationFresh
                          THEN "correlation" ELSE request[h]
      /\ \A h \in Names :
            response'[h] = IF h = conf.OutgoingHeader THEN id ELSE response[h]
      /\ TrimSpace(request'[conf.IncomingHeader]) = id
  <2>1. \A h \in Names :
            request'[h] = IF h = conf.IncomingHeader /\ CorrelationFresh
                          THEN "correlation" ELSE request[h]
    BY <1>1, <1>2 DEF Correlated
  <2>2. \A h \in Names :
            response'[h] = IF h = conf.OutgoingHeader THEN id ELSE response[h]
    BY <1>1, <1>2
  <2>. QED BY <2>1, <2>2, Trimmed
<1>5. IDTypeOK'
  <2>1. response' \in [Names -> HeaderValues \cup {""}]
    <3>. HIDE DEF id
    <3>. QED BY <1>1, <1>2, <1>3
  <2>2. request' \in [Names -> HeaderValues \cup {""}]
    BY <1>1, <1>2, <1>3 DEF Correlated
  <2>3. conf' \in IDConfigs /\ incoming' \in Incoming /\ layer' \in Layers
    BY ONLY IDsInv, <1>1 DEF IDsInv, IDTypeOK, Layers
  <2>. QED BY <2>1, <2>2, <2>3 DEF IDTypeOK
<1>6. request'[conf'.header] # "" /\ response'[conf'.OutgoingHeader] = TrimSpace(request'[conf'.IncomingHeader])
  BY <1>1, <1>4 DEF IDsSoFar
<1>7. ASSUME NEW h \in Names \ CrossedEarly, response'[h] # ""
      PROVE  TrimSpace(response'[h]) = TrimSpace(request'[h])
  <2>0. h = conf.OutgoingHeader <=> h = conf.IncomingHeader
    BY <1>7 DEF CrossedEarly
  <2>1. CASE h = conf.OutgoingHeader
    BY <1>3, <1>4, <1>7, <2>0, <2>1
  <2>2. CASE h # conf.OutgoingHeader
    <3>1. response[h] \in {"", request[h]}
      BY <1>1 DEF IDsSoFar
    <3>. QED BY <1>4, <1>7, <2>0, <2>2, <3>1
  <2>. QED BY <2>1, <2>2
<1>8. ClientsKept(ReplacedEarly)'
  <2>. SUFFICES ASSUME NEW h \in Names, h \notin ReplacedEarly', TrimSpace(incoming[h]) # ""
                PROVE  TrimSpace(request'[h]) = TrimSpace(incoming[h])
    BY <1>1 DEF ClientsKept
  <2>1. h \notin ReplacedEarly
    BY <1>1 DEF ReplacedEarly
  <2>2. TrimSpace(request[h]) = TrimSpace(incoming[h])
    BY <1>1, <2>1 DEF IDsSoFar, ClientsKept
  <2>3. h = conf.IncomingHeader => ~CorrelationFresh
    BY <2>1, <2>2 DEF CorrelationFresh, ReplacedEarly
  <2>. QED BY <1>4, <2>2, <2>3
<1>9. CrossedEarly' = CrossedEarly
  BY <1>1 DEF CrossedEarly
<1>. QED BY <1>1, <1>5, <1>6, <1>7, <1>8, <1>9 DEF IDsSoFar, IDsEchoed

LEMMA TraceInv == ASSUME IDsInv, Trace PROVE IDsInv'
<1>. USE ConfFacts DEF IDsInv
<1>. DEFINE traceID == IF request[conf.traceIDHeader] = "" THEN "trace"
                       ELSE request[conf.traceIDHeader]
<1>1. /\ layer = "tracing" /\ layer' = "handler"
      /\ conf' = conf /\ incoming' = incoming
      /\ request' = [request EXCEPT ![conf.traceIDHeader] = traceID,
                                    ![conf.spanIDHeader] = "span"]
      /\ response' = [response EXCEPT ![conf.traceIDHeader] = traceID,
                                      ![conf.spanIDHeader] = "span"]
  BY DEF Trace
<1>2. request \in [Names -> HeaderValues \cup {""}]
      /\ response \in [Names -> HeaderValues \cup {""}]
  BY DEF IDTypeOK
<1>3. traceID \in HeaderValues \cup {""} /\ traceID # "" /\ "span" \in HeaderValues
  BY <1>2 DEF HeaderValues
<1>4. /\ \A h \in Names :
            request'[h] = IF h = conf.spanIDHeader THEN "span"
                          ELSE IF h = conf.traceIDHeader THEN traceID ELSE request[h]
      /\ \A h \in Names :
            response'[h] = IF h = conf.spanIDHeader THEN "span"
                           ELSE IF h = conf.traceIDHeader THEN traceID ELSE response[h]
  <2>. HIDE DEF traceID
  <2>. QED BY <1>1, <1>2
<1>5. IDTypeOK'
  <2>1. /\ request' \in [Names -> HeaderValues \cup {""}]
        /\ response' \in [Names -> HeaderValues \cup {""}]
    <3>. HIDE DEF traceID
    <3>. QED BY <1>1, <1>2, <1>3
  <2>2. conf' \in IDConfigs /\ incoming' \in Incoming /\ layer' \in Layers
    BY ONLY IDsInv, <1>1 DEF IDsInv, IDTypeOK, Layers
  <2>. QED BY <2>1, <2>2 DEF IDTypeOK
<1>6. ASSUME NEW h \in Names \ Crossed', response'[h] # ""
      PROVE  TrimSpace(response'[h]) = TrimSpace(request'[h])
  <2>. HIDE DEF traceID
  <2>1. CASE h \in {conf.traceIDHeader, conf.spanIDHeader}
    BY <1>4, <2>1
  <2>2. CASE h \notin {conf.traceIDHeader, conf.spanIDHeader}
    <3>1. h \notin CrossedEarly
      BY <1>1, <1>6, <2>2 DEF Crossed, CrossedEarly
    <3>2. response[h] # "" => TrimSpace(response[h]) = TrimSpace(request[h])
      BY <1>1, <3>1 DEF IDsSoFar
    <3>3. request'[h] = request[h] /\ response'[h] = response[h]
      BY <1>4, <2>2
    <3>. QED BY <1>6, <3>2, <3>3
  <2>. QED BY <2>1, <2>2
<1>7. ASSUME NEW h \in Names \ Replaced', TrimSpace(incoming[h]) # ""
      PROVE  TrimSpace(request'[h]) = TrimSpace(incoming[h])
  <2>1. h \in Names \ ReplacedEarly /\ h # conf.spanIDHeader
    BY <1>1, <1>7 DEF Replaced, ReplacedEarly
  <2>2. TrimSpace(request[h]) = TrimSpace(incoming[h])
    BY <1>1, <1>7, <2>1 DEF IDsSoFar, ClientsKept
  <2>3. request[h] # ""
    BY <1>7, <2>2, Trimmed
  <2>. QED BY <1>4, <2>1, <2>2, <2>3
<1>8. ASSUME {conf.IncomingHeader, conf.OutgoingHeader}
               \cap {conf.traceIDHeader, conf.spanIDHeader} = {}
      PROVE  response'[conf.OutgoingHeader] = TrimSpace(request'[conf.IncomingHeader])
  <2>1. response[conf.OutgoingHeader] = TrimSpace(request[conf.IncomingHeader])
    BY <1>1 DEF IDsSoFar
  <2>2. /\ conf.IncomingHeader \notin {conf.traceIDHeader, conf.spanIDHeader}
        /\ conf.OutgoingHeader \notin {conf.traceIDHeader, conf.spanIDHeader}
    BY <1>8
  <2>. HIDE DEF traceID
  <2>3. /\ request'[conf.IncomingHeader] = request[conf.IncomingHeader]
        /\ response'[conf.OutgoingHeader] = response[conf.OutgoingHeader]
    BY <1>4, <2>2
  <2>. QED BY <2>1, <2>3
<1>9. request'[conf.header] # "" /\ request'[conf.traceIDHeader] # ""
  <2>1. request[conf.header] # ""
    BY <1>1 DEF IDsSoFar
  <2>. HIDE DEF traceID
  <2>. QED BY <1>3, <1>4, <2>1
<1>10. IDsEchoed'
  BY <1>1, <1>6, <1>7, <1>8, <1>9 DEF IDsEchoed
<1>. QED BY <1>1, <1>5, <1>10 DEF IDsSoFar

LEMMA IDsStep == IDsInv /\ IDNext => IDsInv'
BY AssignIDInv, CorrelateInv, TraceInv DEF IDNext

LEMMA IDsStutter == IDsInv /\ UNCHANGED idVars => IDsInv'
BY DEF IDsInv, IDTypeOK, IDsSoFar, IDsEchoed, ClientsKept, ReplacedEarly, Replaced,
       Crossed, CrossedEarly, idVars

-----------------------------------------------------------------------------
(***************************************************************************)
(* Shadow mode.                                                            *)
(***************************************************************************)
ShadowAnswer ==
    server = "returned" =>
        shadow = "done" /\ onBlock = IF recCode = 429 THEN 1 ELSE 0

ShadowInv ==
    /\ SHTypeOK /\ ShadowAnswer
    /\ shadow = "limiting" => onBlock = 0
    /\ shadow = "reporting" => onBlock = 0 /\ recCode = 429
    /\ shadow = "done" => onBlock = IF recCode = 429 THEN 1 ELSE 0

LEMMA InitShadowInv == SHInit => ShadowInv
BY DEF SHInit, ShadowInv, SHTypeOK, ShadowAnswer

LEMMA ShadowStep == ShadowInv /\ SHNext => ShadowInv'
<1>. USE DEF ShadowInv, SHTypeOK, ShadowAnswer
<1>1. ShadowInv /\ LimiterDecides => ShadowInv'
  BY DEF LimiterDecides
<1>2. ShadowInv /\ (RealHandlerReturns \/ RealHandlerPanics) => ShadowInv'
  BY DEF RealHandlerReturns, RealHandlerPanics
<1>3. ShadowInv /\ (ReportBlock \/ ShadowReturns) => ShadowInv'
  BY DEF ReportBlock, ShadowReturns, WaitDone
<1>. QED BY ONLY <1>1, <1>2, <1>3 DEF SHNext

LEMMA ShadowStutters == ShadowInv /\ UNCHANGED shVars => ShadowInv'
BY DEF ShadowInv, SHTypeOK, ShadowAnswer, shVars

-----------------------------------------------------------------------------
(***************************************************************************)
(* The adaptive limit.                                                     *)
(***************************************************************************)
\* The defaults make a configuration whole: marks that are marks, and limits
\* that are positive and in their order.
LEMMA ConfigFacts ==
    ASSUME NEW c \in Configs
    PROVE  /\ c.BaseLimit \in Nat /\ c.MinLimit \in Nat /\ c.MaxLimit \in Nat
           /\ c.MinLimit >= 1 /\ c.MinLimit <= c.MaxLimit
           /\ c.HighLoadMark \in 0 .. 100 /\ c.LowLoadMark \in 0 .. 100
<1>1. PICK d \in AdaptiveConfigs : c = WithDefaults(d)
  BY DEF Configs
<1>2. /\ d.BaseLimit \in Nat /\ d.MinLimit \in Int /\ d.MaxLimit \in Int
      /\ d.HighLoadMark \in 0 .. 100 /\ d.LowLoadMark \in 0 .. 100
      /\ d \in [BaseLimit : Nat, MinLimit : Int, MaxLimit : Int,
                HighLoadMark : 0 .. 100, LowLoadMark : 0 .. 100, LoadFunc : BOOLEAN]
  BY AdaptiveAssumption
<1>3. c.MinLimit <= c.MaxLimit
  BY <1>1, AdaptiveAssumption
<1>4. /\ c.BaseLimit = d.BaseLimit
      /\ c.MinLimit = IF d.MinLimit <= 0 THEN 1 ELSE d.MinLimit
      /\ c.MaxLimit = IF d.MaxLimit <= 0 THEN 2 * d.BaseLimit ELSE d.MaxLimit
      /\ c.HighLoadMark = IF d.HighLoadMark = 0 THEN 80 ELSE d.HighLoadMark
      /\ c.LowLoadMark = IF d.LowLoadMark = 0 THEN 40 ELSE d.LowLoadMark
  BY <1>1, <1>2 DEF WithDefaults
<1>. QED BY <1>2, <1>3, <1>4

\* Between the marks, and at them, the limit is between its bounds.
LEMMA LimitBounded ==
    ASSUME NEW l \in Loads, config \in Configs
    PROVE  /\ Limit(l) \in Nat
           /\ config.MinLimit <= Limit(l) /\ Limit(l) <= config.MaxLimit
<1>. DEFINE low == config.LowLoadMark
            high == config.HighLoadMark
            min == config.MinLimit
            max == config.MaxLimit
<1>1. /\ min \in Nat /\ max \in Nat /\ min <= max
      /\ low \in Int /\ high \in Int /\ l \in Int
  BY ConfigFacts, AdaptiveAssumption
<1>2. CASE l >= high \/ l <= low
  BY <1>1, <1>2 DEF Limit
<1>3. CASE l < high /\ l > low
  <2>. DEFINE cut == ((l - low) * (max - min)) \div (high - low)
  <2>1. Limit(l) = max - cut
    BY <1>1, <1>3 DEF Limit
  <2>. HIDE DEF low, high, min, max
  <2>2. /\ (l - low) * (max - min) >= 0
        /\ (l - low) * (max - min) <= (high - low) * (max - min)
    BY <1>1, <1>3
  <2>3. cut \in Int /\ 0 <= cut /\ cut <= max - min
    BY <1>1, <1>3, <2>2
  <2>. HIDE DEF cut
  <2>4. Limit(l) \in Nat /\ min <= Limit(l) /\ Limit(l) <= max
    BY <1>1, <2>1, <2>3
  <2>. QED BY <2>4 DEF min, max
<1>. QED BY <1>1, <1>2, <1>3

\* Between the marks the limit is on the line through them, rounded up.
LEMMA LimitFits ==
    ASSUME NEW l \in Loads, config \in Configs
    PROVE  Fits(l, Limit(l))
<1>. DEFINE low == config.LowLoadMark
            high == config.HighLoadMark
            min == config.MinLimit
            max == config.MaxLimit
<1>1. /\ min \in Nat /\ max \in Nat /\ min <= max
      /\ low \in Int /\ high \in Int /\ l \in Int
  BY ConfigFacts, AdaptiveAssumption
<1>2. CASE l >= high \/ l <= low
  BY <1>1, <1>2 DEF Limit, Fits
<1>3. CASE l < high /\ l > low
  <2>. DEFINE span == max - min
              range == high - low
              part == (l - low) * span
              cut == part \div range
  <2>1. Limit(l) = max - cut
    BY <1>1, <1>3 DEF Limit
  <2>2. span \in Nat /\ range \in Nat \ {0} /\ part \in Int
    BY <1>1, <1>3
  <2>3. (high - l) * span = range * span - part
    BY <1>1
  <2>. HIDE DEF part, span, range
  <2>4. cut \in Int /\ range * cut <= part /\ part < range * cut + range
    BY <2>2
  <2>. HIDE DEF cut
  <2>5. /\ (span - cut) * range = range * span - range * cut
        /\ (span - cut - 1) * range = range * span - range * cut - range
    BY <2>2, <2>4
  <2>6. range * span \in Int /\ range * cut \in Int
    BY <2>2, <2>4
  <2>7. /\ (span - cut) * range >= (high - l) * span
        /\ (span - cut - 1) * range < (high - l) * span
    BY <2>2, <2>3, <2>4, <2>5, <2>6
  <2>8. max - cut - min = span - cut
    BY <1>1, <2>4 DEF span
  <2>9. OnLine(l, max - cut)
    BY <2>7, <2>8 DEF OnLine, span, range
  <2>. QED BY <1>1, <1>3, <2>1, <2>9 DEF Fits
<1>. QED BY <1>1, <1>2, <1>3

LEMMA InitAdaptive == ADInit => ADTypeOK
<1>. SUFFICES ASSUME ADInit PROVE ADTypeOK
  OBVIOUS
<1>1. currentLimit \in Nat
  BY ConfigFacts DEF ADInit
<1>. QED BY <1>1 DEF ADInit, ADTypeOK

LEMMA AdaptiveStep == ADTypeOK /\ ADNext => ADTypeOK'
<1>. SUFFICES ASSUME ADTypeOK, ADNext PROVE ADTypeOK'
  OBVIOUS
<1>1. CASE LoadChanges
  BY <1>1 DEF ADTypeOK, LoadChanges
<1>2. ASSUME NEW r \in Askers, ReadLoad(r) PROVE ADTypeOK'
  BY <1>2 DEF ADTypeOK, ReadLoad
<1>3. ASSUME NEW r \in Askers, StoreLimit(r) PROVE ADTypeOK'
  <2>1. Limit(reading[r]) \in Nat
    BY LimitBounded DEF ADTypeOK
  <2>. QED BY <1>3, <2>1 DEF ADTypeOK, StoreLimit
<1>4. ASSUME NEW r \in Askers, ShowLimit(r) PROVE ADTypeOK'
  BY <1>4 DEF ADTypeOK, ShowLimit
<1>. QED BY <1>1, <1>2, <1>3, <1>4 DEF ADNext, ADStep

-----------------------------------------------------------------------------
(***************************************************************************)
(* Bodies.                                                                 *)
(***************************************************************************)
Readers == [pos : Nat, left : Nat, stuck : {"no", "eof", "error"},
            broke : BOOLEAN, closed : BOOLEAN]

\* seq is what a body has after its first n elements.
Continues(seq, n) ==
    seq \in Seq(Nat) /\ \A i \in 1 .. Len(seq) : seq[i] = n + i

\* The readers while nothing went wrong: what the limit has left, and the end
\* only where the body ends.
Sound(s) ==
    /\ s.pos <= setup.cut /\ s.stuck # "error" /\ ~s.broke /\ ~s.closed
    /\ setup.maxBytes > 0 => s.pos + s.left = setup.maxBytes
    /\ setup.maxBytes = 0 => s.left = 0 /\ s.stuck = "no"
    /\ s.stuck = "eof" => s.pos = setup.size

\* A Read failed, since the limit was passed or the connection is broken; the
\* limit's reader remembers it, the connection's does not.
Failed(s) ==
    /\ s.pos <= setup.cut /\ s.left <= setup.maxBytes /\ ~s.closed
    /\ setup.maxBytes > 0 => s.stuck = "error"
    /\ setup.maxBytes = 0 => s.broke /\ s.pos = setup.cut /\ s.stuck = "no"
    /\ TooLarge \/ Broken

\* Where the elements of a body are that is read by one goroutine: those read
\* by the handler, and after them those it will find in front of the rest.
OneReader ==
    /\ mirror = "none"
    /\ Continues(got, 0) /\ Continues(logged, 0)
    /\ Len(got) <= setup.size /\ Len(logged) <= setup.size
    /\ setup.maxBytes > 0 => Len(got) <= setup.maxBytes
    /\ main \in {"limiting", "logging"} => source.stuck = "no" /\ Sound(source)
    /\ main \in {"limiting", "logging"} => got = <<>> /\ logged = <<>>
    /\ main \in {"limiting", "rejected"} => source.pos = 0 /\ captured = <<>>
    /\ main \in {"logging", "handling"} => Continues(captured, Len(got))
    /\ main = "logging" => Len(captured) = source.pos /\ Len(captured) <= setup.logBytes
    /\ main = "handling" =>
         \/ Sound(source) /\ Len(got) + Len(captured) = source.pos
         \/ /\ Failed(source) /\ captured = <<>>
            /\ setup.maxBytes = 0 => setup.cut < setup.logBytes
    /\ main = "eof" => BreakForgotten \/ (Len(got) = setup.size /\ ~TooLarge)
    /\ main = "error" => TooLarge \/ Broken

\* A mirrored request has nothing around the connection's body.
TwoReaders ==
    /\ setup.maxBytes = 0 /\ setup.logBytes = 0 /\ captured = <<>>
    /\ source.stuck = "no" /\ source.left = 0

BodyInv ==
    /\ BOTypeOK /\ source \in Readers
    /\ ~setup.mirrored => OneReader
    /\ setup.mirrored => TwoReaders

LEMMA SetupFields ==
    ASSUME NEW s \in Setups
    PROVE  /\ s.size \in Nat /\ s.cut \in Nat /\ s.cut <= s.size
           /\ s.maxBytes \in Nat /\ s.logBytes \in Nat
           /\ s.mirrored \in BOOLEAN /\ s.declared \in BOOLEAN
           /\ s.mirrored => s.maxBytes = 0 /\ s.logBytes = 0
<1>1. s \in [size : Sizes, cut : UNION {0 .. n : n \in Sizes},
             declared : BOOLEAN, mirrored : BOOLEAN,
             maxBytes : ByteLimits \cup {0}, logBytes : ByteLimits \cup {0}]
      /\ s.cut <= s.size /\ (s.mirrored => s.maxBytes = 0 /\ s.logBytes = 0)
  BY DEF Setups
<1>2. /\ s.size \in Sizes /\ s.cut \in UNION {0 .. n : n \in Sizes}
      /\ s.maxBytes \in ByteLimits \cup {0} /\ s.logBytes \in ByteLimits \cup {0}
      /\ s.mirrored \in BOOLEAN /\ s.declared \in BOOLEAN
  BY <1>1
<1>3. s.size \in Nat
  BY <1>2, BodyAssumption
<1>4. s.cut \in Nat
  <2>1. PICK n \in Sizes : s.cut \in 0 .. n
    BY <1>2
  <2>. QED BY <2>1
<1>5. \A n \in ByteLimits \cup {0} : n \in Nat
  BY BodyAssumption
<1>6. s.maxBytes \in Nat /\ s.logBytes \in Nat
  BY ONLY <1>2, <1>5, Zenon
<1>. QED BY ONLY <1>1, <1>2, <1>3, <1>4, <1>6, Zenon

LEMMA SetupFacts ==
    ASSUME BodyInv
    PROVE  /\ setup.size \in Nat /\ setup.cut \in Nat /\ setup.cut <= setup.size
           /\ setup.maxBytes \in Nat /\ setup.logBytes \in Nat
           /\ setup.mirrored \in BOOLEAN /\ setup.declared \in BOOLEAN
           /\ setup.mirrored => setup.maxBytes = 0 /\ setup.logBytes = 0
           /\ source.pos \in 0 .. setup.cut /\ source.left \in Nat
           /\ source.broke \in BOOLEAN /\ source.closed \in BOOLEAN
           /\ source.stuck \in {"no", "eof", "error"}
<1>1. setup \in Setups
  BY DEF BodyInv, BOTypeOK
<1>2. /\ setup.size \in Nat /\ setup.cut \in Nat /\ setup.cut <= setup.size
      /\ setup.maxBytes \in Nat /\ setup.logBytes \in Nat
      /\ setup.mirrored \in BOOLEAN /\ setup.declared \in BOOLEAN
      /\ setup.mirrored => setup.maxBytes = 0 /\ setup.logBytes = 0
  BY <1>1, SetupFields
<1>3. /\ source.left \in Nat /\ source.broke \in BOOLEAN /\ source.closed \in BOOLEAN
      /\ source.stuck \in {"no", "eof", "error"}
  BY DEF BodyInv, Readers
<1>4. source.pos \in 0 .. setup.cut
  BY DEF BodyInv, BOTypeOK
<1>. QED BY ONLY <1>2, <1>3, <1>4, Zenon

\* What one Read does, with the readers it leaves, the element, and the end.
LEMMA NetReads ==
    ASSUME BodyInv
    PROVE  /\ NetRead.source \in Readers /\ NetRead.unit \in Nat
           /\ NetRead.end \in {"no", "eof", "error"}
           /\ NetRead.source.pos \in 0 .. setup.cut
           /\ NetRead.source.left = source.left /\ NetRead.source.stuck = source.stuck
           /\ NetRead.source.closed = source.closed
           /\ ~source.closed /\ source.pos < setup.cut =>
                /\ NetRead.end = "no" /\ NetRead.unit = source.pos + 1
                /\ NetRead.source.pos = source.pos + 1
                /\ NetRead.source.broke = source.broke
           /\ ~source.closed /\ source.pos = setup.cut =>
                /\ NetRead.source.pos = source.pos
                /\ ~Broken => NetRead.end = "eof" /\ NetRead.source = source
                /\ Broken /\ ~source.broke => NetRead.end = "error" /\ NetRead.source.broke
                /\ Broken /\ source.broke =>
                     /\ NetRead.source.broke
                     /\ NetRead.end = IF setup.declared THEN "eof" ELSE "error"
<1>. USE SetupFacts
<1>0. source \in Readers /\ 0 \in Nat
  BY DEF BodyInv
<1>1. CASE source.closed
  <2>1. NetRead = [source |-> source, unit |-> 0, end |-> "error"]
    BY <1>1, Zenon DEF NetRead
  <2>. QED BY <1>0, <1>1, <2>1
<1>2. CASE ~source.closed /\ source.pos < setup.cut
  <2>. DEFINE after == [source EXCEPT !.pos = @ + 1]
  <2>0. source.pos # setup.cut
    BY <1>2
  <2>1. NetRead = [source |-> after, unit |-> source.pos + 1, end |-> "no"]
    BY <1>2, <2>0, Zenon DEF NetRead
  <2>2. /\ after \in Readers /\ after.pos = source.pos + 1 /\ after.left = source.left
        /\ after.stuck = source.stuck /\ after.closed = source.closed
        /\ after.broke = source.broke
    BY <1>0 DEF Readers
  <2>3. source.pos + 1 \in 0 .. setup.cut /\ source.pos + 1 \in Nat
        /\ source.pos # setup.cut
    BY <1>2
  <2>. HIDE DEF after
  <2>. QED BY <1>2, <2>1, <2>2, <2>3
<1>3. CASE ~source.closed /\ source.pos = setup.cut
           /\ (Broken => source.broke /\ setup.declared)
  <2>0. ~(source.pos < setup.cut)
    BY <1>3
  <2>1. NetRead = [source |-> source, unit |-> 0, end |-> "eof"]
    BY <1>3, <2>0, Zenon DEF NetRead
  <2>. QED BY <1>0, <1>3, <2>1
<1>4. CASE ~source.closed /\ source.pos = setup.cut
           /\ Broken /\ ~(source.broke /\ setup.declared)
  <2>0. ~(source.pos < setup.cut)
    BY <1>4
  <2>. DEFINE after == [source EXCEPT !.broke = TRUE]
  <2>1. NetRead = [source |-> after, unit |-> 0, end |-> "error"]
    BY <1>4, <2>0, Zenon DEF NetRead
  <2>2. /\ after \in Readers /\ after.pos = source.pos /\ after.left = source.left
        /\ after.stuck = source.stuck /\ after.closed = source.closed
        /\ after.broke = TRUE
    BY <1>0, Zenon DEF Readers
  <2>. HIDE DEF after
  <2>. QED BY <1>0, <1>4, <2>1, <2>2
<1>5. source.pos < setup.cut \/ source.pos = setup.cut
  OBVIOUS
<1>. QED BY <1>1, <1>2, <1>3, <1>4, <1>5

\* The MaxBytesReader's own fields after a Read n that it passes on.
LEMMA LimitTakes ==
    ASSUME NEW n \in [source : Readers, unit : Nat, end : {"no", "eof", "error"}], NEW l,
           l = [n EXCEPT !.source.stuck = n.end,
                         !.source.left = IF n.end = "no" THEN @ - 1 ELSE @],
           n.end = "no" => n.source.left > 0
    PROVE  /\ l.end = n.end /\ l.unit = n.unit /\ l.source \in Readers
           /\ l.source.pos = n.source.pos /\ l.source.stuck = n.end
           /\ l.source.closed = n.source.closed /\ l.source.broke = n.source.broke
           /\ l.source.left = (IF n.end = "no" THEN n.source.left - 1 ELSE n.source.left)
<1>. DEFINE s == n.source
            left == IF n.end = "no" THEN s.left - 1 ELSE s.left
            t == [s EXCEPT !.stuck = n.end]
<1>1. l.end = n.end /\ l.unit = n.unit
  OBVIOUS
<1>2. l.source = [s EXCEPT !.stuck = n.end,
                           !.left = IF n.end = "no" THEN @ - 1 ELSE @]
  OBVIOUS
<1>3. s \in Readers /\ n.end \in {"no", "eof", "error"}
  OBVIOUS
<1>4. s.left \in Nat
  BY <1>3 DEF Readers
<1>5. l.source.left = left
  BY <1>2, <1>3 DEF Readers
<1>6. l.source.pos = s.pos /\ l.source.stuck = n.end /\ l.source.closed = s.closed
      /\ l.source.broke = s.broke
  BY <1>2, <1>3 DEF Readers
<1>7. l.source \in Readers
  <2>1. t \in Readers /\ t.left = s.left
    BY <1>3 DEF Readers
  <2>2. l.source = [t EXCEPT !.left = left]
    BY <1>2, <2>1
  <2>3. left \in Nat
    BY <1>4
  <2>. HIDE DEF t, left
  <2>. QED BY <2>1, <2>2, <2>3 DEF Readers
<1>. QED BY <1>1, <1>5, <1>6, <1>7

\* The limit leaves sound readers sound, and gives the next element, the end
\* of the body, or an error where the body goes on after it.
LEMMA LimitReads ==
    ASSUME BodyInv, Sound(source)
    PROVE  /\ LimitRead.source \in Readers
           /\ \/ /\ LimitRead.end = "no" /\ LimitRead.unit = source.pos + 1
                 /\ Sound(LimitRead.source)
                 /\ source.stuck = "no" => LimitRead.source.stuck = "no"
                 /\ LimitRead.source.pos = source.pos + 1
              \/ /\ LimitRead.end = "eof" /\ source.pos = setup.size
                 /\ Sound(LimitRead.source) /\ LimitRead.source.pos = source.pos
              \/ LimitRead.end = "error" /\ Failed(LimitRead.source)
<1>. USE SetupFacts
<1>0. /\ source \in Readers /\ source.pos <= setup.cut /\ source.stuck # "error"
      /\ ~source.broke /\ ~source.closed
      /\ setup.maxBytes > 0 => source.pos + source.left = setup.maxBytes
      /\ setup.maxBytes = 0 => source.left = 0 /\ source.stuck = "no"
      /\ source.stuck = "eof" => source.pos = setup.size
  BY DEF Sound, BodyInv
<1>1. CASE setup.maxBytes = 0
  <2>1. LimitRead = NetRead
    BY <1>1 DEF LimitRead
  <2>2. CASE source.pos < setup.cut
    <3>1. /\ NetRead.end = "no" /\ NetRead.unit = source.pos + 1
          /\ NetRead.source.pos = source.pos + 1 /\ NetRead.source.left = 0
          /\ NetRead.source.stuck = "no" /\ ~NetRead.source.closed
          /\ ~NetRead.source.broke /\ NetRead.source \in Readers
      BY <1>0, <1>1, <2>2, NetReads
    <3>2. Sound(NetRead.source)
      BY <1>1, <2>2, <3>1 DEF Sound
    <3>. QED BY <2>1, <3>1, <3>2
  <2>3. CASE source.pos = setup.cut /\ ~Broken
    <3>1. NetRead.end = "eof" /\ NetRead.source = source
      BY <1>0, <2>3, NetReads
    <3>2. source.pos = setup.size
      BY <2>3 DEF Broken
    <3>. QED BY <1>0, <2>1, <3>1, <3>2
  <2>4. CASE source.pos = setup.cut /\ Broken
    <3>1. /\ NetRead.end = "error" /\ NetRead.source.broke /\ NetRead.source \in Readers
          /\ NetRead.source.pos = setup.cut /\ NetRead.source.left = 0
          /\ NetRead.source.stuck = "no" /\ ~NetRead.source.closed
      BY <1>0, <1>1, <2>4, NetReads
    <3>2. Failed(NetRead.source)
      BY <1>1, <2>4, <3>1 DEF Failed
    <3>. QED BY <2>1, <3>1, <3>2
  <2>. QED BY <1>0, <2>2, <2>3, <2>4
<1>2. CASE setup.maxBytes # 0 /\ source.stuck # "no"
  <2>1. source.stuck = "eof" /\ source.pos = setup.size
    BY <1>0, <1>2
  <2>2. LimitRead = [source |-> source, unit |-> 0, end |-> source.stuck]
    BY <1>2 DEF LimitRead
  <2>. QED BY <1>0, <2>1, <2>2
<1>3. CASE setup.maxBytes # 0 /\ source.stuck = "no"
  <2>1. LimitRead = IF NetRead.end = "no" /\ source.left = 0
            THEN [source |-> [NetRead.source EXCEPT !.stuck = "error"],
                  unit |-> 0, end |-> "error"]
            ELSE [NetRead EXCEPT
                    !.source.stuck = NetRead.end,
                    !.source.left = IF NetRead.end = "no" THEN @ - 1 ELSE @]
    BY <1>3 DEF LimitRead
  <2>2. NetRead \in [source : Readers, unit : Nat, end : {"no", "eof", "error"}]
    <3>1. NetRead = [source |-> NetRead.source, unit |-> NetRead.unit, end |-> NetRead.end]
      BY DEF NetRead
    <3>. QED BY <3>1, NetReads
  <2>3. setup.maxBytes > 0 /\ source.pos + source.left = setup.maxBytes
    BY <1>0, <1>3
  <2>4. ASSUME ~(NetRead.end = "no" /\ source.left = 0)
        PROVE  /\ LimitRead.end = NetRead.end /\ LimitRead.unit = NetRead.unit
               /\ LimitRead.source \in Readers
               /\ LimitRead.source.pos = NetRead.source.pos
               /\ LimitRead.source.stuck = NetRead.end
               /\ LimitRead.source.closed = source.closed
               /\ LimitRead.source.broke = NetRead.source.broke
               /\ LimitRead.source.left = (IF NetRead.end = "no" THEN source.left - 1
                                                               ELSE source.left)
    <3>1. LimitRead = [NetRead EXCEPT
                         !.source.stuck = NetRead.end,
                         !.source.left = IF NetRead.end = "no" THEN @ - 1 ELSE @]
      BY <2>1, <2>4, Zenon
    <3>2. NetRead.source.left = source.left /\ NetRead.source.closed = source.closed
      BY NetReads
    <3>3. NetRead.end = "no" => NetRead.source.left > 0
      BY <2>4, <3>2
    <3>4. /\ LimitRead.end = NetRead.end /\ LimitRead.unit = NetRead.unit
          /\ LimitRead.source \in Readers
          /\ LimitRead.source.pos = NetRead.source.pos
          /\ LimitRead.source.stuck = NetRead.end
          /\ LimitRead.source.closed = NetRead.source.closed
          /\ LimitRead.source.broke = NetRead.source.broke
          /\ LimitRead.source.left = (IF NetRead.end = "no" THEN NetRead.source.left - 1
                                                          ELSE NetRead.source.left)
      BY ONLY <2>2, <3>1, <3>3, LimitTakes, Zenon
    <3>. QED BY ONLY <3>2, <3>4, Zenon
  <2>5. CASE source.pos < setup.cut /\ source.left = 0
    <3>1. /\ NetRead.end = "no" /\ NetRead.source \in Readers
          /\ NetRead.source.pos = source.pos + 1 /\ NetRead.source.left = 0
          /\ NetRead.source.closed = source.closed
      BY <1>0, <2>5, NetReads
    <3>2. LimitRead.end = "error"
          /\ LimitRead.source = [NetRead.source EXCEPT !.stuck = "error"]
      BY <2>1, <2>5, <3>1
    <3>3. /\ LimitRead.source \in Readers /\ LimitRead.source.stuck = "error"
          /\ LimitRead.source.pos = source.pos + 1 /\ LimitRead.source.left = 0
          /\ LimitRead.source.closed = source.closed
      BY <3>1, <3>2 DEF Readers
    <3>4. TooLarge
      BY <2>3, <2>5 DEF TooLarge
    <3>5. Failed(LimitRead.source)
      BY <1>0, <2>3, <2>5, <3>3, <3>4 DEF Failed
    <3>. QED BY <3>2, <3>3, <3>5
  <2>6. CASE source.pos < setup.cut /\ source.left # 0
    <3>1. /\ NetRead.end = "no" /\ NetRead.unit = source.pos + 1
          /\ NetRead.source.pos = source.pos + 1 /\ ~NetRead.source.broke
      BY <1>0, <2>6, NetReads
    <3>2. /\ LimitRead.end = "no" /\ LimitRead.unit = source.pos + 1
          /\ LimitRead.source \in Readers
          /\ LimitRead.source.pos = source.pos + 1 /\ LimitRead.source.stuck = "no"
          /\ ~LimitRead.source.closed /\ ~LimitRead.source.broke
          /\ LimitRead.source.left = source.left - 1
      BY <1>0, <2>4, <2>6, <3>1
    <3>3. Sound(LimitRead.source)
      BY <2>3, <2>6, <3>2 DEF Sound
    <3>. QED BY <3>2, <3>3
  <2>7. CASE source.pos = setup.cut /\ ~Broken
    <3>1. NetRead.end = "eof" /\ NetRead.source = source
      BY <1>0, <2>7, NetReads
    <3>2. source.pos = setup.size
      BY <2>7 DEF Broken
    <3>3. /\ LimitRead.end = "eof" /\ LimitRead.source \in Readers
          /\ LimitRead.source.pos = source.pos /\ LimitRead.source.stuck = "eof"
          /\ ~LimitRead.source.closed /\ ~LimitRead.source.broke
          /\ LimitRead.source.left = source.left
      BY <1>0, <2>4, <3>1
    <3>4. Sound(LimitRead.source)
      BY <1>0, <2>3, <3>2, <3>3 DEF Sound
    <3>. QED BY <3>2, <3>3, <3>4
  <2>8. CASE source.pos = setup.cut /\ Broken
    <3>1. /\ NetRead.end = "error" /\ NetRead.source.pos = source.pos
      BY <1>0, <2>8, NetReads
    <3>2. /\ LimitRead.end = "error" /\ LimitRead.source \in Readers
          /\ LimitRead.source.pos = source.pos /\ LimitRead.source.stuck = "error"
          /\ ~LimitRead.source.closed /\ LimitRead.source.left = source.left
      BY <1>0, <2>4, <3>1
    <3>3. Failed(LimitRead.source)
      BY <1>0, <2>3, <2>8, <3>2 DEF Failed
    <3>. QED BY <3>2, <3>3
  <2>. QED BY <1>0, <2>5, <2>6, <2>7, <2>8
<1>. QED BY <1>1, <1>2, <1>3

\* Once a Read failed, no element follows: the next one fails as well, but
\* for the end that the connection's reader gives after the break.
LEMMA FailedReads ==
    ASSUME BodyInv, Failed(source)
    PROVE  /\ LimitRead.source \in Readers /\ Failed(LimitRead.source)
           /\ \/ LimitRead.end = "error"
              \/ /\ LimitRead.end = "eof" /\ Broken /\ setup.declared
                 /\ setup.maxBytes = 0
<1>. USE SetupFacts
<1>1. CASE setup.maxBytes # 0
  <2>1. LimitRead = [source |-> source, unit |-> 0, end |-> "error"]
    BY <1>1 DEF Failed, LimitRead
  <2>. QED BY <2>1 DEF BodyInv
<1>2. CASE setup.maxBytes = 0
  <2>1. LimitRead = NetRead /\ Broken
    BY <1>2 DEF LimitRead, Failed, TooLarge
  <2>2. /\ source.broke /\ source.pos = setup.cut /\ ~source.closed
        /\ source.stuck = "no" /\ source.left <= setup.maxBytes
    BY <1>2 DEF Failed
  <2>3. /\ NetRead.source \in Readers /\ NetRead.source.pos = setup.cut
        /\ NetRead.source.left = source.left /\ NetRead.source.stuck = "no"
        /\ ~NetRead.source.closed /\ NetRead.source.broke
        /\ NetRead.end = IF setup.declared THEN "eof" ELSE "error"
    BY <2>1, <2>2, NetReads
  <2>4. Failed(NetRead.source)
    BY <1>2, <2>1, <2>2, <2>3 DEF Failed
  <2>. QED BY <1>2, <2>1, <2>3, <2>4
<1>. QED BY <1>1, <1>2

\* Sequences of a body's elements.
LEMMA AppendNext ==
    ASSUME NEW seq, NEW n \in Nat, Continues(seq, n)
    PROVE  /\ Continues(Append(seq, n + Len(seq) + 1), n)
           /\ Len(Append(seq, n + Len(seq) + 1)) = Len(seq) + 1
<1>. DEFINE e == n + Len(seq) + 1
            longer == Append(seq, e)
<1>1. seq \in Seq(Nat) /\ Len(seq) \in Nat /\ e \in Nat
  BY DEF Continues
<1>2. longer \in Seq(Nat) /\ Len(longer) = Len(seq) + 1
  BY <1>1
<1>3. ASSUME NEW i \in 1 .. Len(longer) PROVE longer[i] = n + i
  <2>1. CASE i = Len(seq) + 1
    BY <1>1, <2>1
  <2>2. CASE i # Len(seq) + 1
    <3>1. i \in 1 .. Len(seq) /\ longer[i] = seq[i]
      BY <1>1, <1>2, <2>2
    <3>. QED BY <3>1 DEF Continues
  <2>. QED BY <2>1, <2>2
<1>. QED BY <1>2, <1>3 DEF Continues

LEMMA HeadNext ==
    ASSUME NEW seq, NEW n \in Nat, Continues(seq, n), seq # <<>>
    PROVE  /\ Head(seq) = n + 1 /\ Continues(Tail(seq), n + 1)
           /\ Len(Tail(seq)) = Len(seq) - 1
<1>1. seq \in Seq(Nat) /\ Len(seq) \in Nat /\ Len(seq) >= 1
  BY DEF Continues
<1>2. Head(seq) = n + 1
  BY <1>1 DEF Continues
<1>3. Tail(seq) \in Seq(Nat) /\ Len(Tail(seq)) = Len(seq) - 1
  BY <1>1
<1>4. ASSUME NEW i \in 1 .. Len(Tail(seq)) PROVE Tail(seq)[i] = n + 1 + i
  <2>1. i + 1 \in 1 .. Len(seq) /\ Tail(seq)[i] = seq[i + 1]
    BY <1>1, <1>3
  <2>. QED BY <2>1 DEF Continues
<1>. QED BY <1>2, <1>3, <1>4 DEF Continues

LEMMA StartOfBody ==
    ASSUME NEW seq, Continues(seq, 0), setup.size \in Nat, Len(seq) <= setup.size
    PROVE  /\ Seqs!IsPrefix(seq, Body)
           /\ Len(seq) = setup.size => seq = Body
<1>1. seq \in Seq(Nat) /\ Len(seq) \in Nat /\ \A i \in 1 .. Len(seq) : seq[i] = i
  BY DEF Continues
<1>2. Body \in Seq(Nat) /\ Len(Body) = setup.size /\ \A i \in 1 .. setup.size : Body[i] = i
  BY DEF Body
<1>3. SubSeq(seq, 1, Len(seq)) = [i \in 1 .. Len(seq) |-> seq[i]]
  BY <1>1
<1>4. SubSeq(Body, 1, Len(seq)) = [i \in 1 .. Len(seq) |-> Body[i]]
  BY <1>1, <1>2
<1>5. SubSeq(seq, 1, Len(seq)) = SubSeq(Body, 1, Len(seq))
  BY <1>1, <1>2, <1>3, <1>4
<1>6. ASSUME Len(seq) = setup.size PROVE seq = Body
  BY <1>1, <1>2, <1>6
<1>. QED BY <1>1, <1>2, <1>5, <1>6 DEF Seqs!IsPrefix

-----------------------------------------------------------------------------
LEMMA InitBodyInv == BOInit => BodyInv
<1>. SUFFICES ASSUME BOInit PROVE BodyInv
  OBVIOUS
<1>1. setup \in Setups
  BY DEF BOInit
<1>2. /\ setup.size \in Nat /\ setup.cut \in Nat /\ setup.cut <= setup.size
      /\ setup.maxBytes \in Nat /\ setup.logBytes \in Nat
      /\ setup.mirrored => setup.maxBytes = 0 /\ setup.logBytes = 0
  BY <1>1, SetupFields
<1>3. /\ source = [pos |-> 0, left |-> setup.maxBytes, stuck |-> "no",
                   broke |-> FALSE, closed |-> FALSE]
      /\ main = "limiting" /\ mirror = IF setup.mirrored THEN "reading" ELSE "none"
      /\ captured = <<>> /\ logged = <<>> /\ got = <<>>
  BY DEF BOInit
<1>4. /\ source.pos = 0 /\ source.left = setup.maxBytes /\ source.stuck = "no"
      /\ source.broke = FALSE /\ source.closed = FALSE
  BY <1>3
<1>5. source \in Readers
  BY <1>2, <1>3 DEF Readers
<1>6. BOTypeOK
  BY <1>1, <1>2, <1>3, <1>4 DEF BOTypeOK
<1>7. Continues(<<>>, 0) /\ Len(<<>>) = 0
  BY DEF Continues
<1>8. Sound(source)
  BY <1>2, <1>4 DEF Sound
<1>9. ~setup.mirrored => OneReader
  BY <1>2, <1>3, <1>4, <1>7, <1>8 DEF OneReader
<1>10. setup.mirrored => TwoReaders
  BY <1>2, <1>3, <1>4 DEF TwoReaders
<1>. QED BY <1>5, <1>6, <1>9, <1>10 DEF BodyInv

\* Readers that are sound or failed are what the types say.
LEMMA SourceTypes ==
    ASSUME BodyInv, NEW s \in Readers, Sound(s) \/ Failed(s)
    PROVE  /\ s.pos \in 0 .. setup.cut /\ s.left \in 0 .. setup.maxBytes
           /\ s.stuck \in {"no", "eof", "error"}
BY SetupFacts DEF Readers, Sound, Failed

LEMMA CheckLengthInv == ASSUME BodyInv, CheckLength PROVE BodyInv'
<1>. USE SetupFacts
<1>1. /\ main = "limiting" /\ main' \in {"rejected", "logging"}
      /\ setup' = setup /\ mirror' = mirror /\ source' = source /\ captured' = captured
      /\ logged' = logged /\ got' = got
  BY DEF CheckLength
<1>2. BOTypeOK' /\ source' \in Readers
  BY <1>1 DEF BodyInv, BOTypeOK
<1>3. Sound(source)' <=> Sound(source)
  BY <1>1 DEF Sound
<1>4. Continues(<<>>, 0) /\ Len(<<>>) = 0
  BY DEF Continues
<1>5. ASSUME ~setup.mirrored PROVE OneReader'
  <2>1. OneReader
    BY <1>5 DEF BodyInv
  <2>2. got = <<>> /\ logged = <<>> /\ captured = <<>> /\ source.pos = 0
        /\ Sound(source) /\ source.stuck = "no" /\ ~source.closed
        /\ mirror = "none"
    BY <1>1, <2>1 DEF OneReader, Sound
  <2>. QED BY <1>1, <1>3, <1>4, <2>2 DEF OneReader
<1>6. ASSUME setup.mirrored PROVE TwoReaders'
  <2>1. TwoReaders
    BY <1>6 DEF BodyInv
  <2>. QED BY <1>1, <2>1 DEF TwoReaders
<1>. QED BY <1>1, <1>2, <1>5, <1>6 DEF BodyInv

LEMMA CaptureInv == ASSUME BodyInv, Capture PROVE BodyInv'
<1>. USE SetupFacts
<1>1. /\ main = "logging" /\ main' = main /\ setup' = setup /\ mirror' = mirror
      /\ logged' = logged /\ got' = got
      /\ Len(captured) < setup.logBytes /\ LimitRead.end = "no"
      /\ captured' = Append(captured, LimitRead.unit) /\ source' = LimitRead.source
  BY DEF Capture
<1>2. ~setup.mirrored
  <2>. SUFFICES ASSUME setup.mirrored PROVE FALSE
    OBVIOUS
  <2>1. setup.logBytes = 0 /\ captured = <<>>
    BY DEF BodyInv, TwoReaders
  <2>. QED BY <1>1, <2>1
<1>3. OneReader
  BY <1>2 DEF BodyInv
<1>4. /\ Sound(source) /\ source.stuck = "no" /\ got = <<>> /\ logged = <<>>
      /\ Continues(captured, Len(got)) /\ Len(captured) = source.pos
  BY <1>1, <1>3 DEF OneReader
<1>5. Continues(captured, 0) /\ Len(captured) \in Nat
  BY <1>4 DEF Continues
<1>6. /\ source' \in Readers /\ LimitRead.unit = source.pos + 1 /\ Sound(source')
      /\ source'.stuck = "no" /\ source'.pos = source.pos + 1
  BY <1>1, <1>4, LimitReads
<1>7. captured' = Append(captured, 0 + Len(captured) + 1)
  BY <1>1, <1>4, <1>5, <1>6
<1>8. Continues(captured', 0) /\ Len(captured') = Len(captured) + 1
  BY <1>5, <1>7, AppendNext
<1>9. BOTypeOK'
  BY <1>1, <1>6, SourceTypes DEF BodyInv, BOTypeOK
<1>10. Sound(source)'
  BY <1>1, <1>6 DEF Sound
<1>11. /\ mirror = "none" /\ Continues(got, 0) /\ Continues(logged, 0)
  BY <1>3 DEF OneReader
<1>12. Len(got) = 0 /\ Len(logged) = 0
  BY <1>4
<1>13. OneReader'
  BY <1>1, <1>4, <1>5, <1>6, <1>8, <1>10, <1>11, <1>12 DEF OneReader
<1>. QED BY <1>1, <1>2, <1>6, <1>9, <1>13 DEF BodyInv

LEMMA RestoreInv == ASSUME BodyInv, Restore PROVE BodyInv'
<1>. USE SetupFacts
<1>. DEFINE full == Len(captured) = setup.logBytes
            kept == IF ~full /\ LimitRead.end = "error" THEN <<>> ELSE captured
<1>1. /\ main = "logging" /\ main' = "handling" /\ setup' = setup /\ mirror' = mirror
      /\ got' = got /\ (full \/ LimitRead.end # "no")
      /\ source' = (IF full THEN source ELSE LimitRead.source)
      /\ logged' = kept /\ captured' = kept
  BY DEF Restore, Restored
<1>2. CASE ~setup.mirrored
  <2>1. OneReader
    BY <1>2 DEF BodyInv
  <2>2. /\ Sound(source) /\ source.stuck = "no" /\ got = <<>> /\ logged = <<>>
        /\ Continues(captured, Len(got)) /\ Len(captured) = source.pos
        /\ mirror = "none" /\ Continues(got, 0)
    BY <1>1, <2>1 DEF OneReader
  <2>3. Continues(captured, 0) /\ Len(got) = 0
    BY <2>2
  <2>4. Continues(<<>>, 0) /\ Len(<<>>) = 0
    BY DEF Continues
  <2>5. /\ source' \in Readers
        /\ \/ Sound(source') /\ kept = captured /\ source'.pos = source.pos
           \/ /\ Failed(source') /\ kept = <<>>
              /\ setup.maxBytes = 0 => setup.cut < setup.logBytes
    <3>1. CASE full
      BY <1>1, <2>2, <3>1 DEF BodyInv
    <3>2. CASE ~full
      <4>1. LimitRead.end = "eof" \/ LimitRead.end = "error"
        BY <1>1, <2>2, <3>2, LimitReads
      <4>2. CASE LimitRead.end = "eof"
        BY <1>1, <2>2, <3>2, <4>2, LimitReads
      <4>3. CASE LimitRead.end = "error"
        <5>1. source' \in Readers /\ Failed(source') /\ kept = <<>>
          BY <1>1, <2>2, <3>2, <4>3, LimitReads
        <5>2. setup.maxBytes = 0 => setup.cut < setup.logBytes
          <6>. SUFFICES ASSUME setup.maxBytes = 0 PROVE setup.cut < setup.logBytes
            OBVIOUS
          <6>1. LimitRead = NetRead
            BY DEF LimitRead
          <6>2. source.pos = setup.cut
            BY <2>2, <4>3, <6>1, NetReads DEF Sound
          <6>3. Len(captured) < setup.logBytes
            BY <2>1, <1>1, <3>2 DEF OneReader, Continues
          <6>. QED BY <2>2, <6>2, <6>3
        <5>. QED BY <5>1, <5>2
      <4>. QED BY <4>1, <4>2, <4>3
    <3>. QED BY <3>1, <3>2
  <2>6. Continues(kept, 0) /\ Len(kept) <= setup.size
    <3>1. source.pos <= setup.size
      BY <2>2 DEF Sound
    <3>. QED BY <2>2, <2>3, <2>4, <2>5, <3>1
  <2>. HIDE DEF kept, full
  <2>7. BOTypeOK'
    BY <1>1, <2>5, SourceTypes DEF BodyInv, BOTypeOK
  <2>8. /\ Sound(source)' <=> Sound(source')
        /\ Failed(source)' <=> Failed(source')
    BY <1>1 DEF Sound, Failed, TooLarge, Broken
  <2>9. OneReader'
    BY <1>1, <2>2, <2>3, <2>5, <2>6, <2>8 DEF OneReader
  <2>. QED BY <1>1, <1>2, <2>5, <2>7, <2>9 DEF BodyInv
<1>3. CASE setup.mirrored
  <2>1. TwoReaders
    BY <1>3 DEF BodyInv
  <2>2. captured = <<>> /\ full /\ kept = <<>>
    BY <2>1 DEF TwoReaders
  <2>3. BOTypeOK' /\ source' = source
    BY <1>1, <2>2 DEF BodyInv, BOTypeOK
  <2>4. TwoReaders'
    BY <1>1, <2>1, <2>2, <2>3 DEF TwoReaders
  <2>. QED BY <1>1, <1>3, <2>3, <2>4 DEF BodyInv
<1>. QED BY <1>2, <1>3

\* A handler alone with its body: what was captured first, then the rest.
LEMMA HandlerReadsAlone ==
    ASSUME BodyInv, ~setup.mirrored, HandlerReads
    PROVE  BodyInv'
<1>. USE SetupFacts
<1>1. /\ main = "handling" /\ setup' = setup /\ mirror' = mirror
      /\ logged' = logged /\ OneReader
  BY DEF HandlerReads, BodyInv
<1>2. /\ mirror = "none" /\ Continues(got, 0) /\ Continues(logged, 0)
      /\ Continues(captured, Len(got)) /\ Len(got) \in Nat /\ Len(captured) \in Nat
      /\ Len(got) <= setup.size /\ Len(logged) <= setup.size
      /\ setup.maxBytes > 0 => Len(got) <= setup.maxBytes
      /\ \/ Sound(source) /\ Len(got) + Len(captured) = source.pos
         \/ /\ Failed(source) /\ captured = <<>>
            /\ setup.maxBytes = 0 => setup.cut < setup.logBytes
  BY <1>1 DEF OneReader, Continues
<1>3. ASSUME NEW s, s = source'
      PROVE (Sound(source)' <=> Sound(s)) /\ (Failed(source)' <=> Failed(s))
  BY <1>1, <1>3 DEF Sound, Failed, TooLarge, Broken
<1>4. CASE captured # <<>>
  <2>1. /\ got' = Append(got, Head(captured)) /\ captured' = Tail(captured)
        /\ main' = main /\ source' = source
    BY <1>4 DEF HandlerReads
  <2>2. Sound(source) /\ Len(got) + Len(captured) = source.pos
    BY <1>2, <1>4
  <2>3. /\ Head(captured) = Len(got) + 1 /\ Continues(captured', Len(got) + 1)
        /\ Len(captured') = Len(captured) - 1
    BY <1>2, <1>4, <2>1, HeadNext
  <2>4. got' = Append(got, 0 + Len(got) + 1)
    BY <1>2, <2>1, <2>3
  <2>5. Continues(got', 0) /\ Len(got') = Len(got) + 1
    BY <1>2, <2>4, AppendNext
  <2>6. Len(captured) >= 1
    BY <1>2, <2>3 DEF Continues
  <2>7. Len(got') <= setup.size /\ (setup.maxBytes > 0 => Len(got') <= setup.maxBytes)
        /\ Len(got') + Len(captured') = source.pos
    BY <1>2, <2>2, <2>3, <2>5, <2>6 DEF Sound
  <2>8. BOTypeOK' /\ source' \in Readers
    BY <1>1, <2>1 DEF BodyInv, BOTypeOK
  <2>9. OneReader'
    BY <1>1, <1>2, <1>3, <2>1, <2>2, <2>3, <2>5, <2>7 DEF OneReader
  <2>. QED BY <1>1, <2>8, <2>9 DEF BodyInv
<1>5. CASE captured = <<>>
  <2>1. /\ source' = LimitRead.source /\ captured' = captured
        /\ IF LimitRead.end = "no"
           THEN got' = Append(got, LimitRead.unit) /\ main' = main
           ELSE main' = LimitRead.end /\ got' = got
    BY <1>5 DEF HandlerReads
  <2>2. Len(captured) = 0 /\ Continues(<<>>, 0)
    BY <1>5 DEF Continues
  <2>3. CASE Failed(source)
    <3>1. /\ source' \in Readers /\ Failed(source') /\ main' = LimitRead.end
          /\ got' = got /\ LimitRead.end \in {"error", "eof"}
          /\ LimitRead.end = "eof" => Broken /\ setup.declared /\ setup.maxBytes = 0
      BY <2>1, <2>3, FailedReads
    <3>2. BOTypeOK'
      BY <1>1, <3>1, SourceTypes DEF BodyInv, BOTypeOK
    <3>3. main' = "eof" => BreakForgotten
      BY <1>2, <1>5, <2>3, <3>1 DEF BreakForgotten, Sound, Failed
    <3>4. TooLarge \/ Broken
      BY <2>3 DEF Failed
    <3>5. /\ TooLarge' <=> TooLarge
          /\ Broken' <=> Broken
          /\ BreakForgotten' <=> BreakForgotten
      BY <1>1 DEF TooLarge, Broken, BreakForgotten
    <3>6. OneReader'
      BY <1>1, <1>2, <3>1, <3>3, <3>4, <3>5 DEF OneReader
    <3>. QED BY <1>1, <3>1, <3>2, <3>6 DEF BodyInv
  <2>4. CASE Sound(source) /\ Len(got) = source.pos /\ LimitRead.end = "no"
    <3>1. /\ source' \in Readers /\ LimitRead.unit = source.pos + 1 /\ Sound(source')
          /\ source'.pos = source.pos + 1
      BY <2>1, <2>4, LimitReads
    <3>2. main' = main /\ got' = Append(got, 0 + Len(got) + 1)
      BY <1>2, <2>1, <2>4, <3>1
    <3>3. Continues(got', 0) /\ Len(got') = Len(got) + 1
      BY <1>2, <3>2, AppendNext
    <3>4. /\ Len(got') <= setup.size /\ (setup.maxBytes > 0 => Len(got') <= setup.maxBytes)
          /\ Len(got') + Len(captured') = source'.pos
      BY <1>2, <2>1, <2>2, <2>4, <3>1, <3>3 DEF Sound, Readers
    <3>5. Continues(captured', Len(got'))
      BY <1>5, <2>1 DEF Continues
    <3>6. BOTypeOK'
      BY <1>1, <3>1, <3>2, SourceTypes DEF BodyInv, BOTypeOK
    <3>7. OneReader'
      BY <1>1, <1>2, <1>3, <3>1, <3>2, <3>3, <3>4, <3>5 DEF OneReader
    <3>. QED BY <1>1, <3>1, <3>6, <3>7 DEF BodyInv
  <2>5. CASE Sound(source) /\ Len(got) = source.pos /\ LimitRead.end = "eof"
    <3>1. /\ source' \in Readers /\ source.pos = setup.size /\ Sound(source')
          /\ main' = "eof" /\ got' = got
      BY <2>1, <2>5, LimitReads
    <3>2. BOTypeOK'
      BY <1>1, <3>1, SourceTypes DEF BodyInv, BOTypeOK
    <3>3. ~TooLarge
      BY <2>5, <3>1 DEF Sound, TooLarge
    <3>4. OneReader'
      BY <1>1, <1>2, <2>5, <3>1, <3>3 DEF OneReader, TooLarge, BreakForgotten, Broken
    <3>. QED BY <1>1, <3>1, <3>2, <3>4 DEF BodyInv
  <2>6. CASE Sound(source) /\ Len(got) = source.pos /\ LimitRead.end = "error"
    <3>1. /\ source' \in Readers /\ Failed(source')
          /\ main' = "error" /\ got' = got
      BY <2>1, <2>6, LimitReads
    <3>2. BOTypeOK'
      BY <1>1, <3>1, SourceTypes DEF BodyInv, BOTypeOK
    <3>3. OneReader'
      BY <1>1, <1>2, <3>1 DEF OneReader, Failed, TooLarge, Broken
    <3>. QED BY <1>1, <3>1, <3>2, <3>3 DEF BodyInv
  <2>7. Sound(source) => LimitRead.end \in {"no", "eof", "error"}
    BY LimitReads
  <2>. QED BY <1>2, <2>2, <2>3, <2>4, <2>5, <2>6, <2>7
<1>. QED BY <1>4, <1>5

\* With mirroring, both read the connection's body itself.
LEMMA HandlerReadsShared ==
    ASSUME BodyInv, setup.mirrored, HandlerReads
    PROVE  BodyInv'
<1>. USE SetupFacts
<1>1. TwoReaders
  BY DEF BodyInv
<1>2. LimitRead = NetRead
  BY <1>1 DEF LimitRead, TwoReaders
<1>3. /\ setup' = setup /\ mirror' = mirror /\ captured' = captured
      /\ main' \in {main, NetRead.end} /\ main = "handling" /\ source' = NetRead.source
      /\ NetRead.end = "no" => main' = main
  BY <1>1, <1>2 DEF HandlerReads, TwoReaders
<1>4. /\ source' \in Readers /\ source'.pos \in 0 .. setup.cut
      /\ source'.left = source.left /\ source'.stuck = source.stuck
      /\ NetRead.end \in {"no", "eof", "error"}
  BY <1>3, NetReads
<1>5. BOTypeOK'
  BY <1>3, <1>4 DEF BodyInv, BOTypeOK
<1>6. TwoReaders'
  BY <1>1, <1>3, <1>4 DEF TwoReaders
<1>. QED BY <1>3, <1>4, <1>5, <1>6 DEF BodyInv

LEMMA MirrorReadsInv == ASSUME BodyInv, MirrorReads PROVE BodyInv'
<1>. USE SetupFacts
<1>1. setup.mirrored /\ TwoReaders
  BY DEF BodyInv, OneReader, MirrorReads
<1>2. /\ setup' = setup /\ main' = main /\ captured' = captured
      /\ mirror' \in {"reading", "sent", "dropped"} /\ source' = NetRead.source
  BY DEF MirrorReads
<1>3. /\ source' \in Readers /\ source'.pos \in 0 .. setup.cut
      /\ source'.left = source.left /\ source'.stuck = source.stuck
  BY <1>2, NetReads
<1>4. BOTypeOK'
  BY <1>2, <1>3 DEF BodyInv, BOTypeOK
<1>5. TwoReaders'
  BY <1>1, <1>2, <1>3 DEF TwoReaders
<1>. QED BY <1>1, <1>2, <1>3, <1>4, <1>5 DEF BodyInv

LEMMA HandlerReturnsBodyInv == ASSUME BodyInv, HandlerReturnsBody PROVE BodyInv'
<1>. USE SetupFacts
<1>1. /\ main \in {"handling", "eof", "error", "rejected"}
      /\ main' = (IF main = "handling" THEN "returned" ELSE main)
      /\ source' = [source EXCEPT !.closed = TRUE]
      /\ setup' = setup /\ mirror' = mirror /\ captured' = captured
      /\ logged' = logged /\ got' = got
  BY DEF HandlerReturnsBody
<1>2. /\ source' \in Readers /\ source'.pos = source.pos /\ source'.left = source.left
      /\ source'.stuck = source.stuck
  BY <1>1 DEF BodyInv, Readers
<1>3. BOTypeOK'
  BY <1>1, <1>2 DEF BodyInv, BOTypeOK
<1>4. ASSUME ~setup.mirrored PROVE OneReader'
  <2>1. OneReader
    BY <1>4 DEF BodyInv
  <2>. QED BY <1>1, <1>2, <2>1 DEF OneReader, TooLarge, Broken, BreakForgotten
<1>5. ASSUME setup.mirrored PROVE TwoReaders'
  <2>1. TwoReaders
    BY <1>5 DEF BodyInv
  <2>. QED BY <1>1, <1>2, <2>1 DEF TwoReaders
<1>. QED BY <1>1, <1>2, <1>3, <1>4, <1>5 DEF BodyInv

LEMMA BodyStep == BodyInv /\ BONext => BodyInv'
BY CheckLengthInv, CaptureInv, RestoreInv, HandlerReadsAlone, HandlerReadsShared,
   HandlerReturnsBodyInv, MirrorReadsInv DEF BONext

LEMMA BodyStutters == BodyInv /\ UNCHANGED boVars => BodyInv'
<1>. SUFFICES ASSUME BodyInv, UNCHANGED boVars PROVE BodyInv'
  OBVIOUS
<1>1. /\ setup' = setup /\ main' = main /\ mirror' = mirror /\ source' = source
      /\ captured' = captured /\ logged' = logged /\ got' = got
  BY DEF boVars
<1>. QED BY <1>1 DEF BodyInv, BOTypeOK, OneReader, TwoReaders, Sound, Failed, TooLarge,
                 Broken, BreakForgotten

LEMMA BodyWhole == BodyInv => BodyIntact
<1>. SUFFICES ASSUME BodyInv, ~setup.mirrored PROVE BodyIntact
  BY DEF BodyIntact
<1>. USE SetupFacts
<1>1. OneReader
  BY DEF BodyInv
<1>2. /\ Continues(got, 0) /\ Continues(logged, 0)
      /\ Len(got) <= setup.size /\ Len(logged) <= setup.size
      /\ setup.maxBytes > 0 => Len(got) <= setup.maxBytes
      /\ main = "eof" /\ ~BreakForgotten => Len(got) = setup.size /\ ~TooLarge
      /\ main = "error" => TooLarge \/ Broken
  BY <1>1 DEF OneReader
<1>. QED BY <1>2, StartOfBody DEF BodyIntact

-----------------------------------------------------------------------------
(***************************************************************************)
(* Responses.                                                              *)
(***************************************************************************)
Values == {Absent, "limit", "retry", "own", "id", "latency"}

Writers ==
    [header : HeaderMaps, sent : HeaderMaps, status : StatusOrNone,
     superfluous : BOOLEAN, statusCode : StatusOrNone, code : StatusOrNone,
     wrote : BOOLEAN, wroteHeader : BOOLEAN]

\* The header is sent once; the metrics and the enrichment know whether it is,
\* and with which status; the logger is wrong only about a status that came
\* too late.
WritersSound(o) ==
    /\ o.wrote <=> o.status # 0
    /\ o.wroteHeader <=> o.wrote
    /\ o.wrote => o.code = o.status /\ o.sent["Latency"] = "latency"
    /\ o.wrote /\ ~o.superfluous => o.statusCode = o.status

\* A response that nobody holds back.
DirectResponse ==
    /\ phase \in {"handling", "finishing", "over"}
    /\ out.header["Trace"] = "id" /\ (out.wrote => out.sent["Trace"] = "id")
    /\ retried => out.header["Retry-After"] = "retry"
    /\ out.status = 429 => out.sent["Retry-After"] = "retry"

\* One that the rewriter holds back.
HeldResponse ==
    /\ out.header = NoHeaders /\ ~out.wrote
    /\ capture.headers["Trace"] = "id" /\ capture.headers["Latency"] = Absent
    /\ phase = "rewriting" => capture.headers["Trace-Latency"] = "latency"
    /\ retried \/ capture.status = 429 => capture.headers["Retry-After"] = "retry"

\* What arrives of the headers that the rewriter held back.
Delivers(hs) ==
    /\ \A h \in Renamed :
          capture.headers[h] # Absent => hs[NewName(h)] = capture.headers[h]
    /\ \A h \in Headers \ Renamed :
          \/ capture.headers[h] \in {Absent, hs[h]}
          \/ \E orig \in Renamed : Moved(orig) /\ names[orig] = h

\* One that the rewriter has sent.
RewrittenResponse ==
    /\ out.wrote
    /\ out.sent["Trace"] = "id" /\ out.sent["Trace-Latency"] = "latency"
    /\ out.status = 429 /\ NamesClear => out.sent[NewName("Retry-After")] = "retry"
    /\ NamesClear => Delivers(out.sent)

ResponseInv ==
    /\ RPTypeOK /\ out \in Writers /\ WritersSound(out)
    /\ ~rewriting => DirectResponse
    /\ rewriting /\ phase \in {"handling", "rewriting"} => HeldResponse
    /\ rewriting /\ phase \in {"finishing", "over"} => RewrittenResponse
    /\ phase = "over" => out.wrote

LEMMA CodesFacts == 0 \notin Codes /\ Codes \subseteq Nat
BY ResponsePathAssumption

LEMMA WriterFields ==
    ASSUME NEW o \in Writers
    PROVE  /\ o.header \in HeaderMaps /\ o.sent \in HeaderMaps
           /\ o.status \in StatusOrNone /\ o.statusCode \in StatusOrNone
           /\ o.code \in StatusOrNone
           /\ o.superfluous \in BOOLEAN /\ o.wrote \in BOOLEAN /\ o.wroteHeader \in BOOLEAN
<1>1. /\ o.header \in HeaderMaps /\ o.sent \in HeaderMaps
      /\ o.status \in StatusOrNone /\ o.statusCode \in StatusOrNone
      /\ o.code \in StatusOrNone
  BY DEF Writers
<1>2. o.superfluous \in BOOLEAN /\ o.wrote \in BOOLEAN /\ o.wroteHeader \in BOOLEAN
  BY DEF Writers
<1>. QED BY <1>1, <1>2

\* p is what o becomes when the header goes out with the status c, or when that
\* comes too late; the writers that record are left out.
Sends(o, c, p) ==
    /\ p \in Writers /\ p.header = o.header /\ p.wroteHeader = o.wroteHeader
    /\ o.status = 0 => p.status = c /\ p.sent = o.header /\ p.superfluous = o.superfluous
    /\ o.status # 0 => p.status = o.status /\ p.sent = o.sent /\ p.superfluous = TRUE

\* What the logger and the metrics make of WriteHeader.
LoggerSent(o, c, p) ==
    Sends(o, c, p) /\ p.statusCode = c /\ p.code = o.code /\ p.wrote = o.wrote

MetricsSent(o, c, p) ==
    /\ Sends(o, c, p) /\ p.statusCode = c /\ p.wrote
    /\ p.code = IF o.wrote THEN o.code ELSE c

LEMMA NetSends ==
    ASSUME NEW o \in Writers, NEW c \in Codes \cup {200}
    PROVE  LET p == NetWriteHeader(o, c) IN
           /\ Sends(o, c, p)
           /\ p.statusCode = o.statusCode /\ p.code = o.code /\ p.wrote = o.wrote
<1>. DEFINE p == NetWriteHeader(o, c)
<1>1. c \in StatusOrNone
  BY DEF StatusOrNone
<1>2. CASE o.status = 0
  <2>1. p = [o EXCEPT !.status = c, !.sent = o.header]
    BY <1>2 DEF NetWriteHeader
  <2>. HIDE DEF p
  <2>2. /\ p \in Writers /\ p.header = o.header
        /\ p.statusCode = o.statusCode /\ p.code = o.code
        /\ p.wrote = o.wrote /\ p.wroteHeader = o.wroteHeader
        /\ p.status = c /\ p.sent = o.header /\ p.superfluous = o.superfluous
    BY ONLY <1>1, <2>1, WriterFields, o \in Writers DEF Writers
  <2>. QED BY <1>2, <2>2, Zenon DEF Sends, p
<1>3. CASE o.status # 0
  <2>1. p = [o EXCEPT !.superfluous = TRUE]
    BY <1>3 DEF NetWriteHeader
  <2>. HIDE DEF p
  <2>2. /\ p \in Writers /\ p.header = o.header
        /\ p.statusCode = o.statusCode /\ p.code = o.code
        /\ p.wrote = o.wrote /\ p.wroteHeader = o.wroteHeader
        /\ p.status = o.status /\ p.sent = o.sent /\ p.superfluous = TRUE
    BY ONLY <2>1, WriterFields, o \in Writers DEF Writers
  <2>. QED BY <1>3, <2>2, Zenon DEF Sends, p
<1>. QED BY <1>2, <1>3

LEMMA LoggerSends ==
    ASSUME NEW o \in Writers, NEW c \in Codes \cup {200}
    PROVE  LoggerSent(o, c, LoggerWriteHeader(o, c))
<1>. DEFINE q == [o EXCEPT !.statusCode = c]
            p == NetWriteHeader(q, c)
<1>1. c \in StatusOrNone
  BY DEF StatusOrNone
<1>2. /\ q \in Writers /\ q.header = o.header /\ q.statusCode = c /\ q.code = o.code
      /\ q.wrote = o.wrote /\ q.wroteHeader = o.wroteHeader
      /\ q.status = o.status /\ q.sent = o.sent /\ q.superfluous = o.superfluous
  BY <1>1, WriterFields DEF Writers
<1>3. LoggerWriteHeader(o, c) = p
  BY DEF LoggerWriteHeader
<1>. HIDE DEF q
<1>4. Sends(q, c, p) /\ p.statusCode = q.statusCode /\ p.code = q.code /\ p.wrote = q.wrote
  BY <1>2, NetSends, Zenon
<1>. HIDE DEF p
<1>5. Sends(o, c, p)
  BY ONLY <1>2, <1>4, Zenon DEF Sends
<1>. QED BY ONLY <1>2, <1>3, <1>4, <1>5, Zenon DEF LoggerSent

LEMMA MetricsSends ==
    ASSUME NEW o \in Writers, NEW c \in Codes \cup {200}
    PROVE  MetricsSent(o, c, MetricsWriteHeader(o, c))
<1>. DEFINE q == [o EXCEPT !.code = c, !.wrote = TRUE]
            p == LoggerWriteHeader(q, c)
<1>1. c \in StatusOrNone
  BY DEF StatusOrNone
<1>2. /\ q \in Writers /\ q.header = o.header /\ q.code = c
      /\ q.wrote = TRUE /\ q.wroteHeader = o.wroteHeader
      /\ q.status = o.status /\ q.sent = o.sent /\ q.superfluous = o.superfluous
  BY <1>1, WriterFields DEF Writers
<1>. HIDE DEF q
<1>3. CASE o.wrote
  <2>1. MetricsWriteHeader(o, c) = LoggerWriteHeader(o, c)
    BY <1>3 DEF MetricsWriteHeader
  <2>. DEFINE r == LoggerWriteHeader(o, c)
  <2>2. LoggerSent(o, c, r)
    BY LoggerSends, Zenon
  <2>. HIDE DEF r
  <2>3. MetricsSent(o, c, r)
    BY ONLY <1>3, <2>2, Zenon DEF LoggerSent, MetricsSent
  <2>. QED BY ONLY <2>1, <2>3, Zenon DEF r
<1>4. CASE ~o.wrote
  <2>1. MetricsWriteHeader(o, c) = p
    BY <1>4 DEF MetricsWriteHeader, q
  <2>2. LoggerSent(q, c, p)
    BY <1>2, LoggerSends, Zenon
  <2>. HIDE DEF p
  <2>3. Sends(o, c, p)
    BY ONLY <1>2, <2>2, Zenon DEF Sends, LoggerSent
  <2>. QED BY ONLY <1>2, <1>4, <2>1, <2>2, <2>3, Zenon DEF LoggerSent, MetricsSent
<1>. QED BY <1>3, <1>4

\* WriteHeader of the outermost writer, of writers that agree: the header goes
\* out once, with what it has by then and the latency.
EnrichmentSent(o, c, p) ==
    /\ p \in Writers /\ WritersSound(p) /\ p.wrote
    /\ o.wrote => p.header = o.header /\ p.sent = o.sent /\ p.status = o.status
    /\ ~o.wrote => /\ p.header = [o.header EXCEPT !["Latency"] = "latency"]
                   /\ p.sent = p.header /\ p.status = c

LEMMA EnrichmentSends ==
    ASSUME NEW o \in Writers, WritersSound(o), NEW c \in Codes \cup {200}
    PROVE  EnrichmentSent(o, c, EnrichmentWriteHeader(o, c))
<1>. DEFINE q == [o EXCEPT !.wroteHeader = TRUE, !.header["Latency"] = "latency"]
            late == [o.header EXCEPT !["Latency"] = "latency"]
<1>1. c # 0 /\ c \in Nat
  BY CodesFacts
<1>2. CASE o.wroteHeader
  <2>. DEFINE p == MetricsWriteHeader(o, c)
  <2>1. EnrichmentWriteHeader(o, c) = p
    BY <1>2 DEF EnrichmentWriteHeader
  <2>2. o.wrote /\ o.status # 0
    BY <1>2, Zenon DEF WritersSound
  <2>9. MetricsSent(o, c, p)
    BY MetricsSends, Zenon
  <2>. HIDE DEF p
  <2>3. Sends(o, c, p) /\ p.wrote /\ p.code = o.code
    BY ONLY <2>9, <2>2, Zenon DEF MetricsSent
  <2>4. p \in Writers /\ WritersSound(p) /\ p.header = o.header /\ p.sent = o.sent
        /\ p.status = o.status
    BY ONLY <1>2, <2>2, <2>3, WritersSound(o), Zenon DEF WritersSound, Sends
  <2>. QED BY ONLY <2>1, <2>2, <2>3, <2>4, Zenon DEF EnrichmentSent
<1>3. CASE ~o.wroteHeader
  <2>. DEFINE p == MetricsWriteHeader(q, c)
  <2>1. EnrichmentWriteHeader(o, c) = p
    BY <1>3 DEF EnrichmentWriteHeader
  <2>2. ~o.wrote /\ o.status = 0
    BY <1>3, Zenon DEF WritersSound
  <2>3. late \in HeaderMaps /\ late["Latency"] = "latency"
    BY WriterFields DEF HeaderMaps, Headers
  <2>4. /\ q \in Writers /\ q.header = late
        /\ q.wroteHeader = TRUE /\ q.wrote = o.wrote /\ q.status = o.status
        /\ q.superfluous = o.superfluous
    BY <2>3, WriterFields DEF Writers
  <2>. HIDE DEF q, late
  <2>9. q \in Writers
    BY <2>4
  <2>5. MetricsSent(q, c, p)
    BY ONLY <2>9, c \in Codes \cup {200}, MetricsSends, Zenon
  <2>. HIDE DEF p
  <2>6. /\ p \in Writers /\ p.header = late /\ p.sent = late /\ p.status = c /\ p.code = c
        /\ p.wroteHeader = TRUE
    BY ONLY <2>2, <2>4, <2>5, Zenon DEF Sends, MetricsSent
  <2>7. WritersSound(p)
    BY ONLY <1>1, <2>3, <2>5, <2>6, Zenon DEF WritersSound, MetricsSent
  <2>8. p \in Writers /\ WritersSound(p) /\ p.wrote
        /\ p.header = late /\ p.sent = p.header /\ p.status = c
    BY ONLY <2>5, <2>6, <2>7, Zenon DEF MetricsSent
  <2>. QED BY ONLY <2>1, <2>2, <2>8, Zenon DEF late, EnrichmentSent
<1>. QED BY <1>2, <1>3

\* Write of the outermost writer sends the header if nobody has, and that is
\* all it does to the writers.
LEMMA EnrichmentWrites ==
    ASSUME NEW o \in Writers, WritersSound(o)
    PROVE  EnrichmentWrite(o) = IF o.wrote THEN o ELSE EnrichmentWriteHeader(o, 200)
<1>. DEFINE q == EnrichmentWriteHeader(o, 200)
<1>1. ASSUME NEW x \in Writers, WritersSound(x), x.wrote
      PROVE  MetricsWrite(x) = x
  BY <1>1 DEF MetricsWrite, NetWrite, WritersSound
<1>2. EnrichmentSent(o, 200, q)
  BY EnrichmentSends, Zenon
<1>3. CASE o.wrote
  BY <1>1, <1>3 DEF EnrichmentWrite, WritersSound
<1>4. CASE ~o.wrote
  <2>1. EnrichmentWrite(o) = MetricsWrite(q)
    BY <1>4 DEF EnrichmentWrite, WritersSound
  <2>. HIDE DEF q
  <2>2. MetricsWrite(q) = q
    BY <1>1, <1>2, Zenon DEF EnrichmentSent
  <2>. QED BY <1>4, <2>1, <2>2 DEF q
<1>. QED BY <1>3, <1>4

-----------------------------------------------------------------------------
Captures == [headers : HeaderMaps, status : StatusOrNone, body : BOOLEAN]

LEMMA CaptureFields ==
    ASSUME NEW k \in Captures
    PROVE  k.headers \in HeaderMaps /\ k.status \in StatusOrNone /\ k.body \in BOOLEAN
<1>1. k.headers \in HeaderMaps /\ k.status \in StatusOrNone
  BY DEF Captures
<1>2. k.body \in BOOLEAN
  BY DEF Captures
<1>. QED BY <1>1, <1>2

\* What the invariant says of the types.
LEMMA WriterTypes ==
    ASSUME NEW o \in Writers
    PROVE  /\ o.header \in HeaderMaps /\ o.sent \in HeaderMaps
           /\ {o.status, o.code, o.statusCode} \subseteq StatusOrNone
BY WriterFields

LEMMA ResponseTyped ==
    ASSUME ResponseInv
    PROVE  /\ rewriting \in BOOLEAN /\ names \in [Renamed -> NewNames]
           /\ capture \in Captures /\ retried \in BOOLEAN
           /\ out \in Writers /\ WritersSound(out) /\ calls \in 0 .. MaxCalls
BY Zenon DEF ResponseInv, RPTypeOK, Captures

\* q is o with other headers that are not on the wire.
Reheaded(o, hs, q) ==
    /\ q \in Writers /\ WritersSound(q) /\ q.header = hs
    /\ q.sent = o.sent /\ q.status = o.status /\ q.wrote = o.wrote

LEMMA NewHeaders ==
    ASSUME NEW o \in Writers, WritersSound(o), NEW hs \in HeaderMaps
    PROVE  Reheaded(o, hs, [o EXCEPT !.header = hs])
<1>. DEFINE q == [o EXCEPT !.header = hs]
<1>1. /\ q \in Writers /\ q.header = hs /\ q.sent = o.sent /\ q.status = o.status
      /\ q.wrote = o.wrote /\ q.wroteHeader = o.wroteHeader /\ q.code = o.code
      /\ q.superfluous = o.superfluous /\ q.statusCode = o.statusCode
  BY WriterFields DEF Writers
<1>. HIDE DEF q
<1>2. WritersSound(q)
  BY ONLY <1>1, WritersSound(o), Zenon DEF WritersSound
<1>. QED BY ONLY <1>1, <1>2, Zenon DEF Reheaded, q

LEMMA OneHeader ==
    ASSUME NEW hs \in HeaderMaps, NEW h \in Headers, NEW v \in Values
    PROVE  /\ [hs EXCEPT ![h] = v] \in HeaderMaps
           /\ [hs EXCEPT ![h] = v][h] = v
           /\ \A x \in Headers \ {h} : [hs EXCEPT ![h] = v][x] = hs[x]
BY DEF HeaderMaps, Values

\* Whether the response is held back or not, one header is new.
HeaderPut(h, v, old, new) ==
    new \in HeaderMaps /\ new[h] = v /\ \A x \in Headers \ {h} : new[x] = old[x]

LEMMA SetsHeader ==
    ASSUME ResponseInv, NEW h \in Headers, NEW v \in Values, SetHeader(h, v)
    PROVE  /\ rewriting => /\ out' = out /\ capture' \in Captures
                           /\ HeaderPut(h, v, capture.headers, capture'.headers)
                           /\ capture'.status = capture.status
           /\ ~rewriting => /\ capture' = capture
                            /\ HeaderPut(h, v, out.header, out'.header)
                            /\ Reheaded(out, out'.header, out')
<1>1. out \in Writers /\ WritersSound(out) /\ capture \in Captures
  BY ResponseTyped
<1>2. ASSUME rewriting
      PROVE  /\ out' = out /\ capture' \in Captures
             /\ HeaderPut(h, v, capture.headers, capture'.headers)
             /\ capture'.status = capture.status
  <2>. DEFINE hs == [capture.headers EXCEPT ![h] = v]
  <2>1. capture' = [capture EXCEPT !.headers[h] = v] /\ out' = out
    BY <1>2 DEF SetHeader
  <2>2. hs \in HeaderMaps /\ HeaderPut(h, v, capture.headers, hs)
    BY <1>1, CaptureFields, OneHeader DEF HeaderPut
  <2>3. capture' = [capture EXCEPT !.headers = hs]
    BY <2>1
  <2>. HIDE DEF hs
  <2>4. capture' \in Captures /\ capture'.headers = hs /\ capture'.status = capture.status
    BY ONLY <1>1, <2>2, <2>3, CaptureFields DEF Captures
  <2>. QED BY <2>1, <2>2, <2>4
<1>3. ASSUME ~rewriting
      PROVE  /\ capture' = capture
             /\ HeaderPut(h, v, out.header, out'.header)
             /\ Reheaded(out, out'.header, out')
  <2>. DEFINE hs == [out.header EXCEPT ![h] = v]
  <2>1. out' = [out EXCEPT !.header[h] = v] /\ capture' = capture
    BY <1>3 DEF SetHeader
  <2>2. hs \in HeaderMaps /\ HeaderPut(h, v, out.header, hs)
    BY <1>1, WriterFields, OneHeader DEF HeaderPut
  <2>3. out' = [out EXCEPT !.header = hs]
    BY <2>1
  <2>. HIDE DEF hs
  <2>4. Reheaded(out, hs, out')
    BY <1>1, <2>2, <2>3, NewHeaders
  <2>. QED BY <2>1, <2>2, <2>4 DEF Reheaded
<1>. QED BY <1>2, <1>3

\* Init and the steps.
LEMMA InitResponseInv == RPInit => ResponseInv
<1>. SUFFICES ASSUME RPInit PROVE ResponseInv
  OBVIOUS
<1>. DEFINE traced == [NoHeaders EXCEPT !["Trace"] = "id"]
<1>1. /\ NoHeaders \in HeaderMaps /\ traced \in HeaderMaps /\ traced["Trace"] = "id"
      /\ traced["Latency"] = Absent
  BY DEF HeaderMaps, NoHeaders, Headers, Absent
<1>. HIDE DEF traced
<1>2. capture = [headers |-> traced, status |-> 0, body |-> FALSE]
      /\ out = [header |-> IF rewriting THEN NoHeaders ELSE traced,
                sent |-> NoHeaders, status |-> 0, superfluous |-> FALSE,
                statusCode |-> 200, code |-> 200, wrote |-> FALSE, wroteHeader |-> FALSE]
      /\ phase = "handling" /\ calls = 0 /\ retried = FALSE /\ rewriting \in BOOLEAN
      /\ names \in [Renamed -> NewNames]
  BY DEF RPInit, traced
<1>3. capture \in Captures
  BY <1>1, <1>2 DEF Captures, StatusOrNone
<1>4. out \in Writers
  BY <1>1, <1>2 DEF Writers, StatusOrNone
<1>5. out.header = (IF rewriting THEN NoHeaders ELSE traced) /\ out.wrote = FALSE
      /\ out.wroteHeader = FALSE /\ out.status = 0
  BY <1>2
<1>6. WritersSound(out)
  BY ONLY <1>5, Zenon DEF WritersSound
<1>7. calls \in 0 .. MaxCalls /\ 0 # 429
  BY <1>2, ResponsePathAssumption
<1>8. RPTypeOK
  <2>1. phase \in {"handling", "rewriting", "finishing", "over", "panicked"}
        /\ retried \in BOOLEAN
    BY <1>2
  <2>2. rewriting \in BOOLEAN /\ names \in [Renamed -> NewNames]
    BY <1>2
  <2>. QED BY ONLY <1>3, <1>4, <1>7, <2>1, <2>2, WriterTypes, Zenon DEF RPTypeOK, Captures
<1>9. capture.headers = traced /\ capture.status = 0
  BY <1>2
<1>10. ~rewriting => DirectResponse
  BY <1>1, <1>2, <1>5, <1>7 DEF DirectResponse
<1>11. rewriting => HeldResponse
  BY <1>1, <1>2, <1>5, <1>7, <1>9 DEF HeldResponse
<1>. QED BY <1>2, <1>4, <1>6, <1>8, <1>10, <1>11 DEF ResponseInv

LEMMA HandlerSetsInv ==
    ASSUME ResponseInv, phase = "handling", UNCHANGED <<rewriting, names, retried>>,
           calls' \in 0 .. MaxCalls,
           NEW h \in Headers \ {"Trace", "Latency", "Retry-After"}, NEW v \in Values,
           SetHeader(h, v),
           \/ phase' = "handling"
           \/ /\ phase' = IF rewriting THEN "rewriting" ELSE "finishing"
              /\ h = "Trace-Latency" /\ v = "latency"
    PROVE  ResponseInv'
<1>. USE DEF Headers
<1>1. CASE rewriting
  <2>1. out' = out /\ capture' \in Captures
        /\ HeaderPut(h, v, capture.headers, capture'.headers)
        /\ capture'.status = capture.status
    BY <1>1, SetsHeader
  <2>2. /\ capture'.headers["Trace"] = capture.headers["Trace"]
        /\ capture'.headers["Latency"] = capture.headers["Latency"]
        /\ capture'.headers["Retry-After"] = capture.headers["Retry-After"]
        /\ capture'.headers[h] = v
    BY <2>1 DEF HeaderPut
  <2>3. HeldResponse
    BY <1>1 DEF ResponseInv
  <2>4. phase' \in {"handling", "rewriting"} /\ (phase' = "rewriting" => h = "Trace-Latency" /\ v = "latency")
    BY <1>1
  <2>5. HeldResponse'
    BY ONLY <2>1, <2>2, <2>3, <2>4, retried' = retried, Zenon DEF HeldResponse
  <2>6. (out \in Writers)' /\ WritersSound(out')
    BY <2>1, ResponseTyped
  <2>7. (phase \in {"handling", "rewriting", "finishing", "over", "panicked"})'
    BY <2>4
  <2>8. (rewriting \in BOOLEAN /\ names \in [Renamed -> NewNames] /\ retried \in BOOLEAN)'
    BY ResponseTyped
  <2>9. (capture \in Captures)'
    BY <2>1, ResponseTyped
  <2>10. RPTypeOK'
    BY <2>6, <2>7, <2>8, <2>9, WriterTypes, Zenon DEF RPTypeOK, Captures
  <2>. QED BY <1>1, <2>4, <2>5, <2>6, <2>10 DEF ResponseInv
<1>2. CASE ~rewriting
  <2>1. capture' = capture /\ HeaderPut(h, v, out.header, out'.header)
        /\ Reheaded(out, out'.header, out')
    BY <1>2, SetsHeader
  <2>2. /\ out'.header["Trace"] = out.header["Trace"]
        /\ out'.header["Retry-After"] = out.header["Retry-After"]
    BY <2>1 DEF HeaderPut
  <2>3. DirectResponse
    BY <1>2 DEF ResponseInv
  <2>4. phase' \in {"handling", "finishing"}
    BY <1>2
  <2>5. DirectResponse'
    BY ONLY <2>1, <2>2, <2>3, <2>4, retried' = retried, Zenon DEF DirectResponse, Reheaded
  <2>6. (out \in Writers)' /\ WritersSound(out')
    BY <2>1 DEF Reheaded
  <2>7. (phase \in {"handling", "rewriting", "finishing", "over", "panicked"})'
    BY <2>4
  <2>8. (rewriting \in BOOLEAN /\ names \in [Renamed -> NewNames] /\ retried \in BOOLEAN)'
    BY ResponseTyped
  <2>9. (capture \in Captures)'
    BY <2>1, ResponseTyped
  <2>10. RPTypeOK'
    BY <2>6, <2>7, <2>8, <2>9, WriterTypes, Zenon DEF RPTypeOK, Captures
  <2>. QED BY <1>2, <2>4, <2>5, <2>6, <2>10 DEF ResponseInv
<1>. QED BY <1>1, <1>2

LEMMA HandlerWritesHeaderInv ==
    ASSUME ResponseInv, phase = "handling", UNCHANGED <<rewriting, names, phase>>,
           calls' \in 0 .. MaxCalls, NEW c \in Codes, HandlerWritesHeader(c)
    PROVE  ResponseInv'
<1>. DEFINE first == c = 429 /\ ~retried
            Put(hs) == IF first THEN [hs EXCEPT !["Retry-After"] = "retry"] ELSE hs
<1>1. ASSUME NEW hs \in HeaderMaps
      PROVE  /\ Put(hs) \in HeaderMaps
             /\ \A x \in Headers \ {"Retry-After"} : Put(hs)[x] = hs[x]
             /\ first => Put(hs)["Retry-After"] = "retry"
             /\ ~first => Put(hs) = hs
  <2>1. "Retry-After" \in Headers /\ "retry" \in Values
    BY DEF Headers, Values
  <2>2. CASE first
    BY <2>1, <2>2, OneHeader
  <2>3. CASE ~first
    BY <2>3
  <2>. QED BY <2>2, <2>3
<1>2. retried' = (retried \/ first)
  BY DEF HandlerWritesHeader
<1>3. c \in StatusOrNone /\ c \in Codes \cup {200}
  BY DEF StatusOrNone
<1>4. "Trace" \in Headers \ {"Retry-After"} /\ "Latency" \in Headers \ {"Retry-After"}
  BY DEF Headers
<1>5. first => c = 429
  OBVIOUS
<1>6. c = 429 => first \/ retried
  BY ResponseTyped
<1>7. /\ (phase \in {"handling", "rewriting", "finishing", "over", "panicked"})'
      /\ (rewriting \in BOOLEAN /\ names \in [Renamed -> NewNames])'
  BY ResponseTyped
<1>8. (retried \in BOOLEAN)'
  BY <1>2, ResponseTyped
<1>9. CASE rewriting
  <2>. DEFINE hs == Put(capture.headers)
  <2>1. capture' = [capture EXCEPT !.headers = hs, !.status = c] /\ out' = out
    BY <1>9 DEF HandlerWritesHeader
  <2>2. capture \in Captures /\ hs \in HeaderMaps
    BY <1>1, ResponseTyped, CaptureFields
  <2>3. /\ hs["Trace"] = capture.headers["Trace"] /\ hs["Latency"] = capture.headers["Latency"]
        /\ first => hs["Retry-After"] = "retry"
        /\ ~first => hs = capture.headers
    BY <1>1, <1>4, <2>2, CaptureFields
  <2>. HIDE DEF hs
  <2>4. capture' \in Captures /\ capture'.headers = hs /\ capture'.status = c
    BY ONLY <1>3, <2>1, <2>2, CaptureFields DEF Captures
  <2>. HIDE DEF first
  <2>5. HeldResponse
    BY <1>9 DEF ResponseInv
  <2>6. HeldResponse'
    BY ONLY <1>2, <1>6, <2>1, <2>3, <2>4, <2>5, phase' = phase, phase = "handling", Zenon
       DEF HeldResponse
  <2>7. (out \in Writers)' /\ WritersSound(out')
    BY <2>1, ResponseTyped
  <2>8. RPTypeOK'
    BY <1>7, <1>8, <2>4, <2>7, WriterTypes, Zenon DEF RPTypeOK, Captures
  <2>. QED BY <1>9, <2>6, <2>7, <2>8 DEF ResponseInv
<1>10. CASE ~rewriting
  <2>. DEFINE hs == Put(out.header)
              o == [out EXCEPT !.header = hs]
  <2>1. out' = EnrichmentWriteHeader(o, c) /\ capture' = capture
    BY <1>10 DEF HandlerWritesHeader
  <2>2. out \in Writers /\ WritersSound(out) /\ hs \in HeaderMaps
    BY <1>1, ResponseTyped, WriterFields
  <2>3. /\ hs["Trace"] = out.header["Trace"]
        /\ first => hs["Retry-After"] = "retry"
        /\ ~first => hs = out.header
    BY <1>1, <1>4, <2>2, WriterFields
  <2>. HIDE DEF hs
  <2>4. Reheaded(out, hs, o)
    BY <2>2, NewHeaders
  <2>. HIDE DEF o, first
  <2>5. o \in Writers /\ WritersSound(o)
    BY <2>4 DEF Reheaded
  <2>6. EnrichmentSent(o, c, out')
    BY <1>3, <2>1, <2>5, EnrichmentSends, Zenon
  <2>7. DirectResponse
    BY <1>10 DEF ResponseInv
  <2>8. [hs EXCEPT !["Latency"] = "latency"]["Trace"] = hs["Trace"]
        /\ [hs EXCEPT !["Latency"] = "latency"]["Retry-After"] = hs["Retry-After"]
    BY <2>2 DEF HeaderMaps, Headers
  <2>9. /\ out'.header["Trace"] = "id"
        /\ (retried \/ first) => out'.header["Retry-After"] = "retry"
        /\ out'.header["Retry-After"] = hs["Retry-After"]
    <3>1. o.header = hs
      BY <2>4 DEF Reheaded
    <3>2. hs["Trace"] = "id" /\ ((retried \/ first) => hs["Retry-After"] = "retry")
      BY <2>3, <2>7, Zenon DEF DirectResponse
    <3>3. \/ out'.header = hs
          \/ out'.header = [hs EXCEPT !["Latency"] = "latency"]
      BY <2>6, <3>1, Zenon DEF EnrichmentSent
    <3>. QED BY <2>8, <3>2, <3>3, Zenon
  <2>10. out'.sent["Trace"] = "id" /\ (out'.status = 429 => out'.sent["Retry-After"] = "retry")
    <3>1. CASE o.wrote
      <4>1. out'.sent = out.sent /\ out'.status = out.status
        BY <2>4, <2>6, <3>1, Zenon DEF EnrichmentSent, Reheaded
      <4>2. out.wrote
        BY <2>4, <3>1 DEF Reheaded
      <4>. QED BY <2>7, <4>1, <4>2 DEF DirectResponse
    <3>2. CASE ~o.wrote
      BY <1>6, <2>6, <2>9, <3>2, Zenon DEF EnrichmentSent
    <3>. QED BY <3>1, <3>2
  <2>11. DirectResponse'
    BY ONLY <1>2, <2>9, <2>10, phase' = phase, phase = "handling", Zenon DEF DirectResponse
  <2>12. (out \in Writers)' /\ WritersSound(out') /\ (capture \in Captures)'
    BY <2>1, <2>6, ResponseTyped DEF EnrichmentSent
  <2>13. RPTypeOK'
    BY <1>7, <1>8, <2>12, WriterTypes, Zenon DEF RPTypeOK, Captures
  <2>. QED BY <1>10, <2>11, <2>12, <2>13 DEF ResponseInv
<1>. QED BY <1>9, <1>10

LEMMA HandlerWritesInv ==
    ASSUME ResponseInv, phase = "handling", UNCHANGED <<rewriting, names, phase>>,
           calls' \in 0 .. MaxCalls, HandlerWrites
    PROVE  ResponseInv'
<1>1. /\ (phase \in {"handling", "rewriting", "finishing", "over", "panicked"})'
      /\ (rewriting \in BOOLEAN /\ names \in [Renamed -> NewNames] /\ retried \in BOOLEAN)'
      /\ retried' = retried
  BY ResponseTyped DEF HandlerWrites
<1>2. CASE rewriting
  <2>1. capture' = [capture EXCEPT !.body = TRUE] /\ out' = out
    BY <1>2 DEF HandlerWrites
  <2>2. capture' \in Captures /\ capture'.headers = capture.headers
        /\ capture'.status = capture.status
    BY <2>1, ResponseTyped, CaptureFields DEF Captures
  <2>3. HeldResponse
    BY <1>2 DEF ResponseInv
  <2>4. HeldResponse'
    BY ONLY <1>1, <2>1, <2>2, <2>3, phase' = phase, phase = "handling", Zenon DEF HeldResponse
  <2>5. (out \in Writers)' /\ WritersSound(out')
    BY <2>1, ResponseTyped
  <2>6. RPTypeOK'
    BY <1>1, <2>2, <2>5, WriterTypes, Zenon DEF RPTypeOK, Captures
  <2>. QED BY <1>2, <2>4, <2>5, <2>6 DEF ResponseInv
<1>3. CASE ~rewriting
  <2>1. out' = (IF out.wrote THEN out ELSE EnrichmentWriteHeader(out, 200))
        /\ capture' = capture
    BY <1>3, EnrichmentWrites, ResponseTyped DEF HandlerWrites
  <2>2. EnrichmentSent(out, 200, EnrichmentWriteHeader(out, 200))
    BY EnrichmentSends, ResponseTyped, Zenon
  <2>3. DirectResponse
    BY <1>3 DEF ResponseInv
  <2>4. DirectResponse' /\ (out \in Writers)' /\ WritersSound(out')
    <3>1. CASE out.wrote
      BY <1>1, <2>1, <2>3, <3>1, ResponseTyped, Zenon DEF DirectResponse
    <3>2. CASE ~out.wrote
      <4>. DEFINE late == [out.header EXCEPT !["Latency"] = "latency"]
      <4>1. EnrichmentSent(out, 200, out')
        BY <2>1, <2>2, <3>2
      <4>2. late["Trace"] = out.header["Trace"] /\ late["Retry-After"] = out.header["Retry-After"]
        BY ResponseTyped, WriterFields DEF HeaderMaps, Headers
      <4>. HIDE DEF late
      <4>3. out'.header = late /\ out'.sent = late /\ out'.status = 200 /\ 200 # 429
        BY <3>2, <4>1 DEF EnrichmentSent, late
      <4>4. DirectResponse'
        <5>1. late["Trace"] = "id" /\ (retried' => late["Retry-After"] = "retry")
          BY ONLY <1>1, <2>3, <4>2, Zenon DEF DirectResponse
        <5>2. phase' \in {"handling", "finishing", "over"}
          OBVIOUS
        <5>. QED BY ONLY <4>3, <5>1, <5>2 DEF DirectResponse
      <4>. QED BY <4>1, <4>4 DEF EnrichmentSent
    <3>. QED BY <3>1, <3>2
  <2>5. RPTypeOK'
    BY <1>1, <2>1, <2>4, ResponseTyped, WriterTypes, Zenon DEF RPTypeOK, Captures
  <2>. QED BY <1>3, <2>4, <2>5 DEF ResponseInv
<1>. QED BY <1>2, <1>3

-----------------------------------------------------------------------------
\* The rewriter, header by header.
LEMMA Renames ==
    ASSUME capture \in Captures, names \in [Renamed -> NewNames],
           NEW hs \in HeaderMaps, NEW orig \in Renamed
    PROVE  /\ Rename(hs, orig) \in HeaderMaps
           /\ Moved(orig) => names[orig] \in Headers \ {"Trace", "Trace-Latency", "Latency"}
           /\ \A x \in Headers :
                 Rename(hs, orig)[x] =
                     IF Moved(orig) /\ x = names[orig] THEN capture.headers[orig]
                     ELSE IF Moved(orig) /\ x = orig THEN Absent ELSE hs[x]
<1>. DEFINE old == capture.headers
<1>1. old \in HeaderMaps /\ orig \in Headers
  BY CaptureFields DEF Renamed, Headers
<1>2. CASE Moved(orig)
  <2>1. names[orig] \in Headers \ {"Trace", "Trace-Latency", "Latency"} /\ names[orig] # orig
    BY <1>2 DEF Moved, NewNames, Headers
  <2>2. Rename(hs, orig) = [hs EXCEPT ![orig] = Absent, ![names[orig]] = old[orig]]
    BY <1>2 DEF Rename
  <2>. HIDE DEF old
  <2>3. Rename(hs, orig) \in HeaderMaps
    BY <1>1, <2>1, <2>2 DEF HeaderMaps
  <2>4. \A x \in Headers :
           Rename(hs, orig)[x] = IF x = names[orig] THEN old[orig]
                                 ELSE IF x = orig THEN Absent ELSE hs[x]
    BY <1>1, <2>1, <2>2 DEF HeaderMaps
  <2>. QED BY <1>2, <2>1, <2>3, <2>4 DEF old
<1>3. CASE ~Moved(orig)
  <2>1. Rename(hs, orig) = hs
    BY <1>3 DEF Rename
  <2>. QED BY <1>3, <2>1
<1>. QED BY <1>2, <1>3

LEMMA RewrittenHeaders ==
    ASSUME capture \in Captures, names \in [Renamed -> NewNames],
           NEW first \in Renamed, NEW second \in Renamed, first # second
    PROVE  LET hs == CopyMissing(Rename(Rename(NoHeaders, first), second)) IN
           /\ hs \in HeaderMaps
           /\ hs["Trace"] = capture.headers["Trace"]
           /\ hs["Trace-Latency"] = capture.headers["Trace-Latency"]
           /\ NamesClear => Delivers(hs)
<1>. DEFINE one == Rename(NoHeaders, first)
            two == Rename(one, second)
            hs  == CopyMissing(two)
            old == capture.headers
            Copied(x) == two[x] = Absent /\ hs[x] = old[x]
            Taken(x, h) == Moved(h) /\ x = names[h] /\ two[x] = old[h]
                           /\ (old[h] # Absent => hs[x] = old[h])
<1>1. NoHeaders \in HeaderMaps /\ old \in HeaderMaps
  BY CaptureFields DEF NoHeaders, HeaderMaps, Absent
<1>2. /\ one \in HeaderMaps
      /\ Moved(first) => names[first] \in Headers \ {"Trace", "Trace-Latency", "Latency"}
      /\ \A x \in Headers :
            one[x] = IF Moved(first) /\ x = names[first] THEN old[first] ELSE Absent
  <2>1. \A x \in Headers : NoHeaders[x] = Absent
    BY DEF NoHeaders
  <2>2. /\ one \in HeaderMaps
        /\ Moved(first) => names[first] \in Headers \ {"Trace", "Trace-Latency", "Latency"}
        /\ \A x \in Headers :
              one[x] = IF Moved(first) /\ x = names[first] THEN old[first]
                       ELSE IF Moved(first) /\ x = first THEN Absent ELSE NoHeaders[x]
    BY <1>1, Renames
  <2>. HIDE DEF one, old
  <2>. QED BY <2>1, <2>2
<1>. HIDE DEF one
<1>3. /\ two \in HeaderMaps
      /\ Moved(second) => names[second] \in Headers \ {"Trace", "Trace-Latency", "Latency"}
      /\ \A x \in Headers :
            two[x] = IF Moved(second) /\ x = names[second] THEN old[second]
                     ELSE IF Moved(second) /\ x = second THEN Absent ELSE one[x]
  BY <1>2, Renames
<1>. HIDE DEF two
<1>4. hs = [x \in Headers |-> IF two[x] = Absent THEN old[x] ELSE two[x]]
  BY DEF CopyMissing
<1>. HIDE DEF hs, old
<1>5. hs \in HeaderMaps
  BY <1>1, <1>3, <1>4 DEF HeaderMaps
<1>6. \A x \in Headers : hs[x] = IF two[x] = Absent THEN old[x] ELSE two[x]
  BY <1>4
<1>7. hs["Trace"] = old["Trace"] /\ hs["Trace-Latency"] = old["Trace-Latency"]
  <2>1. ASSUME NEW x \in {"Trace", "Trace-Latency"} PROVE two[x] = Absent
    <3>1. x \in Headers
      BY <2>1 DEF Headers
    <3>2. one[x] = Absent
      BY <1>2, <2>1, <3>1
    <3>. QED BY <1>3, <2>1, <3>1, <3>2
  <2>. QED BY <1>6, <2>1 DEF Headers
<1>8. ASSUME NamesClear, NEW h \in Renamed, old[h] # Absent
      PROVE  hs[NewName(h)] = old[h]
  <2>0. first \in Headers /\ second \in Headers /\ h \in {first, second}
    BY DEF Renamed, Headers
  <2>1. names[first] # second /\ names[second] # first
        /\ (names[first] # names[second] \/ names[first] = "")
    BY <1>8 DEF NamesClear
  <2>2. Moved(h) <=> names[h] \notin {"", h}
    BY <1>8 DEF Moved, old
  <2>3. CASE Moved(h)
    <3>1. NewName(h) = names[h] /\ names[h] \in Headers
      BY <1>2, <1>3, <2>0, <2>2, <2>3 DEF NewName
    <3>2. CASE h = second
      BY <1>3, <1>6, <1>8, <2>3, <3>1, <3>2
    <3>3. CASE h = first
      <4>1. names[h] # second /\ ~(Moved(second) /\ names[h] = names[second])
        BY <2>1, <2>2, <2>3, <3>3
      <4>2. two[names[h]] = old[h]
        BY <1>2, <1>3, <2>3, <3>1, <3>3, <4>1
      <4>. QED BY <1>6, <1>8, <3>1, <4>2
    <3>. QED BY <2>0, <3>2, <3>3
  <2>4. CASE ~Moved(h)
    <3>1. NewName(h) = h
      BY <2>2, <2>4 DEF NewName
    <3>2. ~(Moved(second) /\ h = names[second]) /\ ~(Moved(first) /\ h = names[first])
      BY <2>0, <2>1, <2>4
    <3>3. one[h] = Absent
      BY <1>2, <2>0, <3>2
    <3>4. two[h] = Absent
      BY <1>3, <2>0, <3>2, <3>3
    <3>. QED BY <1>6, <2>0, <3>1, <3>4
  <2>. QED BY <2>3, <2>4
<1>9. ASSUME NEW h \in Headers \ Renamed
      PROVE  \/ old[h] \in {Absent, hs[h]}
             \/ \E orig \in Renamed : Moved(orig) /\ names[orig] = h
  <2>1. CASE two[h] = Absent
    BY <1>6, <2>1
  <2>2. CASE two[h] # Absent
    BY <1>2, <1>3, <2>2
  <2>. QED BY <2>1, <2>2
<1>. QED BY <1>5, <1>7, <1>8, <1>9 DEF Delivers, hs, two, one, old

\* The names are as they were, and so is what arrives under them.
LEMMA NamesKept ==
    ASSUME UNCHANGED <<names, capture>>
    PROVE  /\ NamesClear' => NamesClear
           /\ Delivers(out'.sent) => Delivers(out.sent)'
BY DEF NamesClear, Delivers, NewName, Moved

LEMMA RewrittenKept ==
    ASSUME RewrittenResponse, UNCHANGED <<names, capture, out>>
    PROVE  RewrittenResponse'
<1>1. NamesClear' => NamesClear
  BY NamesKept
<1>2. Delivers(out.sent) => Delivers(out.sent)'
  BY NamesKept
<1>3. out'.status = 429 /\ NamesClear' => out'.sent[NewName("Retry-After")'] = "retry"
  BY <1>1 DEF RewrittenResponse, NewName
<1>. QED BY <1>1, <1>2, <1>3 DEF RewrittenResponse

LEMMA RewriteInv == ASSUME ResponseInv, Rewrite PROVE ResponseInv'
<1>1. rewriting /\ phase = "rewriting"
  BY DEF Rewrite, ResponseInv, DirectResponse
<1>2. HeldResponse
  BY <1>1 DEF ResponseInv
<1>3. UNCHANGED <<rewriting, names, calls, capture, retried>>
  BY DEF Rewrite
<1>4. PICK first \in Renamed, second \in Renamed :
         /\ first # second
         /\ LET o == [out EXCEPT !.header =
                         CopyMissing(Rename(Rename(@, first), second))]
            IN  IF capture.status = 0
                THEN out' = o /\ phase' = "panicked"
                ELSE LET sent == EnrichmentWriteHeader(o, capture.status)
                     IN  /\ out' = IF capture.body THEN EnrichmentWrite(sent)
                                                   ELSE sent
                         /\ phase' = "finishing"
  BY DEF Rewrite
<1>. DEFINE hs == CopyMissing(Rename(Rename(NoHeaders, first), second))
            o  == [out EXCEPT !.header = hs]
            sent == EnrichmentWriteHeader(o, capture.status)
<1>5. IF capture.status = 0
      THEN out' = o /\ phase' = "panicked"
      ELSE out' = (IF capture.body THEN EnrichmentWrite(sent) ELSE sent)
           /\ phase' = "finishing"
  BY <1>2, <1>4 DEF HeldResponse
<1>6. /\ hs \in HeaderMaps /\ hs["Trace"] = "id" /\ hs["Trace-Latency"] = "latency"
      /\ NamesClear => Delivers(hs)
  BY <1>1, <1>2, <1>4, ResponseTyped, RewrittenHeaders DEF HeldResponse
<1>. HIDE DEF hs
<1>7. Reheaded(out, hs, o)
  BY <1>6, NewHeaders, ResponseTyped
<1>. HIDE DEF o
<1>8. o \in Writers /\ WritersSound(o) /\ ~o.wrote /\ o.header = hs
  BY <1>2, <1>7, Zenon DEF Reheaded, HeldResponse
<1>9. /\ (rewriting \in BOOLEAN /\ names \in [Renamed -> NewNames] /\ retried \in BOOLEAN)'
      /\ (capture \in Captures)' /\ (calls \in 0 .. MaxCalls)'
  BY <1>3, ResponseTyped
<1>10. CASE capture.status = 0
  <2>1. out' = o /\ phase' = "panicked"
    BY <1>5, <1>10
  <2>2. (out \in Writers)' /\ WritersSound(out')
    BY <1>8, <2>1
  <2>3. (phase \in {"handling", "rewriting", "finishing", "over", "panicked"})'
    BY <2>1
  <2>4. RPTypeOK'
    BY <1>9, <2>2, <2>3, WriterTypes, Zenon DEF RPTypeOK, Captures
  <2>. QED BY <1>1, <1>3, <2>1, <2>2, <2>4 DEF ResponseInv
<1>11. CASE capture.status # 0
  <2>1. capture.status \in Codes \cup {200}
    BY <1>11, ResponseTyped, CaptureFields DEF StatusOrNone
  <2>2. EnrichmentSent(o, capture.status, sent)
    BY <1>8, <2>1, EnrichmentSends, Zenon
  <2>. HIDE DEF sent
  <2>3. sent \in Writers /\ WritersSound(sent) /\ sent.wrote
        /\ sent.status = capture.status
        /\ sent.sent = [hs EXCEPT !["Latency"] = "latency"]
    BY <1>8, <2>2, Zenon DEF EnrichmentSent
  <2>4. EnrichmentWrite(sent) = sent
    BY <2>3, EnrichmentWrites
  <2>5. out' = sent /\ phase' = "finishing"
    BY <1>5, <1>11, <2>4
  <2>6. \A x \in Headers \ {"Latency"} : sent.sent[x] = hs[x]
    BY <1>6, <2>3 DEF HeaderMaps
  <2>7. (phase \in {"handling", "rewriting", "finishing", "over", "panicked"})'
    BY <2>5
  <2>8. RPTypeOK'
    BY <1>9, <2>3, <2>5, <2>7, WriterTypes, Zenon DEF RPTypeOK, Captures
  <2>9. sent.sent["Trace"] = "id" /\ sent.sent["Trace-Latency"] = "latency"
    BY <1>6, <2>6 DEF Headers
  <2>10. ASSUME NamesClear PROVE Delivers(sent.sent)
    <3>1. ASSUME NEW h \in Renamed PROVE NewName(h) \in Headers \ {"Latency"}
      BY ResponseTyped DEF NewName, Renamed, NewNames, Headers
    <3>2. ASSUME NEW h \in Renamed, capture.headers[h] # Absent
          PROVE  sent.sent[NewName(h)] = capture.headers[h]
      BY <1>6, <2>6, <2>10, <3>1, <3>2 DEF Delivers
    <3>3. ASSUME NEW h \in Headers \ Renamed
          PROVE  \/ capture.headers[h] \in {Absent, sent.sent[h]}
                 \/ \E orig \in Renamed : Moved(orig) /\ names[orig] = h
      <4>1. CASE h = "Latency"
        BY <1>2, <4>1 DEF HeldResponse
      <4>2. CASE h # "Latency"
        BY <1>6, <2>6, <2>10, <4>2 DEF Delivers
      <4>. QED BY <4>1, <4>2
    <3>. QED BY <3>2, <3>3 DEF Delivers
  <2>11. capture.status = 429 /\ NamesClear => sent.sent[NewName("Retry-After")] = "retry"
    BY <1>2, <2>10 DEF HeldResponse, Delivers, Renamed, Absent
  <2>12. RewrittenResponse'
    <3>1. out'.wrote /\ out'.sent["Trace"] = "id" /\ out'.sent["Trace-Latency"] = "latency"
      BY <2>3, <2>5, <2>9
    <3>2. (NamesClear' => Delivers(out.sent)')
      BY <1>3, <2>5, <2>10, NamesKept
    <3>3. out'.status = 429 /\ NamesClear' => out'.sent[NewName("Retry-After")'] = "retry"
      BY <1>3, <2>3, <2>5, <2>11, NamesKept DEF NewName
    <3>. QED BY <3>1, <3>2, <3>3 DEF RewrittenResponse
  <2>. QED BY <1>1, <1>3, <2>3, <2>5, <2>8, <2>12 DEF ResponseInv
<1>. QED BY <1>10, <1>11

LEMMA FinishInv == ASSUME ResponseInv, Finish PROVE ResponseInv'
<1>1. /\ phase = "finishing" /\ phase' = "over"
      /\ out' = IF out.wroteHeader THEN out ELSE EnrichmentWriteHeader(out, 200)
      /\ UNCHANGED <<rewriting, names, calls, capture, retried>>
  BY DEF Finish
<1>2. EnrichmentSent(out, 200, EnrichmentWriteHeader(out, 200))
  BY EnrichmentSends, ResponseTyped, Zenon
<1>3. out.wroteHeader <=> out.wrote
  BY ResponseTyped DEF WritersSound
<1>4. /\ (rewriting \in BOOLEAN /\ names \in [Renamed -> NewNames] /\ retried \in BOOLEAN)'
      /\ (capture \in Captures)' /\ (calls \in 0 .. MaxCalls)'
      /\ (phase \in {"handling", "rewriting", "finishing", "over", "panicked"})'
  BY <1>1, ResponseTyped
<1>5. (out \in Writers)' /\ WritersSound(out') /\ out'.wrote
  BY <1>1, <1>2, <1>3, ResponseTyped, Zenon DEF EnrichmentSent
<1>6. RPTypeOK'
  BY <1>4, <1>5, WriterTypes, Zenon DEF RPTypeOK, Captures
<1>7. ASSUME rewriting PROVE RewrittenResponse'
  <2>1. RewrittenResponse
    BY <1>1, <1>7 DEF ResponseInv
  <2>2. out' = out
    BY <1>1, <1>3, <2>1 DEF RewrittenResponse
  <2>. QED BY <1>1, <2>1, <2>2, RewrittenKept
<1>8. ASSUME ~rewriting PROVE DirectResponse'
  <2>1. DirectResponse
    BY <1>8 DEF ResponseInv
  <2>2. CASE out.wrote
    <3>1. out' = out
      BY <1>1, <1>3, <2>2
    <3>. QED BY <1>1, <2>1, <3>1 DEF DirectResponse
  <2>3. CASE ~out.wrote
    <3>. DEFINE late == [out.header EXCEPT !["Latency"] = "latency"]
    <3>1. out'.header = late /\ out'.sent = late /\ out'.status = 200
      BY <1>1, <1>2, <1>3, <2>3, Zenon DEF EnrichmentSent
    <3>2. late["Trace"] = out.header["Trace"] /\ late["Retry-After"] = out.header["Retry-After"]
      BY ResponseTyped, WriterFields DEF HeaderMaps, Headers
    <3>. HIDE DEF late
    <3>3. late["Trace"] = "id" /\ (retried' => late["Retry-After"] = "retry")
      BY ONLY <1>1, <2>1, <3>2, Zenon DEF DirectResponse
    <3>. QED BY ONLY <1>1, <3>1, <3>3 DEF DirectResponse
  <2>. QED BY <2>2, <2>3
<1>. QED BY <1>1, <1>5, <1>6, <1>7, <1>8 DEF ResponseInv

LEMMA ResponseStep == ResponseInv /\ RPNext => ResponseInv'
<1>. SUFFICES ASSUME ResponseInv, RPNext PROVE ResponseInv'
  OBVIOUS
<1>1. CASE HandlerCalls
  <2>1. phase = "handling" /\ UNCHANGED <<rewriting, names, phase>>
    BY <1>1 DEF HandlerCalls
  <2>2. calls' \in 0 .. MaxCalls
    BY <1>1, ResponsePathAssumption, ResponseTyped DEF HandlerCalls
  <2>3. /\ "Limit" \in Headers \ {"Trace", "Latency", "Retry-After"} /\ "limit" \in Values
        /\ "A" \in Headers \ {"Trace", "Latency", "Retry-After"} /\ "own" \in Values
    BY DEF Headers, Values
  <2>4. CASE HandlerSets("Limit", "limit")
    BY <2>1, <2>2, <2>3, <2>4, HandlerSetsInv DEF HandlerSets
  <2>5. CASE HandlerSets("A", "own")
    BY <2>1, <2>2, <2>3, <2>5, HandlerSetsInv DEF HandlerSets
  <2>6. ASSUME NEW c \in Codes, HandlerWritesHeader(c) PROVE ResponseInv'
    BY <2>1, <2>2, <2>6, HandlerWritesHeaderInv
  <2>7. CASE HandlerWrites
    BY <2>1, <2>2, <2>7, HandlerWritesInv
  <2>. QED BY <1>1, <2>4, <2>5, <2>6, <2>7 DEF HandlerCalls
<1>2. CASE HandlerReturns
  <2>1. /\ phase = "handling" /\ SetHeader("Trace-Latency", "latency")
        /\ phase' = IF rewriting THEN "rewriting" ELSE "finishing"
        /\ UNCHANGED <<rewriting, names, retried>> /\ calls' = calls
    BY <1>2 DEF HandlerReturns
  <2>2. "Trace-Latency" \in Headers \ {"Trace", "Latency", "Retry-After"} /\ "latency" \in Values
    BY DEF Headers, Values
  <2>. QED BY <2>1, <2>2, HandlerSetsInv, ResponseTyped
<1>. QED BY <1>1, <1>2, RewriteInv, FinishInv DEF RPNext

LEMMA ResponseStutters == ResponseInv /\ UNCHANGED rpVars => ResponseInv'
<1>. SUFFICES ASSUME ResponseInv, UNCHANGED rpVars PROVE ResponseInv'
  OBVIOUS
<1>. USE DEF rpVars
<1>1. RPTypeOK' /\ (out \in Writers)' /\ WritersSound(out)'
  BY DEF ResponseInv, RPTypeOK, WritersSound
<1>2. (~rewriting => DirectResponse)'
  BY DEF ResponseInv, DirectResponse
<1>3. (rewriting /\ phase \in {"handling", "rewriting"} => HeldResponse)'
  BY DEF ResponseInv, HeldResponse
<1>4. (rewriting /\ phase \in {"finishing", "over"} => RewrittenResponse)'
  BY RewrittenKept DEF ResponseInv
<1>5. (phase = "over" => out.wrote)'
  BY DEF ResponseInv
<1>. QED BY <1>1, <1>2, <1>3, <1>4, <1>5 DEF ResponseInv

LEMMA ResponsesArrive ==
    ResponseInv => StatusAgrees /\ HeadersOnWire /\ RewriteDelivers
<1>. SUFFICES ASSUME ResponseInv, phase = "over"
     PROVE StatusAgrees /\ HeadersOnWire /\ RewriteDelivers
  BY DEF StatusAgrees, HeadersOnWire, RewriteDelivers
<1>1. out.wrote /\ WritersSound(out)
  BY DEF ResponseInv
<1>2. StatusAgrees
  BY <1>1 DEF WritersSound, StatusAgrees
<1>3. rewriting => RewrittenResponse
  BY DEF ResponseInv
<1>4. ~rewriting => DirectResponse
  BY DEF ResponseInv
<1>5. HeadersOnWire
  BY <1>1, <1>3, <1>4 DEF WritersSound, RewrittenResponse, DirectResponse, HeadersOnWire
<1>6. RewriteDelivers
  BY <1>3 DEF RewrittenResponse, RewriteDelivers, Delivers
<1>. QED BY <1>2, <1>5, <1>6

-----------------------------------------------------------------------------
(***************************************************************************)
(* All stacks.  Each runs in behaviours of its own, and the others stand   *)
(* still in their initial states.                                          *)
(***************************************************************************)
StacksInv ==
    /\ stack \in StackNames
    /\ TimeoutInv /\ ResponseInv /\ BodyInv /\ IDsInv
    /\ ShadowInv /\ MetricsInv /\ ADTypeOK

LEMMA TimeoutStutters == TimeoutInv /\ UNCHANGED <<heVars, toVars>> => TimeoutInv'
<1>. SUFFICES ASSUME TimeoutInv, UNCHANGED <<heVars, toVars>> PROVE TimeoutInv'
  OBVIOUS
<1>1. HedgingInv'
  BY HedgingStutters DEF TimeoutInv
<1>. QED BY <1>1 DEF TimeoutInv, TOTypeOK, HedgingInv, toVars

LEMMA AdaptiveStutters == ADTypeOK /\ UNCHANGED adVars => ADTypeOK'
BY DEF ADTypeOK, adVars

LEMMA InitStacksInv == Init => StacksInv
<1>. SUFFICES ASSUME Init PROVE StacksInv
  OBVIOUS
<1>1. stack \in StackNames /\ TOInit /\ RPInit /\ BOInit /\ IDInit /\ SHInit /\ MEInit /\ ADInit
  BY Zenon DEF Init
<1>2. TimeoutInv
  <2>1. HedgingInv
    BY <1>1, InitHedgingInv DEF TOInit
  <2>2. timeout \in Timeouts /\ canceled \in BOOLEAN /\ outer \in Stages
    BY <1>1 DEF TOInit, Stages
  <2>. QED BY <2>1, <2>2 DEF TimeoutInv, TOTypeOK, HedgingInv
<1>. QED BY <1>1, <1>2, InitResponseInv, InitBodyInv, InitIDsInv, InitShadowInv,
            InitMetricsInv, InitAdaptive, Zenon DEF StacksInv

LEMMA NextStacksInv == StacksInv /\ [Next]_vars => StacksInv'
<1>. SUFFICES ASSUME StacksInv, [Next]_vars PROVE StacksInv'
  OBVIOUS
<1>. USE TimeoutStutters, ResponseStutters, BodyStutters, IDsStutter, ShadowStutters,
         MetricsStutters, AdaptiveStutters
<1>1. CASE TimedHedgeRuns /\ TONext
  BY <1>1, TimeoutStep, Zenon DEF TimedHedgeRuns, StacksInv
<1>2. CASE ResponseRuns /\ RPNext
  BY <1>2, ResponseStep, Zenon DEF ResponseRuns, StacksInv
<1>3. CASE BodyRuns /\ BONext
  BY <1>3, BodyStep, Zenon DEF BodyRuns, StacksInv
<1>4. CASE IDsRun /\ IDNext
  BY <1>4, IDsStep, Zenon DEF IDsRun, StacksInv
<1>5. CASE ShadowRuns /\ SHNext
  BY <1>5, ShadowStep, Zenon DEF ShadowRuns, StacksInv
<1>6. CASE MetricsRun /\ MENext
  BY <1>6, MetricsStep, Zenon DEF MetricsRun, StacksInv
<1>7. CASE AdaptiveRuns /\ ADNext
  BY <1>7, AdaptiveStep, Zenon DEF AdaptiveRuns, StacksInv
<1>8. CASE BreakerRuns \/ GatesRun
  BY <1>8, Zenon DEF BreakerRuns, GatesRun, StacksInv
<1>9. CASE UNCHANGED vars
  BY <1>9, Zenon DEF vars, StacksInv
<1>. QED BY <1>1, <1>2, <1>3, <1>4, <1>5, <1>6, <1>7, <1>8, <1>9 DEF Next

\* What holds by the invariant, step by step.
LEMMA AllStacks == Spec => []StacksInv
<1>1. Init => StacksInv
  BY InitStacksInv
<1>2. StacksInv /\ [Next]_vars => StacksInv'
  BY NextStacksInv
<1>. QED BY <1>1, <1>2, PTL DEF Spec

\* The breaker and the gates run in their stacks as they run alone.
LEMMA BreakerStack == Spec => CBSpec
<1>1. Init => CBInit
  BY Zenon DEF Init
<1>2. [Next]_vars => [CBNext]_cbVars
  BY Zenon DEF Next, vars, TimedHedgeRuns, ResponseRuns, BodyRuns, IDsRun, ShadowRuns,
               MetricsRun, AdaptiveRuns, BreakerRuns, GatesRun
<1>. QED BY <1>1, <1>2, PTL DEF Spec, CBSpec

LEMMA GatedStack == Spec => GSSpec
<1>1. Init => GSInit
  BY Zenon DEF Init
<1>2. [Next]_vars => [GSNext]_gsVars
  BY Zenon DEF Next, vars, TimedHedgeRuns, ResponseRuns, BodyRuns, IDsRun, ShadowRuns,
               MetricsRun, AdaptiveRuns, BreakerRuns, GatesRun
<1>. QED BY <1>1, <1>2, PTL DEF Spec, GSSpec

(***************************************************************************)
(* Of all the attempts of a request that run at once and write through the *)
(* same hedgeResponseWriter, one alone reaches the client with its status  *)
(* and its Writes: claim() says yes once.  The headers are not among them. *)
(***************************************************************************)
THEOREM OneAnswer == Spec => []OneAttemptOnWire
<1>1. StacksInv => OneAttemptOnWire
  BY DEF StacksInv, TimeoutInv, HedgingInv, WireClaimed
<1>. QED BY <1>1, AllStacks, PTL

(***************************************************************************)
(* No attempt of a hedged request blocks on done for good: the channel is  *)
(* made with room for all that WithRequestHedging starts, so that the      *)
(* goroutines end after the request.                                       *)
(***************************************************************************)
THEOREM AttemptsNeverBlock == Spec => []DoneHasRoom
<1>1. StacksInv => DoneHasRoom
  BY RoomForDone DEF StacksInv, TimeoutInv
<1>. QED BY <1>1, AllStacks, PTL

(***************************************************************************)
(* In whatever order the handler calls Header, WriteHeader and Write, for  *)
(* any final statuses, the one that the metrics record is the one that was *)
(* sent, and so is the logger's unless it heard of one that came too late. *)
(***************************************************************************)
THEOREM RecordedStatusSent == Spec => []StatusAgrees
<1>1. StacksInv => StatusAgrees
  BY ResponsesArrive DEF StacksInv
<1>. QED BY <1>1, AllStacks, PTL

(***************************************************************************)
(* The headers that the retry-after writer, the enrichment and the tracing *)
(* add are on the wire, renamed as WithHeaderRewrite says, whichever call  *)
(* sent the header.                                                        *)
(***************************************************************************)
THEOREM HeadersSent == Spec => []HeadersOnWire
<1>1. StacksInv => HeadersOnWire
  BY ResponsesArrive DEF StacksInv
<1>. QED BY <1>1, AllStacks, PTL

(***************************************************************************)
(* However the map of new names is walked, the rewriter delivers what the  *)
(* handler set under the new names, if these do not clash.  Whether it     *)
(* delivers the old ones as well is another matter: OldNameAbsent.         *)
(***************************************************************************)
THEOREM RewriteLosesNothing == Spec => []RewriteDelivers
<1>1. StacksInv => RewriteDelivers
  BY ResponsesArrive DEF StacksInv
<1>. QED BY <1>1, AllStacks, PTL

(***************************************************************************)
(* Bodies of any size through limiter and logger, over connections that    *)
(* may break anywhere: the handler reads the body's elements from the      *)
(* first on, each once, and sees a clean end only after the last, unless   *)
(* the logger met the break and nothing remembers it (BreakForgotten).     *)
(***************************************************************************)
THEOREM BodiesWhole == Spec => []BodyIntact
<1>1. StacksInv => BodyIntact
  BY BodyWhole DEF StacksInv
<1>. QED BY <1>1, AllStacks, PTL

(***************************************************************************)
(* WithRequestID, WithRequestCorrelation and tracing, whichever header     *)
(* names they share: handler and client get the same identifier in every   *)
(* header but those that a correlation ID comes and leaves under when they *)
(* are two; across these two, if tracing writes to neither, it is one ID.  *)
(***************************************************************************)
THEOREM IDsAlwaysEchoed == Spec => []IDsEchoed
<1>1. StacksInv => IDsEchoed
  BY DEF StacksInv, IDsInv, IDsSoFar, IDsEchoed
<1>. QED BY <1>1, AllStacks, PTL

(***************************************************************************)
(* Metrics, any number of requests that record at once, and Resets between *)
(* their two additions: what is recorded adds up unless a Reset tore it.   *)
(***************************************************************************)
THEOREM CountersAddUp == Spec => []MetricsAgree
<1>1. StacksInv => MetricsAgree
  BY DEF StacksInv, MetricsInv, CountersAgree, MetricsAgree
<1>. QED BY <1>1, AllStacks, PTL

(***************************************************************************)
(* Shadow mode: when ServeHTTP has returned, its goroutine has ended, and  *)
(* it reported the limiter's 429 once and nothing else.                    *)
(***************************************************************************)
THEOREM ShadowAnswered == Spec => []ShadowAnswer
<1>1. StacksInv => ShadowAnswer
  BY DEF StacksInv, ShadowInv
<1>. QED BY <1>1, AllStacks, PTL

(***************************************************************************)
(* Recalculate, whoever calls it and whatever others store meanwhile: the  *)
(* limit that it stores is the one for the load that it has read, on the   *)
(* line between the marks.  That it settles at the load's is left to TLC.  *)
(***************************************************************************)
StoresFit ==
    [][\A r \in Askers :
          AdaptiveRuns /\ StoreLimit(r) => Fits(reading[r], currentLimit')]_vars

THEOREM LimitAlwaysFits == Spec => StoresFit
<1>1. ASSUME StacksInv, NEW r \in Askers, StoreLimit(r)
      PROVE  Fits(reading[r], currentLimit')
  <2>1. currentLimit' = Limit(reading[r])
    BY <1>1 DEF StoreLimit
  <2>2. config \in Configs /\ reading[r] \in Loads
    BY <1>1 DEF StacksInv, ADTypeOK
  <2>3. Fits(reading[r], Limit(reading[r]))
    BY <2>2, LimitFits
  <2>. QED BY <2>1, <2>3
<1>2. StacksInv =>
        [\A r \in Askers :
            AdaptiveRuns /\ StoreLimit(r) => Fits(reading[r], currentLimit')]_vars
  BY <1>1
<1>. QED BY <1>2, AllStacks, PTL DEF StoresFit

\* The state of every stack keeps its type, for all values of the constants.
THEOREM StacksTypes == Spec => []TypeOK
<1>1. StacksInv /\ CBTypeOK /\ GSTypeOK => TypeOK
  BY DEF StacksInv, TimeoutInv, ResponseInv, BodyInv, IDsInv, ShadowInv, MetricsInv, TypeOK
<1>. QED BY <1>1, AllStacks, BreakerStack, GatedStack, BreakerTypes, GatedTypes, PTL
=============================================================================
