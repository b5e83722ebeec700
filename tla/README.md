# A TLA+ verification of ratelimiter-redis

ratelimiter-redis is one flat Go package of HTTP middlewares: rate-limiting
strategies that keep their counters in Redis, a small store abstraction with
quotas, bursts and priorities on top of it, a circuit breaker, gates that delay or
refuse requests, middlewares that share, repeat or abandon the work of a request,
and middlewares that observe or change what goes in and out. This directory holds
TLA+ models of the parts that keep state or wrap readers and writers, TLC
configurations that check them on small instances, and TLAPS proofs of every safety
property of the passing runs for instances of any size. `PROJECT.json` maps every
definition to the lines of source it models.

Contents: [1 inventory](#1-inventory-of-the-system),
[2 modules](#2-modules-and-how-they-follow-the-code),
[3 runs](#3-runs-and-what-they-show), [4 fairness](#4-fairness),
[5 proofs](#5-proofs), [6 findings](#6-where-code-and-comments-disagree),
[7 limits](#7-what-is-not-modelled), [8 plan](#8-plan).

## 1. Inventory of the system

The package does not type-check as a whole: `Counter` is declared in
`ratelimiter.go` and, with another `Allow`, in `strategy.go`; `NewStrategy`
passes arguments that the constructors do not take; `quota.go` calls
`store.Decrement`, which `Store` does not have; `KeyFunc` returns one value or
two, depending on the caller; `request_timeout.go` has a `:=` at package level.
Every function body is modelled as it is written, wired the way the comments and
tests wire it. `Decrement` is modelled from its use (external).

| Component | State | Operations | What is hard about it | What makes it correct |
|---|---|---|---|---|
| Middleware `New`, `NewStrategy` | none | one call of `Allow` per request | errors at any round trip; the clock is read in the process, the command runs later in Redis | an error of the backend lets the request through |
| Token bucket | two Redis keys with a TTL of two windows | `Allow` (one Lua script), `Remaining` | scripts run in another order than their clock readings; a retry takes a second token; expiry refills | rate bound over every interval; a block only when the tokens are spent |
| Fixed window | one Redis counter per window | `Allow`: pipeline INCR, EXPIREAT | not a transaction; broken connections; expiry in whole seconds | at most `max` per window; no key without an expiry |
| Sliding window | one sorted set | `Allow`: one transaction | order of stamps; equal stamps; expiry in whole seconds | at most `max` in every stretch of a window |
| Leaky bucket | two Redis keys | `Allow`: read transaction, then write transaction | lost updates; dropped error of the read; clock readings that go back | rate bound; a reject only just after the bucket was filled |
| Circuit breaker | state, failures, lastFailureTime under a mutex | `State`, `RecordBlocked`, `RecordAllowed`, two middlewares | the verdict arrives long after the state was read | count and state agree; open ends; recovery closes |
| Throttle | active count, channel as queue | slot, queue, timer, cancellation | mutex released before the queue is tried; every way out must give back what it took | slots and tokens accounted for; everybody leaves |
| Pause | flag, channel that is replaced and closed | `Pause`, `Resume`, `wait` | Pause and Resume between a look at the channel and the wait | no lost wakeup, no channel closed twice |
| Store, MemoryStore, RedisStore | key, value, expiry | six operations | lazily expired entries; renewed expiry | the store contract |
| Quota manager | counters in a Store | `CheckAll`, `Remaining`, middleware | requests see each other's increments before they are undone; windows end in between; the store fails before or after it counted | each quota exact, failures accounted for |
| Burst counter | one counter per window in a Store | `Allow`, middleware | the window is chosen before the call; the key outlives its window | limit + burst per window; a refusal only when used up |
| Request priority | one counter in a Store | middleware | all priorities share the counter; the store's error is dropped | each tier within its limit |
| Coalescing | map of calls in flight | `Do`, middleware | between `wg.Done` and `delete` | one call per key, nobody waits for a call that is over |
| Deduplication | map of fingerprints, evictor | `IsDuplicate`, `evict`, middleware | the evictor's clock reading is old when it sweeps | one request per TTL; no entry stays |
| Response cache | map of responses | `Get`, `Set`, `Delete`, middleware | the handler runs without the lock; recorders overtake each other | nothing older than its TTL is served |
| Hedging | shared writer, channel, timer | attempts | attempts write and return in any order, and share the headers | one attempt's status and Writes; no goroutine stuck |
| Timeout | context, channel | select | the handler runs on after the deadline | the request returns |
| Metrics | three atomic counters | record, `Reset` | each counter is atomic, the three are not | total = allowed + blocked + under way |
| Adaptive limit | current limit under a lock | `Recalculate`, `CurrentLimit`, middleware | the load is read before the lock | the limit follows the load |
| Logger, metrics, enrichment, rewriter, Retry-After, tracing | one writer per response each | `Header`, `WriteHeader`, `Write` | each overrides some calls and inherits the rest | what is recorded is what was sent; headers arrive, renamed ones under the new name only |
| Size limit, body logger, mirroring | one request's body | `Read` | readers put around readers; two goroutines on one body; connections that break | the handler reads the body from its start, in order, and no clean end before its end |
| Request ID, correlation, tracing | headers of request and response | one step each | users may give several of them the same header | handler and client see the same identifiers |
| Shadow mode | recorder, wait group | middleware | the limiter runs beside the handler | each would-be block is reported once, before the request is over |
| Filters, fingerprint, tagging, signing, routing, sampling | configuration only | | one request at a time | |

Interactions. The strategies are called by `New` only and meet in Redis. The
breaker wraps the limiter and sees it through the status code 429. Quotas, burst
counters and priorities use a `Store` and nothing else. The other middlewares are
independent and meet through the order in which a user nests them; the models
compose those whose nesting makes a difference to a property: pause around
throttle (`GatedServer`), coalescing around cache around deduplication
(`SharedWork`), timeout around hedging (`TimedHedge`), the writers of one response
(`ResponsePath`), the readers of one body (`RequestBody`), the three that assign
identifiers (`RequestIDs`).

The hazards, each with its line and the properties that would show it going
wrong, are listed in `PROJECT.json`.

## 2. Modules and how they follow the code

Time is a counter of ticks. `time.Now()`, a Redis TTL, a timer and a ticker all
read it; where a process reads it early and uses it late, the reading is part of
the state. A step is what the code does under one lock, in one Redis command,
script or transaction, or between two points where others can run. Names follow
the source (`Increment`, `currentState`, `IsDuplicate`, `RecordBlocked`).
Operators with a comment *Mutant* are plausible bugs of the definition below
them; they are used by no specification, and each makes some property fail.

**`AllowCall`**: a caller of any strategy. `Begin` reads the clock,
`OnTime` bounds how late a command may run (`MaxDelay`), `Reply` lets the answer
arrive, get lost after execution, or be retried by go-redis, `Lost` loses the
command, `Answer` is what `New` does with the outcome. The histories `latest`
and `ordered` say whether Redis has executed commands in the order of their
stamps, `from` is the start of the interval that rate bounds look at.

**`TokenBucket`**: `Take` and `Block` are the two ends of the Lua script.
Tokens are counted in units of 1/Window of a token, which makes the script's
floating-point arithmetic exact; rounding of floats is not modelled.
**`FixedWindow`**: `Incr`, `ExpireAt`, `CutPipeline` are the commands of the
pipeline and its break. `ExpireTime` cuts to whole seconds as go-redis does.
**`SlidingWindow`**: `SWStep` is the transaction; the sorted set is the set
of its members, since scores are a function of members.
**`LeakyBucket`**: `LBRead` (also with a failed read, whose error the code drops),
`LBWrite`, `LBWriteLost`. `Quotient` is Go's division, which rounds to zero. The
history `fresh` says of a call that its read is still good to write from, `clean`
that every write so far was; section 3 says what that leaves out.
**`RateLimiter`** composes the last three under `NewStrategy`'s choice.

**`CircuitBreaker`**: `Admit` (state read, 503 or on to the limiter), `WriteStatus`
(the limiter's verdict), `RecordBlocked`, `RecordAllowed`, `State`. The clock is
kept as `age`, the time since lastFailureTime. Whether the limiter blocks is
`limiting`, which changes at will.

**`Throttle`**: `Acquire`, `NoSlot`, `Enqueue`, `QueueFull`, `Expire`, `Cancel`,
`Dequeue`, `GiveBack`: one action per branch, with the unlock between `NoSlot` and
`Enqueue` visible. **`Pause`**: `PauseCall`, `ResumeCall`, `PassThrough`, `Hold`,
`Release`; channels are numbered. `Release` needs no closed channel, since
`maxHold` may be over at any time. **`GatedServer`**: the first behind the second.

**`Store`** is the abstract specification of the interface: a key is absent or has
a value until a moment. **`MemoryStore`** keeps entries whose time is over until
somebody looks, and implements `Store` under the mapping `Abstraction`.
**`RedisStore`** has Redis' commands and does not (section 6).
**`StoreCalls`** lets a call of the store fail, as a remote one may: not executed,
or executed and its answer lost. Over it, **`QuotaManager`** runs `CheckAll` one
store call per step (`Check`, `CheckFails`, `Undo`, `UndoFails`, `Report`);
**`Burst`** separates the clock reading (`Ask`) from the increment (`Decide`,
`BurstError`); **`Priority`** is one increment per request, compared with the limit
of its priority (`Prioritized`, `PriorityError`); multipliers are in percent.
**`StoreLimiters`** runs one of them, or any calls of the interface, on the store:
their keys differ (`KeysAssumption`: quotas' and the priorities' keys have prefixes of
their own), so that running them together would add no behaviour.

**`Chain`** holds what middlewares of one chain share: where a request is, its
key, Go maps. **`Coalescing`**, **`Dedup`**, **`ResponseCache`** have one action per
critical section; **`SharedWork`** nests them. Ages and remaining times replace the
clock, so these runs need no bound on time.

**`Hedging`**: `WriteHeader`, `Write` (with `claim`), `Return`, `Send` (`doneCh <-`), `Hedge`
(timer), `Done` (`<-doneCh`). **`TimedHedge`** puts `WithRequestTimeout` around it:
`Answered` and `TimedOut` are the two branches of the select, both enabled when
both channels are ready. `Header` is left out: it hands every attempt the client's
own map. Each models one request: these middlewares keep nothing
from one request to the next.

**`Metrics`**: recording is two steps and `Reset` three, as many as there are atomic
operations. **`Adaptive`**: `ReadLoad` before the lock, `StoreLimit` under it,
`ShowLimit` after; loads are in percent, which makes the interpolation exact.
**`ResponsePath`**: one response through the logger's, the metrics' and the
enrichment's writers, the rewriter's capture (or not), Retry-After and tracing;
each writer is an operator that does what its method does and calls the next one
out, and the handler's calls are the actions. Of the rewriter's four headers two
are kept: the code treats all alike, and two are enough for the map's order to
matter. **`RequestBody`**: the body is a sequence of elements, of which all arrive
or as many as before the connection breaks (`cut`); every `Read` is a step, and
`NetRead` is what net/http does at the break: it fails once and then, for a body
with a Content-Length, gives a clean end. **`RequestIDs`**: one step per middleware, over every assignment of header
names. **`Shadow`**: the handler, which may panic, and the limiter's goroutine.
**`Stacks`** runs one of these, `TimedHedge`, `CircuitBreaker` or `GatedServer` in each
behaviour: they share no state, and one specification carries the fairness of all.

`MC*` modules add symmetry sets and small constants; `*Proofs` modules hold the
proofs.

## 3. Runs and what they show

Passing runs:

- **`token_bucket`** (`MCTokenBucket`): two callers, rate 2 per window of 3 ticks,
  burst 3, commands up to 1 tick late, 8 ticks. `RateBounded`: the calls stamped
  since any `from` take at most a full bucket and the refill.
  `BlockedOnlyWhenSpent`: the script blocks only if the tokens taken since the
  bucket was last full leave less than one. Eight ticks are more than one TTL
  (6), so keys expire and are read again.
- **`strategies`** (`MCRateLimiter`): fixed window, sliding window, leaky bucket;
  limit 2, window 4 ticks of which 2 are a second (and Milli = 2, which makes
  scores coarser than members), commands up to 2 ticks late. `FWWindowBounded`,
  `FWNoOrphanKey`, `SWWindowBounded`, `LBRateBounded`, `LBRejectsOnlyAfterFill`,
  `FailsOpen`. Two callers are enough for every pair of round trips to overlap;
  seven ticks let a key outlive one window and die in the next.
- **`quota_store`** (`MCStoreLimiters`): two requests, quotas 2 per 2 ticks and 1
  per 3 ticks; a burst counter of 1 + 1 per window of 2 ticks; priorities with
  limits 1, 1 and 2; any other calls on a key of their own; every call of a
  limiter may fail. `QuotaExact`, `BurstExact`, `TiersRespected`, and
  `ImplementsStore`: `MemoryStore` refines `Store` whoever uses it. Four ticks let
  each key be created, expire and be created again; counters stop at 3
  (`MaxCount`), one beyond every limit.
- **`shared_work`** (`MCSharedWork`): three requests of one key: a leader, a
  follower and a newcomer between `wg.Done` and `delete`. `CallsAccounted`,
  `OncePerTTL`, `EntriesSwept`, `HitsRecent`. Entries of different keys do not
  touch each other.
- **`stacks`** (`MCStacks`): deadlock is not checked, since most of these are one
  request, which ends. That nobody of the shared ones is stuck is what
  `OpenEnds`, `ClosesOnRecovery` and `EveryRequestLeaves` say.
  - Timeout and hedging: up to two hedges, two writes each, with timeout 2 or
    without; the clock goes past delay and timeout. Handlers may hang.
    `OneAttemptOnWire`, `DoneHasRoom`, `EveryRequestReturns`.
  - Response: up to three calls of the handler, in any order, with three statuses,
    over every assignment of new names, clashing and empty ones included; three
    calls are enough for two statuses with a write before, between or after.
    `StatusAgrees`, `HeadersOnWire`, `RewriteDelivers`.
  - Body: bodies of up to three elements, with and without Content-Length, both
    limits from none to three, connections that break anywhere. `BodyIntact`.
    Mirrored bodies run too; for what they lose see `mirror_shares_body`.
  - Identifiers: every assignment of three names to five roles and of three kinds
    of values to the client's headers. `IDsEchoed`.
  - Shadow mode: `ShadowReports`. Metrics: two recorders, counters to 3, Reset at
    any time: `MetricsAgree`. Adaptive limit: two requests, loads below, between
    and above the marks, four configurations: `AdaptsToLoad`.
  - Circuit breaker: three requests, threshold 2: one more than trips the circuit,
    so a late verdict always can arrive. `CountMatchesState`, `OpenEnds`,
    `ClosesOnRecovery`. No bound on time or on the number of requests; the count
    stops at `MaxFailures`, which the code cannot tell from going on.
  - Pause around throttle: three requests for one slot and one queue place, so that
    somebody always finds both full; two pauses, so that a channel is replaced
    while requests wait on the old one. `SlotsAccounted`, `NoLostWakeup`,
    `EveryRequestLeaves`.

Each also checks one type invariant. Violation runs (`hedge_truncates`,
`breaker_overload`, `throttle_queue`, `redis_store_expiry`, `quota_overcount`,
`mirror_shares_body`, `header_keeps_old_name`) check what a comment or a test says
and find a counterexample: section 6.

Conditions under which properties are stated, because the code gives no more:

- `RateBounded` and `SWWindowBounded` suppose `ordered`: Redis executed the
  commands in the order of their clock readings. Otherwise the token bucket's ts
  goes back and the same time is credited twice, and the sliding window drops
  entries that a late call still had to count.
- `BurstAssumption`: the bucket is no larger than the refill of two windows, less
  the delay. The keys' TTL is two windows and an expired bucket is a full one.
- `FWWindowBounded` holds for windows of whole seconds (`WholeSeconds`, the
  hypothesis of its theorem) and for calls counted while their window lasts. For
  others TLC finds it violated: with Window = 2 and Second = 4 EXPIREAT gets a time
  that is already past and deletes the counter; with Window = 3 and Second = 2
  the counter expires before its window ends.
- `SWWindowBounded` holds for windows of whole milliseconds and for delays that the
  expiry of the set allows for (`EntriesOutliveDelays`, the hypothesis of its
  theorem): the set expires `Expire`, one to two seconds more than the window
  rounded down, after the last call, and a call that is executed later than that
  must have a stamp whose window no longer reaches back to it. The bound on
  `MaxDelay` is exact: with Window = 4, Second = 2, Limit = 1 TLC finds no
  violation for MaxDelay = 3 and one for MaxDelay = 4. With Window = 3 and Milli = 2
  it finds one too: scores cut stamps to milliseconds, and the window's two ends
  are cut differently.
- `LBRateBounded` supposes `clean`, which is four things, each of them needed (TLC
  finds the bound broken without it): no two calls' reads and writes overlapped; no
  read failed; no bucket expired between a call's look at the clock and its read;
  and no call wrote an older time than it found. The third without the others,
  limit 2, window 4, leak interval 2: two calls stamped 0 fill the bucket, which
  expires after 4; a call stamped 3 is executed at 5, finds nothing, and writes a
  count of one, last leaked at 3; two calls stamped 5 then pass, one of them on the
  leak since 3. Five allowed, where a full bucket and the leak of five ticks
  are four and a half. `LBRejectsOnlyAfterFill` and `FailsOpen` need no condition.
  `LeakRateAssumption`: no more requests than clock ticks (nanoseconds) in a window,
  since otherwise `leakRate` is zero and `Allow` divides by it.
- `QuotaExact` leaves out executions in which an undo came after its window and
  hit the next one's counter (`crossed`).
- `BurstExact` counts calls that are executed before their window ends. A later one
  finds the old counter or, when that has expired, a new one, and then passes
  though its window was used up. Windows are whole seconds: shorter ones that
  start within one second share a key.
- `TiersRespected` leaves out requests that pass because the store failed.
- `OneAttemptOnWire` is about statuses and Writes. The attempts' headers go into one
  map, the client's, so that those of a losing attempt may be sent with the
  winner's status; and it does not speak of the timeout's own answer.
- `StatusAgrees` is for final statuses. An informational one is sent at once and the
  next status still decides, but the metrics' writer keeps the first it hears of.
- `BodyIntact` excepts `BreakForgotten`: the logger meets the break of a body with
  Content-Length and no size limit stands before it. The logger then drops what it
  captured and the error with it, and the handler finds an empty body that ends
  well.
- `MetricsAgree` holds while no `Reset` is under way and until a `Reset` overlaps a
  recording (`torn`), and again from the next one that does not.
- `HeadersOnWire` and `RewriteDelivers` suppose, with the rewriter, new names that
  do not clash (`NamesClear`); otherwise the order of Go's map decides. The
  tracing's latency header, which is set after the handler, reaches the client
  only if the rewriter held the response back.
- `IDsEchoed` compares request and response header by header, but for the two
  headers of a correlation ID that leaves under another name than it came
  (`Crossed`), where it compares the ID across the two names, if tracing writes to
  neither. If the request ID has one of these names, the client may find the
  correlation ID there and the handler the request ID: section 6.
- `ShadowReports` says nothing of a request whose handler panics, which leaves
  `ServeHTTP` before `wg.Wait`.
- `AdaptsToLoad` supposes marks in order, limits in order, and requests that keep
  coming.
- `Dedup` supposes that the evictor is never delayed by a whole period
  (`MaxLag < DedupTTL`), since a ticker drops what is not received.

## 4. Fairness

Only where a liveness property needs it, and only for what the Go scheduler, the
clock and the mutex give: time passes; a goroutine that can take its next step
takes it. Beyond that, `CircuitBreaker` supposes that requests keep arriving (a
circuit only moves when somebody calls it) and that handlers return;
`GatedServer` that handlers return, but not that anybody calls `Resume` or
cancels; `TimedHedge` supposes neither that handlers write nor that they return,
which is what the timeout is for; `Shadow` only that goroutines run on once the
handler and the limiter have returned (that they do is not supposed); `Adaptive` that
requests keep arriving, since only they make the limit adapt. Weak fairness suffices everywhere.

## 5. Proofs

All theorems hold for every value of the constants that the named `ASSUME`s
admit: any number of callers or requests, any limit, window, threshold.

- **`TokenBucketProofs`**. `TypeCorrect`, `TokenRate` (`RateBounded`),
  `BlocksOnlyWhenSpent` (`BlockedOnlyWhenSpent`). `RateBounded` is not inductive:
  it says nothing about the tokens still in the bucket. `IInv` adds `ClockInv` (no
  stamp is ahead of the clock, and a written key lives for a TTL after its stamp)
  and, for ordered executions, `Accounting`: tokens taken since `from` plus tokens
  in the bucket are at most a full bucket plus the refill up to ts. The case that
  needs `BurstAssumption` is an expired bucket: by `ClockInv` at least
  `TTL - MaxDelay` went by since ts, which refills it. The converse rests on
  `BusyInv`, the same account from below since the bucket was last full, and needs
  no order of the stamps.
- **`CircuitBreakerProofs`**. `BreakerTypes`, `CountsAgree` (`CountMatchesState`),
  which is inductive together with the types: the argument is that
  `currentState` never moves between closed and not closed, `RecordBlocked` leaves
  closed exactly at the threshold, and `RecordAllowed` sets both or neither.
- **`ThrottleProofs`**. `SlotsAlwaysAccounted` (`SlotsAccounted`) and
  `LeavingNeverBlocks` (a request that leaves the queue finds a token, so the
  receive in the timeout branch never blocks). `ThrottleInv` adds that running and
  waiting requests are finite sets, for the laws of cardinality; `GotoMoves` says
  how one step of a request changes the two sets, `JoinLeave` how their
  cardinalities follow.
- **`RateLimiterProofs`**. `FixedWindowKeepsMax` (`FWWindowBounded`, for
  `WholeSeconds`), `CountersExpire` (`FWNoOrphanKey`), `SlidingWindowKeepsMax`
  (`SWWindowBounded`, for `EntriesOutliveDelays`), `LeakyBucketKeepsRate`
  (`LBRateBounded`), `LeakyBucketRejectsFull` (`LBRejectsOnlyAfterFill`),
  `LateCallsServed` (`FailsOpen`), `LimiterTypes` (`TypeOK`). The invariant has one
  part per strategy. For the fixed window, `Accounted`: while a window lasts its
  key expires not before its end, and counts what was granted and what is
  `Pending`, the calls that were counted and wait for their reply; without the
  second, nothing would follow when the reply comes. `WholeWindows` gives each
  window a key of its own. For the sliding window, `SlidingInv`: what was granted
  within one window of the latest stamp is in the set, whose expiry is later than
  any call that must count it, so that every window with the new call's stamp in it is a subset of
  what the call counts; the others do not change. For the leaky bucket, `Leaked`:
  what was allowed since `from` is in the bucket or leaked since; and `RoomFor`:
  a caller between its read and its write, with nobody writing in between, is
  about to write a count with room for its own call. An expired bucket counts as
  an empty one. For a call whose clock reading is past the expiry too that is
  right, since a window after its last write the bucket has leaked dry
  (`RateFacts`); for one that read the clock before, it is not, and `clean` leaves
  it out. The lemmas on `\div` (`DivBounds`, `DivIs`, `DivMonotonic`)
  carry the arithmetic.
- **`GatedServerProofs`**, over `ThrottleProofs`. `GatedSlotsAccounted`: the throttle
  behind the gate takes its own steps only (`ThrottleSteps`), so its invariant
  carries over. `NoWakeupLost` (`NoLostWakeup`) by `PauseInv`: channels are numbered
  as they are made, and no channel that is closed or waited for is newer than the
  current one, so that the one a new `Pause` makes is nobody's. `GatedTypes`.
- **`StoreLimitersProofs`**. `MapImplementsStore`: the refinement `ImplementsStore`,
  operation by operation; an entry whose time is over is, to the contract, gone.
  `QuotasExact` (`QuotaExact`), `BurstsExact` (`BurstExact`), `TiersAlwaysRespected`
  (`TiersRespected`), `StoreLimitersTypes`. `QuotaInv` adds to `Exact` that a request
  about to be undone was counted in a life of the counter that has begun, so that a
  new life has none to undo. `BurstInv` has a `Share` per window: until the window
  ends its counter is in its first life and counts at least those let pass in
  time, and a counter of any life counts no more than was spent, until that is
  the limit. `PriorityInv`: the counter is what its life counted, and no tier
  passed more often than that. A user's invariant survives whatever the others do
  to other keys.
- **`SharedWorkProofs`**. `CallsAlwaysAccounted` (`CallsAccounted`, inductive with the
  types), `EntriesAlwaysSwept` (`EntriesSwept`), `PassesOncePerTTL` (`OncePerTTL`),
  `HitsAlwaysRecent` (`HitsRecent`), `SharedWorkTypes`. `PassesRecorded` says that the
  map knows exactly how long ago each fingerprint passed, for as long as it
  matters; `SweepsTimely` bounds how long an entry can have been over by the time
  since the ticker's last signal and, in a sweep, by the one before, which is
  where `MaxLag < DedupTTL` is needed; `AgesBounded` relates a response's age to
  what is left of its entry's time.
- **`StacksProofs`**. `OneAnswer` (`OneAttemptOnWire`) and `AttemptsNeverBlock`
  (`DoneHasRoom`) by `WireClaimed` (the first Write closes the wire) and
  `ChannelAccounted` (a value in the channel is of an attempt that is gone, and
  attempts fit its capacity). `RecordedStatusSent` (`StatusAgrees`), `HeadersSent`
  (`HeadersOnWire`), `RewriteLosesNothing` (`RewriteDelivers`) by `ResponseInv`, which
  says of the writers that they agree whether the header is out and with which
  status (`WritersSound`), and of the response where each header is: with nobody in
  between (`DirectResponse`), held back (`HeldResponse`), or renamed and sent
  (`RewrittenResponse`). `BodiesWhole` (`BodyIntact`) by `OneReader`, which says where every element
  is (got, captured, or in a reader of known state), and whether the break has been
  met and who remembers it. `IDsAlwaysEchoed` (`IDsEchoed`) by `IDsSoFar`, layer by
  layer: `CrossedEarly` is `Crossed` as long as tracing has not written. `CountersAddUp` (`MetricsAgree`) by `CountersAgree`: a `Reset` that overlaps no
  recording finds nobody recording until it ends. `ShadowAnswered`: the safety half
  of `ShadowReports`. `LimitAlwaysFits`: every limit that `Recalculate` stores fits
  the load it read, the step on which `AdaptsToLoad` rests. `StacksTypes`. Breaker and gates are
  proved in modules of their own, and `BreakerStack` and `GatedStack` show that the
  stacks' specification implies theirs (`Spec => CBSpec`, `Spec => GSSpec`).

The strengthenings were checked by TLC as invariants of the runs before they were
proved. Where a proof failed, it was for a reason worth knowing:
`EntriesOutliveDelays`, `LeakRateAssumption` and `KeysAssumption` were found that way.

Only model-checked: liveness under fairness, which is out of this prover's reach:
`OpenEnds`, `ClosesOnRecovery`, `EveryRequestLeaves`, `EveryRequestReturns`, and of
`ShadowReports` and `AdaptsToLoad` the half that says that the answer comes. Every
other property of the passing runs is a theorem. The violation runs are
counterexamples, and need no proof.

## 6. Where code and comments disagree

Each is a run of its own with a counterexample.

- `hedge_truncates`: "uses whichever response arrives first"
  (`request_hedging.go:59`). `claim()` is asked at every `Write` and succeeds once
  per request, so a response written in two pieces loses the second.
- `breaker_overload`: "trips open when the rate limiter blocks too many
  consecutive requests" (`circuit_breaker.go:18`). Only a closed circuit opens;
  after the first trip, lasting overload leaves it half-open, which lets
  everything through.
- `throttle_queue`: "Wait until we can run" (`request_throttle.go:62`). A queued
  request waits for its timer or its client, never for a slot.
- `redis_store_expiry`: "sets the expiry on first creation"
  (`redis_store.go:21`). `Increment` renews it every time.
- `quota_overcount`: "Decrement to avoid overcounting on a blocked request"
  (`quota.go:48`). Only the exceeded quota is decremented, not the ones before it.
- `mirror_shares_body`: "asynchronously mirrors incoming requests to a shadow
  backend. The primary response is unaffected" (`request_mirroring.go:22-23`). The
  mirror reads the handler's own body; the handler sees a clean end and lacks what
  the mirror took.
- `header_keeps_old_name`: "expected old header to be absent"
  (`header_rewrite_test.go:47-49`; the same at 78-80 and in
  `header_rewrite_integration_test.go:46-48`). The rewriter copies the captured
  headers after it renamed them, the renamed ones included (`CopyMissing`), so that
  the old name is sent too.

Seen while modelling, without a run:

- a late `RecordAllowed` closes an open circuit before its time and without
  `onReset`;
- `strategy.go:41` describes a default for unknown names where the code returns an
  error;
- the comment on coalescing (`request_coalescing.go:52-54`) describes a shared
  response where every request still calls `next`;
- with `maxHedges` above 1 the timer still fires once, so a second hedge is never
  sent;
- "requests are processed at a constant rate; excess requests are rejected"
  (`leaky_bucket.go:12`): not with calls that overlap or are late, see `LBRateBounded` in
  section 3;
- a body logger that meets a broken connection makes a clean end of it
  (`request_body_logger.go:65-71`, `BreakForgotten`);
- the attempts of a hedged request set headers in one map, the client's
  (`request_hedging.go:110-112`): a loser's are sent with the winner's status, and
  two attempts at once are concurrent writes to a Go map; an attempt that calls
  `WriteHeader` and never `Write` has its status dropped;
- "the ID is written back to the response header" (`request_id.go:54`): with a correlation ID that leaves
  under the request ID's header, the client gets the correlation ID there and the
  handler the request ID;
- a handler that panics leaves shadow mode's `ServeHTTP` without `wg.Wait`
  (`request_shadow.go:61-62`), and the limiter goes on with a request that is over;
- of a renamed header with several values only the last is kept; and a handler that
  never calls `WriteHeader` makes the rewriter call `WriteHeader(0)`, on which
  net/http panics (the phase "panicked");
- the logger records the last status a handler asked for, the metrics the first,
  which is the one that is sent (`StatusAgrees`);
- shadow mode waits for the limiter, which adds its time to the request;
- `request_priority.go:89` passes 60 where `Increment` takes a duration;
- `WithWhitelist` calls `next` for everybody; `WithGeoCodes` keeps codes as they
  are given where the other constructors normalise them.

## 7. What is not modelled

Within modelled components: status codes and headers except where they decide
control or are what a middleware is for (hedging's `Header` among them), informational
1xx statuses, the answer of `exceededHandler` against a late handler's on one
writer (`request_timeout.go:75`), `NewStrategy`'s default burst and its error for an
unknown name (`strategy.go:52-62`), rounding of floating-point tokens, limits
and multipliers, Redis restarts and clock skew between app servers (a skewed clock
is a late or early stamp; `MaxDelay` covers the late ones), and `http.ResponseWriter`
after its handler returned. `PauseController.IsPaused`, `Store.Ping` and
`CacheEntry` copying only read. Mirroring is modelled around a handler alone:
around the size limit or the body logger two goroutines would use readers that are
not made for it, and any outcome would be possible; the same goes for the mirror's
walk through the request's headers while inner middlewares set them.

Components left out: the filters (`whitelist.go`, `ip_blacklist.go`, `geo_filter.go`),
each operation of which is one lookup or update of a set; fingerprint, tagging and
signing, functions of one request; routing, sampling and key functions, a choice
from configuration that never changes. The whitelist's map has no lock and the
sampler's random source none either: concurrent use is a data race without a
protocol that a model could check.

## 8. Plan

The parts that keep state or take several steps are modelled, and every safety
property of the runs is proved. What is left:

1. The steps that liveness rests on, as `LimitAlwaysFits` is for `AdaptsToLoad`: that
   a half-open circuit's next allowed verdict closes it (`ClosesOnRecovery`), that
   an open one is left by whoever looks after `resetAfter` (`OpenEnds`), that a
   waiting request of the gated server always has a step that is enabled by
   something other than a handler.
2. The converse of `LBRejectsOnlyAfterFill` for executions in order: how full the
   bucket is when it rejects.
3. What the late verdict of `circuit_breaker.go:100` can do at worst, as an action
   property.
