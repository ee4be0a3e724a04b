# nil-loader in TLA+

nil-loader is a load tester for gRPC with a live dashboard. One server process
holds one engine, one collector, one degradation detector and one test state;
HTTP and WebSocket handlers, one run goroutine per test and up to 200 request
workers share them. This directory models that sharing in TLA+, checks small
instances with TLC and proves the central invariants with TLAPS.

    tlc -config MCEngineOverlap.cfg MCEngine      # one run
    tlapm EngineProofs.tla                        # the engine's proofs
    tlapm CollectorProofs.tla                     # the collector's

## 1. Inventory

| part | source | state | operations | correctness |
|---|---|---|---|---|
| Engine | `internal/engine/engine.go` | `mu`, `cancel`, `done`, `logCh`; per run: context, tickers, `workerSem`, `wg` | `Start`, `Stop`, `run`, `executeRequest` | one test at a time; a test ends; its report counts all its requests; `Stop` reaches it; no panic |
| Test state | `internal/model/types.go` | status, start time, snapshots, errors, under an RWMutex | `SetStatus`, `GetStatus`, `AddSnapshot`, `AddError`, `Reset`, `GetState` | status follows the life of a test; data belong to one test |
| Collector | `internal/telemetry/collector.go` | atomics for totals and interval counts, histograms, error counters, error log | `RecordSuccess`, `RecordError`, `Snapshot`, `Reset`, `SetTargetRPS` | nothing counted twice; totals exact; fields of a snapshot ordered |
| Hub | same file | `subscribers`, `errorSubs`, bounded channels | `Subscribe`, `Unsubscribe`, `Broadcast` and the error twins | no send on a closed channel; order kept; slow readers block nobody |
| Detector | `internal/telemetry/degradation.go` | baseline, result, snapshots, under a mutex | `Analyze`, `Reset`, `GetResult` | verdict about the first bad interval; rates ordered; verdict stands |
| WebSocket handlers | `internal/api/ws.go` | a connection and a subscription each | `handleMetrics`, `handleLogs`, `handleErrors` | the subscription of a dashboard that left is withdrawn |
| HTTP handlers | `internal/api/handler.go` | none | start, stop, status, report, degradation, reflection, proto, templates, login | the load is the one asked for, defaults included; conflicts are refused |
| Sessions | `internal/auth/service.go` | secret, time to live; the session itself is the browser's | `NewSessionValue`, `validateSessionValue` | a session is valid until it expires, also after a restart with the same secret, and with no other |
| Payload generator | `internal/payload/generator.go` | template, CSV rows, row index | `Generate` | rows in turn under concurrency |
| Template builder | `internal/payload/template_builder.go` | node count | `GeneratePayloadTemplate` | recursive and wide types are cut, and nothing else is |
| gRPC caller | `internal/grpcclient/*.go` | connection | `Dial`, `NewCaller`, `Call`, `Close`, reflection, proto parsing | each connection is closed once; every request ends; what is listed can be called |
| Test service | `internal/testservice/server.go` | request counter, current rate | handlers, `rpsTracker` | every request counted in one second; overload only after a busy one |
| Entry points, web UI, generated code | `cmd/`, `web/`, `proto/` | | | wiring |

How they interact: `handleStart` and `handleStop` call the engine under
`Engine.mu`. `Start` resets the collector, the detector and the state, then
starts `run`, which owns the test from there on and never takes `Engine.mu`. Once
a second `run` takes a snapshot from the collector and hands it to the state,
the detector and the hub. Ten times a second it launches requests; each worker
records its outcome in the collector and, for an error, in the state. WebSocket
handlers read the hub, the log channel, the state and the detector.

What is hard:

- `Start` decides on the *status*, which `run` writes later and without the
  engine's mutex: tests can overlap, and then everything they share is contested.
- The collector is updated by workers without a lock while it is read and
  cleared under one that they do not take.
- `Stop`, the deadline, failing starts and requests in flight meet in any order.
- Subscribers come and go, and close their channels, while runs and workers
  broadcast to them without ever waiting for a slow one.
- The detector's result is incremental, over a stream with silent and
  unmeasurable intervals, with thresholds that are compared twice.
- The test service counts requests in one goroutine per request and moves the
  count in another, in two steps.
- The template builder walks recursive types with one node counter for all branches.
- The load is made of whole requests per tick, by a loop that may be late for its
  ticks, between a deadline and a Stop; the detector judges what comes of it,
  the last and shorter interval included.
- Log sockets compete for one channel, and a handler learns that its page has
  gone only from a line it can no longer show.
- Sessions outlive the process; a target may be redeployed or fall silent between two answers.

The `hazards` of `PROJECT.json` list these at their lines, with the property
that covers each one.

## 2. Modules

| module | models | composes |
|---|---|---|
| `Engine` | `engine.go` with `types.go`: the control | clients, runs, workers |
| `EngineProofs` | theorems about `Engine` | |
| `TestLifecycle` | what a test promises when none overlaps (abstract) | implemented by `Engine` |
| `LoadTest` | `handleStart`, the pacing of `engine.go`, the rows of `generator.go` | a client, a run, requests, `Degradation` |
| `LoadTestProofs` | theorems about `LoadTest` | |
| `Degradation` | `degradation.go` | |
| `DegradationProofs` | theorems about `Degradation` | |
| `Collector` | `collector.go` without subscribers | recorders, `Snapshot`, `Reset` |
| `CollectorProofs` | theorems about `Collector` | |
| `MetricsHub` | the subscribers in `collector.go` with the loops of `ws.go` | handlers, broadcasters |
| `LossyFeed` | what a subscriber is promised (abstract) | implemented by `MetricsHub` |
| `MetricsHubProofs` | theorems about `MetricsHub` | |
| `Console` | `auth/service.go` with the gates, `emitLog` with `handleLogs` | browsers, the process, log sockets |
| `ConsoleProofs` | theorems about `Console` | |
| `TemplateBuilder` | `template_builder.go` | |
| `Discovery` | `handleReflect`, `handleParseProto`, `handleAutoPayloadTemplate`, `grpcclient` | a request, the target, `TemplateBuilder` |
| `TestService` | `testservice/server.go` | request handlers, tracker |
| `TargetProofs` | theorems about `TemplateBuilder`, `Discovery` and `TestService` | |
| `SumTheorems` | lemmas about sums over finite sets | used by `CollectorProofs`, `LoadTestProofs`, `DegradationProofs` |
| `MCEngine`, `MCLoadTest`, `MCDegradation`, `MCCollector`, `MCMetricsHub`, `MCConsole`, `MCDiscovery`, `MCTestService` | instances for TLC | |

### Engine

Clients (`pc[c]`) are HTTP handler goroutines. Start's steps are `LockStart`,
the two reads of the status (`CheckRunning`, `CheckWarmup`: two calls of
`GetStatus`, so the status may change in between), `ResetCollector`, `ResetDetector`,
`ResetState`, and then `BuildFails` (the error returns of `NewGenerator` and
`NewCaller`) or `Spawn`. `Stop` is one step: what it does is inside one
critical section and touches nothing that another goroutine reads without it.

A run goroutine (`rpc[r]`) goes through `Enter` (the argument of
`defer close(e.done)` is evaluated here, from a field another `Start` may have
overwritten), `Warmup`, `StampStart`, `Running`, the select loop, `Cleanup`,
`FinalSnapshot`, `AddSnapshot`, `Analyze`, `Broadcast`, `Finish`, the last log
line and `Exit`. The log line calls `GetState` four times, so `LogView` and
`LogIndex` are steps and an index out of range is the panic `crashed`.
So is closing a closed channel in `Exit`.

Request workers are counted by stage: `calling`, `noting` (recorded, not yet
in the state's error list), `holding` (still holding their `workerSem` slot) and
`leaving` (slot returned, `wg.Done` to come: the deferred calls run in reverse
order). `Occupied` is `len(workerSem)` and `Pending` the counter of `wg`.

A run is *contested* when another run was alive during its time, from the
moment a `Start` that saw it passed its guard. This history variable separates
what the code guarantees to tests one after the other from what overlapping
tests do to each other; the guard that is meant to prevent an overlap does not
(section 6).

Abstractions: time is absent, so the ticker and deadline are always possible (`DispatchTick`,
`DurationReached`); a tick launches any number of requests from 1 to `Burst` (a tick that
launches none changes nothing; `LoadTest` says how many); the collector is its two totals,
taken at once (the module `Collector` looks inside); `SetTargetRPS` is left out, the log
channel is in `Console`, the payload in `LoadTest`. `BuildFails` and `Spawn` are both possible
for any configuration.

`TestLifecycle` is what a dashboard may rely on while tests do not overlap: a test at a time,
its phases in order, a report that only grows, never ahead of what was counted, and that counts
every request once the test is finished. Under the mapping (`Lifecycle`) the phase is the
status, and a state with a contested run is the abstract `overlapped`, of which nothing is
promised and from which there is no way back. What `Start` resets in three steps is one step of
the abstraction, the one that shows.

`StampStart` writes the start time without the state's mutex, as the code does; a
reader may see the value of either run when tests overlap. That `GetState` may
even read half of it is left out, since no decision depends on the result.

### LoadTest

One test, with time: `Advance` is 100 ms (a tick of the dispatch ticker), ten of them bring a
tick of the metrics ticker. A ticker's channel holds one tick and drops the next
(`tick`, `metrics`), so the loop may be late by as much as it likes, up to `MaxLate`
ticks past the deadline. `DispatchTick` computes `int(currentRPS * 0.1)` from the
profile and the time that has passed; `left` counts the iterations of the loop,
each of which launches a request (`Launch`), finds the pool full (`Skip`) or sees the
context cancelled (`SeeCancel`). Rates are fractions and comparisons are multiplied
out by `Scale`. `Accept` and `Refuse` are `handleStart`: defaults, 400 without a target,
409 for a CSV without rows. `asked` is the configuration as posted, `cfg` what the
engine gets, so that the reference in `TargetTracked` owes nothing to the defaulting.

A request takes its row (`Generate`), then succeeds with a latency, fails by itself or is
aborted by Stop. A payload that does not fit its message fails in `Call` before anything is
sent, which is an error like the others. `Judge` is `Snapshot` followed by `Analyze`: the
actions of `Degradation`, instantiated. The P99 of an interval of at most 50 calls is its
largest latency. What `Collector` shows of snapshots taken while workers record is left out
here: recording is one step.

### Degradation

One step per `Analyze` and `Reset`, since both hold the mutex throughout. `Analyze` is
split by its early returns: `Silent`, `CollectBaseline`, `AlreadyDetected`,
`StillStable`, `Detect`; `StableIndices` and the fallback in `Detect` are
`findLastStableRPS`. The comparisons of floats are multiplied out. This is
exact where it is used: P99 is a whole number of milliseconds up to 30000, the
mean of five of them times 2.5 and the percentage of a ratio of counts below 3000
were compared with the code's arithmetic for all values, and agree,
the boundaries included. `RecommendedRPS` is kept in fifths.

### Collector

One step per access to an atomic; the four that are read are the function `atomic`, and `Add`,
`Load` and `Store` are the three kinds of access. `RecordLatency` and `LookUpCounter` need
`Collector.mu`, the increments do not; `LookUpCounter` remembers the map it looked in, so that
an increment after a `Reset` goes to the discarded one. `Snapshot` is nine steps in the order
of the loads and stores, `Reset` six. Histograms are the number of values in them. `histogram`
and `requests` are written and never read, and left out.

### MetricsHub

One module stands for both hubs, which are the same code: snapshots, broadcast
by run goroutines to `handleMetrics`, and error entries, broadcast by request workers (the
end of `RecordError`) to `handleErrors`. The constant `Ticking` tells them apart: only
`handleMetrics` also writes the status and the degradation result on a ticker. What a handler
without a ticker does, one with a ticker may do as well, so one run with both is enough.

A handler (`hpc[h]`) serves one connection: `Subscribe`, then `Receive` or
`StatusTick` from its select, the writes, which succeed or, once the client has
gone (`cut`), may fail, and the deferred `Unsubscribe`, which closes the channel. A
broadcaster holds the read lock from `BeginBroadcast` to `EndBroadcast` and offers
the message to each channel in `todo` without blocking (`Send`); `Subscribe` and
`Unsubscribe` need the write lock, so they are single steps that wait until
there is `NoReader`. Sending on a closed channel is the panic `crashed`. The list is a set:
the order of a slice decides only who is offered a message first, and every order is
explored. Messages are numbered in the order in which their broadcasts begin.

`LossyFeed` is the promise: a reader sees messages published after it joined, each
at most once, those of one publisher in order, some of them missing. Two
workers that broadcast errors at the same time may put them in different orders
into different channels, so nothing is promised across publishers; the history
variable `author` says whose a message is. `NothingLostUnlessFull` says what may be missing.

### Console

Two things that share only the process they live in. A session (`cookie[b]`) is an expiry in
whole seconds and the secret that signed it: the signature, which the code computes and
compares, is abstracted to the secret it was made with, and the nonce to nothing. The clock moves
in fractions of a second, so that the truncation in `NewSessionValue` and in
`validateSessionValue` matters. `Restart` takes the secret from the environment anew
(`SecretOf`: the development secret when it is blank) and loses everything else but
the browsers' cookies. `login` remembers when and under which secret the last login was.

The log channel is a sequence of numbered lines. `EmitLog` drops a line when it is full.
Every socket's handler is `Take`, then `Show` or, once the page has closed the socket
(`ClosePage`), `FailToShow`, after which the handler is gone. Nothing tells a handler
waiting in `Take` that its page has gone. The gate is asked when a socket is opened.

### TestService

A request (`rpc[r]`) is served by a goroutine of its own: `Count` (`reqCounter.Add`),
`SenseOverload` (the rate is loaded, and cut at the threshold), `Roll` under
`rngMu`, then `Respond` or `Refuse`. The tracker swaps the counter and stores the rate in
two steps, `Swap` and `Store`. The seven methods follow the same course; they
differ in the status of the order in their response, which is all that is kept of
a payload. The random roll is a choice, so the error rate is left out, and
so is the time a handler sleeps: the comments about them state probabilities. (The comment at
`server.go:390` gives 5 to 50 ms up to 800 RPS; the code adds up to 149 ms to
8% of the calls.) The history variables `second` and `peak` record in which second a
request was counted and the busiest second so far.

### TemplateBuilder

The walk of `GeneratePayloadTemplate`, one call of `buildMessage`, `buildField` or
`buildScalarOrMessageField` at a time. The template is kept as a function from places to
values, where a place is the sequence of fields and items that lead to a value and its length
is the depth; `todo` is what the calls on the stack have yet to build. The recursion is depth
first and in the order of the fields, so the next value is the first of `todo` by place
(`Before`), and what the node counter has reached by then is what the code's counter has.
`BuildMap`, `BuildScalar`, `CutTooDeep`, `BuildWellKnown` and `BuildMessage` are the kinds of
value. `buildMessageOrWellKnown` compares the depth before it looks for a well-known type, so a
Timestamp one level too deep becomes `{}`; `buildMessage` counts a message before it cuts it
for the count. `IdealTree` is the reference: what a tree has to be to stand for a type, said
place by place and without a counter, with subtrees cut or without; it has its own words for
the choice of a oneof (`Set`) and of an enum value (`IdealEnum`). Rendering the tree as JSON
text, and the choice of a token for a string by the name of its field, are left out.

### Discovery

One request at a time, since these handlers share nothing. Listing: `Dial`, `ListNames`, one
`ResolveName` per name, `ShowListing`; each wait may also end by its 10 s deadline
(`DialTimesOut`, `ListTimesOut`, `ResolveTimesOut`). A template request: `AskTemplate` makes
the connection of `NewCaller`, then the method is found by reflection or in the proto file,
which gives the builder the descriptors of its input type (`MethodFound`), or not (`FindFails`,
which closes the connection itself). `Walk` is a step of `TemplateBuilder`, and `SendTemplate`
follows the last one. `Close` is the deferred `Close` of either handler. Between any two of
these steps the target may be deployed with other services (`Redeploy`), some of whose
descriptors it cannot give (`broken`), or stop answering (`TurnSilent`). The history variable
`steady` says that neither has happened since the listing was asked for. A service stands for
its methods: the streaming ones among them are listed and found like the others.

## 3. Runs

| run | asks | bounds |
|---|---|---|
| `engine_overlap` | what holds however two tests overlap, what an undisturbed test may rely on, and whether the status settles | 1 client, 2 runs, 1 worker, 1 request each, no metrics tick |
| `engine_load` | whether the report is complete and the test ends | 1 run, 2 workers, bursts of 2, 4 requests, 2 ticks, error list cut from 3 to 1 |
| `engine_single_run` | "test already running" (`engine.go:59`) | 2 clients, 2 runs; violated |
| `engine_final_log` | the last log line (`engine.go:187`) | 1 client, 2 runs; violated |
| `load_test` | whether the load is the one asked for, and a verdict has a cause | 7 configurations, 2 ticks a second, 2 seconds, 1 tick late at the end, window 1, latencies of a healthy and a slow target |
| `degradation` | whether the result is the one the history determines | 8 snapshots on both sides of and at each threshold, window 2, 6 snapshots between Resets |
| `degradation_last_stable` | the comment at `degradation.go:14` | 3 snapshots, window 2; violated |
| `collector` | what snapshots taken while workers record may say, and what a Reset in between leaves | 2 recorders, 1 code, 2 calls, 2 snapshots, 1 Reset, error log cut from 1 to 1 |
| `hub` | whether handlers may come and go during concurrent broadcasts, lose nothing, and do go | 2 handlers with ticker, 2 broadcasters, channels of 1, 2 messages |
| `console` | how long sessions last, and where log lines go | 2 browsers, 2 secrets, 2 restarts, half seconds, TTL 2 s, 3 s; 2 sockets, channel of 2, 3 lines |
| `discovery` | whether requests end, give their connections back and show what is there, and whether a template is the ideal one up to the limits | 2 services; 52 schemas of two types; depth 1 and the default; 4 nodes |
| `test_service` | whether the rate handlers read is that of a second | 3 requests, threshold 1 |

Why the bounds suffice. Two runs are the smallest overlap (one client can start both, since the
mutex lets clients in one at a time, and a run that has been spawned needs no client), and a
third run meets the others pairwise through the same shared variables. One request and one slot
show every stage of a worker against every step of a `Start`, and the final snapshot of each
run is the detector input the other may disturb; two workers and four requests in bursts of two
add a full pool (`SkipRequest`), a second burst, metrics ticks and a trimmed error list. The
configurations of `load_test` are one of each kind: a rate that is truncated, one below a
request per tick, a ramp up, a ramp down that ends below zero, all defaults, a CSV with rows
that fit and that do not, and one without rows; two seconds give a baseline interval, a judged
one and the shorter rest. A window of two leaves room for several judged snapshots among six in
`degradation`; the constant 5 of the code matters to nothing else. Two recorders give every
pair of positions in the records, also against `Snapshot` and `Reset`. Channels of one message
fill up like those of 64 and 128, with a broadcast left that finds them full; each handler
meets each broadcast at every position, and two messages suffice for an order to be wrong. A
TTL of four half seconds against a clock of six lets a session expire at an odd and an even
half second, with logins before and after a restart under each secret. Three lines and a
channel of two leave a line dropped, or queued behind another, or in a hand. Three requests
over a threshold of one give seconds below, at and above it, with a request between the swap
and the store. The schemas of `discovery` have a root type without fields, with one field of
each kind, or with two that count as nodes or belong to a oneof (others do not meet each
other), and a second type that may refer back to the first. They refer to themselves and to
each other, once and in arrays, in and outside a oneof; within their depths and 4 nodes both
limits are reached, the second in the middle of an array and between fields.

Three runs switch the deadlock check off. The collector is passive: when its callers
have made their bounded number of calls nothing is left to do. The load test stops when
it is over or refused. The console waits for ever for the next line once the bounds on time,
lines and restarts are used up. In the test service the ticker never stops. The engine's
runs check deadlock: when no test is alive and no client inside `Start`
the server waits (`Idle`), and anywhere else something must be able to move. The hub's
run does the same: only when the bounded number of messages is out and handlers have
nothing to write may it rest (`Quiet`). Discovery and the builder can always be asked again.

What they show. `StatusBacked`: even while tests overlap, warmup, running and stopping are
shown only while some run is in that phase; with fairness (`StatusSettles`) no overlap leaves a
status that would refuse every later `Start`. `LatestIsStoppable`: `Stop` always reaches the
latest run. `WorkersDrained`, `FinalReportComplete`, `ErrorListComplete`: no request survives
`wg.Wait`, the last snapshot accounts for every launched request, and the error list for every
counted error. `OwnState`: a test without an overlap works on its own status, report and
detector input. `SerialRunsNeverPanic`: both panics need an overlap. `IsTestLifecycle`: tests
one after the other are those of `TestLifecycle`, failed Starts and reports that grow included.
For the collector, lost increments are possible (a snapshot stores 0 over them) but no double
count, the fields of a snapshot are ordered, and no success is reported ahead of its latency.
For the hub, no interleaving of broadcasts with handlers that come and go sends on a closed
channel, and a handler that keeps up misses nothing. For a whole test, `TargetTracked` shows
that the load never runs ahead of the profile, whatever ticks the loop misses, ends with the
duration, and lags by less than a request per tick when nothing was missed; `VerdictHasCause`,
that a healthy target tested to the end is never called degraded; `RowsInTurn`, that concurrent
requests use the CSV rows evenly and each request one. Sessions last as long as they should to
within the fraction of a second the cookie drops, over restarts (`SessionHonoured`); every log
line is in exactly one place (`LogAccounted`) and pages see theirs in order (`LogInOrder`).
Every request to a target is answered and gives its connection back exactly once
(`EveryRequestAnswered`, `ConnectionReturned`, and the 0 or 1 in `TypeOK`), and a listing of a
steady target shows exactly what can be called (`ListingCallable`). For the detector,
`ResultMatchesHistory` compares the incremental result with a definition over the whole
history. For the test service, every request belongs to exactly one second although handlers
count while the tracker swaps (`RateOfLastSecond`), no handler is more overloaded than the
busiest second explains, and an idle service recovers (`OverloadSubsides`). For the template
builder, whatever one branch uses up, the others are cut and never garbled (`PrunedIdeal`), and
nothing is cut below the limits.

Observed on the way, and no disagreement with anything the repository says:

- Stop aborts the requests in flight, which count as errors of the last interval, so stopping a healthy
  test may report a degradation (hence `aborted` in `VerdictHasCause`). It may do so even in a regular
  interval, when the loop takes a metrics tick before it notices Stop.
- Below one request per tick, 10 RPS, nothing is ever launched, although the page offers rates from 1
  (`web/index.html`, `startRps`). `handleStart` gives no default to `EndRPS`: a ramp to a negative rate
  launches nothing once it is below zero.
- A page that reconnects leaves a handler behind which takes, and loses, the next log line.
- The gate is asked once, so a socket outlives the session it was opened with.
- A target that falls silent while its services are resolved gives a shorter listing with status 200;
  `ListingCallable` therefore asks for a steady one.
- `ActualRPS` is the count of an interval, whatever its length, so the last one is low.

### Fairness

`FairSpec` assumes weak fairness of each run goroutine, of its workers and of a
`Start` in progress: the Go scheduler runs every runnable goroutine, and a
call returns within its 10 s timeout (`engine.go:226`) or when its context is
cancelled. `NewCaller` is bounded by the 10 s of `resolveViaReflection`. Strong
fairness of `DurationReached` stands for the deadline: the loop keeps returning
to its select, whose ready cases Go picks at random, and after the deadline the next tick taken
ends the loop. No fairness is assumed of clients: nobody has to press Stop.

`FairSpec` of `MetricsHub` assumes weak fairness of a broadcast under way and of
the status ticker, which fires every second. Strong fairness of
`WriteFails`: once the peer is gone, writes succeed only until the first is
answered with a reset or the buffers are full. Strong fairness of `Unsubscribe`:
Go's `RWMutex` lets a waiting writer in before later readers. A write into an
open connection may block for ever, and no client has to go away.

`FairSpec` of `Discovery` assumes weak fairness of the steps of a handler (`Answer`): each wait
has a deadline of 10 s (`connection.go:13`, `handler.go:190`, `caller.go:127`), after which the
handler goes on, and the walk of the builder waits for nothing. That the walk ends is not
assumed: the depth and the node count end it. Nothing is assumed of the target, which may stay
silent for ever.

`ServiceFairSpec` of `TestService` assumes weak fairness of the tracker only: its ticker fires
every second and its loop never blocks. Requests need neither arrive nor be answered.

## 4. Proofs

Each theorem holds for every value of the constants that satisfies the named assumption
of its module. Modules whose `TypeOK` supports the rest prove it as `TypeCorrect`.

| module | theorem | property |
|---|---|---|
| `EngineProofs` | `TypeCorrect` | `TypeOK` |
| | `StatusIsBacked` | `StatusBacked` |
| | `LatestCanBeStopped` | `LatestIsStoppable` |
| | `NoWorkerAfterDrain` | `WorkersDrained` |
| | `OwnStateOfTest` | `OwnState` |
| | `NoPanicInSeries` | `SerialRunsNeverPanic` |
| | `ErrorsOfTest` | `ErrorListComplete` |
| | `FinalReportOfTest` | `FinalReportComplete` |
| | `TestsFollowLifecycle` | `IsTestLifecycle`, the refinement of `TestLifecycle` |
| `LoadTestProofs` | `TypeCorrect` | `TypeOK`, the detector's included |
| | `VerdictIsCaused` | `VerdictHasCause` |
| | `RowsTakeTurns` | `RowsInTurn` |
| | `TargetIsTracked` | `TargetTracked` |
| | `DetectorIsFed` | the refinement of `Degradation` by `LoadTest`, without Reset |
| | `VerdictOfTestIsFinal` | `result.detected => result' = result`, of every step of a test |
| `DegradationProofs` | `TypeCorrect` | `TypeOK` |
| | `TestedInvariantsHold` | `TestedInvariants` |
| | `VerdictIsFinal` | `VerdictStands` |
| | `ResultIsHistory` | `ResultMatchesHistory` |
| `CollectorProofs` | `TypeCorrect` | `TypeOK` |
| | `NoIntervalOvercounts` | `IntervalsNeverOvercount` |
| | `LatencyBeforeSuccess` | `LatenciesCoverSuccesses` |
| | `SnapshotsConsistent` | `SnapshotConsistent` |
| | `ExactWhenQuiescent` | `QuiescentExact` |
| `MetricsHubProofs` | `TypeCorrect` | `TypeOK`, the capacity of the channels included |
| | `NobodySendsOnClosed` | `NeverSendsOnClosed` |
| | `HubIsLossyFeed` | `IsLossyFeed`, the refinement of `LossyFeed` |
| | `NothingIsLostUnlessFull` | `NothingLostUnlessFull` |
| `ConsoleProofs` | `TypeCorrect` | `TypeOK` |
| | `SessionsHonoured` | `SessionHonoured` |
| | `EveryLineAccounted` | `LogAccounted` |
| | `LinesInOrder` | `LogInOrder` |
| `TargetProofs` | `BuilderWithinLimits` | `WithinLimits` |
| | `BuilderPrunesIdeal` | `PrunedIdeal` |
| | `BuilderCompletes` | `CompleteWithinLimits` |
| | `TypeCorrect` | `TypeOK` of `Discovery` |
| | `ConnectionIsReturned` | `ConnectionReturned` |
| | `ListingIsCallable` | `ListingCallable` |
| | `DiscoveryBuilds` | the refinement of `BuilderSpec` by `Discovery` |
| | `DiscoveryTemplates` | the three properties of the builder, of `Discovery` |
| | `ServiceTypeCorrect` | `ServiceTypeOK` of `TestService` |
| | `RateIsLastSecond` | `RateOfLastSecond` |
| | `OverloadIsEarned` | `OverloadWithinPeak` |

### Engine

`EngineAssumption` says that a free mutex is nobody, that the trimmed list is not longer than
the cap, and that the bounds are naturals; the number of clients, runs and workers is open.

`TypeOK` is inductive with a conjunct about control: a run whose number is
above `spawned` has not started, a client inside `Start` holds the mutex, and a
client at `build` has a number left for the run it may spawn. It
supports the others. `StatusBacked` is inductive relative to it because the
status changes together with the phase of the run that sets it, and a run
leaves a phase only by setting the next status or for a phase with the same one.
`LatestIsStoppable` is preserved since `cancel` and `spawned` change together.
`WorkersDrained` holds since only the dispatch loop launches, and it is left for good.

What a test may count on when no other overlaps it rests on `Solo(r)`: run r is alive and was
never contested. `SoloInv` says that such a run is the only one alive and the latest, and that
no client is behind its resets; a client that is there finds either nobody alive or marks the
run it will spawn as contested. This is where the proof meets the hazard of `Start`: the status
a client has read may be stale when it resets, and what saves the uncontested run is only that
`contested` was written when that happened. From it follow

- `DoneInv`: the `done` a solo run will close is its own and is open (`FreshInv` adds that a run
  launches nothing before its loop). With the non-empty report of `ReportData` this is `SerialRunsNeverPanic`:
  no second close, no index -1;
- `ClearedInv`: what a client has reset is still empty when it spawns;
- `SoloData`: the status, start time, report and counters of a solo run, phase by phase. Its core is an account,
  `success + errors + calling = launched`, the same for the error list, `noted + noting = errors` up to the cap, and an
  order, that the totals reported are at most those in a snapshot under way, which are at most the collector's.

`FinalReportComplete` is about runs that have ended as well as the solo one, so it is proved by
a step of its own (`NextFinal`) from all of these. `TestsFollowLifecycle` maps each step: while
tests overlap the abstract test is lost, for good (`OverlapStays`); otherwise a step of a
client, a worker or a run is a step of the abstract test or leaves what it shows alone.

### LoadTest

`TypeCorrect` carries the configuration along (`Configured`: only a running loop divides by the
duration, and then it is positive). `VerdictIsCaused` has the invariant `CInv`: in a test
without trouble no error was counted, the slowest call of the interval is healthy, and the
baseline sum is at least `Fast` for each of its snapshots. `HealthyNotDegraded` then shows that
no snapshot of such a test can exceed two and a half times the baseline's mean, for any window:
it is the integer form of `p99 > 2.5 * baselineP99` with both sides multiplied by the count.

`RowsTakeTurns` rests on `RowInv`: with n rows the row counter is q·n + r, the first r rows
have been used q + 1 times and the others q times; every launched request has drawn a row or is
about to. `Generate` takes row `rowIdx % n`, which `Remainder` shows to be r.

`TargetIsTracked` rests on `PaceInv`. The load due by a tick is a sum of the rates, computed
from the configuration as posted (`SameLoad`: what the engine runs with is the same).
`NeverAhead`: what was launched, with the rest of the current burst, is at most what was due at
the last tick the loop has received. `NotBehind`: as long as no tick was missed and no request
skipped, it is at most one request per tick below that, since each tick loses the fraction that
`int()` cuts off and the code does not carry over.

`DetectorIsFed` shows that the test hands the detector one interval of naturals after the other and
touches it in no other way. The bound on the length of a stream is in `Next` of `Degradation` only,
which takes no part here, so these theorems hold of tests of any duration. `VerdictOfTestIsFinal`
follows with `Decided`: once there is a verdict the baseline is complete, so no interval is taken
for a part of it.

### Degradation

`DegradationAssumption`: snapshots are records of naturals, the window is
positive. The invariants that `degradation_test.go:154` asserts are not
inductive: before a verdict `degradation` is 0 although `maxStable` grows.
The strengthening `Unjudged` says so: without a verdict the degraded rate is 0,
and there is none before the baseline is complete. A verdict then sets all
three rates from one `Smaller`.

`ResultIsHistory` says that the incremental result is what the reference computes from the
whole history, for histories of any length. The reference's sets are stated as operators of a
history q (`LoadedIn`, `MeasurableIn`, `JudgedIn`, `BadIn`, `GoodIn`), with a lemma for each
that says what one more snapshot adds. `HistoryInv` relates the detector's variables to them:
until the baseline is complete nothing is judged and its sum is that of all measurable
snapshots, after that it stands still; before a verdict nothing judged is bad and the maximum
is the best rate seen; after it the verdict is about the first that was bad.

### Collector

`CollectorAssumption` takes the recorders and codes to be finite sets, since the properties add
over them. The invariant has these parts:

- `MutexInv`: `Snapshot` and `Reset` are under way exactly when they hold the mutex;
- `MapInv`: counters looked up belong to a map already made, the current one unless `Reset` has overtaken their recorder;
- `ClearedInv`: what `Reset` has cleared stays clear until it ends;
- `TotalsInv`: each total is exactly the calls made, less the recorders that have yet to reach it;
- `IntervalInv`: what was reported and what is in the interval, with the recorders that have yet
  to reach it, is at most the total. It is an inequality because increments between a load and the `Store(0)` are lost. The
  same sum over successes is at most the latencies, since a latency is recorded first;
- `SnapInv`: what `Snapshot` has loaded is at most what it has yet to load, for each pair in the order of the code.

Where these compare totals they hold while no `Reset` has met a recorder at work
(`~overlapped`), as the properties do. A recorder's step is one lemma for all recorders
(`RecordEffect`), and `DueStep` says how the number of recorders at a place changes when one
moves.

### MetricsHub

`HubAssumption`: channels hold at least one message.
`NeverSendsOnClosed` is not inductive; `ListConsistent` is: the list holds exactly the
handlers between Subscribe and Unsubscribe, the closed channels are those of handlers
that are gone, and a broadcast visits only members of the list. It survives
`Unsubscribe` because no broadcast is under way (`NoReader`). The refinement needs in
addition that everything is in order (`Ordered`): of the messages of one author, what a handler
has written is before the message in its hand, which is before its queue, which is in order itself
and before the message of a broadcast that has yet to visit it. Messages of different authors are
left unrelated, which is why the theorem holds for any number of broadcasters.
`NothingLostUnlessFull` holds only between subscribing and leaving; its strengthening `AllKept`
extends it over the messages that broadcasts under way have yet to deliver.

### Console

`ConsoleAssumption`: the development secret is not blank, and a second, the time to live and
the channel are at least 1. `SessionInv` says where a cookie comes from: its secret and the
whole second of its end are those of the last login. `DivMonotone` and `DivNext` are what the
truncation to seconds needs: a cookie is never honoured past its time to live, and at most the
last fraction of a second is cut from it.

`LogInOrder` is inductive with the types, and `OnePlace` with it: a line emitted is in the
channel, was dropped, or was taken by one handler. That a handler does not take a line it
already has follows from the order. `LogAccounted` counts lines; `OnePlaceCounted` derives the
counts from the places.

### TemplateBuilder

`BuilderAssumption` says only what descriptors guarantee: a type's fields are numbered from 1,
a message field refers to a type that is given or well known, an enum has a list of names.
Types may refer to one another in any way, themselves included.

`Due` are the values asked for: the root, and those of the fields of each object built. The
invariant relates them to what there is: `TodoInv`, todo consists of values due that are not
built; `BuiltInv`, every other value due is built as its field wants it, cut only if the depth,
or the count so far, exceeds its limit, and nothing else is built; `ObjectsInv`, there are no
more objects than nodes counted, nor than allowed, and none too deep. That a step builds the
value it takes and no other rests on `DueUnique`: places do not collide, since `Append` is
injective. What one branch has used up can only turn a value that would have been an object
into a cut (`IdealMonotone`), which is why the shared counter garbles nothing. When todo is
empty, `BuiltInv` is `IdealTree` (`CompleteIsIdeal`). `EnumIdeal` and `ChosenIsSet` show that
the code's choices are the reference's. So the walk is proved without an induction over the
types: the induction is over its steps.

### Discovery

`ConnectionInv` says where the connection is open. `ResolvingInv` is the account behind
`ListingCallable`: while the target is steady, what has been resolved and what is left and will
be listed are together all that can be called. `WalkInv` confines the builder to the request
that uses it: between requests it is as new, and the reply is written when todo is empty. With
it every step of `Discovery` is a step of the builder or leaves it alone (`DiscoveryBuilds`),
so the builder's theorems hold of the templates that users get (`DiscoveryTemplates`).

### TestService

The assumption needed is that the requests are a finite set. `RateOfLastSecond` is inductive
once each request is known to be counted in one second only (`CountedOnce`).
`OverloadWithinPeak` needs that no count on its way to the handlers (`reqCounter`, the swapped
value, the rate) exceeds the busiest second (`BelowPeak`).

### Sums

`SumTheorems` has no state. The modules add up counters with `MapThenSumSet` of the community
modules, a recursive definition by a choice of an element. That its value is a sum is proved
without induction over an operator: the subsets for which a claim fails, were there any, would
have a smallest one by the well-foundedness of strict inclusion on finite sets. From `SumIsSum`
follow the sum of the empty set, of a set with one more element (`SumAny`), of a function
changed at one place (`SumUpdate`), and monotonicity.

### Only model-checked

Every invariant and action property that a passing run checks has a theorem, the two
refinements included. What is left to TLC:

- Liveness (`EveryRunEnds`, `StatusSettles`, `SubscriptionWithdrawn`, `EveryRequestAnswered`,
  `OverloadSubsides`): fairness and ENABLED are beyond the provers used here.

## 5. Mutants

Definitions introduced by a "Fault variant" comment are not part of any
specification. Each is a plausible mistake in the code its neighbour models (a
reset that is forgotten, a connection left open, a wait for the wrong thing);
`PROJECT.json` pairs each property of a passing run with a variant that breaks it.

## 6. Disagreements found

1. `engine_single_run`. `Start` refuses when the status is running or warmup. The
   status is idle until the new goroutine sets it, and stopping while an old one
   waits for its requests; in both intervals a second `Start` succeeds.
2. `engine_final_log`. After `SetStatus(Finished)` a `Start` is legal, and it
   resets the snapshots the last log line of the old run indexes: the line shows
   another test's totals, or the index -1 panics and takes the server down.
3. `degradation_last_stable`. `Analyze` treats an error rate of exactly 15%, or a
   P99 of exactly 2.5 baselines, as stable, `findLastStableRPS` does not. The stable
   rate reported is then an older one, or that of the first snapshot of the test,
   even if it was failing.

## 7. Plan

The modules above are the ones planned. Each safety property is stated by a theorem; should
liveness and ENABLED come within reach of the provers, the properties under *Only
model-checked* are next, `EveryRunEnds` first. Section 8 has what is left out on purpose.

## 8. Not modelled

- The random text of the payload generator, the tokens of the template builder and the texts of
  the test service: data without control.
- `Engine.Wait` and `Caller.CallAndReturn`, which nothing calls, and `SetTargetRPS`, whose value is only shown.
- Parsing of proto files, JSON and CSV, and what happens inside gRPC and its reflection client: libraries. `Resolvable`,
  `Redeploy` and `TurnSilent` are how `src/` meets them.
- Reading handlers (`handleStatus`, `handleReport`, `handleDegradation`, `handleAuthStatus`): they change nothing.
- The test service's entry point, the web page and generated code.
