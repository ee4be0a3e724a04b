------------------------------ MODULE LoadTest ------------------------------
(***************************************************************************)
(* One load test from its configuration to its verdict: handleStart        *)
(* (internal/api/handler.go), the pacing of Engine.run and calculateRPS    *)
(* (internal/engine/engine.go), the rows of the payload generator          *)
(* (internal/payload/generator.go) and the detector (Degradation), which   *)
(* judges the interval counts of the collector once a second and at the    *)
(* end.  Engine.tla leaves open how much load a tick brings; here time     *)
(* passes in ticks of 100 ms, and the loop may be late for any of them.    *)
(* Rates are fractions; a comparison multiplies both sides by Scale.       *)
(***************************************************************************)
EXTENDS Integers, Sequences, FiniteSetsExt

CONSTANTS
  Requests,         \* configurations that may be posted
  Latencies,        \* what a call that succeeds may take, in milliseconds
  Fast,             \* ... and the least of a healthy target
  TicksPerSecond,   \* ticks of the dispatch ticker in a second (10)
  DefaultRPS, DefaultDuration, DefaultWorkers,   \* of handleStart (10, 30, 200)
  BaselineWindow,   \* of the detector (5)
  MaxLate           \* bound: ticks by which the loop runs past the deadline

ASSUME LoadTestAssumption ==
  /\ Requests \subseteq
       [target : BOOLEAN, profile : {"", "constant", "ramping"}, start : Int, end : Int,
        duration : Int, workers : Int, csv : Seq(BOOLEAN)]
  /\ Latencies \subseteq Nat /\ Fast \in Nat
  /\ {TicksPerSecond, DefaultRPS, DefaultDuration, DefaultWorkers} \subseteq Nat \ {0}
  /\ BaselineWindow \in Nat \ {0}
  /\ MaxLate \in Nat

VARIABLES
  asked,      \* the configuration as posted
  cfg,        \* ... and as the engine gets it
  phase,      \* "asked", "refused", "loop", "drain" or "over"
  now,        \* ticks since the loop began, and since StartedAt plus the warmup
  tick,       \* time of the tick waiting in ticker.C, or 0
  metrics,    \* a tick is waiting in metricsTicker.C
  left,       \* iterations the dispatch loop has left
  cancelled,  \* Stop has cancelled the context
  fresh,      \* requests launched that have no payload yet
  calling,    \* requests in flight
  rowIdx,     \* Generator.rowIdx
  success, errors, slowest,   \* of the interval: counts, and the largest latency,
              \* which is the P99 of an interval of up to 50 calls
  baselineSum, baselineCount, result, snapshots,   \* of the detector
  launched,   \* history: requests launched
  short,      \* history: a tick was missed or a request skipped
  used,       \* history: used[i]: requests built from row i
  troubled,   \* history: a call was slow or failed by itself
  aborted     \* history: Stop cancelled a call in flight

clockVars    == <<now, tick, metrics>>
requestVars  == <<fresh, calling, rowIdx, used>>
intervalVars == <<success, errors, slowest>>
detectorVars == <<baselineSum, baselineCount, result, snapshots>>
vars == <<asked, cfg, phase, clockVars, left, cancelled, requestVars, intervalVars,
          detectorVars, launched, short, troubled, aborted>>

Detector == INSTANCE Degradation WITH
  Inputs <- [rps : Nat, p99 : Nat, success : Nat, errors : Nat],
  MaxSnapshots <- 0   \* bounds Detector!Next only, which takes no part here

(* A healthy target keeps its latencies within p99GrowthFactor = 2.5.      *)
Healthy(latency) == latency >= Fast /\ 2 * latency <= 5 * Fast

Or(value, default) == IF value <= 0 THEN default ELSE value

(* The records of the CSV, header first: does a payload built from the row *)
(* fit the message?                                                        *)
Rows(c) == IF c.csv = <<>> THEN <<>> ELSE Tail(c.csv)

Init ==
  /\ asked \in Requests
  /\ cfg = asked
  /\ phase = "asked"
  /\ now = 0 /\ tick = 0 /\ metrics = FALSE
  /\ left = 0
  /\ cancelled = FALSE
  /\ fresh = 0 /\ calling = 0 /\ rowIdx = 0
  /\ success = 0 /\ errors = 0 /\ slowest = 0
  /\ Detector!Init
  /\ launched = 0
  /\ short = FALSE
  /\ used = [i \in DOMAIN Rows(asked) |-> 0]
  /\ troubled = FALSE /\ aborted = FALSE

-----------------------------------------------------------------------------
(* handleStart: 400 without a target; 409 when NewGenerator finds a CSV    *)
(* that has no row behind its header.                                      *)
Refuse ==
  /\ phase = "asked"
  /\ ~asked.target \/ Len(asked.csv) = 1
  /\ phase' = "refused"
  /\ UNCHANGED <<asked, cfg, clockVars, left, cancelled, requestVars, intervalVars,
                 detectorVars, launched, short, troubled, aborted>>

Accept ==
  /\ phase = "asked"
  /\ asked.target /\ Len(asked.csv) # 1
  /\ phase' = "loop"
  /\ cfg' = [asked EXCEPT !.start = Or(@, DefaultRPS),
                          !.duration = Or(@, DefaultDuration),
                          !.workers = Or(@, DefaultWorkers),
                          !.profile = IF @ = "" THEN "constant" ELSE @]
  /\ UNCHANGED <<asked, clockVars, left, cancelled, requestVars, intervalVars,
                 detectorVars, launched, short, troubled, aborted>>

Ticks(c) == c.duration * TicksPerSecond

(* A tick that finds its channel full is dropped.                          *)
Advance ==
  /\ phase = "loop"
  /\ now < Ticks(cfg) + MaxLate
  /\ now' = now + 1
  /\ tick' = IF tick = 0 THEN now + 1 ELSE tick
  /\ short' = (short \/ tick # 0)
  /\ metrics' = (metrics \/ (now + 1) % TicksPerSecond = 0)
  /\ UNCHANGED <<asked, cfg, phase, left, cancelled, requestVars, intervalVars,
                 detectorVars, launched, troubled, aborted>>

(* Engine.Stop                                                             *)
Stop ==
  /\ phase \in {"loop", "drain"}
  /\ cancelled' = TRUE
  /\ UNCHANGED <<asked, cfg, phase, clockVars, left, requestVars, intervalVars,
                 detectorVars, launched, short, troubled, aborted>>

-----------------------------------------------------------------------------
(* The rate, times Ticks(cfg).                                             *)
CalculateRPS(elapsed) ==
  LET progress == Min({elapsed, Ticks(cfg)})
  IN  IF cfg.profile = "ramping"
        THEN cfg.start * Ticks(cfg) + (cfg.end - cfg.start) * progress
        ELSE cfg.start * Ticks(cfg)

Scale == Ticks(cfg) * TicksPerSecond

(* Fault variant: a late tick makes up for the ones that were missed. *)
CountCatchingUp(rate) ==
  IF rate <= 0 THEN 0 ELSE (rate * (now - tick + 1)) \div Scale

(* int(currentRPS * 0.1): toward zero, and a negative count launches none. *)
Count(rate) == IF rate <= 0 THEN 0 ELSE rate \div Scale

InLoop == phase = "loop" /\ left = 0

(* case t := <-ticker.C.  The deadline was taken just before the ticker    *)
(* was made, so the tick due at the deadline may fall on either side.      *)
DispatchTick ==
  /\ InLoop
  /\ tick \in 1..Ticks(cfg)
  /\ left' = Count(CalculateRPS(now))
  /\ tick' = 0
  /\ UNCHANGED <<asked, cfg, phase, now, metrics, cancelled, requestVars, intervalVars,
                 detectorVars, launched, short, troubled, aborted>>

DurationReached ==
  /\ InLoop
  /\ tick >= Ticks(cfg)
  /\ phase' = "drain"
  /\ UNCHANGED <<asked, cfg, clockVars, left, cancelled, requestVars, intervalVars,
                 detectorVars, launched, short, troubled, aborted>>

(* case <-ctx.Done(), of either select.                                    *)
SeeCancel ==
  /\ phase = "loop"
  /\ cancelled
  /\ phase' = "drain"
  /\ left' = 0
  /\ UNCHANGED <<asked, cfg, clockVars, cancelled, requestVars, intervalVars,
                 detectorVars, launched, short, troubled, aborted>>

(* case workerSem <- struct{}{}                                            *)
Launch ==
  /\ left > 0
  /\ fresh + calling < cfg.workers
  /\ left' = left - 1
  /\ fresh' = fresh + 1
  /\ launched' = launched + 1
  /\ UNCHANGED <<asked, cfg, phase, clockVars, cancelled, calling, rowIdx, used,
                 intervalVars, detectorVars, short, troubled, aborted>>

(* default: every worker is busy                                           *)
Skip ==
  /\ left > 0
  /\ fresh + calling >= cfg.workers
  /\ ~cancelled
  /\ left' = left - 1
  /\ short' = TRUE
  /\ UNCHANGED <<asked, cfg, phase, clockVars, cancelled, requestVars, intervalVars,
                 detectorVars, launched, troubled, aborted>>

-----------------------------------------------------------------------------
(* A request.                                                              *)

Fail == errors' = errors + 1 /\ UNCHANGED <<success, slowest>>

(* Fault variant: the last row is never reached. *)
RowShortOfLast(idx) == (idx % Max({1, Len(Rows(cfg)) - 1})) + 1

(* csvRows[idx % len(csvRows)]                                             *)
Row(idx) == (idx % Len(Rows(cfg))) + 1

(* Generate takes the next row; a payload that is not the message of the   *)
(* method fails in Call, before anything is sent.                          *)
Generate ==
  /\ fresh > 0
  /\ fresh' = fresh - 1
  /\ IF Rows(cfg) = <<>>
       THEN calling' = calling + 1 /\ UNCHANGED <<rowIdx, used, intervalVars, troubled>>
       ELSE LET row == Row(rowIdx)
            IN  /\ rowIdx' = rowIdx + 1
                /\ used' = [used EXCEPT ![row] = @ + 1]
                /\ IF Rows(cfg)[row]
                     THEN calling' = calling + 1 /\ UNCHANGED <<intervalVars, troubled>>
                     ELSE Fail /\ troubled' = TRUE /\ UNCHANGED calling
  /\ UNCHANGED <<asked, cfg, phase, clockVars, left, cancelled, detectorVars,
                 launched, short, aborted>>

(* The call succeeds ...                                                   *)
Succeed(latency) ==
  /\ calling > 0
  /\ calling' = calling - 1
  /\ success' = success + 1
  /\ slowest' = Max({slowest, latency})
  /\ troubled' = (troubled \/ ~Healthy(latency))
  /\ UNCHANGED <<asked, cfg, phase, clockVars, left, cancelled, fresh, rowIdx, used, errors,
                 detectorVars, launched, short, aborted>>

(* ... or fails, at the latest after its timeout of 10 s.                  *)
FailByItself ==
  /\ calling > 0
  /\ calling' = calling - 1
  /\ Fail
  /\ troubled' = TRUE
  /\ UNCHANGED <<asked, cfg, phase, clockVars, left, cancelled, fresh, rowIdx, used,
                 detectorVars, launched, short, aborted>>

(* Fault variant: the context of a call ends before the test does. *)
AbortUnasked ==
  /\ calling > 0
  /\ calling' = calling - 1
  /\ Fail
  /\ aborted' = TRUE
  /\ UNCHANGED <<asked, cfg, phase, clockVars, left, cancelled, fresh, rowIdx, used,
                 detectorVars, launched, short, troubled>>

(* The context of the call is cancelled: an error like any other.          *)
Abort ==
  /\ cancelled
  /\ calling > 0
  /\ calling' = calling - 1
  /\ Fail
  /\ aborted' = TRUE
  /\ UNCHANGED <<asked, cfg, phase, clockVars, left, cancelled, fresh, rowIdx, used,
                 detectorVars, launched, short, troubled>>

-----------------------------------------------------------------------------
(* snap := e.collector.Snapshot(); e.detector.Analyze(snap)                *)
Judge ==
  /\ Detector!Analyze([rps |-> success + errors, p99 |-> slowest,
                       success |-> success, errors |-> errors])
  /\ success' = 0 /\ errors' = 0 /\ slowest' = 0

(* case <-metricsTicker.C                                                  *)
MetricsTick ==
  /\ InLoop
  /\ metrics
  /\ metrics' = FALSE
  /\ Judge
  /\ UNCHANGED <<asked, cfg, phase, now, tick, left, cancelled, requestVars,
                 launched, short, troubled, aborted>>

(* wg.Wait() returns, and the rest is judged as an interval of its own.    *)
Finish ==
  /\ phase = "drain"
  /\ fresh + calling = 0
  /\ phase' = "over"
  /\ Judge
  /\ UNCHANGED <<asked, cfg, clockVars, left, cancelled, requestVars,
                 launched, short, troubled, aborted>>

Next ==
  \/ Refuse \/ Accept
  \/ Advance \/ Stop
  \/ DispatchTick \/ DurationReached \/ SeeCancel \/ MetricsTick \/ Finish
  \/ Launch \/ Skip
  \/ Generate \/ FailByItself \/ Abort
  \/ \E latency \in Latencies : Succeed(latency)

Spec == Init /\ [][Next]_vars

-----------------------------------------------------------------------------
(* Type invariant.                                                         *)
TypeOK ==
  /\ phase \in {"asked", "refused", "loop", "drain", "over"}
  /\ now \in Nat /\ tick \in 0..now /\ metrics \in BOOLEAN
  /\ left \in Nat
  /\ cancelled \in BOOLEAN
  /\ fresh \in Nat /\ calling \in Nat /\ rowIdx \in Nat
  /\ success \in Nat /\ errors \in Nat /\ slowest \in Nat
  /\ launched \in Nat
  /\ used \in [DOMAIN Rows(asked) -> Nat]
  /\ {short, troubled, aborted} \subseteq BOOLEAN

(* The load that was asked for, tick by tick, and no more once the         *)
(* duration is over: the reference, from the configuration as posted.      *)
Wanted ==
  LET start    == IF asked.start > 0 THEN asked.start ELSE DefaultRPS
      duration == IF asked.duration > 0 THEN asked.duration ELSE DefaultDuration
      last     == duration * TicksPerSecond
      rate     == [t \in 1..last |->
                    Max({0, IF asked.profile = "ramping"
                              THEN start * (last - t) + asked.end * t
                              ELSE start * last})]
  IN  [due   |-> MapThenSumSet(LAMBDA t : rate[t], 1..Min({now, last})),
       scale |-> last * TicksPerSecond]

(* The load follows what was asked for: never more than is due by now,     *)
(* even when the loop is late, ticks are missed and the deadline passes,   *)
(* and, while no tick was missed and no worker lacking, less than one      *)
(* request per tick behind.                                                *)
TargetTracked ==
  phase \in {"loop", "drain", "over"} =>
    /\ launched * Wanted.scale <= Wanted.due
    /\ InLoop /\ tick = 0 /\ ~short =>
         Wanted.due - launched * Wanted.scale <= now * Wanted.scale

(* Degradation is reported for a cause: a call that failed or was slow by  *)
(* itself, or calls that Stop cancelled in flight.  A healthy target that  *)
(* is tested to the end gets no verdict, although the last interval is     *)
(* shorter than the others.                                                *)
VerdictHasCause == result.detected => troubled \/ (cancelled /\ aborted)

(* Requests use the CSV rows in turn, whatever the order they get there.   *)
RowsInTurn ==
  /\ \A i, j \in DOMAIN used : i < j => used[i] - used[j] \in {0, 1}
  /\ phase = "over" /\ used # <<>> =>
       MapThenSumSet(LAMBDA i : used[i], DOMAIN used) = launched

=============================================================================
