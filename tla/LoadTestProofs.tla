--------------------------- MODULE LoadTestProofs ---------------------------
(* Proofs about a whole load test, for every configuration, target, window *)
(* and pace.                                                               *)
EXTENDS LoadTest, SumTheorems

Configs == [target : BOOLEAN, profile : {"", "constant", "ramping"}, start : Int, end : Int,
            duration : Int, workers : Int, csv : Seq(BOOLEAN)]

(* What TypeOK needs to be inductive: the configurations, of which the     *)
(* engine's has a duration; and the types of the detector.                 *)
Configured ==
  /\ asked \in Requests
  /\ cfg \in Configs
  /\ cfg.csv = asked.csv
  /\ phase = "loop" => cfg.duration \in Nat \ {0}
  /\ left > 0 => phase = "loop"

Intervals == [rps : Nat, p99 : Nat, success : Nat, errors : Nat]

TInv == TypeOK /\ Configured /\ Detector!TypeOK

-----------------------------------------------------------------------------
LEMMA LargerOfTwo ==
  ASSUME NEW a \in Nat, NEW b \in Nat
  PROVE  Max({a, b}) \in {a, b} /\ Max({a, b}) >= a /\ Max({a, b}) >= b
<1>1. CASE a >= b
  <2>1. a \in {a, b} /\ \A y \in {a, b} : a >= y
    BY <1>1
  <2> QED
    BY <2>1 DEF Max
<1>2. CASE b >= a
  <2>1. b \in {a, b} /\ \A y \in {a, b} : b >= y
    BY <1>2
  <2> QED
    BY <2>1 DEF Max
<1> QED
  BY <1>1, <1>2

LEMMA SmallerOfTwo ==
  ASSUME NEW a \in Nat, NEW b \in Nat
  PROVE  Min({a, b}) \in {a, b}
<1>1. CASE a <= b
  <2>1. a \in {a, b} /\ \A y \in {a, b} : a <= y
    BY <1>1
  <2> QED
    BY <2>1 DEF Min
<1>2. CASE b <= a
  <2>1. b \in {a, b} /\ \A y \in {a, b} : b <= y
    BY <1>2
  <2> QED
    BY <2>1 DEF Min
<1> QED
  BY <1>1, <1>2

(* A product of natural numbers grows with a factor.                       *)
LEMMA ProductMonotone ==
  ASSUME NEW a \in Nat, NEW b \in Nat, NEW c \in Nat, a <= b
  PROVE  c * a <= c * b
OBVIOUS

LEMMA ProductPositive ==
  ASSUME NEW a \in Nat \ {0}, NEW b \in Nat \ {0}
  PROVE  a * b \in Nat \ {0}
OBVIOUS

LEMMA CountIsNat ==
  ASSUME TInv, phase = "loop"
  PROVE  Count(CalculateRPS(now)) \in Nat
<1>1. Ticks(cfg) \in Nat \ {0}
  BY ProductPositive, LoadTestAssumption DEF TInv, Configured, Ticks
<1>2. Scale \in Nat \ {0}
  BY <1>1, ProductPositive, LoadTestAssumption DEF Scale
<1>3. Min({now, Ticks(cfg)}) \in Nat
  BY <1>1, SmallerOfTwo DEF TInv, TypeOK
<1>4. cfg.start \in Int /\ cfg.end \in Int
  BY DEF TInv, Configured, Configs
<1>5. CalculateRPS(now) \in Int
  BY <1>1, <1>3, <1>4 DEF CalculateRPS
<1> HIDE DEF CalculateRPS, Scale
<1> QED
  BY <1>2, <1>5 DEF Count

-----------------------------------------------------------------------------
(* The stable rate of a verdict is a rate of some interval.                *)
LEMMA DetectKeepsTypes ==
  ASSUME Detector!TypeOK, NEW s \in Intervals, Detector!Detect(s)
  PROVE  /\ UNCHANGED <<baselineSum, baselineCount>>
         /\ result' \in [detected : BOOLEAN, degradation : Nat, recommended : Nat,
                         maxStable : Nat, reason : Detector!Reasons]
<1>1. snapshots \in Seq(Intervals) /\ s.rps \in Nat
  BY DEF Detector!TypeOK, Intervals
<1>2. \E base \in Nat : Detector!Verdict(s, base)
  <2>1. CASE \E i \in Detector!StableIndices : Detector!Verdict(s, snapshots[i].rps)
    <3>1. PICK i \in Detector!StableIndices : Detector!Verdict(s, snapshots[i].rps)
      BY <2>1
    <3>2. snapshots[i] \in Intervals
      BY <1>1, <3>1 DEF Detector!StableIndices
    <3> QED
      BY <3>1, <3>2 DEF Intervals
  <2>2. CASE Detector!Verdict(s, Append(snapshots, s)[1].rps)
    <3>1. Append(snapshots, s)[1] \in Intervals
      BY <1>1
    <3> QED
      BY <2>2, <3>1 DEF Intervals
  <2> QED
    BY <2>1, <2>2 DEF Detector!Detect
<1>3. PICK base \in Nat : Detector!Verdict(s, base)
  BY <1>2
<1>4. Detector!Reason(s) \in Detector!Reasons
  BY DEF Detector!Reason, Detector!Reasons
<1>5. UNCHANGED <<baselineSum, baselineCount>>
  BY DEF Detector!Detect, Detector!Judging
<1> QED
  BY <1>1, <1>3, <1>4, <1>5 DEF Detector!Verdict, Detector!Smaller

(* Judge hands the detector an interval of natural numbers; whichever way  *)
(* the detector takes, its types are kept.                                 *)
LEMMA JudgeKeepsTypes ==
  ASSUME TypeOK, Detector!TypeOK, Judge
  PROVE  Detector!TypeOK'
<1> DEFINE s == [rps |-> success + errors, p99 |-> slowest,
                 success |-> success, errors |-> errors]
<1>1. s \in Intervals
  BY DEF TypeOK, Intervals
<1>2. Detector!Analyze(s)
  BY DEF Judge
<1> HIDE DEF s
<1>3. snapshots' \in Seq(Intervals)
  BY <1>1, <1>2 DEF Detector!Analyze, Detector!TypeOK, Intervals
<1>4. CASE Detector!Silent(s) \/ Detector!AlreadyDetected(s)
  BY <1>3, <1>4 DEF Detector!TypeOK, Intervals, Detector!Silent, Detector!AlreadyDetected
<1>5. CASE Detector!CollectBaseline(s) \/ Detector!StillStable(s)
  <2> s.p99 \in Nat /\ BaselineWindow \in Nat
    BY <1>1, LoadTestAssumption DEF Intervals
  <2>1. baselineSum' \in Nat /\ baselineCount' \in 0..BaselineWindow
    <3>1. CASE Detector!CollectBaseline(s)
      BY <3>1 DEF Detector!TypeOK, Detector!CollectBaseline
    <3>2. CASE Detector!StillStable(s)
      BY <3>2 DEF Detector!TypeOK, Detector!StillStable, Detector!Judging
    <3> QED
      BY <1>5, <3>1, <3>2
  <2>2. Detector!RaiseMaxStable(s)
    BY <1>5 DEF Detector!CollectBaseline, Detector!StillStable
  <2>3. result' \in [detected : BOOLEAN, degradation : Nat, recommended : Nat,
                     maxStable : Nat, reason : Detector!Reasons]
    BY <1>1, <2>2 DEF Detector!TypeOK, Intervals, Detector!RaiseMaxStable, Detector!Larger
  <2> QED
    BY <1>3, <2>1, <2>3 DEF Detector!TypeOK, Intervals
<1>6. CASE Detector!Detect(s)
  BY <1>1, <1>3, <1>6, DetectKeepsTypes DEF Detector!TypeOK, Intervals
<1> QED
  BY <1>2, <1>4, <1>5, <1>6 DEF Detector!Analyze

-----------------------------------------------------------------------------
LEMMA InitTyped == Init => TInv
<1> SUFFICES ASSUME Init PROVE TInv
  OBVIOUS
<1>1. TypeOK
  <2>1. used \in [DOMAIN Rows(asked) -> Nat]
    BY Zenon DEF Init
  <2>2. /\ phase = "asked" /\ now = 0 /\ tick = 0 /\ metrics = FALSE /\ left = 0
        /\ cancelled = FALSE /\ fresh = 0 /\ calling = 0 /\ rowIdx = 0 /\ launched = 0
        /\ success = 0 /\ errors = 0 /\ slowest = 0
        /\ short = FALSE /\ troubled = FALSE /\ aborted = FALSE
    BY Zenon DEF Init
  <2>3. {short, troubled, aborted} \subseteq BOOLEAN
    BY <2>2
  <2>4. tick \in 0..now
    BY <2>2
  <2> QED
    BY <2>1, <2>2, <2>3, <2>4 DEF TypeOK
<1>2. Configured
  <2>1. asked \in Requests /\ cfg = asked /\ phase = "asked" /\ left = 0
    BY Zenon DEF Init
  <2>2. asked \in Configs
    BY <2>1, LoadTestAssumption, Zenon DEF Configs
  <2> QED
    BY <2>1, <2>2 DEF Configured
<1>3. Detector!TypeOK
  <2>1. Detector!Init
    BY Zenon DEF Init
  <2>2. result = Detector!NoResult /\ snapshots = <<>> /\ baselineSum = 0 /\ baselineCount = 0
    BY <2>1 DEF Detector!Init
  <2>3. Detector!NoResult \in [detected : BOOLEAN, degradation : Nat, recommended : Nat,
                               maxStable : Nat, reason : Detector!Reasons]
    BY DEF Detector!NoResult, Detector!Reasons
  <2>4. BaselineWindow \in Nat
    BY LoadTestAssumption
  <2> QED
    BY <2>2, <2>3, <2>4 DEF Detector!TypeOK
<1> QED
  BY <1>1, <1>2, <1>3 DEF TInv

LEMMA DetectorIdle ==
  ASSUME Detector!TypeOK, UNCHANGED detectorVars
  PROVE  Detector!TypeOK'
BY DEF detectorVars, Detector!TypeOK

(* handleStart gives every number that is not positive its default.        *)
LEMMA OrIsPositive ==
  ASSUME NEW value \in Int, NEW default \in Nat \ {0}
  PROVE  Or(value, default) \in Nat \ {0}
BY DEF Or

LEMMA CountedUp ==
  ASSUME NEW D, NEW f \in [D -> Nat], NEW r
  PROVE  [f EXCEPT ![r] = f[r] + 1] \in [D -> Nat]
<1>1. CASE r \in D
  BY <1>1
<1>2. CASE r \notin D
  <2>1. [f EXCEPT ![r] = f[r] + 1] = f
    BY <1>2
  <2> QED
    BY <2>1
<1> QED
  BY <1>1, <1>2

LEMMA AcceptTyped ==
  ASSUME TInv, Accept
  PROVE  TypeOK' /\ Configured' /\ UNCHANGED detectorVars
<1> DEFINE S == Or(asked.start, DefaultRPS)
           D == Or(asked.duration, DefaultDuration)
           W == Or(asked.workers, DefaultWorkers)
           P == IF asked.profile = "" THEN "constant" ELSE asked.profile
<1>1. /\ asked.target \in BOOLEAN /\ asked.csv \in Seq(BOOLEAN)
      /\ asked.profile \in {"", "constant", "ramping"}
      /\ asked.start \in Int /\ asked.end \in Int
      /\ asked.duration \in Int /\ asked.workers \in Int
      /\ asked = [target |-> asked.target, profile |-> asked.profile, start |-> asked.start,
                  end |-> asked.end, duration |-> asked.duration,
                  workers |-> asked.workers, csv |-> asked.csv]
  BY LoadTestAssumption DEF TInv, Configured
<1>2. DefaultRPS \in Nat \ {0} /\ DefaultDuration \in Nat \ {0} /\ DefaultWorkers \in Nat \ {0}
  BY LoadTestAssumption
<1>3. S \in Nat \ {0} /\ D \in Nat \ {0} /\ W \in Nat \ {0}
  BY <1>1, <1>2, OrIsPositive, Zenon
<1>4. P \in {"", "constant", "ramping"}
  BY <1>1
<1>5. cfg' = [asked EXCEPT !.start = S, !.duration = D, !.workers = W, !.profile = P]
  BY DEF Accept
<1> HIDE DEF S, D, W, P
<1>6. cfg' = [target |-> asked.target, profile |-> P, start |-> S, end |-> asked.end,
              duration |-> D, workers |-> W, csv |-> asked.csv]
  BY <1>1, <1>5
<1>7. cfg' \in Configs
  <2>1. S \in Int /\ D \in Int /\ W \in Int
    BY <1>3
  <2> QED
    BY <1>1, <1>4, <1>6, <2>1 DEF Configs
<1>8. cfg'.csv = asked.csv /\ cfg'.duration \in Nat \ {0}
  BY <1>3, <1>6
<1> QED
  BY <1>7, <1>8 DEF TInv, TypeOK, Configured, Accept, clockVars, requestVars, intervalVars,
              detectorVars

(* A step of the detector's, with its interval counts reset; the others do *)
(* not touch the detector.                                                 *)
LEMMA StepTyped == TInv /\ [Next]_vars => TInv'
<1> SUFFICES ASSUME TInv, [Next]_vars PROVE TInv'
  OBVIOUS
<1> USE DEF Configured, clockVars, requestVars, intervalVars, detectorVars
<1> TypeOK /\ Configured /\ Detector!TypeOK
  BY DEF TInv
<1>1. CASE Refuse
  BY <1>1, DetectorIdle DEF Refuse, TInv, TypeOK
<1>2. CASE Accept
  BY <1>2, AcceptTyped, DetectorIdle DEF TInv
<1>3. CASE Advance
  BY <1>3, DetectorIdle DEF Advance, TInv, TypeOK
<1>4. CASE Stop
  BY <1>4, DetectorIdle DEF Stop, TInv, TypeOK
<1>5. CASE DispatchTick
  <2>1. left' \in Nat
    BY <1>5, CountIsNat DEF DispatchTick, InLoop
  <2> QED
    BY <1>5, <2>1, DetectorIdle DEF DispatchTick, InLoop, TInv, TypeOK
<1>6. CASE DurationReached
  BY <1>6, DetectorIdle DEF DurationReached, InLoop, TInv, TypeOK
<1>7. CASE SeeCancel
  BY <1>7, DetectorIdle DEF SeeCancel, TInv, TypeOK
<1>8. CASE MetricsTick
  <2>1. Judge
    BY <1>8 DEF MetricsTick
  <2>2. TypeOK' /\ Configured'
    BY <1>8, <2>1 DEF MetricsTick, InLoop, Judge, TypeOK
  <2> QED
    BY <2>1, <2>2, JudgeKeepsTypes DEF TInv
<1>9. CASE Finish
  <2>1. Judge
    BY <1>9 DEF Finish
  <2>2. TypeOK' /\ Configured'
    BY <1>9, <2>1 DEF Finish, Judge, TypeOK
  <2> QED
    BY <2>1, <2>2, JudgeKeepsTypes DEF TInv
<1>10. CASE Launch
  BY <1>10, DetectorIdle DEF Launch, TInv, TypeOK
<1>11. CASE Skip
  BY <1>11, DetectorIdle DEF Skip, TInv, TypeOK
<1>12. CASE Generate
  <2>1. UNCHANGED <<asked, cfg, phase, clockVars, left, cancelled, detectorVars,
                    launched, short, aborted>>
    BY <1>12 DEF Generate
  <2>2. fresh' \in Nat
    BY <1>12 DEF Generate, TypeOK
  <2>3. CASE Rows(cfg) = <<>>
    BY <1>12, <2>1, <2>2, <2>3, DetectorIdle DEF Generate, TInv, TypeOK
  <2>4. CASE Rows(cfg) # <<>>
    <3>1. rowIdx' = rowIdx + 1 /\ used' = [used EXCEPT ![Row(rowIdx)] = @ + 1]
      BY <1>12, <2>4 DEF Generate
    <3>2. \/ calling' = calling + 1 /\ UNCHANGED <<success, errors, slowest, troubled>>
          \/ /\ errors' = errors + 1 /\ troubled' = TRUE
             /\ UNCHANGED <<success, slowest, calling>>
      BY <1>12, <2>4 DEF Generate, Fail
    <3>3. used' \in [DOMAIN Rows(asked) -> Nat]
      <4> DEFINE D == DOMAIN Rows(asked)
                 row == Row(rowIdx)
      <4>1. used \in [D -> Nat] /\ used' = [used EXCEPT ![row] = used[row] + 1]
        BY <3>1 DEF TypeOK
      <4> HIDE DEF D, row
      <4>2. used' \in [D -> Nat]
        BY <4>1, CountedUp
      <4> QED
        BY <4>2 DEF D
    <3>4. calling' \in Nat /\ errors' \in Nat /\ rowIdx' \in Nat
      BY <3>1, <3>2 DEF TypeOK
    <3>6. troubled' \in BOOLEAN
      BY <3>2 DEF TypeOK
    <3>5. UNCHANGED <<success, slowest>>
      BY <3>2
    <3> QED
      BY <2>1, <2>2, <3>3, <3>4, <3>5, <3>6, DetectorIdle DEF TInv, TypeOK
  <2> QED
    BY <2>3, <2>4
<1>13. CASE FailByItself
  BY <1>13, DetectorIdle DEF FailByItself, Fail, TInv, TypeOK
<1>14. CASE Abort
  BY <1>14, DetectorIdle DEF Abort, Fail, TInv, TypeOK
<1>15. ASSUME NEW latency \in Latencies, Succeed(latency) PROVE TInv'
  <2>1. latency \in Nat
    BY LoadTestAssumption
  <2>2. slowest' \in Nat
    BY <1>15, <2>1, LargerOfTwo DEF Succeed, TypeOK
  <2> QED
    BY <1>15, <2>2, DetectorIdle DEF Succeed, TInv, TypeOK
<1>16. CASE UNCHANGED vars
  BY <1>16, DetectorIdle DEF vars, TInv, TypeOK
<1> QED
  BY <1>1, <1>2, <1>3, <1>4, <1>5, <1>6, <1>7, <1>8, <1>9, <1>10, <1>11, <1>12,
     <1>13, <1>14, <1>15, <1>16 DEF Next

(* Type correctness, of the detector inside the test as well: rates and    *)
(* counts stay natural numbers, whatever profile is asked for.             *)
THEOREM TypeCorrect == Spec => [](TypeOK /\ Detector!TypeOK)
<1>1. TInv => TypeOK /\ Detector!TypeOK
  BY DEF TInv
<1> QED
  BY <1>1, InitTyped, StepTyped, PTL DEF Spec

-----------------------------------------------------------------------------
(* The strengthening VerdictHasCause needs: until something goes wrong, an *)
(* interval has no errors and the latency of a healthy target, and the     *)
(* baseline is at least the least latency of one.                          *)
Untroubled ==
  /\ errors = 0
  /\ slowest = 0 \/ Healthy(slowest)
  /\ Fast * baselineCount <= baselineSum
  /\ ~result.detected

CInv ==
  /\ aborted => cancelled
  /\ ~troubled /\ ~aborted => Untroubled

(* A healthy interval is not degraded, whatever baseline came before: its  *)
(* P99 is within 2.5 of the least latency, which is within the mean.       *)
LEMMA HealthyNotDegraded ==
  ASSUME NEW s \in Intervals, NEW sum \in Nat, NEW count \in Nat,
         s.errors = 0, s.p99 = 0 \/ Healthy(s.p99), Fast * count <= sum
  PROVE  ~Detector!Degraded(s, sum, count)
<1>1. s.p99 \in Nat /\ s.success \in Nat /\ Fast \in Nat
  BY LoadTestAssumption DEF Intervals
<1>2. ~Detector!ErrorsAbove(s)
  BY <1>1 DEF Detector!ErrorsAbove, Detector!Total
<1>3. ~Detector!P99Above(s, sum, count)
  <2>1. 2 * s.p99 <= 5 * Fast
    BY <1>1 DEF Healthy
  <2>2. count * (2 * s.p99) <= count * (5 * Fast)
    BY <1>1, <2>1, ProductMonotone
  <2>3. count * (5 * Fast) = 5 * (Fast * count)
    BY <1>1
  <2>4. 2 * count * s.p99 = count * (2 * s.p99)
    BY <1>1
  <2>5. Fast * count \in Nat /\ 2 * count * s.p99 \in Nat
    BY <1>1
  <2> QED
    BY <2>2, <2>3, <2>4, <2>5 DEF Detector!P99Above
<1> QED
  BY <1>2, <1>3 DEF Detector!Degraded

LEMMA JudgeKeepsUntroubled ==
  ASSUME TypeOK, Detector!TypeOK, Untroubled, Judge
  PROVE  Untroubled'
<1> DEFINE s == [rps |-> success + errors, p99 |-> slowest,
                 success |-> success, errors |-> errors]
<1>1. s \in Intervals /\ s.errors = 0 /\ (s.p99 = 0 \/ Healthy(s.p99))
  BY DEF TypeOK, Intervals, Untroubled
<1>2. Detector!Analyze(s) /\ errors' = 0 /\ slowest' = 0
  BY DEF Judge
<1> HIDE DEF s
<1>3. baselineSum \in Nat /\ baselineCount \in Nat /\ Fast \in Nat /\ s.p99 \in Nat
  <2>1. BaselineWindow \in Nat /\ Fast \in Nat
    BY LoadTestAssumption
  <2>2. baselineSum \in Nat /\ baselineCount \in Nat
    BY <2>1 DEF Detector!TypeOK
  <2>3. s.p99 \in Nat
    BY <1>1 DEF Intervals
  <2> QED
    BY <2>1, <2>2, <2>3
<1>4. Fast * baselineCount <= baselineSum /\ ~result.detected
  BY DEF Untroubled
<1>5. ~Detector!Degraded(s, baselineSum, baselineCount)
  BY <1>1, <1>3, <1>4, HealthyNotDegraded
<1>6. ASSUME Detector!RaiseMaxStable(s) PROVE ~result'.detected
  BY <1>4, <1>6 DEF Detector!RaiseMaxStable, Detector!TypeOK
<1>7. CASE Detector!Silent(s) \/ Detector!AlreadyDetected(s)
  BY <1>2, <1>4, <1>7 DEF Detector!Silent, Detector!AlreadyDetected, Untroubled
<1>8. CASE Detector!CollectBaseline(s)
  <2>1. ~result'.detected
    BY <1>6, <1>8 DEF Detector!CollectBaseline
  <2>2. Fast * baselineCount' <= baselineSum'
    <3>1. CASE s.p99 > 0
      <4>1. Fast <= s.p99
        BY <1>1, <3>1 DEF Healthy
      <4>2. baselineSum' = baselineSum + s.p99 /\ baselineCount' = baselineCount + 1
        BY <1>8, <3>1 DEF Detector!CollectBaseline
      <4>3. Fast * (baselineCount + 1) = Fast * baselineCount + Fast
        BY <1>3
      <4>4. Fast * baselineCount \in Nat
        BY <1>3
      <4> QED
        BY <1>3, <1>4, <4>1, <4>2, <4>3, <4>4
    <3>2. CASE ~(s.p99 > 0)
      BY <1>4, <1>8, <3>2 DEF Detector!CollectBaseline
    <3> QED
      BY <3>1, <3>2
  <2> QED
    BY <1>2, <2>1, <2>2 DEF Untroubled
<1>9. CASE Detector!StillStable(s)
  <2>1. ~result'.detected
    BY <1>6, <1>9 DEF Detector!StillStable
  <2> QED
    BY <1>2, <1>4, <1>9, <2>1 DEF Detector!StillStable, Detector!Judging, Untroubled
<1>10. CASE Detector!Detect(s)
  BY <1>5, <1>10 DEF Detector!Detect
<1> QED
  BY <1>2, <1>7, <1>8, <1>9, <1>10 DEF Detector!Analyze

LEMMA InitCause == Init => CInv
<1> SUFFICES ASSUME Init PROVE CInv
  OBVIOUS
<1>1. /\ errors = 0 /\ slowest = 0 /\ aborted = FALSE
      /\ Detector!Init
  BY Zenon DEF Init
<1>2. baselineCount = 0 /\ baselineSum = 0 /\ ~result.detected
  BY <1>1 DEF Detector!Init, Detector!NoResult
<1>3. Fast * 0 = 0
  <2>1. Fast \in Nat
    BY LoadTestAssumption
  <2> QED
    BY <2>1
<1> QED
  BY <1>1, <1>2, <1>3 DEF CInv, Untroubled

(* Only Judge, the recording of a call and the histories matter.           *)
LEMMA StepCause == TInv /\ CInv /\ [Next]_vars => CInv'
<1> SUFFICES ASSUME TInv, CInv, [Next]_vars PROVE CInv'
  OBVIOUS
<1> USE DEF clockVars, requestVars, intervalVars, detectorVars
<1>1. ASSUME UNCHANGED <<intervalVars, detectorVars, troubled, aborted>>,
             cancelled => cancelled'
      PROVE  CInv'
  BY <1>1 DEF CInv, Untroubled
<1>2. CASE Refuse \/ Accept \/ Advance \/ DispatchTick \/ DurationReached \/ SeeCancel
           \/ Launch \/ Skip \/ UNCHANGED vars
  BY <1>1, <1>2 DEF Refuse, Accept, Advance, DispatchTick, DurationReached, SeeCancel,
                    Launch, Skip, vars
<1>3. CASE Stop
  BY <1>1, <1>3 DEF Stop
<1>4. CASE MetricsTick \/ Finish
  <2>1. Judge /\ UNCHANGED <<troubled, aborted, cancelled>>
    BY <1>4 DEF MetricsTick, Finish
  <2> QED
    BY <2>1, JudgeKeepsUntroubled DEF CInv, TInv
<1>5. CASE Generate
  <2>1. UNCHANGED <<detectorVars, aborted, cancelled>>
    BY <1>5 DEF Generate
  <2>2. troubled' = TRUE \/ UNCHANGED <<intervalVars, troubled>>
    BY <1>5 DEF Generate
  <2> QED
    BY <2>1, <2>2, <1>1 DEF CInv
<1>6. CASE FailByItself \/ Abort
  BY <1>6 DEF FailByItself, Abort, CInv
<1>7. ASSUME NEW latency \in Latencies, Succeed(latency) PROVE CInv'
  <2>1. latency \in Nat
    BY LoadTestAssumption
  <2>2. slowest' \in {slowest, latency} /\ slowest' >= latency
    BY <1>7, <2>1, LargerOfTwo DEF Succeed, TInv, TypeOK
  <2>3. /\ UNCHANGED <<errors, detectorVars, aborted, cancelled>>
        /\ ~troubled' => ~troubled /\ Healthy(latency)
    BY <1>7 DEF Succeed
  <2>4. CASE troubled' \/ aborted'
    BY <2>3, <2>4 DEF CInv
  <2>5. CASE ~troubled' /\ ~aborted'
    <3>1. Untroubled /\ Healthy(latency)
      BY <2>3, <2>5 DEF CInv
    <3>2. slowest' = 0 \/ Healthy(slowest')
      BY <2>2, <3>1 DEF Untroubled
    <3> QED
      BY <2>3, <3>1, <3>2 DEF CInv, Untroubled
  <2> QED
    BY <2>4, <2>5
<1> QED
  BY <1>2, <1>3, <1>4, <1>5, <1>6, <1>7 DEF Next

(* Whatever is asked for, however late the loop is and however long the    *)
(* test takes, degradation is reported only for a cause.                   *)
THEOREM VerdictIsCaused == Spec => []VerdictHasCause
<1>1. CInv => VerdictHasCause
  BY DEF CInv, Untroubled, VerdictHasCause
<1> QED
  BY <1>1, InitTyped, StepTyped, InitCause, StepCause, PTL DEF Spec

-----------------------------------------------------------------------------
(* The rows.  Row i has been used once in every full round, and once more  *)
(* in the round under way when it has come up in it already.               *)
RowCount == Len(Rows(asked))

Turns(n, u, k) ==
  \E q \in 0..k, r \in 0..(n - 1) :
     /\ k = q * n + r
     /\ \A i \in 1..n : u[i] = q + (IF i <= r THEN 1 ELSE 0)

RowInv ==
  /\ phase = "over" => fresh = 0
  /\ RowCount > 0 =>
       /\ launched = rowIdx + fresh
       /\ SumOver(used, 1..RowCount) = rowIdx
       /\ Turns(RowCount, used, rowIdx)

LEMMA RowsAsked ==
  ASSUME Configured
  PROVE  /\ Rows(cfg) = Rows(asked)
         /\ Rows(asked) \in Seq(BOOLEAN)
         /\ RowCount \in Nat
         /\ DOMAIN Rows(asked) = 1..RowCount
         /\ Rows(asked) = <<>> <=> RowCount = 0
<1>1. Rows(cfg) = Rows(asked)
  BY DEF Configured, Rows
<1>2. asked.csv \in Seq(BOOLEAN)
  BY LoadTestAssumption DEF Configured
<1>3. Rows(asked) \in Seq(BOOLEAN)
  <2>1. ASSUME NEW s \in Seq(BOOLEAN), s # <<>>
        PROVE  Tail(s) \in Seq(BOOLEAN)
    BY <2>1
  <2>2. <<>> \in Seq(BOOLEAN)
    OBVIOUS
  <2> QED
    BY <1>2, <2>1, <2>2, Zenon DEF Rows
<1> QED
  BY <1>1, <1>3 DEF RowCount

(* The remainder of a division is unique.                                  *)
LEMMA Remainder ==
  ASSUME NEW n \in Nat \ {0}, NEW q \in Nat, NEW r \in 0..(n - 1)
  PROVE  (q * n + r) % n = r
<1> DEFINE a == q * n + r
           d == a \div n
           m == a % n
<1>1. a \in Nat
  OBVIOUS
<1>2. d \in Nat /\ m \in 0..(n - 1) /\ a = n * d + m
  BY <1>1
<1>3. n * q + r = n * d + m
  BY <1>2
<1> HIDE DEF a, d, m
<1>4. ~(q < d)
  <2> SUFFICES ASSUME q < d PROVE FALSE
    OBVIOUS
  <2>1. n * (q + 1) <= n * d
    BY <1>2, ProductMonotone
  <2>2. n * (q + 1) = n * q + n /\ n * q \in Nat /\ n * d \in Nat
    BY <1>2
  <2> QED
    BY <1>2, <1>3, <2>1, <2>2
<1>5. ~(d < q)
  <2> SUFFICES ASSUME d < q PROVE FALSE
    OBVIOUS
  <2>1. n * (d + 1) <= n * q
    BY <1>2, ProductMonotone
  <2>2. n * (d + 1) = n * d + n /\ n * q \in Nat /\ n * d \in Nat
    BY <1>2
  <2> QED
    BY <1>2, <1>3, <2>1, <2>2
<1>6. q = d
  BY <1>2, <1>4, <1>5
<1>7. n * q \in Nat
  OBVIOUS
<1>8. m = r
  BY <1>2, <1>3, <1>6, <1>7
<1> QED
  BY <1>8 DEF a, m

(* A quotient is what fits, and one more does not.                         *)
LEMMA Quotient ==
  ASSUME NEW a \in Nat, NEW n \in Nat \ {0}
  PROVE  a \div n \in Nat /\ (a \div n) * n <= a /\ a <= (a \div n + 1) * n
<1> DEFINE d == a \div n
           m == a % n
<1>1. d \in Nat /\ m \in 0..(n - 1) /\ a = n * d + m
  OBVIOUS
<1> HIDE DEF d, m
<1>2. n * d \in Nat /\ d * n = n * d /\ (d + 1) * n = n * d + n
  BY <1>1
<1>3. d \in Nat /\ d * n <= a /\ a <= (d + 1) * n
  BY <1>1, <1>2
<1> QED
  BY <1>3 DEF d

LEMMA InitRows == Init => RowInv
<1> SUFFICES ASSUME Init, RowCount > 0 PROVE RowInv
  BY DEF Init, RowInv
<1>1. /\ phase = "asked" /\ fresh = 0 /\ rowIdx = 0 /\ launched = 0
      /\ used = [i \in DOMAIN Rows(asked) |-> 0]
  BY Zenon DEF Init
<1>2. RowCount \in Nat /\ DOMAIN Rows(asked) = 1..RowCount
  BY InitTyped, RowsAsked DEF TInv
<1>3. \A i \in 1..RowCount : used[i] = 0
  BY <1>1, <1>2
<1>4. SumOver(used, 1..RowCount) = 0
  <2>1. IsFiniteSet(1..RowCount)
    BY <1>2, FS_Interval
  <2> QED
    BY <1>3, <2>1, SumZero
<1>5. Turns(RowCount, used, rowIdx)
  <2>1. 0 \in 0..rowIdx /\ 0 \in 0..(RowCount - 1) /\ rowIdx = 0 * RowCount + 0
    BY <1>1, <1>2
  <2>2. \A i \in 1..RowCount : used[i] = 0 + (IF i <= 0 THEN 1 ELSE 0)
    BY <1>2, <1>3
  <2> QED
    BY <2>1, <2>2 DEF Turns
<1> QED
  BY <1>1, <1>4, <1>5 DEF RowInv

(* A request takes the row whose turn it is; with the last row the round   *)
(* is full.                                                                *)
LEMMA TurnTaken ==
  ASSUME NEW n \in Nat \ {0}, NEW k \in Nat, NEW u, Turns(n, u, k),
         NEW v, \A i \in 1..n : v[i] = u[i] + (IF i = (k % n) + 1 THEN 1 ELSE 0)
  PROVE  Turns(n, v, k + 1)
<1> PICK q \in 0..k, r \in 0..(n - 1) :
       /\ k = q * n + r
       /\ \A i \in 1..n : u[i] = q + (IF i <= r THEN 1 ELSE 0)
  BY DEF Turns
<1> q \in Nat /\ r \in Nat
  OBVIOUS
<1>1. k % n = r
  BY Remainder
<1>2. u[r + 1] = q
  OBVIOUS
<1>4. \A i \in 1..n : v[i] = IF i = r + 1 THEN q + 1 ELSE u[i]
  BY <1>1, <1>2
<1>5. n * 1 <= n * (q + 1) /\ q <= q * n
  <2>1. q * 1 <= q * n /\ q * 1 = q
    BY ProductMonotone
  <2>2. n * 1 <= n * (q + 1)
    BY ProductMonotone
  <2> QED
    BY <2>1, <2>2
<1>6. CASE r + 1 < n
  <2>1. q \in 0..(k + 1) /\ r + 1 \in 0..(n - 1) /\ k + 1 = q * n + (r + 1)
    <3>1. q * n \in Nat
      OBVIOUS
    <3> QED
      BY <1>5, <1>6, <3>1
  <2>2. \A i \in 1..n : v[i] = q + (IF i <= r + 1 THEN 1 ELSE 0)
    BY <1>4
  <2> QED
    BY <2>1, <2>2 DEF Turns
<1>7. CASE r + 1 = n
  <2>1. q + 1 \in 0..(k + 1) /\ 0 \in 0..(n - 1) /\ k + 1 = (q + 1) * n + 0
    <3>1. q * n \in Nat /\ (q + 1) * n = q * n + n
      OBVIOUS
    <3> QED
      BY <1>5, <1>7, <3>1
  <2>2. \A i \in 1..n : v[i] = (q + 1) + (IF i <= 0 THEN 1 ELSE 0)
    BY <1>4, <1>7
  <2> QED
    BY <2>1, <2>2 DEF Turns
<1> QED
  BY <1>6, <1>7

LEMMA GenerateRows ==
  ASSUME TInv, RowInv, Generate, RowCount > 0
  PROVE  RowInv'
<1>1. TypeOK /\ Configured
  BY DEF TInv
<1> DEFINE n == RowCount
<1>2. /\ Rows(cfg) = Rows(asked) /\ n \in Nat \ {0}
      /\ used \in [1..n -> Nat] /\ Rows(cfg) # <<>>
      /\ Len(Rows(cfg)) = n
  BY <1>1, RowsAsked DEF TypeOK, RowCount
<1>3. /\ rowIdx' = rowIdx + 1 /\ fresh' = fresh - 1 /\ fresh > 0
      /\ used' = [used EXCEPT ![Row(rowIdx)] = @ + 1]
      /\ UNCHANGED <<asked, phase, launched>>
  BY <1>2 DEF Generate
<1>4. used' = [used EXCEPT ![(rowIdx % n) + 1] = @ + 1]
  BY <1>2, <1>3 DEF Row
<1>5. /\ launched = rowIdx + fresh
      /\ SumOver(used, 1..n) = rowIdx
      /\ rowIdx \in Nat /\ fresh \in Nat
      /\ phase = "over" => fresh = 0
  BY <1>1 DEF RowInv, TypeOK
<1>6. Turns(n, used, rowIdx)
  BY DEF RowInv
<1>7. RowCount' = n
  BY <1>3 DEF RowCount
<1> HIDE DEF n
<1>10. \A i \in 1..n : used'[i] = used[i] + (IF i = (rowIdx % n) + 1 THEN 1 ELSE 0)
  BY <1>2, <1>4, <1>5
<1>8. Turns(n, used', rowIdx + 1)
  BY <1>2, <1>5, <1>6, <1>10, TurnTaken
<1>9. SumOver(used', 1..n) = rowIdx + 1
  <2> DEFINE y == (rowIdx % n) + 1
             S == 1..n
  <2>1. y \in S
    BY <1>2, <1>5
  <2>5. IsFiniteSet(S)
    BY <1>2, FS_Interval
  <2> HIDE DEF y, S
  <2>2. used \in [S -> Nat] /\ used' = [used EXCEPT ![y] = used[y] + 1]
    BY <1>2, <1>4 DEF y, S
  <2>3. /\ \A x \in S : used[x] \in Nat
        /\ \A x \in S : used'[x] \in Nat
        /\ \A x \in S \ {y} : used'[x] = used[x]
        /\ used'[y] = used[y] + 1 /\ used[y] \in Nat
    BY <2>1, <2>2
  <2>4. SumOver(used', S) = SumOver(used, S) + used'[y] - used[y]
    BY <2>1, <2>3, <2>5, SumUpdate
  <2> QED
    BY <1>5, <2>3, <2>4 DEF S
<1> QED
  BY <1>3, <1>5, <1>7, <1>8, <1>9 DEF RowInv

LEMMA StepRows == TInv /\ RowInv /\ [Next]_vars => RowInv'
<1> SUFFICES ASSUME TInv, RowInv, [Next]_vars PROVE RowInv'
  OBVIOUS
<1> USE DEF clockVars, requestVars
<1>1. ASSUME UNCHANGED <<asked, used, rowIdx>>,
             launched = rowIdx + fresh => launched' = rowIdx + fresh',
             phase' = "over" => fresh' = 0
      PROVE  RowInv'
  <2>1. RowCount' = RowCount /\ rowIdx' = rowIdx
    BY <1>1 DEF RowCount
  <2>2. RowCount > 0 => launched' = rowIdx' + fresh'
    BY <1>1, <2>1 DEF RowInv
  <2> QED
    BY <1>1, <2>1, <2>2 DEF RowInv
<1>2. launched \in Nat /\ fresh \in Nat /\ calling \in Nat
  BY DEF TInv, TypeOK
<1>3. phase = "over" => fresh = 0
  BY DEF RowInv
<1>4. CASE Refuse \/ Accept \/ Advance \/ Stop \/ DispatchTick \/ DurationReached
           \/ SeeCancel \/ Skip \/ MetricsTick \/ FailByItself \/ Abort \/ UNCHANGED vars
  BY <1>1, <1>2, <1>3, <1>4 DEF Refuse, Accept, Advance, Stop, DispatchTick, InLoop,
     DurationReached, SeeCancel, Skip, MetricsTick, FailByItself, Abort, vars
<1>5. ASSUME NEW latency \in Latencies, Succeed(latency) PROVE RowInv'
  BY <1>1, <1>2, <1>3, <1>5 DEF Succeed
<1>6. CASE Finish
  BY <1>1, <1>2, <1>6 DEF Finish
<1>7. CASE Launch
  <2>1. phase = "loop" /\ rowIdx \in Nat
    BY <1>7 DEF Launch, TInv, TypeOK, Configured
  <2> QED
    BY <1>1, <1>2, <1>7, <2>1 DEF Launch
<1>8. CASE Generate
  <2>1. CASE RowCount > 0
    BY <1>8, <2>1, GenerateRows
  <2>2. CASE ~(RowCount > 0)
    <3>1. UNCHANGED <<asked, phase>> /\ fresh > 0
      BY <1>8 DEF Generate
    <3>2. RowCount' = RowCount
      BY <3>1 DEF RowCount
    <3>3. phase' # "over"
      BY <1>3, <3>1
    <3> QED
      BY <2>2, <3>2, <3>3 DEF RowInv
  <2> QED
    BY <2>1, <2>2
<1> QED
  BY <1>4, <1>5, <1>6, <1>7, <1>8 DEF Next

LEMMA RowsGiveTurns == TInv /\ RowInv => RowsInTurn
<1> SUFFICES ASSUME TInv, RowInv PROVE RowsInTurn
  OBVIOUS
<1>1. /\ RowCount \in Nat /\ used \in [1..RowCount -> Nat]
      /\ DOMAIN used = 1..RowCount
  BY RowsAsked DEF TInv, TypeOK
<1>2. CASE RowCount = 0
  <2>1. used = <<>>
    BY <1>1, <1>2
  <2>2. DOMAIN used = {}
    BY <1>1, <1>2
  <2> QED
    BY <2>1, <2>2 DEF RowsInTurn
<1>3. CASE RowCount > 0
  <2>1. PICK q \in 0..rowIdx, r \in 0..(RowCount - 1) :
          \A i \in 1..RowCount : used[i] = q + (IF i <= r THEN 1 ELSE 0)
    BY <1>3 DEF RowInv, Turns
  <2>2. rowIdx \in Nat /\ launched \in Nat /\ fresh \in Nat
    BY DEF TInv, TypeOK
  <2>3. \A i, j \in DOMAIN used : i < j => used[i] - used[j] \in {0, 1}
    BY <1>1, <2>1, <2>2
  <2>4. phase = "over" => SumOver(used, DOMAIN used) = launched
    BY <1>1, <1>3, <2>2 DEF RowInv
  <2> QED
    BY <2>3, <2>4, Zenon DEF RowsInTurn, SumOver
<1> QED
  BY <1>1, <1>2, <1>3

(* The rows of the CSV are used in turn (rowIdx is a counter, and the row  *)
(* its remainder): however many there are, and in whatever order requests  *)
(* get to the generator, no row is ahead of another by more than one, and  *)
(* every request of a finished test took one.                              *)
THEOREM RowsTakeTurns == Spec => []RowsInTurn
BY InitTyped, StepTyped, InitRows, StepRows, RowsGiveTurns, PTL DEF Spec

-----------------------------------------------------------------------------
(* The pace.  The load due by tick m, from the configuration as posted.    *)
Start == IF asked.start > 0 THEN asked.start ELSE DefaultRPS
Last == (IF asked.duration > 0 THEN asked.duration ELSE DefaultDuration) * TicksPerSecond
Unit == Last * TicksPerSecond
RateAt(t) ==
  IF asked.profile = "ramping"
    THEN Start * (Last - t) + asked.end * t
    ELSE Start * Last
Rates == [t \in 1..Last |-> Max({0, RateAt(t)})]
Due(m) == SumOver(Rates, 1..m)

(* The ticks whose load may have been launched: a tick that waits for the  *)
(* loop, or was dropped because one waits, has brought none yet.           *)
Passed == IF now <= Last THEN now ELSE Last
Paid == IF tick \in 1..Last THEN Passed - 1 ELSE Passed

SameLoad ==
  /\ cfg.start = Start /\ cfg.end = asked.end /\ Ticks(cfg) = Last
  /\ cfg.profile = "ramping" <=> asked.profile = "ramping"

NeverAhead == (launched + left) * Unit <= Due(Paid)

(* Without a missed tick or a skipped request every tick is dispatched at  *)
(* its own time, and loses the fraction of a request at most.              *)
NotBehind ==
  \/ /\ tick = 0 /\ now <= Last
     /\ Due(now) <= (launched + left + now) * Unit
  \/ /\ tick = now /\ now > 0 /\ now - 1 <= Last
     /\ Due(now - 1) <= (launched + left + now - 1) * Unit

PaceInv ==
  /\ phase \in {"asked", "refused"} => now = 0 /\ tick = 0 /\ left = 0 /\ launched = 0
  /\ phase \in {"loop", "drain", "over"} => SameLoad /\ NeverAhead
  /\ phase = "loop" /\ ~short => NotBehind

LEMMA Settings ==
  ASSUME Configured
  PROVE  /\ Start \in Nat \ {0} /\ Last \in Nat \ {0} /\ Unit \in Nat \ {0}
         /\ asked.end \in Int
<1>1. /\ asked.start \in Int /\ asked.end \in Int /\ asked.duration \in Int
      /\ DefaultRPS \in Nat \ {0} /\ DefaultDuration \in Nat \ {0}
      /\ TicksPerSecond \in Nat \ {0}
  BY LoadTestAssumption DEF Configured
<1>2. Start \in Nat \ {0}
  BY <1>1 DEF Start
<1>3. (IF asked.duration > 0 THEN asked.duration ELSE DefaultDuration) \in Nat \ {0}
  BY <1>1
<1>4. Last \in Nat \ {0}
  BY <1>1, <1>3, ProductPositive DEF Last
<1> QED
  BY <1>1, <1>2, <1>4, ProductPositive DEF Unit

(* A rate below 0 asks for nothing.                                        *)
LEMMA NotBelowZero ==
  ASSUME NEW x \in Int
  PROVE  Max({0, x}) = IF x > 0 THEN x ELSE 0
<1>1. CASE x > 0
  <2>1. x \in {0, x} /\ \A y \in {0, x} : x >= y
    BY <1>1
  <2>2. \A z \in {0, x} : (\A y \in {0, x} : z >= y) => z = x
    BY <1>1
  <2> QED
    BY <1>1, <2>1, <2>2 DEF Max
<1>2. CASE ~(x > 0)
  <2>1. 0 \in {0, x} /\ \A y \in {0, x} : 0 >= y
    BY <1>2
  <2>2. \A z \in {0, x} : (\A y \in {0, x} : z >= y) => z = 0
    BY <1>2
  <2> QED
    BY <1>2, <2>1, <2>2 DEF Max
<1> QED
  BY <1>1, <1>2

LEMMA RatesNat ==
  ASSUME Configured, NEW t \in 1..Last
  PROVE  RateAt(t) \in Int /\ Rates[t] \in Nat /\ Rates[t] = Max({0, RateAt(t)})
<1>1. RateAt(t) \in Int
  BY Settings DEF RateAt
<1>2. Max({0, RateAt(t)}) \in Nat
  BY <1>1, NotBelowZero
<1> QED
  BY <1>1, <1>2 DEF Rates

LEMMA DueNat ==
  ASSUME Configured, NEW m \in 0..Last
  PROVE  Due(m) \in Nat
<1>1. Last \in Nat
  BY Settings
<1>2. IsFiniteSet(1..m) /\ 1..m \subseteq 1..Last
  BY <1>1, FS_Interval
<1>3. \A t \in 1..m : Rates[t] \in Nat
  BY <1>2, RatesNat
<1> QED
  BY <1>2, <1>3, SumNat DEF Due

LEMMA DueNext ==
  ASSUME Configured, NEW m \in 1..Last
  PROVE  Due(m) = Due(m - 1) + Rates[m] /\ Due(m - 1) \in Nat /\ Rates[m] \in Nat
<1>1. Last \in Nat /\ m \in Nat
  BY Settings
<1>2. IsFiniteSet(1..m)
  BY <1>1, FS_Interval
<1>3. 1..m \subseteq 1..Last /\ m \in 1..m /\ (1..m) \ {m} = 1..(m - 1)
  BY <1>1
<1>4. \A t \in 1..m : Rates[t] \in Nat
  BY <1>3, RatesNat
<1>5. SumOver(Rates, 1..m) = Rates[m] + SumOver(Rates, (1..m) \ {m})
  BY <1>2, <1>3, <1>4, SumAny
<1>6. Due(m - 1) \in Nat
  BY <1>1, DueNat
<1>7. Due(m) = Rates[m] + Due(m - 1)
  BY <1>3, <1>5, Zenon DEF Due
<1> QED
  BY <1>3, <1>4, <1>6, <1>7

LEMMA DueZero == Due(0) = 0
<1>1. 1..0 = {}
  OBVIOUS
<1> QED
  BY <1>1, SumEmpty DEF Due

(* The rate of a tick is the rate that was asked for at that time.         *)
LEMMA Ramp ==
  ASSUME NEW s \in Int, NEW e \in Int, NEW l \in Int, NEW p \in Int
  PROVE  s * l + (e - s) * p = s * (l - p) + e * p
<1>1. (e - s) * p = e * p - s * p /\ s * (l - p) = s * l - s * p
  OBVIOUS
<1>2. s * l \in Int /\ e * p \in Int /\ s * p \in Int
  OBVIOUS
<1> QED
  BY <1>1, <1>2

LEMMA PassedIsMin ==
  ASSUME TInv
  PROVE  Min({now, Last}) = Passed
<1>1. now \in Nat /\ Last \in Nat
  BY Settings DEF TInv, TypeOK
<1>2. CASE now <= Last
  <2>1. now \in {now, Last} /\ \A y \in {now, Last} : now <= y
    BY <1>1, <1>2
  <2>2. \A z \in {now, Last} : (\A y \in {now, Last} : z <= y) => z = now
    BY <1>1, <1>2
  <2> QED
    BY <1>2, <2>1, <2>2 DEF Min, Passed
<1>3. CASE ~(now <= Last)
  <2>1. Last \in {now, Last} /\ \A y \in {now, Last} : Last <= y
    BY <1>1, <1>3
  <2>2. \A z \in {now, Last} : (\A y \in {now, Last} : z <= y) => z = Last
    BY <1>1, <1>3
  <2> QED
    BY <1>3, <2>1, <2>2 DEF Min, Passed
<1> QED
  BY <1>2, <1>3

LEMMA RateOfTick ==
  ASSUME TInv, SameLoad
  PROVE  CalculateRPS(now) = RateAt(Passed) /\ Scale = Unit
<1>1. Ticks(cfg) = Last /\ cfg.start = Start /\ cfg.end = asked.end
      /\ (cfg.profile = "ramping" <=> asked.profile = "ramping")
  BY DEF SameLoad
<1>2. Start \in Int /\ asked.end \in Int /\ Last \in Int /\ Passed \in Int
  BY Settings DEF TInv, TypeOK, Passed
<1>3. Start * Last + (asked.end - Start) * Passed = Start * (Last - Passed) + asked.end * Passed
  BY <1>2, Ramp
<1>4. Min({now, Ticks(cfg)}) = Passed
  BY <1>1, PassedIsMin
<1>5. CalculateRPS(now) = IF asked.profile = "ramping"
                            THEN Start * Last + (asked.end - Start) * Passed
                            ELSE Start * Last
  BY <1>1, <1>4, Zenon DEF CalculateRPS
<1> QED
  BY <1>1, <1>3, <1>5, Zenon DEF RateAt, Scale, Unit

(* The requests of a tick fall short of its rate by less than one.         *)
LEMMA CountOfTick ==
  ASSUME TInv, SameLoad, now > 0
  PROVE  /\ Count(CalculateRPS(now)) \in Nat
         /\ Passed \in 1..Last
         /\ Count(CalculateRPS(now)) * Unit <= Rates[Passed]
         /\ Rates[Passed] <= (Count(CalculateRPS(now)) + 1) * Unit
<1>1. CalculateRPS(now) = RateAt(Passed) /\ Scale = Unit
  BY RateOfTick
<1>2. Configured /\ now \in Nat /\ Last \in Nat \ {0} /\ Unit \in Nat \ {0}
  BY Settings DEF TInv, TypeOK
<1>3. Passed \in 1..Last
  BY <1>2 DEF Passed
<1> DEFINE r == RateAt(Passed)
           c == IF r <= 0 THEN 0 ELSE r \div Unit
<1>4. r \in Int /\ Rates[Passed] = IF r > 0 THEN r ELSE 0
  BY <1>2, <1>3, RatesNat, NotBelowZero
<1>5. Count(CalculateRPS(now)) = c
  BY <1>1 DEF Count
<1> HIDE DEF r
<1>6. CASE r <= 0
  <2>1. c = 0 /\ Rates[Passed] = 0
    BY <1>4, <1>6
  <2>2. 0 * Unit = 0 /\ (0 + 1) * Unit = Unit
    BY <1>2
  <2> QED
    BY <1>2, <1>3, <1>5, <2>1, <2>2
<1>7. CASE r > 0
  <2>1. c = r \div Unit /\ Rates[Passed] = r /\ r \in Nat
    BY <1>4, <1>7
  <2>2. c \in Nat /\ c * Unit <= r /\ r <= (c + 1) * Unit
    BY <1>2, <2>1, Quotient
  <2> QED
    BY <1>3, <1>5, <2>1, <2>2
<1> QED
  BY <1>4, <1>6, <1>7

LEMMA PaidBounds ==
  ASSUME TInv
  PROVE  /\ Passed \in 0..Last /\ Paid \in 0..Last
         /\ tick \in 1..Last => Passed \in 1..Last /\ Paid = Passed - 1
         /\ tick \notin 1..Last => Paid = Passed
<1>1. now \in Nat /\ tick \in 0..now /\ Last \in Nat \ {0}
  BY Settings DEF TInv, TypeOK
<1> QED
  BY <1>1 DEF Passed, Paid

(* What is due only grows.                                                 *)
LEMMA DueGrows ==
  ASSUME Configured, NEW m \in 0..Last, NEW k \in 0..Last, k = m \/ k = m + 1,
         NEW a \in Nat, NEW b \in Nat, b <= a, a * Unit <= Due(m)
  PROVE  b * Unit <= Due(k)
<1>1. Unit \in Nat /\ Last \in Nat
  BY Settings
<1>2. b * Unit <= a * Unit /\ b * Unit \in Nat /\ a * Unit \in Nat
  <2>1. Unit * b <= Unit * a
    BY <1>1, ProductMonotone
  <2> QED
    BY <1>1, <2>1
<1>3. Due(m) \in Nat /\ Due(k) \in Nat
  BY DueNat
<1>4. Due(m) <= Due(k)
  <2>1. CASE k = m
    BY <1>3, <2>1
  <2>2. CASE k = m + 1
    <3>1. k \in 1..Last /\ k - 1 = m
      BY <1>1, <2>2
    <3>2. Due(k) = Due(m) + Rates[k] /\ Rates[k] \in Nat
      BY <3>1, DueNext
    <3> QED
      BY <1>3, <3>2
  <2> QED
    BY <2>1, <2>2
<1> QED
  BY <1>2, <1>3, <1>4

LEMMA SameRequest ==
  ASSUME asked' = asked
  PROVE  /\ Start' = Start /\ Last' = Last /\ Unit' = Unit
         /\ Rates' = Rates
<1>1. Start' = Start /\ Last' = Last
  BY DEF Start, Last
<1>2. Unit' = Unit
  BY <1>1 DEF Unit
<1>3. Rates' = Rates
  BY <1>1 DEF Rates, RateAt
<1> QED
  BY <1>1, <1>2, <1>3

(* Nothing is launched beyond what is left of a tick, and what is due does *)
(* not shrink.                                                             *)
LEMMA NeverAheadKept ==
  ASSUME TInv, NeverAhead, asked' = asked,
         NEW b \in Nat, launched' + left' = b, b <= launched + left,
         Paid' \in 0..Last, Paid' = Paid \/ Paid' = Paid + 1
  PROVE  NeverAhead'
<1>1. Configured /\ launched + left \in Nat /\ Paid \in 0..Last
  BY PaidBounds DEF TInv, TypeOK
<1>2. (launched + left) * Unit <= Due(Paid)
  BY DEF NeverAhead
<1>3. b * Unit <= Due(Paid')
  BY <1>1, <1>2, DueGrows
<1>4. Unit' = Unit /\ Due(Paid)' = Due(Paid')
  BY SameRequest DEF Due
<1> QED
  BY <1>3, <1>4 DEF NeverAhead

LEMMA SamePace ==
  ASSUME SameLoad, asked' = asked, cfg' = cfg
  PROVE  SameLoad'
BY SameRequest DEF SameLoad, Ticks

LEMMA AdvancePace ==
  ASSUME TInv, PaceInv, Advance
  PROVE  PaceInv'
<1>1. /\ Configured /\ phase = "loop" /\ phase' = "loop" /\ asked' = asked /\ cfg' = cfg
      /\ now' = now + 1 /\ tick' = (IF tick = 0 THEN now + 1 ELSE tick)
      /\ launched' = launched /\ left' = left
  BY DEF Advance, TInv
<1>2. now \in Nat /\ tick \in 0..now /\ Last \in Nat \ {0} /\ launched \in Nat /\ left \in Nat
  BY Settings DEF TInv, TypeOK
<1>3. SameLoad /\ NeverAhead /\ (~short => NotBehind)
  BY <1>1 DEF PaceInv
<1>4. Last' = Last /\ Unit' = Unit /\ Rates' = Rates
  BY <1>1, SameRequest
<1>5. Passed' = IF now + 1 <= Last THEN now + 1 ELSE Last
  BY <1>1, <1>4 DEF Passed
<1>6. Paid' \in 0..Last /\ (Paid' = Paid \/ Paid' = Paid + 1)
  <2>1. CASE tick = 0
    <3>1. tick' = now + 1
      BY <1>1, <2>1
    <3>2. Paid' = IF now + 1 \in 1..Last THEN Passed' - 1 ELSE Passed'
      BY <1>4, <3>1 DEF Paid
    <3>3. Paid = Passed
      BY <2>1 DEF Paid
    <3> QED
      BY <1>2, <1>5, <3>2, <3>3 DEF Passed
  <2>2. CASE tick # 0
    <3>1. tick' = tick
      BY <1>1, <2>2
    <3>2. Paid' = IF tick \in 1..Last THEN Passed' - 1 ELSE Passed'
      BY <1>4, <3>1 DEF Paid
    <3> QED
      BY <1>2, <1>5, <2>2, <3>2 DEF Passed, Paid
  <2> QED
    BY <2>1, <2>2
<1>7. NeverAhead'
  <2>1. launched + left \in Nat /\ launched' + left' = launched + left
    BY <1>1, <1>2
  <2> QED
    BY <1>1, <1>2, <1>3, <1>6, <2>1, NeverAheadKept
<1>8. SameLoad'
  BY <1>1, <1>3, SamePace
<1>9. ASSUME ~short' PROVE NotBehind'
  <2>1. ~short /\ tick = 0
    BY <1>9 DEF Advance
  <2>2. now <= Last /\ Due(now) <= (launched + left + now) * Unit
    BY <1>2, <1>3, <2>1 DEF NotBehind
  <2>3. tick' = now + 1 /\ now + 1 - 1 = now /\ launched + left + (now + 1) - 1 = launched + left + now
    BY <1>1, <1>2, <2>1
  <2>4. Due(now - 1)' = Due(now)
    <3>1. ASSUME NEW m, m = now + 1
          PROVE  m - 1 = now
      BY <1>2, <3>1
    <3>2. now' - 1 = now
      BY <1>1, <3>1, SMT
    <3> QED
      BY <1>4, <3>2, Zenon DEF Due
  <2>5. (launched + left + now - 1)' * Unit' = (launched + left + now) * Unit
    BY <1>1, <1>4, <2>3
  <2>6. tick' = now' /\ now' > 0 /\ now' - 1 <= Last'
    BY <1>1, <1>2, <1>4, <2>2, <2>3
  <2> QED
    BY <2>2, <2>4, <2>5, <2>6 DEF NotBehind
<1> QED
  BY <1>1, <1>7, <1>8, <1>9 DEF PaceInv

(* A dispatched tick brings its rate, short of a request at most.          *)
LEMMA DispatchPace ==
  ASSUME TInv, PaceInv, DispatchTick
  PROVE  PaceInv'
<1> DEFINE c == Count(CalculateRPS(now))
<1>1. /\ Configured /\ phase = "loop" /\ phase' = "loop" /\ asked' = asked /\ cfg' = cfg
      /\ now' = now /\ tick' = 0 /\ launched' = launched /\ short' = short
      /\ left = 0 /\ left' = c
  BY DEF DispatchTick, InLoop, TInv
<1>2. SameLoad /\ NeverAhead /\ (~short => NotBehind) /\ Ticks(cfg) = Last
  BY <1>1 DEF PaceInv, SameLoad
<1>3. /\ tick \in 1..Last /\ now \in Nat /\ tick <= now /\ launched \in Nat
      /\ Last \in Nat \ {0} /\ Unit \in Nat \ {0}
  BY <1>1, <1>2, Settings DEF DispatchTick, TInv, TypeOK
<1>4. now > 0
  BY <1>3
<1>5. /\ c \in Nat /\ Passed \in 1..Last
      /\ c * Unit <= Rates[Passed] /\ Rates[Passed] <= (c + 1) * Unit
  BY <1>2, <1>4, CountOfTick
<1> HIDE DEF c
<1>6. /\ Due(Passed) = Due(Passed - 1) + Rates[Passed]
      /\ Due(Passed - 1) \in Nat /\ Rates[Passed] \in Nat
  BY <1>1, <1>5, DueNext
<1>7. Last' = Last /\ Unit' = Unit /\ Rates' = Rates
  BY <1>1, SameRequest
<1>8. Passed' = Passed /\ Paid = Passed - 1 /\ Paid' = Passed
  BY <1>1, <1>3, <1>7 DEF Passed, Paid
<1>9. NeverAhead'
  <2>1. launched * Unit <= Due(Passed - 1)
    BY <1>1, <1>2, <1>3, <1>8 DEF NeverAhead
  <2>2. (launched + c) * Unit = launched * Unit + c * Unit
        /\ launched * Unit \in Nat /\ c * Unit \in Nat
    BY <1>3, <1>5
  <2>3. (launched + c) * Unit <= Due(Passed)
    BY <1>5, <1>6, <2>1, <2>2
  <2>4. Due(Paid)' = Due(Passed)
    BY <1>7, <1>8 DEF Due
  <2> QED
    BY <1>1, <1>7, <2>3, <2>4 DEF NeverAhead
<1>10. SameLoad'
  BY <1>1, <1>2, SamePace
<1>11. ASSUME ~short PROVE NotBehind'
  <2>1. now - 1 <= Last /\ Due(now - 1) <= (launched + left + now - 1) * Unit /\ tick = now
    BY <1>2, <1>3, <1>11 DEF NotBehind
  <2>2. Passed = now /\ now <= Last
    BY <1>3, <2>1 DEF Passed
  <2>3. Due(now) = Due(now - 1) + Rates[now] /\ Due(now - 1) \in Nat /\ Rates[now] \in Nat
        /\ Rates[now] <= (c + 1) * Unit
    BY <1>5, <1>6, <2>2
  <2>4. Due(now - 1) <= (launched + now - 1) * Unit
    <3>1. launched + left + now - 1 = launched + now - 1
      BY <1>1, <1>3
    <3> QED
      BY <2>1, <3>1
  <2>5. /\ (launched + c + now) * Unit = (launched + now - 1) * Unit + (c + 1) * Unit
        /\ (launched + now - 1) * Unit \in Nat /\ (c + 1) * Unit \in Nat
    <3>1. launched + now - 1 \in Nat /\ c + 1 \in Nat
      BY <1>3, <1>4, <1>5
    <3>2. launched + c + now = (launched + now - 1) + (c + 1)
      BY <1>3, <1>5
    <3>3. ASSUME NEW x \in Nat, NEW y \in Nat
          PROVE  (x + y) * Unit = x * Unit + y * Unit /\ x * Unit \in Nat /\ y * Unit \in Nat
      BY <1>3
    <3> QED
      BY <3>1, <3>2, <3>3
  <2>6. Due(now) <= (launched + c + now) * Unit
    BY <2>3, <2>4, <2>5
  <2>7. Due(now)' = Due(now)
    BY <1>1, <1>7 DEF Due
  <2> QED
    BY <1>1, <1>7, <2>2, <2>6, <2>7 DEF NotBehind
<1> QED
  BY <1>1, <1>9, <1>10, <1>11 DEF PaceInv

LEMMA OrDefault ==
  ASSUME NEW value \in Int, NEW default
  PROVE  Or(value, default) = IF value > 0 THEN value ELSE default
<1>1. value <= 0 <=> ~(value > 0)
  OBVIOUS
<1> QED
  BY <1>1 DEF Or

LEMMA AcceptPace ==
  ASSUME TInv, PaceInv, Accept
  PROVE  PaceInv'
<1>1. /\ Configured /\ phase = "asked" /\ phase' = "loop" /\ asked' = asked
      /\ now' = now /\ tick' = tick /\ launched' = launched /\ left' = left
      /\ cfg' = [asked EXCEPT !.start = Or(@, DefaultRPS),
                              !.duration = Or(@, DefaultDuration),
                              !.workers = Or(@, DefaultWorkers),
                              !.profile = IF @ = "" THEN "constant" ELSE @]
  BY DEF Accept, TInv, clockVars
<1>2. now = 0 /\ tick = 0 /\ left = 0 /\ launched = 0
  BY <1>1 DEF PaceInv
<1>3. Last' = Last /\ Unit' = Unit /\ Rates' = Rates /\ Start' = Start
  BY <1>1, SameRequest
<1>4. Last \in Nat \ {0} /\ Unit \in Nat \ {0}
  BY <1>1, Settings
<1>5. SameLoad'
  <2>1. asked = [target |-> asked.target, profile |-> asked.profile, start |-> asked.start,
                 end |-> asked.end, duration |-> asked.duration,
                 workers |-> asked.workers, csv |-> asked.csv]
        /\ asked.start \in Int /\ asked.duration \in Int
    BY <1>1, LoadTestAssumption DEF Configured
  <2>2. /\ cfg'.start = Or(asked.start, DefaultRPS)
        /\ cfg'.duration = Or(asked.duration, DefaultDuration)
        /\ cfg'.end = asked.end
        /\ cfg'.profile = IF asked.profile = "" THEN "constant" ELSE asked.profile
    BY <1>1, <2>1
  <2>3. cfg'.start = Start /\ (cfg'.profile = "ramping" <=> asked.profile = "ramping")
    BY <2>1, <2>2, OrDefault, Zenon DEF Start
  <2>4. cfg'.duration * TicksPerSecond = Last
    <3>1. cfg'.duration = IF asked.duration > 0 THEN asked.duration ELSE DefaultDuration
      BY <2>1, <2>2, OrDefault, Zenon
    <3> QED
      BY <3>1, Zenon DEF Last
  <2> QED
    BY <1>1, <1>3, <2>2, <2>3, <2>4 DEF SameLoad, Ticks
<1>6. Paid' = 0
  BY <1>1, <1>2, <1>3, <1>4 DEF Paid, Passed
<1>7. NeverAhead'
  <2>1. Due(Paid)' = 0
    BY <1>3, <1>6, DueZero DEF Due
  <2>2. (0 + 0) * Unit = 0
    BY <1>4
  <2> QED
    BY <1>1, <1>2, <1>3, <2>1, <2>2 DEF NeverAhead
<1>8. NotBehind'
  <2>1. Due(now)' = 0
    BY <1>1, <1>2, <1>3, DueZero DEF Due
  <2>2. (0 + 0 + 0) * Unit = 0
    BY <1>4
  <2> QED
    BY <1>1, <1>2, <1>3, <1>4, <2>1, <2>2 DEF NotBehind
<1> QED
  BY <1>1, <1>5, <1>7, <1>8 DEF PaceInv

(* The other steps leave the clock alone; they launch or drop what is left *)
(* of a tick.                                                              *)
LEMMA RestPace ==
  ASSUME TInv, PaceInv, UNCHANGED <<asked, cfg, now, tick>>,
         phase \in {"loop", "drain", "over"}, phase' \in {"loop", "drain", "over"},
         NEW b \in Nat, launched' + left' = b, b <= launched + left,
         phase' = "loop" /\ ~short' => phase = "loop" /\ ~short /\ b = launched + left
  PROVE  PaceInv'
<1>1. Last' = Last /\ Unit' = Unit /\ Rates' = Rates
  BY SameRequest
<1>2. Passed' = Passed /\ Paid' = Paid
  BY <1>1 DEF Passed, Paid
<1>3. SameLoad /\ NeverAhead
  BY DEF PaceInv
<1>4. SameLoad'
  BY <1>3, SamePace
<1>5. NeverAhead'
  <2>1. Paid \in 0..Last
    BY PaidBounds
  <2> QED
    BY <1>2, <1>3, <2>1, NeverAheadKept
<1>6. ASSUME phase' = "loop", ~short' PROVE NotBehind'
  <2>1. NotBehind /\ launched' + left' = launched + left
    BY <1>6 DEF PaceInv
  <2>2. Due(now)' = Due(now) /\ Due(now - 1)' = Due(now - 1)
    BY <1>1 DEF Due
  <2>3. /\ (launched + left + now)' = launched + left + now
        /\ (launched + left + now - 1)' = launched + left + now - 1
    BY <2>1
  <2> QED
    BY <1>1, <2>1, <2>2, <2>3 DEF NotBehind
<1> QED
  BY <1>4, <1>5, <1>6 DEF PaceInv

LEMMA InitPace == Init => PaceInv
<1> SUFFICES ASSUME Init PROVE PaceInv
  OBVIOUS
<1>1. phase = "asked" /\ now = 0 /\ tick = 0 /\ left = 0 /\ launched = 0
  BY Zenon DEF Init
<1> QED
  BY <1>1 DEF PaceInv

LEMMA StepPace == TInv /\ PaceInv /\ [Next]_vars => PaceInv'
<1> SUFFICES ASSUME TInv, PaceInv, [Next]_vars PROVE PaceInv'
  OBVIOUS
<1> USE DEF clockVars, requestVars
<1> DEFINE Running == {"loop", "drain", "over"}
<1>1. launched \in Nat /\ left \in Nat /\ fresh \in Nat /\ calling \in Nat
  BY DEF TInv, TypeOK
<1>2. phase \in {"asked", "refused"} \cup Running
  BY DEF TInv, TypeOK
<1>3. ASSUME UNCHANGED <<asked, cfg, now, tick, launched, left, short>>,
             phase' = phase \/ (phase \in Running /\ phase' \in {"drain", "over"})
      PROVE  PaceInv'
  <2>1. CASE phase \in Running
    <3>1. launched + left \in Nat /\ launched' + left' = launched + left
      BY <1>1, <1>3
    <3>2. phase' \in Running /\ (phase' = "loop" => phase = "loop")
      BY <1>3, <2>1
    <3> QED
      BY <1>1, <1>3, <2>1, <3>1, <3>2, RestPace
  <2>2. CASE phase \in {"asked", "refused"}
    BY <1>3, <2>2 DEF PaceInv
  <2> QED
    BY <1>2, <2>1, <2>2
<1>4. CASE Refuse
  BY <1>4 DEF Refuse, PaceInv
<1>5. CASE Accept
  BY <1>5, AcceptPace
<1>6. CASE Advance
  BY <1>6, AdvancePace
<1>7. CASE Stop \/ MetricsTick \/ FailByItself \/ Abort \/ UNCHANGED vars
  BY <1>3, <1>7 DEF Stop, MetricsTick, FailByItself, Abort, vars
<1>8. CASE DurationReached \/ Finish
  BY <1>3, <1>8 DEF DurationReached, InLoop, Finish
<1>9. CASE DispatchTick
  BY <1>9, DispatchPace
<1>10. CASE SeeCancel
  <2>1. /\ UNCHANGED <<asked, cfg, now, tick>> /\ phase = "loop" /\ phase' = "drain"
        /\ launched' = launched /\ left' = 0
    BY <1>10 DEF SeeCancel
  <2>2. launched' + left' = launched /\ launched <= launched + left
    BY <1>1, <2>1
  <2> QED
    BY <1>1, <2>1, <2>2, RestPace
<1>11. CASE Launch
  <2>1. /\ UNCHANGED <<asked, cfg, now, tick, phase, short>> /\ left > 0
        /\ launched' = launched + 1 /\ left' = left - 1
    BY <1>11 DEF Launch
  <2>2. phase = "loop" /\ launched' + left' = launched + left /\ launched + left \in Nat
    BY <1>1, <2>1 DEF TInv, Configured
  <2> QED
    BY <1>1, <2>1, <2>2, RestPace
<1>12. CASE Skip
  <2>1. /\ UNCHANGED <<asked, cfg, now, tick, phase>> /\ left > 0 /\ short' = TRUE
        /\ launched' = launched /\ left' = left - 1
    BY <1>12 DEF Skip
  <2>2. /\ phase = "loop" /\ launched' + left' = launched + (left - 1)
        /\ launched + (left - 1) \in Nat /\ launched + (left - 1) <= launched + left
    BY <1>1, <2>1 DEF TInv, Configured
  <2> QED
    BY <1>1, <2>1, <2>2, RestPace
<1>13. CASE Generate
  BY <1>3, <1>13 DEF Generate
<1>14. ASSUME NEW latency \in Latencies, Succeed(latency) PROVE PaceInv'
  BY <1>3, <1>14 DEF Succeed
<1> QED
  BY <1>4, <1>5, <1>6, <1>7, <1>8, <1>9, <1>10, <1>11, <1>12, <1>13, <1>14 DEF Next

LEMMA WantedIsDue ==
  /\ Wanted.due = SumOver(Rates, 1..Min({now, Last}))
  /\ Wanted.scale = Unit
<1> QED
  BY Zenon DEF Wanted, Rates, RateAt, Start, Last, Unit, SumOver

LEMMA PaceOnTarget == TInv /\ PaceInv => TargetTracked
<1> SUFFICES ASSUME TInv, PaceInv, phase \in {"loop", "drain", "over"}
             PROVE  /\ launched * Wanted.scale <= Wanted.due
                    /\ InLoop /\ tick = 0 /\ ~short =>
                         Wanted.due - launched * Wanted.scale <= now * Wanted.scale
  BY DEF TargetTracked
<1>1. Wanted.due = Due(Passed) /\ Wanted.scale = Unit
  BY WantedIsDue, PassedIsMin DEF Due
<1>2. /\ Configured /\ launched \in Nat /\ left \in Nat /\ now \in Nat
      /\ Last \in Nat \ {0} /\ Unit \in Nat \ {0}
  BY Settings DEF TInv, TypeOK
<1>3. Passed \in 0..Last /\ Paid \in 0..Last /\ (Passed = Paid \/ Passed = Paid + 1)
  BY <1>2, PaidBounds
<1>4. launched * Unit <= Due(Passed)
  <2>1. (launched + left) * Unit <= Due(Paid)
    BY DEF PaceInv, NeverAhead
  <2>2. launched + left \in Nat /\ launched <= launched + left
    BY <1>2
  <2> QED
    BY <1>2, <1>3, <2>1, <2>2, DueGrows
<1>5. ASSUME InLoop, tick = 0, ~short
      PROVE  Due(Passed) - launched * Unit <= now * Unit
  <2>1. left = 0 /\ now <= Last /\ Due(now) <= (launched + left + now) * Unit
    BY <1>2, <1>5 DEF PaceInv, NotBehind, InLoop
  <2>2. Passed = now /\ launched + left + now = launched + now
    BY <1>2, <2>1 DEF Passed
  <2>3. /\ (launched + now) * Unit = launched * Unit + now * Unit
        /\ launched * Unit \in Nat /\ now * Unit \in Nat
    BY <1>2
  <2>4. Due(Passed) \in Nat /\ Due(Passed) <= (launched + now) * Unit
    BY <1>2, <1>3, <2>1, <2>2, DueNat
  <2> QED
    BY <2>3, <2>4
<1> QED
  BY <1>1, <1>4, <1>5

(* The dispatch loop (Engine.run, calculateRPS) tracks the load that was   *)
(* asked for, whatever profile, duration and number of workers: late ticks *)
(* and a busy pool lose requests and never make up for them.               *)
THEOREM TargetIsTracked == Spec => []TargetTracked
BY InitTyped, StepTyped, InitPace, StepPace, PaceOnTarget, PTL DEF Spec

-----------------------------------------------------------------------------
(* The detector in the test: each interval is given to Analyze, once, and  *)
(* nothing else touches the detector until the next test resets it.        *)
Fed == \E s \in Intervals : Detector!Analyze(s)

LEMMA StepFeeds == TInv /\ [Next]_vars => [Fed]_detectorVars
<1> SUFFICES ASSUME TInv, [Next]_vars PROVE [Fed]_detectorVars
  OBVIOUS
<1>1. CASE Judge
  <2> DEFINE s == [rps |-> success + errors, p99 |-> slowest,
                   success |-> success, errors |-> errors]
  <2>1. s \in Intervals
    BY DEF TInv, TypeOK, Intervals
  <2>2. Detector!Analyze(s)
    BY <1>1 DEF Judge
  <2> HIDE DEF s
  <2> QED
    BY <2>1, <2>2 DEF Fed
<1>2. CASE MetricsTick \/ Finish
  BY <1>1, <1>2 DEF MetricsTick, Finish
<1>3. CASE Refuse \/ Accept \/ Advance \/ Stop \/ DispatchTick \/ DurationReached \/ SeeCancel
           \/ Launch \/ Skip \/ Generate \/ FailByItself \/ Abort \/ UNCHANGED vars
  BY <1>3 DEF Refuse, Accept, Advance, Stop, DispatchTick, DurationReached, SeeCancel,
              Launch, Skip, Generate, FailByItself, Abort, vars
<1>4. ASSUME NEW latency \in Latencies, Succeed(latency) PROVE UNCHANGED detectorVars
  BY <1>4 DEF Succeed
<1> QED
  BY <1>2, <1>3, <1>4 DEF Next

(* Without a Reset the detector is past its baseline once it has a verdict.*)
Decided == result.detected => baselineCount >= BaselineWindow

LEMMA AnalyzeDecides ==
  ASSUME Detector!TypeOK, Decided, NEW s \in Intervals, Detector!Analyze(s)
  PROVE  Decided' /\ (result.detected => result' = result)
<1>1. BaselineWindow \in Nat /\ baselineCount \in Nat
  <2>1. BaselineWindow \in Nat
    BY LoadTestAssumption
  <2>2. baselineCount \in 0..BaselineWindow
    BY DEF Detector!TypeOK
  <2> QED
    BY <2>1, <2>2
<1>2. CASE Detector!Silent(s) \/ Detector!AlreadyDetected(s)
  BY <1>2 DEF Decided, Detector!Silent, Detector!AlreadyDetected
<1>3. CASE Detector!CollectBaseline(s)
  <2>1. ~result.detected
    BY <1>1, <1>3 DEF Decided, Detector!CollectBaseline
  <2>2. ~result'.detected
    BY <1>3, <2>1 DEF Detector!CollectBaseline, Detector!RaiseMaxStable, Detector!TypeOK
  <2> QED
    BY <2>1, <2>2 DEF Decided
<1>4. CASE Detector!StillStable(s) \/ Detector!Detect(s)
  BY <1>4 DEF Decided, Detector!StillStable, Detector!Detect, Detector!Judging
<1> QED
  BY <1>2, <1>3, <1>4 DEF Detector!Analyze

LEMMA InitDecided == Init => Detector!Init /\ Decided
<1>1. Init => Detector!Init
  BY Zenon DEF Init
<1>2. Detector!Init => Decided
  BY DEF Detector!Init, Detector!NoResult, Decided
<1> QED
  BY <1>1, <1>2

LEMMA StepDecided ==
  TInv /\ Decided /\ [Next]_vars => Decided' /\ (result.detected => result' = result)
<1> SUFFICES ASSUME TInv, Decided, [Next]_vars
             PROVE  Decided' /\ (result.detected => result' = result)
  OBVIOUS
<1>1. CASE Fed
  BY <1>1, AnalyzeDecides DEF Fed, TInv
<1>2. CASE UNCHANGED detectorVars
  BY <1>2 DEF detectorVars, Decided
<1> QED
  BY <1>1, <1>2, StepFeeds

(* A load test is a use of the detector as its own specification has it:   *)
(* from its initial state, Analyze after Analyze, with snapshots of        *)
(* natural numbers, whatever is configured and however long the test is.   *)
THEOREM DetectorIsFed == Spec => Detector!Init /\ [][Fed]_detectorVars
BY InitTyped, StepTyped, InitDecided, StepFeeds, PTL DEF Spec

(* The verdict of a test is final: no later interval, and not the rest     *)
(* that is judged after the last request, changes or withdraws it.         *)
THEOREM VerdictOfTestIsFinal == Spec => [][result.detected => result' = result]_vars
<1>1. TInv /\ Decided /\ [Next]_vars => [result.detected => result' = result]_vars
  BY StepDecided
<1> QED
  BY <1>1, InitTyped, StepTyped, InitDecided, StepDecided, PTL DEF Spec

=============================================================================
