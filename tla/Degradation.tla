---------------------------- MODULE Degradation ----------------------------
(***************************************************************************)
(* The degradation detector (internal/telemetry/degradation.go).           *)
(*                                                                         *)
(* Analyze consumes one metrics snapshot, Reset forgets everything; both   *)
(* hold the detector's mutex throughout, so each is one step.  The floats  *)
(* of the code are sums, quotients and products of integers (quantiles of  *)
(* a histogram of milliseconds, request counts), so every comparison is    *)
(* written with both sides multiplied out; RecommendedRPS is in fifths.    *)
(***************************************************************************)
EXTENDS Integers, Sequences, FiniteSets, FiniteSetsExt

CONSTANTS
  Inputs,         \* the snapshots that may be fed
  BaselineWindow, \* baselineWindow (5)
  MaxSnapshots    \* bound: snapshots between two Resets

ASSUME DegradationAssumption ==
  /\ Inputs \subseteq [rps : Nat, p99 : Nat, success : Nat, errors : Nat]
  /\ BaselineWindow \in Nat \ {0}
  /\ MaxSnapshots \in Nat

VARIABLES
  baselineSum,    \* sum of the P99 values of the baseline; baselineP99 is
  baselineCount,  \* ... baselineSum / baselineCount, or 0
  result,         \* the DegradationResult
  snapshots       \* every snapshot fed since the last Reset

vars == <<baselineSum, baselineCount, result, snapshots>>

Reasons == {"none", "p99", "errors", "both"}

NoResult == [detected |-> FALSE, degradation |-> 0, recommended |-> 0,
             maxStable |-> 0, reason |-> "none"]

Smaller(a, b) == IF a < b THEN a ELSE b
Larger(a, b)  == IF a > b THEN a ELSE b

(* Twice baselineP99 * p99GrowthFactor * baselineCount is 5 * baselineSum. *)
P99Above(s, sum, count) == sum > 0 /\ 2 * count * s.p99 > 5 * sum
P99Below(s, sum, count) == sum > 0 => 2 * count * s.p99 < 5 * sum

(* The error rate of the interval, against errorRateThreshold = 15%.       *)
Total(s)       == s.success + s.errors
ErrorsAbove(s) == 100 * s.errors > 15 * Total(s)
ErrorsBelow(s) == 100 * s.errors < 15 * Total(s)

Degraded(s, sum, count) == P99Above(s, sum, count) \/ ErrorsAbove(s)

Reason(s) ==
  IF P99Above(s, baselineSum, baselineCount)
    THEN IF ErrorsAbove(s) THEN "both" ELSE "p99"
    ELSE "errors"

(* What findLastStableRPS takes for a stable snapshot.                     *)
Stable(s, sum, count) ==
  s.rps > 0 /\ Total(s) > 0 /\ ErrorsBelow(s) /\ P99Below(s, sum, count)

StableIndices ==
  {i \in 1..Len(snapshots) : Stable(snapshots[i], baselineSum, baselineCount)}

Init ==
  /\ baselineSum = 0
  /\ baselineCount = 0
  /\ result = NoResult
  /\ snapshots = <<>>

-----------------------------------------------------------------------------
RaiseMaxStable(s) ==
  result' = [result EXCEPT !.maxStable = Larger(@, s.rps)]

(* An interval without traffic is kept but not judged.                     *)
Silent(s) ==
  /\ s.rps = 0
  /\ UNCHANGED <<baselineSum, baselineCount, result>>

(* The baseline is still being collected.                                  *)
CollectBaseline(s) ==
  /\ s.rps > 0
  /\ baselineCount < BaselineWindow
  /\ IF s.p99 > 0
       THEN /\ baselineSum' = baselineSum + s.p99
            /\ baselineCount' = baselineCount + 1
       ELSE UNCHANGED <<baselineSum, baselineCount>>
  /\ RaiseMaxStable(s)

(* A verdict stands until Reset.                                           *)
AlreadyDetected(s) ==
  /\ s.rps > 0
  /\ baselineCount >= BaselineWindow
  /\ result.detected
  /\ UNCHANGED <<baselineSum, baselineCount, result>>

(* Fault variant: a verdict can be overwritten by a later one. *)
JudgingAgain(s) ==
  /\ s.rps > 0
  /\ baselineCount >= BaselineWindow
  /\ UNCHANGED <<baselineSum, baselineCount>>

Judging(s) ==
  /\ s.rps > 0
  /\ baselineCount >= BaselineWindow
  /\ ~result.detected
  /\ UNCHANGED <<baselineSum, baselineCount>>

StillStable(s) ==
  /\ Judging(s)
  /\ ~Degraded(s, baselineSum, baselineCount)
  /\ RaiseMaxStable(s)

(* Fault variant: the last stable rate is not capped at the degraded one. *)
VerdictUncapped(s, lastStable) ==
  result' = [detected |-> TRUE,
             degradation |-> s.rps,
             recommended |-> 4 * lastStable,
             maxStable |-> lastStable,
             reason |-> Reason(s)]

Verdict(s, lastStable) ==
  LET safeBase == Smaller(lastStable, s.rps) IN
  result' = [detected |-> TRUE,
             degradation |-> s.rps,
             recommended |-> 4 * safeBase,     \* 0.8 * safeBase, in fifths
             maxStable |-> safeBase,
             reason |-> Reason(s)]

Detect(s) ==
  /\ Judging(s)
  /\ Degraded(s, baselineSum, baselineCount)
  /\ \/ \E i \in StableIndices :
          /\ \A j \in StableIndices : j <= i
          /\ Verdict(s, snapshots[i].rps)
     \/ /\ StableIndices = {}
        /\ Verdict(s, Append(snapshots, s)[1].rps)   \* the fallback

Analyze(s) ==
  /\ snapshots' = Append(snapshots, s)
  /\ \/ Silent(s)
     \/ CollectBaseline(s)
     \/ AlreadyDetected(s)
     \/ StillStable(s)
     \/ Detect(s)

(* Fault variant: Reset leaves the baseline's count behind. *)
ResetKeepsCount ==
  /\ baselineSum' = 0
  /\ result' = NoResult
  /\ snapshots' = <<>>
  /\ UNCHANGED baselineCount

Reset ==
  /\ baselineSum' = 0
  /\ baselineCount' = 0
  /\ result' = NoResult
  /\ snapshots' = <<>>

Next ==
  \/ Reset
  \/ Len(snapshots) < MaxSnapshots /\ \E s \in Inputs : Analyze(s)

Spec == Init /\ [][Next]_vars

-----------------------------------------------------------------------------
(* Type invariant.                                                         *)
TypeOK ==
  /\ baselineSum \in Nat
  /\ baselineCount \in 0..BaselineWindow
  /\ result \in [detected : BOOLEAN, degradation : Nat, recommended : Nat,
                 maxStable : Nat, reason : Reasons]
  /\ snapshots \in Seq(Inputs)

(* assertDegradationInvariants of degradation_test.go:154 for every stream *)
(* of snapshots: the stable rate is at most the degraded one, and the      *)
(* recommended rate is below it.                                           *)
TestedInvariants ==
  result.degradation > 0 =>
    /\ result.maxStable <= result.degradation
    /\ result.recommended < 5 * result.degradation

(* A verdict stands: no later snapshot changes it, only Reset withdraws it.*)
VerdictStands ==
  [][result.detected /\ snapshots' # <<>> => result' = result]_vars

(* The reference: the whole result, from the snapshots alone.  A snapshot  *)
(* with load is judged once BaselineWindow measurable ones precede it.     *)
Loaded     == {i \in 1..Len(snapshots) : snapshots[i].rps > 0}
Measurable == {i \in Loaded : snapshots[i].p99 > 0}
Judged     == {i \in Loaded :
                 Cardinality({j \in Measurable : j < i}) >= BaselineWindow}
P99Of      == [i \in 1..Len(snapshots) |-> snapshots[i].p99]
FinalSum   == MapThenSumSet(LAMBDA i : P99Of[i], Measurable \ Judged)
Bad        == {i \in Judged : Degraded(snapshots[i], FinalSum, BaselineWindow)}

(* The incremental result is the one the whole history determines: nothing *)
(* is detected before the first bad snapshot, the verdict is about exactly *)
(* that one, and the stable rate is the best seen, or the last stable one. *)
ResultMatchesHistory ==
  IF Bad = {}
    THEN result = [NoResult EXCEPT !.maxStable = Max({0} \cup {snapshots[i].rps : i \in Loaded})]
    ELSE LET first  == Min(Bad)
             rate   == snapshots[first].rps
             good   == {i \in 1..(first - 1) : Stable(snapshots[i], FinalSum, BaselineWindow)}
             stable == snapshots[IF good = {} THEN 1 ELSE Max(good)].rps
         IN  /\ result.detected
             /\ result.degradation = rate
             /\ result.maxStable = Smaller(stable, rate)
             /\ result.recommended = 4 * result.maxStable
             /\ result.reason \in {"p99", "both"}
                  <=> P99Above(snapshots[first], FinalSum, BaselineWindow)
             /\ result.reason \in {"errors", "both"} <=> ErrorsAbove(snapshots[first])

(* What degradation.go:14 says: MaxStableRPS "is the last stable           *)
(* throughput capped at DegradationRPS", stable being what Analyze lets    *)
(* pass as not degraded.                                                   *)
LastStableReported ==
  LET passed == {i \in Loaded : i < Min(Bad)
                                /\ ~Degraded(snapshots[i], FinalSum, BaselineWindow)}
  IN  result.detected /\ passed # {} =>
        result.maxStable = Smaller(snapshots[Max(passed)].rps, result.degradation)

=============================================================================
