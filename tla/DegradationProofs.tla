------------------------- MODULE DegradationProofs -------------------------
(* Proofs about the degradation detector, for every stream of snapshots,   *)
(* every baseline window and every bound on the history.                   *)
EXTENDS Degradation, SumTheorems

USE DegradationAssumption

Results == [detected : BOOLEAN, degradation : Nat, recommended : Nat,
            maxStable : Nat, reason : Reasons]

(* The strengthening TestedInvariants needs.  MaxStableRPS is raised while *)
(* the baseline is collected and while the load passes as stable: then no  *)
(* verdict has been given, and DegradationRPS is still zero.               *)
Unjudged ==
  /\ result.detected => baselineCount = BaselineWindow
  /\ ~result.detected => result.degradation = 0

IInv == TypeOK /\ Unjudged /\ TestedInvariants

(* Raising MaxStableRPS changes no other field of the result.              *)
LEMMA RaiseMaxStableEffect ==
  ASSUME TypeOK, NEW s \in Inputs, RaiseMaxStable(s)
  PROVE  /\ result' \in Results
         /\ result'.detected = result.detected
         /\ result'.degradation = result.degradation
         /\ result'.recommended = result.recommended
BY DEF TypeOK, Results, RaiseMaxStable, Larger

(* A verdict, whichever stable rate it starts from, keeps the tested       *)
(* relations between its three rates.                                      *)
LEMMA VerdictEffect ==
  ASSUME NEW s \in Inputs, s.rps > 0, NEW base \in Nat, Verdict(s, base)
  PROVE  /\ result' \in Results
         /\ result'.detected
         /\ result'.maxStable <= result'.degradation
         /\ result'.recommended < 5 * result'.degradation
<1>1. s.rps \in Nat
  OBVIOUS
<1>2. Reason(s) \in Reasons
  BY DEF Reason, Reasons
<1> QED
  BY <1>1, <1>2 DEF Verdict, Smaller, Results

(* The stable rate of a verdict is a rate that was fed.                    *)
LEMMA DetectEffect ==
  ASSUME TypeOK, NEW s \in Inputs, Detect(s)
  PROVE  s.rps > 0 /\ \E base \in Nat : Verdict(s, base)
<1>1. s.rps > 0
  BY DEF Detect, Judging
<1>2. CASE \E i \in StableIndices : Verdict(s, snapshots[i].rps)
  <2>1. PICK i \in StableIndices : Verdict(s, snapshots[i].rps)
    BY <1>2
  <2>2. snapshots[i] \in Inputs
    BY <2>1 DEF StableIndices, TypeOK
  <2> QED
    BY <1>1, <2>1, <2>2
<1>3. CASE Verdict(s, Append(snapshots, s)[1].rps)
  <2>1. Append(snapshots, s)[1] \in Inputs
    BY DEF TypeOK
  <2> QED
    BY <1>1, <1>3, <2>1
<1> QED
  BY <1>2, <1>3 DEF Detect

LEMMA InitIInv == Init => IInv
BY DEF Init, IInv, TypeOK, Unjudged, TestedInvariants, NoResult, Reasons

(* One step per action, as Analyze and Reset split the code's paths.       *)
LEMMA NextIInv == IInv /\ [Next]_vars => IInv'
<1> SUFFICES ASSUME IInv, [Next]_vars PROVE IInv'
  OBVIOUS
<1> USE DEF IInv
<1>1. CASE Reset
  BY <1>1 DEF Reset, TypeOK, Unjudged, TestedInvariants, NoResult, Reasons
<1>2. ASSUME NEW s \in Inputs, Analyze(s) PROVE IInv'
  <2>1. snapshots' \in Seq(Inputs)
    BY <1>2 DEF Analyze, TypeOK
  <2>2. CASE Silent(s) \/ AlreadyDetected(s)
    BY <2>1, <2>2 DEF Silent, AlreadyDetected, TypeOK, Unjudged, TestedInvariants
  <2>3. CASE CollectBaseline(s)
    <3>1. baselineSum' \in Nat /\ baselineCount' \in 0..BaselineWindow
      BY <2>3 DEF CollectBaseline, TypeOK
    <3>2. ~result.detected /\ RaiseMaxStable(s)
      BY <2>3 DEF CollectBaseline, Unjudged, TypeOK
    <3> QED
      BY <2>1, <3>1, <3>2, RaiseMaxStableEffect
         DEF TypeOK, Unjudged, TestedInvariants, Results
  <2>4. CASE StillStable(s)
    <3>1. ~result.detected /\ RaiseMaxStable(s)
      BY <2>4 DEF StillStable, Judging
    <3>2. UNCHANGED <<baselineSum, baselineCount>>
      BY <2>4 DEF StillStable, Judging
    <3> QED
      BY <2>1, <3>1, <3>2, RaiseMaxStableEffect
         DEF TypeOK, Unjudged, TestedInvariants, Results
  <2>5. CASE Detect(s)
    <3>1. PICK base \in Nat : Verdict(s, base)
      BY <2>5, DetectEffect
    <3>2. /\ s.rps > 0
          /\ baselineCount = BaselineWindow
          /\ UNCHANGED <<baselineSum, baselineCount>>
      BY <2>5 DEF Detect, Judging, TypeOK
    <3> QED
      BY <2>1, <3>1, <3>2, VerdictEffect
         DEF TypeOK, Unjudged, TestedInvariants, Results
  <2> QED
    BY <1>2, <2>2, <2>3, <2>4, <2>5 DEF Analyze
<1>3. CASE UNCHANGED vars
  BY <1>3 DEF vars, TypeOK, Unjudged, TestedInvariants
<1> QED
  BY <1>1, <1>2, <1>3 DEF Next

(* Type correctness of the detector, for every stream of snapshots.        *)
THEOREM TypeCorrect == Spec => []TypeOK
<1>1. IInv => TypeOK
  BY DEF IInv
<1> QED
  BY <1>1, InitIInv, NextIInv, PTL DEF Spec

(* What degradation_test.go asserts of four streams holds of every one:    *)
(* the stable rate is at most the degraded one, the recommended rate below.*)
THEOREM TestedInvariantsHold == Spec => []TestedInvariants
<1>1. IInv => TestedInvariants
  BY DEF IInv
<1> QED
  BY <1>1, InitIInv, NextIInv, PTL DEF Spec

(* A verdict stands until Reset, for every stream of snapshots.            *)
THEOREM VerdictIsFinal == Spec => VerdictStands
<1> DEFINE Stands == result.detected /\ snapshots' # <<>> => result' = result
<1>1. IInv /\ [Next]_vars => [Stands]_vars
  <2> SUFFICES ASSUME IInv, Next, result.detected, snapshots' # <<>>
               PROVE  result' = result
    OBVIOUS
  <2>1. ~Reset
    BY DEF Reset
  <2>2. PICK s \in Inputs : Analyze(s)
    BY <2>1 DEF Next
  <2>3. ~CollectBaseline(s)
    BY DEF CollectBaseline, IInv, Unjudged, TypeOK
  <2>4. ~StillStable(s) /\ ~Detect(s)
    BY DEF StillStable, Detect, Judging
  <2> QED
    BY <2>2, <2>3, <2>4 DEF Analyze, Silent, AlreadyDetected
<1> QED
  BY <1>1, InitIInv, NextIInv, PTL DEF Spec, VerdictStands

-----------------------------------------------------------------------------
(* The reference of ResultMatchesHistory, of any history q: what one more  *)
(* snapshot adds to each of its sets.                                      *)
LoadedIn(q)     == {i \in 1..Len(q) : q[i].rps > 0}
MeasurableIn(q) == {i \in LoadedIn(q) : q[i].p99 > 0}
Before(q, i)    == {j \in MeasurableIn(q) : j < i}
JudgedIn(q)     == {i \in LoadedIn(q) : Cardinality(Before(q, i)) >= BaselineWindow}
BaseIn(q)       == MeasurableIn(q) \ JudgedIn(q)
P99In(q)        == [i \in 1..Len(q) |-> q[i].p99]
SumIn(q)        == SumOver(P99In(q), BaseIn(q))
BadIn(q, sum)   == {i \in JudgedIn(q) : Degraded(q[i], sum, BaselineWindow)}
GoodIn(q, sum, n) == {i \in 1..(n - 1) : Stable(q[i], sum, BaselineWindow)}

(* While the baseline is collected nothing is judged, and every measurable *)
(* snapshot is in it; from then on it does not change.                     *)
BaselineInv ==
  /\ baselineCount < BaselineWindow =>
       /\ JudgedIn(snapshots) = {}
       /\ Cardinality(MeasurableIn(snapshots)) = baselineCount
  /\ baselineCount = BaselineWindow =>
       Cardinality(MeasurableIn(snapshots)) >= BaselineWindow
  /\ baselineSum = SumIn(snapshots)

(* Before a verdict: the best rate so far, and nothing bad.                *)
NothingFound ==
  /\ BadIn(snapshots, baselineSum) = {}
  /\ result = [NoResult EXCEPT !.maxStable = result.maxStable]
  /\ \A i \in LoadedIn(snapshots) : snapshots[i].rps <= result.maxStable
  /\ result.maxStable = 0 \/ \E i \in LoadedIn(snapshots) : result.maxStable = snapshots[i].rps

(* The rate of the last stable snapshot before n, or of the first of all.  *)
LastGood(q, sum, n, stable) ==
  \/ GoodIn(q, sum, n) = {} /\ stable = q[1].rps
  \/ \E g \in GoodIn(q, sum, n) :
       stable = q[g].rps /\ \A h \in GoodIn(q, sum, n) : h <= g

(* ... and after it: it is about the first that was bad.                   *)
VerdictAbout(n) ==
  /\ \A b \in BadIn(snapshots, baselineSum) : n <= b
  /\ result.degradation = snapshots[n].rps
  /\ \E k \in 1..n :
       /\ LastGood(snapshots, baselineSum, n, snapshots[k].rps)
       /\ result.maxStable = Smaller(snapshots[k].rps, snapshots[n].rps)
  /\ result.recommended = 4 * result.maxStable
  /\ result.reason \in {"p99", "both"} <=> P99Above(snapshots[n], baselineSum, BaselineWindow)
  /\ result.reason \in {"errors", "both"} <=> ErrorsAbove(snapshots[n])

HistoryInv ==
  /\ BaselineInv
  /\ ~result.detected => NothingFound
  /\ result.detected => \E n \in BadIn(snapshots, baselineSum) : VerdictAbout(n)

LEMMA Appended ==
  ASSUME NEW q \in Seq(Inputs), NEW s \in Inputs
  PROVE  /\ Len(q) \in Nat /\ Len(Append(q, s)) = Len(q) + 1
         /\ Append(q, s) \in Seq(Inputs)
         /\ \A i \in 1..Len(q) : Append(q, s)[i] = q[i]
         /\ Append(q, s)[Len(q) + 1] = s
         /\ \A i \in 1..Len(q) : q[i] \in Inputs
OBVIOUS

LEMMA LoadedNext ==
  ASSUME NEW q \in Seq(Inputs), NEW s \in Inputs
  PROVE  LoadedIn(Append(q, s)) =
           LoadedIn(q) \cup (IF s.rps > 0 THEN {Len(q) + 1} ELSE {})
<1> DEFINE r == Append(q, s)
           n == Len(q) + 1
<1>1. /\ Len(q) \in Nat /\ Len(r) = n /\ \A i \in 1..Len(q) : r[i] = q[i]
      /\ r[n] = s
  BY Appended
<1> HIDE DEF r
<1>2. 1..Len(r) = 1..Len(q) \cup {n} /\ n \notin 1..Len(q)
  BY <1>1
<1> QED
  BY <1>1, <1>2 DEF LoadedIn, r

LEMMA MeasurableNext ==
  ASSUME NEW q \in Seq(Inputs), NEW s \in Inputs
  PROVE  MeasurableIn(Append(q, s)) =
           MeasurableIn(q) \cup (IF s.rps > 0 /\ s.p99 > 0 THEN {Len(q) + 1} ELSE {})
<1> DEFINE r == Append(q, s)
           n == Len(q) + 1
<1>1. /\ Len(q) \in Nat /\ Len(r) = n /\ \A i \in 1..Len(q) : r[i] = q[i]
      /\ r[n] = s
  BY Appended
<1>2. LoadedIn(r) = LoadedIn(q) \cup (IF s.rps > 0 THEN {n} ELSE {})
  BY LoadedNext
<1>3. LoadedIn(q) \subseteq 1..Len(q)
  BY DEF LoadedIn
<1> HIDE DEF r, n
<1>4. MeasurableIn(r) = MeasurableIn(q) \cup (IF s.rps > 0 /\ s.p99 > 0 THEN {n} ELSE {})
  BY <1>1, <1>2, <1>3 DEF MeasurableIn
<1> QED
  BY <1>4 DEF r, n

LEMMA Finite ==
  ASSUME NEW q \in Seq(Inputs)
  PROVE  /\ IsFiniteSet(MeasurableIn(q)) /\ Cardinality(MeasurableIn(q)) \in Nat
         /\ MeasurableIn(q) \subseteq LoadedIn(q) /\ LoadedIn(q) \subseteq 1..Len(q)
         /\ JudgedIn(q) \subseteq LoadedIn(q) /\ Len(q) \in Nat
         /\ IsFiniteSet(BaseIn(q)) /\ BaseIn(q) \subseteq 1..Len(q)
<1>1. /\ MeasurableIn(q) \subseteq LoadedIn(q) /\ LoadedIn(q) \subseteq 1..Len(q)
      /\ JudgedIn(q) \subseteq LoadedIn(q) /\ BaseIn(q) \subseteq MeasurableIn(q)
  BY DEF MeasurableIn, LoadedIn, JudgedIn, BaseIn
<1>2. Len(q) \in Nat
  OBVIOUS
<1>3. IsFiniteSet(1..Len(q))
  BY <1>2, FS_Interval
<1>4. IsFiniteSet(MeasurableIn(q)) /\ IsFiniteSet(BaseIn(q))
  BY <1>1, <1>3, FS_Subset
<1> QED
  BY <1>1, <1>2, <1>4, FS_CardinalityType

LEMMA BeforeNext ==
  ASSUME NEW q \in Seq(Inputs), NEW s \in Inputs
  PROVE  /\ \A i \in 1..Len(q) : Before(Append(q, s), i) = Before(q, i)
         /\ Before(Append(q, s), Len(q) + 1) = MeasurableIn(q)
<1> DEFINE r == Append(q, s)
           n == Len(q) + 1
<1>1. MeasurableIn(r) = MeasurableIn(q) \cup (IF s.rps > 0 /\ s.p99 > 0 THEN {n} ELSE {})
  BY MeasurableNext
<1>2. MeasurableIn(q) \subseteq 1..Len(q) /\ Len(q) \in Nat
  BY Finite
<1> HIDE DEF r
<1>3. ASSUME NEW i \in 1..Len(q) PROVE Before(r, i) = Before(q, i)
  <2>1. ~(n < i)
    BY <1>2
  <2>2. ASSUME NEW j PROVE j \in MeasurableIn(r) /\ j < i <=> j \in MeasurableIn(q) /\ j < i
    BY <1>1, <2>1
  <2> QED
    BY <2>2 DEF Before
<1>4. Before(r, n) = MeasurableIn(q)
  <2>1. ~(n < n) /\ \A j \in MeasurableIn(q) : j < n
    BY <1>2
  <2> HIDE DEF n
  <2>2. \A j : j \in MeasurableIn(r) /\ j < n <=> j \in MeasurableIn(q)
    BY <1>1, <2>1
  <2> QED
    BY <2>2 DEF Before
<1> QED
  BY <1>3, <1>4 DEF r

LEMMA JudgedNext ==
  ASSUME NEW q \in Seq(Inputs), NEW s \in Inputs
  PROVE  JudgedIn(Append(q, s)) =
           JudgedIn(q) \cup (IF s.rps > 0 /\ Cardinality(MeasurableIn(q)) >= BaselineWindow
                               THEN {Len(q) + 1} ELSE {})
<1> DEFINE r == Append(q, s)
           n == Len(q) + 1
           C(i) == Cardinality(Before(r, i)) >= BaselineWindow
<1>1. LoadedIn(r) = LoadedIn(q) \cup (IF s.rps > 0 THEN {n} ELSE {})
  BY LoadedNext
<1>2. LoadedIn(q) \subseteq 1..Len(q) /\ Len(q) \in Nat
  BY Finite
<1>3. /\ \A i \in 1..Len(q) : Before(r, i) = Before(q, i)
      /\ Before(r, n) = MeasurableIn(q)
  BY BeforeNext
<1>4. JudgedIn(r) = {i \in LoadedIn(r) : C(i)}
  BY DEF JudgedIn
<1>5. JudgedIn(q) = {i \in LoadedIn(q) : C(i)}
  BY <1>2, <1>3, Zenon DEF JudgedIn
<1>6. C(n) <=> Cardinality(MeasurableIn(q)) >= BaselineWindow
  BY <1>3
<1> HIDE DEF r, n, C
<1>7. JudgedIn(r) = JudgedIn(q) \cup (IF s.rps > 0 /\ C(n) THEN {n} ELSE {})
  BY <1>1, <1>4, <1>5
<1> QED
  BY <1>6, <1>7 DEF r, n

(* The snapshot joins the baseline when it is measurable and the window is *)
(* not full yet.                                                           *)
LEMMA SumNext ==
  ASSUME NEW q \in Seq(Inputs), NEW s \in Inputs
  PROVE  /\ SumIn(q) \in Nat
         /\ SumIn(Append(q, s)) = SumIn(q) +
              (IF s.rps > 0 /\ s.p99 > 0 /\ Cardinality(MeasurableIn(q)) < BaselineWindow
                 THEN s.p99 ELSE 0)
<1> DEFINE r == Append(q, s)
           n == Len(q) + 1
           full == Cardinality(MeasurableIn(q)) >= BaselineWindow
           joins == s.rps > 0 /\ s.p99 > 0 /\ ~full
<1>1. /\ Len(q) \in Nat /\ Len(r) = n /\ r[n] = s
      /\ \A i \in 1..Len(q) : r[i] = q[i] /\ q[i] \in Inputs
  BY Appended
<1>2. /\ IsFiniteSet(BaseIn(q)) /\ BaseIn(q) \subseteq 1..Len(q)
      /\ MeasurableIn(q) \subseteq 1..Len(q) /\ JudgedIn(q) \subseteq 1..Len(q)
      /\ Cardinality(MeasurableIn(q)) \in Nat
  BY Finite
<1>3. MeasurableIn(r) = MeasurableIn(q) \cup (IF s.rps > 0 /\ s.p99 > 0 THEN {n} ELSE {})
  BY MeasurableNext
<1>4. JudgedIn(r) = JudgedIn(q) \cup (IF s.rps > 0 /\ full THEN {n} ELSE {})
  BY JudgedNext
<1>5. full <=> ~(Cardinality(MeasurableIn(q)) < BaselineWindow)
  BY <1>2
<1> HIDE DEF r, full
<1>6. n \notin 1..Len(q)
  BY <1>1
<1>7. BaseIn(r) = BaseIn(q) \cup (IF joins THEN {n} ELSE {})
  BY <1>2, <1>3, <1>4, <1>6 DEF BaseIn
<1>8. /\ \A i \in BaseIn(q) : P99In(q)[i] \in Nat /\ P99In(r)[i] = P99In(q)[i]
      /\ P99In(r)[n] = s.p99 /\ s.p99 \in Nat
  <2>1. /\ \A i \in 1..Len(q) : P99In(q)[i] = q[i].p99
        /\ \A i \in 1..Len(q) : P99In(r)[i] = r[i].p99
        /\ P99In(r)[n] = r[n].p99
    BY <1>1 DEF P99In
  <2>2. s.p99 \in Nat /\ \A i \in 1..Len(q) : q[i].p99 \in Nat
    BY <1>1
  <2> QED
    BY <1>1, <1>2, <2>1, <2>2
<1> HIDE DEF n
<1>9. SumOver(P99In(r), BaseIn(q)) = SumIn(q)
  BY <1>2, <1>8, SumSame DEF SumIn
<1>10. SumIn(q) \in Nat
  BY <1>2, <1>8, SumNat DEF SumIn
<1>11. CASE joins
  <2>1. BaseIn(r) = BaseIn(q) \cup {n} /\ n \notin BaseIn(q)
    BY <1>2, <1>6, <1>7, <1>11
  <2>2. IsFiniteSet(BaseIn(r)) /\ BaseIn(r) \ {n} = BaseIn(q)
    BY <1>2, <2>1, FS_AddElement
  <2>3. \A i \in BaseIn(r) : P99In(r)[i] \in Nat
    BY <1>8, <2>1
  <2>4. SumOver(P99In(r), BaseIn(r)) = P99In(r)[n] + SumOver(P99In(r), BaseIn(r) \ {n})
    BY <2>1, <2>2, <2>3, SumAny
  <2>5. SumIn(r) = s.p99 + SumIn(q)
    BY <1>8, <1>9, <2>2, <2>4 DEF SumIn
  <2> QED
    BY <1>5, <1>8, <1>10, <1>11, <2>5 DEF r
<1>12. CASE ~joins
  <2>1. SumIn(r) = SumIn(q)
    BY <1>7, <1>9, <1>12 DEF SumIn
  <2> QED
    BY <1>5, <1>10, <1>12, <2>1 DEF r
<1> QED
  BY <1>11, <1>12

(* What is stable before the new snapshot does not depend on it.           *)
LEMMA BadNext ==
  ASSUME NEW q \in Seq(Inputs), NEW s \in Inputs, NEW sum
  PROVE  BadIn(Append(q, s), sum) =
           BadIn(q, sum) \cup
             (IF /\ s.rps > 0 /\ Cardinality(MeasurableIn(q)) >= BaselineWindow
                 /\ Degraded(s, sum, BaselineWindow)
                THEN {Len(q) + 1} ELSE {})
<1> DEFINE r == Append(q, s)
           n == Len(q) + 1
           full == Cardinality(MeasurableIn(q)) >= BaselineWindow
           D(i) == Degraded(r[i], sum, BaselineWindow)
<1>1. r[n] = s /\ \A i \in 1..Len(q) : r[i] = q[i]
  BY Appended
<1>2. JudgedIn(r) = JudgedIn(q) \cup (IF s.rps > 0 /\ full THEN {n} ELSE {})
  BY JudgedNext
<1>3. JudgedIn(q) \subseteq 1..Len(q)
  BY Finite
<1>4. BadIn(r, sum) = {i \in JudgedIn(r) : D(i)}
  BY DEF BadIn
<1>5. BadIn(q, sum) = {i \in JudgedIn(q) : D(i)}
  BY <1>1, <1>3, Zenon DEF BadIn
<1>6. D(n) <=> Degraded(s, sum, BaselineWindow)
  BY <1>1
<1> HIDE DEF r, n, full, D
<1>7. BadIn(r, sum) = BadIn(q, sum) \cup (IF s.rps > 0 /\ full /\ D(n) THEN {n} ELSE {})
  BY <1>2, <1>4, <1>5
<1> QED
  BY <1>6, <1>7 DEF r, n, full

LEMMA GoodNext ==
  ASSUME NEW q \in Seq(Inputs), NEW s \in Inputs, NEW sum, NEW n \in 1..(Len(q) + 1)
  PROVE  GoodIn(Append(q, s), sum, n) = GoodIn(q, sum, n)
<1>1. Len(q) \in Nat /\ \A i \in 1..Len(q) : Append(q, s)[i] = q[i]
  BY Appended
<1>2. 1..(n - 1) \subseteq 1..Len(q)
  BY <1>1
<1> QED
  BY <1>1, <1>2, Zenon DEF GoodIn

LEMMA CountNext ==
  ASSUME NEW q \in Seq(Inputs), NEW s \in Inputs
  PROVE  Cardinality(MeasurableIn(Append(q, s))) =
           Cardinality(MeasurableIn(q)) + (IF s.rps > 0 /\ s.p99 > 0 THEN 1 ELSE 0)
<1>1. /\ IsFiniteSet(MeasurableIn(q)) /\ Cardinality(MeasurableIn(q)) \in Nat
      /\ Len(q) + 1 \notin MeasurableIn(q)
  BY Finite
<1>2. MeasurableIn(Append(q, s)) =
        MeasurableIn(q) \cup (IF s.rps > 0 /\ s.p99 > 0 THEN {Len(q) + 1} ELSE {})
  BY MeasurableNext
<1>3. Cardinality(MeasurableIn(q) \cup {Len(q) + 1}) = Cardinality(MeasurableIn(q)) + 1
  BY <1>1, FS_AddElement
<1>4. CASE s.rps > 0 /\ s.p99 > 0
  BY <1>2, <1>3, <1>4
<1>5. CASE ~(s.rps > 0 /\ s.p99 > 0)
  <2>1. MeasurableIn(Append(q, s)) = MeasurableIn(q)
    BY <1>2, <1>5
  <2> QED
    BY <1>1, <1>5, <2>1
<1> QED
  BY <1>4, <1>5

LEMMA AnalyzeBaseline ==
  ASSUME TypeOK, BaselineInv, NEW s \in Inputs, Analyze(s)
  PROVE  BaselineInv' /\ SumIn(snapshots) \in Nat
<1> DEFINE M == Cardinality(MeasurableIn(snapshots))
           joined == s.rps > 0 /\ s.p99 > 0
<1>1. /\ snapshots \in Seq(Inputs) /\ snapshots' = Append(snapshots, s)
      /\ baselineCount \in 0..BaselineWindow
  BY DEF TypeOK, Analyze
<1>2. M \in Nat
  BY <1>1, Finite
<1>3. Cardinality(MeasurableIn(snapshots')) = M + (IF joined THEN 1 ELSE 0)
  BY <1>1, CountNext
<1>4. JudgedIn(snapshots') = JudgedIn(snapshots) \cup
        (IF s.rps > 0 /\ M >= BaselineWindow THEN {Len(snapshots) + 1} ELSE {})
  BY <1>1, JudgedNext
<1>5. /\ SumIn(snapshots) \in Nat
      /\ SumIn(snapshots') = SumIn(snapshots) +
                               (IF joined /\ M < BaselineWindow THEN s.p99 ELSE 0)
  BY <1>1, SumNext
<1>6. /\ baselineCount < BaselineWindow => JudgedIn(snapshots) = {} /\ M = baselineCount
      /\ baselineCount = BaselineWindow => M >= BaselineWindow
      /\ baselineSum = SumIn(snapshots)
  BY DEF BaselineInv
<1> HIDE DEF M
<1>7. CASE CollectBaseline(s)
  <2>1. /\ s.rps > 0 /\ baselineCount < BaselineWindow
        /\ joined => baselineSum' = baselineSum + s.p99 /\ baselineCount' = baselineCount + 1
        /\ ~joined => baselineSum' = baselineSum /\ baselineCount' = baselineCount
    BY <1>7 DEF CollectBaseline
  <2>2. JudgedIn(snapshots) = {} /\ M = baselineCount /\ M < BaselineWindow
    BY <1>6, <2>1
  <2>3. JudgedIn(snapshots') = {}
    BY <1>2, <1>4, <2>2
  <2>4. Cardinality(MeasurableIn(snapshots')) = baselineCount'
    BY <1>1, <1>3, <2>1, <2>2
  <2>5. baselineSum' = SumIn(snapshots')
    BY <1>5, <1>6, <2>1, <2>2
  <2>6. baselineCount' = BaselineWindow =>
          Cardinality(MeasurableIn(snapshots')) >= BaselineWindow
    BY <2>4
  <2> QED
    BY <1>5, <2>3, <2>4, <2>5, <2>6 DEF BaselineInv
<1>8. CASE Silent(s)
  <2>1. s.rps = 0 /\ baselineSum' = baselineSum /\ baselineCount' = baselineCount /\ ~joined
    BY <1>8 DEF Silent
  <2>2. /\ JudgedIn(snapshots') = JudgedIn(snapshots) /\ SumIn(snapshots') = SumIn(snapshots)
        /\ Cardinality(MeasurableIn(snapshots')) = M
    BY <1>2, <1>3, <1>4, <1>5, <2>1
  <2> QED
    BY <1>5, <1>6, <2>1, <2>2 DEF BaselineInv
<1>9. CASE AlreadyDetected(s) \/ StillStable(s) \/ Detect(s)
  <2>1. /\ baselineCount = BaselineWindow
        /\ baselineSum' = baselineSum /\ baselineCount' = baselineCount
    BY <1>1, <1>9 DEF AlreadyDetected, StillStable, Detect, Judging
  <2>2. M >= BaselineWindow /\ ~(M < BaselineWindow)
    BY <1>2, <1>6, <2>1
  <2>3. SumIn(snapshots') = SumIn(snapshots)
    BY <1>5, <2>2
  <2>4. Cardinality(MeasurableIn(snapshots')) >= BaselineWindow
    BY <1>2, <1>3, <2>2
  <2> QED
    BY <1>5, <1>6, <2>1, <2>3, <2>4 DEF BaselineInv
<1> QED
  BY <1>7, <1>8, <1>9 DEF Analyze

(* A snapshot is judged when the window is full.                           *)
LEMMA FullWhenCounted ==
  ASSUME TypeOK, BaselineInv
  PROVE  Cardinality(MeasurableIn(snapshots)) >= BaselineWindow <=> baselineCount = BaselineWindow
BY DEF TypeOK, BaselineInv

(* Raising MaxStableRPS keeps the best rate of what was fed.               *)
LEMMA RaiseFindsBest ==
  ASSUME TypeOK, NothingFound, NEW s \in Inputs, s.rps > 0, RaiseMaxStable(s),
         snapshots' = Append(snapshots, s), BadIn(snapshots', baselineSum') = {}
  PROVE  NothingFound'
<1>1. snapshots \in Seq(Inputs) /\ result.maxStable \in Nat /\ s.rps \in Nat
  BY DEF TypeOK
<1>2. LoadedIn(snapshots') = LoadedIn(snapshots) \cup {Len(snapshots) + 1}
  BY <1>1, LoadedNext
<1>3. /\ LoadedIn(snapshots) \subseteq 1..Len(snapshots)
      /\ \A i \in 1..Len(snapshots) : snapshots'[i] = snapshots[i]
      /\ \A i \in 1..Len(snapshots) : snapshots[i].rps \in Nat
      /\ snapshots'[Len(snapshots) + 1] = s
  BY <1>1, Appended, Finite
<1>4. /\ result' = [NoResult EXCEPT !.maxStable = result'.maxStable]
      /\ result'.maxStable = Larger(result.maxStable, s.rps)
  <2>1. result = [NoResult EXCEPT !.maxStable = result.maxStable]
    BY DEF NothingFound
  <2>2. result' = [result EXCEPT !.maxStable = Larger(result.maxStable, s.rps)]
    BY DEF RaiseMaxStable
  <2> QED
    BY <2>1, <2>2 DEF NoResult
<1>5. \A i \in LoadedIn(snapshots') : snapshots'[i].rps <= result'.maxStable
  <2>1. \A i \in LoadedIn(snapshots) : snapshots'[i].rps <= result'.maxStable
    <3>1. \A i \in LoadedIn(snapshots) : snapshots[i].rps <= result.maxStable
      BY DEF NothingFound
    <3>2. result'.maxStable \in {result.maxStable, s.rps} /\ result.maxStable <= result'.maxStable
      BY <1>1, <1>4 DEF Larger
    <3>3. ASSUME NEW i \in LoadedIn(snapshots)
          PROVE  snapshots'[i].rps <= result'.maxStable
      <4>1. snapshots'[i].rps = snapshots[i].rps /\ snapshots[i].rps \in Nat
        BY <1>3
      <4>2. snapshots[i].rps <= result.maxStable
        BY <3>1
      <4>3. \A a, b, c \in Nat : a <= b /\ b <= c => a <= c
        OBVIOUS
      <4>4. result'.maxStable \in Nat
        BY <1>1, <3>2, Zenon
      <4>5. snapshots[i].rps <= result'.maxStable
        BY <1>1, <3>2, <4>1, <4>2, <4>3, <4>4, Zenon
      <4> QED
        BY <4>1, <4>5, Zenon
    <3> QED
      BY <3>3
  <2>2. snapshots'[Len(snapshots) + 1].rps <= result'.maxStable
    BY <1>1, <1>3, <1>4 DEF Larger
  <2> QED
    BY <1>2, <2>1, <2>2
<1>6. result'.maxStable = 0
      \/ \E i \in LoadedIn(snapshots') : result'.maxStable = snapshots'[i].rps
  <2>1. CASE result.maxStable > s.rps
    <3>1. result'.maxStable = result.maxStable
      BY <1>4, <2>1 DEF Larger
    <3> QED
      BY <1>2, <1>3, <3>1 DEF NothingFound
  <2>2. CASE ~(result.maxStable > s.rps)
    BY <1>2, <1>3, <1>4, <2>2 DEF Larger
  <2> QED
    BY <2>1, <2>2
<1> QED
  BY <1>4, <1>5, <1>6 DEF NothingFound

LEMMA LastGoodNext ==
  ASSUME NEW q \in Seq(Inputs), NEW s \in Inputs, NEW sum, NEW n \in 1..Len(q), NEW stable,
         LastGood(q, sum, n, stable)
  PROVE  LastGood(Append(q, s), sum, n, stable)
<1> DEFINE r == Append(q, s)
<1>1. Len(q) \in Nat /\ \A i \in 1..Len(q) : r[i] = q[i]
  BY Appended
<1>2. GoodIn(r, sum, n) = GoodIn(q, sum, n)
  <2>1. n \in 1..(Len(q) + 1)
    BY <1>1
  <2> QED
    BY <2>1, GoodNext
<1> HIDE DEF r
<1>3. GoodIn(q, sum, n) \subseteq 1..Len(q) /\ 1 \in 1..Len(q)
  <2>1. GoodIn(q, sum, n) \subseteq 1..(n - 1)
    BY DEF GoodIn
  <2>2. Len(q) \in Nat /\ n \in Nat /\ 1 <= n /\ n <= Len(q)
    BY <1>1
  <2>3. 1..(n - 1) \subseteq 1..Len(q)
    <3>1. ASSUME NEW i \in 1..(n - 1) PROVE i \in 1..Len(q)
      BY <2>2
    <3> QED
      BY <3>1
  <2>4. 1 \in 1..Len(q)
    BY <2>2
  <2> QED
    BY <2>1, <2>3, <2>4, Zenon
<1>4. LastGood(r, sum, n, stable)
  <2>1. r[1] = q[1] /\ \A g \in GoodIn(q, sum, n) : r[g] = q[g]
    BY <1>1, <1>3
  <2>2. CASE GoodIn(q, sum, n) = {} /\ stable = q[1].rps
    BY <1>2, <2>1, <2>2 DEF LastGood
  <2>3. CASE \E g \in GoodIn(q, sum, n) :
               stable = q[g].rps /\ \A h \in GoodIn(q, sum, n) : h <= g
    <3>1. PICK g \in GoodIn(q, sum, n) :
            stable = q[g].rps /\ \A h \in GoodIn(q, sum, n) : h <= g
      BY <2>3
    <3> QED
      BY <1>2, <2>1, <3>1, Zenon DEF LastGood
  <2> QED
    BY <2>2, <2>3 DEF LastGood
<1> QED
  BY <1>4 DEF r

(* A verdict stays about the snapshot it was given for.                    *)
LEMMA VerdictKept ==
  ASSUME TypeOK, NEW s \in Inputs, snapshots' = Append(snapshots, s),
         baselineSum' = baselineSum, result' = result,
         NEW n \in BadIn(snapshots, baselineSum), VerdictAbout(n)
  PROVE  n \in BadIn(snapshots', baselineSum') /\ VerdictAbout(n)'
<1>1. snapshots \in Seq(Inputs)
  BY DEF TypeOK
<1>2. /\ Len(snapshots) \in Nat
      /\ \A i \in 1..Len(snapshots) : snapshots'[i] = snapshots[i]
  BY <1>1, Appended
<1>3. n \in 1..Len(snapshots)
  BY <1>1, Finite DEF BadIn
<1>4. /\ BadIn(snapshots, baselineSum) \subseteq BadIn(snapshots', baselineSum')
      /\ BadIn(snapshots', baselineSum') \subseteq
            BadIn(snapshots, baselineSum) \cup {Len(snapshots) + 1}
  BY <1>1, BadNext
<1>5. \A b \in BadIn(snapshots', baselineSum') : n <= b
  BY <1>2, <1>3, <1>4 DEF VerdictAbout
<1>6. PICK k \in 1..n : /\ LastGood(snapshots, baselineSum, n, snapshots[k].rps)
                        /\ result.maxStable = Smaller(snapshots[k].rps, snapshots[n].rps)
  BY DEF VerdictAbout
<1>7. k \in 1..Len(snapshots) /\ snapshots'[k] = snapshots[k] /\ snapshots'[n] = snapshots[n]
  BY <1>2, <1>3, <1>6
<1>8. LastGood(snapshots', baselineSum', n, snapshots[k].rps)
  BY <1>1, <1>3, <1>6, LastGoodNext
<1> QED
  BY <1>4, <1>5, <1>6, <1>7, <1>8, Zenon DEF VerdictAbout

(* The verdict is about the snapshot that caused it, the first bad one, and *)
(* starts from what findLastStableRPS finds before it.                     *)
LEMMA VerdictGiven ==
  ASSUME TypeOK, NEW s \in Inputs, snapshots' = Append(snapshots, s),
         BadIn(snapshots', baselineSum') = {Len(snapshots) + 1}, Detect(s),
         NEW n, n = Len(snapshots) + 1
  PROVE  VerdictAbout(n)'
<1>1. snapshots \in Seq(Inputs) /\ baselineCount = BaselineWindow /\ baselineSum' = baselineSum
      /\ s.rps \in Nat
  BY DEF TypeOK, Detect, Judging
<1>2. /\ Len(snapshots) \in Nat /\ snapshots'[n] = s
      /\ \A i \in 1..Len(snapshots) : snapshots'[i] = snapshots[i]
  BY <1>1, Appended
<1>4. StableIndices = GoodIn(snapshots, baselineSum, n)
  <2>1. n - 1 = Len(snapshots)
    BY <1>2
  <2> QED
    BY <1>1, <2>1, Zenon DEF StableIndices, GoodIn
<1>5. GoodIn(snapshots', baselineSum', n) = StableIndices
  <2>1. n \in 1..(Len(snapshots) + 1)
    BY <1>2
  <2> QED
    BY <1>1, <1>4, <2>1, GoodNext
<1>6. PICK k \in 1..n : /\ LastGood(snapshots', baselineSum', n, snapshots'[k].rps)
                        /\ Verdict(s, snapshots'[k].rps)
  <2>1. CASE \E i \in StableIndices : /\ \A j \in StableIndices : j <= i
                                      /\ Verdict(s, snapshots[i].rps)
    <3>1. PICK i \in StableIndices : /\ \A j \in StableIndices : j <= i
                                     /\ Verdict(s, snapshots[i].rps)
      BY <2>1
    <3>2. i \in 1..Len(snapshots) /\ i \in 1..n /\ snapshots'[i] = snapshots[i]
      BY <1>2 DEF StableIndices
    <3>3. LastGood(snapshots', baselineSum', n, snapshots'[i].rps)
      BY <1>5, <3>1, Zenon DEF LastGood
    <3> QED
      BY <3>1, <3>2, <3>3
  <2>2. CASE StableIndices = {} /\ Verdict(s, Append(snapshots, s)[1].rps)
    <3>1. 1 \in 1..n
      BY <1>2
    <3>2. LastGood(snapshots', baselineSum', n, snapshots'[1].rps)
      BY <1>5, <2>2, Zenon DEF LastGood
    <3> QED
      BY <2>2, <3>1, <3>2
  <2> QED
    BY <2>1, <2>2 DEF Detect
<1>7. /\ result'.degradation = s.rps
      /\ result'.maxStable = Smaller(snapshots'[k].rps, s.rps)
      /\ result'.recommended = 4 * result'.maxStable
      /\ result'.reason = Reason(s)
  BY <1>6 DEF Verdict
<1>8. /\ result'.reason \in {"p99", "both"} <=> P99Above(s, baselineSum, BaselineWindow)
      /\ result'.reason \in {"errors", "both"} <=> ErrorsAbove(s)
  <2>1. P99Above(s, baselineSum, BaselineWindow) \/ ErrorsAbove(s)
    BY <1>1 DEF Detect, Degraded
  <2>2. Reason(s) = IF P99Above(s, baselineSum, BaselineWindow)
                      THEN IF ErrorsAbove(s) THEN "both" ELSE "p99"
                      ELSE "errors"
    BY <1>1 DEF Reason
  <2> QED
    BY <1>7, <2>1, <2>2
<1>9. \A b \in BadIn(snapshots', baselineSum') : n <= b
  BY <1>2
<1> QED
  BY <1>1, <1>2, <1>6, <1>7, <1>8, <1>9 DEF VerdictAbout

LEMMA InitHistory == Init => HistoryInv
<1> SUFFICES ASSUME Init PROVE HistoryInv
  OBVIOUS
<1>1. /\ baselineSum = 0 /\ baselineCount = 0 /\ result = NoResult /\ snapshots = <<>>
  BY DEF Init
<1>2. LoadedIn(<<>>) = {} /\ MeasurableIn(<<>>) = {} /\ JudgedIn(<<>>) = {} /\ BaseIn(<<>>) = {}
  BY DEF LoadedIn, MeasurableIn, JudgedIn, BaseIn
<1>3. SumIn(<<>>) = 0
  BY <1>2, SumEmpty DEF SumIn
<1>4. Cardinality(MeasurableIn(<<>>)) = 0
  BY <1>2, FS_EmptySet
<1>5. BaselineInv
  <2>1. 0 < BaselineWindow /\ 0 # BaselineWindow
    OBVIOUS
  <2> QED
    BY <1>1, <1>2, <1>3, <1>4, <2>1 DEF BaselineInv
<1>6. BadIn(<<>>, 0) = {}
  BY <1>2 DEF BadIn
<1>7. NothingFound /\ ~result.detected
  BY <1>1, <1>2, <1>6 DEF NothingFound, NoResult
<1> QED
  BY <1>5, <1>7 DEF HistoryInv

LEMMA StepHistory == IInv /\ HistoryInv /\ [Next]_vars => HistoryInv'
<1> SUFFICES ASSUME IInv, HistoryInv, [Next]_vars PROVE HistoryInv'
  OBVIOUS
<1>1. TypeOK /\ Unjudged /\ BaselineInv
  BY DEF IInv, HistoryInv
<1>2. CASE Reset
  <2>1. Init'
    BY <1>2 DEF Reset, Init
  <2> QED
    BY <2>1, InitHistory, PTL
<1>3. ASSUME NEW s \in Inputs, Analyze(s) PROVE HistoryInv'
  <2> DEFINE full == Cardinality(MeasurableIn(snapshots)) >= BaselineWindow
             n == Len(snapshots) + 1
  <2>1. BaselineInv' /\ snapshots' = Append(snapshots, s) /\ snapshots \in Seq(Inputs)
    BY <1>1, <1>3, AnalyzeBaseline DEF Analyze, TypeOK
  <2>2. full <=> baselineCount = BaselineWindow
    BY <1>1, FullWhenCounted
  <2>3. \A sum : BadIn(snapshots', sum) = BadIn(snapshots, sum) \cup
          (IF s.rps > 0 /\ full /\ Degraded(s, sum, BaselineWindow) THEN {n} ELSE {})
    BY <2>1, BadNext
  <2> HIDE DEF full, n
  <2>4. CASE result.detected
    <3>1. PICK m \in BadIn(snapshots, baselineSum) : VerdictAbout(m)
      BY <2>4 DEF HistoryInv
    <3>2. baselineSum' = baselineSum /\ result' = result
      <4>1. baselineCount = BaselineWindow
        BY <1>1, <2>4 DEF Unjudged
      <4>2. Silent(s) \/ AlreadyDetected(s)
        BY <1>3, <2>4, <4>1 DEF Analyze, CollectBaseline, StillStable, Detect, Judging
      <4> QED
        BY <4>2 DEF Silent, AlreadyDetected
    <3>3. m \in BadIn(snapshots', baselineSum') /\ VerdictAbout(m)'
      BY <1>1, <2>1, <3>1, <3>2, VerdictKept
    <3> QED
      BY <2>1, <2>4, <3>2, <3>3 DEF HistoryInv
  <2>5. CASE ~result.detected
    <3>1. NothingFound /\ BadIn(snapshots, baselineSum) = {}
      BY <2>5 DEF HistoryInv, NothingFound
    <3>2. ASSUME s.rps > 0, RaiseMaxStable(s), BadIn(snapshots', baselineSum') = {}
          PROVE  HistoryInv'
      <4>1. NothingFound'
        BY <1>1, <2>1, <3>1, <3>2, RaiseFindsBest
      <4>2. ~result'.detected
        BY <2>5, <3>2, <1>1, RaiseMaxStableEffect
      <4> QED
        BY <2>1, <4>1, <4>2 DEF HistoryInv
    <3>3. CASE Silent(s)
      <4>1. s.rps = 0 /\ baselineSum' = baselineSum /\ result' = result
        BY <3>3 DEF Silent
      <4>2. BadIn(snapshots', baselineSum') = {}
        BY <2>3, <3>1, <4>1
      <4>3. LoadedIn(snapshots') = LoadedIn(snapshots)
        <5>1. ~(s.rps > 0)
          BY <4>1
        <5>2. LoadedIn(snapshots') = LoadedIn(snapshots) \cup {}
          BY <2>1, <5>1, LoadedNext, Zenon
        <5> QED
          BY <5>2
      <4>4. \A i \in LoadedIn(snapshots) : snapshots'[i] = snapshots[i]
        BY <2>1, Appended, Finite
      <4>5. NothingFound'
        BY <3>1, <4>1, <4>2, <4>3, <4>4, Zenon DEF NothingFound
      <4> QED
        BY <2>1, <2>5, <4>1, <4>5 DEF HistoryInv
    <3>4. CASE CollectBaseline(s)
      <4>1. s.rps > 0 /\ RaiseMaxStable(s) /\ baselineCount < BaselineWindow
        BY <3>4 DEF CollectBaseline
      <4>2. ~full /\ JudgedIn(snapshots) = {}
        BY <1>1, <2>2, <4>1 DEF BaselineInv, TypeOK
      <4>3. \A sum : BadIn(snapshots, sum) = {}
        BY <4>2 DEF BadIn
      <4>4. BadIn(snapshots', baselineSum') = {}
        BY <2>3, <4>2, <4>3
      <4> QED
        BY <3>2, <4>1, <4>4
    <3>5. CASE StillStable(s)
      <4>1. /\ s.rps > 0 /\ RaiseMaxStable(s) /\ baselineSum' = baselineSum
            /\ baselineCount = BaselineWindow /\ ~Degraded(s, baselineSum, baselineCount)
        BY <1>1, <3>5 DEF StillStable, Judging, TypeOK
      <4>2. BadIn(snapshots', baselineSum') = {}
        BY <2>3, <3>1, <4>1
      <4> QED
        BY <3>2, <4>1, <4>2
    <3>6. CASE Detect(s)
      <4>1. /\ s.rps > 0 /\ baselineSum' = baselineSum
            /\ baselineCount = BaselineWindow /\ Degraded(s, baselineSum, baselineCount)
        BY <1>1, <3>6 DEF Detect, Judging, TypeOK
      <4>2. BadIn(snapshots', baselineSum') = {n}
        BY <2>2, <2>3, <3>1, <4>1
      <4> PICK m : m = Len(snapshots) + 1
        OBVIOUS
      <4>5. BadIn(snapshots', baselineSum') = {Len(snapshots) + 1}
        BY <4>2 DEF n
      <4>3. VerdictAbout(m)'
        BY <1>1, <2>1, <3>6, <4>5, VerdictGiven
      <4>4. result'.detected
        BY <1>1, <3>6, DetectEffect, VerdictEffect
      <4> QED
        BY <2>1, <4>3, <4>4, <4>5 DEF HistoryInv
    <3>7. ~AlreadyDetected(s)
      BY <2>5 DEF AlreadyDetected
    <3> QED
      BY <1>3, <3>3, <3>4, <3>5, <3>6, <3>7 DEF Analyze
  <2> QED
    BY <2>4, <2>5
<1>4. CASE UNCHANGED vars
  <2>1. BaselineInv'
    BY <1>1, <1>4 DEF vars, BaselineInv
  <2> QED
    BY <2>1, <1>4, Zenon DEF vars, HistoryInv, NothingFound, VerdictAbout
<1> QED
  BY <1>2, <1>3, <1>4 DEF Next

LEMMA LargestIs ==
  ASSUME NEW S, S \subseteq Int, NEW m \in S, \A x \in S : x <= m
  PROVE  Max(S) = m
<1>1. m \in S /\ \A x \in S : m >= x
  BY DEF Max
<1>2. \A z \in S : (\A x \in S : z >= x) => z = m
  OBVIOUS
<1> QED
  BY <1>1, <1>2 DEF Max

LEMMA SmallestIs ==
  ASSUME NEW S, S \subseteq Int, NEW m \in S, \A x \in S : m <= x
  PROVE  Min(S) = m
<1>1. \A z \in S : (\A x \in S : z <= x) => z = m
  OBVIOUS
<1> QED
  BY <1>1 DEF Min

LEMMA HistoryGivesResult == IInv /\ HistoryInv => ResultMatchesHistory
<1> SUFFICES ASSUME IInv, HistoryInv PROVE ResultMatchesHistory
  OBVIOUS
<1>1. TypeOK /\ BaselineInv /\ snapshots \in Seq(Inputs)
  BY DEF IInv, HistoryInv, TypeOK
<1>2. Loaded = LoadedIn(snapshots) /\ Judged = JudgedIn(snapshots)
      /\ Measurable = MeasurableIn(snapshots)
  BY DEF Loaded, LoadedIn, Measurable, MeasurableIn, Judged, JudgedIn, Before
<1>3. FinalSum = baselineSum
  <2>1. P99Of = P99In(snapshots)
    BY DEF P99Of, P99In
  <2>2. FinalSum = SumIn(snapshots)
    <3>1. FinalSum = SumOver(P99Of, Measurable \ Judged)
      BY Zenon DEF FinalSum, SumOver
    <3> QED
      BY <1>2, <2>1, <3>1, Zenon DEF SumIn, BaseIn
  <2> QED
    BY <1>1, <2>2 DEF BaselineInv
<1>4. Bad = BadIn(snapshots, baselineSum)
  BY <1>2, <1>3, Zenon DEF Bad, BadIn
<1>5. /\ LoadedIn(snapshots) \subseteq 1..Len(snapshots) /\ Len(snapshots) \in Nat
      /\ \A i \in 1..Len(snapshots) : snapshots[i].rps \in Nat
      /\ Bad \subseteq LoadedIn(snapshots)
  <2>1. \A i \in 1..Len(snapshots) : snapshots[i] \in Inputs
    BY <1>1
  <2>2. Bad \subseteq LoadedIn(snapshots)
    BY <1>1, <1>4, Finite DEF BadIn
  <2> QED
    BY <1>1, <2>1, <2>2, Finite
<1>6. CASE ~result.detected
  <2> DEFINE S == {0} \cup {snapshots[i].rps : i \in Loaded}
  <2>1. NothingFound /\ result.maxStable \in Nat
    BY <1>1, <1>6 DEF HistoryInv, TypeOK
  <2>2. S \subseteq Int
    BY <1>2, <1>5
  <2>3. result.maxStable \in S /\ \A x \in S : x <= result.maxStable
    BY <1>2, <2>1 DEF NothingFound
  <2> HIDE DEF S
  <2>4. Max(S) = result.maxStable
    BY <2>2, <2>3, LargestIs
  <2>5. Bad = {} /\ result = [NoResult EXCEPT !.maxStable = result.maxStable]
    BY <1>4, <2>1 DEF NothingFound
  <2> QED
    BY <2>4, <2>5, Zenon DEF ResultMatchesHistory, S
<1>7. CASE result.detected
  <2>1. PICK n \in Bad : VerdictAbout(n)
    BY <1>4, <1>7 DEF HistoryInv
  <2>2. Min(Bad) = n
    <3>1. Bad \subseteq Int
      BY <1>5
    <3>2. \A b \in Bad : n <= b
      BY <1>4, <2>1 DEF VerdictAbout
    <3> QED
      BY <3>1, <3>2, SmallestIs
  <2> DEFINE good == {i \in 1..(n - 1) : Stable(snapshots[i], FinalSum, BaselineWindow)}
             stable == snapshots[IF good = {} THEN 1 ELSE Max(good)].rps
  <2>3. good = GoodIn(snapshots, baselineSum, n)
    BY <1>3, Zenon DEF GoodIn
  <2>4. PICK k \in 1..n : /\ LastGood(snapshots, baselineSum, n, snapshots[k].rps)
                          /\ result.maxStable = Smaller(snapshots[k].rps, snapshots[n].rps)
    BY <2>1 DEF VerdictAbout
  <2>5. snapshots[k].rps = stable
    <3>1. good \subseteq Int
      OBVIOUS
    <3> HIDE DEF good
    <3>2. CASE good = {}
      BY <2>3, <2>4, <3>2 DEF LastGood
    <3>3. CASE good # {}
      <4>1. PICK g \in good : snapshots[k].rps = snapshots[g].rps /\ \A h \in good : h <= g
        BY <2>3, <2>4, <3>3 DEF LastGood
      <4>2. Max(good) = g
        BY <3>1, <4>1, LargestIs
      <4> QED
        BY <3>3, <4>1, <4>2
    <3> QED
      BY <3>2, <3>3
  <2> HIDE DEF stable, good
  <2>6. /\ result.degradation = snapshots[n].rps
        /\ result.maxStable = Smaller(stable, snapshots[n].rps)
        /\ result.recommended = 4 * result.maxStable
        /\ result.reason \in {"p99", "both"} <=> P99Above(snapshots[n], FinalSum, BaselineWindow)
        /\ result.reason \in {"errors", "both"} <=> ErrorsAbove(snapshots[n])
    BY <1>3, <2>1, <2>4, <2>5 DEF VerdictAbout
  <2>7. Bad # {}
    BY <2>1
  <2> QED
    BY <1>7, <2>2, <2>6, <2>7, Zenon DEF ResultMatchesHistory, stable, good
<1> QED
  BY <1>6, <1>7

(* The incremental result of Analyze is the one the whole stream of        *)
(* snapshots determines, for every stream, window and set of inputs.       *)
THEOREM ResultIsHistory == Spec => []ResultMatchesHistory
BY InitIInv, NextIInv, InitHistory, StepHistory, HistoryGivesResult, PTL DEF Spec

=============================================================================
