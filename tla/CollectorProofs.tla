-------------------------- MODULE CollectorProofs --------------------------
(* Proofs about the metrics collector.  The inductive invariant IInv adds *)
(* to the type invariant who holds the mutex, where the requests that are  *)
(* still being recorded are, what Reset has cleared, and how the fields    *)
(* Snapshot has loaded compare with those it has yet to load.              *)
EXTENDS Collector, SumTheorems

(* The requests being recorded, by what they have still to count.          *)
SuccessDue   == {w \in Recorders : wpc[w] = "addSuccess"}
IntervalDue  == {w \in Recorders : wpc[w] = "addIntervalSuccess"}
ReportDue    == {w \in Recorders : wpc[w] \in {"addSuccess", "addIntervalSuccess"}}
IntErrorsDue == {w \in Recorders : wpc[w] = "addIntervalErrors"}
CodeDue      == {w \in Recorders : wpc[w] \in {"addIntervalErrors", "lookUp", "addCounter"}}
Counting     == {w \in Recorders : wpc[w] = "addCounter"}

(* Collector.mu is held across steps by Snapshot and by Reset.             *)
MutexInv ==
  /\ holder = "snapshot" <=> spc # "idle"
  /\ holder = "reset" <=> cpc # "idle"

(* The maps Reset has not made yet are empty.  Recorders hold counters of  *)
(* maps already made, of the current one unless Reset has overtaken them.  *)
MapInv ==
  /\ \A m \in Maps : m > current => \A code \in Codes : errors[m][code] = 0
  /\ \A w \in Counting :
       /\ counter[w] \in Maps \X Codes
       /\ counter[w][1] <= current
       /\ ~overlapped => counter[w][1] = current

(* What Reset has cleared stays clear until it ends, if nobody records.    *)
ClearedInv ==
  ~overlapped /\ cpc # "idle" =>
    /\ Busy = {}
    /\ latencies = 0 /\ reported = NoIntervals /\ calls = NoCalls
    /\ \A code \in Codes : errors[current][code] = 0
    /\ cpc # "clearSuccess" => atomic.success = 0
    /\ cpc \notin {"clearSuccess", "clearErrCount"} => atomic.errCount = 0
    /\ cpc \in {"clearIntErrors", "clearLog"} => atomic.intSuccess = 0
    /\ cpc = "clearLog" => atomic.intErrors = 0

(* Every call has reached each counter or is pending before it.            *)
TotalsInv ==
  ~overlapped /\ cpc = "idle" =>
    /\ atomic.success + Cardinality(SuccessDue) = calls.success
    /\ atomic.errCount = calls.errors
    /\ Counted(current) + Cardinality(CodeDue)
         = atomic.errCount

(* The intervals lag behind the totals, and behind the latencies, by the   *)
(* pending calls at least.                                                 *)
IntervalInv ==
  ~overlapped /\ cpc = "idle" =>
    /\ reported.intSuccess + atomic.intSuccess + Cardinality(IntervalDue)
         <= atomic.success
    /\ reported.intErrors + atomic.intErrors + Cardinality(IntErrorsDue)
         <= atomic.errCount
    /\ reported.intSuccess + atomic.intSuccess
         + Cardinality(ReportDue) <= reported.latencies + latencies

Loaded == {"success", "errors", "clearSuccess", "clearErrors"}

(* The rate, in the order of Snapshot's loads.                             *)
RateInv ==
  /\ spc = "rateErrors" => snap.actual <= atomic.intSuccess
  /\ spc \in {"codes", "intSuccess"} => snap.actual <= atomic.intSuccess + atomic.intErrors
  /\ spc = "intErrors" => snap.actual <= snap.intSuccess + atomic.intErrors
  /\ spc \in Loaded => snap.actual <= snap.intSuccess + snap.intErrors

(* The interval's counts, and the totals loaded after them.                *)
LoadInv ==
  /\ spc \in {"intErrors", "success", "errors", "clearSuccess"} =>
       snap.intSuccess <= atomic.intSuccess
  /\ spc \in Loaded => snap.intErrors <= atomic.intErrors
  /\ ~overlapped =>
       /\ spc \in {"errors", "clearSuccess", "clearErrors"} => snap.intSuccess <= snap.success
       /\ spc \in {"clearSuccess", "clearErrors"} => snap.intErrors <= snap.errCount

(* The counters per code that have been read.                              *)
CodesInv ==
  /\ spc = "rateErrors" => snap.counted = 0
  /\ spc = "codes" => snap.counted <= SumOver(errors[current], Codes \ unread)
  /\ spc \in {"intSuccess", "intErrors", "success", "errors"} =>
       snap.counted <= SumOver(errors[current], Codes)
  /\ ~overlapped /\ spc \in {"clearSuccess", "clearErrors"} => snap.counted <= snap.errCount

SnapInv == RateInv /\ LoadInv /\ CodesInv /\ SnapshotConsistent

IInv == TypeOK /\ MutexInv /\ MapInv /\ ClearedInv /\ TotalsInv /\ IntervalInv /\ SnapInv

-----------------------------------------------------------------------------
USE CollectorAssumption

IntervalType == [latencies : Nat, intSuccess : Nat, intErrors : Nat]
CallType == [success : Nat, errors : Nat]
PCs == {"idle", "addSuccess", "addIntervalSuccess", "addIntervalErrors", "lookUp",
        "addCounter", "appendLog"}

(* A step of one recorder moves it into, or out of, a set of requests.     *)
LEMMA OneMoves ==
  ASSUME NEW A, NEW B, IsFiniteSet(A), NEW w, A \ {w} = B \ {w}
  PROVE  /\ Cardinality(A) \in Nat /\ Cardinality(B) \in Nat
         /\ w \in A /\ w \notin B => Cardinality(B) = Cardinality(A) - 1
         /\ w \notin A /\ w \in B => Cardinality(B) = Cardinality(A) + 1
         /\ (w \in A <=> w \in B) => Cardinality(B) = Cardinality(A)
<1> DEFINE R == A \ {w}
<1>1. IsFiniteSet(R) /\ w \notin R
  BY FS_Subset
<1>2. /\ A = IF w \in A THEN R \cup {w} ELSE R
      /\ B = IF w \in B THEN R \cup {w} ELSE R
  OBVIOUS
<1> HIDE DEF R
<1>3. Cardinality(R) \in Nat /\ Cardinality(R \cup {w}) = Cardinality(R) + 1
  BY <1>1, FS_AddElement, FS_CardinalityType
<1>4. /\ Cardinality(A) = IF w \in A THEN Cardinality(R) + 1 ELSE Cardinality(R)
      /\ Cardinality(B) = IF w \in B THEN Cardinality(R) + 1 ELSE Cardinality(R)
  BY <1>2, <1>3
<1> QED
  BY <1>3, <1>4

LEMMA DueFinite ==
  /\ IsFiniteSet(SuccessDue) /\ IsFiniteSet(IntervalDue) /\ IsFiniteSet(ReportDue)
  /\ IsFiniteSet(IntErrorsDue) /\ IsFiniteSet(CodeDue)
BY CollectorAssumption, FS_Subset
   DEF SuccessDue, IntervalDue, ReportDue, IntErrorsDue, CodeDue

(* m counts one set more or less than n as a request comes and goes.        *)
Moves(n, m, was, is) ==
  /\ was /\ ~is => m = n - 1
  /\ ~was /\ is => m = n + 1
  /\ (was <=> is) => m = n

LEMMA DueStep ==
  ASSUME TypeOK, NEW w \in Recorders, NEW to \in PCs, wpc' = [wpc EXCEPT ![w] = to]
  PROVE  /\ Moves(Cardinality(SuccessDue), Cardinality(SuccessDue)',
                  wpc[w] = "addSuccess", to = "addSuccess")
         /\ Moves(Cardinality(IntervalDue), Cardinality(IntervalDue)',
                  wpc[w] = "addIntervalSuccess", to = "addIntervalSuccess")
         /\ Moves(Cardinality(ReportDue), Cardinality(ReportDue)',
                  wpc[w] \in {"addSuccess", "addIntervalSuccess"},
                  to \in {"addSuccess", "addIntervalSuccess"})
         /\ Moves(Cardinality(IntErrorsDue), Cardinality(IntErrorsDue)',
                  wpc[w] = "addIntervalErrors", to = "addIntervalErrors")
         /\ Moves(Cardinality(CodeDue), Cardinality(CodeDue)',
                  wpc[w] \in {"addIntervalErrors", "lookUp", "addCounter"},
                  to \in {"addIntervalErrors", "lookUp", "addCounter"})
<1>1. \A v \in Recorders \ {w} : wpc'[v] = wpc[v]
  BY DEF TypeOK
<1>2. wpc'[w] = to
  BY DEF TypeOK
<1>3. /\ SuccessDue \ {w} = SuccessDue' \ {w}
      /\ (w \in SuccessDue <=> wpc[w] = "addSuccess")
      /\ (w \in SuccessDue' <=> to = "addSuccess")
  BY <1>1, <1>2 DEF SuccessDue
<1>4. /\ IntervalDue \ {w} = IntervalDue' \ {w}
      /\ (w \in IntervalDue <=> wpc[w] = "addIntervalSuccess")
      /\ (w \in IntervalDue' <=> to = "addIntervalSuccess")
  BY <1>1, <1>2 DEF IntervalDue
<1>5. /\ ReportDue \ {w} = ReportDue' \ {w}
      /\ (w \in ReportDue <=> wpc[w] \in {"addSuccess", "addIntervalSuccess"})
      /\ (w \in ReportDue' <=> to \in {"addSuccess", "addIntervalSuccess"})
  BY <1>1, <1>2 DEF ReportDue
<1>6. /\ IntErrorsDue \ {w} = IntErrorsDue' \ {w}
      /\ (w \in IntErrorsDue <=> wpc[w] = "addIntervalErrors")
      /\ (w \in IntErrorsDue' <=> to = "addIntervalErrors")
  BY <1>1, <1>2 DEF IntErrorsDue
<1>7. /\ CodeDue \ {w} = CodeDue' \ {w}
      /\ (w \in CodeDue <=> wpc[w] \in {"addIntervalErrors", "lookUp", "addCounter"})
      /\ (w \in CodeDue' <=> to \in {"addIntervalErrors", "lookUp", "addCounter"})
  BY <1>1, <1>2 DEF CodeDue
<1>8. \A A, B : IsFiniteSet(A) /\ A \ {w} = B \ {w} =>
                 Moves(Cardinality(A), Cardinality(B), w \in A, w \in B)
  BY OneMoves DEF Moves
<1> QED
  BY <1>3, <1>4, <1>5, <1>6, <1>7, <1>8, DueFinite

LEMMA DueNat ==
  /\ Cardinality(SuccessDue) \in Nat /\ Cardinality(IntervalDue) \in Nat
  /\ Cardinality(ReportDue) \in Nat /\ Cardinality(IntErrorsDue) \in Nat
  /\ Cardinality(CodeDue) \in Nat
BY DueFinite, FS_CardinalityType

LEMMA DueSame ==
  ASSUME wpc' = wpc
  PROVE  /\ SuccessDue' = SuccessDue /\ IntervalDue' = IntervalDue /\ ReportDue' = ReportDue
         /\ IntErrorsDue' = IntErrorsDue /\ CodeDue' = CodeDue
BY DEF SuccessDue, IntervalDue, ReportDue, IntErrorsDue, CodeDue

LEMMA NothingDue ==
  ASSUME Busy = {}
  PROVE  /\ Cardinality(SuccessDue) = 0 /\ Cardinality(IntervalDue) = 0
         /\ Cardinality(ReportDue) = 0 /\ Cardinality(IntErrorsDue) = 0
         /\ Cardinality(CodeDue) = 0
<1>1. SuccessDue = {} /\ IntervalDue = {} /\ ReportDue = {} /\ IntErrorsDue = {} /\ CodeDue = {}
  BY DEF Busy, SuccessDue, IntervalDue, ReportDue, IntErrorsDue, CodeDue
<1> QED
  BY <1>1, FS_EmptySet

(* The counters of a map add up; incrementing one adds one to the sum.     *)
LEMMA ErrorsNat ==
  ASSUME TypeOK
  PROVE  current \in Maps /\ \A m \in Maps : \A code \in Codes : errors[m][code] \in Nat
<1>1. errors \in [Maps -> [Codes -> Nat]] /\ current \in Maps
  BY DEF TypeOK
<1> QED
  BY <1>1

LEMMA ErrorsNatNext ==
  ASSUME TypeOK'
  PROVE  current' \in Maps /\ \A m \in Maps : \A code \in Codes : errors'[m][code] \in Nat
<1>1. errors' \in [Maps -> [Codes -> Nat]] /\ current' \in Maps
  BY DEF TypeOK
<1> QED
  BY <1>1

LEMMA CountedNat ==
  ASSUME TypeOK, NEW m \in Maps, NEW S \in SUBSET Codes
  PROVE  /\ IsFiniteSet(S) /\ \A x \in S : errors[m][x] \in Nat
         /\ SumOver(errors[m], S) \in Nat
         /\ Counted(m) = SumOver(errors[m], Codes)
<1>1. IsFiniteSet(S) /\ \A x \in S : errors[m][x] \in Nat
  BY CollectorAssumption, FS_Subset DEF TypeOK
<1>2. Counted(m) = SumOver(errors[m], Codes)
  BY DEF Counted, SumOver
<1> QED
  BY <1>1, <1>2, SumNat

LEMMA CountedSum ==
  Counted(current) = SumOver(errors[current], Codes)
BY DEF Counted, SumOver

LEMMA CountedNext ==
  Counted(current)' = SumOver(errors'[current'], Codes)
<1>1. (Counted(current) = SumOver(errors[current], Codes))'
  BY CountedSum, PTL
<1> QED
  BY <1>1

LEMMA CountedStep ==
  ASSUME TypeOK, TypeOK', NEW m \in Maps, NEW code \in Codes,
         errors' = [errors EXCEPT ![m][code] = @ + 1], NEW n \in Maps, NEW S \in SUBSET Codes
  PROVE  SumOver(errors'[n], S) = SumOver(errors[n], S) + (IF n = m /\ code \in S THEN 1 ELSE 0)
<1> DEFINE f == errors[n]
           g == errors'[n]
<1>1. IsFiniteSet(S)
  BY CollectorAssumption, FS_Subset
<1>2. \A x \in S : f[x] \in Nat /\ g[x] \in Nat
  BY DEF TypeOK
<1>3. g = IF n = m THEN [f EXCEPT ![code] = @ + 1] ELSE f
  BY DEF TypeOK
<1>4. n = m => g[code] = f[code] + 1
  BY <1>3 DEF TypeOK
<1>5. \A x \in S : x # code => g[x] = f[x]
  BY <1>3 DEF TypeOK
<1> HIDE DEF f, g
<1>6. CASE n = m /\ code \in S
  <2>1. SumOver(g, S) = SumOver(f, S) + g[code] - f[code]
    BY <1>1, <1>2, <1>5, <1>6, SumUpdate
  <2>2. SumOver(f, S) \in Nat
    BY <1>1, <1>2, SumNat
  <2> QED
    BY <1>2, <1>4, <1>6, <2>1, <2>2 DEF f, g
<1>7. CASE ~(n = m /\ code \in S)
  <2>1. \A x \in S : g[x] = f[x]
    BY <1>3, <1>5, <1>7
  <2>2. SumOver(g, S) = SumOver(f, S) /\ SumOver(f, S) \in Nat
    BY <1>1, <1>2, <2>1, SumSame, SumNat
  <2> QED
    BY <1>7, <2>2 DEF f, g
<1> QED
  BY <1>6, <1>7


(* Increments keep the counters in Nat. *)
LEMMA AtomicType ==
  ASSUME TypeOK
  PROVE  \A field \in Atomics : /\ atomic[field] \in Nat
                                /\ [atomic EXCEPT ![field] = @ + 1] \in [Atomics -> Nat]
BY DEF TypeOK

LEMMA CounterTypes ==
  ASSUME TypeOK
  PROVE  /\ snap.actual \in Nat /\ snap.counted \in Nat /\ snap.latencies \in Nat
         /\ snap.intSuccess \in Nat /\ snap.intErrors \in Nat
         /\ snap.success \in Nat /\ snap.errCount \in Nat
         /\ reported.latencies \in Nat /\ reported.intSuccess \in Nat
         /\ reported.intErrors \in Nat /\ latencies \in Nat
         /\ calls.success \in Nat /\ calls.errors \in Nat
         /\ atomic.success \in Nat /\ atomic.errCount \in Nat
         /\ atomic.intSuccess \in Nat /\ atomic.intErrors \in Nat
<1>1. /\ snap \in SnapshotType
      /\ reported \in IntervalType
      /\ calls \in CallType
      /\ latencies \in Nat
  BY DEF TypeOK, IntervalType, CallType
<1>2. /\ snap.actual \in Nat /\ snap.counted \in Nat /\ snap.latencies \in Nat
      /\ snap.intSuccess \in Nat /\ snap.intErrors \in Nat
      /\ snap.success \in Nat /\ snap.errCount \in Nat
  BY <1>1 DEF SnapshotType
<1>3. /\ reported.latencies \in Nat /\ reported.intSuccess \in Nat
      /\ reported.intErrors \in Nat /\ calls.success \in Nat /\ calls.errors \in Nat
  BY <1>1 DEF IntervalType, CallType
<1>4. /\ atomic.success \in Nat /\ atomic.errCount \in Nat
      /\ atomic.intSuccess \in Nat /\ atomic.intErrors \in Nat
  BY AtomicType DEF Atomics
<1> QED
  BY <1>1, <1>2, <1>3, <1>4

-----------------------------------------------------------------------------
(* Type correctness.                                                       *)
LEMMA TypeStep ==
  ASSUME TypeOK, MapInv, [Next]_vars
  PROVE  TypeOK'
<1>1. ASSUME NEW w \in Recorders, Record(w) PROVE TypeOK'
  <2>1. CASE RecordLatency(w)
    <3>1. calls.success + 1 \in Nat /\ latencies + 1 \in Nat
      BY CounterTypes
    <3>2. calls' \in CallType
      BY <2>1, <3>1 DEF RecordLatency, WorkerAt, BeginCall, snapVars, TypeOK, CallType
    <3>3. /\ latencies' \in Nat
          /\ wpc' = [wpc EXCEPT ![w] = "addSuccess"]
          /\ overlapped' = (overlapped \/ cpc # "idle")
      BY <2>1, <3>1 DEF RecordLatency, WorkerAt, BeginCall, snapVars
    <3>4. UNCHANGED <<holder, atomic, errors, current, logged, counter, snapVars, cpc,
                      last, reported>>
      BY <2>1 DEF RecordLatency, WorkerAt
    <3> QED
      BY <3>2, <3>3, <3>4 DEF TypeOK, CallType, snapVars
  <2>2. CASE AddSuccess(w)
    <3>1. atomic' = [atomic EXCEPT !["success"] = @ + 1]
      BY <2>2 DEF AddSuccess, WorkerAt, Add, snapVars
    <3>2. atomic' \in [Atomics -> Nat]
      BY <3>1, AtomicType DEF Atomics
    <3> QED
      BY <2>2, <3>2 DEF AddSuccess, WorkerAt, Add, snapVars, TypeOK
  <2>3. CASE AddIntervalSuccess(w)
    <3>1. atomic' = [atomic EXCEPT !["intSuccess"] = @ + 1]
      BY <2>3 DEF AddIntervalSuccess, WorkerAt, Add, snapVars
    <3>2. atomic' \in [Atomics -> Nat]
      BY <3>1, AtomicType DEF Atomics
    <3> QED
      BY <2>3, <3>2 DEF AddIntervalSuccess, WorkerAt, Add, snapVars, TypeOK
  <2>4. CASE AddErrCount(w)
    <3>1. atomic' = [atomic EXCEPT !["errCount"] = @ + 1]
      BY <2>4 DEF AddErrCount, WorkerAt, Add, BeginCall, snapVars
    <3>2. atomic' \in [Atomics -> Nat]
      BY <3>1, AtomicType DEF Atomics
    <3>3. calls.errors + 1 \in Nat
      BY CounterTypes
    <3>4. calls' \in CallType
      BY <2>4, <3>3
         DEF AddErrCount, WorkerAt, Add, BeginCall, snapVars, TypeOK, CallType
    <3> QED
      BY <2>4, <3>2, <3>4
         DEF AddErrCount, WorkerAt, Add, BeginCall, snapVars, TypeOK, CallType
  <2>5. CASE AddIntervalErrors(w)
    <3>1. atomic' = [atomic EXCEPT !["intErrors"] = @ + 1]
      BY <2>5 DEF AddIntervalErrors, WorkerAt, Add, snapVars
    <3>2. atomic' \in [Atomics -> Nat]
      BY <3>1, AtomicType DEF Atomics
    <3> QED
      BY <2>5, <3>2 DEF AddIntervalErrors, WorkerAt, Add, snapVars, TypeOK
  <2>6. CASE LookUpCounter(w)
    <3>1. counter' \in [Recorders -> {<<>>} \cup (Maps \X Codes)]
      BY <2>6 DEF LookUpCounter, WorkerAt, snapVars, TypeOK
    <3> QED
      BY <2>6, <3>1
         DEF LookUpCounter, WorkerAt, snapVars, TypeOK, IntervalType, CallType
  <2>7. CASE AddCounter(w)
    <3>1. PICK m \in Maps, code \in Codes : counter[w] = <<m, code>>
      BY <2>7 DEF AddCounter, WorkerAt, snapVars, MapInv, Counting
    <3>2. errors' = [errors EXCEPT ![m][code] = @ + 1]
      BY <2>7, <3>1 DEF AddCounter, WorkerAt, snapVars
    <3>3. [errors[m] EXCEPT ![code] = @ + 1] \in [Codes -> Nat]
      BY <3>1 DEF TypeOK
    <3>4. errors' \in [Maps -> [Codes -> Nat]]
      BY <3>2, <3>3 DEF TypeOK
    <3>5. counter' \in [Recorders -> {<<>>} \cup (Maps \X Codes)]
      BY <2>7 DEF AddCounter, WorkerAt, snapVars, TypeOK
    <3> QED
      BY <2>7, <3>4, <3>5 DEF AddCounter, WorkerAt, snapVars, TypeOK
  <2>8. CASE AppendLog(w)
    BY <2>8 DEF AppendLog, WorkerAt, LogError, snapVars, TypeOK
  <2> QED
    BY <1>1, <2>1, <2>2, <2>3, <2>4, <2>5, <2>6, <2>7, <2>8 DEF Record
<1>2. CASE Snapshot
  <2>1. CASE LockSnapshot
    <3>1. snap' \in SnapshotType
      BY <2>1 DEF LockSnapshot, SnapAt, NoSnap, recVars, TypeOK, SnapshotType, Atomics
    <3>2. taken' \in 0..MaxSnapshots
      BY <2>1 DEF LockSnapshot, SnapAt, NoSnap, recVars, TypeOK
    <3> QED
      BY <2>1, <3>1, <3>2 DEF LockSnapshot, SnapAt, NoSnap, recVars, TypeOK
  <2>2. CASE LoadRateErrors
    <3>1. snap.actual + atomic.intErrors \in Nat
      BY CounterTypes
    <3>2. snap' \in SnapshotType
      BY <2>2, <3>1
         DEF LoadRateErrors, SnapAt, Take, snapVars, recVars, TypeOK, SnapshotType
    <3> QED
      BY <2>2, <3>2 DEF LoadRateErrors, SnapAt, Take, snapVars, recVars, TypeOK
  <2>3. CASE LoadCode
    <3>1. PICK code \in unread : snap' = [snap EXCEPT !.counted = @ + errors[current][code]]
      BY <2>3 DEF LoadCode, SnapAt, Take, recVars
    <3>2. snap.counted \in Nat /\ errors[current][code] \in Nat
      BY <3>1 DEF TypeOK, SnapshotType
    <3>3. snap.counted + errors[current][code] \in Nat
      BY <3>2
    <3>4. snap' \in SnapshotType
      BY <3>1, <3>3 DEF TypeOK, SnapshotType
    <3> QED
      BY <2>3, <3>4 DEF LoadCode, SnapAt, Take, recVars, TypeOK
  <2>4. CASE LoadIntervalSuccess
    <3>1. snap' \in SnapshotType
      BY <2>4
         DEF LoadIntervalSuccess, SnapAt, Load, Take, recVars, TypeOK, SnapshotType,
             Atomics
    <3> QED
      BY <2>4, <3>1
         DEF LoadIntervalSuccess, SnapAt, Load, Take, recVars, TypeOK, IntervalType,
             CallType
  <2>5. CASE LoadIntervalErrors
    <3>1. snap' \in SnapshotType
      BY <2>5
         DEF LoadIntervalErrors, SnapAt, Load, Take, recVars, TypeOK, SnapshotType,
             Atomics
    <3> QED
      BY <2>5, <3>1
         DEF LoadIntervalErrors, SnapAt, Load, Take, recVars, TypeOK, IntervalType,
             CallType
  <2>6. CASE LoadSuccess
    <3>1. snap' \in SnapshotType
      BY <2>6
         DEF LoadSuccess, SnapAt, Load, Take, recVars, TypeOK, SnapshotType, Atomics
    <3> QED
      BY <2>6, <3>1
         DEF LoadSuccess, SnapAt, Load, Take, recVars, TypeOK, IntervalType, CallType
  <2>7. CASE LoadErrors
    <3>1. snap' \in SnapshotType
      BY <2>7 DEF LoadErrors, SnapAt, Load, Take, recVars, TypeOK, SnapshotType, Atomics
    <3> QED
      BY <2>7, <3>1
         DEF LoadErrors, SnapAt, Load, Take, recVars, TypeOK, IntervalType, CallType
  <2>8. CASE ClearIntervalSuccess
    <3>1. atomic' \in [Atomics -> Nat]
      BY <2>8 DEF ClearIntervalSuccess, SnapAt, recVars, TypeOK, Atomics
    <3>2. snap' \in SnapshotType
      BY <2>8 DEF ClearIntervalSuccess, SnapAt, recVars, TypeOK, SnapshotType, Atomics
    <3>3. /\ reported.latencies + latencies \in Nat
          /\ reported.intSuccess + snap.intSuccess \in Nat
      BY CounterTypes
    <3>4. reported' \in IntervalType
      BY <2>8, <3>3 DEF ClearIntervalSuccess, SnapAt, recVars, TypeOK, IntervalType
    <3> QED
      BY <2>8, <3>1, <3>2, <3>4
         DEF ClearIntervalSuccess, SnapAt, recVars, TypeOK, IntervalType
  <2>9. CASE ReturnSnapshot
    <3>1. atomic' \in [Atomics -> Nat]
      BY <2>9 DEF ReturnSnapshot, SnapAt, EndSnapshot, NoSnap, recVars, TypeOK, Atomics
    <3>2. snap' \in SnapshotType
      BY <2>9
         DEF ReturnSnapshot, SnapAt, EndSnapshot, NoSnap, recVars, TypeOK, SnapshotType,
             Atomics
    <3>3. reported.intErrors + snap.intErrors \in Nat
      BY CounterTypes
    <3>4. reported' \in IntervalType
      BY <2>9, <3>3
         DEF ReturnSnapshot, SnapAt, EndSnapshot, NoSnap, recVars, TypeOK, IntervalType
    <3> QED
      BY <2>9, <3>1, <3>2, <3>4
         DEF ReturnSnapshot, SnapAt, EndSnapshot, NoSnap, recVars, TypeOK, IntervalType
  <2> QED
    BY <1>2, <2>1, <2>2, <2>3, <2>4, <2>5, <2>6, <2>7, <2>8, <2>9 DEF Snapshot
<1>3. CASE Reset
  <2>1. CASE LockReset
    <3>1. current' \in Maps
      BY <2>1
         DEF LockReset, ResetAt, NoSnap, NoIntervals, NoCalls, recVars, snapVars,
             TypeOK, Maps
    <3>2. last' \in SnapshotType /\ reported' \in IntervalType /\ calls' \in CallType
      BY <2>1
         DEF LockReset, ResetAt, NoSnap, NoIntervals, NoCalls, recVars, snapVars,
             SnapshotType, IntervalType, CallType
    <3> QED
      BY <2>1, <3>1, <3>2
         DEF LockReset, ResetAt, NoSnap, NoIntervals, NoCalls, recVars, snapVars,
             TypeOK, IntervalType, CallType
  <2>2. CASE ClearSuccess
    <3>1. atomic' \in [Atomics -> Nat]
      BY <2>2
         DEF ClearSuccess, ResetAt, Store, recVars, snapVars, history, TypeOK, Atomics
    <3> QED
      BY <2>2, <3>1
         DEF ClearSuccess, ResetAt, Store, recVars, snapVars, history, TypeOK,
             IntervalType, CallType
  <2>3. CASE ClearErrCount
    <3>1. atomic' \in [Atomics -> Nat]
      BY <2>3
         DEF ClearErrCount, ResetAt, Store, recVars, snapVars, history, TypeOK, Atomics
    <3> QED
      BY <2>3, <3>1
         DEF ClearErrCount, ResetAt, Store, recVars, snapVars, history, TypeOK,
             IntervalType, CallType
  <2>4. CASE ClearIntSuccess
    <3>1. atomic' \in [Atomics -> Nat]
      BY <2>4
         DEF ClearIntSuccess, ResetAt, Store, recVars, snapVars, history, TypeOK,
             Atomics
    <3> QED
      BY <2>4, <3>1
         DEF ClearIntSuccess, ResetAt, Store, recVars, snapVars, history, TypeOK,
             IntervalType, CallType
  <2>5. CASE ClearIntErrors
    <3>1. atomic' \in [Atomics -> Nat]
      BY <2>5
         DEF ClearIntErrors, ResetAt, Store, recVars, snapVars, history, TypeOK, Atomics
    <3> QED
      BY <2>5, <3>1
         DEF ClearIntErrors, ResetAt, Store, recVars, snapVars, history, TypeOK,
             IntervalType, CallType
  <2>6. CASE ClearLog
    BY <2>6 DEF ClearLog, ResetAt, recVars, snapVars, history, TypeOK
  <2> QED
    BY <1>3, <2>1, <2>2, <2>3, <2>4, <2>5, <2>6 DEF Reset
<1>4. CASE UNCHANGED vars
  BY <1>4 DEF vars, recVars, snapVars, data, history, TypeOK
<1> QED
  BY <1>1, <1>2, <1>3, <1>4 DEF Next

(* The mutex has one holder at a time.                                     *)
LEMMA MutexStep ==
  ASSUME TypeOK, MutexInv, [Next]_vars
  PROVE  MutexInv'
<1>1. ASSUME NEW w \in Recorders, Record(w) PROVE MutexInv'
  <2>1. CASE RecordLatency(w)
    BY <2>1 DEF RecordLatency, WorkerAt, BeginCall, snapVars, MutexInv
  <2>2. CASE AddSuccess(w)
    BY <2>2 DEF AddSuccess, WorkerAt, Add, snapVars, MutexInv
  <2>3. CASE AddIntervalSuccess(w)
    BY <2>3 DEF AddIntervalSuccess, WorkerAt, Add, snapVars, MutexInv
  <2>4. CASE AddErrCount(w)
    BY <2>4 DEF AddErrCount, WorkerAt, Add, BeginCall, snapVars, MutexInv
  <2>5. CASE AddIntervalErrors(w)
    BY <2>5 DEF AddIntervalErrors, WorkerAt, Add, snapVars, MutexInv
  <2>6. CASE LookUpCounter(w)
    BY <2>6 DEF LookUpCounter, WorkerAt, snapVars, MutexInv
  <2>7. CASE AddCounter(w)
    BY <2>7 DEF AddCounter, WorkerAt, snapVars, MutexInv
  <2>8. CASE AppendLog(w)
    BY <2>8 DEF AppendLog, WorkerAt, LogError, snapVars, MutexInv
  <2> QED
    BY <1>1, <2>1, <2>2, <2>3, <2>4, <2>5, <2>6, <2>7, <2>8 DEF Record
<1>2. CASE Snapshot
  <2>1. CASE LockSnapshot
    BY <2>1 DEF LockSnapshot, SnapAt, NoSnap, recVars, MutexInv
  <2>2. CASE LoadRateErrors
    BY <2>2 DEF LoadRateErrors, SnapAt, Take, snapVars, recVars, MutexInv
  <2>3. CASE LoadCode
    BY <2>3 DEF LoadCode, SnapAt, Take, recVars, MutexInv
  <2>4. CASE LoadIntervalSuccess
    BY <2>4 DEF LoadIntervalSuccess, SnapAt, Load, Take, recVars, MutexInv
  <2>5. CASE LoadIntervalErrors
    BY <2>5 DEF LoadIntervalErrors, SnapAt, Load, Take, recVars, MutexInv
  <2>6. CASE LoadSuccess
    BY <2>6 DEF LoadSuccess, SnapAt, Load, Take, recVars, MutexInv
  <2>7. CASE LoadErrors
    BY <2>7 DEF LoadErrors, SnapAt, Load, Take, recVars, MutexInv
  <2>8. CASE ClearIntervalSuccess
    BY <2>8 DEF ClearIntervalSuccess, SnapAt, recVars, MutexInv
  <2>9. CASE ReturnSnapshot
    BY <2>9 DEF ReturnSnapshot, SnapAt, EndSnapshot, NoSnap, recVars, MutexInv
  <2> QED
    BY <1>2, <2>1, <2>2, <2>3, <2>4, <2>5, <2>6, <2>7, <2>8, <2>9 DEF Snapshot
<1>3. CASE Reset
  <2>1. CASE LockReset
    BY <2>1
       DEF LockReset, ResetAt, NoSnap, NoIntervals, NoCalls, recVars, snapVars, MutexInv
  <2>2. CASE ClearSuccess
    BY <2>2 DEF ClearSuccess, ResetAt, Store, recVars, snapVars, history, MutexInv
  <2>3. CASE ClearErrCount
    BY <2>3 DEF ClearErrCount, ResetAt, Store, recVars, snapVars, history, MutexInv
  <2>4. CASE ClearIntSuccess
    BY <2>4 DEF ClearIntSuccess, ResetAt, Store, recVars, snapVars, history, MutexInv
  <2>5. CASE ClearIntErrors
    BY <2>5 DEF ClearIntErrors, ResetAt, Store, recVars, snapVars, history, MutexInv
  <2>6. CASE ClearLog
    BY <2>6 DEF ClearLog, ResetAt, recVars, snapVars, history, MutexInv
  <2> QED
    BY <1>3, <2>1, <2>2, <2>3, <2>4, <2>5, <2>6 DEF Reset
<1>4. CASE UNCHANGED vars
  BY <1>4 DEF vars, recVars, snapVars, data, history, MutexInv
<1> QED
  BY <1>1, <1>2, <1>3, <1>4 DEF Next

(* Counters are looked up in the current map.                              *)
LEMMA MapStep ==
  ASSUME TypeOK, MapInv, [Next]_vars
  PROVE  MapInv'
<1>1. ASSUME NEW w \in Recorders, Record(w) PROVE MapInv'
  <2>1. CASE RecordLatency(w)
    BY <2>1 DEF RecordLatency, WorkerAt, BeginCall, snapVars, TypeOK, MapInv, Counting
  <2>2. CASE AddSuccess(w)
    BY <2>2 DEF AddSuccess, WorkerAt, Add, snapVars, TypeOK, MapInv, Counting
  <2>3. CASE AddIntervalSuccess(w)
    BY <2>3 DEF AddIntervalSuccess, WorkerAt, Add, snapVars, TypeOK, MapInv, Counting
  <2>4. CASE AddErrCount(w)
    BY <2>4
       DEF AddErrCount, WorkerAt, Add, BeginCall, snapVars, TypeOK, MapInv, Counting
  <2>5. CASE AddIntervalErrors(w)
    BY <2>5 DEF AddIntervalErrors, WorkerAt, Add, snapVars, TypeOK, MapInv, Counting
  <2>6. CASE LookUpCounter(w)
    <3>1. PICK code \in Codes : counter' = [counter EXCEPT ![w] = <<current, code>>]
      BY <2>6 DEF LookUpCounter, WorkerAt, snapVars
    <3>2. counter'[w] \in Maps \X Codes /\ counter'[w][1] = current'
      BY <2>6, <3>1 DEF LookUpCounter, WorkerAt, snapVars, TypeOK
    <3>3. \A v \in Recorders \ {w} : wpc'[v] = wpc[v] /\ counter'[v] = counter[v]
      BY <2>6, <3>1 DEF LookUpCounter, WorkerAt, snapVars, TypeOK
    <3>4. current' \in Int /\ current' = current /\ errors' = errors /\ (overlapped => overlapped')
      BY <2>6 DEF LookUpCounter, WorkerAt, snapVars, TypeOK, Maps
    <3> QED
      BY <3>2, <3>3, <3>4 DEF MapInv, Counting
  <2>7. CASE AddCounter(w)
    <3>1. PICK m \in Maps, code \in Codes : counter[w] = <<m, code>> /\ m <= current
      BY <2>7 DEF AddCounter, WorkerAt, snapVars, MapInv, Counting
    <3>2. errors' = [errors EXCEPT ![m][code] = @ + 1]
      BY <2>7, <3>1 DEF AddCounter, WorkerAt, snapVars
    <3>3. \A n \in Maps : n > current => errors'[n] = errors[n]
      BY <3>1, <3>2 DEF TypeOK, Maps
    <3>4. \A v \in Counting' : v \in Counting /\ counter'[v] = counter[v]
      BY <2>7 DEF AddCounter, WorkerAt, snapVars, Counting, TypeOK
    <3>5. current' = current /\ (overlapped => overlapped')
      BY <2>7 DEF AddCounter, WorkerAt, snapVars
    <3> QED
      BY <3>3, <3>4, <3>5 DEF MapInv
  <2>8. CASE AppendLog(w)
    BY <2>8 DEF AppendLog, WorkerAt, LogError, snapVars, TypeOK, MapInv, Counting
  <2> QED
    BY <1>1, <2>1, <2>2, <2>3, <2>4, <2>5, <2>6, <2>7, <2>8 DEF Record
<1>2. CASE Snapshot
  <2>1. CASE LockSnapshot
    BY <2>1 DEF LockSnapshot, SnapAt, NoSnap, recVars, TypeOK, MapInv, Counting
  <2>2. CASE LoadRateErrors
    BY <2>2
       DEF LoadRateErrors, SnapAt, Take, snapVars, recVars, TypeOK, MapInv, Counting
  <2>3. CASE LoadCode
    BY <2>3 DEF LoadCode, SnapAt, Take, recVars, TypeOK, MapInv, Counting
  <2>4. CASE LoadIntervalSuccess
    BY <2>4
       DEF LoadIntervalSuccess, SnapAt, Load, Take, recVars, TypeOK, MapInv, Counting
  <2>5. CASE LoadIntervalErrors
    BY <2>5
       DEF LoadIntervalErrors, SnapAt, Load, Take, recVars, TypeOK, MapInv, Counting
  <2>6. CASE LoadSuccess
    BY <2>6 DEF LoadSuccess, SnapAt, Load, Take, recVars, TypeOK, MapInv, Counting
  <2>7. CASE LoadErrors
    BY <2>7 DEF LoadErrors, SnapAt, Load, Take, recVars, TypeOK, MapInv, Counting
  <2>8. CASE ClearIntervalSuccess
    BY <2>8 DEF ClearIntervalSuccess, SnapAt, recVars, TypeOK, MapInv, Counting
  <2>9. CASE ReturnSnapshot
    BY <2>9
       DEF ReturnSnapshot, SnapAt, EndSnapshot, NoSnap, recVars, TypeOK, MapInv,
           Counting
  <2> QED
    BY <1>2, <2>1, <2>2, <2>3, <2>4, <2>5, <2>6, <2>7, <2>8, <2>9 DEF Snapshot
<1>3. CASE Reset
  <2>1. CASE LockReset
    <3>1. /\ current' = current + 1
          /\ errors' = errors
          /\ wpc' = wpc
          /\ counter' = counter
          /\ overlapped' = (Busy # {})
      BY <2>1 DEF LockReset, ResetAt, NoSnap, NoIntervals, NoCalls, recVars, snapVars
    <3>2. ~overlapped' => Counting = {}
      BY <3>1 DEF Busy, Counting
    <3>3. Counting' = Counting
      BY <3>1 DEF Counting
    <3>4. \A m \in Maps : m > current + 1 => m > current
      BY DEF TypeOK, Maps
    <3>5. \A v \in Counting : counter[v][1] <= current => counter[v][1] <= current + 1
      BY DEF TypeOK, Maps, MapInv
    <3> QED
      BY <3>1, <3>2, <3>3, <3>4, <3>5 DEF MapInv
  <2>2. CASE ClearSuccess
    BY <2>2
       DEF ClearSuccess, ResetAt, Store, recVars, snapVars, history, TypeOK, MapInv,
           Counting
  <2>3. CASE ClearErrCount
    BY <2>3
       DEF ClearErrCount, ResetAt, Store, recVars, snapVars, history, TypeOK, MapInv,
           Counting
  <2>4. CASE ClearIntSuccess
    BY <2>4
       DEF ClearIntSuccess, ResetAt, Store, recVars, snapVars, history, TypeOK, MapInv,
           Counting
  <2>5. CASE ClearIntErrors
    BY <2>5
       DEF ClearIntErrors, ResetAt, Store, recVars, snapVars, history, TypeOK, MapInv,
           Counting
  <2>6. CASE ClearLog
    BY <2>6 DEF ClearLog, ResetAt, recVars, snapVars, history, TypeOK, MapInv, Counting
  <2> QED
    BY <1>3, <2>1, <2>2, <2>3, <2>4, <2>5, <2>6 DEF Reset
<1>4. CASE UNCHANGED vars
  BY <1>4 DEF vars, recVars, snapVars, data, history, TypeOK, MapInv, Counting
<1> QED
  BY <1>1, <1>2, <1>3, <1>4 DEF Next

(* Reset clears one field after the other.                                 *)
LEMMA ClearedStep ==
  ASSUME TypeOK, MutexInv, MapInv, ClearedInv, [Next]_vars
  PROVE  ClearedInv'
<1>1. ASSUME NEW w \in Recorders, Record(w) PROVE ClearedInv'
  <2>1. CASE RecordLatency(w)
    BY <2>1
       DEF RecordLatency, WorkerAt, BeginCall, snapVars, TypeOK, MutexInv, ClearedInv,
           Busy
  <2>2. CASE AddSuccess(w)
    BY <2>2 DEF AddSuccess, WorkerAt, Add, snapVars, TypeOK, MutexInv, ClearedInv, Busy
  <2>3. CASE AddIntervalSuccess(w)
    BY <2>3
       DEF AddIntervalSuccess, WorkerAt, Add, snapVars, TypeOK, MutexInv, ClearedInv,
           Busy
  <2>4. CASE AddErrCount(w)
    BY <2>4
       DEF AddErrCount, WorkerAt, Add, BeginCall, snapVars, TypeOK, MutexInv,
           ClearedInv, Busy
  <2>5. CASE AddIntervalErrors(w)
    BY <2>5
       DEF AddIntervalErrors, WorkerAt, Add, snapVars, TypeOK, MutexInv, ClearedInv,
           Busy
  <2>6. CASE LookUpCounter(w)
    BY <2>6 DEF LookUpCounter, WorkerAt, snapVars, TypeOK, MutexInv, ClearedInv, Busy
  <2>7. CASE AddCounter(w)
    BY <2>7 DEF AddCounter, WorkerAt, snapVars, TypeOK, MutexInv, ClearedInv, Busy
  <2>8. CASE AppendLog(w)
    BY <2>8
       DEF AppendLog, WorkerAt, LogError, snapVars, TypeOK, MutexInv, ClearedInv, Busy
  <2> QED
    BY <1>1, <2>1, <2>2, <2>3, <2>4, <2>5, <2>6, <2>7, <2>8 DEF Record
<1>2. CASE Snapshot
  <2>1. CASE LockSnapshot
    BY <2>1
       DEF LockSnapshot, SnapAt, NoSnap, recVars, TypeOK, MutexInv, ClearedInv, Busy
  <2>2. CASE LoadRateErrors
    BY <2>2
       DEF LoadRateErrors, SnapAt, Take, snapVars, recVars, TypeOK, MutexInv,
           ClearedInv, Busy
  <2>3. CASE LoadCode
    BY <2>3 DEF LoadCode, SnapAt, Take, recVars, TypeOK, MutexInv, ClearedInv, Busy
  <2>4. CASE LoadIntervalSuccess
    BY <2>4
       DEF LoadIntervalSuccess, SnapAt, Load, Take, recVars, TypeOK, MutexInv,
           ClearedInv, Busy
  <2>5. CASE LoadIntervalErrors
    BY <2>5
       DEF LoadIntervalErrors, SnapAt, Load, Take, recVars, TypeOK, MutexInv,
           ClearedInv, Busy
  <2>6. CASE LoadSuccess
    BY <2>6
       DEF LoadSuccess, SnapAt, Load, Take, recVars, TypeOK, MutexInv, ClearedInv, Busy
  <2>7. CASE LoadErrors
    BY <2>7
       DEF LoadErrors, SnapAt, Load, Take, recVars, TypeOK, MutexInv, ClearedInv, Busy
  <2>8. CASE ClearIntervalSuccess
    BY <2>8
       DEF ClearIntervalSuccess, SnapAt, recVars, TypeOK, MutexInv, ClearedInv, Busy
  <2>9. CASE ReturnSnapshot
    BY <2>9
       DEF ReturnSnapshot, SnapAt, EndSnapshot, NoSnap, recVars, TypeOK, MutexInv,
           ClearedInv, Busy
  <2> QED
    BY <1>2, <2>1, <2>2, <2>3, <2>4, <2>5, <2>6, <2>7, <2>8, <2>9 DEF Snapshot
<1>3. CASE Reset
  <2>1. CASE LockReset
    <3>1. /\ current' = current + 1
          /\ errors' = errors
          /\ wpc' = wpc
          /\ overlapped' = (Busy # {})
          /\ cpc' = "clearSuccess"
      BY <2>1 DEF LockReset, ResetAt, NoSnap, NoIntervals, NoCalls, recVars, snapVars
    <3>2. latencies' = 0 /\ reported' = NoIntervals /\ calls' = NoCalls
      BY <2>1 DEF LockReset, ResetAt, NoSnap, NoIntervals, NoCalls, recVars, snapVars
    <3>3. current + 1 \in Maps /\ current + 1 > current
      BY <2>1
         DEF LockReset, ResetAt, NoSnap, NoIntervals, NoCalls, recVars, snapVars,
             TypeOK, Maps
    <3>4. \A code \in Codes : errors'[current'][code] = 0
      BY <3>1, <3>3 DEF MapInv
    <3> QED
      BY <3>1, <3>2, <3>4 DEF ClearedInv, Busy
  <2>2. CASE ClearSuccess
    <3>1. /\ atomic'.success = 0
          /\ atomic'.errCount = atomic.errCount
          /\ atomic'.intSuccess = atomic.intSuccess
          /\ atomic'.intErrors = atomic.intErrors
      BY <2>2
         DEF ClearSuccess, ResetAt, Store, recVars, snapVars, history, TypeOK, Atomics
    <3> QED
      BY <2>2, <3>1
         DEF ClearSuccess, ResetAt, Store, recVars, snapVars, history, TypeOK, MutexInv,
             ClearedInv, Busy
  <2>3. CASE ClearErrCount
    <3>1. /\ atomic'.errCount = 0
          /\ atomic'.success = atomic.success
          /\ atomic'.intSuccess = atomic.intSuccess
          /\ atomic'.intErrors = atomic.intErrors
      BY <2>3
         DEF ClearErrCount, ResetAt, Store, recVars, snapVars, history, TypeOK, Atomics
    <3> QED
      BY <2>3, <3>1
         DEF ClearErrCount, ResetAt, Store, recVars, snapVars, history, TypeOK,
             MutexInv, ClearedInv, Busy
  <2>4. CASE ClearIntSuccess
    <3>1. /\ atomic'.intSuccess = 0
          /\ atomic'.success = atomic.success
          /\ atomic'.errCount = atomic.errCount
          /\ atomic'.intErrors = atomic.intErrors
      BY <2>4
         DEF ClearIntSuccess, ResetAt, Store, recVars, snapVars, history, TypeOK,
             Atomics
    <3> QED
      BY <2>4, <3>1
         DEF ClearIntSuccess, ResetAt, Store, recVars, snapVars, history, TypeOK,
             MutexInv, ClearedInv, Busy
  <2>5. CASE ClearIntErrors
    <3>1. /\ atomic'.intErrors = 0
          /\ atomic'.success = atomic.success
          /\ atomic'.errCount = atomic.errCount
          /\ atomic'.intSuccess = atomic.intSuccess
      BY <2>5
         DEF ClearIntErrors, ResetAt, Store, recVars, snapVars, history, TypeOK, Atomics
    <3> QED
      BY <2>5, <3>1
         DEF ClearIntErrors, ResetAt, Store, recVars, snapVars, history, TypeOK,
             MutexInv, ClearedInv, Busy
  <2>6. CASE ClearLog
    BY <2>6
       DEF ClearLog, ResetAt, recVars, snapVars, history, TypeOK, MutexInv, ClearedInv,
           Busy
  <2> QED
    BY <1>3, <2>1, <2>2, <2>3, <2>4, <2>5, <2>6 DEF Reset
<1>4. CASE UNCHANGED vars
  BY <1>4 DEF vars, recVars, snapVars, data, history, TypeOK, MutexInv, ClearedInv, Busy
<1> QED
  BY <1>1, <1>2, <1>3, <1>4 DEF Next

-----------------------------------------------------------------------------
(* What the steps of recorders and of Reset leave to a Snapshot in         *)
(* progress: counters only grow, and Reset waits for the mutex.            *)
LEMMA RecordEffect ==
  ASSUME TypeOK, TypeOK', MapInv, NEW w \in Recorders, Record(w)
  PROVE  /\ UNCHANGED <<current, snapVars, cpc, last, reported>>
         /\ overlapped' = (overlapped \/ cpc # "idle")
         /\ \A field \in Atomics : atomic[field] <= atomic'[field]
         /\ \A m \in Maps, code \in Codes : errors[m][code] <= errors'[m][code]
<1>1. /\ UNCHANGED <<current, snapVars, cpc, last, reported>>
      /\ overlapped' = (overlapped \/ cpc # "idle")
  BY
     DEF Record, RecordLatency, WorkerAt, BeginCall, snapVars, AddSuccess, Add,
         AddIntervalSuccess, AddErrCount, AddIntervalErrors, LookUpCounter, AddCounter,
         AppendLog, LogError
<1>2. /\ \A field \in Atomics : atomic[field] <= atomic'[field]
      /\ \A m \in Maps, code \in Codes : errors[m][code] <= errors'[m][code]
  <2>1. /\ \A field \in Atomics : atomic[field] \in Int
        /\ \A m \in Maps, code \in Codes : errors[m][code] \in Int
    BY AtomicType, ErrorsNat
  <2>2. CASE RecordLatency(w)
    <3>1. atomic' = atomic /\ errors' = errors
      BY <2>2 DEF RecordLatency, WorkerAt, BeginCall, snapVars
    <3> QED
      BY <2>1, <3>1
  <2>3. CASE AddSuccess(w)
    <3>1. atomic' = [atomic EXCEPT !["success"] = @ + 1] /\ errors' = errors
      BY <2>3 DEF AddSuccess, WorkerAt, Add, snapVars
    <3>2. \A field \in Atomics : atomic'[field] \in {atomic[field], atomic[field] + 1}
      BY <3>1 DEF TypeOK
    <3> QED
      BY <2>1, <3>1, <3>2
  <2>4. CASE AddIntervalSuccess(w)
    <3>1. atomic' = [atomic EXCEPT !["intSuccess"] = @ + 1] /\ errors' = errors
      BY <2>4 DEF AddIntervalSuccess, WorkerAt, Add, snapVars
    <3>2. \A field \in Atomics : atomic'[field] \in {atomic[field], atomic[field] + 1}
      BY <3>1 DEF TypeOK
    <3> QED
      BY <2>1, <3>1, <3>2
  <2>5. CASE AddErrCount(w)
    <3>1. atomic' = [atomic EXCEPT !["errCount"] = @ + 1] /\ errors' = errors
      BY <2>5 DEF AddErrCount, WorkerAt, Add, BeginCall, snapVars
    <3>2. \A field \in Atomics : atomic'[field] \in {atomic[field], atomic[field] + 1}
      BY <3>1 DEF TypeOK
    <3> QED
      BY <2>1, <3>1, <3>2
  <2>6. CASE AddIntervalErrors(w)
    <3>1. atomic' = [atomic EXCEPT !["intErrors"] = @ + 1] /\ errors' = errors
      BY <2>6 DEF AddIntervalErrors, WorkerAt, Add, snapVars
    <3>2. \A field \in Atomics : atomic'[field] \in {atomic[field], atomic[field] + 1}
      BY <3>1 DEF TypeOK
    <3> QED
      BY <2>1, <3>1, <3>2
  <2>7. CASE LookUpCounter(w)
    <3>1. atomic' = atomic /\ errors' = errors
      BY <2>7 DEF LookUpCounter, WorkerAt, snapVars
    <3> QED
      BY <2>1, <3>1
  <2>8. CASE AddCounter(w)
    <3>1. PICK m \in Maps, code \in Codes : counter[w] = <<m, code>>
      BY <2>8 DEF AddCounter, WorkerAt, snapVars, MapInv, Counting
    <3>2. errors' = [errors EXCEPT ![m][code] = @ + 1] /\ atomic' = atomic
      BY <2>8, <3>1 DEF AddCounter, WorkerAt, snapVars
    <3>3. \A k \in Maps, c \in Codes : errors'[k][c] \in {errors[k][c], errors[k][c] + 1}
      BY <3>2 DEF TypeOK
    <3> QED
      BY <2>1, <3>2, <3>3
  <2>9. CASE AppendLog(w)
    <3>1. atomic' = atomic /\ errors' = errors
      BY <2>9 DEF AppendLog, WorkerAt, LogError, snapVars
    <3> QED
      BY <2>1, <3>1
  <2> QED
    BY <2>2, <2>3, <2>4, <2>5, <2>6, <2>7, <2>8, <2>9 DEF Record
<1> QED
  BY <1>1, <1>2

LEMMA ResetEffect ==
  ASSUME MutexInv, Reset
  PROVE  /\ spc = "idle" /\ spc' = "idle"
         /\ last' = NoSnap \/ (last' = last /\ overlapped' = overlapped)
BY
   DEF Reset, MutexInv, LockReset, ResetAt, NoSnap, NoIntervals, NoCalls, recVars,
       snapVars, ClearSuccess, Store, history, ClearErrCount, ClearIntSuccess,
       ClearIntErrors, ClearLog

LEMMA AtomicNat ==
  ASSUME TypeOK'
  PROVE  \A field \in Atomics : atomic'[field] \in Nat
BY DEF TypeOK

(* The rate is computed from the first loads of the atomics.               *)
LEMMA RateStep ==
  ASSUME TypeOK, TypeOK', MutexInv, MapInv, RateInv, [Next]_vars
  PROVE  RateInv'
<1>1. ASSUME NEW w \in Recorders, Record(w) PROVE RateInv'
  <2>1. /\ UNCHANGED snapVars /\ (~overlapped' => ~overlapped)
        /\ atomic.intSuccess <= atomic'.intSuccess /\ atomic.intErrors <= atomic'.intErrors
    BY <1>1, RecordEffect DEF Atomics
  <2>2. atomic'.intSuccess \in Nat /\ atomic'.intErrors \in Nat
    BY AtomicNat DEF Atomics
  <2> QED
    BY <2>1, <2>2, CounterTypes DEF RateInv, Loaded, snapVars
<1>2. CASE Snapshot
  <2>1. CASE LockSnapshot
    BY <2>1, CounterTypes
       DEF LockSnapshot, SnapAt, NoSnap, recVars, MutexInv, RateInv, Loaded
  <2>2. CASE LoadRateErrors
    BY <2>2, CounterTypes
       DEF LoadRateErrors, SnapAt, Take, snapVars, recVars, MutexInv, RateInv, Loaded
  <2>3. CASE LoadCode
    BY <2>3, CounterTypes DEF LoadCode, SnapAt, Take, recVars, MutexInv, RateInv, Loaded
  <2>4. CASE LoadIntervalSuccess
    <3>1. snap'.intSuccess = atomic.intSuccess /\ snap'.actual = snap.actual /\ atomic' = atomic
      BY <2>4 DEF LoadIntervalSuccess, SnapAt, Load, Take, recVars, TypeOK, SnapshotType
    <3> QED
      BY <2>4, <3>1, CounterTypes
         DEF LoadIntervalSuccess, SnapAt, Load, Take, recVars, MutexInv, RateInv, Loaded
  <2>5. CASE LoadIntervalErrors
    <3>1. /\ snap'.intErrors = atomic.intErrors
          /\ snap'.actual = snap.actual
          /\ atomic' = atomic
          /\ snap'.intSuccess = snap.intSuccess
      BY <2>5 DEF LoadIntervalErrors, SnapAt, Load, Take, recVars, TypeOK, SnapshotType
    <3> QED
      BY <2>5, <3>1, CounterTypes
         DEF LoadIntervalErrors, SnapAt, Load, Take, recVars, MutexInv, RateInv, Loaded
  <2>6. CASE LoadSuccess
    BY <2>6, CounterTypes
       DEF LoadSuccess, SnapAt, Load, Take, recVars, MutexInv, RateInv, Loaded
  <2>7. CASE LoadErrors
    BY <2>7, CounterTypes
       DEF LoadErrors, SnapAt, Load, Take, recVars, MutexInv, RateInv, Loaded
  <2>8. CASE ClearIntervalSuccess
    BY <2>8, CounterTypes
       DEF ClearIntervalSuccess, SnapAt, recVars, MutexInv, RateInv, Loaded
  <2>9. CASE ReturnSnapshot
    BY <2>9, CounterTypes
       DEF ReturnSnapshot, SnapAt, EndSnapshot, NoSnap, recVars, MutexInv, RateInv,
           Loaded
  <2> QED
    BY <1>2, <2>1, <2>2, <2>3, <2>4, <2>5, <2>6, <2>7, <2>8, <2>9 DEF Snapshot
<1>3. CASE Reset
  BY <1>3, ResetEffect DEF MutexInv, RateInv, Loaded
<1>4. CASE UNCHANGED vars
  BY <1>4 DEF vars, snapVars, data, history, MutexInv, RateInv, Loaded
<1> QED
  BY <1>1, <1>2, <1>3, <1>4 DEF Next

(* The later loads find no less than the earlier ones.                     *)
LEMMA LoadStep ==
  ASSUME TypeOK, TypeOK', MutexInv, MapInv, IntervalInv, LoadInv, [Next]_vars
  PROVE  LoadInv'
<1>1. ASSUME NEW w \in Recorders, Record(w) PROVE LoadInv'
  <2>1. /\ UNCHANGED snapVars /\ (~overlapped' => ~overlapped)
        /\ atomic.intSuccess <= atomic'.intSuccess /\ atomic.intErrors <= atomic'.intErrors
    BY <1>1, RecordEffect DEF Atomics
  <2>2. atomic'.intSuccess \in Nat /\ atomic'.intErrors \in Nat
    BY AtomicNat DEF Atomics
  <2> QED
    BY <2>1, <2>2, CounterTypes DEF LoadInv, Loaded, snapVars
<1>2. CASE Snapshot
  <2>1. CASE LockSnapshot
    BY <2>1, CounterTypes DEF LockSnapshot, SnapAt, NoSnap, recVars, LoadInv, Loaded
  <2>2. CASE LoadRateErrors
    BY <2>2, CounterTypes
       DEF LoadRateErrors, SnapAt, Take, snapVars, recVars, LoadInv, Loaded
  <2>3. CASE LoadCode
    BY <2>3, CounterTypes DEF LoadCode, SnapAt, Take, recVars, LoadInv, Loaded
  <2>4. CASE LoadIntervalSuccess
    <3>1. snap'.intSuccess = atomic.intSuccess /\ atomic' = atomic
      BY <2>4 DEF LoadIntervalSuccess, SnapAt, Load, Take, recVars, TypeOK, SnapshotType
    <3> QED
      BY <2>4, <3>1, CounterTypes
         DEF LoadIntervalSuccess, SnapAt, Load, Take, recVars, LoadInv, Loaded
  <2>5. CASE LoadIntervalErrors
    <3>1. /\ snap'.intErrors = atomic.intErrors
          /\ atomic' = atomic
          /\ snap'.intSuccess = snap.intSuccess
      BY <2>5 DEF LoadIntervalErrors, SnapAt, Load, Take, recVars, TypeOK, SnapshotType
    <3> QED
      BY <2>5, <3>1, CounterTypes
         DEF LoadIntervalErrors, SnapAt, Load, Take, recVars, LoadInv, Loaded
  <2>6. CASE LoadSuccess
    <3>1. /\ snap'.success = atomic.success
          /\ atomic' = atomic
          /\ snap'.intSuccess = snap.intSuccess
          /\ snap'.intErrors = snap.intErrors
      BY <2>6 DEF LoadSuccess, SnapAt, Load, Take, recVars, TypeOK, SnapshotType
    <3>2. ~overlapped => snap.intSuccess <= atomic.success
      BY <2>6, CounterTypes, DueNat
         DEF LoadSuccess, SnapAt, Load, Take, recVars, MutexInv, LoadInv, IntervalInv
    <3> QED
      BY <2>6, <3>1, <3>2, CounterTypes
         DEF LoadSuccess, SnapAt, Load, Take, recVars, LoadInv, Loaded
  <2>7. CASE LoadErrors
    <3>1. /\ snap'.errCount = atomic.errCount
          /\ atomic' = atomic
          /\ snap'.intSuccess = snap.intSuccess
          /\ snap'.intErrors = snap.intErrors
          /\ snap'.success = snap.success
      BY <2>7 DEF LoadErrors, SnapAt, Load, Take, recVars, TypeOK, SnapshotType
    <3>2. ~overlapped => snap.intErrors <= atomic.errCount
      BY <2>7, CounterTypes, DueNat
         DEF LoadErrors, SnapAt, Load, Take, recVars, MutexInv, LoadInv, Loaded,
             IntervalInv
    <3> QED
      BY <2>7, <3>1, <3>2, CounterTypes
         DEF LoadErrors, SnapAt, Load, Take, recVars, LoadInv, Loaded
  <2>8. CASE ClearIntervalSuccess
    <3>1. /\ snap'.intSuccess = snap.intSuccess
          /\ snap'.intErrors = snap.intErrors
          /\ snap'.success = snap.success
          /\ snap'.errCount = snap.errCount
          /\ atomic'.intErrors = atomic.intErrors
      BY <2>8 DEF ClearIntervalSuccess, SnapAt, recVars, TypeOK, SnapshotType, Atomics
    <3> QED
      BY <2>8, <3>1, CounterTypes
         DEF ClearIntervalSuccess, SnapAt, recVars, LoadInv, Loaded
  <2>9. CASE ReturnSnapshot
    BY <2>9, CounterTypes
       DEF ReturnSnapshot, SnapAt, EndSnapshot, NoSnap, recVars, LoadInv, Loaded
  <2> QED
    BY <1>2, <2>1, <2>2, <2>3, <2>4, <2>5, <2>6, <2>7, <2>8, <2>9 DEF Snapshot
<1>3. CASE Reset
  BY <1>3, ResetEffect DEF LoadInv, Loaded
<1>4. CASE UNCHANGED vars
  BY <1>4 DEF vars, snapVars, data, history, LoadInv, Loaded
<1> QED
  BY <1>1, <1>2, <1>3, <1>4 DEF Next

(* What has been read of the counters per code.                            *)
LEMMA CodesStep ==
  ASSUME TypeOK, TypeOK', MutexInv, MapInv, TotalsInv, CodesInv, [Next]_vars
  PROVE  CodesInv'
<1>1. ASSUME NEW w \in Recorders, Record(w) PROVE CodesInv'
  <2>1. /\ UNCHANGED <<snapVars, current>> /\ (~overlapped' => ~overlapped)
        /\ \A code \in Codes : errors[current][code] <= errors'[current][code]
    BY <1>1, RecordEffect DEF TypeOK
  <2>2. ASSUME NEW S \in SUBSET Codes
        PROVE  SumOver(errors[current], S) <= SumOver(errors'[current], S)
    <3> DEFINE f == errors[current]
               g == errors'[current]
    <3>1. \A x \in S : f[x] \in Nat /\ g[x] \in Nat /\ f[x] <= g[x]
      BY <2>1, ErrorsNat, ErrorsNatNext
    <3>2. IsFiniteSet(S)
      BY CollectorAssumption, FS_Subset
    <3> HIDE DEF f, g
    <3>3. SumOver(f, S) <= SumOver(g, S)
      BY <3>1, <3>2, SumMonotone
    <3> QED
      BY <3>3 DEF f, g
  <2>3. \A S \in SUBSET Codes : /\ SumOver(errors[current], S) \in Nat
                                /\ SumOver(errors'[current], S) \in Nat
    <3>1. \A S \in SUBSET Codes : SumOver(errors[current], S) \in Nat
      BY CountedNat DEF TypeOK
    <3>2. \A S \in SUBSET Codes : SumOver(errors'[current], S) \in Nat
      <4> SUFFICES ASSUME NEW S \in SUBSET Codes PROVE SumOver(errors'[current], S) \in Nat
        OBVIOUS
      <4>1. IsFiniteSet(S)
        BY CollectorAssumption, FS_Subset
      <4>2. \A x \in S : errors'[current][x] \in Nat
        BY <2>1, ErrorsNatNext
      <4> QED
        BY <4>1, <4>2, SumNat
    <3> QED
      BY <3>1, <3>2
  <2>4. Codes \ unread \in SUBSET Codes /\ snap.counted \in Nat
    BY CounterTypes
  <2> QED
    BY <2>1, <2>2, <2>3, <2>4 DEF CodesInv, snapVars
<1>2. CASE Snapshot
  <2>1. CASE LockSnapshot
    <3>1. snap'.counted = 0 /\ spc' = "rateErrors"
      BY <2>1 DEF LockSnapshot, SnapAt, NoSnap, recVars, TypeOK, SnapshotType
    <3> QED
      BY <3>1 DEF CodesInv
  <2>2. CASE LoadRateErrors
    <3>1. /\ snap'.counted = 0
          /\ spc' = "codes"
          /\ unread' = Codes
          /\ errors' = errors
          /\ current' = current
      BY <2>2
         DEF LoadRateErrors, SnapAt, Take, snapVars, recVars, TypeOK, SnapshotType,
             CodesInv
    <3>2. SumOver(errors[current], Codes \ unread') = 0
      BY <3>1, SumEmpty
    <3> QED
      BY <3>1, <3>2 DEF CodesInv
  <2>3. CASE LoadCode
    <3>1. PICK code \in unread :
            /\ Take("codes", [snap EXCEPT !.counted = @ + errors[current][code]],
                    IF unread = {code} THEN "intSuccess" ELSE "codes")
            /\ unread' = unread \ {code}
      BY <2>3 DEF LoadCode
    <3>2. /\ snap' = [snap EXCEPT !.counted = @ + errors[current][code]]
          /\ errors' = errors /\ current' = current /\ spc = "codes"
          /\ spc' = IF unread = {code} THEN "intSuccess" ELSE "codes"
      BY <3>1 DEF Take, SnapAt
    <3>3. snap'.counted = snap.counted + errors[current][code]
      BY <3>2 DEF TypeOK, SnapshotType
    <3> DEFINE R == Codes \ unread
               S == Codes \ unread'
    <3>4. R \in SUBSET Codes /\ S \in SUBSET Codes
      OBVIOUS
    <3>5. code \in Codes /\ code \in S
      BY <3>1 DEF TypeOK
    <3>6. S \ {code} = R
      BY <3>1, <3>5
    <3>7. unread = {code} => S = Codes
      BY <3>1
    <3> HIDE DEF R, S
    <3>8. /\ IsFiniteSet(S) /\ \A x \in S : errors[current][x] \in Nat
          /\ SumOver(errors[current], R) \in Nat
      BY <3>4, CountedNat, ErrorsNat
    <3>9. SumOver(errors[current], S) = errors[current][code] + SumOver(errors[current], R)
      BY <3>5, <3>6, <3>8, SumAny
    <3>10. snap.counted <= SumOver(errors[current], R)
      BY <3>2 DEF CodesInv, R
    <3>11. snap'.counted <= SumOver(errors[current], S)
      BY <3>3, <3>5, <3>8, <3>9, <3>10, CounterTypes, ErrorsNat
    <3> QED
      BY <3>2, <3>7, <3>11 DEF CodesInv, S
  <2>4. CASE LoadIntervalSuccess
    <3>1. snap'.counted = snap.counted /\ errors' = errors /\ current' = current
      BY <2>4 DEF LoadIntervalSuccess, SnapAt, Load, Take, recVars, TypeOK, SnapshotType
    <3> QED
      BY <2>4, <3>1 DEF LoadIntervalSuccess, SnapAt, Load, Take, recVars, CodesInv
  <2>5. CASE LoadIntervalErrors
    <3>1. snap'.counted = snap.counted /\ errors' = errors /\ current' = current
      BY <2>5 DEF LoadIntervalErrors, SnapAt, Load, Take, recVars, TypeOK, SnapshotType
    <3> QED
      BY <2>5, <3>1 DEF LoadIntervalErrors, SnapAt, Load, Take, recVars, CodesInv
  <2>6. CASE LoadSuccess
    <3>1. snap'.counted = snap.counted /\ errors' = errors /\ current' = current
      BY <2>6 DEF LoadSuccess, SnapAt, Load, Take, recVars, TypeOK, SnapshotType
    <3> QED
      BY <2>6, <3>1 DEF LoadSuccess, SnapAt, Load, Take, recVars, CodesInv
  <2>7. CASE LoadErrors
    <3>1. snap'.counted = snap.counted /\ snap'.errCount = atomic.errCount
      BY <2>7 DEF LoadErrors, SnapAt, Load, Take, recVars, TypeOK, SnapshotType
    <3>2. ~overlapped => Counted(current) <= atomic.errCount
      <4>1. cpc = "idle"
        BY <2>7 DEF LoadErrors, Load, Take, SnapAt, MutexInv
      <4>2. Cardinality(CodeDue) \in Nat /\ Counted(current) \in Nat
        BY DueNat, CountedNat, ErrorsNat
      <4> QED
        BY <4>1, <4>2 DEF TotalsInv
    <3>3. snap.counted <= Counted(current) /\ Counted(current) \in Nat
      BY <2>7, CountedNat, ErrorsNat DEF LoadErrors, SnapAt, Load, Take, CodesInv
    <3> QED
      BY <2>7, <3>1, <3>2, <3>3, CounterTypes
         DEF LoadErrors, SnapAt, Load, Take, recVars, CodesInv
  <2>8. CASE ClearIntervalSuccess
    <3>1. snap'.counted = snap.counted /\ snap'.errCount = snap.errCount
      BY <2>8 DEF ClearIntervalSuccess, SnapAt, recVars, TypeOK, SnapshotType
    <3> QED
      BY <2>8, <3>1, CounterTypes DEF ClearIntervalSuccess, SnapAt, recVars, CodesInv
  <2>9. CASE ReturnSnapshot
    BY <2>9, CounterTypes
       DEF ReturnSnapshot, SnapAt, EndSnapshot, NoSnap, recVars, CodesInv
  <2> QED
    BY <1>2, <2>1, <2>2, <2>3, <2>4, <2>5, <2>6, <2>7, <2>8, <2>9 DEF Snapshot
<1>3. CASE Reset
  BY <1>3, ResetEffect DEF CodesInv
<1>4. CASE UNCHANGED vars
  BY <1>4 DEF vars, snapVars, data, history, CodesInv
<1> QED
  BY <1>1, <1>2, <1>3, <1>4 DEF Next

(* The snapshot that is returned.                                          *)
LEMMA ConsistentStep ==
  ASSUME TypeOK, TypeOK', MutexInv, MapInv, RateInv, LoadInv, CodesInv,
         SnapshotConsistent, [Next]_vars
  PROVE  SnapshotConsistent'
<1>1. ASSUME NEW w \in Recorders, Record(w) PROVE SnapshotConsistent'
  <2>1. last' = last /\ (~overlapped' => ~overlapped)
    BY <1>1, RecordEffect
  <2> QED
    BY <2>1 DEF SnapshotConsistent
<1>2. CASE Snapshot
  <2>1. CASE LockSnapshot
    <3>1. last' = last /\ overlapped' = overlapped
      BY <2>1 DEF LockSnapshot, SnapAt, NoSnap, recVars
    <3> QED
      BY <3>1 DEF SnapshotConsistent
  <2>2. CASE LoadRateErrors
    <3>1. last' = last /\ overlapped' = overlapped
      BY <2>2 DEF LoadRateErrors, SnapAt, Take, snapVars, recVars
    <3> QED
      BY <3>1 DEF SnapshotConsistent
  <2>3. CASE LoadCode
    <3>1. last' = last /\ overlapped' = overlapped
      BY <2>3 DEF LoadCode, SnapAt, Take, recVars
    <3> QED
      BY <3>1 DEF SnapshotConsistent
  <2>4. CASE LoadIntervalSuccess
    <3>1. last' = last /\ overlapped' = overlapped
      BY <2>4 DEF LoadIntervalSuccess, SnapAt, Load, Take, recVars
    <3> QED
      BY <3>1 DEF SnapshotConsistent
  <2>5. CASE LoadIntervalErrors
    <3>1. last' = last /\ overlapped' = overlapped
      BY <2>5 DEF LoadIntervalErrors, SnapAt, Load, Take, recVars
    <3> QED
      BY <3>1 DEF SnapshotConsistent
  <2>6. CASE LoadSuccess
    <3>1. last' = last /\ overlapped' = overlapped
      BY <2>6 DEF LoadSuccess, SnapAt, Load, Take, recVars
    <3> QED
      BY <3>1 DEF SnapshotConsistent
  <2>7. CASE LoadErrors
    <3>1. last' = last /\ overlapped' = overlapped
      BY <2>7 DEF LoadErrors, SnapAt, Load, Take, recVars
    <3> QED
      BY <3>1 DEF SnapshotConsistent
  <2>8. CASE ClearIntervalSuccess
    <3>1. last' = last /\ overlapped' = overlapped
      BY <2>8 DEF ClearIntervalSuccess, SnapAt, recVars
    <3> QED
      BY <3>1 DEF SnapshotConsistent
  <2>9. CASE ReturnSnapshot
    <3>1. last' = snap /\ overlapped' = overlapped
      BY <2>9 DEF ReturnSnapshot, SnapAt, EndSnapshot, NoSnap, recVars
    <3>2. SnapshotConsistent'
      BY <2>9, <3>1
         DEF ReturnSnapshot, SnapAt, EndSnapshot, NoSnap, recVars, SnapshotConsistent,
             RateInv, LoadInv, CodesInv, Loaded
    <3> QED
      BY <3>2
  <2> QED
    BY <1>2, <2>1, <2>2, <2>3, <2>4, <2>5, <2>6, <2>7, <2>8, <2>9 DEF Snapshot
<1>3. CASE Reset
  BY <1>3, ResetEffect DEF SnapshotConsistent, NoSnap
<1>4. CASE UNCHANGED vars
  BY <1>4 DEF vars, snapVars, data, history, SnapshotConsistent, NoSnap
<1> QED
  BY <1>1, <1>2, <1>3, <1>4 DEF Next

-----------------------------------------------------------------------------
(* The counts change together.                                             *)
CountInv == TotalsInv /\ IntervalInv

LEMMA CountsSame ==
  ASSUME CountInv, UNCHANGED <<wpc, cpc, atomic, latencies, errors, current, reported,
                               calls, overlapped>>
  PROVE  CountInv'
<1>1. /\ SuccessDue' = SuccessDue /\ IntervalDue' = IntervalDue /\ ReportDue' = ReportDue
          /\ IntErrorsDue' = IntErrorsDue /\ CodeDue' = CodeDue
  BY DueSame
<1>2. Counted(current)' = Counted(current)
  BY CountedSum, CountedNext
<1> QED
  BY <1>1, <1>2 DEF CountInv, TotalsInv, IntervalInv

LEMMA CountNat ==
  ASSUME TypeOK
  PROVE  /\ Cardinality(SuccessDue) \in Nat
         /\ Cardinality(IntervalDue) \in Nat
         /\ Cardinality(ReportDue) \in Nat
         /\ Cardinality(IntErrorsDue) \in Nat
         /\ Cardinality(CodeDue) \in Nat
         /\ Counted(current) \in Nat
BY DueNat, CountedNat, ErrorsNat

LEMMA CountStep ==
  ASSUME TypeOK, TypeOK', MutexInv, MapInv, ClearedInv, LoadInv, CountInv, [Next]_vars
  PROVE  CountInv'
<1>1. ASSUME NEW w \in Recorders, Record(w) PROVE CountInv'
  <2>0. reported' = reported /\ (~overlapped' /\ cpc' = "idle" => ~overlapped /\ cpc = "idle")
    BY <1>1, RecordEffect
  <2>00. /\ atomic.success \in Int /\ atomic.errCount \in Int
         /\ atomic.intSuccess \in Int /\ atomic.intErrors \in Int
         /\ reported.latencies \in Int /\ reported.intSuccess \in Int
         /\ reported.intErrors \in Int /\ latencies \in Int
         /\ calls.success \in Int /\ calls.errors \in Int
         /\ Counted(current) \in Int
         /\ Cardinality(SuccessDue) \in Int
         /\ Cardinality(IntervalDue) \in Int
         /\ Cardinality(ReportDue) \in Int
         /\ Cardinality(IntErrorsDue) \in Int
         /\ Cardinality(CodeDue) \in Int
    BY CountNat, CounterTypes
  <2>1. CASE RecordLatency(w)
    <3>1. /\ Cardinality(SuccessDue)' = Cardinality(SuccessDue) + 1
          /\ Cardinality(IntervalDue)' = Cardinality(IntervalDue)
          /\ Cardinality(ReportDue)' = Cardinality(ReportDue) + 1
          /\ Cardinality(IntErrorsDue)' = Cardinality(IntErrorsDue)
          /\ Cardinality(CodeDue)' = Cardinality(CodeDue)
      <4>1. wpc[w] = "idle" /\ wpc' = [wpc EXCEPT ![w] = "addSuccess"]
        BY <2>1 DEF RecordLatency, WorkerAt, BeginCall, snapVars
      <4>2. "addSuccess" \in PCs
        BY DEF PCs
      <4> QED
        BY <4>1, <4>2, DueStep, CountNat DEF Moves
    <3>2. /\ atomic'.success = atomic.success
          /\ atomic'.errCount = atomic.errCount
          /\ atomic'.intSuccess = atomic.intSuccess
          /\ atomic'.intErrors = atomic.intErrors
          /\ latencies' = latencies + 1
          /\ calls'.success = calls.success + 1
          /\ calls'.errors = calls.errors
      BY <2>1 DEF RecordLatency, WorkerAt, BeginCall, snapVars, TypeOK, Atomics
    <3>3. Counted(current)' = Counted(current)
      <4>1. errors' = errors /\ current' = current
        BY <2>1 DEF RecordLatency, WorkerAt, BeginCall, snapVars
      <4> QED
        BY <4>1, CountedSum, CountedNext
    <3>4. TotalsInv'
      BY <2>0, <2>00, <3>1, <3>2, <3>3 DEF CountInv, TotalsInv
    <3>5. IntervalInv'
      BY <2>0, <2>00, <3>1, <3>2 DEF CountInv, IntervalInv
    <3> QED
      BY <3>4, <3>5 DEF CountInv
  <2>2. CASE AddSuccess(w)
    <3>1. /\ Cardinality(SuccessDue)' = Cardinality(SuccessDue) - 1
          /\ Cardinality(IntervalDue)' = Cardinality(IntervalDue) + 1
          /\ Cardinality(ReportDue)' = Cardinality(ReportDue)
          /\ Cardinality(IntErrorsDue)' = Cardinality(IntErrorsDue)
          /\ Cardinality(CodeDue)' = Cardinality(CodeDue)
      <4>1. wpc[w] = "addSuccess" /\ wpc' = [wpc EXCEPT ![w] = "addIntervalSuccess"]
        BY <2>2 DEF AddSuccess, WorkerAt, Add, snapVars
      <4>2. "addIntervalSuccess" \in PCs
        BY DEF PCs
      <4> QED
        BY <4>1, <4>2, DueStep, CountNat DEF Moves
    <3>2. /\ atomic'.success = atomic.success + 1
          /\ atomic'.errCount = atomic.errCount
          /\ atomic'.intSuccess = atomic.intSuccess
          /\ atomic'.intErrors = atomic.intErrors
          /\ latencies' = latencies
          /\ calls'.success = calls.success
          /\ calls'.errors = calls.errors
      BY <2>2 DEF AddSuccess, WorkerAt, Add, snapVars, TypeOK, Atomics
    <3>3. Counted(current)' = Counted(current)
      <4>1. errors' = errors /\ current' = current
        BY <2>2 DEF AddSuccess, WorkerAt, Add, snapVars
      <4> QED
        BY <4>1, CountedSum, CountedNext
    <3>4. TotalsInv'
      BY <2>0, <2>00, <3>1, <3>2, <3>3 DEF CountInv, TotalsInv
    <3>5. IntervalInv'
      BY <2>0, <2>00, <3>1, <3>2 DEF CountInv, IntervalInv
    <3> QED
      BY <3>4, <3>5 DEF CountInv
  <2>3. CASE AddIntervalSuccess(w)
    <3>1. /\ Cardinality(SuccessDue)' = Cardinality(SuccessDue)
          /\ Cardinality(IntervalDue)' = Cardinality(IntervalDue) - 1
          /\ Cardinality(ReportDue)' = Cardinality(ReportDue) - 1
          /\ Cardinality(IntErrorsDue)' = Cardinality(IntErrorsDue)
          /\ Cardinality(CodeDue)' = Cardinality(CodeDue)
      <4>1. wpc[w] = "addIntervalSuccess" /\ wpc' = [wpc EXCEPT ![w] = "idle"]
        BY <2>3 DEF AddIntervalSuccess, WorkerAt, Add, snapVars
      <4>2. "idle" \in PCs
        BY DEF PCs
      <4> QED
        BY <4>1, <4>2, DueStep, CountNat DEF Moves
    <3>2. /\ atomic'.success = atomic.success
          /\ atomic'.errCount = atomic.errCount
          /\ atomic'.intSuccess = atomic.intSuccess + 1
          /\ atomic'.intErrors = atomic.intErrors
          /\ latencies' = latencies
          /\ calls'.success = calls.success
          /\ calls'.errors = calls.errors
      BY <2>3 DEF AddIntervalSuccess, WorkerAt, Add, snapVars, TypeOK, Atomics
    <3>3. Counted(current)' = Counted(current)
      <4>1. errors' = errors /\ current' = current
        BY <2>3 DEF AddIntervalSuccess, WorkerAt, Add, snapVars
      <4> QED
        BY <4>1, CountedSum, CountedNext
    <3>4. TotalsInv'
      BY <2>0, <2>00, <3>1, <3>2, <3>3 DEF CountInv, TotalsInv
    <3>5. IntervalInv'
      BY <2>0, <2>00, <3>1, <3>2 DEF CountInv, IntervalInv
    <3> QED
      BY <3>4, <3>5 DEF CountInv
  <2>4. CASE AddErrCount(w)
    <3>1. /\ Cardinality(SuccessDue)' = Cardinality(SuccessDue)
          /\ Cardinality(IntervalDue)' = Cardinality(IntervalDue)
          /\ Cardinality(ReportDue)' = Cardinality(ReportDue)
          /\ Cardinality(IntErrorsDue)' = Cardinality(IntErrorsDue) + 1
          /\ Cardinality(CodeDue)' = Cardinality(CodeDue) + 1
      <4>1. wpc[w] = "idle" /\ wpc' = [wpc EXCEPT ![w] = "addIntervalErrors"]
        BY <2>4 DEF AddErrCount, WorkerAt, Add, BeginCall, snapVars
      <4>2. "addIntervalErrors" \in PCs
        BY DEF PCs
      <4> QED
        BY <4>1, <4>2, DueStep, CountNat DEF Moves
    <3>2. /\ atomic'.success = atomic.success
          /\ atomic'.errCount = atomic.errCount + 1
          /\ atomic'.intSuccess = atomic.intSuccess
          /\ atomic'.intErrors = atomic.intErrors
          /\ latencies' = latencies
          /\ calls'.success = calls.success
          /\ calls'.errors = calls.errors + 1
      BY <2>4 DEF AddErrCount, WorkerAt, Add, BeginCall, snapVars, TypeOK, Atomics
    <3>3. Counted(current)' = Counted(current)
      <4>1. errors' = errors /\ current' = current
        BY <2>4 DEF AddErrCount, WorkerAt, Add, BeginCall, snapVars
      <4> QED
        BY <4>1, CountedSum, CountedNext
    <3>4. TotalsInv'
      BY <2>0, <2>00, <3>1, <3>2, <3>3 DEF CountInv, TotalsInv
    <3>5. IntervalInv'
      BY <2>0, <2>00, <3>1, <3>2 DEF CountInv, IntervalInv
    <3> QED
      BY <3>4, <3>5 DEF CountInv
  <2>5. CASE AddIntervalErrors(w)
    <3>1. /\ Cardinality(SuccessDue)' = Cardinality(SuccessDue)
          /\ Cardinality(IntervalDue)' = Cardinality(IntervalDue)
          /\ Cardinality(ReportDue)' = Cardinality(ReportDue)
          /\ Cardinality(IntErrorsDue)' = Cardinality(IntErrorsDue) - 1
          /\ Cardinality(CodeDue)' = Cardinality(CodeDue)
      <4>1. wpc[w] = "addIntervalErrors" /\ wpc' = [wpc EXCEPT ![w] = "lookUp"]
        BY <2>5 DEF AddIntervalErrors, WorkerAt, Add, snapVars
      <4>2. "lookUp" \in PCs
        BY DEF PCs
      <4> QED
        BY <4>1, <4>2, DueStep, CountNat DEF Moves
    <3>2. /\ atomic'.success = atomic.success
          /\ atomic'.errCount = atomic.errCount
          /\ atomic'.intSuccess = atomic.intSuccess
          /\ atomic'.intErrors = atomic.intErrors + 1
          /\ latencies' = latencies
          /\ calls'.success = calls.success
          /\ calls'.errors = calls.errors
      BY <2>5 DEF AddIntervalErrors, WorkerAt, Add, snapVars, TypeOK, Atomics
    <3>3. Counted(current)' = Counted(current)
      <4>1. errors' = errors /\ current' = current
        BY <2>5 DEF AddIntervalErrors, WorkerAt, Add, snapVars
      <4> QED
        BY <4>1, CountedSum, CountedNext
    <3>4. TotalsInv'
      BY <2>0, <2>00, <3>1, <3>2, <3>3 DEF CountInv, TotalsInv
    <3>5. IntervalInv'
      BY <2>0, <2>00, <3>1, <3>2 DEF CountInv, IntervalInv
    <3> QED
      BY <3>4, <3>5 DEF CountInv
  <2>6. CASE LookUpCounter(w)
    <3>1. /\ Cardinality(SuccessDue)' = Cardinality(SuccessDue)
          /\ Cardinality(IntervalDue)' = Cardinality(IntervalDue)
          /\ Cardinality(ReportDue)' = Cardinality(ReportDue)
          /\ Cardinality(IntErrorsDue)' = Cardinality(IntErrorsDue)
          /\ Cardinality(CodeDue)' = Cardinality(CodeDue)
      <4>1. wpc[w] = "lookUp" /\ wpc' = [wpc EXCEPT ![w] = "addCounter"]
        BY <2>6 DEF LookUpCounter, WorkerAt, snapVars
      <4>2. "addCounter" \in PCs
        BY DEF PCs
      <4> QED
        BY <4>1, <4>2, DueStep, CountNat DEF Moves
    <3>2. /\ atomic'.success = atomic.success
          /\ atomic'.errCount = atomic.errCount
          /\ atomic'.intSuccess = atomic.intSuccess
          /\ atomic'.intErrors = atomic.intErrors
          /\ latencies' = latencies
          /\ calls'.success = calls.success
          /\ calls'.errors = calls.errors
      BY <2>6 DEF LookUpCounter, WorkerAt, snapVars, TypeOK, Atomics
    <3>3. Counted(current)' = Counted(current)
      <4>1. errors' = errors /\ current' = current
        BY <2>6 DEF LookUpCounter, WorkerAt, snapVars
      <4> QED
        BY <4>1, CountedSum, CountedNext
    <3>4. TotalsInv'
      BY <2>0, <2>00, <3>1, <3>2, <3>3 DEF CountInv, TotalsInv
    <3>5. IntervalInv'
      BY <2>0, <2>00, <3>1, <3>2 DEF CountInv, IntervalInv
    <3> QED
      BY <3>4, <3>5 DEF CountInv
  <2>7. CASE AddCounter(w)
    <3>1. /\ Cardinality(SuccessDue)' = Cardinality(SuccessDue)
          /\ Cardinality(IntervalDue)' = Cardinality(IntervalDue)
          /\ Cardinality(ReportDue)' = Cardinality(ReportDue)
          /\ Cardinality(IntErrorsDue)' = Cardinality(IntErrorsDue)
          /\ Cardinality(CodeDue)' = Cardinality(CodeDue) - 1
      <4>1. wpc[w] = "addCounter" /\ wpc' = [wpc EXCEPT ![w] = "appendLog"]
        BY <2>7 DEF AddCounter, WorkerAt, snapVars
      <4>2. "appendLog" \in PCs
        BY DEF PCs
      <4> QED
        BY <4>1, <4>2, DueStep, CountNat DEF Moves
    <3>2. /\ atomic'.success = atomic.success
          /\ atomic'.errCount = atomic.errCount
          /\ atomic'.intSuccess = atomic.intSuccess
          /\ atomic'.intErrors = atomic.intErrors
          /\ latencies' = latencies
          /\ calls'.success = calls.success
          /\ calls'.errors = calls.errors
      BY <2>7 DEF AddCounter, WorkerAt, snapVars, TypeOK, Atomics
    <3>3. ~overlapped => Counted(current)' = Counted(current) + 1
      <4>1. PICK m \in Maps, code \in Codes : counter[w] = <<m, code>> /\ (~overlapped => m = current)
        BY <2>7 DEF AddCounter, WorkerAt, snapVars, MapInv, Counting
      <4>2. errors' = [errors EXCEPT ![m][code] = @ + 1] /\ current' = current
        BY <2>7, <4>1 DEF AddCounter, WorkerAt, snapVars
      <4>3. \A n \in Maps : \A S \in SUBSET Codes :
              SumOver(errors'[n], S) = SumOver(errors[n], S) + (IF n = m /\ code \in S THEN 1 ELSE 0)
        BY <4>2, CountedStep
      <4>4. Codes \in SUBSET Codes /\ current \in Maps
        BY ErrorsNat
      <4>5. m = current => SumOver(errors'[current], Codes) = SumOver(errors[current], Codes) + 1
        BY <4>3, <4>4
      <4> QED
        BY <4>1, <4>2, <4>5, CountedSum, CountedNext
    <3>4. TotalsInv'
      BY <2>0, <2>00, <3>1, <3>2, <3>3 DEF CountInv, TotalsInv
    <3>5. IntervalInv'
      BY <2>0, <2>00, <3>1, <3>2 DEF CountInv, IntervalInv
    <3> QED
      BY <3>4, <3>5 DEF CountInv
  <2>8. CASE AppendLog(w)
    <3>1. /\ Cardinality(SuccessDue)' = Cardinality(SuccessDue)
          /\ Cardinality(IntervalDue)' = Cardinality(IntervalDue)
          /\ Cardinality(ReportDue)' = Cardinality(ReportDue)
          /\ Cardinality(IntErrorsDue)' = Cardinality(IntErrorsDue)
          /\ Cardinality(CodeDue)' = Cardinality(CodeDue)
      <4>1. wpc[w] = "appendLog" /\ wpc' = [wpc EXCEPT ![w] = "idle"]
        BY <2>8 DEF AppendLog, WorkerAt, LogError, snapVars
      <4>2. "idle" \in PCs
        BY DEF PCs
      <4> QED
        BY <4>1, <4>2, DueStep, CountNat DEF Moves
    <3>2. /\ atomic'.success = atomic.success
          /\ atomic'.errCount = atomic.errCount
          /\ atomic'.intSuccess = atomic.intSuccess
          /\ atomic'.intErrors = atomic.intErrors
          /\ latencies' = latencies
          /\ calls'.success = calls.success
          /\ calls'.errors = calls.errors
      BY <2>8 DEF AppendLog, WorkerAt, LogError, snapVars, TypeOK, Atomics
    <3>3. Counted(current)' = Counted(current)
      <4>1. errors' = errors /\ current' = current
        BY <2>8 DEF AppendLog, WorkerAt, LogError, snapVars
      <4> QED
        BY <4>1, CountedSum, CountedNext
    <3>4. TotalsInv'
      BY <2>0, <2>00, <3>1, <3>2, <3>3 DEF CountInv, TotalsInv
    <3>5. IntervalInv'
      BY <2>0, <2>00, <3>1, <3>2 DEF CountInv, IntervalInv
    <3> QED
      BY <3>4, <3>5 DEF CountInv
  <2> QED
    BY <1>1, <2>1, <2>2, <2>3, <2>4, <2>5, <2>6, <2>7, <2>8 DEF Record
<1>2. CASE Snapshot
  <2>1. CASE LockSnapshot
    BY <2>1, CountsSame DEF LockSnapshot, SnapAt, NoSnap, recVars
  <2>2. CASE LoadRateErrors
    BY <2>2, CountsSame DEF LoadRateErrors, SnapAt, Take, snapVars, recVars
  <2>3. CASE LoadCode
    BY <2>3, CountsSame DEF LoadCode, SnapAt, Take, recVars
  <2>4. CASE LoadIntervalSuccess
    BY <2>4, CountsSame DEF LoadIntervalSuccess, SnapAt, Load, Take, recVars
  <2>5. CASE LoadIntervalErrors
    BY <2>5, CountsSame DEF LoadIntervalErrors, SnapAt, Load, Take, recVars
  <2>6. CASE LoadSuccess
    BY <2>6, CountsSame DEF LoadSuccess, SnapAt, Load, Take, recVars
  <2>7. CASE LoadErrors
    BY <2>7, CountsSame DEF LoadErrors, SnapAt, Load, Take, recVars
  <2>8. CASE ClearIntervalSuccess
    <3>1. UNCHANGED <<wpc, cpc, errors, current, calls, overlapped>>
      BY <2>8 DEF ClearIntervalSuccess, SnapAt, recVars
    <3>2. /\ atomic'.intSuccess = 0
          /\ atomic'.success = atomic.success
          /\ atomic'.errCount = atomic.errCount
          /\ atomic'.intErrors = atomic.intErrors
          /\ latencies' = 0
          /\ reported'.latencies = reported.latencies + latencies
          /\ reported'.intSuccess = reported.intSuccess + snap.intSuccess
          /\ reported'.intErrors = reported.intErrors
          /\ snap.intSuccess <= atomic.intSuccess
      BY <2>8
         DEF ClearIntervalSuccess, SnapAt, recVars, TypeOK, Atomics, LoadInv, Loaded
    <3>3. Counted(current)' = Counted(current)
      BY <3>1, CountedSum, CountedNext
    <3>4. /\ SuccessDue' = SuccessDue /\ IntervalDue' = IntervalDue /\ ReportDue' = ReportDue
          /\ IntErrorsDue' = IntErrorsDue /\ CodeDue' = CodeDue
      BY <3>1, DueSame
    <3> QED
      BY <3>1, <3>2, <3>3, <3>4, CountNat, CounterTypes
         DEF CountInv, TotalsInv, IntervalInv
  <2>9. CASE ReturnSnapshot
    <3>1. UNCHANGED <<wpc, cpc, errors, current, calls, overlapped>>
      BY <2>9 DEF ReturnSnapshot, SnapAt, EndSnapshot, NoSnap, recVars
    <3>2. /\ atomic'.intErrors = 0
          /\ atomic'.success = atomic.success
          /\ atomic'.errCount = atomic.errCount
          /\ atomic'.intSuccess = atomic.intSuccess
          /\ latencies' = latencies
          /\ reported'.intErrors = reported.intErrors + snap.intErrors
          /\ reported'.intSuccess = reported.intSuccess
          /\ reported'.latencies = reported.latencies
          /\ snap.intErrors <= atomic.intErrors
      BY <2>9
         DEF ReturnSnapshot, SnapAt, EndSnapshot, NoSnap, recVars, TypeOK, Atomics,
             LoadInv, Loaded
    <3>3. Counted(current)' = Counted(current)
      BY <3>1, CountedSum, CountedNext
    <3>4. /\ SuccessDue' = SuccessDue /\ IntervalDue' = IntervalDue /\ ReportDue' = ReportDue
          /\ IntErrorsDue' = IntErrorsDue /\ CodeDue' = CodeDue
      BY <3>1, DueSame
    <3> QED
      BY <3>1, <3>2, <3>3, <3>4, CountNat, CounterTypes
         DEF CountInv, TotalsInv, IntervalInv
  <2> QED
    BY <1>2, <2>1, <2>2, <2>3, <2>4, <2>5, <2>6, <2>7, <2>8, <2>9 DEF Snapshot
<1>3. CASE Reset
  <2>1. CASE LockReset
    BY <2>1
       DEF LockReset, ResetAt, NoSnap, NoIntervals, NoCalls, recVars, snapVars,
           CountInv, TotalsInv, IntervalInv
  <2>2. CASE ClearSuccess
    BY <2>2
       DEF ClearSuccess, ResetAt, Store, recVars, snapVars, history, CountInv,
           TotalsInv, IntervalInv
  <2>3. CASE ClearErrCount
    BY <2>3
       DEF ClearErrCount, ResetAt, Store, recVars, snapVars, history, CountInv,
           TotalsInv, IntervalInv
  <2>4. CASE ClearIntSuccess
    BY <2>4
       DEF ClearIntSuccess, ResetAt, Store, recVars, snapVars, history, CountInv,
           TotalsInv, IntervalInv
  <2>5. CASE ClearIntErrors
    BY <2>5
       DEF ClearIntErrors, ResetAt, Store, recVars, snapVars, history, CountInv,
           TotalsInv, IntervalInv
  <2>6. CASE ClearLog
    <3>1. /\ UNCHANGED <<wpc, atomic, latencies, errors, current, reported, calls, overlapped>>
          /\ cpc = "clearLog"
      BY <2>6 DEF ClearLog, ResetAt, recVars, snapVars, history
    <3>2. /\ SuccessDue' = SuccessDue /\ IntervalDue' = IntervalDue /\ ReportDue' = ReportDue
          /\ IntErrorsDue' = IntErrorsDue /\ CodeDue' = CodeDue
      BY <3>1, DueSame
    <3>3. ~overlapped => Counted(current) = 0
      BY <3>1, CountedSum, SumZero, CollectorAssumption DEF ClearedInv
    <3>4. ~overlapped => /\ Cardinality(SuccessDue) = 0
                         /\ Cardinality(IntervalDue) = 0
                         /\ Cardinality(ReportDue) = 0
                         /\ Cardinality(IntErrorsDue) = 0
                         /\ Cardinality(CodeDue) = 0
      BY <3>1, NothingDue DEF ClearedInv
    <3>5. Counted(current)' = Counted(current)
      BY <3>1, CountedSum, CountedNext
    <3>6. ~overlapped => /\ latencies = 0 /\ atomic.success = 0 /\ atomic.errCount = 0
                         /\ atomic.intSuccess = 0 /\ atomic.intErrors = 0
                         /\ calls.success = 0 /\ calls.errors = 0
                         /\ reported.latencies = 0
                         /\ reported.intSuccess = 0
                         /\ reported.intErrors = 0
      BY <3>1 DEF ClearedInv, NoCalls, NoIntervals
    <3> QED
      BY <3>1, <3>2, <3>3, <3>4, <3>5, <3>6 DEF CountInv, TotalsInv, IntervalInv
  <2> QED
    BY <1>3, <2>1, <2>2, <2>3, <2>4, <2>5, <2>6 DEF Reset
<1>4. CASE UNCHANGED vars
  BY <1>4, CountsSame DEF vars, recVars, data, history
<1> QED
  BY <1>1, <1>2, <1>3, <1>4 DEF Next

-----------------------------------------------------------------------------
LEMMA InitInv == Init => IInv
<1> SUFFICES ASSUME Init PROVE IInv
  OBVIOUS
<1>1. TypeOK
  <2>1. snap \in SnapshotType /\ last \in SnapshotType
    BY DEF Init, NoSnap, SnapshotType
  <2>2. reported \in IntervalType /\ calls \in CallType
    BY DEF Init, NoIntervals, NoCalls, IntervalType, CallType
  <2>3. atomic \in [Atomics -> Nat] /\ errors \in [Maps -> [Codes -> Nat]]
    BY DEF Init
  <2>4. current \in Maps /\ logged \in 0..ErrorCap /\ taken \in 0..MaxSnapshots
    BY CollectorAssumption DEF Init, Maps
  <2>5. /\ wpc \in [Recorders -> PCs]
        /\ counter \in [Recorders -> {<<>>} \cup (Maps \X Codes)]
        /\ unread \subseteq Codes
    BY DEF Init, PCs
  <2> QED
    BY <2>1, <2>2, <2>3, <2>4, <2>5 DEF Init, TypeOK, PCs, IntervalType, CallType
<1>2. MutexInv /\ MapInv /\ ClearedInv
  BY DEF Init, MutexInv, MapInv, ClearedInv, Counting
<1>3. CountInv
  <2>1. Busy = {}
    BY DEF Init, Busy
  <2>2. \A code \in Codes : errors[current][code] = 0
    BY <1>1 DEF Init, TypeOK
  <2>3. Counted(current) = 0
    BY <2>2, CountedSum, SumZero, CollectorAssumption
  <2>4. /\ Cardinality(SuccessDue) = 0
        /\ Cardinality(IntervalDue) = 0
        /\ Cardinality(ReportDue) = 0
        /\ Cardinality(IntErrorsDue) = 0
        /\ Cardinality(CodeDue) = 0
    BY <2>1, NothingDue
  <2> QED
    BY <2>3, <2>4
       DEF Init, CountInv, TotalsInv, IntervalInv, NoCalls, NoIntervals, Atomics
<1>4. RateInv /\ LoadInv /\ CodesInv
  BY DEF Init, RateInv, LoadInv, CodesInv, Loaded
<1>5. SnapshotConsistent
  BY DEF Init, SnapshotConsistent, NoSnap
<1> QED
  BY <1>1, <1>2, <1>3, <1>4, <1>5 DEF IInv, CountInv, SnapInv

LEMMA Invariance == Spec => []IInv
<1>1. IInv /\ [Next]_vars => IInv'
  <2> SUFFICES ASSUME IInv, [Next]_vars PROVE IInv'
    OBVIOUS
  <2>1. TypeOK /\ MutexInv /\ MapInv /\ ClearedInv /\ CountInv
    BY DEF IInv, CountInv
  <2>2. RateInv /\ LoadInv /\ CodesInv /\ SnapshotConsistent
    BY DEF IInv, SnapInv
  <2>3. TypeOK'
    BY <2>1, TypeStep
  <2>4. MutexInv' /\ MapInv' /\ ClearedInv'
    BY <2>1, MutexStep, MapStep, ClearedStep
  <2>5. CountInv'
    BY <2>1, <2>2, <2>3, CountStep
  <2>6. RateInv' /\ LoadInv' /\ CodesInv' /\ SnapshotConsistent'
    BY <2>1, <2>2, <2>3, RateStep, LoadStep, CodesStep, ConsistentStep DEF CountInv
  <2> QED
    BY <2>3, <2>4, <2>5, <2>6 DEF IInv, CountInv, SnapInv
<1> QED
  BY <1>1, InitInv, PTL DEF Spec

(* Type correctness: no counter of the collector is ever negative, the     *)
(* error log is trimmed in time, and a recorder increments a counter of a  *)
(* map that exists.                                                        *)
THEOREM TypeCorrect == Spec => []TypeOK
<1>1. IInv => TypeOK
  BY DEF IInv
<1> QED
  BY <1>1, Invariance, PTL

(* Whatever increments the swaps of Snapshot lose, the intervals reported  *)
(* since Reset never add up to more than the totals.                       *)
THEOREM NoIntervalOvercounts == Spec => []IntervalsNeverOvercount
<1>1. IInv => IntervalsNeverOvercount
  <2> SUFFICES ASSUME IInv PROVE IntervalsNeverOvercount
    OBVIOUS
  <2>1. TypeOK /\ IntervalInv
    BY DEF IInv
  <2> QED
    BY <2>1, CountNat, CounterTypes DEF IntervalInv, IntervalsNeverOvercount
<1> QED
  BY <1>1, Invariance, PTL

(* Every success an interval reports has its latency recorded by then.     *)
THEOREM LatencyBeforeSuccess == Spec => []LatenciesCoverSuccesses
<1>1. IInv => LatenciesCoverSuccesses
  <2> SUFFICES ASSUME IInv PROVE LatenciesCoverSuccesses
    OBVIOUS
  <2>1. TypeOK /\ IntervalInv
    BY DEF IInv
  <2> QED
    BY <2>1, CountNat, CounterTypes DEF IntervalInv, LatenciesCoverSuccesses
<1> QED
  BY <1>1, Invariance, PTL

(* The fields of a snapshot fit together though recorders run between its  *)
(* loads: the rate, the interval and the totals are in that order.         *)
THEOREM SnapshotsConsistent == Spec => []SnapshotConsistent
<1>1. IInv => SnapshotConsistent
  BY DEF IInv, SnapInv
<1> QED
  BY <1>1, Invariance, PTL

(* Once the recorders are done, the totals are exactly the calls since     *)
(* Reset, and the counters per code add up to the errors.                  *)
THEOREM ExactWhenQuiescent == Spec => []QuiescentExact
<1>1. IInv => QuiescentExact
  <2> SUFFICES ASSUME IInv, Busy = {} PROVE QuiescentExact
    BY DEF QuiescentExact
  <2>1. TypeOK /\ TotalsInv
    BY DEF IInv
  <2>2. Cardinality(SuccessDue) = 0 /\ Cardinality(CodeDue) = 0
    BY NothingDue
  <2> QED
    BY <2>1, <2>2, CountNat, CounterTypes DEF TotalsInv, QuiescentExact
<1> QED
  BY <1>1, Invariance, PTL

=============================================================================
