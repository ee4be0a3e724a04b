----------------------------- MODULE Collector -----------------------------
(***************************************************************************)
(* The metrics collector (internal/telemetry/collector.go), without its    *)
(* subscribers.                                                            *)
(*                                                                         *)
(* The totals are atomics that the request workers add to without a lock;  *)
(* Collector.mu protects the histograms and the map of error counters, and *)
(* is held by Snapshot and Reset throughout.  Every atomic access is a     *)
(* step.  Fields that are written and never read (histogram, requests) are *)
(* left out, and so is targetRPS, which only decorates a snapshot; a       *)
(* histogram is the number of latencies recorded in it.                    *)
(***************************************************************************)
EXTENDS Integers, FiniteSets, FiniteSetsExt

CONSTANTS
  Recorders,     \* worker goroutines that call RecordSuccess and RecordError
  Codes,         \* gRPC status codes of failed calls
  MaxCalls,      \* bound: Record calls between two Resets
  MaxSnapshots,  \* bound: Snapshot calls
  MaxResets,     \* bound: Reset calls
  ErrorCap,      \* RecordError trims errorLog above this length (1000)
  ErrorKeep      \* ... to its last ErrorKeep entries (500)

ASSUME CollectorAssumption ==
  /\ IsFiniteSet(Recorders) /\ IsFiniteSet(Codes)
  /\ {MaxCalls, MaxSnapshots, MaxResets, ErrorCap} \subseteq Nat
  /\ ErrorKeep \in 0..ErrorCap

Maps == 0..MaxResets   \* the error maps made so far are numbered by Resets

VARIABLES
  holder,      \* who holds Collector.mu across steps
  atomic,      \* the atomic counters: success, errCount and the interval's
  latencies,   \* values recorded in Collector.intervalHist
  errors,      \* errors[m][code]: the counters of error map m
  current,     \* the map Collector.errors points to
  logged,      \* len(Collector.errorLog)
  wpc,         \* wpc[w]: the next step of recorder w
  counter,     \* counter[w]: <<map, code>> of the counter w has looked up
  snap,        \* the snapshot under construction
  unread,      \* codes the snapshot still has to read
  spc,         \* the next step of Snapshot
  taken,       \* snapshots taken (bounds the model)
  cpc,         \* the next step of Reset
  last,        \* history: the last snapshot since Reset
  reported,    \* history: the sum of the intervals reported since Reset
  calls,       \* history: Record calls since Reset
  overlapped   \* history: the last Reset ran while a recorder was recording

recVars  == <<wpc, counter>>
snapVars == <<snap, unread, spc, taken>>
data     == <<latencies, errors, current, logged>>
history  == <<last, reported, calls, overlapped>>
vars == <<holder, atomic, data, recVars, snapVars, cpc, history>>

Atomics == {"success", "errCount", "intSuccess", "intErrors"}

NoSnap == [actual |-> 0, counted |-> 0, latencies |-> 0,
           intSuccess |-> 0, intErrors |-> 0, success |-> 0, errCount |-> 0]
NoIntervals == [latencies |-> 0, intSuccess |-> 0, intErrors |-> 0]
NoCalls == [success |-> 0, errors |-> 0]

Busy == {w \in Recorders : wpc[w] # "idle"}

Counted(m) == MapThenSumSet(LAMBDA code : errors[m][code], Codes)

Init ==
  /\ holder = "nobody"
  /\ atomic = [field \in Atomics |-> 0]
  /\ latencies = 0
  /\ errors = [m \in Maps |-> [code \in Codes |-> 0]]
  /\ current = 0
  /\ logged = 0
  /\ wpc = [w \in Recorders |-> "idle"]
  /\ counter = [w \in Recorders |-> <<>>]
  /\ snap = NoSnap /\ unread = {} /\ spc = "idle" /\ taken = 0
  /\ cpc = "idle"
  /\ last = NoSnap /\ reported = NoIntervals /\ calls = NoCalls
  /\ overlapped = FALSE

-----------------------------------------------------------------------------
(* RecordSuccess and RecordError, called by recorder w.                    *)

WorkerAt(w, from, to) ==
  /\ wpc[w] = from
  /\ wpc' = [wpc EXCEPT ![w] = to]
  /\ overlapped' = (overlapped \/ cpc # "idle")
  /\ UNCHANGED <<holder, current, snapVars, cpc, last, reported>>

BeginCall(kind) ==
  /\ calls.success + calls.errors < MaxCalls
  /\ calls' = [calls EXCEPT ![kind] = @ + 1]

Add(w, from, field, to) ==
  /\ WorkerAt(w, from, to)
  /\ atomic' = [atomic EXCEPT ![field] = @ + 1]
  /\ UNCHANGED <<latencies, errors, logged, counter>>

(* Fault variant: a latency below a millisecond is not recorded. *)
RecordLatencyIfMeasurable(w) ==
  /\ holder = "nobody"
  /\ WorkerAt(w, "idle", "addSuccess")
  /\ BeginCall("success")
  /\ latencies' \in {latencies, latencies + 1}
  /\ UNCHANGED <<atomic, errors, logged, counter>>

(* The histograms are updated under Collector.mu.                          *)
RecordLatency(w) ==
  /\ holder = "nobody"
  /\ WorkerAt(w, "idle", "addSuccess")
  /\ BeginCall("success")
  /\ latencies' = latencies + 1
  /\ UNCHANGED <<atomic, errors, logged, counter>>

AddSuccess(w) == Add(w, "addSuccess", "success", "addIntervalSuccess") /\ UNCHANGED calls
AddIntervalSuccess(w) == Add(w, "addIntervalSuccess", "intSuccess", "idle") /\ UNCHANGED calls

AddErrCount(w) == Add(w, "idle", "errCount", "addIntervalErrors") /\ BeginCall("errors")
AddIntervalErrors(w) == Add(w, "addIntervalErrors", "intErrors", "lookUp") /\ UNCHANGED calls

(* The counter is found, or made, under Collector.mu ...                   *)
LookUpCounter(w) ==
  /\ holder = "nobody"
  /\ WorkerAt(w, "lookUp", "addCounter")
  /\ \E code \in Codes : counter' = [counter EXCEPT ![w] = <<current, code>>]
  /\ UNCHANGED <<atomic, latencies, errors, logged, calls>>

(* ... and incremented after Unlock, whichever map is current by then.     *)
AddCounter(w) ==
  /\ WorkerAt(w, "addCounter", "appendLog")
  /\ errors' = [errors EXCEPT ![counter[w][1]][counter[w][2]] = @ + 1]
  /\ counter' = [counter EXCEPT ![w] = <<>>]
  /\ UNCHANGED <<atomic, latencies, logged, calls>>

LogError(w, newLogged) ==
  /\ WorkerAt(w, "appendLog", "idle")
  /\ logged' = newLogged
  /\ UNCHANGED <<atomic, latencies, errors, counter, calls>>

(* Fault variant: the error log is never trimmed. *)
AppendLogUntrimmed(w) == LogError(w, logged + 1)

AppendLog(w) ==
  LogError(w, IF logged + 1 > ErrorCap THEN ErrorKeep ELSE logged + 1)

-----------------------------------------------------------------------------
(* Snapshot.  Its reads are separate loads of the atomics.                 *)

SnapAt(from, to) ==
  /\ spc = from
  /\ spc' = to
  /\ UNCHANGED <<errors, current, logged, recVars, cpc, calls, overlapped>>

(* snap takes a value that has been loaded.                                *)
Take(from, newSnap, to) ==
  /\ SnapAt(from, to)
  /\ snap' = newSnap
  /\ UNCHANGED <<holder, atomic, latencies, taken, last, reported>>

Load(from, field, to) ==
  Take(from, [snap EXCEPT ![field] = atomic[field]], to) /\ UNCHANGED unread

LockSnapshot ==
  /\ taken < MaxSnapshots
  /\ holder = "nobody"
  /\ holder' = "snapshot"
  /\ SnapAt("idle", "rateErrors")
  /\ snap' = [NoSnap EXCEPT !.actual = atomic.intSuccess]
  /\ taken' = taken + 1
  /\ UNCHANGED <<atomic, latencies, unread, last, reported>>

(* actualRPS is complete with the second of its two loads.                 *)
LoadRateErrors ==
  /\ Take("rateErrors", [snap EXCEPT !.actual = @ + atomic.intErrors], "codes")
  /\ unread' = Codes

LoadCode ==
  \E code \in unread :
    /\ Take("codes", [snap EXCEPT !.counted = @ + errors[current][code]],
            IF unread = {code} THEN "intSuccess" ELSE "codes")
    /\ unread' = unread \ {code}

(* Fault variant: a total is derived from the interval instead of loaded. *)
LoadErrorsFromInterval ==
  Take("errors", [snap EXCEPT !.errCount = last.errCount + snap.intErrors], "clearSuccess")
    /\ UNCHANGED unread

LoadIntervalSuccess == Load("intSuccess", "intSuccess", "intErrors")
LoadIntervalErrors  == Load("intErrors", "intErrors", "success")
LoadSuccess         == Load("success", "success", "errors")
LoadErrors          == Load("errors", "errCount", "clearSuccess")

(* The quantiles of intervalHist, intervalHist.Reset and                   *)
(* intervalSuccess.Store(0): Collector.mu keeps latencies away.            *)
ClearIntervalSuccess ==
  /\ SnapAt("clearSuccess", "clearErrors")
  /\ snap' = [snap EXCEPT !.latencies = latencies]
  /\ latencies' = 0
  /\ atomic' = [atomic EXCEPT !.intSuccess = 0]
  /\ reported' = [reported EXCEPT !.latencies = @ + latencies,
                                  !.intSuccess = @ + snap.intSuccess]
  /\ UNCHANGED <<holder, unread, taken, last>>

(* Snapshot ends with intervalErrors at newErrors.                         *)
EndSnapshot(newErrors) ==
  /\ SnapAt("clearErrors", "idle")
  /\ atomic' = [atomic EXCEPT !.intErrors = newErrors]
  /\ reported' = [reported EXCEPT !.intErrors = @ + snap.intErrors]
  /\ last' = snap
  /\ snap' = NoSnap
  /\ holder' = "nobody"
  /\ UNCHANGED <<latencies, unread, taken>>

(* Fault variant: intervalErrors is not stored back to 0. *)
ReturnSnapshotKeepsErrors == EndSnapshot(atomic.intErrors)

ReturnSnapshot == EndSnapshot(0)

-----------------------------------------------------------------------------
(* Reset: the stores are separate, in this order.                          *)

ResetAt(from, to) ==
  /\ cpc = from
  /\ cpc' = to
  /\ UNCHANGED <<errors, recVars, snapVars>>

Store(from, field, value, to) ==
  /\ ResetAt(from, to)
  /\ atomic' = [atomic EXCEPT ![field] = value]
  /\ UNCHANGED <<holder, latencies, current, logged, history>>

LockReset ==
  /\ current < MaxResets
  /\ holder = "nobody"
  /\ holder' = "reset"
  /\ ResetAt("idle", "clearSuccess")
  /\ latencies' = 0
  /\ current' = current + 1
  /\ last' = NoSnap /\ reported' = NoIntervals /\ calls' = NoCalls
  /\ overlapped' = (Busy # {})
  /\ UNCHANGED <<atomic, logged>>

(* Fault variant: Reset forgets errCount. *)
ClearErrCountSkipped == Store("clearErrCount", "errCount", atomic.errCount, "clearIntSuccess")

ClearSuccess    == Store("clearSuccess", "success", 0, "clearErrCount")
ClearErrCount   == Store("clearErrCount", "errCount", 0, "clearIntSuccess")
ClearIntSuccess == Store("clearIntSuccess", "intSuccess", 0, "clearIntErrors")
ClearIntErrors  == Store("clearIntErrors", "intErrors", 0, "clearLog")

ClearLog ==
  /\ ResetAt("clearLog", "idle")
  /\ logged' = 0
  /\ holder' = "nobody"
  /\ UNCHANGED <<atomic, latencies, current, history>>

-----------------------------------------------------------------------------
Record(w) ==
  \/ RecordLatency(w)
  \/ AddSuccess(w)
  \/ AddIntervalSuccess(w)
  \/ AddErrCount(w)
  \/ AddIntervalErrors(w)
  \/ LookUpCounter(w)
  \/ AddCounter(w)
  \/ AppendLog(w)

Snapshot ==
  \/ LockSnapshot
  \/ LoadRateErrors
  \/ LoadCode
  \/ LoadIntervalSuccess
  \/ LoadIntervalErrors
  \/ LoadSuccess
  \/ LoadErrors
  \/ ClearIntervalSuccess
  \/ ReturnSnapshot

Reset ==
  \/ LockReset
  \/ ClearSuccess
  \/ ClearErrCount
  \/ ClearIntSuccess
  \/ ClearIntErrors
  \/ ClearLog

Next == Snapshot \/ Reset \/ \E w \in Recorders : Record(w)

Spec == Init /\ [][Next]_vars

-----------------------------------------------------------------------------
(* Type invariant.                                                         *)
SnapshotType == [actual : Nat, counted : Nat, latencies : Nat,
                 intSuccess : Nat, intErrors : Nat, success : Nat, errCount : Nat]

TypeOK ==
  /\ holder \in {"nobody", "snapshot", "reset"}
  /\ atomic \in [Atomics -> Nat]
  /\ latencies \in Nat
  /\ errors \in [Maps -> [Codes -> Nat]]
  /\ current \in Maps
  /\ logged \in 0..ErrorCap
  /\ wpc \in [Recorders -> {"idle", "addSuccess", "addIntervalSuccess",
                            "addIntervalErrors", "lookUp", "addCounter", "appendLog"}]
  /\ counter \in [Recorders -> {<<>>} \cup (Maps \X Codes)]
  /\ snap \in SnapshotType
  /\ unread \subseteq Codes
  /\ spc \in {"idle", "rateErrors", "codes", "intSuccess", "intErrors", "success",
              "errors", "clearSuccess", "clearErrors"}
  /\ taken \in 0..MaxSnapshots
  /\ cpc \in {"idle", "clearSuccess", "clearErrCount", "clearIntSuccess",
              "clearIntErrors", "clearLog"}
  /\ last \in SnapshotType
  /\ reported \in [latencies : Nat, intSuccess : Nat, intErrors : Nat]
  /\ calls \in [success : Nat, errors : Nat]
  /\ overlapped \in BOOLEAN

(* Between a load and the Store(0) that follows it Snapshot may lose       *)
(* increments, but no request is ever counted in two intervals.            *)
IntervalsNeverOvercount ==
  ~overlapped /\ cpc = "idle" =>
    /\ reported.intSuccess + atomic.intSuccess <= atomic.success
    /\ reported.intErrors + atomic.intErrors <= atomic.errCount

(* No success is reported ahead of its latency: the intervals up to any    *)
(* moment have at least as many latencies as successes, though a snapshot  *)
(* may separate the two.                                                   *)
LatenciesCoverSuccesses ==
  ~overlapped /\ cpc = "idle" =>
    reported.intSuccess + atomic.intSuccess <= reported.latencies + latencies

(* However recorders interleave with the loads, the fields of one snapshot *)
(* are in order: the rate is at most the interval's counts, the interval's *)
(* counts and the counters per code are at most the totals.                *)
SnapshotConsistent ==
  /\ last.actual <= last.intSuccess + last.intErrors
  /\ ~overlapped =>
       /\ last.intSuccess <= last.success
       /\ last.intErrors <= last.errCount
       /\ last.counted <= last.errCount

(* While nobody records, the totals are the calls made since Reset, and    *)
(* the counters of the current map add up to the errors.                   *)
QuiescentExact ==
  Busy = {} /\ cpc = "idle" /\ ~overlapped =>
    /\ atomic.success = calls.success
    /\ atomic.errCount = calls.errors
    /\ Counted(current) = atomic.errCount

=============================================================================
