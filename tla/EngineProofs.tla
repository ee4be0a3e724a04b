---------------------------- MODULE EngineProofs ----------------------------
(* Proofs about the engine, for any number of clients, runs, workers and   *)
(* requests.                                                               *)
EXTENDS Engine, TLAPS

USE EngineAssumption DEF Nil, workers

(* The engine mutex is held throughout Start.                              *)
MutexInv ==
  /\ \A c \in Clients : pc[c] # "idle" => mu = c
  /\ mu # Free => spawned < MaxRuns

(* Run goroutines are numbered in the order of their Starts.               *)
SpawnInv == \A r \in Runs : r > spawned => rpc[r] = "none"

(* What the local variables of a run hold where they are used.             *)
PublishPCs == {"tickAdd", "tickAnalyze", "endAdd", "endAnalyze"}
LocalsInv ==
  \A r \in Runs :
    /\ rpc[r] = "dispatch" => left[r] > 0
    /\ rpc[r] \in PublishPCs => snap[r] \in Snapshots /\ snap[r].by = r

TInv == TypeOK /\ MutexInv /\ SpawnInv /\ LocalsInv

LEMMA InitTInv == Init => TInv
<1> SUFFICES ASSUME Init PROVE TInv
  OBVIOUS
<1>1. StateTypes
  BY DEF Init, StateTypes, Statuses, Zero
<1>2. MutexTypes
  BY DEF Init, MutexTypes, StartPCs
<1>3. LoopTypes
  BY DEF Init, LoopTypes
<1>4. ControlTypes
  BY DEF Init, ControlTypes, RunPCs
<1>5. MutexInv /\ SpawnInv /\ LocalsInv
  BY DEF Init, MutexInv, SpawnInv, LocalsInv, PublishPCs
<1> QED
  BY <1>1, <1>2, <1>3, <1>4, <1>5 DEF TInv, TypeOK

(* A counter kept for each run.                                            *)
LEMMA Counting ==
  ASSUME NEW S, NEW f \in [S -> Nat], NEW r \in S
  PROVE  /\ [f EXCEPT ![r] = @ + 1] \in [S -> Nat]
         /\ f[r] > 0 => [f EXCEPT ![r] = @ - 1] \in [S -> Nat]
OBVIOUS

(* Parts of the invariant that a step leaves alone.                        *)
LEMMA Keep ==
  /\ StateTypes /\ UNCHANGED <<stateVars, collector, analyzed>> => StateTypes'
  /\ MutexTypes /\ UNCHANGED muVars => MutexTypes'
  /\ LoopTypes /\ UNCHANGED loopVars => LoopTypes'
  /\ ControlTypes /\ UNCHANGED <<rpc, closed, ctxDone, crashed, contested>> => ControlTypes'
  /\ MutexInv /\ UNCHANGED muVars => MutexInv'
  /\ SpawnInv /\ UNCHANGED <<spawned, rpc>> => SpawnInv'
  /\ LocalsInv /\ UNCHANGED <<rpc, left, snap>> => LocalsInv'
BY DEF StateTypes, MutexTypes, LoopTypes, ControlTypes, MutexInv, SpawnInv, LocalsInv,
       stateVars, muVars, loopVars

(* The steps of Start and Stop.                                            *)
LEMMA ClientTInv ==
  ASSUME TInv, NEW c \in Clients, ClientStep(c)
  PROVE  TInv'
<1> USE DEF TInv, TypeOK
<1>1. CASE LockStart(c)
  <2>1. MutexTypes' /\ MutexInv'
    BY <1>1 DEF LockStart, ClientAt, MutexTypes, StartPCs, MutexInv
  <2> QED
    BY <1>1, <2>1, Keep DEF LockStart, loopVars
<1>2. CASE CheckRunning(c) \/ CheckWarmup(c)
  <2>1. MutexTypes' /\ MutexInv'
    BY <1>2 DEF CheckRunning, CheckWarmup, CheckStatus, ClientAt, MutexTypes, StartPCs,
                MutexInv
  <2> QED
    BY <1>2, <2>1, Keep DEF CheckRunning, CheckWarmup, CheckStatus, loopVars
<1>3. CASE ResetCollector(c)
  <2>1. MutexTypes' /\ MutexInv'
    BY <1>3 DEF ResetCollector, ClientAt, MutexTypes, StartPCs, MutexInv
  <2>2. StateTypes'
    BY <1>3 DEF ResetCollector, StateTypes, stateVars, Zero
  <2>3. spawned + 1 \in 1..(MaxRuns + 1) /\ Live \subseteq 1..(MaxRuns + 1)
    BY DEF MutexTypes, Live, Runs
  <2>4. contested' \in SUBSET (1..(MaxRuns + 1))
    BY <1>3, <2>3 DEF ResetCollector, MarkContested, ControlTypes
  <2>5. ControlTypes'
    BY <1>3, <2>4 DEF ResetCollector, ControlTypes
  <2> QED
    BY <1>3, <2>1, <2>2, <2>5, Keep DEF ResetCollector, loopVars
<1>4. CASE ResetDetector(c)
  <2>1. MutexTypes' /\ MutexInv'
    BY <1>4 DEF ResetDetector, ClientAt, MutexTypes, StartPCs, MutexInv
  <2>2. StateTypes'
    BY <1>4 DEF ResetDetector, StateTypes, stateVars
  <2> QED
    BY <1>4, <2>1, <2>2, Keep DEF ResetDetector, loopVars
<1>5. CASE ResetState(c)
  <2>1. MutexTypes' /\ MutexInv'
    BY <1>5 DEF ResetState, ClientAt, MutexTypes, StartPCs, MutexInv
  <2>2. StateTypes'
    BY <1>5 DEF ResetState, StateTypes, Statuses
  <2> QED
    BY <1>5, <2>1, <2>2, Keep DEF ResetState, loopVars
<1>6. CASE BuildFails(c)
  <2>1. MutexTypes' /\ MutexInv'
    BY <1>6 DEF BuildFails, ClientAt, MutexTypes, StartPCs, MutexInv
  <2> QED
    BY <1>6, <2>1, Keep DEF BuildFails, loopVars
<1>7. CASE Spawn(c)
  <2>1. spawned < MaxRuns
    BY <1>7 DEF Spawn, ClientAt, MutexInv, MutexTypes
  <2>2. MutexTypes' /\ MutexInv'
    BY <1>7, <2>1 DEF Spawn, ClientAt, MutexTypes, StartPCs, MutexInv
  <2>3. ControlTypes' /\ SpawnInv' /\ LocalsInv'
    BY <1>7, <2>1 DEF Spawn, ControlTypes, RunPCs, MutexTypes, SpawnInv, LocalsInv,
                      PublishPCs, loopVars, Runs
  <2> QED
    BY <1>7, <2>2, <2>3, Keep DEF Spawn
<1>8. CASE Stop(c)
  <2>1. MutexTypes' /\ MutexInv' /\ ControlTypes'
    BY <1>8 DEF Stop, MutexTypes, MutexInv, ControlTypes
  <2> QED
    BY <1>8, <2>1, Keep DEF Stop, loopVars
<1> QED
  BY <1>1, <1>2, <1>3, <1>4, <1>5, <1>6, <1>7, <1>8 DEF ClientStep, StartStep

(* The steps of Engine.run up to the cleanup label.                        *)
LEMMA LoopTInv ==
  ASSUME TInv, NEW r \in Runs,
         \/ Enter(r) \/ Warmup(r) \/ StampStart(r) \/ Running(r)
         \/ SeeCancel(r) \/ DurationReached(r) \/ DispatchTick(r)
         \/ Launch(r) \/ SkipRequest(r) \/ MetricsTick(r)
  PROVE  TInv'
<1> USE DEF TInv, TypeOK
<1>1. CASE Enter(r)
  <2>1. LoopTypes' /\ ControlTypes'
    BY <1>1 DEF Enter, RunAt, LoopTypes, MutexTypes, ControlTypes, RunPCs
  <2>2. SpawnInv' /\ LocalsInv'
    BY <1>1 DEF Enter, RunAt, SpawnInv, LocalsInv, PublishPCs, ControlTypes, muVars
  <2> QED
    BY <1>1, <2>1, <2>2, Keep DEF Enter
<1>2. CASE Warmup(r) \/ Running(r)
  <2>1. StateTypes' /\ ControlTypes'
    BY <1>2 DEF Warmup, Running, SetStatus, RunAt, StateTypes, Statuses, ControlTypes,
                RunPCs, WarmupPCs, LoopPCs
  <2>2. SpawnInv' /\ LocalsInv'
    BY <1>2 DEF Warmup, Running, SetStatus, RunAt, SpawnInv, LocalsInv, PublishPCs,
                ControlTypes, muVars, loopVars
  <2> QED
    BY <1>2, <2>1, <2>2, Keep DEF Warmup, Running, SetStatus
<1>3. CASE StampStart(r)
  <2>1. StateTypes' /\ ControlTypes'
    BY <1>3 DEF StampStart, RunAt, StateTypes, ControlTypes, RunPCs, WarmupPCs, Runs
  <2>2. SpawnInv' /\ LocalsInv'
    BY <1>3 DEF StampStart, RunAt, SpawnInv, LocalsInv, PublishPCs, ControlTypes,
                muVars, loopVars
  <2> QED
    BY <1>3, <2>1, <2>2, Keep DEF StampStart
<1>4. CASE SeeCancel(r)
  <2>1. LoopTypes' /\ ControlTypes'
    BY <1>4 DEF SeeCancel, RunAt, LoopTypes, ControlTypes, RunPCs
  <2>2. SpawnInv' /\ LocalsInv'
    BY <1>4 DEF SeeCancel, RunAt, SpawnInv, LocalsInv, PublishPCs, ControlTypes,
                LoopTypes, muVars
  <2> QED
    BY <1>4, <2>1, <2>2, Keep DEF SeeCancel
<1>5. CASE DurationReached(r)
  <2>1. ControlTypes' /\ SpawnInv' /\ LocalsInv'
    BY <1>5 DEF DurationReached, RunAt, ControlTypes, RunPCs, SpawnInv, LocalsInv,
                PublishPCs, muVars, loopVars
  <2> QED
    BY <1>5, <2>1, Keep DEF DurationReached
<1>6. CASE DispatchTick(r)
  <2>1. PICK n \in 1..Burst : left' = [left EXCEPT ![r] = n]
    BY <1>6 DEF DispatchTick
  <2>2. n \in Nat /\ n > 0
    OBVIOUS
  <2>3. LoopTypes'
    BY <1>6, <2>1, <2>2 DEF DispatchTick, LoopTypes
  <2>4. ControlTypes' /\ SpawnInv'
    BY <1>6 DEF DispatchTick, RunAt, ControlTypes, RunPCs, LoopPCs, SpawnInv, muVars
  <2>5. LocalsInv'
    BY <1>6, <2>1, <2>2 DEF DispatchTick, RunAt, LocalsInv, PublishPCs, ControlTypes,
                            LoopTypes
  <2> QED
    BY <1>6, <2>3, <2>4, <2>5, Keep DEF DispatchTick
<1>7. CASE Launch(r) \/ SkipRequest(r)
  <2>1. EndIteration(r) /\ left[r] > 0
    BY <1>7 DEF Launch, SkipRequest, EndIteration, LocalsInv
  <2>2. left[r] - 1 \in Nat
    BY <2>1 DEF LoopTypes
  <2>3. left' \in [Runs -> Nat]
    BY <2>1, <2>2 DEF EndIteration, LoopTypes
  <2>4. LoopTypes'
    <3>1. CASE Launch(r)
      BY <3>1, <2>3, Counting DEF Launch, LoopTypes
    <3>2. CASE SkipRequest(r)
      BY <3>2, <2>3 DEF SkipRequest, LoopTypes
    <3> QED
      BY <1>7, <3>1, <3>2
  <2>5. ControlTypes' /\ SpawnInv'
    BY <1>7, <2>1 DEF Launch, SkipRequest, EndIteration, ControlTypes, RunPCs, LoopPCs,
                      SpawnInv, muVars
  <2>6. snap' = snap
    BY <1>7 DEF Launch, SkipRequest
  <2>7. rpc'[r] = "dispatch" => left'[r] > 0
    BY <2>1, <2>2 DEF EndIteration, ControlTypes, LoopTypes
  <2>8. LocalsInv'
    BY <2>1, <2>6, <2>7 DEF EndIteration, LocalsInv, PublishPCs, ControlTypes, LoopTypes
  <2> QED
    BY <1>7, <2>4, <2>5, <2>8, Keep DEF Launch, SkipRequest
<1>8. CASE MetricsTick(r)
  <2>1. [by |-> r, success |-> collector.success, errors |-> collector.errors] \in Snapshots
    BY DEF StateTypes, Snapshots
  <2>2. LoopTypes'
    <3>1. snap' \in [Runs -> Snapshots \cup {NoSnap}]
      BY <1>8, <2>1 DEF MetricsTick, Snapshot, LoopTypes
    <3>2. ticks' \in [Runs -> Nat]
      BY <1>8 DEF MetricsTick, LoopTypes
    <3> QED
      BY <1>8, <3>1, <3>2 DEF MetricsTick, LoopTypes
  <2>3. ControlTypes'
    BY <1>8 DEF MetricsTick, RunAt, ControlTypes, RunPCs, LoopPCs
  <2>4. SpawnInv' /\ LocalsInv'
    BY <1>8, <2>1 DEF MetricsTick, Snapshot, RunAt, SpawnInv, LocalsInv, PublishPCs,
                      ControlTypes, LoopTypes, muVars
  <2> QED
    BY <1>8, <2>2, <2>3, <2>4, Keep DEF MetricsTick
<1> QED
  BY <1>1, <1>2, <1>3, <1>4, <1>5, <1>6, <1>7, <1>8

(* Publishing a snapshot, for the metrics tick and for the end of a run.   *)
LEMMA PublishTInv ==
  ASSUME TInv, NEW r \in Runs,
         \/ AddSnapshot(r, "tickAdd", "tickAnalyze")
         \/ Analyze(r, "tickAnalyze", "tickBroadcast")
         \/ Broadcast(r, "tickBroadcast", "loop")
         \/ AddSnapshot(r, "endAdd", "endAnalyze")
         \/ Analyze(r, "endAnalyze", "endBroadcast")
         \/ Broadcast(r, "endBroadcast", "finish")
  PROVE  TInv'
<1> USE DEF TInv, TypeOK
<1>1. ASSUME NEW from \in {"tickAdd", "endAdd"}, NEW to \in {"tickAnalyze", "endAnalyze"},
             AddSnapshot(r, from, to)
      PROVE  TInv'
  <2>1. snap[r] \in Snapshots /\ snap[r].by = r
    BY <1>1 DEF AddSnapshot, RunAt, LocalsInv, PublishPCs
  <2>2. StateTypes' /\ ControlTypes'
    BY <1>1, <2>1 DEF AddSnapshot, RunAt, StateTypes, ControlTypes, RunPCs, LoopPCs,
                      FinalPCs
  <2>3. SpawnInv' /\ LocalsInv'
    BY <1>1, <2>1 DEF AddSnapshot, RunAt, SpawnInv, LocalsInv, PublishPCs, ControlTypes,
                      muVars, loopVars
  <2> QED
    BY <1>1, <2>2, <2>3, Keep DEF AddSnapshot
<1>2. ASSUME NEW from \in {"tickAnalyze", "endAnalyze"},
             NEW to \in {"tickBroadcast", "endBroadcast"}, Analyze(r, from, to)
      PROVE  TInv'
  <2>1. snap[r] \in Snapshots
    BY <1>2 DEF Analyze, RunAt, LocalsInv, PublishPCs
  <2>2. StateTypes' /\ ControlTypes'
    BY <1>2, <2>1 DEF Analyze, RunAt, StateTypes, ControlTypes, RunPCs, LoopPCs,
                      FinalPCs, stateVars
  <2>3. SpawnInv' /\ LocalsInv'
    BY <1>2 DEF Analyze, RunAt, SpawnInv, LocalsInv, PublishPCs, ControlTypes, muVars,
                loopVars
  <2> QED
    BY <1>2, <2>2, <2>3, Keep DEF Analyze
<1>3. ASSUME NEW from \in {"tickBroadcast", "endBroadcast"}, NEW to \in {"loop", "finish"},
             Broadcast(r, from, to)
      PROVE  TInv'
  <2>1. LoopTypes' /\ ControlTypes'
    BY <1>3 DEF Broadcast, RunAt, LoopTypes, ControlTypes, RunPCs, LoopPCs, FinalPCs
  <2>2. SpawnInv' /\ LocalsInv'
    BY <1>3 DEF Broadcast, RunAt, SpawnInv, LocalsInv, PublishPCs, ControlTypes,
                LoopTypes, muVars
  <2> QED
    BY <1>3, <2>1, <2>2, Keep DEF Broadcast
<1> QED
  BY <1>1, <1>2, <1>3

(* The steps of Engine.run from the cleanup label on.                      *)
LEMMA EndTInv ==
  ASSUME TInv, NEW r \in Runs,
         \/ Cleanup(r) \/ FinalSnapshot(r) \/ Finish(r)
         \/ LogView(r, "logView1", "logIndex1") \/ LogIndex(r, "logIndex1", "logView2")
         \/ LogView(r, "logView2", "logIndex2") \/ LogIndex(r, "logIndex2", "exit")
         \/ Exit(r)
  PROVE  TInv'
<1> USE DEF TInv, TypeOK
<1>1. CASE Cleanup(r) \/ Finish(r)
  <2>1. StateTypes' /\ ControlTypes'
    BY <1>1 DEF Cleanup, Finish, SetStatus, RunAt, StateTypes, Statuses, ControlTypes,
                RunPCs, LogPCs
  <2>2. SpawnInv' /\ LocalsInv'
    BY <1>1 DEF Cleanup, Finish, SetStatus, RunAt, SpawnInv, LocalsInv, PublishPCs,
                ControlTypes, muVars, loopVars
  <2> QED
    BY <1>1, <2>1, <2>2, Keep DEF Cleanup, Finish, SetStatus
<1>2. CASE FinalSnapshot(r)
  <2>1. [by |-> r, success |-> collector.success, errors |-> collector.errors] \in Snapshots
    BY DEF StateTypes, Snapshots
  <2>2. LoopTypes' /\ ControlTypes'
    BY <1>2, <2>1 DEF FinalSnapshot, TakeFinalSnapshot, Snapshot, RunAt, LoopTypes,
                      ControlTypes, RunPCs, FinalPCs
  <2>3. SpawnInv' /\ LocalsInv'
    BY <1>2, <2>1 DEF FinalSnapshot, TakeFinalSnapshot, Snapshot, RunAt, SpawnInv, LocalsInv,
                      PublishPCs, ControlTypes, LoopTypes, muVars
  <2> QED
    BY <1>2, <2>2, <2>3, Keep DEF FinalSnapshot, TakeFinalSnapshot
<1>3. ASSUME NEW from \in LogPCs, NEW to \in LogPCs, LogView(r, from, to)
      PROVE  TInv'
  <2>1. ControlTypes'
    BY <1>3 DEF LogView, RunAt, ControlTypes, RunPCs
  <2>2. Len(report) \in Nat
    BY DEF StateTypes
  <2>3. LoopTypes' /\ SpawnInv' /\ LocalsInv'
    BY <1>3, <2>2 DEF LogView, LoopTypes, RunAt, SpawnInv, LocalsInv, PublishPCs, LogPCs, ControlTypes,
                muVars
  <2> QED
    BY <1>3, <2>1, <2>2, <2>3, Keep DEF LogView
<1>4. ASSUME NEW from \in LogPCs, NEW to \in LogPCs \cup {"exit"}, LogIndex(r, from, to)
      PROVE  TInv'
  <2>1. LoopTypes' /\ ControlTypes'
    BY <1>4 DEF LogIndex, RunAt, LoopTypes, ControlTypes, RunPCs
  <2>2. SpawnInv' /\ LocalsInv'
    BY <1>4 DEF LogIndex, RunAt, SpawnInv, LocalsInv, PublishPCs, LogPCs, ControlTypes,
                muVars
  <2> QED
    BY <1>4, <2>1, <2>2, Keep DEF LogIndex
<1>5. CASE Exit(r)
  <2>1. doneOf[r] \in 0..MaxRuns
    BY DEF LoopTypes
  <2>2. closed' \in SUBSET (0..MaxRuns) /\ crashed' \in BOOLEAN
    BY <1>5, <2>1 DEF Exit, ControlTypes
  <2>3. ControlTypes'
    BY <1>5, <2>2 DEF Exit, RunAt, ControlTypes, RunPCs
  <2>4. SpawnInv' /\ LocalsInv'
    BY <1>5 DEF Exit, RunAt, ControlTypes, SpawnInv, LocalsInv, PublishPCs, muVars,
                loopVars
  <2> QED
    BY <1>5, <2>3, <2>4, Keep DEF Exit
<1> QED
  BY <1>1, <1>2, <1>3, <1>4, <1>5 DEF LogPCs

(* The steps of a request worker.                                          *)
LEMMA WorkerTInv ==
  ASSUME TInv, NEW r \in Runs, WorkerStep(r)
  PROVE  TInv'
<1> USE DEF TInv, TypeOK, OnlyWorker
<1>1. MutexTypes' /\ MutexInv' /\ ControlTypes' /\ SpawnInv' /\ LocalsInv'
  BY Keep DEF WorkerStep, CallSucceeds, CallFails, AddError, NoteError, ReleaseSlot,
              WorkerDone, Leave, muVars
<1>2. LoopTypes'
  <2>1. /\ calling \in [Runs -> Nat] /\ noting \in [Runs -> Nat]
        /\ holding \in [Runs -> Nat] /\ leaving \in [Runs -> Nat]
    BY DEF LoopTypes
  <2>2. /\ calling' \in [Runs -> Nat] /\ noting' \in [Runs -> Nat]
        /\ holding' \in [Runs -> Nat] /\ leaving' \in [Runs -> Nat]
    BY <2>1, Counting DEF WorkerStep, CallSucceeds, CallFails, AddError, NoteError,
                          ReleaseSlot, WorkerDone, Leave, Advance
  <2>3. UNCHANGED <<left, launched, ticks, snap, view, doneOf>>
    BY DEF WorkerStep, CallSucceeds, CallFails, AddError, NoteError, ReleaseSlot,
           WorkerDone, Leave
  <2> QED
    BY <2>2, <2>3 DEF LoopTypes
<1>3. StateTypes'
  <2>1. collector' \in [success : Nat, errors : Nat]
    <3>1. collector \in [success : Nat, errors : Nat]
      BY DEF StateTypes
    <3>2. CASE CallSucceeds(r)
      BY <3>1, <3>2 DEF CallSucceeds
    <3>3. CASE CallFails(r)
      BY <3>1, <3>3 DEF CallFails
    <3>4. CASE AddError(r) \/ ReleaseSlot(r) \/ WorkerDone(r)
      BY <3>1, <3>4 DEF AddError, NoteError, ReleaseSlot, WorkerDone, Leave
    <3> QED
      BY <3>2, <3>3, <3>4 DEF WorkerStep
  <2>2. noted' \in 0..ErrorCap
    BY DEF WorkerStep, CallSucceeds, CallFails, AddError, NoteError, ReleaseSlot,
           WorkerDone, Leave, StateTypes
  <2>3. UNCHANGED <<status, startedAt, report, analyzed>>
    BY DEF WorkerStep, CallSucceeds, CallFails, AddError, NoteError, ReleaseSlot,
           WorkerDone, Leave
  <2> QED
    BY <2>1, <2>2, <2>3 DEF StateTypes
<1> QED
  BY <1>1, <1>2, <1>3

LEMMA NextTInv == TInv /\ [Next]_vars => TInv'
<1> SUFFICES ASSUME TInv, [Next]_vars PROVE TInv'
  OBVIOUS
<1>1. CASE \E c \in Clients : ClientStep(c)
  BY <1>1, ClientTInv
<1>2. CASE \E r \in Runs : RunStep(r) \/ WorkerStep(r)
  BY <1>2, LoopTInv, PublishTInv, EndTInv, WorkerTInv DEF RunStep
<1>3. CASE UNCHANGED vars
  BY <1>3, Keep DEF vars, TInv, TypeOK, muVars, loopVars
<1> QED
  BY <1>1, <1>2, <1>3 DEF Next, Idle

(* Type correctness of the engine, for any number of clients, runs,        *)
(* workers and requests.                                                   *)
THEOREM TypeCorrect == Spec => []TypeOK
<1>1. TInv => TypeOK
  BY DEF TInv
<1> QED
  BY <1>1, InitTInv, NextTInv, PTL DEF Spec

-----------------------------------------------------------------------------
(* The status the dashboard shows.                                         *)

LEMMA RunAtEffect ==
  ASSUME TypeOK, NEW r \in Runs, NEW from, NEW to, RunAt(r, from, to)
  PROVE  /\ rpc[r] = from /\ rpc'[r] = to
         /\ \A q \in Runs \ {r} : rpc'[q] = rpc[q]
BY DEF RunAt, TypeOK, ControlTypes

(* A run that goes on within one phase, or comes from outside every phase, *)
(* leaves the status backed.                                               *)
Active == WarmupPCs \cup LoopPCs \cup {"cleanup", "drain"} \cup FinalPCs
SamePhase(from, to) ==
  \/ from \notin Active
  \/ from \in WarmupPCs /\ to \in WarmupPCs
  \/ from \in LoopPCs \cup {"cleanup"} /\ to \in LoopPCs \cup {"cleanup"}
  \/ from \in FinalPCs \cup {"drain"} /\ to \in FinalPCs \cup {"drain"}

LEMMA PhaseKept ==
  ASSUME TypeOK, StatusBacked, NEW r \in Runs, NEW from, NEW to,
         RunAt(r, from, to), SamePhase(from, to), status' = status
  PROVE  StatusBacked'
BY RunAtEffect DEF StatusBacked, SamePhase, Active, WarmupPCs, LoopPCs, FinalPCs

LEMMA RunStatusBacked ==
  ASSUME TypeOK, StatusBacked, NEW r \in Runs, RunStep(r)
  PROVE  StatusBacked'
<1> USE DEF SamePhase, Active, WarmupPCs, LoopPCs, FinalPCs
<1>1. CASE Warmup(r) \/ Running(r) \/ Cleanup(r) \/ Finish(r)
  BY <1>1, RunAtEffect DEF Warmup, Running, Cleanup, Finish, SetStatus, StatusBacked
<1>2. CASE \/ Enter(r) \/ StampStart(r) \/ SeeCancel(r) \/ DurationReached(r)
           \/ DispatchTick(r) \/ MetricsTick(r) \/ FinalSnapshot(r)
  BY <1>2, PhaseKept DEF Enter, StampStart, SeeCancel, DurationReached, DispatchTick,
                         MetricsTick, FinalSnapshot, TakeFinalSnapshot, stateVars
<1>3. CASE Launch(r) \/ SkipRequest(r)
  <2>1. RunAt(r, "dispatch", "loop") \/ RunAt(r, "dispatch", "dispatch")
    BY <1>3 DEF Launch, SkipRequest, EndIteration, RunAt
  <2> QED
    BY <1>3, <2>1, PhaseKept DEF Launch, SkipRequest, stateVars
<1>4. CASE \/ AddSnapshot(r, "tickAdd", "tickAnalyze")
           \/ Analyze(r, "tickAnalyze", "tickBroadcast")
           \/ Broadcast(r, "tickBroadcast", "loop")
           \/ AddSnapshot(r, "endAdd", "endAnalyze")
           \/ Analyze(r, "endAnalyze", "endBroadcast")
           \/ Broadcast(r, "endBroadcast", "finish")
  BY <1>4, PhaseKept DEF AddSnapshot, Analyze, Broadcast, stateVars
<1>5. CASE LogView(r, "logView1", "logIndex1") \/ LogView(r, "logView2", "logIndex2")
  BY <1>5, PhaseKept DEF LogView, stateVars
<1>6. CASE \/ LogIndex(r, "logIndex1", "logView2") \/ LogIndex(r, "logIndex2", "exit")
           \/ Exit(r)
  <2>1. CASE UNCHANGED <<status, rpc>>
    BY <2>1 DEF StatusBacked
  <2> QED
    BY <1>6, <2>1, PhaseKept DEF LogIndex, Exit, stateVars
<1> QED
  BY <1>1, <1>2, <1>3, <1>4, <1>5, <1>6 DEF RunStep

LEMMA NextStatusBacked ==
  ASSUME TInv, StatusBacked, [Next]_vars
  PROVE  StatusBacked'
<1> USE DEF TInv
<1>1. ASSUME NEW c \in Clients, ClientStep(c) PROVE StatusBacked'
  <2>1. CASE Spawn(c)
    <3>1. \A r \in Runs : rpc[r] # "none" => rpc'[r] = rpc[r]
      BY <2>1 DEF Spawn, SpawnInv, TypeOK, ControlTypes, MutexTypes
    <3> QED
      BY <2>1, <3>1 DEF Spawn, StatusBacked, stateVars, WarmupPCs, LoopPCs, FinalPCs
  <2>2. CASE ResetState(c)
    BY <2>2 DEF ResetState, StatusBacked
  <2>3. CASE ~Spawn(c) /\ ~ResetState(c)
    <3>1. UNCHANGED <<status, rpc>>
      BY <1>1, <2>3 DEF ClientStep, StartStep, LockStart, CheckRunning, CheckWarmup,
                        CheckStatus, ResetCollector, ResetDetector, BuildFails, Stop,
                        stateVars
    <3> QED
      BY <3>1 DEF StatusBacked
  <2> QED
    BY <2>1, <2>2, <2>3
<1>2. ASSUME NEW r \in Runs, WorkerStep(r) PROVE StatusBacked'
  <2>1. UNCHANGED <<status, rpc>>
    BY <1>2 DEF WorkerStep, CallSucceeds, CallFails, AddError, NoteError, ReleaseSlot,
                WorkerDone, Leave, OnlyWorker
  <2> QED
    BY <2>1 DEF StatusBacked
<1>3. CASE UNCHANGED vars
  BY <1>3 DEF vars, stateVars, StatusBacked
<1> QED
  BY <1>1, <1>2, <1>3, RunStatusBacked DEF Next, Idle

(* Whatever overlaps, the dashboard shows warmup, running or stopping only *)
(* while a run goroutine is in that phase.                                 *)
THEOREM StatusIsBacked == Spec => []StatusBacked
<1>1. Init => StatusBacked
  BY DEF Init, StatusBacked
<1> QED
  BY <1>1, InitTInv, NextTInv, NextStatusBacked, PTL DEF Spec

-----------------------------------------------------------------------------
(* Stop reaches the latest run: Engine.cancel is its cancel function, or   *)
(* its context is cancelled already.                                       *)
THEOREM LatestCanBeStopped == Spec => []LatestIsStoppable
<1>1. Init => LatestIsStoppable
  BY DEF Init, LatestIsStoppable
<1>2. TInv /\ LatestIsStoppable /\ [Next]_vars => LatestIsStoppable'
  <2> SUFFICES ASSUME TInv, LatestIsStoppable, [Next]_vars PROVE LatestIsStoppable'
    OBVIOUS
  <2> USE DEF TInv, TypeOK
  <2>1. ASSUME NEW c \in Clients, ClientStep(c) PROVE LatestIsStoppable'
    <3>1. CASE Spawn(c)
      BY <3>1 DEF Spawn, LatestIsStoppable, MutexTypes
    <3>2. CASE Stop(c)
      BY <3>2 DEF Stop, LatestIsStoppable
    <3>3. CASE ~Spawn(c) /\ ~Stop(c)
      <4>1. UNCHANGED <<cancel, spawned, ctxDone>>
        BY <2>1, <3>3 DEF ClientStep, StartStep, LockStart, CheckRunning, CheckWarmup,
                          CheckStatus, ResetCollector, ResetDetector, ResetState,
                          BuildFails
      <4> QED
        BY <4>1 DEF LatestIsStoppable
    <3> QED
      BY <3>1, <3>2, <3>3
  <2>2. ASSUME NEW r \in Runs, RunStep(r) \/ WorkerStep(r) PROVE LatestIsStoppable'
    <3>1. UNCHANGED <<cancel, spawned, ctxDone>>
      BY <2>2 DEF RunStep, Enter, Warmup, StampStart, Running, SetStatus, SeeCancel,
                  DurationReached, DispatchTick, Launch, SkipRequest, MetricsTick,
                  AddSnapshot, Analyze, Broadcast, Cleanup, FinalSnapshot,
                  TakeFinalSnapshot, Finish,
                  LogView, LogIndex, Exit, WorkerStep, CallSucceeds, CallFails,
                  AddError, NoteError, ReleaseSlot, WorkerDone, Leave, OnlyWorker, muVars
    <3> QED
      BY <3>1 DEF LatestIsStoppable
  <2>3. CASE UNCHANGED vars
    BY <2>3 DEF vars, muVars, LatestIsStoppable
  <2> QED
    BY <2>1, <2>2, <2>3 DEF Next, Idle
<1> QED
  BY <1>1, <1>2, InitTInv, NextTInv, PTL DEF Spec

-----------------------------------------------------------------------------
(* Draining.                                                               *)
Drained == FinalPCs \cup LogPCs \cup {"exit", "ended"}

LEMMA RunDrained ==
  ASSUME TypeOK, WorkersDrained, NEW r \in Runs, RunStep(r)
  PROVE  WorkersDrained'
<1> USE DEF FinalPCs, LogPCs
<1>1. ASSUME NEW from, NEW to, RunAt(r, from, to), UNCHANGED workers,
             to \in Drained => from \in Drained \/ Pending(r) = 0
      PROVE  WorkersDrained'
  <2>1. \A q \in Runs : Pending(q)' = Pending(q)
    BY <1>1 DEF Pending, Occupied
  <2> QED
    BY <1>1, <2>1, RunAtEffect DEF WorkersDrained, Drained
<1>2. CASE Launch(r)
  <2>1. \A q \in Runs \ {r} : Pending(q)' = Pending(q) /\ rpc'[q] = rpc[q]
    BY <1>2 DEF Launch, EndIteration, Pending, Occupied, TypeOK, LoopTypes, ControlTypes
  <2>2. rpc'[r] \in {"loop", "dispatch"}
    BY <1>2 DEF Launch, EndIteration, TypeOK, ControlTypes
  <2> QED
    BY <2>1, <2>2 DEF WorkersDrained
<1>3. CASE SkipRequest(r)
  <2>1. RunAt(r, "dispatch", "loop") \/ RunAt(r, "dispatch", "dispatch")
    BY <1>3 DEF SkipRequest, EndIteration, RunAt
  <2> QED
    BY <1>1, <1>3, <2>1 DEF SkipRequest, Drained
<1>4. CASE FinalSnapshot(r)
  BY <1>1, <1>4 DEF FinalSnapshot, TakeFinalSnapshot
<1>5. CASE UNCHANGED <<rpc, workers>>
  BY <1>5 DEF WorkersDrained, Pending, Occupied
<1>6. CASE \/ Enter(r) \/ Warmup(r) \/ StampStart(r) \/ Running(r) \/ SeeCancel(r)
           \/ DurationReached(r) \/ DispatchTick(r) \/ MetricsTick(r)
           \/ AddSnapshot(r, "tickAdd", "tickAnalyze")
           \/ Analyze(r, "tickAnalyze", "tickBroadcast")
           \/ Broadcast(r, "tickBroadcast", "loop") \/ Cleanup(r)
  BY <1>1, <1>6 DEF Enter, Warmup, StampStart, Running, SetStatus, SeeCancel,
                    DurationReached, DispatchTick, MetricsTick, AddSnapshot, Analyze,
                    Broadcast, Cleanup, Drained, loopVars
<1>7. CASE \/ AddSnapshot(r, "endAdd", "endAnalyze")
           \/ Analyze(r, "endAnalyze", "endBroadcast")
           \/ Broadcast(r, "endBroadcast", "finish") \/ Finish(r)
           \/ LogView(r, "logView1", "logIndex1") \/ LogView(r, "logView2", "logIndex2")
  BY <1>1, <1>7 DEF AddSnapshot, Analyze, Broadcast, Finish, SetStatus, LogView, Drained,
                    loopVars
<1>8. CASE \/ LogIndex(r, "logIndex1", "logView2") \/ LogIndex(r, "logIndex2", "exit")
           \/ Exit(r)
  BY <1>1, <1>5, <1>8 DEF LogIndex, Exit, Drained, loopVars
<1> QED
  BY <1>2, <1>3, <1>4, <1>6, <1>7, <1>8 DEF RunStep

LEMMA NextWorkersDrained ==
  ASSUME TInv, WorkersDrained, [Next]_vars
  PROVE  WorkersDrained'
<1> USE DEF TInv
<1>1. ASSUME NEW c \in Clients, ClientStep(c) PROVE WorkersDrained'
  <2>1. UNCHANGED workers
    BY <1>1 DEF ClientStep, StartStep, LockStart, CheckRunning, CheckWarmup, CheckStatus,
                ResetCollector, ResetDetector, ResetState, BuildFails, Spawn, Stop, loopVars
  <2>2. \A q \in Runs : Pending(q)' = Pending(q)
    BY <2>1 DEF Pending, Occupied
  <2>3. \A q \in Runs : rpc'[q] = rpc[q] \/ rpc'[q] = "spawned"
    BY <1>1 DEF ClientStep, StartStep, LockStart, CheckRunning, CheckWarmup, CheckStatus,
                ResetCollector, ResetDetector, ResetState, BuildFails, Spawn, Stop,
                TypeOK, ControlTypes
  <2> QED
    BY <2>2, <2>3 DEF WorkersDrained, FinalPCs, LogPCs
<1>2. ASSUME NEW r \in Runs, WorkerStep(r) PROVE WorkersDrained'
  <2> USE DEF Pending, Occupied, TypeOK, LoopTypes
  <2>1. rpc' = rpc
    BY <1>2 DEF WorkerStep, CallSucceeds, CallFails, AddError, NoteError, ReleaseSlot,
                WorkerDone, Leave, OnlyWorker
  <2>2. Pending(r) # 0
    BY <1>2 DEF WorkerStep, CallSucceeds, CallFails, AddError, NoteError, ReleaseSlot,
                WorkerDone, Leave, Advance
  <2>3. \A q \in Runs \ {r} : Pending(q)' = Pending(q)
    BY <1>2 DEF WorkerStep, CallSucceeds, CallFails, AddError, NoteError, ReleaseSlot,
                WorkerDone, Leave, Advance
  <2> QED
    BY <2>1, <2>2, <2>3 DEF WorkersDrained
<1>3. CASE UNCHANGED vars
  BY <1>3 DEF vars, loopVars, WorkersDrained, Pending, Occupied
<1> QED
  BY <1>1, <1>2, <1>3, RunDrained DEF Next, Idle

(* No request of a run is in flight once its wg.Wait has returned.         *)
THEOREM NoWorkerAfterDrain == Spec => []WorkersDrained
<1>1. Init => WorkersDrained
  BY DEF Init, WorkersDrained, FinalPCs, LogPCs
<1> QED
  BY <1>1, InitTInv, NextTInv, NextWorkersDrained, PTL DEF Spec

-----------------------------------------------------------------------------
(* Tests that no other test overlaps, whatever other tests do to each      *)
(* other.                                                                  *)

Solo(r) == r \in Live /\ r \notin contested
PastReset(c) == pc[c] \in {"resetDetector", "resetState", "build"}
NextContested == spawned + 1 \in contested

SoloInv ==
  /\ \A r \in Runs : Solo(r) =>
       Live = {r} /\ r = spawned /\ \A c \in Clients : ~PastReset(c)
  /\ \A c \in Clients : PastReset(c) =>
       IF NextContested THEN Overlapped ELSE Live = {}

DoneInv ==
  /\ done = spawned
  /\ closed \subseteq 0..spawned
  /\ \A r \in Runs : doneOf[r] <= spawned
  /\ \A r \in Runs : Solo(r) =>
       r \notin closed /\ (rpc[r] # "spawned" => doneOf[r] = r)

EarlyPCs == {"none", "spawned", "entered"} \cup WarmupPCs
FreshInv == \A r \in Runs : rpc[r] \in EarlyPCs => launched[r] = 0 /\ Pending(r) = 0

ClearedInv ==
  \A c \in Clients : ~NextContested =>
    /\ PastReset(c) => collector = Zero
    /\ pc[c] \in {"resetState", "build"} => analyzed = <<>>
    /\ pc[c] = "build" => status = "idle" /\ report = <<>> /\ noted = 0

PhaseData(r) ==
  /\ rpc[r] \in {"spawned", "entered"} => status = "idle"
  /\ rpc[r] \in WarmupPCs => status = "warmup"
  /\ rpc[r] \in LoopPCs \cup {"cleanup"} => status = "running"
  /\ rpc[r] \in FinalPCs \cup {"drain"} => status = "stopping"
  /\ rpc[r] \in LoopPCs \cup {"warmup"} => startedAt = r

ClearData(r) ==
  rpc[r] \in EarlyPCs => /\ collector = Zero /\ noted = 0
                         /\ report = <<>> /\ analyzed = <<>>

ReportData(r) ==
  /\ \A i \in 1..Len(report) : report[i].by = r
  /\ IF rpc[r] \in {"tickAnalyze", "endAnalyze"}
       THEN report = Append(analyzed, snap[r])
       ELSE report = analyzed
  /\ rpc[r] \in {"endAnalyze", "endBroadcast", "finish"} \cup LogPCs => report # <<>>
  /\ rpc[r] \in {"logIndex1", "logIndex2"} => view[r] = Len(report)

CountData(r) ==
  /\ collector.success + collector.errors + calling[r] = launched[r]
  /\ collector.errors <= ErrorCap => noted + noting[r] = collector.errors

Shown == IF report = <<>> THEN Zero ELSE LastTotals
SnapTotals(r) == [success |-> snap[r].success, errors |-> snap[r].errors]

TotalsData(r) ==
  /\ Lifecycle!UpTo(Shown, collector)
  /\ rpc[r] \in {"tickAdd", "endAdd"} =>
       Lifecycle!UpTo(Shown, SnapTotals(r)) /\ Lifecycle!UpTo(SnapTotals(r), collector)
  /\ rpc[r] = "endAdd" => SnapTotals(r) = collector
  /\ rpc[r] \in {"endAnalyze", "endBroadcast", "finish"} => Shown = collector

RunData(r) == PhaseData(r) /\ ClearData(r) /\ ReportData(r) /\ CountData(r) /\ TotalsData(r)
SoloData == \A r \in Runs : Solo(r) => RunData(r)

IInv == /\ TInv /\ StatusBacked /\ WorkersDrained
        /\ SoloInv /\ DoneInv /\ FreshInv /\ ClearedInv /\ SoloData

LEMMA InitIInv == Init => IInv
<1> SUFFICES ASSUME Init PROVE IInv
  OBVIOUS
<1>1. \A r \in Runs : rpc[r] = "none"
  BY DEF Init
<1>2. Live = {}
  BY <1>1 DEF Live
<1>3. TInv /\ StatusBacked /\ WorkersDrained
  BY InitTInv DEF Init, StatusBacked, WorkersDrained, FinalPCs, LogPCs
<1>4. SoloInv /\ SoloData
  BY <1>2 DEF Init, SoloInv, SoloData, Solo, PastReset
<1>5. DoneInv
  <2>1. \A r \in Runs : ~Solo(r)
    BY <1>2 DEF Solo
  <2>2. done = spawned /\ closed \subseteq 0..spawned /\ \A r \in Runs : doneOf[r] <= spawned
    BY DEF Init
  <2> QED
    BY <2>1, <2>2 DEF DoneInv
<1>6. FreshInv
  BY DEF Init, FreshInv, Pending, Occupied
<1>7. ClearedInv
  BY DEF Init, ClearedInv, PastReset
<1> QED
  BY <1>3, <1>4, <1>5, <1>6, <1>7 DEF IInv

-----------------------------------------------------------------------------
(* What the steps of each kind of goroutine leave alone.                   *)

LEMMA RunFrame ==
  ASSUME TypeOK, NEW r \in Runs, RunStep(r)
  PROVE  /\ r \in Live /\ Live' \subseteq Live
         /\ rpc'[r] \notin {"none", "spawned"}
         /\ \A q \in Runs \ {r} : rpc'[q] = rpc[q]
         /\ UNCHANGED <<muVars, contested>>
<1>1. /\ rpc[r] \notin {"none", "ended"} /\ rpc'[r] \notin {"none", "spawned"}
      /\ \A q \in Runs \ {r} : rpc'[q] = rpc[q]
  BY DEF RunStep, Enter, Warmup, StampStart, Running, SetStatus, SeeCancel,
         DurationReached, DispatchTick, Launch, SkipRequest, EndIteration, MetricsTick,
         AddSnapshot, Analyze, Broadcast, Cleanup, FinalSnapshot, TakeFinalSnapshot,
         Finish, LogView, LogIndex, Exit, RunAt, TypeOK, ControlTypes
<1>2. UNCHANGED <<muVars, contested>>
  BY DEF RunStep, Enter, Warmup, StampStart, Running, SetStatus, SeeCancel,
         DurationReached, DispatchTick, Launch, SkipRequest, MetricsTick,
         AddSnapshot, Analyze, Broadcast, Cleanup, FinalSnapshot, TakeFinalSnapshot,
         Finish, LogView, LogIndex, Exit
<1>3. Live' \subseteq Live
  BY <1>1 DEF Live
<1> QED
  BY <1>1, <1>2, <1>3 DEF Live

LEMMA WorkerFrame ==
  ASSUME TypeOK, WorkersDrained, FreshInv, NEW r \in Runs, WorkerStep(r)
  PROVE  /\ OnlyWorker
         /\ rpc[r] \in LoopPCs \cup {"cleanup", "drain"}
         /\ \A q \in Runs \ {r} : Pending(q)' = Pending(q)
<1>1. OnlyWorker
  BY DEF WorkerStep, CallSucceeds, CallFails, AddError, NoteError, ReleaseSlot,
         WorkerDone, Leave
<1>2. Pending(r) # 0 /\ \A q \in Runs \ {r} : Pending(q)' = Pending(q)
  BY DEF WorkerStep, CallSucceeds, CallFails, AddError, NoteError, ReleaseSlot,
         WorkerDone, Leave, Advance, Pending, Occupied, TypeOK, LoopTypes
<1>3. rpc[r] \in LoopPCs \cup {"cleanup", "drain"}
  BY <1>2 DEF FreshInv, EarlyPCs, WorkersDrained, TypeOK, ControlTypes, RunPCs
<1> QED
  BY <1>1, <1>2, <1>3

(* A step of Start or Stop other than the five that reset or spawn only    *)
(* moves the client and the mutex.                                         *)
Preparing(c) ==
  ResetCollector(c) \/ ResetDetector(c) \/ ResetState(c) \/ Spawn(c)

LEMMA ClientFrame ==
  ASSUME TypeOK, NEW c \in Clients, ClientStep(c), ~Preparing(c)
  PROVE  /\ UNCHANGED <<stateVars, collector, analyzed, loopVars, closed, rpc, crashed,
                        contested, spawned, done>>
         /\ \A d \in Clients \ {c} : pc'[d] = pc[d]
         /\ ~PastReset(c)'
<1>1. UNCHANGED <<stateVars, collector, analyzed, loopVars, closed, rpc, crashed,
                  contested, spawned, done>>
  BY DEF ClientStep, StartStep, LockStart, CheckRunning, CheckWarmup, CheckStatus,
         BuildFails, Stop, Preparing
<1>2. (\A d \in Clients \ {c} : pc'[d] = pc[d]) /\ pc'[c] \in {"idle", "readRunning", "readWarmup", "resetCollector"}
  BY DEF ClientStep, StartStep, LockStart, CheckRunning, CheckWarmup, CheckStatus,
         BuildFails, Stop, Preparing, ClientAt, TypeOK, MutexTypes
<1> QED
  BY <1>1, <1>2 DEF PastReset

(* Only one client is past ResetCollector, since it holds the mutex.       *)
LEMMA OnePreparing ==
  ASSUME TInv, NEW c \in Clients, NEW d \in Clients, pc[c] # "idle", pc[d] # "idle"
  PROVE  c = d
BY DEF TInv, MutexInv

-----------------------------------------------------------------------------
(* An uncontested run is alone.                                            *)
LEMMA ClientSolo ==
  ASSUME TInv, SoloInv, NEW c \in Clients, ClientStep(c)
  PROVE  SoloInv'
<1> USE DEF TInv
<1>1. CASE ~Preparing(c)
  <2>1. Live' = Live /\ contested' = contested /\ spawned' = spawned
    BY <1>1, ClientFrame DEF Live
  <2>2. \A d \in Clients : PastReset(d)' => PastReset(d)
    BY <1>1, ClientFrame DEF PastReset
  <2> QED
    BY <2>1, <2>2 DEF SoloInv, Solo, NextContested, Overlapped
<1>2. CASE ResetCollector(c)
  <2>1. Live' = Live /\ spawned' = spawned /\ Live \subseteq 1..spawned
    BY <1>2 DEF ResetCollector, Live, muVars, SpawnInv, TypeOK, MutexTypes, Runs
  <2>2. CASE Live = {}
    <3>1. contested' = contested \ {spawned + 1}
      BY <1>2, <2>2 DEF ResetCollector, MarkContested
    <3> QED
      BY <2>1, <2>2, <3>1 DEF SoloInv, Solo, NextContested
  <2>3. CASE Live # {}
    <3>1. contested' = contested \cup Live \cup {spawned + 1}
      BY <1>2, <2>3 DEF ResetCollector, MarkContested
    <3> QED
      BY <2>1, <2>3, <3>1 DEF SoloInv, Solo, NextContested, Overlapped
  <2> QED
    BY <2>2, <2>3
<1>3. CASE ResetDetector(c) \/ ResetState(c)
  <2>1. Live' = Live /\ contested' = contested /\ spawned' = spawned
    BY <1>3 DEF ResetDetector, ResetState, Live, muVars
  <2>2. PastReset(c) /\ \A d \in Clients : PastReset(d)' => PastReset(d)
    BY <1>3 DEF ResetDetector, ResetState, ClientAt, PastReset, TypeOK, MutexTypes
  <2> QED
    BY <2>1, <2>2 DEF SoloInv, Solo, NextContested, Overlapped
<1>4. CASE Spawn(c)
  <2>1. pc[c] = "build" /\ PastReset(c)
    BY <1>4 DEF Spawn, ClientAt, PastReset
  <2>2. spawned < MaxRuns /\ spawned \in Nat
    BY <2>1 DEF MutexInv, TypeOK, MutexTypes
  <2>3. /\ spawned' = spawned + 1 /\ contested' = contested
        /\ spawned + 1 \in Runs
        /\ Live' = Live \cup {spawned + 1}
    BY <1>4, <2>2 DEF Spawn, Live, TypeOK, ControlTypes, Runs
  <2>4. \A d \in Clients : ~PastReset(d)'
    BY <1>4, <2>1, OnePreparing DEF Spawn, ClientAt, PastReset, TypeOK, MutexTypes
  <2>5. \A r \in Runs : ~Solo(r)
    BY <2>1 DEF SoloInv
  <2>6. CASE NextContested
    BY <2>3, <2>4, <2>5, <2>6 DEF SoloInv, Solo, NextContested
  <2>7. CASE ~NextContested
    BY <2>1, <2>3, <2>4, <2>5, <2>7 DEF SoloInv, Solo
  <2> QED
    BY <2>6, <2>7
<1> QED
  BY <1>1, <1>2, <1>3, <1>4 DEF Preparing

(* No step of a run or a worker lets a run come to life.                   *)
LEMMA FewerSolo ==
  ASSUME SoloInv, Live' \subseteq Live, UNCHANGED <<contested, spawned, pc>>
  PROVE  SoloInv' /\ \A r \in Runs : Solo(r)' => Solo(r)
BY DEF SoloInv, Solo, PastReset, NextContested, Overlapped

LEMMA NextSolo == TInv /\ WorkersDrained /\ FreshInv /\ SoloInv /\ [Next]_vars => SoloInv'
<1> SUFFICES ASSUME TInv, WorkersDrained, FreshInv, SoloInv, [Next]_vars PROVE SoloInv'
  OBVIOUS
<1> USE DEF TInv
<1>1. ASSUME NEW r \in Runs, RunStep(r) PROVE SoloInv'
  BY <1>1, RunFrame, FewerSolo DEF muVars
<1>2. ASSUME NEW r \in Runs, WorkerStep(r) PROVE SoloInv'
  BY <1>2, WorkerFrame, FewerSolo DEF OnlyWorker, muVars, Live
<1>3. CASE UNCHANGED vars
  BY <1>3, FewerSolo DEF vars, muVars, Live
<1> QED
  BY <1>1, <1>2, <1>3, ClientSolo DEF Next, Idle

(* The run a run's step or a worker's belongs to, when some run is alone.  *)
LEMMA StepIsSolo ==
  ASSUME TInv, WorkersDrained, FreshInv, SoloInv, NEW q \in Runs,
         RunStep(q) \/ WorkerStep(q), NEW r \in Runs, Solo(r)'
  PROVE  q = r /\ Solo(r)
<1> USE DEF TInv
<1>1. q \in Live /\ Live' \subseteq Live /\ UNCHANGED <<contested, spawned, pc>>
  <2>1. CASE RunStep(q)
    BY <2>1, RunFrame DEF muVars
  <2>2. CASE WorkerStep(q)
    BY <2>2, WorkerFrame DEF OnlyWorker, muVars, Live, LoopPCs
  <2> QED
    BY <2>1, <2>2
<1>2. Solo(r)
  BY <1>1, FewerSolo
<1> QED
  BY <1>1, <1>2 DEF SoloInv

(* A test that nobody overlapped while it was being prepared is prepared   *)
(* with no run alive, and no run or worker takes a step meanwhile.         *)
LEMMA NobodyRuns ==
  ASSUME TInv, WorkersDrained, FreshInv, SoloInv, NEW q \in Runs,
         RunStep(q) \/ WorkerStep(q), NEW c \in Clients, PastReset(c)
  PROVE  NextContested
<1> USE DEF TInv
<1>1. q \in Live
  <2>1. CASE WorkerStep(q)
    BY <2>1, WorkerFrame DEF Live, LoopPCs
  <2> QED
    BY <2>1, RunFrame
<1> QED
  BY <1>1 DEF SoloInv

-----------------------------------------------------------------------------
(* Channels: what a run closes at its end.                                 *)
LEMMA NextDone ==
  TInv /\ WorkersDrained /\ FreshInv /\ SoloInv /\ DoneInv /\ [Next]_vars => DoneInv'
<1> SUFFICES ASSUME TInv, WorkersDrained, FreshInv, SoloInv, DoneInv, [Next]_vars
             PROVE  DoneInv'
  OBVIOUS
<1> USE DEF TInv
<1>1. ASSUME NEW c \in Clients, ClientStep(c) PROVE DoneInv'
  <2>1. CASE Spawn(c)
    <3>1. spawned < MaxRuns /\ spawned \in Nat /\ pc[c] = "build"
      BY <2>1 DEF Spawn, ClientAt, MutexInv, TypeOK, MutexTypes
    <3>2. /\ done' = spawned + 1 /\ spawned' = spawned + 1 /\ doneOf' = doneOf
          /\ closed' = closed /\ rpc' = [rpc EXCEPT ![spawned + 1] = "spawned"]
      BY <2>1 DEF Spawn, loopVars
    <3>3. closed' \subseteq 0..spawned' /\ \A r \in Runs : doneOf'[r] <= spawned'
      BY <3>1, <3>2 DEF DoneInv, TypeOK, LoopTypes
    <3>4. \A r \in Runs : Solo(r)' => r = spawned + 1
      BY <2>1, <1>1, <3>1, <3>2, ClientSolo DEF SoloInv
    <3>5. spawned + 1 \notin closed /\ rpc'[spawned + 1] = "spawned"
      BY <3>1, <3>2 DEF DoneInv, TypeOK, ControlTypes, Runs
    <3> QED
      BY <3>2, <3>3, <3>4, <3>5 DEF DoneInv
  <2>2. CASE ~Spawn(c)
    <3>1. UNCHANGED <<done, spawned, doneOf, closed, rpc>>
      BY <1>1, <2>2, ClientFrame DEF Preparing, ResetCollector, ResetDetector, ResetState,
                                     loopVars
    <3>2. \A r \in Runs : Solo(r)' => Solo(r)
      BY <1>1, <2>2, ClientFrame DEF Preparing, ResetCollector, ResetDetector, ResetState,
                                     MarkContested, Solo, Live
    <3> QED
      BY <3>1, <3>2 DEF DoneInv
  <2> QED
    BY <2>1, <2>2
<1>2. ASSUME NEW q \in Runs, RunStep(q) PROVE DoneInv'
  <2>1. UNCHANGED <<done, spawned>>
    BY <1>2, RunFrame DEF muVars
  <2>2. CASE Enter(q)
    <3>1. closed' = closed /\ doneOf' = [doneOf EXCEPT ![q] = spawned]
      BY <2>2 DEF Enter, DoneInv
    <3>2. \A r \in Runs : doneOf'[r] <= spawned
      BY <3>1 DEF DoneInv, TypeOK, LoopTypes, MutexTypes
    <3>3. ASSUME NEW r \in Runs, Solo(r)' PROVE r \notin closed /\ doneOf'[r] = r
      BY <1>2, <3>1, <3>3, StepIsSolo DEF DoneInv, SoloInv, TypeOK, LoopTypes
    <3> QED
      BY <2>1, <3>1, <3>2, <3>3 DEF DoneInv
  <2>3. CASE Exit(q)
    <3>1. doneOf' = doneOf /\ closed' \subseteq closed \cup {doneOf[q]}
      BY <2>3 DEF Exit, loopVars
    <3>2. doneOf[q] \in 0..spawned
      BY DEF DoneInv, TypeOK, LoopTypes, MutexTypes
    <3>3. ASSUME NEW r \in Runs, Solo(r)' PROVE r \notin closed' /\ rpc'[r] = rpc[r]
      <4>1. q = r /\ Solo(r)
        BY <1>2, <3>3, StepIsSolo
      <4>2. rpc[r] = "exit" /\ doneOf[r] = r /\ r \notin closed
        BY <4>1, <2>3 DEF Exit, DoneInv
      <4>3. rpc'[r] = "ended"
        BY <2>3, <4>1, <4>2 DEF Exit, RunAt, TypeOK, ControlTypes
      <4> QED
        BY <3>3, <4>3 DEF Solo, Live
    <3>4. \A r \in Runs : Solo(r)' => Solo(r)
      BY <1>2, StepIsSolo
    <3> QED
      BY <2>1, <3>1, <3>2, <3>3, <3>4 DEF DoneInv
  <2>4. CASE ~Enter(q) /\ ~Exit(q)
    <3>1. UNCHANGED <<doneOf, closed>> /\ rpc[q] # "spawned"
      BY <1>2, <2>4 DEF RunStep, Warmup, StampStart, Running, SetStatus, SeeCancel,
           DurationReached, DispatchTick, Launch, SkipRequest, EndIteration, MetricsTick,
           AddSnapshot, Analyze, Broadcast, Cleanup, FinalSnapshot, TakeFinalSnapshot,
           Finish, LogView, LogIndex, loopVars, RunAt
    <3>2. \A r \in Runs : Solo(r)' => Solo(r) /\ r = q
      BY <1>2, StepIsSolo
    <3> QED
      BY <2>1, <3>1, <3>2 DEF DoneInv
  <2> QED
    BY <2>2, <2>3, <2>4
<1>3. ASSUME NEW q \in Runs, WorkerStep(q) PROVE DoneInv'
  <2>1. UNCHANGED <<done, spawned, closed, doneOf, rpc>>
    BY <1>3, WorkerFrame DEF OnlyWorker, muVars
  <2>2. \A r \in Runs : Solo(r)' => Solo(r)
    BY <1>3, StepIsSolo
  <2> QED
    BY <2>1, <2>2 DEF DoneInv
<1>4. CASE UNCHANGED vars
  BY <1>4 DEF vars, muVars, loopVars, DoneInv, Solo, Live
<1> QED
  BY <1>1, <1>2, <1>3, <1>4 DEF Next, Idle

-----------------------------------------------------------------------------
(* A run starts with no request launched.                                  *)
LEMMA NextFresh == TInv /\ WorkersDrained /\ FreshInv /\ [Next]_vars => FreshInv'
<1> SUFFICES ASSUME TInv, WorkersDrained, FreshInv, [Next]_vars PROVE FreshInv'
  OBVIOUS
<1> USE DEF TInv
<1>1. ASSUME UNCHANGED <<launched, workers>>,
             \A r \in Runs : rpc'[r] \in EarlyPCs => rpc[r] \in EarlyPCs
      PROVE  FreshInv'
  BY <1>1 DEF FreshInv, Pending, Occupied
<1>2. ASSUME NEW c \in Clients, ClientStep(c) PROVE FreshInv'
  <2>1. CASE Spawn(c)
    <3>1. spawned < MaxRuns /\ spawned \in Nat /\ pc[c] = "build"
      BY <2>1 DEF Spawn, ClientAt, MutexInv, TypeOK, MutexTypes
    <3>2. rpc[spawned + 1] = "none" /\ rpc' = [rpc EXCEPT ![spawned + 1] = "spawned"]
      BY <2>1, <3>1 DEF Spawn, SpawnInv, Runs
    <3> QED
      BY <1>1, <2>1, <3>2 DEF Spawn, EarlyPCs, loopVars, TypeOK, ControlTypes
  <2>2. CASE ~Spawn(c)
    <3>1. UNCHANGED <<launched, workers, rpc>>
      BY <1>2, <2>2, ClientFrame DEF Preparing, ResetCollector, ResetDetector, ResetState,
                                     loopVars
    <3> QED
      BY <1>1, <3>1
  <2> QED
    BY <2>1, <2>2
<1>3. ASSUME NEW q \in Runs, RunStep(q) PROVE FreshInv'
  <2>1. CASE Launch(q)
    <3>1. \A r \in Runs \ {q} : /\ launched'[r] = launched[r] /\ Pending(r)' = Pending(r)
                                /\ rpc'[r] = rpc[r]
      BY <2>1 DEF Launch, EndIteration, Pending, Occupied, TypeOK, LoopTypes, ControlTypes
    <3>2. rpc'[q] \in {"loop", "dispatch"}
      BY <2>1 DEF Launch, EndIteration, TypeOK, ControlTypes
    <3> QED
      BY <3>1, <3>2 DEF FreshInv, EarlyPCs, WarmupPCs
  <2>2. CASE ~Launch(q)
    <3>1. UNCHANGED <<launched, workers>>
      BY <1>3, <2>2 DEF RunStep, Enter, Warmup, StampStart, Running, SetStatus, SeeCancel,
           DurationReached, DispatchTick, SkipRequest, MetricsTick,
           AddSnapshot, Analyze, Broadcast, Cleanup, FinalSnapshot, TakeFinalSnapshot,
           Finish, LogView, LogIndex, Exit, loopVars
    <3>2. rpc'[q] \in EarlyPCs => rpc[q] \in EarlyPCs
      BY <1>3, <2>2 DEF RunStep, Enter, Warmup, StampStart, Running, SetStatus, SeeCancel,
           DurationReached, DispatchTick, SkipRequest, EndIteration, MetricsTick,
           AddSnapshot, Analyze, Broadcast, Cleanup, FinalSnapshot, TakeFinalSnapshot,
           Finish, LogView, LogIndex, Exit, RunAt, TypeOK, ControlTypes, EarlyPCs, WarmupPCs
    <3> QED
      BY <1>1, <1>3, <3>1, <3>2, RunFrame
  <2> QED
    BY <2>1, <2>2
<1>4. ASSUME NEW q \in Runs, WorkerStep(q) PROVE FreshInv'
  BY <1>4, WorkerFrame DEF FreshInv, OnlyWorker, EarlyPCs, WarmupPCs, LoopPCs
<1>5. CASE UNCHANGED vars
  BY <1>1, <1>5 DEF vars, loopVars
<1> QED
  BY <1>2, <1>3, <1>4, <1>5 DEF Next, Idle

(* What Start has reset stays reset, unless a live run is about.           *)
LEMMA NextCleared ==
  TInv /\ WorkersDrained /\ FreshInv /\ SoloInv /\ ClearedInv /\ [Next]_vars => ClearedInv'
<1> SUFFICES ASSUME TInv, WorkersDrained, FreshInv, SoloInv, ClearedInv, [Next]_vars
             PROVE  ClearedInv'
  OBVIOUS
<1> USE DEF TInv
<1>1. ASSUME NEW c \in Clients, ClientStep(c) PROVE ClearedInv'
  <2>1. CASE ~Preparing(c)
    <3>1. \A d \in Clients : PastReset(d)' => pc'[d] = pc[d]
      BY <1>1, <2>1, ClientFrame
    <3>2. UNCHANGED <<status, report, noted, collector, analyzed, contested, spawned>>
      BY <1>1, <2>1, ClientFrame DEF stateVars
    <3> QED
      BY <3>1, <3>2 DEF ClearedInv, PastReset, NextContested
  <2>2. CASE Preparing(c)
    <3>1. /\ pc[c] # "idle" /\ pc' \in [Clients -> StartPCs]
          /\ \A d \in Clients \ {c} : pc'[d] = pc[d]
      BY <2>2, ClientTInv, <1>1 DEF Preparing, ResetCollector, ResetDetector, ResetState, Spawn,
                  ClientAt, TypeOK, MutexTypes
    <3>2. \A d \in Clients \ {c} : ~PastReset(d)' /\ pc'[d] # "build"
      BY <3>1, OnePreparing DEF PastReset
    <3>3. CASE ResetCollector(c)
      BY <3>2, <3>3 DEF ResetCollector, ClientAt, ClearedInv, PastReset, TypeOK, MutexTypes
    <3>4. CASE ResetDetector(c)
      BY <3>2, <3>4 DEF ResetDetector, ClientAt, ClearedInv, PastReset, NextContested,
                        TypeOK, MutexTypes
    <3>5. CASE ResetState(c)
      BY <3>2, <3>5 DEF ResetState, ClientAt, ClearedInv, PastReset, NextContested,
                        TypeOK, MutexTypes
    <3>6. CASE Spawn(c)
      BY <3>2, <3>6 DEF Spawn, ClientAt, ClearedInv, PastReset, TypeOK, MutexTypes
    <3> QED
      BY <2>2, <3>3, <3>4, <3>5, <3>6 DEF Preparing
  <2> QED
    BY <2>1, <2>2
<1>2. ASSUME NEW q \in Runs, RunStep(q) \/ WorkerStep(q) PROVE ClearedInv'
  <2>1. UNCHANGED <<pc, spawned, contested>>
    BY <1>2, RunFrame, WorkerFrame DEF muVars, OnlyWorker
  <2> QED
    BY <1>2, <2>1, NobodyRuns DEF ClearedInv, PastReset, NextContested
<1>3. CASE UNCHANGED vars
  BY <1>3 DEF vars, stateVars, muVars, ClearedInv, PastReset, NextContested
<1> QED
  BY <1>1, <1>2, <1>3 DEF Next, Idle

-----------------------------------------------------------------------------
(* What a run that is alone finds in the state it writes, part by part.    *)

LEMMA PhaseStep ==
  ASSUME TypeOK, NEW r \in Runs, PhaseData(r), RunStep(r)
  PROVE  PhaseData(r)'
<1> USE DEF PhaseData, WarmupPCs, LoopPCs, FinalPCs, TypeOK, ControlTypes, RunAt
<1>1. CASE Enter(r) \/ SeeCancel(r) \/ DurationReached(r) \/ DispatchTick(r)
             \/ MetricsTick(r) \/ FinalSnapshot(r)
  BY <1>1 DEF Enter, SeeCancel, DurationReached, DispatchTick, MetricsTick, FinalSnapshot,
              TakeFinalSnapshot, stateVars
<1>2. CASE Warmup(r) \/ Running(r) \/ Cleanup(r) \/ Finish(r)
  BY <1>2 DEF Warmup, Running, Cleanup, Finish, SetStatus, LogPCs
<1>3. CASE StampStart(r)
  BY <1>3 DEF StampStart
<1>4. CASE Launch(r) \/ SkipRequest(r)
  BY <1>4 DEF Launch, SkipRequest, EndIteration, stateVars
<1>5. CASE \/ AddSnapshot(r, "tickAdd", "tickAnalyze")
           \/ Analyze(r, "tickAnalyze", "tickBroadcast")
           \/ Broadcast(r, "tickBroadcast", "loop")
           \/ AddSnapshot(r, "endAdd", "endAnalyze")
           \/ Analyze(r, "endAnalyze", "endBroadcast")
           \/ Broadcast(r, "endBroadcast", "finish")
  BY <1>5 DEF AddSnapshot, Analyze, Broadcast, stateVars
<1>6. CASE \/ LogView(r, "logView1", "logIndex1") \/ LogView(r, "logView2", "logIndex2")
           \/ LogIndex(r, "logIndex1", "logView2") \/ LogIndex(r, "logIndex2", "exit")
           \/ Exit(r)
  BY <1>6 DEF LogView, LogIndex, Exit, stateVars
<1> QED
  BY <1>1, <1>2, <1>3, <1>4, <1>5, <1>6 DEF RunStep

LEMMA ClearStep ==
  ASSUME TypeOK, NEW r \in Runs, ClearData(r), RunStep(r)
  PROVE  ClearData(r)'
<1> USE DEF ClearData, EarlyPCs, WarmupPCs, TypeOK, ControlTypes, RunAt
<1>1. CASE Enter(r) \/ Warmup(r) \/ StampStart(r) \/ Running(r)
  BY <1>1 DEF Enter, Warmup, StampStart, Running, SetStatus, stateVars
<1>2. CASE ~(Enter(r) \/ Warmup(r) \/ StampStart(r) \/ Running(r))
  <2>1. rpc'[r] \notin EarlyPCs
    BY <1>2 DEF RunStep, SeeCancel, DurationReached, DispatchTick, Launch, SkipRequest,
         EndIteration, MetricsTick, AddSnapshot, Analyze, Broadcast, Cleanup, SetStatus,
         FinalSnapshot, TakeFinalSnapshot, Finish, LogView, LogIndex, Exit
  <2> QED
    BY <2>1
<1> QED
  BY <1>1, <1>2

LEMMA CountStep ==
  ASSUME TypeOK, NEW r \in Runs, CountData(r), RunStep(r)
  PROVE  CountData(r)'
<1>1. UNCHANGED <<collector, noted, noting>>
  BY DEF RunStep, Enter, Warmup, StampStart, Running, SetStatus, SeeCancel,
         DurationReached, DispatchTick, Launch, SkipRequest, MetricsTick,
         AddSnapshot, Analyze, Broadcast, Cleanup, FinalSnapshot, TakeFinalSnapshot,
         Finish, LogView, LogIndex, Exit, stateVars, loopVars
<1>2. CASE Launch(r)
  BY <1>1, <1>2 DEF Launch, CountData, TypeOK, LoopTypes, StateTypes
<1>3. CASE ~Launch(r)
  <2>1. UNCHANGED <<calling, launched>>
    BY <1>3 DEF RunStep, Enter, Warmup, StampStart, Running, SetStatus, SeeCancel,
         DurationReached, DispatchTick, SkipRequest, MetricsTick,
         AddSnapshot, Analyze, Broadcast, Cleanup, FinalSnapshot, TakeFinalSnapshot,
         Finish, LogView, LogIndex, Exit, loopVars
  <2> QED
    BY <1>1, <2>1 DEF CountData
<1> QED
  BY <1>2, <1>3

LEMMA ReportStep ==
  ASSUME TInv, NEW r \in Runs, ReportData(r), RunStep(r)
  PROVE  ReportData(r)'
<1> USE DEF TInv, ReportData, LogPCs, TypeOK, ControlTypes, RunAt
<1>1. CASE \/ Enter(r) \/ Warmup(r) \/ StampStart(r) \/ Running(r) \/ SeeCancel(r)
           \/ DurationReached(r) \/ DispatchTick(r) \/ Launch(r) \/ SkipRequest(r)
  <2>1. /\ UNCHANGED <<report, analyzed>>
        /\ rpc[r] \in {"spawned", "entered", "stamp", "warmup", "loop", "dispatch"}
        /\ rpc'[r] \in {"entered", "stamp", "warmup", "loop", "dispatch", "cleanup"}
    BY <1>1 DEF Enter, Warmup, StampStart, Running, SetStatus, SeeCancel, DurationReached,
         DispatchTick, Launch, SkipRequest, EndIteration, stateVars
  <2> QED
    BY <2>1
<1>2. CASE MetricsTick(r) \/ FinalSnapshot(r) \/ Cleanup(r) \/ Finish(r)
  BY <1>2 DEF MetricsTick, FinalSnapshot, TakeFinalSnapshot, Cleanup, Finish, SetStatus,
              stateVars
<1>3. ASSUME NEW from, NEW to, AddSnapshot(r, from, to),
             \/ from = "tickAdd" /\ to = "tickAnalyze"
             \/ from = "endAdd" /\ to = "endAnalyze"
      PROVE  ReportData(r)'
  <2>1. snap[r] \in Snapshots /\ snap[r].by = r /\ snap' = snap /\ analyzed' = analyzed
    BY <1>3 DEF AddSnapshot, LocalsInv, PublishPCs, loopVars
  <2>2. report' = Append(report, snap[r]) /\ report \in Seq(Snapshots) /\ report = analyzed
    BY <1>3 DEF AddSnapshot, StateTypes
  <2>3. report' # <<>> /\ \A i \in 1..Len(report') : report'[i].by = r
    BY <2>1, <2>2
  <2>4. rpc'[r] = to
    BY <1>3 DEF AddSnapshot
  <2> QED
    BY <1>3, <2>1, <2>2, <2>3, <2>4
<1>4. ASSUME NEW from, NEW to, Analyze(r, from, to),
             \/ from = "tickAnalyze" /\ to = "tickBroadcast"
             \/ from = "endAnalyze" /\ to = "endBroadcast"
      PROVE  ReportData(r)'
  BY <1>4 DEF Analyze, stateVars
<1>5. ASSUME NEW from, NEW to, Broadcast(r, from, to),
             \/ from = "tickBroadcast" /\ to = "loop"
             \/ from = "endBroadcast" /\ to = "finish"
      PROVE  ReportData(r)'
  BY <1>5 DEF Broadcast, stateVars
<1>6. CASE LogView(r, "logView1", "logIndex1") \/ LogView(r, "logView2", "logIndex2")
  <2>1. view'[r] = Len(report)
    BY <1>6 DEF LogView, LoopTypes
  <2>2. UNCHANGED <<report, analyzed>> /\ rpc[r] \in {"logView1", "logView2"}
        /\ rpc'[r] \in {"logIndex1", "logIndex2"}
    BY <1>6 DEF LogView, stateVars
  <2> QED
    BY <2>1, <2>2
<1>7. CASE LogIndex(r, "logIndex1", "logView2") \/ LogIndex(r, "logIndex2", "exit")
  <2>1. UNCHANGED <<report, analyzed>> /\ rpc[r] \in {"logIndex1", "logIndex2"}
    BY <1>7 DEF LogIndex, stateVars
  <2>2. Len(report) \in 1..view[r]
    BY <2>1 DEF StateTypes
  <2>3. rpc'[r] \in {"logView2", "exit"}
    BY <1>7, <2>2 DEF LogIndex
  <2> QED
    BY <2>1, <2>3
<1>8. CASE Exit(r)
  BY <1>8 DEF Exit, stateVars
<1> QED
  BY <1>1, <1>2, <1>3, <1>4, <1>5, <1>6, <1>7, <1>8 DEF RunStep

(* What the dashboard is shown of a report.                                *)
LEMMA ShownTotals ==
  ASSUME TypeOK
  PROVE  /\ Shown \in [success : Nat, errors : Nat]
         /\ \A s \in Snapshots : report' = Append(report, s) =>
              Shown' = [success |-> s.success, errors |-> s.errors]
         /\ report' = report => Shown' = Shown
<1>1. report \in Seq(Snapshots)
  BY DEF TypeOK, StateTypes
<1>2. Shown \in [success : Nat, errors : Nat]
  <2>1. CASE report = <<>>
    BY <2>1 DEF Shown, Zero
  <2>2. CASE report # <<>>
    <3>1. Len(report) \in 1..Len(report)
      BY <1>1, <2>2
    <3>2. report[Len(report)] \in Snapshots
      BY <1>1, <3>1
    <3> QED
      BY <2>2, <3>2 DEF Shown, LastTotals, Snapshots
  <2> QED
    BY <2>1, <2>2
<1>3. ASSUME NEW s \in Snapshots, report' = Append(report, s)
      PROVE  Shown' = [success |-> s.success, errors |-> s.errors]
  <2>1. report' # <<>> /\ Len(report') = Len(report) + 1 /\ report'[Len(report')] = s
    BY <1>1, <1>3
  <2> QED
    BY <2>1 DEF Shown, LastTotals
<1> QED
  BY <1>2, <1>3 DEF Shown, LastTotals

LEMMA TotalsStep ==
  ASSUME TInv, NEW r \in Runs, TotalsData(r), RunStep(r)
  PROVE  TotalsData(r)'
<1> USE DEF TInv, TotalsData
<1>1. collector' = collector
  BY DEF RunStep, Enter, Warmup, StampStart, Running, SetStatus, SeeCancel,
         DurationReached, DispatchTick, Launch, SkipRequest, MetricsTick,
         AddSnapshot, Analyze, Broadcast, Cleanup, FinalSnapshot, TakeFinalSnapshot,
         Finish, LogView, LogIndex, Exit
<1>2. collector \in [success : Nat, errors : Nat]
  BY DEF TypeOK, StateTypes
<1>3. CASE MetricsTick(r) \/ FinalSnapshot(r)
  <2>1. Snapshot(r) /\ report' = report /\ rpc'[r] \in {"tickAdd", "endAdd"}
    BY <1>3 DEF MetricsTick, FinalSnapshot, TakeFinalSnapshot, stateVars, RunAt, TypeOK,
                ControlTypes
  <2>2. SnapTotals(r)' = collector
    BY <1>2, <2>1 DEF Snapshot, SnapTotals, TypeOK, LoopTypes
  <2> QED
    BY <1>1, <1>2, <2>1, <2>2, ShownTotals DEF Lifecycle!UpTo
<1>4. ASSUME NEW from, NEW to, AddSnapshot(r, from, to),
             \/ from = "tickAdd" /\ to = "tickAnalyze"
             \/ from = "endAdd" /\ to = "endAnalyze"
      PROVE  TotalsData(r)'
  <2>1. snap[r] \in Snapshots /\ report' = Append(report, snap[r]) /\ rpc[r] = from
    BY <1>4 DEF AddSnapshot, RunAt, LocalsInv, PublishPCs
  <2>2. Shown' = SnapTotals(r)
    BY <2>1, ShownTotals DEF SnapTotals
  <2>3. rpc'[r] = to
    BY <1>4 DEF AddSnapshot, RunAt, TypeOK, ControlTypes
  <2> QED
    BY <1>1, <1>4, <2>1, <2>2, <2>3
<1>5. CASE \/ Analyze(r, "endAnalyze", "endBroadcast") \/ Broadcast(r, "endBroadcast", "finish")
  <2>1. /\ report' = report
        /\ rpc[r] \in {"endAnalyze", "endBroadcast"} /\ rpc'[r] \in {"endBroadcast", "finish"}
    BY <1>5 DEF Analyze, Broadcast, RunAt, TypeOK, ControlTypes, stateVars
  <2> QED
    BY <1>1, <2>1, ShownTotals
<1>6. CASE \/ Enter(r) \/ Warmup(r) \/ StampStart(r) \/ Running(r) \/ SeeCancel(r)
           \/ DurationReached(r) \/ DispatchTick(r) \/ Launch(r) \/ SkipRequest(r)
           \/ Analyze(r, "tickAnalyze", "tickBroadcast")
           \/ Broadcast(r, "tickBroadcast", "loop") \/ Cleanup(r) \/ Finish(r)
           \/ LogView(r, "logView1", "logIndex1") \/ LogView(r, "logView2", "logIndex2")
           \/ LogIndex(r, "logIndex1", "logView2") \/ LogIndex(r, "logIndex2", "exit")
           \/ Exit(r)
  <2>1. report' = report
    BY <1>6 DEF Enter, Warmup, StampStart, Running, SetStatus, SeeCancel, DurationReached,
         DispatchTick, Launch, SkipRequest, Analyze, Broadcast, Cleanup, Finish, LogView,
         LogIndex, Exit, stateVars
  <2>2. rpc'[r] \notin {"tickAdd", "endAdd", "endAnalyze", "endBroadcast", "finish"}
    BY <1>6 DEF Enter, Warmup, StampStart, Running, SetStatus, SeeCancel, DurationReached,
         DispatchTick, Launch, SkipRequest, EndIteration, Analyze, Broadcast, Cleanup, Finish,
         LogView, LogIndex, Exit, RunAt, TypeOK, ControlTypes
  <2> QED
    BY <1>1, <2>1, <2>2, ShownTotals
<1> QED
  BY <1>3, <1>4, <1>5, <1>6 DEF RunStep

LEMMA WorkerData ==
  ASSUME TInv, WorkersDrained, FreshInv, NEW r \in Runs, RunData(r), WorkerStep(r)
  PROVE  RunData(r)'
<1> USE DEF TInv
<1>1. /\ UNCHANGED <<status, startedAt, report, analyzed, snap, view, launched, rpc>>
      /\ rpc[r] \in LoopPCs \cup {"cleanup", "drain"}
  BY WorkerFrame DEF OnlyWorker
<1>2. PhaseData(r)' /\ ClearData(r)' /\ ReportData(r)'
  BY <1>1 DEF RunData, PhaseData, ClearData, ReportData, EarlyPCs, WarmupPCs, LoopPCs
<1>3. CountData(r)'
  <2>1. CountData(r) /\ launched' = launched
    BY <1>1 DEF RunData
  <2>2. /\ collector \in [success : Nat, errors : Nat] /\ noted \in Nat
        /\ calling[r] \in Nat /\ noting[r] \in Nat /\ launched[r] \in Nat
        /\ r \in DOMAIN calling /\ r \in DOMAIN noting
    BY DEF TypeOK, StateTypes, LoopTypes
  <2>3. CASE CallSucceeds(r)
    <3>1. /\ collector'.success = collector.success + 1 /\ collector'.errors = collector.errors
          /\ calling'[r] = calling[r] - 1 /\ noting' = noting /\ noted' = noted
      BY <2>2, <2>3 DEF CallSucceeds, Advance
    <3> QED
      BY <2>1, <2>2, <3>1 DEF CountData
  <2>4. CASE CallFails(r)
    <3>1. /\ collector'.success = collector.success /\ collector'.errors = collector.errors + 1
          /\ calling'[r] = calling[r] - 1 /\ noting'[r] = noting[r] + 1 /\ noted' = noted
      BY <2>2, <2>4 DEF CallFails, Advance
    <3> QED
      BY <2>1, <2>2, <3>1 DEF CountData
  <2>5. CASE AddError(r)
    <3>1. /\ collector' = collector /\ calling' = calling
          /\ noting[r] > 0 /\ noting'[r] = noting[r] - 1
          /\ noted' = IF noted + 1 > ErrorCap THEN ErrorKeep ELSE noted + 1
      BY <2>2, <2>5 DEF AddError, NoteError, Advance
    <3> QED
      BY <2>1, <2>2, <3>1 DEF CountData
  <2>6. CASE ReleaseSlot(r) \/ WorkerDone(r)
    BY <2>1, <2>6 DEF ReleaseSlot, WorkerDone, Leave, CountData
  <2> QED
    BY <2>3, <2>4, <2>5, <2>6 DEF WorkerStep
<1>4. TotalsData(r)'
  <2>1. collector'.success >= collector.success /\ collector'.errors >= collector.errors
    BY DEF WorkerStep, CallSucceeds, CallFails, AddError, NoteError, ReleaseSlot,
           WorkerDone, Leave, TypeOK, StateTypes
  <2>2. Lifecycle!UpTo(Shown, collector)'
    <3>1. Lifecycle!UpTo(Shown, collector) /\ Shown' = Shown
      BY <1>1, ShownTotals DEF RunData, TotalsData
    <3>2. /\ Shown \in [success : Nat, errors : Nat]
          /\ collector \in [success : Nat, errors : Nat]
          /\ collector' \in [success : Nat, errors : Nat]
      BY ShownTotals, WorkerTInv DEF TypeOK, StateTypes
    <3> QED
      BY <2>1, <3>1, <3>2 DEF Lifecycle!UpTo
  <2>3. CASE rpc[r] # "tickAdd"
    BY <1>1, <2>2, <2>3 DEF TotalsData, LoopPCs
  <2>4. CASE rpc[r] = "tickAdd"
    <3>1. Lifecycle!UpTo(Shown, SnapTotals(r))' /\ SnapTotals(r)' = SnapTotals(r)
      BY <1>1, <2>4, ShownTotals DEF RunData, TotalsData, SnapTotals
    <3>2. Lifecycle!UpTo(SnapTotals(r), collector) /\ snap[r] \in Snapshots
      BY <2>4 DEF RunData, TotalsData, LocalsInv, PublishPCs
    <3>3. Lifecycle!UpTo(SnapTotals(r), collector)'
      <4>1. /\ SnapTotals(r) \in [success : Nat, errors : Nat]
            /\ collector \in [success : Nat, errors : Nat]
            /\ collector' \in [success : Nat, errors : Nat]
        BY <3>2, WorkerTInv DEF TypeOK, StateTypes, SnapTotals, Snapshots
      <4> QED
        BY <2>1, <3>1, <3>2, <4>1 DEF Lifecycle!UpTo
    <3> QED
      BY <1>1, <2>2, <2>4, <3>1, <3>3 DEF TotalsData
  <2> QED
    BY <2>3, <2>4
<1> QED
  BY <1>2, <1>3, <1>4 DEF RunData

(* A wait group at zero means no worker at any stage.                      *)
LEMMA NonePending ==
  ASSUME TypeOK, NEW r \in Runs, Pending(r) = 0
  PROVE  calling[r] = 0 /\ noting[r] = 0
<1>1. /\ calling[r] \in Nat /\ noting[r] \in Nat
      /\ holding[r] \in Nat /\ leaving[r] \in Nat
  BY DEF TypeOK, LoopTypes
<1>2. calling[r] + noting[r] + holding[r] + leaving[r] = 0
  BY DEF Pending, Occupied
<1> QED
  BY ONLY <1>1, <1>2

(* A Start hands a run the state it has reset.                             *)
LEMMA SpawnData ==
  ASSUME TInv, FreshInv, ClearedInv, ~NextContested, NEW c \in Clients, Spawn(c),
         NEW r \in Runs, r = spawned + 1
  PROVE  RunData(r)'
<1> USE DEF TInv
<1>1. /\ pc[c] = "build" /\ spawned \in Nat
      /\ collector = Zero /\ analyzed = <<>>
      /\ status = "idle" /\ report = <<>> /\ noted = 0
  BY DEF Spawn, ClientAt, ClearedInv, PastReset, TypeOK, MutexTypes
<1>2. rpc[r] = "none" /\ rpc'[r] = "spawned"
  BY <1>1 DEF Spawn, SpawnInv, TypeOK, ControlTypes
<1>3. launched'[r] = 0 /\ calling'[r] = 0 /\ noting'[r] = 0
  <2>1. launched[r] = 0 /\ Pending(r) = 0
    BY <1>2 DEF FreshInv, EarlyPCs
  <2>2. launched' = launched /\ calling' = calling /\ noting' = noting
    BY DEF Spawn, loopVars
  <2> QED
    BY <2>1, <2>2, NonePending
<1>4. UNCHANGED <<collector, analyzed, status, report, noted>>
  BY DEF Spawn, stateVars
<1>5. PhaseData(r)' /\ ClearData(r)' /\ ReportData(r)'
  BY <1>1, <1>2, <1>4 DEF PhaseData, ClearData, ReportData, WarmupPCs, LoopPCs, FinalPCs,
                          LogPCs
<1>6. CountData(r)'
  BY <1>1, <1>3, <1>4 DEF CountData, Zero
<1>7. TotalsData(r)'
  BY <1>1, <1>2, <1>4 DEF TotalsData, Lifecycle!UpTo, Zero, Shown
<1> QED
  BY <1>5, <1>6, <1>7 DEF RunData

LEMMA NextSoloData == IInv /\ [Next]_vars => SoloData'
<1> SUFFICES ASSUME IInv, [Next]_vars, NEW r \in Runs, Solo(r)' PROVE RunData(r)'
  BY DEF SoloData
<1> USE DEF IInv, TInv
<1>1. ASSUME NEW c \in Clients, ClientStep(c) PROVE RunData(r)'
  <2>1. CASE ~Preparing(c)
    <3>1. UNCHANGED <<stateVars, collector, analyzed, loopVars, rpc, contested>>
      BY <1>1, <2>1, ClientFrame
    <3>2. RunData(r)
      BY <3>1 DEF Solo, Live, SoloData
    <3> QED
      BY <3>1, <3>2 DEF RunData, PhaseData, ClearData, ReportData, CountData, TotalsData,
            Shown, LastTotals, SnapTotals, stateVars, loopVars
  <2>2. CASE ResetCollector(c)
    BY <2>2 DEF ResetCollector, MarkContested, Solo, Live
  <2>3. CASE ResetDetector(c) \/ ResetState(c)
    BY <2>3 DEF ResetDetector, ResetState, ClientAt, PastReset, Solo, Live, SoloInv
  <2>4. CASE Spawn(c)
    <3>1. r = spawned + 1 /\ ~NextContested
      <4>1. spawned' = spawned + 1 /\ contested' = contested
        BY <2>4 DEF Spawn
      <4> QED
        BY <1>1, <4>1, ClientSolo DEF SoloInv, Solo, NextContested
    <3> QED
      BY <2>4, <3>1, SpawnData
  <2> QED
    BY <1>1, <2>1, <2>2, <2>3, <2>4 DEF Preparing
<1>2. ASSUME NEW q \in Runs, RunStep(q) PROVE RunData(r)'
  <2>1. q = r /\ RunData(r)
    BY <1>2, StepIsSolo DEF SoloData
  <2> QED
    BY <1>2, <2>1, PhaseStep, ClearStep, ReportStep, CountStep, TotalsStep DEF RunData
<1>3. ASSUME NEW q \in Runs, WorkerStep(q) PROVE RunData(r)'
  BY <1>3, StepIsSolo, WorkerData DEF SoloData
<1>4. CASE UNCHANGED vars
  <2>1. RunData(r)
    BY <1>4 DEF vars, Solo, Live, SoloData
  <2> QED
    BY <1>4, <2>1 DEF vars, stateVars, loopVars, RunData, PhaseData, ClearData, ReportData,
          CountData, TotalsData, Shown, LastTotals, SnapTotals
<1> QED
  BY <1>1, <1>2, <1>3, <1>4 DEF Next, Idle

LEMMA NextIInv == IInv /\ [Next]_vars => IInv'
BY NextTInv, NextStatusBacked, NextWorkersDrained, NextSolo, NextDone, NextFresh,
   NextCleared, NextSoloData DEF IInv

-----------------------------------------------------------------------------
(* An uncontested run dispatches under its own status and start time, and  *)
(* report and detector hold nothing but its own snapshots: what Start has  *)
(* reset before its go statement, nobody else has touched.                 *)
THEOREM OwnStateOfTest == Spec => []OwnState
<1>1. IInv => OwnState
  <2> SUFFICES ASSUME IInv, NEW r \in Live \ contested
               PROVE  PhaseData(r) /\ ReportData(r)
    BY DEF OwnState, PhaseData, ReportData
  <2> QED
    BY DEF IInv, SoloData, Solo, RunData, Live
<1> QED
  BY <1>1, InitIInv, NextIInv, PTL DEF Spec

(* The error list of an uncontested test that has not overflowed is        *)
(* complete whenever no request is in flight.                              *)
THEOREM ErrorsOfTest == Spec => []ErrorListComplete
<1>1. IInv => ErrorListComplete
  <2> SUFFICES ASSUME IInv, NEW r \in Live \ contested, Pending(r) = 0,
                      collector.errors <= ErrorCap
               PROVE  noted = collector.errors
    BY DEF ErrorListComplete
  <2>1. r \in Runs /\ CountData(r)
    BY DEF IInv, SoloData, Solo, RunData, Live
  <2>2. noting[r] = 0
    BY <2>1, NonePending DEF IInv, TInv
  <2> QED
    BY <2>1, <2>2 DEF CountData, IInv, TInv, TypeOK, StateTypes
<1> QED
  BY <1>1, InitIInv, NextIInv, PTL DEF Spec

(* A run that nobody overlapped finds its snapshot when it logs and its    *)
(* own channel open when it ends: it does not panic.                       *)
LEMMA SoloNoPanic ==
  ASSUME IInv, NEW r \in Runs, Solo(r), RunStep(r)
  PROVE  crashed' = crashed
<1> USE DEF IInv, TInv
<1>1. CASE LogIndex(r, "logIndex1", "logView2") \/ LogIndex(r, "logIndex2", "exit")
  <2>1. rpc[r] \in {"logIndex1", "logIndex2"} /\ ReportData(r)
    BY <1>1 DEF LogIndex, SoloData, RunData
  <2>2. Len(report) \in 1..view[r]
    BY <2>1 DEF ReportData, LogPCs, TypeOK, StateTypes
  <2> QED
    BY <1>1, <2>2 DEF LogIndex
<1>2. CASE Exit(r)
  BY <1>2 DEF Exit, DoneInv
<1>3. CASE ~(LogIndex(r, "logIndex1", "logView2") \/ LogIndex(r, "logIndex2", "exit") \/ Exit(r))
  BY <1>3 DEF RunStep, Enter, Warmup, StampStart, Running, SetStatus, SeeCancel,
         DurationReached, DispatchTick, Launch, SkipRequest, MetricsTick,
         AddSnapshot, Analyze, Broadcast, Cleanup, FinalSnapshot, TakeFinalSnapshot,
         Finish, LogView
<1> QED
  BY <1>1, <1>2, <1>3

(* The process does not panic unless two tests overlapped: close(e.done)   *)
(* closes a channel that is open, and the last log line indexes a report   *)
(* that has snapshots.                                                     *)
THEOREM NoPanicInSeries == Spec => []SerialRunsNeverPanic
<1>1. Init => SerialRunsNeverPanic
  BY DEF Init, SerialRunsNeverPanic
<1>2. IInv /\ SerialRunsNeverPanic /\ [Next]_vars => SerialRunsNeverPanic'
  <2> SUFFICES ASSUME IInv, SerialRunsNeverPanic, [Next]_vars PROVE SerialRunsNeverPanic'
    OBVIOUS
  <2>1. ASSUME NEW c \in Clients, ClientStep(c), ~crashed PROVE SerialRunsNeverPanic'
    <3>1. crashed' = crashed
      BY <2>1, ClientFrame DEF IInv, TInv, Preparing, ResetCollector, ResetDetector,
                               ResetState, Spawn
    <3> QED
      BY <2>1, <3>1 DEF SerialRunsNeverPanic
  <2>2. ASSUME NEW r \in Runs, RunStep(r), ~crashed PROVE SerialRunsNeverPanic'
    <3>1. r \in Live /\ contested' = contested
      BY <2>2, RunFrame DEF IInv, TInv
    <3>2. CASE r \in contested
      BY <3>1, <3>2 DEF SerialRunsNeverPanic
    <3>3. CASE r \notin contested
      BY <2>2, <3>1, <3>3, SoloNoPanic DEF Solo, SerialRunsNeverPanic
    <3> QED
      BY <3>2, <3>3
  <2>3. ASSUME NEW r \in Runs, WorkerStep(r) PROVE SerialRunsNeverPanic'
    BY <2>3, WorkerFrame DEF IInv, TInv, OnlyWorker, SerialRunsNeverPanic
  <2>4. CASE UNCHANGED vars
    BY <2>4 DEF vars, SerialRunsNeverPanic
  <2> QED
    BY <2>1, <2>2, <2>3, <2>4 DEF Next, Idle
<1> QED
  BY <1>1, <1>2, InitIInv, NextIInv, PTL DEF Spec

-----------------------------------------------------------------------------
(* The final report.                                                       *)
PostPCs == (FinalPCs \ {"endAdd"}) \cup LogPCs \cup {"exit", "ended"}

LEMMA NextFinal == IInv /\ FinalReportComplete /\ [Next]_vars => FinalReportComplete'
<1> SUFFICES ASSUME IInv, FinalReportComplete, [Next]_vars, NEW r \in Runs,
                    r \notin contested', rpc'[r] \in PostPCs,
                    report' # <<>>, report'[Len(report')].by = r
             PROVE  report'[Len(report')].success + report'[Len(report')].errors = launched'[r]
  BY DEF FinalReportComplete, PostPCs
<1> USE DEF IInv, TInv
<1>1. CASE /\ r \notin contested /\ rpc[r] \in PostPCs
           /\ report' = report /\ launched'[r] = launched[r]
  BY <1>1 DEF FinalReportComplete, PostPCs
<1>2. ASSUME NEW c \in Clients, ClientStep(c)
      PROVE  report'[Len(report')].success + report'[Len(report')].errors = launched'[r]
  <2>1. CASE ~Preparing(c)
    BY <1>1, <1>2, <2>1, ClientFrame DEF stateVars, loopVars
  <2>2. CASE ResetCollector(c)
    <3>1. contested' \cup {spawned + 1} = contested \cup {spawned + 1} \cup contested'
      BY <2>2 DEF ResetCollector, MarkContested
    <3>2. rpc'[r] = rpc[r] /\ r # spawned + 1
      BY <2>2 DEF ResetCollector, SpawnInv, TypeOK, MutexTypes, PostPCs, FinalPCs, LogPCs, Runs
    <3> QED
      BY <1>1, <2>2, <3>1, <3>2 DEF ResetCollector, stateVars, loopVars
  <2>3. CASE ResetDetector(c)
    BY <1>1, <2>3 DEF ResetDetector, stateVars, loopVars
  <2>4. CASE ResetState(c)
    BY <2>4 DEF ResetState
  <2>5. CASE Spawn(c)
    <3>1. rpc'[r] = rpc[r]
      BY <2>5 DEF Spawn, TypeOK, ControlTypes, PostPCs, FinalPCs, LogPCs
    <3> QED
      BY <1>1, <2>5, <3>1 DEF Spawn, stateVars, loopVars
  <2> QED
    BY <1>2, <2>1, <2>2, <2>3, <2>4, <2>5 DEF Preparing
<1>3. ASSUME NEW q \in Runs, RunStep(q)
      PROVE  report'[Len(report')].success + report'[Len(report')].errors = launched'[r]
  <2>1. contested' = contested /\ (q # r => rpc'[r] = rpc[r])
    BY <1>3, RunFrame
  <2>2. CASE \/ AddSnapshot(q, "tickAdd", "tickAnalyze") \/ AddSnapshot(q, "endAdd", "endAnalyze")
    <3>1. /\ snap[q] \in Snapshots /\ snap[q].by = q /\ launched' = launched
          /\ report' = Append(report, snap[q]) /\ report \in Seq(Snapshots)
      BY <2>2 DEF AddSnapshot, RunAt, LocalsInv, PublishPCs, loopVars, TypeOK, StateTypes
    <3>2. report'[Len(report')] = snap[q]
      BY <3>1
    <3>3. q = r
      BY <3>1, <3>2
    <3>4. rpc[r] = "endAdd" /\ Solo(r)
      BY <2>1, <2>2, <3>3 DEF AddSnapshot, RunAt, TypeOK, ControlTypes, PostPCs, FinalPCs, LogPCs,
                              Solo, Live
    <3>5. SnapTotals(r) = collector /\ CountData(r)
      BY <3>4 DEF SoloData, RunData, TotalsData
    <3>6. calling[r] = 0
      BY <3>4, NonePending DEF WorkersDrained, FinalPCs
    <3>7. snap[r].success + snap[r].errors = launched[r]
      <4>1. snap[r].success = collector.success /\ snap[r].errors = collector.errors
        BY <3>5 DEF SnapTotals
      <4>2. collector.success \in Nat /\ collector.errors \in Nat
        BY DEF TypeOK, StateTypes
      <4> QED
        BY <3>5, <3>6, <4>1, <4>2 DEF CountData
    <3> QED
      BY <3>1, <3>2, <3>3, <3>7
  <2>3. CASE ~(AddSnapshot(q, "tickAdd", "tickAnalyze") \/ AddSnapshot(q, "endAdd", "endAnalyze"))
    <3>1. report' = report
      BY <1>3, <2>3 DEF RunStep, Enter, Warmup, StampStart, Running, SetStatus, SeeCancel,
         DurationReached, DispatchTick, Launch, SkipRequest, MetricsTick,
         Analyze, Broadcast, Cleanup, FinalSnapshot, TakeFinalSnapshot,
         Finish, LogView, LogIndex, Exit, stateVars
    <3>2. q = r => rpc[r] \in PostPCs
      BY <1>3, <2>3 DEF RunStep, Enter, Warmup, StampStart, Running, SetStatus, SeeCancel,
         DurationReached, DispatchTick, Launch, SkipRequest, EndIteration, MetricsTick,
         Analyze, Broadcast, Cleanup, FinalSnapshot, TakeFinalSnapshot,
         Finish, LogView, LogIndex, Exit, RunAt, TypeOK, ControlTypes, PostPCs, FinalPCs, LogPCs
    <3>3. launched'[r] = launched[r]
      <4>1. CASE Launch(q)
        BY <2>1, <3>2, <4>1 DEF Launch, EndIteration, PostPCs, FinalPCs, LogPCs, TypeOK, LoopTypes
      <4>2. CASE ~Launch(q)
        BY <1>3, <4>2 DEF RunStep, Enter, Warmup, StampStart, Running, SetStatus, SeeCancel,
         DurationReached, DispatchTick, SkipRequest, MetricsTick, AddSnapshot,
         Analyze, Broadcast, Cleanup, FinalSnapshot, TakeFinalSnapshot,
         Finish, LogView, LogIndex, Exit, loopVars
      <4> QED
        BY <4>1, <4>2
    <3> QED
      BY <1>1, <2>1, <3>1, <3>2, <3>3
  <2> QED
    BY <2>2, <2>3
<1>4. ASSUME NEW q \in Runs, WorkerStep(q)
      PROVE  report'[Len(report')].success + report'[Len(report')].errors = launched'[r]
  BY <1>1, <1>4, WorkerFrame DEF OnlyWorker
<1>5. CASE UNCHANGED vars
  BY <1>1, <1>5 DEF vars, stateVars, loopVars
<1> QED
  BY <1>2, <1>3, <1>4, <1>5 DEF Next, Idle

(* The last snapshot of a run that nobody overlapped counts every request  *)
(* the run launched, and goes on doing so when the run has ended.          *)
THEOREM FinalReportOfTest == Spec => []FinalReportComplete
<1>1. Init => FinalReportComplete
  BY DEF Init, FinalReportComplete
<1> QED
  BY <1>1, InitIInv, NextIInv, NextFinal, PTL DEF Spec

-----------------------------------------------------------------------------
(* The life of one test at a time.  A step is matched with the tuple of    *)
(* what the dashboard sees.                                                *)
Phase   == IF Overlapped THEN "overlapped" ELSE status
Sent    == IF UnderLoad THEN launched[spawned] ELSE 0
Counted == IF UnderLoad THEN collector ELSE Zero
Report  == IF Overlapped \/ report = <<>> THEN Zero ELSE LastTotals
Seen    == <<Phase, Sent, Counted, Report>>
TestStep == [Lifecycle!Next]_Lifecycle!vars

LEMMA SeenKept == UNCHANGED Seen => TestStep
BY DEF TestStep, Seen, Phase, Sent, Counted, Report, Lifecycle!vars

(* Once tests overlap, nothing is seen any more.                           *)
LEMMA OverlappedStep == Overlapped /\ Overlapped' => TestStep
BY SeenKept DEF Seen, Phase, Sent, Counted, Report, UnderLoad

LEMMA OverlapStep == ~Overlapped /\ Overlapped' => TestStep
<1> SUFFICES ASSUME ~Overlapped, Overlapped' PROVE Lifecycle!Overlap
  BY DEF TestStep, Lifecycle!Next
<1> QED
  BY DEF UnderLoad, Lifecycle!Overlap, Lifecycle!None, Zero

LEMMA OverlapStays ==
  ASSUME TInv, Overlapped, [Next]_vars
  PROVE  Overlapped'
<1> USE DEF TInv
<1>0. spawned \in Nat
  BY DEF TypeOK, MutexTypes
<1>1. ASSUME NEW c \in Clients, ResetCollector(c) PROVE Overlapped'
  BY <1>0, <1>1 DEF ResetCollector, MarkContested, Overlapped
<1>2. ASSUME NEW c \in Clients, Spawn(c) PROVE Overlapped'
  BY <1>0, <1>2 DEF Spawn, Overlapped
<1>3. ASSUME UNCHANGED <<contested, spawned>> PROVE Overlapped'
  BY <1>3 DEF Overlapped
<1>4. ASSUME NEW c \in Clients, ClientStep(c) PROVE Overlapped'
  <2>1. CASE ~Preparing(c)
    BY <1>3, <1>4, <2>1, ClientFrame
  <2>2. CASE ResetDetector(c) \/ ResetState(c)
    BY <1>3, <2>2 DEF ResetDetector, ResetState
  <2> QED
    BY <1>1, <1>2, <2>1, <2>2 DEF Preparing
<1>5. ASSUME NEW r \in Runs, RunStep(r) PROVE Overlapped'
  BY <1>3, <1>5, RunFrame DEF muVars
<1>6. ASSUME NEW r \in Runs, WorkerStep(r) PROVE Overlapped'
  <2>1. UNCHANGED <<contested, spawned>>
    BY <1>6 DEF WorkerStep, CallSucceeds, CallFails, AddError, NoteError, ReleaseSlot,
                WorkerDone, Leave, OnlyWorker, muVars
  <2> QED
    BY <1>3, <2>1
<1>7. CASE UNCHANGED vars
  BY <1>3, <1>7 DEF vars, muVars
<1> QED
  BY <1>4, <1>5, <1>6, <1>7 DEF Next, Idle

(* While no tests overlap, a live run is the latest and is alone; without  *)
(* one the status is idle or finished.                                     *)
LEMMA LiveIsSolo ==
  ASSUME IInv, ~Overlapped, NEW r \in Live
  PROVE  r \in Runs /\ Solo(r) /\ r = spawned /\ RunData(r)
<1>1. r \in Runs /\ r \in 1..spawned
  BY DEF IInv, TInv, SpawnInv, Live, Runs, TypeOK, MutexTypes
<1>2. Solo(r)
  BY <1>1 DEF Overlapped, Solo
<1> QED
  BY <1>1, <1>2 DEF IInv, SoloInv, SoloData

LEMMA NobodyLive ==
  ASSUME IInv, Live = {}
  PROVE  status \in {"idle", "finished"}
<1>1. \A r \in Runs : rpc[r] \in {"none", "ended"}
  BY DEF Live
<1> QED
  BY <1>1 DEF IInv, TInv, StatusBacked, WarmupPCs, LoopPCs, FinalPCs, TypeOK, StateTypes,
              Statuses

LEMMA ClientTest ==
  ASSUME IInv, NEW c \in Clients, ClientStep(c), ~Overlapped, ~Overlapped'
  PROVE  TestStep
<1> USE DEF IInv, TInv
<1>1. CASE ~Preparing(c)
  <2>1. UNCHANGED <<stateVars, collector, loopVars, spawned>>
    BY <1>1, ClientFrame
  <2> QED
    BY <2>1, SeenKept DEF stateVars, loopVars, Seen, Phase, Sent, Counted, Report,
                          UnderLoad, LastTotals
<1>2. CASE ResetCollector(c)
  <2>1. Live = {}
    <3> SUFFICES ASSUME Live # {} PROVE FALSE
      OBVIOUS
    <3>1. PICK r \in Live : TRUE
      OBVIOUS
    <3>2. r = spawned /\ r \in Runs
      BY LiveIsSolo
    <3>3. spawned \in contested' /\ spawned' = spawned
      BY <1>2, <3>2 DEF ResetCollector, MarkContested
    <3> QED
      BY <3>2, <3>3 DEF Overlapped, Runs
  <2>2. status \in {"idle", "finished"}
    BY <2>1, NobodyLive
  <2> QED
    BY <1>2, <2>2, SeenKept DEF ResetCollector, stateVars, Seen, Phase, Sent, Counted, Report,
                                UnderLoad, LastTotals
<1>3. CASE ResetDetector(c)
  BY <1>3, SeenKept DEF ResetDetector, stateVars, loopVars, Seen, Phase, Sent, Counted, Report,
                        UnderLoad, LastTotals
<1>4. CASE ResetState(c)
  <2>1. Live = {}
    BY <1>4 DEF ResetState, ClientAt, PastReset, SoloInv
  <2>2. status \in {"idle", "finished"}
    BY <2>1, NobodyLive
  <2>3. status' = "idle" /\ report' = <<>>
    BY <1>4 DEF ResetState
  <2>4. Lifecycle!Clear
    BY <2>2, <2>3 DEF Lifecycle!Clear, Lifecycle!None, UnderLoad, Zero
  <2> QED
    BY <2>4 DEF TestStep, Lifecycle!Next
<1>5. CASE Spawn(c)
  <2>1. pc[c] = "build" /\ PastReset(c) /\ ~NextContested
    BY <1>5 DEF Spawn, ClientAt, PastReset, SoloInv
  <2>2. status = "idle"
    BY <2>1 DEF ClearedInv
  <2> QED
    BY <1>5, <2>2, SeenKept DEF Spawn, stateVars, Seen, Phase, Sent, Counted, Report,
                                UnderLoad, LastTotals
<1> QED
  BY <1>1, <1>2, <1>3, <1>4, <1>5 DEF Preparing

LEMMA WorkerTest ==
  ASSUME IInv, NEW r \in Runs, WorkerStep(r), ~Overlapped, ~Overlapped'
  PROVE  TestStep
<1> USE DEF IInv, TInv
<1>1. /\ UNCHANGED <<status, report, launched, spawned>>
      /\ rpc[r] \in LoopPCs \cup {"cleanup", "drain"}
  BY WorkerFrame DEF OnlyWorker, muVars
<1>2. r \in Live /\ r = spawned /\ RunData(r)
  <2>1. r \in Live
    BY <1>1 DEF Live, LoopPCs
  <2> QED
    BY <2>1, LiveIsSolo
<1>3. status \in {"running", "stopping"}
  BY <1>1, <1>2 DEF RunData, PhaseData
<1>4. UnderLoad /\ UnderLoad'
  BY <1>1, <1>3 DEF UnderLoad
<1>5. CASE UNCHANGED collector
  BY <1>1, <1>4, <1>5, SeenKept DEF Seen, Phase, Sent, Counted, Report, LastTotals
<1>6. CASE CallSucceeds(r) \/ CallFails(r)
  <2>1. PICK outcome \in {"success", "errors"} :
          calling[r] > 0 /\ collector' = [collector EXCEPT ![outcome] = @ + 1]
    BY <1>6 DEF CallSucceeds, CallFails, Advance
  <2>2. collector.success + collector.errors < launched[r]
    <3>1. /\ collector.success + collector.errors + calling[r] = launched[r]
          /\ collector.success \in Nat /\ collector.errors \in Nat /\ calling[r] \in Nat
      BY <1>2 DEF RunData, CountData, TypeOK, StateTypes, LoopTypes
    <3> QED
      BY <2>1, <3>1
  <2>3. Phase \in {"running", "stopping"} /\ Sent = launched[r] /\ Counted = collector
    BY <1>2, <1>3, <1>4 DEF Phase, Sent, Counted
  <2>4. Counted' = collector' /\ UNCHANGED <<Phase, Sent, Report>>
    BY <1>1, <1>4 DEF Phase, Sent, Counted, Report, LastTotals
  <2>5. Lifecycle!Count
    BY <2>1, <2>2, <2>3, <2>4
       DEF Lifecycle!Count, Lifecycle!UnderLoad, Lifecycle!Total, Phase, Sent, Counted, Report
  <2> QED
    BY <2>5 DEF TestStep, Lifecycle!Next
<1> QED
  BY <1>5, <1>6 DEF WorkerStep, AddError, NoteError, ReleaseSlot, WorkerDone, Leave

LEMMA RunTest ==
  ASSUME IInv, NEW r \in Runs, RunStep(r), ~Overlapped, ~Overlapped'
  PROVE  TestStep
<1> USE DEF IInv, TInv
<1>1. r \in Live /\ r = spawned /\ RunData(r) /\ spawned' = spawned
  BY RunFrame, LiveIsSolo DEF muVars
<1>2. CASE UNCHANGED <<status, report, launched, collector>>
  BY <1>1, <1>2, SeenKept DEF Seen, Phase, Sent, Counted, Report, UnderLoad, LastTotals
<1>3. CASE Warmup(r)
  <2>1. status = "idle" /\ status' = "warmup" /\ report' = report
    BY <1>1, <1>3 DEF Warmup, SetStatus, RunAt, RunData, PhaseData
  <2>2. Lifecycle!Move("idle", "warmup")
    BY <2>1 DEF Lifecycle!Move, UnderLoad, LastTotals
  <2> QED
    BY <2>2 DEF TestStep, Lifecycle!Next
<1>4. CASE Running(r)
  <2>1. /\ status = "warmup" /\ status' = "running" /\ rpc[r] = "warmup"
        /\ UNCHANGED <<report, collector, launched>>
    BY <1>1, <1>4 DEF Running, SetStatus, RunAt, RunData, PhaseData, WarmupPCs, loopVars
  <2>2. launched[spawned] = 0 /\ collector = Zero
    BY <1>1, <2>1 DEF FreshInv, RunData, ClearData, EarlyPCs, WarmupPCs
  <2>3. Lifecycle!Move("warmup", "running")
    BY <1>1, <2>1, <2>2 DEF Lifecycle!Move, UnderLoad, LastTotals
  <2> QED
    BY <2>3 DEF TestStep, Lifecycle!Next
<1>5. CASE Cleanup(r)
  <2>1. /\ status = "running" /\ status' = "stopping"
        /\ UNCHANGED <<report, collector, launched>>
    BY <1>1, <1>5 DEF Cleanup, SetStatus, RunAt, RunData, PhaseData, loopVars
  <2>2. Lifecycle!Move("running", "stopping")
    BY <1>1, <2>1 DEF Lifecycle!Move, UnderLoad, LastTotals
  <2> QED
    BY <2>2 DEF TestStep, Lifecycle!Next
<1>6. CASE Launch(r)
  <2>1. /\ status = "running" /\ UNCHANGED <<status, report, collector>>
        /\ launched' = [launched EXCEPT ![r] = @ + 1]
    BY <1>1, <1>6 DEF Launch, EndIteration, RunData, PhaseData, LoopPCs, stateVars
  <2>2. launched'[spawned'] = launched[spawned] + 1
    BY <1>1, <2>1 DEF TypeOK, LoopTypes
  <2>3. Lifecycle!Send
    BY <2>1, <2>2 DEF Lifecycle!Send, UnderLoad, LastTotals
  <2> QED
    BY <2>3 DEF TestStep, Lifecycle!Next
<1>7. ASSUME NEW from \in {"tickAdd", "endAdd"}, NEW to, AddSnapshot(r, from, to)
      PROVE  TestStep
  <2>1. /\ snap[r] \in Snapshots /\ report' = Append(report, snap[r])
        /\ UNCHANGED <<status, collector, launched>>
    BY <1>7 DEF AddSnapshot, RunAt, LocalsInv, PublishPCs, loopVars
  <2>2. status \in {"running", "stopping"}
    BY <1>1, <1>7 DEF AddSnapshot, RunAt, RunData, PhaseData, LoopPCs, FinalPCs
  <2>3. /\ Lifecycle!UpTo(Shown, SnapTotals(r))
        /\ Lifecycle!UpTo(SnapTotals(r), collector)
    BY <1>1, <1>7 DEF AddSnapshot, RunAt, RunData, TotalsData
  <2>4. Report = Shown /\ Report' = SnapTotals(r)
    BY <2>1, ShownTotals DEF Report, Shown, SnapTotals
  <2>5. /\ Phase \in {"running", "stopping"} /\ Counted = collector
        /\ UNCHANGED <<Phase, Sent, Counted>>
    BY <1>1, <2>1, <2>2 DEF Phase, Sent, Counted, UnderLoad
  <2>6. SnapTotals(r) \in [success : 0..collector.success, errors : 0..collector.errors]
    BY <2>1, <2>3 DEF Lifecycle!UpTo, SnapTotals, Snapshots, TypeOK, StateTypes
  <2>7. Lifecycle!Show
    BY <2>3, <2>4, <2>5, <2>6
       DEF Lifecycle!Show, Lifecycle!UnderLoad, Lifecycle!UpTo, Phase, Sent, Counted, Report
  <2> QED
    BY <2>7 DEF TestStep, Lifecycle!Next
<1>8. CASE Finish(r)
  <2>1. /\ rpc[r] = "finish" /\ status = "stopping" /\ status' = "finished"
        /\ report' = report
    BY <1>1, <1>8 DEF Finish, SetStatus, RunAt, RunData, PhaseData, FinalPCs
  <2>2. Report = collector /\ Report' = Report
    BY <1>1, <2>1 DEF RunData, TotalsData, Report, Shown, LastTotals
  <2>3. collector.success + collector.errors = launched[r]
    <3>1. calling[r] = 0
      BY <2>1, NonePending DEF WorkersDrained, FinalPCs
    <3>2. collector.success \in Nat /\ collector.errors \in Nat
      BY DEF TypeOK, StateTypes
    <3> QED
      BY <1>1, <3>1, <3>2 DEF RunData, CountData
  <2>4. /\ Phase = "stopping" /\ Sent = launched[r] /\ Counted = collector
        /\ Phase' = "finished" /\ Sent' = 0 /\ Counted' = Zero
    BY <1>1, <2>1 DEF Phase, Sent, Counted, UnderLoad
  <2>5. Lifecycle!Finish
    BY <2>2, <2>3, <2>4
       DEF Lifecycle!Finish, Lifecycle!Total, Lifecycle!None, Zero, Phase, Sent, Counted, Report
  <2> QED
    BY <2>5 DEF TestStep, Lifecycle!Next
<1> QED
  BY <1>2, <1>3, <1>4, <1>5, <1>6, <1>7, <1>8
     DEF RunStep, Enter, StampStart, SeeCancel, DurationReached, DispatchTick, SkipRequest,
         MetricsTick, Analyze, Broadcast, FinalSnapshot, TakeFinalSnapshot, LogView, LogIndex,
         Exit, stateVars, loopVars

(* The engine carries out one test at a time, from the dashboard's point   *)
(* of view, as long as no two tests overlap.                               *)
THEOREM TestsFollowLifecycle == Spec => IsTestLifecycle
<1>1. Init => Lifecycle!Init
  BY DEF Init, Overlapped, UnderLoad, Lifecycle!Init, Lifecycle!None, Zero
<1>2. IInv /\ [Next]_vars => [Lifecycle!Next]_Lifecycle!vars
  <2> SUFFICES ASSUME IInv, [Next]_vars PROVE TestStep
    BY DEF TestStep
  <2>1. CASE Overlapped
    BY <2>1, OverlapStays, OverlappedStep DEF IInv
  <2>2. CASE ~Overlapped /\ Overlapped'
    BY <2>2, OverlapStep
  <2>3. CASE ~Overlapped /\ ~Overlapped'
    <3>1. CASE UNCHANGED vars
      BY <3>1, SeenKept DEF vars, stateVars, muVars, loopVars, Seen, Phase, Sent, Counted,
                            Report, UnderLoad, Overlapped, LastTotals
    <3> QED
      BY <2>3, <3>1, ClientTest, RunTest, WorkerTest DEF Next, Idle
  <2> QED
    BY <2>1, <2>2, <2>3
<1> QED
  BY <1>1, <1>2, InitIInv, NextIInv, PTL DEF Spec, IsTestLifecycle, Lifecycle!Spec

=============================================================================
