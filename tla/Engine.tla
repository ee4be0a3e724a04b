------------------------------- MODULE Engine -------------------------------
(***************************************************************************)
(* The load engine (internal/engine/engine.go) with the shared test state  *)
(* (internal/model/types.go) it drives.                                    *)
(*                                                                         *)
(* Three kinds of goroutines interleave here:                              *)
(*   - HTTP handlers calling Engine.Start and Engine.Stop (Clients);       *)
(*   - one Engine.run goroutine per successful Start (Runs);               *)
(*   - the request workers each run launches, counted by stage.            *)
(* Every access to a shared variable is a step of its own.  The collector  *)
(* is abstracted to its two totals: Collector.tla models its fields.       *)
(***************************************************************************)
EXTENDS Integers, Sequences, FiniteSets

CONSTANTS
  Clients,      \* HTTP handler goroutines that call Start and Stop
  Free,         \* value of mu when nobody holds the engine mutex
  MaxRuns,      \* bound: number of Starts that succeed
  MaxWorkers,   \* cfg.MaxWorkers, the capacity of workerSem
  Burst,        \* bound: largest int(currentRPS * 0.1), requests per tick
  MaxLaunches,  \* bound: requests one run launches
  MaxTicks,     \* bound: metrics ticks one run serves
  ErrorCap,     \* AddError trims the error list above this length (1000)
  ErrorKeep     \* ... to its last ErrorKeep entries (500)

Runs == 1..MaxRuns
Nil == 0        \* a nil cancel function, a nil channel, a zero time

ASSUME EngineAssumption ==
  /\ Free \notin Clients
  /\ MaxRuns \in Nat \ {0}
  /\ MaxWorkers \in Nat \ {0}
  /\ Burst \in Nat \ {0}
  /\ MaxLaunches \in Nat
  /\ MaxTicks \in Nat
  /\ ErrorCap \in Nat
  /\ ErrorKeep \in 0..ErrorCap

VARIABLES
  status,     \* TestState.Status
  startedAt,  \* TestState.StartedAt: the run that wrote it, or Nil (zero time)
  report,     \* TestState.Snapshots
  noted,      \* len(TestState.Errors)
  collector,  \* the collector's cumulative totals
  analyzed,   \* DegradationDetector.snapshots
  mu,         \* holder of Engine.mu
  cancel,     \* Engine.cancel: the run it cancels, or Nil
  done,       \* Engine.done: the run whose Start made the channel, or Nil
  closed,     \* done channels that have been closed
  ctxDone,    \* runs whose context is cancelled
  spawned,    \* number of run goroutines started so far
  pc,         \* pc[c]: where client c is inside Start
  rpc,        \* rpc[r]: where run goroutine r is
  doneOf,     \* doneOf[r]: the channel that r's deferred close captured
  left,       \* left[r]: iterations the dispatch loop of r has left
  calling,    \* calling[r]: workers of r in Generate or Call
  noting,     \* noting[r]: ... between RecordError and AddError
  holding,    \* holding[r]: ... done, still holding their workerSem slot
  leaving,    \* leaving[r]: ... slot returned, wg.Done not called yet
  launched,   \* launched[r]: requests r has launched
  ticks,      \* ticks[r]: metrics ticks r has served (bounds the model)
  snap,       \* snap[r]: r's local variable snap
  view,       \* view[r]: length of the Snapshots slice the final log read first
  crashed,    \* a goroutine panicked: the process is gone
  contested   \* history: runs that shared the state with another test

stateVars == <<status, startedAt, report, noted>>
workers   == <<calling, noting, holding, leaving>>
muVars    == <<mu, cancel, done, spawned, pc>>
loopVars  == <<left, workers, launched, ticks, snap, view, doneOf>>
vars == <<stateVars, collector, analyzed, muVars, loopVars, closed, ctxDone,
          rpc, crashed, contested>>

Statuses == {"idle", "warmup", "running", "stopping", "finished"}

StartPCs == {"idle", "readRunning", "readWarmup", "resetCollector",
             "resetDetector", "resetState", "build"}

WarmupPCs  == {"stamp", "warmup"}
LoopPCs    == {"loop", "dispatch", "tickAdd", "tickAnalyze", "tickBroadcast"}
FinalPCs   == {"endAdd", "endAnalyze", "endBroadcast", "finish"}
LogPCs     == {"logView1", "logIndex1", "logView2", "logIndex2"}
RunPCs     == {"none", "spawned", "entered", "cleanup", "drain", "exit", "ended"}
                \cup WarmupPCs \cup LoopPCs \cup FinalPCs \cup LogPCs

Zero == [success |-> 0, errors |-> 0]

(* A snapshot: the totals it reports, and (history) the run that took it.  *)
Snapshots == [by : Runs, success : Nat, errors : Nat]
NoSnap == [by |-> Nil, success |-> 0, errors |-> 0]

(* Run goroutines that exist.                                              *)
Live == {r \in Runs : rpc[r] \notin {"none", "ended"}}

(* Workers holding a slot of workerSem, and the wg counter.                *)
Occupied(r) == calling[r] + noting[r] + holding[r]
Pending(r)  == Occupied(r) + leaving[r]

Init ==
  /\ status = "idle"
  /\ startedAt = Nil
  /\ report = <<>>
  /\ noted = 0
  /\ collector = Zero
  /\ analyzed = <<>>
  /\ mu = Free
  /\ cancel = Nil
  /\ done = Nil
  /\ closed = {}
  /\ ctxDone = {}
  /\ spawned = 0
  /\ pc = [c \in Clients |-> "idle"]
  /\ rpc = [r \in Runs |-> "none"]
  /\ doneOf = [r \in Runs |-> Nil]
  /\ left = [r \in Runs |-> 0]
  /\ calling = [r \in Runs |-> 0]
  /\ noting = [r \in Runs |-> 0]
  /\ holding = [r \in Runs |-> 0]
  /\ leaving = [r \in Runs |-> 0]
  /\ launched = [r \in Runs |-> 0]
  /\ ticks = [r \in Runs |-> 0]
  /\ snap = [r \in Runs |-> NoSnap]
  /\ view = [r \in Runs |-> 0]
  /\ crashed = FALSE
  /\ contested = {}

-----------------------------------------------------------------------------
(* Engine.Start, called by client c.                                       *)

ClientAt(c, from, to) ==
  /\ pc[c] = from
  /\ pc' = [pc EXCEPT ![c] = to]

LockStart(c) ==
  /\ mu = Free
  /\ spawned < MaxRuns
  /\ ClientAt(c, "idle", "readRunning")
  /\ mu' = c
  /\ UNCHANGED <<stateVars, collector, analyzed, cancel, done, spawned, loopVars,
                 closed, ctxDone, rpc, crashed, contested>>

(* The guard of Start reads the status twice, locking the state each time: *)
(* status = Running || status = Warmup.                                    *)
CheckStatus(c, from, refused, to) ==
  /\ IF status = refused
       THEN ClientAt(c, from, "idle") /\ mu' = Free   \* "test already running"
       ELSE ClientAt(c, from, to) /\ UNCHANGED mu
  /\ UNCHANGED <<stateVars, collector, analyzed, cancel, done, spawned, loopVars,
                 closed, ctxDone, rpc, crashed, contested>>

CheckRunning(c) == CheckStatus(c, "readRunning", "running", "readWarmup")
CheckWarmup(c)  == CheckStatus(c, "readWarmup", "warmup", "resetCollector")

(* The history variable: from here on the new test and every run that is   *)
(* still alive write to the same state.                                    *)
MarkContested ==
  contested' = IF Live = {} THEN contested \ {spawned + 1}
                            ELSE contested \cup Live \cup {spawned + 1}

ResetCollector(c) ==
  /\ ClientAt(c, "resetCollector", "resetDetector")
  /\ collector' = Zero
  /\ MarkContested
  /\ UNCHANGED <<stateVars, analyzed, mu, cancel, done, spawned, loopVars,
                 closed, ctxDone, rpc, crashed>>

(* Fault variant: Start forgets to reset the detector. *)
ResetDetectorSkipped(c) ==
  /\ ClientAt(c, "resetDetector", "resetState")
  /\ UNCHANGED <<stateVars, collector, analyzed, mu, cancel, done, spawned, loopVars,
                 closed, ctxDone, rpc, crashed, contested>>

ResetDetector(c) ==
  /\ ClientAt(c, "resetDetector", "resetState")
  /\ analyzed' = <<>>
  /\ UNCHANGED <<stateVars, collector, mu, cancel, done, spawned, loopVars,
                 closed, ctxDone, rpc, crashed, contested>>

ResetState(c) ==
  /\ ClientAt(c, "resetState", "build")
  /\ status' = "idle"
  /\ startedAt' = Nil
  /\ report' = <<>>
  /\ noted' = 0
  /\ UNCHANGED <<collector, analyzed, mu, cancel, done, spawned, loopVars,
                 closed, ctxDone, rpc, crashed, contested>>

(* NewGenerator or NewCaller fails: Start returns the error, and what it   *)
(* has reset stays reset.                                                  *)
BuildFails(c) ==
  /\ ClientAt(c, "build", "idle")
  /\ mu' = Free
  /\ UNCHANGED <<stateVars, collector, analyzed, cancel, done, spawned, loopVars,
                 closed, ctxDone, rpc, crashed, contested>>

(* Fault variants: Start keeps a cancel function, or a done channel, that is there. *)
SpawnKeeps(c, newCancel, newDone) ==
  /\ ClientAt(c, "build", "idle")
  /\ mu' = Free
  /\ spawned' = spawned + 1
  /\ cancel' = newCancel
  /\ done' = newDone
  /\ rpc' = [rpc EXCEPT ![spawned + 1] = "spawned"]
  /\ UNCHANGED <<stateVars, collector, analyzed, loopVars, closed, ctxDone,
                 crashed, contested>>
SpawnKeepsCancel(c) ==
  SpawnKeeps(c, IF cancel = Nil THEN spawned + 1 ELSE cancel, spawned + 1)
SpawnKeepsDone(c) ==
  SpawnKeeps(c, spawned + 1, IF done = Nil THEN spawned + 1 ELSE done)

Spawn(c) ==
  /\ ClientAt(c, "build", "idle")
  /\ mu' = Free
  /\ spawned' = spawned + 1
  /\ cancel' = spawned + 1
  /\ done' = spawned + 1
  /\ rpc' = [rpc EXCEPT ![spawned + 1] = "spawned"]
  /\ UNCHANGED <<stateVars, collector, analyzed, loopVars, closed, ctxDone,
                 crashed, contested>>

(* Engine.Stop.                                                            *)
Stop(c) ==
  /\ pc[c] = "idle"
  /\ mu = Free
  /\ cancel # Nil
  /\ ctxDone' = ctxDone \cup {cancel}
  /\ cancel' = Nil
  /\ UNCHANGED <<stateVars, collector, analyzed, mu, done, spawned, pc, loopVars,
                 closed, rpc, crashed, contested>>

-----------------------------------------------------------------------------
(* Engine.run, goroutine r.                                                *)

RunAt(r, from, to) ==
  /\ rpc[r] = from
  /\ rpc' = [rpc EXCEPT ![r] = to]

(* "defer close(e.done)" evaluates e.done when the goroutine starts, not   *)
(* when it was created, and without the engine mutex.                      *)
Enter(r) ==
  /\ RunAt(r, "spawned", "entered")
  /\ doneOf' = [doneOf EXCEPT ![r] = done]
  /\ UNCHANGED <<stateVars, collector, analyzed, muVars, left, workers, launched,
                 ticks, snap, view, closed, ctxDone, crashed, contested>>

SetStatus(r, from, new, to) ==
  /\ RunAt(r, from, to)
  /\ status' = new
  /\ UNCHANGED <<startedAt, report, noted, collector, analyzed, muVars, loopVars,
                 closed, ctxDone, crashed, contested>>

Warmup(r)  == SetStatus(r, "entered", "warmup", "stamp")
Running(r) == SetStatus(r, "warmup", "running", "loop")   \* after the 1s sleep

(* Fault variants: cleanup or the end of run leaves the status alone. *)
CleanupSilent(r) == SetStatus(r, "cleanup", status, "drain")
FinishSilent(r)  == SetStatus(r, "finish", status, "logView1")

Cleanup(r) == SetStatus(r, "cleanup", "stopping", "drain")
Finish(r)  == SetStatus(r, "finish", "finished", "logView1")

StampStart(r) ==
  /\ RunAt(r, "stamp", "warmup")
  /\ startedAt' = r
  /\ UNCHANGED <<status, report, noted, collector, analyzed, muVars, loopVars,
                 closed, ctxDone, crashed, contested>>

(* case <-ctx.Done(), of the outer select and of the dispatch loop's.      *)
SeeCancel(r) ==
  /\ r \in ctxDone
  /\ RunAt(r, "loop", "cleanup") \/ RunAt(r, "dispatch", "cleanup")
  /\ left' = [left EXCEPT ![r] = 0]
  /\ UNCHANGED <<stateVars, collector, analyzed, muVars, doneOf, workers, launched,
                 ticks, snap, view, closed, ctxDone, crashed, contested>>

(* case t := <-ticker.C, with t after the deadline.                        *)
DurationReached(r) ==
  /\ RunAt(r, "loop", "cleanup")
  /\ UNCHANGED <<stateVars, collector, analyzed, muVars, loopVars, closed,
                 ctxDone, crashed, contested>>

(* case t := <-ticker.C: n = int(currentRPS * 0.1) iterations follow.      *)
DispatchTick(r) ==
  /\ RunAt(r, "loop", "dispatch")
  /\ \E n \in 1..Burst :
       /\ launched[r] + n <= MaxLaunches
       /\ left' = [left EXCEPT ![r] = n]
  /\ UNCHANGED <<stateVars, collector, analyzed, muVars, doneOf, workers, launched,
                 ticks, snap, view, closed, ctxDone, crashed, contested>>

(* One iteration of the dispatch loop is over.                             *)
EndIteration(r) ==
  /\ rpc[r] = "dispatch"
  /\ left' = [left EXCEPT ![r] = @ - 1]
  /\ rpc' = [rpc EXCEPT ![r] = IF left[r] = 1 THEN "loop" ELSE "dispatch"]

(* case workerSem <- struct{}{}: a worker goroutine starts.                *)
Launch(r) ==
  /\ Occupied(r) < MaxWorkers
  /\ EndIteration(r)
  /\ calling' = [calling EXCEPT ![r] = @ + 1]
  /\ launched' = [launched EXCEPT ![r] = @ + 1]
  /\ UNCHANGED <<noting, holding, leaving, stateVars, collector, analyzed, muVars, doneOf, ticks, snap, view,
                 closed, ctxDone, crashed, contested>>

(* default: every slot is taken and the context is alive.                  *)
SkipRequest(r) ==
  /\ Occupied(r) >= MaxWorkers
  /\ r \notin ctxDone
  /\ EndIteration(r)
  /\ UNCHANGED <<stateVars, collector, analyzed, muVars, doneOf, workers, launched,
                 ticks, snap, view, closed, ctxDone, crashed, contested>>

(* snap := e.collector.Snapshot()                                          *)
Snapshot(r) ==
  snap' = [snap EXCEPT ![r] = [by |-> r, success |-> collector.success,
                                         errors |-> collector.errors]]

(* case <-metricsTicker.C                                                  *)
MetricsTick(r) ==
  /\ ticks[r] < MaxTicks
  /\ RunAt(r, "loop", "tickAdd")
  /\ Snapshot(r)
  /\ ticks' = [ticks EXCEPT ![r] = @ + 1]
  /\ UNCHANGED <<stateVars, collector, analyzed, muVars, doneOf, left, workers,
                 launched, view, closed, ctxDone, crashed, contested>>

TakeFinalSnapshot(r) ==
  /\ RunAt(r, "drain", "endAdd")
  /\ Snapshot(r)
  /\ UNCHANGED <<stateVars, collector, analyzed, muVars, doneOf, left, workers,
                 launched, ticks, view, closed, ctxDone, crashed, contested>>

(* Fault variants: cleanup waits for nothing, or for the slots of workerSem. *)
FinalSnapshotAtOnce(r)        == TakeFinalSnapshot(r)
FinalSnapshotWhenSlotsFree(r) == Occupied(r) = 0 /\ TakeFinalSnapshot(r)

(* wg.Wait() returns and the last snapshot is taken.                       *)
FinalSnapshot(r) == Pending(r) = 0 /\ TakeFinalSnapshot(r)

AddSnapshot(r, from, to) ==
  /\ RunAt(r, from, to)
  /\ report' = Append(report, snap[r])
  /\ UNCHANGED <<status, startedAt, noted, collector, analyzed, muVars, loopVars,
                 closed, ctxDone, crashed, contested>>

Analyze(r, from, to) ==
  /\ RunAt(r, from, to)
  /\ analyzed' = Append(analyzed, snap[r])
  /\ UNCHANGED <<stateVars, collector, muVars, loopVars, closed, ctxDone,
                 crashed, contested>>

(* Broadcast changes no state of the engine: the hub's is modelled apart.  *)
Broadcast(r, from, to) ==
  /\ RunAt(r, from, to)
  /\ snap' = [snap EXCEPT ![r] = NoSnap]
  /\ UNCHANGED <<stateVars, collector, analyzed, muVars, doneOf, left, workers,
                 launched, ticks, view, closed, ctxDone, crashed, contested>>

(* The last emitLog evaluates                                              *)
(*   GetState().Snapshots[len(GetState().Snapshots) - 1]                   *)
(* once for each total it prints: each call of GetState is a step.         *)
LogView(r, from, to) ==
  /\ RunAt(r, from, to)
  /\ view' = [view EXCEPT ![r] = Len(report)]
  /\ UNCHANGED <<stateVars, collector, analyzed, muVars, doneOf, left, workers,
                 launched, ticks, snap, closed, ctxDone, crashed, contested>>

LogIndex(r, from, to) ==
  /\ rpc[r] = from
  /\ IF Len(report) \in 1..view[r]
       THEN RunAt(r, from, to) /\ UNCHANGED crashed
       ELSE crashed' = TRUE /\ UNCHANGED rpc      \* index out of range
  /\ view' = [view EXCEPT ![r] = 0]
  /\ UNCHANGED <<stateVars, collector, analyzed, muVars, doneOf, left, workers,
                 launched, ticks, snap, closed, ctxDone, contested>>

(* The deferred calls: stop the tickers, caller.Close, close(done).        *)
Exit(r) ==
  /\ rpc[r] = "exit"
  /\ IF doneOf[r] \in closed
       THEN crashed' = TRUE /\ UNCHANGED <<rpc, closed>>   \* close of closed channel
       ELSE /\ RunAt(r, "exit", "ended")
            /\ closed' = closed \cup {doneOf[r]}
            /\ UNCHANGED crashed
  /\ UNCHANGED <<stateVars, collector, analyzed, muVars, loopVars, ctxDone, contested>>

-----------------------------------------------------------------------------
(* Engine.executeRequest, a worker goroutine of run r.                     *)

(* A worker moves on from one stage to the next.                           *)
Advance(r, from, to) ==
  /\ from[r] > 0
  /\ from' = [from EXCEPT ![r] = @ - 1]
  /\ to' = [to EXCEPT ![r] = @ + 1]

OnlyWorker ==
  UNCHANGED <<status, startedAt, report, analyzed, muVars, doneOf, left, launched,
              ticks, snap, view, closed, ctxDone, rpc, crashed, contested>>

CallSucceeds(r) ==
  /\ Advance(r, calling, holding)
  /\ collector' = [collector EXCEPT !.success = @ + 1]
  /\ OnlyWorker
  /\ UNCHANGED <<noting, leaving, noted>>

(* Fault variant: a request cancelled with its run is not recorded. *)
CallFailsUnrecorded(r) ==
  /\ Advance(r, calling, noting)
  /\ collector' = IF r \in ctxDone THEN collector
                                   ELSE [collector EXCEPT !.errors = @ + 1]
  /\ OnlyWorker
  /\ UNCHANGED <<holding, leaving, noted>>

(* The call fails, times out after 10s or is cancelled with the run.       *)
CallFails(r) ==
  /\ Advance(r, calling, noting)
  /\ collector' = [collector EXCEPT !.errors = @ + 1]
  /\ OnlyWorker
  /\ UNCHANGED <<holding, leaving, noted>>

NoteError(r, newNoted) ==
  /\ Advance(r, noting, holding)
  /\ noted' = newNoted
  /\ OnlyWorker
  /\ UNCHANGED <<calling, leaving, collector>>

(* Fault variants: the error list is trimmed one entry early, or never. *)
AddErrorTrimsEarly(r) ==
  NoteError(r, IF noted + 1 >= ErrorCap THEN ErrorKeep ELSE noted + 1)
AddErrorUntrimmed(r) == NoteError(r, noted + 1)

AddError(r) ==
  NoteError(r, IF noted + 1 > ErrorCap THEN ErrorKeep ELSE noted + 1)

ReleaseSlot(r) ==
  /\ Advance(r, holding, leaving)
  /\ OnlyWorker
  /\ UNCHANGED <<calling, noting, noted, collector>>

Leave(r) ==
  /\ leaving[r] > 0
  /\ leaving' = [leaving EXCEPT ![r] = @ - 1]
  /\ OnlyWorker
  /\ UNCHANGED <<calling, noting, holding, noted, collector>>

(* Fault variant: wg.Done is skipped once the run is cancelled. *)
WorkerDoneUnlessCancelled(r) == r \notin ctxDone /\ Leave(r)

WorkerDone(r) == Leave(r)

-----------------------------------------------------------------------------
StartStep(c) ==
  \/ CheckRunning(c)
  \/ CheckWarmup(c)
  \/ ResetCollector(c)
  \/ ResetDetector(c)
  \/ ResetState(c)
  \/ BuildFails(c)
  \/ Spawn(c)

ClientStep(c) == LockStart(c) \/ StartStep(c) \/ Stop(c)

RunStep(r) ==
  \/ Enter(r)
  \/ Warmup(r)
  \/ StampStart(r)
  \/ Running(r)
  \/ SeeCancel(r)
  \/ DurationReached(r)
  \/ DispatchTick(r)
  \/ Launch(r)
  \/ SkipRequest(r)
  \/ MetricsTick(r)
  \/ AddSnapshot(r, "tickAdd", "tickAnalyze")
  \/ Analyze(r, "tickAnalyze", "tickBroadcast")
  \/ Broadcast(r, "tickBroadcast", "loop")
  \/ Cleanup(r)
  \/ FinalSnapshot(r)
  \/ AddSnapshot(r, "endAdd", "endAnalyze")
  \/ Analyze(r, "endAnalyze", "endBroadcast")
  \/ Broadcast(r, "endBroadcast", "finish")
  \/ Finish(r)
  \/ LogView(r, "logView1", "logIndex1")
  \/ LogIndex(r, "logIndex1", "logView2")
  \/ LogView(r, "logView2", "logIndex2")
  \/ LogIndex(r, "logIndex2", "exit")
  \/ Exit(r)

WorkerStep(r) ==
  \/ CallSucceeds(r)
  \/ CallFails(r)
  \/ AddError(r)
  \/ ReleaseSlot(r)
  \/ WorkerDone(r)

(* After a panic nothing runs; with no test the server waits for clients.  *)
Idle ==
  /\ crashed \/ (Live = {} /\ mu = Free)
  /\ UNCHANGED vars

Next ==
  \/ /\ ~crashed
     /\ \/ \E c \in Clients : ClientStep(c)
        \/ \E r \in Runs : RunStep(r) \/ WorkerStep(r)
  \/ Idle

(* The Go scheduler runs every runnable goroutine; a call returns within   *)
(* its 10s timeout; the outer select picks among its ready cases at random,*)
(* so a deadline that has passed is noticed.  Clients owe nothing, except  *)
(* that a Start in progress goes on.                                       *)
Fairness ==
  /\ \A c \in Clients : WF_vars(~crashed /\ StartStep(c))
  /\ \A r \in Runs :
       /\ WF_vars(~crashed /\ RunStep(r))
       /\ SF_vars(~crashed /\ DurationReached(r))
       /\ WF_vars(~crashed /\ WorkerStep(r))

Spec == Init /\ [][Next]_vars
FairSpec == Spec /\ Fairness

-----------------------------------------------------------------------------
(* Type invariant of every variable above, by group.                       *)
StateTypes ==
  /\ status \in Statuses
  /\ startedAt \in 0..MaxRuns
  /\ report \in Seq(Snapshots)
  /\ noted \in 0..ErrorCap
  /\ collector \in [success : Nat, errors : Nat]
  /\ analyzed \in Seq(Snapshots)

MutexTypes ==
  /\ mu \in Clients \cup {Free}
  /\ cancel \in 0..MaxRuns
  /\ done \in 0..MaxRuns
  /\ spawned \in 0..MaxRuns
  /\ pc \in [Clients -> StartPCs]

LoopTypes ==
  /\ left \in [Runs -> Nat]
  /\ calling \in [Runs -> Nat]
  /\ noting \in [Runs -> Nat]
  /\ holding \in [Runs -> Nat]
  /\ leaving \in [Runs -> Nat]
  /\ launched \in [Runs -> Nat]
  /\ ticks \in [Runs -> Nat]
  /\ snap \in [Runs -> Snapshots \cup {NoSnap}]
  /\ view \in [Runs -> Nat]
  /\ doneOf \in [Runs -> 0..MaxRuns]

ControlTypes ==
  /\ rpc \in [Runs -> RunPCs]
  /\ closed \in SUBSET (0..MaxRuns)
  /\ ctxDone \in SUBSET (0..MaxRuns)
  /\ crashed \in BOOLEAN
  /\ contested \in SUBSET (1..(MaxRuns + 1))

TypeOK == StateTypes /\ MutexTypes /\ LoopTypes /\ ControlTypes

(* The status the dashboard shows is never left over: warmup, running and  *)
(* stopping are shown only while some run goroutine is in that phase, even *)
(* when Starts overlap, so Start cannot be locked out for good.            *)
StatusBacked ==
  /\ status = "warmup"   => \E r \in Runs : rpc[r] \in WarmupPCs
  /\ status = "running"  => \E r \in Runs : rpc[r] \in LoopPCs \cup {"cleanup"}
  /\ status = "stopping" => \E r \in Runs : rpc[r] \in FinalPCs \cup {"drain"}

(* Stop always reaches the latest run: either Engine.cancel cancels it, or *)
(* its context is cancelled already (failed and refused Starts included).  *)
LatestIsStoppable ==
  /\ cancel \in {Nil, spawned}
  /\ cancel = Nil /\ spawned > 0 => spawned \in ctxDone

(* No request is in flight once wg.Wait has returned: none records into    *)
(* the collector after the last snapshot or calls on the closed caller.    *)
WorkersDrained ==
  \A r \in Runs :
    rpc[r] \in FinalPCs \cup LogPCs \cup {"exit", "ended"} => Pending(r) = 0

(* The last snapshot of a run that shared its state with no other test     *)
(* accounts for every request the run launched.                            *)
FinalReportComplete ==
  \A r \in Runs \ contested :
    (/\ rpc[r] \in (FinalPCs \ {"endAdd"}) \cup LogPCs \cup {"exit", "ended"}
     /\ report # <<>>
     /\ report[Len(report)].by = r)
    => report[Len(report)].success + report[Len(report)].errors = launched[r]

(* The error list of an uncontested test holds every error counted, until  *)
(* the list is trimmed: a list that never overflowed is complete.          *)
ErrorListComplete ==
  \A r \in Live \ contested :
    Pending(r) = 0 /\ collector.errors <= ErrorCap => noted = collector.errors

(* An uncontested run that dispatches load does so under its own status    *)
(* and start time, and report and detector hold its snapshots only, the    *)
(* detector missing at most the one that is being published.               *)
OwnState ==
  \A r \in Live \ contested :
    /\ rpc[r] \in LoopPCs => status = "running" /\ startedAt = r
    /\ \A i \in 1..Len(report) : report[i].by = r
    /\ IF rpc[r] \in {"tickAnalyze", "endAnalyze"}
         THEN report = Append(analyzed, snap[r])
         ELSE report = analyzed

(* The process panics only after two tests overlapped.                     *)
SerialRunsNeverPanic == crashed => contested # {}

(* The engine implements the life of one test at a time: as long as tests  *)
(* do not overlap, the status follows the test through its phases, failed  *)
(* Starts included, and the report grows to count all of its requests.     *)
Overlapped == contested \cap 1..spawned # {}
UnderLoad  == ~Overlapped /\ status \in {"running", "stopping"}
LastTotals == [success |-> report[Len(report)].success,
               errors |-> report[Len(report)].errors]

Lifecycle == INSTANCE TestLifecycle WITH
  phase   <- IF Overlapped THEN "overlapped" ELSE status,
  sent    <- IF UnderLoad THEN launched[spawned] ELSE 0,
  counted <- IF UnderLoad THEN collector ELSE Zero,
  shown   <- IF Overlapped \/ report = <<>> THEN Zero ELSE LastTotals

IsTestLifecycle == Lifecycle!Spec

(* Every run that was started ends, whatever its requests do.              *)
EveryRunEnds ==
  \A r \in Runs : (rpc[r] # "none") ~> (rpc[r] = "ended" \/ crashed)

(* Once clients start no more tests, the dashboard's status settles: no    *)
(* overlap leaves it at warmup, running or stopping, which would refuse    *)
(* every later Start.                                                      *)
StatusSettles ==
  (status \in {"warmup", "running", "stopping"})
    ~> (status \in {"idle", "finished"} \/ crashed)

(* What "test already running" (engine.go:59) says: one test at a time.    *)
SingleRun == Cardinality(Live) <= 1

(* What the last log line (engine.go:187) says: the totals it prints are   *)
(* those of the test that finished, which is the last of its snapshots.    *)
LogReportsOwnRun ==
  \A r \in Runs :
    rpc[r] \in {"logIndex1", "logIndex2"} =>
      /\ Len(report) \in 1..view[r]
      /\ report[Len(report)].by = r

=============================================================================
