--------------------------- MODULE TestLifecycle ---------------------------
(***************************************************************************)
(* What the engine promises of tests that do not overlap, as a dashboard   *)
(* sees them: one test at a time goes through its phases once; its report  *)
(* only grows, never shows more than has been counted, and counts every    *)
(* request when the test is finished; it stays until the next test clears  *)
(* it.  Once two tests overlap nothing is promised any more.               *)
(***************************************************************************)
EXTENDS Naturals

VARIABLES
  phase,    \* the phase of the test, or "overlapped"
  sent,     \* requests under load: sent so far
  counted,  \* ... and their outcomes counted so far
  shown     \* the totals of the report

vars == <<phase, sent, counted, shown>>

None == [success |-> 0, errors |-> 0]
Total(t) == t.success + t.errors

(* Componentwise, since neither total of a report ever goes down.          *)
UpTo(t, u) == t.success <= u.success /\ t.errors <= u.errors

UnderLoad == phase \in {"running", "stopping"}

Init == phase = "idle" /\ sent = 0 /\ counted = None /\ shown = None

(* A new test, or a vain attempt at one, clears what the last has left.    *)
Clear ==
  /\ phase \in {"idle", "finished"}
  /\ phase' = "idle" /\ shown' = None
  /\ UNCHANGED <<sent, counted>>

Move(from, to) ==
  /\ phase = from /\ phase' = to
  /\ UNCHANGED <<sent, counted, shown>>

Send ==
  /\ phase = "running"
  /\ sent' = sent + 1
  /\ UNCHANGED <<phase, counted, shown>>

Count ==
  /\ UnderLoad /\ Total(counted) < sent
  /\ \E outcome \in {"success", "errors"} :
       counted' = [counted EXCEPT ![outcome] = @ + 1]
  /\ UNCHANGED <<phase, sent, shown>>

Show ==
  /\ UnderLoad
  /\ shown' \in [success : 0..counted.success, errors : 0..counted.errors]
  /\ UpTo(shown, shown')
  /\ UNCHANGED <<phase, sent, counted>>

Finish ==
  /\ phase = "stopping" /\ shown = counted /\ Total(shown) = sent
  /\ phase' = "finished" /\ sent' = 0 /\ counted' = None
  /\ UNCHANGED shown

Overlap ==
  /\ phase' = "overlapped"
  /\ sent' = 0 /\ counted' = None /\ shown' = None

Next ==
  \/ Clear
  \/ Move("idle", "warmup")
  \/ Move("warmup", "running")
  \/ Move("running", "stopping")
  \/ Send
  \/ Count
  \/ Show
  \/ Finish
  \/ Overlap

Spec == Init /\ [][Next]_vars

=============================================================================
