--------------------------- MODULE MCDegradation ---------------------------
(* Small instances of the detector for TLC: snapshots on either side of,   *)
(* and exactly at, each threshold the code compares with.                  *)
EXTENDS Degradation

Interval(p99, success, errors) ==
  [rps |-> success + errors, p99 |-> p99, success |-> success, errors |-> errors]

Silent0   == Interval(0, 0, 0)
Fast      == Interval(0, 40, 0)     \* every latency below a millisecond
Normal    == Interval(2, 60, 0)
Slow      == Interval(5, 20, 0)     \* 2.5 times a baseline of 2
TooSlow   == Interval(6, 40, 0)
Shaky     == Interval(2, 17, 3)     \* 15% errors
Failing   == Interval(2, 32, 8)     \* 20% errors
Uncounted == [rps |-> 40, p99 |-> 2, success |-> 0, errors |-> 0]
               \* noIntervalSnapshot of degradation_test.go

MCInputs == {Silent0, Fast, Normal, Slow, TooSlow, Shaky, Failing, Uncounted}

(* Only what findLastStableRPS and Analyze both judge, and disagree on.    *)
BoundaryInputs == {Normal, Shaky, Failing}

=============================================================================
