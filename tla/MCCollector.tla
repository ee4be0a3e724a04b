---------------------------- MODULE MCCollector ----------------------------
(* Small instances of the collector for TLC.                               *)
EXTENDS Collector, TLC

RecorderSymmetry == Permutations(Recorders)

=============================================================================
