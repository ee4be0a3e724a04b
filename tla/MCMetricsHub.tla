---------------------------- MODULE MCMetricsHub ----------------------------
(* A small instance of the hub for TLC.                                    *)
EXTENDS MetricsHub

=============================================================================
