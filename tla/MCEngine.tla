------------------------------ MODULE MCEngine ------------------------------
(* Small instances of the engine for TLC.                                  *)
EXTENDS Engine, TLC

ClientSymmetry == Permutations(Clients)

=============================================================================
