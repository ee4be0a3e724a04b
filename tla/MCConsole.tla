----------------------------- MODULE MCConsole -----------------------------
(* A small console for TLC.                                                *)
EXTENDS Console, TLC

ConsoleSymmetry == Permutations(Browsers) \cup Permutations(Sockets)

=============================================================================
