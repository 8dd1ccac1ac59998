--------------------------- MODULE MC_ProcessStack ---------------------------
(* Instances of ProcessStack for TLC. *)
EXTENDS ProcessStack, TLC

CONSTANTS p1, p2, p3

MCProcesses == {p1, p2, p3}
Interchangeable == Permutations(MCProcesses)
=============================================================================
