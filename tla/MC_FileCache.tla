--------------------------- MODULE MC_FileCache ---------------------------
(* An instance of FileCache for TLC. *)
EXTENDS FileCache, TLC
Symmetry == Permutations(Paths) \cup Permutations(Slots)
=============================================================================
