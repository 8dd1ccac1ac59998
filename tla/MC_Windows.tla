----------------------------- MODULE MC_Windows -----------------------------
(* An instance of Windows for TLC: two main windows and the dialog of one. *)
EXTENDS Windows, TLC
CONSTANTS a, b, d
Dialog == (a :> None) @@ (b :> None) @@ (d :> a)
Symmetry == Permutations(Workspaces)
=============================================================================
