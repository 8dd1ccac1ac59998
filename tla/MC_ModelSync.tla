---------------------------- MODULE MC_ModelSync ----------------------------
(* A model with two keys, one of them the favourite position of an          *)
(* application, and two values beside undefined.                            *)
EXTENDS ModelSync

CONSTANTS favorite, other, v1, v2

MCKeys == {favorite, other}
MCValues == {v1, v2}
MCSymmetry == Permutations(MCValues)
=============================================================================
