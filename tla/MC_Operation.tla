---------------------------- MODULE MC_Operation ----------------------------
(* Instances of Operation for TLC. *)
EXTENDS Operation, TLC

CONSTANTS o1, o2, o3, o4

Listens == [o \in Observers |-> CASE o = o1 -> "complete"
                                  [] o = o4 -> "error"
                                  [] OTHER  -> "success"]
=============================================================================
