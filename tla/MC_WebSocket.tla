---------------------------- MODULE MC_WebSocket ----------------------------
(* An instance of WebSocket for TLC. *)
EXTENDS WebSocket
=============================================================================
