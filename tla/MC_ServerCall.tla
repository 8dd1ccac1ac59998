--------------------------- MODULE MC_ServerCall ---------------------------
(* Instances of ServerCall for TLC. *)
EXTENDS ServerCall, TLC

CONSTANTS c1, c2, c3, c4

(* The transports by priority: standalone is 3, websocket 2 and ajax 1. *)
ajax == 1
websocket == 2
standalone == 3

TwoTransports == {ajax, websocket}
AllTransports == {ajax, websocket, standalone}
OnlyAjax == {ajax}
NotWebsocket == {ajax, standalone}

(* c3 is synchronous: websocket.canTransport refuses it. *)
Mixed == [c \in Calls |-> IF c = c3 THEN {ajax} ELSE TwoTransports]

(* A built page: standalone.canTransport takes theme.loadCss calls such as c1; *)
(* c3 and c4 are synchronous.                                                  *)
Page == [c \in Calls |-> CASE c = c1 -> AllTransports
                            [] c = c2 -> TwoTransports
                            [] OTHER -> {ajax}]

(* A standalone page: only calls to another host leave it, by ajax. *)
Standalone == [c \in Calls |-> IF c = c2 THEN {ajax} ELSE {standalone}]
=============================================================================
