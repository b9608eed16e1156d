----------------------- MODULE MCWebSocketConnection -----------------------
(* Instances of WebSocketConnection for TLC. *)
EXTENDS WebSocketConnection

CONSTANTS a1
=============================================================================
