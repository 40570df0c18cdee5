--------------------------- MODULE MCWebSocketHub ---------------------------
(* A finite instance of WebSocketHub for TLC.                              *)
EXTENDS WebSocketHub
=============================================================================
