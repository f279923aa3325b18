--------------------------- MODULE MCWsCommands ---------------------------
(* A small instance of WsCommands: the command whose schema is extended and *)
(* one other.                                                               *)
EXTENDS WsCommands

CONSTANTS callService, other

MCCommand == {callService, other}
=============================================================================
