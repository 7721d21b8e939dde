----------------------------- MODULE MCWsStream -----------------------------
(***************************************************************************)
(* Instances of WsStream for TLC: a device whose values are merged before  *)
(* and after its subscription, and two sockets.                            *)
(***************************************************************************)
EXTENDS WsStream

MCDevices == {"boiler"}
MCSockets == {"first", "second"}
=============================================================================
