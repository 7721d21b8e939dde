----------------------------- MODULE MCConnector -----------------------------
(* Model-checking instance of Connector: two nodes of one PLC. *)
EXTENDS Connector

MCNodes == {"level", "valve"}
=============================================================================
