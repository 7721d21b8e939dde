------------------------------ MODULE MCLiveEdit ------------------------------
(***************************************************************************)
(* Instances of LiveEdit for TLC: two PLCs, an endpoint with protocol      *)
(* "opcua" and one with another, and a wire across the PLCs.               *)
(***************************************************************************)
EXTENDS LiveEdit, TLC

MCNames     == {"heating", "cooling"}
MCEndpoints == {"sim", "modbus"}
MCOpcua     == {"sim"}
MCWires     == {"across"}
MCSrc       == "across" :> "heating"
MCDst       == "across" :> "cooling"

\* One PLC with endpoints that differ, and a wire within it.
FewNames     == {"cooling"}
FewEndpoints == {"sim", "plant floor"}
FewWires     == {"within"}
FewPlcs      == "within" :> "cooling"
=============================================================================
