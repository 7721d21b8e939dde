----------------------------- MODULE MCSimulator -----------------------------
(***************************************************************************)
(* Instance of Simulator for TLC.  The pump has a wired and an unwired     *)
(* input, and a script that also assigns a field it does not have; the     *)
(* tank has an input that is also a metric; the meter has physics_mode     *)
(* Live.                                                                   *)
(***************************************************************************)
EXTENDS Simulator, TLC

MCDevices == {"pump", "tank", "meter"}
MCFields == {"out", "in", "aux"}

MCMetrics == "pump" :> {"out"} @@ "tank" :> {"in"} @@ "meter" :> {"out"}
MCPorts   == "pump" :> {"in", "aux"} @@ "tank" :> {"in"} @@ "meter" :> {}
MCInputs  == "pump" :> {"in"} @@ "tank" :> {"in"} @@ "meter" :> {}
MCOutputs == "pump" :> {"out", "aux"} @@ "tank" :> {} @@ "meter" :> {"out"}
MCLive    == {"meter"}
=============================================================================
