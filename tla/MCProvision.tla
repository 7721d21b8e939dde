----------------------------- MODULE MCProvision -----------------------------
(***************************************************************************)
(* Instances of Provision for TLC.  The PLC "heating" has a boiler that    *)
(* feeds a valve; "again" is a PLC created under its name after it was     *)
(* deleted; the seed also describes a device of a type it does not have.   *)
(***************************************************************************)
EXTENDS Provision, TLC

MCTypes     == {"vessel", "lost type"}
MCPlcs      == {"heating", "again"}
MCInstances == {"boiler", "valve", "lost"}
MCWires     == {"pressure", "other"}
MCPlcOf     == "boiler" :> "heating" @@ "valve" :> "heating" @@ "lost" :> "heating"
MCTypeOf    == "boiler" :> "vessel" @@ "valve" :> "vessel" @@ "lost" :> "lost type"
MCDeviceOf  == "boiler" :> "b1" @@ "valve" :> "v1" @@ "lost" :> "l1"
MCSrcPlc    == "pressure" :> "heating" @@ "other" :> "heating"
MCSrcDevice == "pressure" :> "b1" @@ "other" :> "l1"
MCDst       == "pressure" :> "valve" @@ "other" :> "valve"
MCKey ==
    [r \in MCTypes \cup MCPlcs \cup MCInstances \cup MCWires |->
        CASE r \in MCPlcs  -> "heating plc"
          [] r \in MCWires -> "inlet of the valve"
          [] OTHER         -> r]
MCSeedRows == (MCInstances \cup MCWires \cup {"vessel", "heating"}) \ {"other"}
\* What the seed inserts can be deleted and come back by a revert.
MCMaxSteps ==
    [r \in DOMAIN MCKey |->
        CASE r \in {"heating", "boiler", "valve", "pressure"} -> 3
          [] r \in {"vessel", "again"}                        -> 2
          [] OTHER                                            -> 1]
MCSimPlcs  == MCPlcs
MCSound    == {"boiler", "valve"}

\* Two PLCs: a pump of the second feeds the valve of the one that is simulated.
TwoTypes     == {"machine"}
TwoPlcs      == {"heating", "cooling"}
TwoInstances == {"pump", "valve"}
TwoWires     == {"flow"}
TwoPlcOf     == "pump" :> "cooling" @@ "valve" :> "heating"
TwoTypeOf    == [i \in TwoInstances |-> "machine"]
TwoDeviceOf  == [i \in TwoInstances |-> i]
TwoSrcPlc    == "flow" :> "cooling"
TwoSrcDevice == "flow" :> "pump"
TwoDst       == "flow" :> "valve"
TwoRows      == TwoTypes \cup TwoPlcs \cup TwoInstances \cup TwoWires
TwoKey       == [r \in TwoRows |-> r]
TwoMaxSteps  == [r \in TwoRows |-> 2]
TwoSimPlcs   == {"heating"}
=============================================================================
