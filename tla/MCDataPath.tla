------------------------------ MODULE MCDataPath ------------------------------
(***************************************************************************)
(* Instance of DataPath for TLC: device "a" on PLC "P" and device "b" on   *)
(* PLC "Q" feed each other; an edit takes the wire from "b" to "a" away or *)
(* puts it back.                                                           *)
(***************************************************************************)
EXTENDS DataPath

MCPlcOf    == [d \in Devices |-> IF d = "a" THEN "P" ELSE "Q"]
MCIdOf     == [d \in Devices |-> d]
MCOwner    == [q \in Ports |-> IF q = "in_a" THEN "a" ELSE "b"]
Loop       == [q \in Ports |-> IF q = "in_a" THEN "b" ELSE "a"]
Chain      == [q \in Ports |-> IF q = "in_a" THEN None ELSE "a"]
MCTables   == {Loop, Chain}
MCMaxTasks == [p \in Plcs |-> IF p = "P" THEN 1 ELSE 2]
MCMaxStamp == [d \in Devices |-> IF d = "a" THEN 2 ELSE 1]
=============================================================================
