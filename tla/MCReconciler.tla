---------------------------- MODULE MCReconciler ----------------------------
(***************************************************************************)
(* Instances of Reconciler for TLC.  "a_b" and "a-b" are plc_ids that      *)
(* plc_deploy_name maps to one name, and the cluster refuses the           *)
(* documents of "a_b"; "a-b on edge" is the row of PLC "a-b" when it is    *)
(* created again with another deploy_node.                                 *)
(***************************************************************************)
EXTENDS Reconciler, TLC

MCRows  == {"a_b", "a-b", "c"}
MCIds   == MCRows
MCPlcId == [r \in MCRows |-> r]
MCNames == {"a-b", "c"}
MCDeployName == "a_b" :> "a-b" @@ "a-b" :> "a-b" @@ "c" :> "c"
Bad    == {"a_b"}

\* One PLC with two deploy_nodes.
NodeRows  == {"a-b", "a-b on edge"}
NodeIds   == {"a-b"}
NodePlcId == [r \in NodeRows |-> "a-b"]
NodeName  == "a-b" :> "a-b"
None      == {}
=============================================================================
