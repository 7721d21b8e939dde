------------------------------- MODULE PlantDb -------------------------------
(***************************************************************************)
(* The tables a user authors - device_types, plcs, device_instances and    *)
(* wires - with their keys, cascades and triggers, the audit log, and the  *)
(* statements the API executes on them.  Each statement is one             *)
(* transaction.                                                            *)
(*                                                                         *)
(* Simplifications.                                                        *)
(*  - A row is a model value and its columns are CONSTANT functions: the   *)
(*    API has no UPDATE.  The branches that change a row in place (upserts *)
(*    of the seeder, reverts of updates) are left out.                     *)
(*  - The columns that are unique in a table make one Key.                 *)
(*  - The audit log is kept per row, in its order: revert_audit reads one  *)
(*    step of one row, and the steps of different rows stay apart.         *)
(*  - Postgres is external: an INSERT that violates a key and a DELETE     *)
(*    that a RESTRICT forbids change nothing.                              *)
(***************************************************************************)
EXTENDS Naturals, Sequences

CONSTANTS
    Types, Plcs, Instances, Wires,  \* rows the four tables may hold
    Key,            \* Key[r]: the unique columns of row r
    PlcOf, TypeOf,  \* plc_id and device_type_name of an instance
    DeviceOf,       \* device_id of an instance, which need not be unique
    SrcPlc,         \* src_plc_id of a wire
    SrcDevice,      \* src_device_id of a wire, not a foreign key
    Dst,            \* dst_instance_id of a wire
    MaxSteps        \* bound: MaxSteps[r] audit steps of row r

Rows == Types \cup Plcs \cup Instances \cup Wires

ASSUME PlantDbAssumption ==
    /\ Types \cap Plcs = {} /\ (Types \cup Plcs) \cap Instances = {}
    /\ (Types \cup Plcs \cup Instances) \cap Wires = {}
    /\ DOMAIN Key = Rows
    /\ PlcOf \in [Instances -> Plcs]
    /\ TypeOf \in [Instances -> Types]
    /\ DOMAIN DeviceOf = Instances
    /\ SrcPlc \in [Wires -> Plcs]
    /\ DOMAIN SrcDevice = Wires
    /\ Dst \in [Wires -> Instances]
    /\ MaxSteps \in [Rows -> Nat]

VARIABLES
    rows,   \* the rows of the four tables
    audit   \* audit[r]: what audit_log records of row r, in order

dbVars == <<rows, audit>>

DbInit ==
    /\ rows = {}
    /\ audit = [r \in Rows |-> <<>>]

-----------------------------------------------------------------------------
(* Keys, cascades and triggers.                                            *)

\* The rows a foreign key of r refers to.
References(r) ==
    CASE r \in Instances -> {PlcOf[r], TypeOf[r]}
      [] r \in Wires     -> {SrcPlc[r], Dst[r]}
      [] OTHER           -> {}

\* cleanup_wires_for_deleted_instance: the wires that name instance i as source.
FedBy(i) == {w \in Wires : SrcPlc[w] = PlcOf[i] /\ SrcDevice[w] = DeviceOf[i]}

WithInstanceMutant(i) == {i} \cup FedBy(i)
WithInstance(i) == {i} \cup FedBy(i) \cup {w \in Wires : Dst[w] = i}

InstancesOf(p) == {i \in Instances : PlcOf[i] = p}

WithPlc(p) ==
    {p} \cup (UNION {WithInstance(i) : i \in InstancesOf(p)}) \cup {w \in Wires : SrcPlc[w] = p}

\* The rows that a DELETE of r takes with it, r included.
Cascade(r) ==
    CASE r \in Plcs      -> WithPlc(r)
      [] r \in Instances -> WithInstance(r)
      [] OTHER           -> {r}

\* ON DELETE RESTRICT
InUse(r) == \E i \in rows \cap Instances : TypeOf[i] = r

Recorded(rs, op) ==
    [r \in Rows |-> IF r \in rs THEN Append(audit[r], op) ELSE audit[r]]

\* audit_row() runs for every row of the statement, cascaded ones included.
RecordDeletesMutant(gone, r) == audit' = Recorded({r}, "delete")
RecordDeletes(gone, r) == audit' = Recorded(gone, "delete")

Within(rs) == \A r \in rs : Len(audit[r]) < MaxSteps[r]

-----------------------------------------------------------------------------
(* Statements.                                                             *)

CanInsert(r) ==
    /\ References(r) \subseteq rows
    /\ \A s \in rows : Key[s] # Key[r]

Insert(r) ==
    /\ CanInsert(r)
    /\ Within({r})
    /\ rows' = rows \cup {r}
    /\ audit' = Recorded({r}, "insert")

Delete(r) ==
    LET gone == Cascade(r) \cap rows IN
    /\ r \in rows
    /\ ~InUse(r)
    /\ Within(gone)
    /\ rows' = rows \ gone
    /\ RecordDeletes(gone, r)

\* POST of a type, PLC, instance or wire: a row with an id never used before.
Create(r) == audit[r] = <<>> /\ Insert(r)

\* revert_audit: delete an inserted row (no row, if it is gone already), insert
\* a deleted one.  The revert is audited like any other statement.
Revert(r, k) ==
    \/ audit[r][k] = "insert" /\ Delete(r)
    \/ audit[r][k] = "delete" /\ Insert(r)

Edit ==
    \E r \in Rows :
        \/ Create(r)
        \/ Delete(r)
        \/ \E k \in DOMAIN audit[r] : Revert(r, k)

-----------------------------------------------------------------------------
\* The type of both variables; foreign keys and unique keys hold, so a cascade
\* leaves no row behind that refers to a deleted one.
DbTypeOK ==
    /\ rows \in SUBSET Rows
    /\ audit \in [Rows -> Seq({"insert", "delete"})]
    /\ \A r \in rows : References(r) \subseteq rows
    /\ \A r, s \in rows : Key[r] = Key[s] => r = s

\* The tables are what replaying the audit log gives: no cascade, cleanup
\* trigger or revert changes a row without a step of its own
\* (0005_audit_triggers.sql:10-48), or could not be undone step by step.
AuditReplays ==
    \A r \in Rows :
        /\ \A k \in DOMAIN audit[r] : audit[r][k] = IF k % 2 = 1 THEN "insert" ELSE "delete"
        /\ r \in rows <=> Len(audit[r]) % 2 = 1

\* Rows that the tables could hold together.
Consistent(R) ==
    /\ \A r \in R : References(r) \subseteq R
    /\ \A r, s \in R : Key[r] = Key[s] => r = s

\* No deletion is a dead end.  While the tables hold a part of some consistent
\* rows that were all there once - what they held before a cascade, say - one of
\* the missing rows can come back by a revert, so that one after the other all
\* do, whatever was deleted in which order (0005_audit_triggers.sql:58-76).
NoDeadEnd ==
    \A R \in SUBSET {r \in Rows : audit[r] # <<>>} :
        Consistent(R) /\ rows \subseteq R /\ rows # R =>
            \E r \in R \ rows :
                /\ CanInsert(r)
                /\ \E k \in DOMAIN audit[r] : audit[r][k] = "delete"
=============================================================================
