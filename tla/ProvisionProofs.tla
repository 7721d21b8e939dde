---------------------------- MODULE ProvisionProofs ----------------------------
(***************************************************************************)
(* Proofs about PlantDb and Provision: references and audit log under      *)
(* every edit, cascade and revert, what a seed imports, and what the       *)
(* configuration of a simulator is made of.                                *)
(***************************************************************************)
EXTENDS Provision, TLAPS

(* Every row belongs to one table.                                         *)
LEMMA OneTable ==
    ASSUME NEW r
    PROVE  /\ r \in Instances => r \notin Types /\ r \notin Plcs /\ r \notin Wires
           /\ r \in Wires => r \notin Types /\ r \notin Plcs /\ r \notin Instances
           /\ r \in Plcs => r \notin Types
  BY PlantDbAssumption

(* The rows a row refers to, by its table.                                 *)
LEMMA ReferencesByTable ==
    /\ \A i \in Instances : References(i) = {PlcOf[i], TypeOf[i]}
    /\ \A w \in Wires : References(w) = {SrcPlc[w], Dst[w]}
    /\ \A r \in Rows : References(r) \subseteq Rows
    /\ \A r \in Types \cup Plcs : References(r) = {}
  <1>1. \A i \in Instances : References(i) = {PlcOf[i], TypeOf[i]}
    BY OneTable DEF References
  <1>2. \A w \in Wires : References(w) = {SrcPlc[w], Dst[w]}
    BY OneTable DEF References
  <1>3. \A r \in Types \cup Plcs : References(r) = {}
    BY OneTable DEF References
  <1>4. \A r \in Rows : References(r) \subseteq Rows
    BY <1>1, <1>2, <1>3, PlantDbAssumption DEF Rows
  <1>5. QED
    BY <1>1, <1>2, <1>3, <1>4

(* What a DELETE takes with it, by the table of the row.                   *)
LEMMA CascadeByTable ==
    /\ \A p \in Plcs : Cascade(p) = WithPlc(p)
    /\ \A i \in Instances : Cascade(i) = WithInstance(i)
    /\ \A r \in Types \cup Wires : Cascade(r) = {r}
    /\ \A r \in Rows : r \in Cascade(r)
  <1>1. \A p \in Plcs : Cascade(p) = WithPlc(p)
    BY OneTable DEF Cascade
  <1>2. \A i \in Instances : Cascade(i) = WithInstance(i)
    BY OneTable DEF Cascade
  <1>3. \A r \in Types \cup Wires : Cascade(r) = {r}
    BY OneTable DEF Cascade
  <1>4. \A r \in Rows : r \in Cascade(r)
    BY <1>1, <1>2, <1>3 DEF Rows, WithPlc, WithInstance
  <1>5. QED
    BY <1>1, <1>2, <1>3, <1>4

(* No row that a DELETE leaves refers to one that it takes.                *)
LEMMA CascadeClosed ==
    ASSUME \A s \in rows : s \in Rows /\ References(s) \subseteq rows,
           NEW r \in Rows, ~InUse(r),
           NEW s \in rows, s \notin Cascade(r)
    PROVE  References(s) \cap Cascade(r) = {}
  <1>1. CASE r \in Plcs
    <2>1. Cascade(r) = WithPlc(r)
      BY <1>1, CascadeByTable
    <2>2. \A x \in WithPlc(r) : x \in Plcs \/ x \in Types => x = r
      BY <1>1, OneTable DEF WithPlc, WithInstance, InstancesOf, FedBy
    <2>3. CASE s \in Instances
      <3>1. PlcOf[s] # r
        BY <2>1, <2>3 DEF WithPlc, WithInstance, InstancesOf
      <3>2. TypeOf[s] # r
        BY <1>1, <2>3, OneTable, PlantDbAssumption
      <3>3. QED
        BY <2>1, <2>2, <2>3, <3>1, <3>2, ReferencesByTable, PlantDbAssumption
    <2>4. CASE s \in Wires
      <3>1. SrcPlc[s] # r
        BY <2>1, <2>4 DEF WithPlc
      <3>2. Dst[s] \notin WithPlc(r)
        <4>1. SUFFICES ASSUME Dst[s] \in WithPlc(r) PROVE FALSE
          OBVIOUS
        <4>2. Dst[s] \in Instances
          BY <2>4, PlantDbAssumption
        <4>3. PlcOf[Dst[s]] = r
          BY <1>1, <4>1, <4>2, OneTable DEF WithPlc, WithInstance, InstancesOf, FedBy
        <4>4. s \in WithInstance(Dst[s]) /\ Dst[s] \in InstancesOf(r)
          BY <2>4, <4>2, <4>3 DEF WithInstance, InstancesOf
        <4>5. QED
          BY <2>1, <4>4 DEF WithPlc
      <3>3. QED
        BY <2>1, <2>2, <2>4, <3>1, <3>2, ReferencesByTable, PlantDbAssumption
    <2>5. QED
      BY <2>3, <2>4, ReferencesByTable DEF Rows
  <1>2. CASE r \in Instances
    <2>1. Cascade(r) = WithInstance(r)
      BY <1>2, CascadeByTable
    <2>2. \A x \in WithInstance(r) : x = r \/ x \in Wires
      BY DEF WithInstance, FedBy
    <2>3. CASE s \in Instances
      <3>1. References(s) \subseteq Plcs \cup Types
        BY <2>3, ReferencesByTable, PlantDbAssumption
      <3>2. QED
        BY <1>2, <2>1, <2>2, <3>1, OneTable
    <2>4. CASE s \in Wires
      <3>1. Dst[s] # r
        BY <2>1, <2>4 DEF WithInstance
      <3>2. References(s) = {SrcPlc[s], Dst[s]} /\ SrcPlc[s] \in Plcs /\ Dst[s] \in Instances
        BY <2>4, ReferencesByTable, PlantDbAssumption
      <3>3. QED
        BY <1>2, <2>1, <2>2, <3>1, <3>2, OneTable
    <2>5. QED
      BY <2>3, <2>4, ReferencesByTable DEF Rows
  <1>3. CASE r \in Types
    <2>1. Cascade(r) = {r}
      BY <1>3, CascadeByTable
    <2>2. CASE s \in Instances
      <3>1. TypeOf[s] # r
        BY <2>2 DEF InUse
      <3>2. PlcOf[s] # r
        BY <1>3, <2>2, OneTable, PlantDbAssumption
      <3>3. QED
        BY <2>1, <2>2, <3>1, <3>2, ReferencesByTable
    <2>3. CASE s \in Wires
      BY <1>3, <2>1, <2>3, OneTable, ReferencesByTable, PlantDbAssumption
    <2>4. QED
      BY <2>2, <2>3, ReferencesByTable DEF Rows
  <1>4. CASE r \in Wires
    <2>1. Cascade(r) = {r}
      BY <1>4, CascadeByTable
    <2>2. \A t \in Rows : References(t) \cap Wires = {}
      BY ReferencesByTable, OneTable, PlantDbAssumption DEF Rows
    <2>3. QED
      BY <1>4, <2>1, <2>2
  <1>5. QED
    BY <1>1, <1>2, <1>3, <1>4 DEF Rows

-----------------------------------------------------------------------------
(* Append, element by element.                                             *)
LEMMA AppendSteps ==
    ASSUME NEW S, NEW q \in Seq(S), NEW e \in S
    PROVE  /\ Append(q, e) \in Seq(S)
           /\ Len(Append(q, e)) = Len(q) + 1
           /\ DOMAIN Append(q, e) = 1 .. Len(q) + 1
           /\ Append(q, e)[Len(q) + 1] = e
           /\ \A k \in DOMAIN q : Append(q, e)[k] = q[k]
  OBVIOUS

(* One step more in the audit logs of some rows: what was recorded stays,  *)
(* and the parity of the length tells the rows in question apart.          *)
LEMMA RecordedSteps ==
    ASSUME audit \in [Rows -> Seq({"insert", "delete"})],
           NEW rs \in SUBSET Rows, NEW op \in {"insert", "delete"},
           audit' = Recorded(rs, op)
    PROVE  /\ audit' \in [Rows -> Seq({"insert", "delete"})]
           /\ \A r \in Rows \ rs : audit'[r] = audit[r]
           /\ \A r \in rs : /\ Len(audit'[r]) = Len(audit[r]) + 1
                           /\ audit'[r][Len(audit[r]) + 1] = op
                           /\ \A k \in DOMAIN audit[r] : audit'[r][k] = audit[r][k]
                           /\ DOMAIN audit'[r] = 1 .. Len(audit[r]) + 1
  <1>1. \A r \in rs : audit[r] \in Seq({"insert", "delete"}) /\ audit'[r] = Append(audit[r], op)
    BY DEF Recorded
  <1>2. \A r \in Rows \ rs : audit'[r] = audit[r]
    BY DEF Recorded
  <1>3. \A r \in rs : /\ Len(audit'[r]) = Len(audit[r]) + 1
                    /\ audit'[r][Len(audit[r]) + 1] = op
                    /\ \A k \in DOMAIN audit[r] : audit'[r][k] = audit[r][k]
                    /\ DOMAIN audit'[r] = 1 .. Len(audit[r]) + 1
    <2>1. SUFFICES ASSUME NEW r \in rs
                   PROVE  /\ Len(audit'[r]) = Len(audit[r]) + 1
                          /\ audit'[r][Len(audit[r]) + 1] = op
                          /\ \A k \in DOMAIN audit[r] : audit'[r][k] = audit[r][k]
                          /\ DOMAIN audit'[r] = 1 .. Len(audit[r]) + 1
      OBVIOUS
    <2>2. QED
      BY <1>1, AppendSteps
  <1>4. \A r \in rs : audit'[r] \in Seq({"insert", "delete"})
    <2>1. SUFFICES ASSUME NEW r \in rs PROVE audit'[r] \in Seq({"insert", "delete"})
      OBVIOUS
    <2>2. audit[r] \in Seq({"insert", "delete"}) /\ audit'[r] = Append(audit[r], op)
      BY <1>1
    <2>3. Append(audit[r], op) \in Seq({"insert", "delete"})
      BY <2>2, AppendSteps
    <2>4. QED
      BY <2>2, <2>3
  <1>5. audit' \in [Rows -> Seq({"insert", "delete"})]
    BY <1>2, <1>4 DEF Recorded
  <1>6. QED
    BY <1>2, <1>3, <1>5

(* The table follows its audit log when the rows of one statement appear   *)
(* or disappear together and each of them is recorded.                     *)
LEMMA ReplayStep ==
    ASSUME DbTypeOK, AuditReplays,
           NEW rs \in SUBSET Rows, NEW op \in {"insert", "delete"},
           audit' = Recorded(rs, op),
           \/ op = "insert" /\ rs \cap rows = {} /\ rows' = rows \cup rs
           \/ op = "delete" /\ rs \subseteq rows /\ rows' = rows \ rs
    PROVE  AuditReplays'
  <1>1. audit \in [Rows -> Seq({"insert", "delete"})]
    BY DEF DbTypeOK
  <1>2. SUFFICES ASSUME NEW r \in Rows
                 PROVE  /\ \A k \in DOMAIN audit'[r] :
                             audit'[r][k] = IF k % 2 = 1 THEN "insert" ELSE "delete"
                        /\ r \in rows' <=> Len(audit'[r]) % 2 = 1
    BY DEF AuditReplays
  <1>3. /\ \A k \in DOMAIN audit[r] : audit[r][k] = IF k % 2 = 1 THEN "insert" ELSE "delete"
        /\ r \in rows <=> Len(audit[r]) % 2 = 1
    BY DEF AuditReplays
  <1>4. CASE r \notin rs
    <2>1. audit'[r] = audit[r] /\ (r \in rows' <=> r \in rows)
      BY <1>1, <1>4, RecordedSteps
    <2>2. QED
      BY <1>3, <2>1
  <1>5. CASE r \in rs
    <2> DEFINE n == Len(audit[r])
    <2>1. n \in Nat /\ DOMAIN audit[r] = 1 .. n
      BY <1>1
    <2>2. /\ Len(audit'[r]) = n + 1 /\ DOMAIN audit'[r] = 1 .. n + 1
          /\ audit'[r][n + 1] = op
          /\ \A k \in DOMAIN audit[r] : audit'[r][k] = audit[r][k]
      BY <1>1, <1>5, RecordedSteps
    <2>3. /\ op = "insert" => n % 2 # 1 /\ r \in rows'
          /\ op = "delete" => n % 2 = 1 /\ r \notin rows'
      BY <1>3, <1>5
    <2> HIDE DEF n
    <2>4. /\ op = "insert" => (n + 1) % 2 = 1
          /\ op = "delete" => (n + 1) % 2 # 1
      BY <2>1, <2>3
    <2>5. ASSUME NEW k \in DOMAIN audit'[r]
          PROVE  audit'[r][k] = IF k % 2 = 1 THEN "insert" ELSE "delete"
      <3>1. CASE k = n + 1
        BY <2>2, <2>4, <3>1
      <3>2. CASE k # n + 1
        <4>1. k \in 1 .. n
          BY <2>1, <2>2, <3>2
        <4>2. QED
          BY <1>3, <2>1, <2>2, <4>1
      <3>3. QED
        BY <3>1, <3>2
    <2>6. QED
      BY <2>2, <2>3, <2>4, <2>5
  <1>6. QED
    BY <1>4, <1>5

(* INSERT: the references and keys were checked, the step is recorded.     *)
LEMMA InsertKeeps ==
    ASSUME DbTypeOK, AuditReplays, NEW r \in Rows, Insert(r)
    PROVE  DbTypeOK' /\ AuditReplays'
  <1>1. /\ References(r) \subseteq rows /\ \A s \in rows : Key[s] # Key[r]
        /\ rows' = rows \cup {r} /\ audit' = Recorded({r}, "insert")
    BY DEF Insert, CanInsert
  <1>2. r \notin rows
    BY <1>1
  <1>3. audit' \in [Rows -> Seq({"insert", "delete"})]
    BY <1>1, RecordedSteps DEF DbTypeOK
  <1>4. DbTypeOK'
    BY <1>1, <1>3 DEF DbTypeOK, References
  <1>5. AuditReplays'
    BY <1>1, <1>2, ReplayStep
  <1>6. QED
    BY <1>4, <1>5

(* DELETE: nothing that is left refers to what went with the row.          *)
LEMMA DeleteKeeps ==
    ASSUME DbTypeOK, AuditReplays, NEW r \in Rows, Delete(r)
    PROVE  DbTypeOK' /\ AuditReplays'
  <1> DEFINE gone == Cascade(r) \cap rows
  <1>1. /\ ~InUse(r) /\ rows' = rows \ gone /\ audit' = Recorded(gone, "delete")
    BY DEF Delete, RecordDeletes
  <1>2. gone \in SUBSET Rows /\ gone \subseteq rows
    BY DEF DbTypeOK
  <1>3. audit' \in [Rows -> Seq({"insert", "delete"})]
    BY <1>1, <1>2, RecordedSteps DEF DbTypeOK
  <1>4. \A s \in rows' : References(s) \subseteq rows'
    <2>1. SUFFICES ASSUME NEW s \in rows' PROVE References(s) \subseteq rows'
      OBVIOUS
    <2>2. s \in rows /\ s \notin Cascade(r)
      BY <1>1
    <2>3. \A t \in rows : t \in Rows /\ References(t) \subseteq rows
      BY DEF DbTypeOK
    <2>4. References(s) \cap Cascade(r) = {}
      BY <1>1, <2>2, <2>3, CascadeClosed
    <2>5. QED
      BY <1>1, <2>2, <2>3, <2>4
  <1>5. DbTypeOK'
    <2>1. rows' \in SUBSET Rows /\ \A s, t \in rows' : Key[s] = Key[t] => s = t
      BY <1>1 DEF DbTypeOK
    <2>2. QED
      BY <1>3, <1>4, <2>1 DEF DbTypeOK, References
  <1>6. AuditReplays'
    BY <1>1, <1>2, ReplayStep
  <1>7. QED
    BY <1>5, <1>6

(* Creating, deleting and reverting are such statements.                   *)
LEMMA EditKeeps ==
    ASSUME DbTypeOK, AuditReplays, Edit
    PROVE  DbTypeOK' /\ AuditReplays'
  <1>1. PICK r \in Rows : Insert(r) \/ Delete(r)
    BY DEF Edit, Create, Revert
  <1>2. QED
    BY <1>1, InsertKeeps, DeleteKeeps

-----------------------------------------------------------------------------
(* Provision.  Every step of it leaves the tables alone or executes one    *)
(* statement on them.                                                      *)
LEMMA StatementStep ==
    ASSUME TypeOK, [Next]_vars
    PROVE  \/ UNCHANGED dbVars
           \/ edited' = TRUE /\ \E r \in Rows : Insert(r) \/ Delete(r)
  <1>1. CASE \E r \in Rows : Seed(r)
    BY <1>1 DEF Seed
  <1>2. CASE UserEdit
    BY <1>2 DEF UserEdit, Edit, Create, Revert
  <1>3. CASE UNCHANGED vars
    BY <1>3 DEF vars
  <1>4. CASE Boot \/ Seeded \/ Crash \/ Fetch \/ RequestFails \/ Kill
    BY <1>4 DEF Boot, Seeded, Crash, Fetch, RequestFails, Kill, Start, ResolveSlug, ReadPlc,
                ReadInstances, ReadWires, BackoffOver, Build
  <1>5. QED
    BY <1>1, <1>2, <1>3, <1>4 DEF Next, Serve

DbInv == TypeOK /\ AuditReplays

LEMMA DbInvInit == Init => DbInv
  <1> SUFFICES ASSUME Init PROVE DbInv
    OBVIOUS
  <1> USE DEF Init, DbInit
  <1>1. DbTypeOK
    BY DEF DbTypeOK
  <1>2. TypeOK
    BY <1>1 DEF TypeOK, SimPcs
  <1>3. AuditReplays
    BY DEF AuditReplays
  <1>4. QED
    BY <1>2, <1>3 DEF DbInv

LEMMA DbInvNext == DbInv /\ [Next]_vars => DbInv'
  <1> SUFFICES ASSUME DbInv, [Next]_vars PROVE DbInv'
    OBVIOUS
  <1>1. TypeOK /\ DbTypeOK /\ AuditReplays
    BY DEF DbInv, TypeOK
  <1>2. DbTypeOK' /\ AuditReplays'
    <2>1. CASE UNCHANGED dbVars
      BY <1>1, <2>1 DEF dbVars, DbTypeOK, AuditReplays, References
    <2>2. ASSUME NEW r \in Rows, Insert(r) \/ Delete(r) PROVE DbTypeOK' /\ AuditReplays'
      BY <1>1, <2>2, InsertKeeps, DeleteKeeps
    <2>3. QED
      BY <1>1, <2>1, <2>2, StatementStep
  <1>3. (backend' \in {"down", "seed", "up"} /\ toSeed' \in SUBSET SeedRows /\ cut' \in BOOLEAN)
    BY <1>1 DEF TypeOK, Next, Serve, vars, backendVars, Boot, Seed, Seeded, Crash, UserEdit,
                Fetch, RequestFails, Kill, Start, ResolveSlug, ReadPlc, ReadInstances, ReadWires,
                BackoffOver, Build
  <1>4. sim' \in SimPcs /\ plc' \in SimPlcs \cup {NoPlc} /\ edited' \in BOOLEAN
    BY <1>1 DEF TypeOK, Next, Serve, vars, simVars, SimPcs, Fetching, Boot, Seed, Seeded, Crash,
                UserEdit, Fetch, RequestFails, Kill, Start, ResolveSlug, ReadPlc, ReadInstances,
                ReadWires, BackoffOver, Build, Refused, Retry
  <1>5. devices' \in SUBSET Instances /\ inputs' \in SUBSET Wires
    BY <1>1 DEF TypeOK, Next, Serve, vars, simVars, Boot, Seed, Seeded, Crash, UserEdit, Fetch,
                RequestFails, Kill, Start, ResolveSlug, ReadPlc, ReadInstances, ReadWires,
                BackoffOver, Build, InstancesOf, WiresOf
  <1>6. QED
    BY <1>2, <1>3, <1>4, <1>5 DEF DbInv, TypeOK

LEMMA DbInvHolds == Spec => []DbInv
  BY DbInvInit, DbInvNext, PTL DEF Spec

(* Types, and no row left that refers to a deleted one, whatever is seeded,*)
(* edited, cascaded and reverted, in whatever order                        *)
(* (0003_plant_tables.sql:7-60, 0005_audit_triggers.sql:58-76).            *)
THEOREM TypeCorrect == Spec => []TypeOK
  <1>1. DbInv => TypeOK
    BY DEF DbInv
  <1>2. QED
    BY <1>1, DbInvHolds, PTL

(* The tables are what replaying the audit log gives, in every state that  *)
(* a cascade, the cleanup trigger or a revert can produce                  *)
(* (0005_audit_triggers.sql:10-48, audit.rs).                              *)
THEOREM LogReplays == Spec => []AuditReplays
  <1>1. DbInv => AuditReplays
    BY DEF DbInv
  <1>2. QED
    BY <1>1, DbInvHolds, PTL

-----------------------------------------------------------------------------
(* Bringing rows back: types and PLCs first, then instances, then wires.   *)
LEMMA ParentsFirst ==
    ASSUME NEW R \in SUBSET Rows, Consistent(R), rows \subseteq R, rows # R
    PROVE  \E r \in R \ rows : CanInsert(r)
  <1>1. \A r \in R \ rows : References(r) \subseteq rows => CanInsert(r)
    BY DEF CanInsert, Consistent
  <1>2. \A r \in R : References(r) \subseteq R
    BY DEF Consistent
  <1>3. CASE \E r \in R \ rows : r \in Types \cup Plcs
    BY <1>1, <1>3, ReferencesByTable
  <1>4. CASE /\ \A r \in R \ rows : r \notin Types \cup Plcs
             /\ \E r \in R \ rows : r \in Instances
    <2>1. PICK r \in R \ rows : r \in Instances
      BY <1>4
    <2>2. References(r) \subseteq Types \cup Plcs
      BY <2>1, ReferencesByTable, PlantDbAssumption
    <2>3. References(r) \subseteq rows
      BY <1>2, <1>4, <2>1, <2>2
    <2>4. QED
      BY <1>1, <2>1, <2>3
  <1>5. CASE \A r \in R \ rows : r \notin Types \cup Plcs /\ r \notin Instances
    <2>1. PICK r \in R \ rows : TRUE
      OBVIOUS
    <2>2. r \in Wires
      BY <1>5, <2>1 DEF Rows
    <2>3. References(r) \subseteq Plcs \cup Instances
      BY <2>2, ReferencesByTable, PlantDbAssumption
    <2>4. References(r) \subseteq rows
      BY <1>2, <1>5, <2>1, <2>3
    <2>5. QED
      BY <1>1, <2>1, <2>4
  <1>6. QED
    BY <1>3, <1>4, <1>5

(* Rows that a cascade, the cleanup trigger or a user took come back by    *)
(* reverts, in whatever state the tables were left: as long as a row of    *)
(* consistent rows that all were there is missing, the deletion of one of  *)
(* the missing rows can be reverted (0005_audit_triggers.sql:58-76).       *)
THEOREM DeletionsCanBeUndone == Spec => []NoDeadEnd
  <1>1. DbInv => NoDeadEnd
    <2>1. SUFFICES ASSUME DbInv, NEW R \in SUBSET {r \in Rows : audit[r] # <<>>},
                          Consistent(R), rows \subseteq R, rows # R
                   PROVE  \E r \in R \ rows :
                              /\ CanInsert(r)
                              /\ \E k \in DOMAIN audit[r] : audit[r][k] = "delete"
      BY DEF NoDeadEnd
    <2>2. PICK r \in R \ rows : CanInsert(r)
      BY <2>1, ParentsFirst
    <2>3. r \in Rows /\ audit[r] \in Seq({"insert", "delete"}) /\ audit[r] # <<>> /\ r \notin rows
      BY <2>1, <2>2 DEF DbInv, TypeOK, DbTypeOK
    <2> DEFINE n == Len(audit[r])
    <2>4. n \in Nat \ {0} /\ DOMAIN audit[r] = 1 .. n
      BY <2>3
    <2>5. n % 2 # 1 /\ \A k \in 1 .. n : audit[r][k] = IF k % 2 = 1 THEN "insert" ELSE "delete"
      BY <2>1, <2>3, <2>4 DEF DbInv, AuditReplays
    <2> HIDE DEF n
    <2>6. n \in DOMAIN audit[r] /\ audit[r][n] = "delete"
      BY <2>4, <2>5
    <2>7. QED
      BY <2>2, <2>6
  <1>2. QED
    BY <1>1, DbInvHolds, PTL

-----------------------------------------------------------------------------
(* What the answer holds while it is put together, if nobody edits.        *)
FreshInv ==
    /\ ~edited /\ sim \in {"wires", "build", "running"} => devices = InstancesOf(plc) \cap rows
    /\ ~edited /\ sim \in {"build", "running"} => inputs = WiresOf(plc) \cap rows

(* No wire of a PLC is dropped with a device when all its devices were     *)
(* read: the device a wire feeds is a row of the same PLC.                 *)
LEMMA AllKept ==
    ASSUME DbTypeOK, devices = InstancesOf(plc) \cap rows
    PROVE  \A w \in WiresOf(plc) \cap rows : Kept(w)
  <1>1. SUFFICES ASSUME NEW w \in WiresOf(plc) \cap rows
                 PROVE  \E i \in devices : DeviceOf[i] = DeviceOf[Dst[w]]
    BY DEF Kept, HasDevice
  <1>2. w \in Wires /\ PlcOf[Dst[w]] = plc /\ Dst[w] \in Instances
    BY PlantDbAssumption DEF WiresOf
  <1>3. Dst[w] \in rows
    BY <1>2, ReferencesByTable DEF DbTypeOK
  <1>4. QED
    BY <1>2, <1>3 DEF InstancesOf

LEMMA FreshNext ==
    ASSUME DbInv, FreshInv, [Next]_vars
    PROVE  FreshInv'
  <1> USE DEF FreshInv, InstancesOf, WiresOf
  <1>1. CASE \E r \in Rows : Seed(r)
    BY <1>1 DEF Seed, simVars, dbVars
  <1>2. CASE UserEdit
    BY <1>2 DEF UserEdit
  <1>3. CASE Boot \/ Seeded \/ Start \/ RequestFails \/ ReadPlc \/ BackoffOver \/ Kill
    BY <1>3 DEF Boot, Seeded, Start, RequestFails, ReadPlc, BackoffOver, Kill, Refused, Retry,
                dbVars, simVars, backendVars
  <1>4. CASE Crash
    BY <1>4 DEF Crash, Fetching, dbVars
  <1>5. CASE ResolveSlug
    BY <1>5 DEF ResolveSlug, Refused
  <1>6. CASE ReadInstances
    BY <1>6 DEF ReadInstances, dbVars
  <1>7. CASE ReadWires
    <2>1. /\ sim = "wires" /\ sim' = "build" /\ UNCHANGED <<plc, rows, devices, edited>>
          /\ inputs' = {w \in WiresOf(plc) \cap rows : Kept(w)}
      BY <1>7 DEF ReadWires, dbVars
    <2>2. ~edited => inputs' = WiresOf(plc) \cap rows
      BY <2>1, AllKept DEF DbInv, TypeOK
    <2>3. QED
      BY <2>1, <2>2
  <1>8. CASE Build
    BY <1>8 DEF Build, dbVars
  <1>9. CASE UNCHANGED vars
    BY <1>9 DEF vars, dbVars, simVars
  <1>10. QED
    BY <1>1, <1>2, <1>3, <1>4, <1>5, <1>6, <1>7, <1>8, <1>9 DEF Next, Serve, Fetch

(* What a simulator runs is what the tables held when it asked, unless an  *)
(* edit came in between the statements (plant_loader.rs:208-317).          *)
THEOREM StartsFresh == Spec => []FreshStart
  <1>1. Init => FreshInv
    BY DEF Init, FreshInv
  <1>2. DbInv /\ FreshInv /\ [Next]_vars => FreshInv'
    BY FreshNext
  <1>3. FreshInv => FreshStart
    BY DEF FreshInv, FreshStart
  <1>4. QED
    BY <1>1, <1>2, <1>3, DbInvHolds, PTL DEF Spec

-----------------------------------------------------------------------------
(* What the seeder inserts when it comes to it: rows whose parents and     *)
(* source, if it looks for them, are in the files.                         *)
Importable(r) ==
    /\ r \in Instances => TypeOf[r] \in SeedRows
    /\ r \in Wires =>
         /\ Dst[r] \in SeedRows /\ TypeOf[Dst[r]] \in SeedRows
         /\ HasDevice({i \in SeedRows \cap Instances : TypeOf[i] \in SeedRows}, SrcDevice[r])

Imported == \A r \in SeedRows : Importable(r) => audit[r] # <<>>

(* While seeding, what was dealt with is there; afterwards, it was, as     *)
(* long as no seed was interrupted.                                        *)
SeedInv ==
    /\ backend = "seed" => \A r \in SeedRows \ toSeed : Importable(r) => r \in rows
    /\ ~cut /\ (backend = "up" \/ (backend = "down" /\ HasData)) => Imported

(* Whatever is described completely is importable.                         *)
LEMMA DescribedImportable ==
    ASSUME NEW r \in SeedRows, Described(r)
    PROVE  Importable(r)
  <1>1. CASE r \in Instances
    BY <1>1, ReferencesByTable, OneTable DEF Described, Importable
  <1>2. CASE r \in Wires
    <2>1. SrcPlc[r] \in SeedRows /\ Dst[r] \in SeedRows /\ Dst[r] \in References(r) \cap Instances
      BY <1>2, ReferencesByTable, PlantDbAssumption DEF Described
    <2>2. QED
      BY <1>2, <2>1, OneTable DEF Described, Importable
  <1>3. QED
    BY <1>1, <1>2 DEF Importable

(* The order of the seeder: when it comes to an importable row, what the   *)
(* row needs has been inserted.                                            *)
LEMMA NotSkipped ==
    ASSUME SeedInv, NEW r \in Rows, Seed(r), Importable(r), r \in SeedRows
    PROVE  ~Skipped(r)
  <1>1. /\ Before(r) \cap toSeed = {}
        /\ \A s \in SeedRows \ toSeed : Importable(s) => s \in rows
    BY DEF Seed, SeedInv
  <1>2. CASE r \in Instances
    <2>1. TypeOf[r] \in Types /\ TypeOf[r] \in SeedRows /\ Types \subseteq Before(r)
      BY <1>2, OneTable, PlantDbAssumption DEF Importable, Before
    <2>2. Importable(TypeOf[r])
      BY <2>1, OneTable DEF Importable
    <2>3. TypeOf[r] \in rows
      BY <1>1, <2>1, <2>2
    <2>4. QED
      BY <1>2, <2>3, OneTable DEF Skipped
  <1>3. CASE r \in Wires
    <2>1. Before(r) = Rows \ Wires
      BY <1>3, OneTable DEF Before
    <2>2. \A i \in Instances : i \in SeedRows /\ TypeOf[i] \in SeedRows => i \in rows
      <3>1. SUFFICES ASSUME NEW i \in Instances, i \in SeedRows, TypeOf[i] \in SeedRows
                     PROVE  i \in rows
        OBVIOUS
      <3>2. Importable(i) /\ i \in Rows \ Wires
        <4>1. i \notin Wires /\ i \in Rows
          BY <3>1, OneTable DEF Rows
        <4>2. QED
          BY <3>1, <4>1 DEF Importable
      <3>3. QED
        BY <1>1, <2>1, <3>1, <3>2
    <2>3. Dst[r] \in rows
      BY <1>3, <2>2, PlantDbAssumption DEF Importable
    <2>4. \E i \in rows \cap Instances : DeviceOf[i] = SrcDevice[r]
      BY <1>3, <2>2 DEF Importable, HasDevice
    <2>5. QED
      BY <1>3, <2>3, <2>4, OneTable DEF Skipped
  <1>4. QED
    BY <1>2, <1>3 DEF Skipped

(* A row that is there was recorded, and records are never lost.           *)
LEMMA RowsRecorded ==
    ASSUME DbInv
    PROVE  \A r \in rows : audit[r] # <<>>
  <1>1. SUFFICES ASSUME NEW r \in rows, audit[r] = <<>> PROVE FALSE
    OBVIOUS
  <1>2. r \in Rows /\ Len(audit[r]) % 2 = 1
    BY DEF DbInv, TypeOK, DbTypeOK, AuditReplays
  <1>3. Len(audit[r]) = 0
    BY <1>1
  <1>4. QED
    BY <1>2, <1>3

LEMMA ImportedStays ==
    ASSUME DbInv, Imported, [Next]_vars
    PROVE  Imported'
  <1>1. audit \in [Rows -> Seq({"insert", "delete"})] /\ rows \in SUBSET Rows /\ SeedRows \subseteq Rows
    BY ProvisionAssumption DEF DbInv, TypeOK, DbTypeOK
  <1>2. ASSUME NEW rs \in SUBSET Rows, NEW op \in {"insert", "delete"}, audit' = Recorded(rs, op)
        PROVE  Imported'
    <2>1. SUFFICES ASSUME NEW r \in SeedRows, audit[r] # <<>> PROVE audit'[r] # <<>>
      BY DEF Imported, Importable, HasDevice
    <2>2. audit[r] \in Seq({"insert", "delete"}) /\ audit'[r] \in Seq({"insert", "delete"})
      BY <1>1, <1>2, RecordedSteps
    <2>3. CASE r \in rs
      <3>1. Len(audit[r]) \in Nat /\ Len(audit'[r]) = Len(audit[r]) + 1
        BY <1>1, <1>2, <2>2, <2>3, RecordedSteps
      <3>2. QED
        BY <3>1
    <2>4. CASE r \notin rs
      BY <1>1, <1>2, <2>1, <2>4, RecordedSteps
    <2>5. QED
      BY <2>3, <2>4
  <1>3. CASE UNCHANGED dbVars
    BY <1>3 DEF Imported, Importable, HasDevice, dbVars
  <1>4. ASSUME NEW r \in Rows, Insert(r) \/ Delete(r) PROVE Imported'
    <2>1. \E rs \in SUBSET Rows : \E op \in {"insert", "delete"} : audit' = Recorded(rs, op)
      <3>1. CASE Insert(r)
        BY <3>1 DEF Insert
      <3>2. CASE Delete(r)
        BY <1>1, <3>2 DEF Delete, RecordDeletes
      <3>3. QED
        BY <1>4, <3>1, <3>2
    <2>2. QED
      BY <1>2, <2>1
  <1>5. QED
    BY <1>3, <1>4, StatementStep DEF DbInv

LEMMA SeedNext ==
    ASSUME DbInv, SeedInv, [Next]_vars
    PROVE  SeedInv'
  <1>1. CASE Boot
    BY <1>1, ProvisionAssumption DEF Boot, SeedInv, Imported, dbVars, HasData
  <1>2. ASSUME NEW r \in Rows, Seed(r) PROVE SeedInv'
    <2>1. /\ backend = "seed" /\ UNCHANGED <<backend, cut>>
          /\ r \in toSeed /\ toSeed' = toSeed \ {r}
      BY <1>2 DEF Seed
    <2>2. toSeed \subseteq SeedRows /\ r \in SeedRows
      BY <2>1 DEF DbInv, TypeOK
    <2>3. rows \subseteq rows' /\ (~Skipped(r) => r \in rows')
      BY <1>2 DEF Seed, Insert, dbVars
    <2>4. Importable(r) => r \in rows'
      BY <1>2, <2>2, <2>3, NotSkipped
    <2>5. \A s \in SeedRows \ toSeed' : Importable(s) => s \in rows'
      BY <2>1, <2>2, <2>3, <2>4 DEF SeedInv
    <2>6. QED
      BY <2>1, <2>5 DEF SeedInv, Importable, HasDevice
  <1>3. ASSUME backend = "seed", toSeed = {} PROVE Imported
    <2>1. \A r \in SeedRows : Importable(r) => r \in rows
      BY <1>3 DEF SeedInv
    <2>2. QED
      BY <2>1, RowsRecorded DEF Imported
  <1>4. CASE Seeded
    BY <1>3, <1>4 DEF Seeded, SeedInv, Imported, dbVars
  <1>5. CASE Crash
    <2>1. /\ backend' = "down" /\ backend # "down" /\ UNCHANGED <<rows, audit>>
          /\ cut' = (cut \/ toSeed # {})
      BY <1>5 DEF Crash, dbVars
    <2>2. ASSUME ~cut' PROVE Imported
      <3>1. ~cut /\ toSeed = {} /\ backend \in {"seed", "up"}
        BY <2>1, <2>2 DEF DbInv, TypeOK
      <3>2. CASE backend = "up"
        BY <3>1, <3>2 DEF SeedInv
      <3>3. QED
        BY <1>3, <3>1, <3>2
    <2>3. ~cut' => Imported'
      BY <2>1, <2>2 DEF Imported, Importable, HasDevice
    <2>4. QED
      BY <2>1, <2>3 DEF SeedInv
  <1>6. CASE UserEdit
    <2>1. backend = "up" /\ UNCHANGED <<backend, toSeed, cut>>
      BY <1>6 DEF UserEdit, backendVars
    <2>2. QED
      BY <2>1, ImportedStays DEF SeedInv
  <1>7. CASE Fetch \/ RequestFails \/ Kill \/ UNCHANGED vars
    <2>1. UNCHANGED <<dbVars, backendVars>>
      BY <1>7 DEF Fetch, RequestFails, Kill, Start, ResolveSlug, ReadPlc, ReadInstances,
                  ReadWires, BackoffOver, Build, vars
    <2>2. QED
      BY <2>1 DEF SeedInv, Imported, HasData, dbVars, backendVars
  <1>8. QED
    BY <1>1, <1>2, <1>4, <1>5, <1>6, <1>7 DEF Next, Serve

(* Unless a seed was interrupted, a backend that serves has imported all   *)
(* that its files describe completely (seed.rs:39-43, 115-182).            *)
THEOREM SeedsAll == Spec => []SeedComplete
  <1>1. Init => SeedInv
    BY DEF Init, DbInit, SeedInv, HasData
  <1>2. DbInv /\ SeedInv /\ [Next]_vars => SeedInv'
    BY SeedNext
  <1>3. SeedInv => SeedComplete
    <2>1. ASSUME SeedInv, backend = "up", ~cut, NEW r \in SeedRows, Described(r)
          PROVE  audit[r] # <<>>
      <3>1. Imported
        BY <2>1 DEF SeedInv
      <3>2. Importable(r)
        BY <2>1, DescribedImportable
      <3>3. QED
        BY <3>1, <3>2 DEF Imported
    <2>2. QED
      BY <2>1 DEF SeedComplete
  <1>4. QED
    BY <1>1, <1>2, <1>3, DbInvHolds, PTL DEF Spec
=============================================================================
