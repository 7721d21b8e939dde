--------------------------- MODULE SimulatorProofs ---------------------------
(***************************************************************************)
(* The safety properties of Simulator for every plant and every bound.     *)
(* The heart is Exclusion: under it a tick commit and a task's store act   *)
(* on the current state (CommitEffect, StoreEffect), and every other       *)
(* property follows from these two facts.                                  *)
(***************************************************************************)
EXTENDS Simulator, TLAPS

\* The seeded state has the type of the state.
LEMMA SeededType == Seeded \in DeviceValues /\ Nothing \in DeviceValues /\ NoFields \in FieldValues
  BY SimulatorAssumption DEF Seeded, Nothing, NoFields, DeviceValues, FieldValues

\* Physics maps fields to fields.
LEMMA RunType ==
    ASSUME NEW d \in Devices, NEW fields \in FieldValues
    PROVE  Run(d, fields) \in FieldValues
  BY SimulatorAssumption DEF Run, FieldValues

\* TypeOK holds initially.
LEMMA TypeInit == Init => TypeOK
<1> SUFFICES ASSUME Init PROVE TypeOK
  OBVIOUS
<1>1. lock \in 0..(MaxWrites + 1) /\ acked \in 0..MaxWrites
  BY SimulatorAssumption DEF Init, Free
<1>2. QED
  BY <1>1, SeededType DEF Init, TypeOK

\* A restarted process has the type of a new one.
LEMMA TypeRestart == Restart => TypeOK'
<1> SUFFICES ASSUME Restart PROVE TypeOK'
  OBVIOUS
<1>1. lock' \in 0..(MaxWrites + 1) /\ acked' \in 0..MaxWrites
  BY SimulatorAssumption DEF Restart, Booted, Free
<1>2. QED
  BY <1>1, SeededType DEF Restart, Booted, TypeOK

\* Every step preserves TypeOK.
LEMMA TypeStep == TypeOK /\ [Next]_vars => TypeOK'
<1> SUFFICES ASSUME TypeOK, [Next]_vars PROVE TypeOK'
  OBVIOUS
<1> USE SimulatorAssumption
<1>1. CASE TickBegin
  <2>1. lock' = Ticking /\ lock' \in 0..(MaxWrites + 1)
    BY <1>1 DEF TickBegin, TickLock, Ticking
  <2>2. ok' \in SUBSET Devices
    BY <1>1 DEF TickBegin
  <2>3. staged' \in DeviceValues
    <3>1. ASSUME NEW d \in Devices
          PROVE  (IF d \in ok' THEN Run(d, state[d]) ELSE NoFields) \in FieldValues
      BY RunType, SeededType DEF TypeOK, DeviceValues
    <3>2. QED BY <3>1, <1>1 DEF TickBegin, DeviceValues
  <2>4. QED
    BY <2>1, <2>2, <2>3, <1>1
    DEF TickBegin, TypeOK, writeVars, publishVars, historyVars
<1>2. CASE TickCommit
  <2>1. state' \in DeviceValues
    BY <1>2 DEF TickCommit, TypeOK, DeviceValues
  <2>2. ran' \in SUBSET Devices
    BY <1>2 DEF TickCommit, TypeOK
  <2>3. lock' \in 0..(MaxWrites + 1) /\ staged' \in DeviceValues
    BY <1>2, SeededType DEF TickCommit, TickUnlock, Free
  <2>4. QED
    BY <2>1, <2>2, <2>3, <1>2 DEF TickCommit, TypeOK, writeVars, publishVars
<1>3. ASSUME NEW d \in Devices, NEW i \in Fields, Acknowledge(d, i) PROVE TypeOK'
  <2>1. acked' = acked + 1 /\ acked' \in 0..MaxWrites
    BY <1>3 DEF Acknowledge, TypeOK
  <2>2. i \in Inputs[d]
    BY <1>3 DEF Acknowledge, Writable
  <2>3. Spawned(d, i) \in TaskType
    BY <2>1, SeededType DEF Spawned, TaskType, TypeOK
  <2>4. tasks' \in SUBSET TaskType
    BY <2>3, <1>3 DEF Acknowledge, TypeOK
  <2>5. \A t \in tasks' : t.number <= acked' /\ t.input \in Inputs'[t.device]
    <3>1. ASSUME NEW t \in tasks PROVE t.number <= acked' /\ t.input \in Inputs[t.device]
      BY <2>1 DEF TypeOK, TaskType
    <3>2. Spawned(d, i).number <= acked' /\ Spawned(d, i).input \in Inputs[Spawned(d, i).device]
      BY <2>1, <2>2 DEF Spawned, TypeOK
    <3>3. QED BY <3>1, <3>2, <1>3 DEF Acknowledge
  <2>6. QED
    BY <2>1, <2>4, <2>5, <1>3 DEF Acknowledge, TypeOK, tickVars, publishVars, historyVars
<1>4. ASSUME NEW t \in tasks, TaskRead(t) PROVE TypeOK'
  <2> DEFINE u == Storing(t)
  <2>1. t \in TaskType
    BY DEF TypeOK
  <2>2. u \in TaskType /\ u.number = t.number /\ u.device = t.device /\ u.input = t.input
    BY <2>1 DEF TaskType, TypeOK, DeviceValues, Storing
  <2>3. tasks' = (tasks \ {t}) \cup {u}
    BY <1>4 DEF TaskRead
  <2>4. lock' \in 0..(MaxWrites + 1)
    BY <1>4, <2>1 DEF TaskRead, TaskLock, TaskType
  <2>5. acked' = acked
    BY <1>4 DEF TaskRead
  <2>6. tasks' \in SUBSET TaskType
    BY <2>2, <2>3 DEF TypeOK
  <2>7. \A v \in tasks' : v.number <= acked' /\ v.input \in Inputs[v.device]
    BY <2>2, <2>3, <2>5 DEF TypeOK
  <2>8. QED
    BY <2>4, <2>5, <2>6, <2>7, <1>4
    DEF TaskRead, TypeOK, tickVars, publishVars, historyVars
<1>5. ASSUME NEW t \in tasks, TaskStore(t) PROVE TypeOK'
  <2>1. t \in TaskType /\ t.number + 1 \in 0..MaxValue
    BY DEF TypeOK, TaskType
  <2>2. [t.copy EXCEPT ![t.input] = t.number + 1] \in FieldValues
    BY <2>1 DEF TaskType, FieldValues
  <2>3. state' \in DeviceValues
    BY <2>1, <2>2, <1>5 DEF TaskStore, TypeOK, DeviceValues, TaskType
  <2>4. stored' \in DeviceValues
    BY <2>1, <1>5 DEF TaskStore, TypeOK, DeviceValues, FieldValues, TaskType
  <2>5. QED
    BY <2>3, <2>4, <1>5
    DEF TaskStore, TaskUnlock, Free, TypeOK, tickVars, publishVars
<1>6. CASE PassBegin
  BY <1>6 DEF PassBegin, PublishedNodes, TypeOK, tickVars, writeVars, historyVars
<1>7. ASSUME NEW d \in Devices, NEW f \in Fields, SetValue(d, f) PROVE TypeOK'
  <2>1. node' \in DeviceValues
    BY <1>7 DEF SetValue, TypeOK, DeviceValues, FieldValues
  <2>2. QED
    BY <2>1, <1>7 DEF SetValue, TypeOK, tickVars, writeVars, historyVars
<1>8. CASE Restart
  BY <1>8, TypeRestart
<1>9. CASE UNCHANGED vars
  BY <1>9 DEF vars, tickVars, writeVars, publishVars, historyVars, TypeOK
<1>10. QED
  BY <1>1, <1>2, <1>3, <1>4, <1>5, <1>6, <1>7, <1>8, <1>9 DEF Next, Tick, Publish

\* Every variable of a simulator process always has its type, for every plant.
THEOREM TypeCorrect == Spec => []TypeOK
  BY TypeInit, TypeStep, PTL DEF Spec

-----------------------------------------------------------------------------
(* The exclusion the lock gives.                                           *)

\* Nothing is in progress initially.
LEMMA ExclusionInit == Init => Exclusion
  BY SimulatorAssumption DEF Init, Exclusion, Ticking, Free

\* Every step preserves Exclusion.
LEMMA ExclusionStep == TypeOK /\ TypeOK' /\ Exclusion /\ [Next]_vars => Exclusion'
<1> SUFFICES ASSUME TypeOK, TypeOK', Exclusion, [Next]_vars PROVE Exclusion'
  OBVIOUS
<1> USE SimulatorAssumption
<1>0. \A t \in tasks : t.number \in 1..MaxWrites /\ t.number # Free /\ t.number # Ticking
  BY DEF TypeOK, TaskType, Free, Ticking
<1>1. CASE TickBegin
  <2>1. /\ lock = Free /\ lock' = Ticking /\ ticking' /\ ~ticking
        /\ state' = state /\ tasks' = tasks
    BY <1>1 DEF TickBegin, TickLock, writeVars
  <2>2. \A t \in tasks : t.step # "store"
    BY <2>1, <1>0 DEF Exclusion
  <2>3. ASSUME NEW d \in ok'
        PROVE  Ready(d, state[d]) /\ staged'[d] = Run(d, state[d])
    <3>1. d \in Devices /\ Ready(d, state[d])
      BY <1>1 DEF TickBegin
    <3>2. QED BY <3>1, <1>1 DEF TickBegin
  <2>4. QED
    BY <2>1, <2>2, <2>3 DEF Exclusion, Ready, Run
<1>2. CASE TickCommit
  <2>1. lock = Ticking
    BY <1>2 DEF TickCommit, Exclusion
  <2>2. \A t \in tasks : t.step # "store"
    BY <2>1, <1>0 DEF Exclusion
  <2>3. lock' = Free /\ Free # Ticking /\ ~ticking' /\ ok' = {} /\ tasks' = tasks
    BY <1>2 DEF TickCommit, TickUnlock, writeVars, Free, Ticking
  <2>4. QED
    BY <2>2, <2>3 DEF Exclusion
<1>3. ASSUME NEW d \in Devices, NEW i \in Fields, Acknowledge(d, i) PROVE Exclusion'
  <2>1. /\ state' = state /\ lock' = lock /\ ticking' = ticking
        /\ ok' = ok /\ staged' = staged
        /\ tasks' = tasks \cup {Spawned(d, i)}
    BY <1>3 DEF Acknowledge, tickVars
  <2>2. Spawned(d, i).step = "wait" /\ Spawned(d, i).number = acked + 1
    BY DEF Spawned
  <2>3. \A t \in tasks : t.number # acked + 1
    BY DEF TypeOK, TaskType
  <2>4. \A t, u \in tasks' : t.number = u.number => t = u
    BY <2>1, <2>2, <2>3 DEF Exclusion
  <2>5. \A t \in tasks' : t.step = "store" => lock' = t.number /\ t.copy = state'[t.device]
    BY <2>1, <2>2 DEF Exclusion
  <2>6. QED
    BY <2>1, <2>4, <2>5 DEF Exclusion, Ready, Run
<1>4. ASSUME NEW t \in tasks, TaskRead(t) PROVE Exclusion'
  <2>1. /\ state' = state /\ lock = Free /\ lock' = t.number
        /\ ticking' = ticking /\ ok' = ok /\ staged' = staged
        /\ tasks' = (tasks \ {t}) \cup {Storing(t)}
    BY <1>4 DEF TaskRead, TaskLock, tickVars
  <2>2. ~ticking /\ ok = {} /\ lock' # Ticking
    BY <2>1, <1>0 DEF Exclusion, Free, Ticking
  <2>3. \A u \in tasks : u.step # "store"
    BY <2>1, <1>0 DEF Exclusion
  <2>4. Storing(t).number = t.number /\ Storing(t).copy = state[Storing(t).device]
    BY DEF Storing
  <2>5. \A u \in tasks' : u.step = "store" => lock' = u.number /\ u.copy = state'[u.device]
    BY <2>1, <2>3, <2>4
  <2>6. \A u, v \in tasks' : u.number = v.number => u = v
    BY <2>1, <2>4 DEF Exclusion
  <2>7. QED
    BY <2>1, <2>2, <2>5, <2>6 DEF Exclusion
<1>5. ASSUME NEW t \in tasks, TaskStore(t) PROVE Exclusion'
  <2>1. /\ t.step = "store" /\ lock' = Free /\ tasks' = tasks \ {t}
        /\ ticking' = ticking /\ ok' = ok /\ staged' = staged
    BY <1>5 DEF TaskStore, TaskUnlock, tickVars
  <2>2. lock = t.number /\ ~ticking /\ ok = {}
    BY <2>1, <1>0 DEF Exclusion
  <2>3. \A u \in tasks' : u.step # "store"
    BY <2>1, <2>2 DEF Exclusion
  <2>4. Free # Ticking
    BY DEF Free, Ticking
  <2>5. QED
    BY <2>1, <2>2, <2>3, <2>4 DEF Exclusion
<1>6. CASE PassBegin
  BY <1>6 DEF PassBegin, Exclusion, tickVars, writeVars, Ready, Run
<1>7. ASSUME NEW d \in Devices, NEW f \in Fields, SetValue(d, f) PROVE Exclusion'
  BY <1>7 DEF SetValue, Exclusion, tickVars, writeVars, Ready, Run
<1>8. CASE Restart
  BY <1>8 DEF Restart, Booted, Exclusion, Free, Ticking
<1>9. CASE UNCHANGED vars
  BY <1>9 DEF vars, tickVars, writeVars, Exclusion, Ready, Run
<1>10. QED
  BY <1>1, <1>2, <1>3, <1>4, <1>5, <1>6, <1>7, <1>8, <1>9 DEF Next, Tick, Publish

-----------------------------------------------------------------------------
(* What the two steps that write the state do to it.                       *)

\* A commit is the Jacobi function of the state it finds.
LEMMA CommitEffect ==
    ASSUME TypeOK, Exclusion, TickCommit
    PROVE  /\ state' = [d \in Devices |-> IF d \in ok THEN Run(d, state[d]) ELSE state[d]]
           /\ \A d \in ok : Ready(d, state[d])
           /\ stored' = stored /\ ran' = ran \cup ok
<1>1. \A d \in ok : staged[d] = Run(d, state[d]) /\ Ready(d, state[d])
  BY DEF Exclusion
<1>2. QED
  BY <1>1 DEF TickCommit

\* A task's store changes one input of one device of the state it finds.
LEMMA StoreEffect ==
    ASSUME TypeOK, Exclusion, NEW t \in tasks, TaskStore(t)
    PROVE  /\ t.device \in Devices /\ t.input \in Inputs[t.device] /\ t.input \in Fields
           /\ t.number + 1 \in 2..MaxValue
           /\ state' = [state EXCEPT ![t.device] =
                          [state[t.device] EXCEPT ![t.input] = t.number + 1]]
           /\ stored' = [stored EXCEPT ![t.device] =
                          [stored[t.device] EXCEPT ![t.input] = t.number + 1]]
           /\ ran' = ran
<1>1. t \in TaskType /\ t.input \in Inputs[t.device]
  BY DEF TypeOK
<1>2. t.device \in Devices /\ t.input \in Fields /\ t.number + 1 \in 2..MaxValue
  BY <1>1, SimulatorAssumption DEF TaskType
<1>3. t.copy = state[t.device]
  BY DEF TaskStore, Exclusion
<1>4. QED
  BY <1>1, <1>2, <1>3 DEF TaskStore

\* Every other step but Restart leaves the state and its history alone.
LEMMA QuietSteps ==
    ASSUME [Next]_vars
    PROVE  \/ TickCommit
           \/ \E t \in tasks : TaskStore(t)
           \/ Restart
           \/ UNCHANGED <<state, stored, ran>>
  BY DEF Next, Tick, Publish, TickBegin, Acknowledge, TaskRead, PassBegin, SetValue,
         vars, publishVars, historyVars

-----------------------------------------------------------------------------
(* What the fields of a device are.  FieldsAreKnown, NoLostInput and       *)
(* GateHolds are proved together: the gate needs the fields.               *)

DataInv == FieldsAreKnown /\ NoLostInput /\ GateHolds

\* A new process has the seeded fields and no history.
LEMMA DataInit == Init => DataInv
<1> SUFFICES ASSUME Init PROVE DataInv
  OBVIOUS
<1>1. FieldsAreKnown
  <2>1. ASSUME NEW d \in Devices
        PROVE  {f \in Fields : state[d][f] # 0}
                 = Metrics[d] \cup {i \in Inputs[d] : stored[d][i] # 0}
    <3>1. Metrics[d] \in SUBSET Fields /\ Inputs[d] \in SUBSET Fields
      BY SimulatorAssumption
    <3>2. \A f \in Fields : state[d][f] = (IF f \in Metrics[d] THEN 1 ELSE 0) /\ stored[d][f] = 0
      BY DEF Init, Seeded, Nothing
    <3>3. QED BY <3>1, <3>2
  <2>2. QED BY <2>1 DEF FieldsAreKnown
<1>2. NoLostInput
  BY SimulatorAssumption DEF Init, NoLostInput, Nothing
<1>3. QED
  BY <1>1, <1>2 DEF Init, GateHolds, DataInv

\* So has a restarted one.
LEMMA DataRestart == Restart => DataInv'
<1> SUFFICES ASSUME Restart PROVE DataInv'
  OBVIOUS
<1>1. FieldsAreKnown'
  BY SimulatorAssumption DEF Restart, Booted, FieldsAreKnown, Seeded, Nothing
<1>2. NoLostInput'
  BY SimulatorAssumption DEF Restart, Booted, NoLostInput, Nothing, Seeded
<1>3. QED
  BY <1>1, <1>2 DEF Restart, Booted, GateHolds, DataInv

\* Every step preserves what the fields are.
LEMMA DataStep == TypeOK /\ Exclusion /\ DataInv /\ [Next]_vars => DataInv'
<1> SUFFICES ASSUME TypeOK, Exclusion, DataInv, [Next]_vars PROVE DataInv'
  OBVIOUS
<1> USE SimulatorAssumption DEF DataInv
<1>0. \A d \in Devices : /\ Inputs[d] \in SUBSET Fields /\ Outputs[d] \in SUBSET Fields
                         /\ state[d] \in FieldValues /\ stored[d] \in FieldValues
  BY DEF TypeOK, DeviceValues
<1>1. CASE TickCommit
  <2> DEFINE new(d) == IF d \in ok THEN Run(d, state[d]) ELSE state[d]
  <2>1. /\ state' = [d \in Devices |-> new(d)]
        /\ \A d \in ok : Ready(d, state[d])
        /\ stored' = stored /\ ran' = ran \cup ok
    BY <1>1, CommitEffect
  <2>2. ASSUME NEW d \in Devices, NEW f \in Fields
        PROVE  /\ state'[d][f] # 0 <=> state[d][f] # 0
               /\ f \notin Outputs[d] => state'[d][f] = state[d][f]
    <3>1. state[d][f] \in Nat
      BY <1>0 DEF FieldValues
    <3>2. state'[d] = new(d)
      BY <2>1
    <3>3. CASE d \in ok
      BY <3>1, <3>2, <3>3 DEF Run
    <3>4. CASE d \notin ok
      BY <3>2, <3>4
    <3>5. QED BY <3>3, <3>4
  <2>3. FieldsAreKnown'
    BY <2>1, <2>2 DEF FieldsAreKnown
  <2>4. NoLostInput'
    BY <2>1, <2>2, <1>0 DEF NoLostInput
  <2>5. GateHolds'
    <3>1. ASSUME NEW d \in ok, NEW i \in Inputs[d] \ Metrics[d] PROVE stored[d][i] # 0
      <4>1. d \in Devices
        BY DEF TypeOK
      <4>2. state[d][i] # 0 /\ i \in Fields
        BY <2>1, <4>1, <1>0 DEF Ready
      <4>3. QED BY <4>1, <4>2 DEF FieldsAreKnown
    <3>2. QED BY <3>1, <2>1 DEF GateHolds
  <2>6. QED BY <2>3, <2>4, <2>5
<1>2. ASSUME NEW t \in tasks, TaskStore(t) PROVE DataInv'
  <2> DEFINE e == t.device
             j == t.input
             n == t.number + 1
  <2>1. /\ e \in Devices /\ j \in Inputs[e] /\ j \in Fields /\ n # 0
        /\ state' = [state EXCEPT ![e] = [state[e] EXCEPT ![j] = n]]
        /\ stored' = [stored EXCEPT ![e] = [stored[e] EXCEPT ![j] = n]]
        /\ ran' = ran
    BY <1>2, StoreEffect
  <2> HIDE DEF e, j, n
  <2>2. ASSUME NEW d \in Devices, NEW f \in Fields
        PROVE  /\ state'[d][f] = IF d = e /\ f = j THEN n ELSE state[d][f]
               /\ stored'[d][f] = IF d = e /\ f = j THEN n ELSE stored[d][f]
    BY <2>1, <1>0 DEF TypeOK, DeviceValues, FieldValues
  <2>3. FieldsAreKnown'
    <3>1. ASSUME NEW d \in Devices, NEW f \in Fields
          PROVE  state'[d][f] # 0 <=> f \in Metrics[d] \/ (f \in Inputs[d] /\ stored'[d][f] # 0)
      BY <2>1, <2>2 DEF FieldsAreKnown
    <3>2. \A d \in Devices : Metrics[d] \in SUBSET Fields /\ Inputs[d] \in SUBSET Fields
      OBVIOUS
    <3>3. QED BY <3>1, <3>2 DEF FieldsAreKnown
  <2>4. NoLostInput'
    BY <2>1, <2>2, <1>0 DEF NoLostInput
  <2>5. GateHolds'
    <3>1. \A d \in ran : d \in Devices
      BY DEF TypeOK
    <3>2. QED BY <2>1, <2>2, <3>1, <1>0 DEF GateHolds
  <2>6. QED BY <2>3, <2>4, <2>5
<1>3. CASE Restart
  BY <1>3, DataRestart
<1>4. CASE UNCHANGED <<state, stored, ran>>
  BY <1>4 DEF FieldsAreKnown, NoLostInput, GateHolds
<1>5. QED
  BY <1>1, <1>2, <1>3, <1>4, QuietSteps

-----------------------------------------------------------------------------
(* The action property and the refinement.                                 *)

\* No step but Restart lowers a field that is not an input.
LEMMA OutputStep ==
    ASSUME TypeOK, Exclusion, [Next]_vars
    PROVE  \/ \A d \in Devices : \A f \in Fields \ Inputs[d] : state'[d][f] >= state[d][f]
           \/ Restart
<1> USE SimulatorAssumption
<1>0. ASSUME NEW d \in Devices, NEW f \in Fields
      PROVE  state[d][f] \in Nat
  BY DEF TypeOK, DeviceValues, FieldValues
<1>1. CASE TickCommit
  <2>1. state' = [d \in Devices |-> IF d \in ok THEN Run(d, state[d]) ELSE state[d]]
    BY <1>1, CommitEffect
  <2>2. ASSUME NEW d \in Devices, NEW f \in Fields \ Inputs[d]
        PROVE  state'[d][f] >= state[d][f]
    <3>1. state[d][f] \in Nat
      BY <1>0
    <3>2. CASE d \in ok
      <4>1. state'[d] = Run(d, state[d])
        BY <2>1, <3>2
      <4>2. QED BY <4>1, <3>1 DEF Run
    <3>3. CASE d \notin ok
      BY <2>1, <3>1, <3>3
    <3>4. QED BY <3>2, <3>3
  <2>3. QED BY <2>2
<1>2. ASSUME NEW t \in tasks, TaskStore(t)
      PROVE  \A d \in Devices : \A f \in Fields \ Inputs[d] : state'[d][f] >= state[d][f]
  <2>1. /\ t.device \in Devices /\ t.input \in Inputs[t.device]
        /\ state' = [state EXCEPT ![t.device] = [state[t.device] EXCEPT ![t.input] = t.number + 1]]
    BY <1>2, StoreEffect
  <2>2. ASSUME NEW d \in Devices, NEW f \in Fields \ Inputs[d]
        PROVE  state'[d][f] = state[d][f] /\ state[d][f] \in Nat
    BY <2>1, <1>0 DEF TypeOK, DeviceValues, FieldValues
  <2>3. QED BY <2>2
<1>3. CASE UNCHANGED <<state, stored, ran>>
  BY <1>0, <1>3
<1>4. QED
  BY <1>1, <1>2, <1>3, QuietSteps

\* Nodes follow the snapshot and the snapshot the state, from the first state on.
LEMMA NodesInit == Init => NodesBehind
  BY SimulatorAssumption DEF Init, NodesBehind, Seeded

\* What the publisher does to one field of one device.
LEMMA NodesStep ==
    ASSUME TypeOK, Exclusion, NodesBehind, [Next]_vars
    PROVE  /\ NodesBehind'
           /\ \/ \A d \in Devices : \A f \in Metrics[d] \ Inputs[d] : node'[d][f] >= node[d][f]
              \/ Restart
<1> USE SimulatorAssumption
<1>0. ASSUME NEW d \in Devices, NEW f \in Fields
      PROVE  node[d][f] \in Nat /\ snap[d][f] \in Nat /\ state[d][f] \in Nat
  BY DEF TypeOK, DeviceValues, FieldValues
<1>1. CASE Restart
  <2>1. state' = Seeded /\ snap' = Seeded /\ node' = Seeded
    BY <1>1 DEF Restart, Booted
  <2>2. \A d \in Devices : \A f \in Metrics[d] : Seeded[d][f] = 1
    BY DEF Seeded
  <2>3. QED BY <1>1, <2>1, <2>2 DEF NodesBehind
<1>2. CASE PassBegin
  <2>1. snap' = state /\ state' = state /\ node' = node
    BY <1>2 DEF PassBegin
  <2>2. ASSUME NEW d \in Devices, NEW f \in Metrics[d] \ Inputs[d]
        PROVE  node[d][f] <= state[d][f] /\ state[d][f] <= state[d][f] /\ node[d][f] >= node[d][f]
    BY <1>0 DEF NodesBehind
  <2>3. QED BY <2>1, <2>2 DEF NodesBehind
<1>3. ASSUME NEW e \in Devices, NEW g \in Fields, SetValue(e, g)
      PROVE  /\ NodesBehind'
             /\ \A d \in Devices : \A f \in Metrics[d] \ Inputs[d] : node'[d][f] >= node[d][f]
  <2>1. snap' = snap /\ state' = state
    BY <1>3 DEF SetValue
  <2>2. ASSUME NEW d \in Devices, NEW f \in Fields
        PROVE  node'[d][f] \in {node[d][f], snap[d][f]}
    BY <1>3 DEF SetValue, TypeOK, DeviceValues, FieldValues
  <2>3. ASSUME NEW d \in Devices, NEW f \in Metrics[d] \ Inputs[d]
        PROVE  /\ node'[d][f] <= snap[d][f] /\ snap[d][f] <= state[d][f]
               /\ node'[d][f] >= node[d][f]
    <3>1. f \in Fields /\ node[d][f] <= snap[d][f] /\ snap[d][f] <= state[d][f]
      BY DEF NodesBehind
    <3>2. QED BY <1>0, <2>2, <3>1
  <2>4. QED BY <2>1, <2>3 DEF NodesBehind
<1>4. CASE UNCHANGED <<snap, node>> /\ ~Restart
  <2>1. ASSUME NEW d \in Devices, NEW f \in Metrics[d] \ Inputs[d]
        PROVE  /\ node[d][f] <= snap[d][f] /\ snap[d][f] <= state'[d][f]
               /\ node[d][f] >= node[d][f]
    <3>1. f \in Fields /\ node[d][f] <= snap[d][f] /\ snap[d][f] <= state[d][f]
      BY DEF NodesBehind
    <3>2. state'[d][f] >= state[d][f] /\ f \in Fields
      BY <1>4, <3>1, OutputStep
    <3>3. state'[d][f] \in Nat
      BY <3>2, TypeStep DEF TypeOK, DeviceValues, FieldValues
    <3>4. QED BY <1>0, <3>1, <3>2, <3>3
  <2>2. QED BY <1>4, <2>1 DEF NodesBehind
<1>5. \/ Restart \/ PassBegin \/ UNCHANGED <<snap, node>>
      \/ \E d \in Devices, f \in Fields : SetValue(d, f)
  BY DEF Next, Tick, Publish, TickBegin, TickCommit, Acknowledge, TaskRead, TaskStore,
         vars, publishVars
<1>6. QED
  BY <1>1, <1>2, <1>3, <1>4, <1>5

\* A step of the simulator is a step of the abstract store, or none.
LEMMA JacobiStep ==
    ASSUME TypeOK, Exclusion, [Next]_vars
    PROVE  [Jacobi!Next]_state
<1> USE SimulatorAssumption
<1>1. CASE TickCommit
  <2>1. /\ state' = [d \in Devices |-> IF d \in ok THEN Run(d, state[d]) ELSE state[d]]
        /\ \A d \in ok : Ready(d, state[d])
    BY <1>1, CommitEffect
  <2>2. ok \in SUBSET Devices
    BY DEF TypeOK
  <2>3. Jacobi!Tick(ok)
    BY <2>1 DEF Jacobi!Tick, Jacobi!Ready, Jacobi!Run, Ready, Run
  <2>4. QED BY <2>2, <2>3 DEF Jacobi!Next
<1>2. ASSUME NEW t \in tasks, TaskStore(t) PROVE Jacobi!Next
  <2>1. /\ t.device \in Devices /\ t.input \in Inputs[t.device]
        /\ t.number + 1 \in 2..MaxValue
        /\ state' = [state EXCEPT ![t.device] = [state[t.device] EXCEPT ![t.input] = t.number + 1]]
    BY <1>2, StoreEffect
  <2>2. t.number + 1 \in 1..MaxValue
    BY <2>1
  <2>3. Jacobi!Write(t.device, t.input)
    BY <2>1, <2>2 DEF Jacobi!Write
  <2>4. QED BY <2>1, <2>3 DEF Jacobi!Next
<1>3. CASE Restart
  BY <1>3 DEF Restart, Booted, Jacobi!Next, Jacobi!Restart
<1>4. QED
  BY <1>1, <1>2, <1>3, QuietSteps

-----------------------------------------------------------------------------
(* The theorems.                                                           *)

\* The inductive invariant holds in every reachable state.
THEOREM Inductive == Spec => []IndInv
<1>1. Init => IndInv
  BY TypeInit, ExclusionInit, DataInit, NodesInit DEF IndInv, DataInv
<1>2. IndInv /\ [Next]_vars => IndInv'
  BY TypeStep, ExclusionStep, DataStep, NodesStep DEF IndInv, DataInv
<1>3. QED
  BY <1>1, <1>2, PTL DEF Spec

\* No write is lost to a concurrent tick or to another write, although both
\* replace all fields of a device.
THEOREM NoLostInputCorrect == Spec => []NoLostInput
<1>1. IndInv => NoLostInput
  BY DEF IndInv
<1>2. QED
  BY <1>1, Inductive, PTL

\* Physics never adds or drops a field.
THEOREM FieldsCorrect == Spec => []FieldsAreKnown
<1>1. IndInv => FieldsAreKnown
  BY DEF IndInv
<1>2. QED
  BY <1>1, Inductive, PTL

\* Physics has run only for devices whose unseeded wired inputs were written.
THEOREM GateCorrect == Spec => []GateHolds
<1>1. IndInv => GateHolds
  BY DEF IndInv
<1>2. QED
  BY <1>1, Inductive, PTL

\* Computed outputs only advance while the process lives.
THEOREM OutputsCorrect == Spec => NoOutputReverts
<1>1. IndInv /\ [Next]_vars =>
        [ \/ \A d \in Devices : \A f \in Fields \ Inputs[d] : state'[d][f] >= state[d][f]
          \/ Restart ]_vars
  BY OutputStep DEF IndInv
<1>2. QED
  BY <1>1, Inductive, PTL DEF Spec, NoOutputReverts

\* What a client polls of a metric only advances while the process lives.
THEOREM NodesCorrect == Spec => NodesNeverBack
<1>1. IndInv /\ [Next]_vars =>
        [ \/ \A d \in Devices : \A f \in Metrics[d] \ Inputs[d] : node'[d][f] >= node[d][f]
          \/ Restart ]_vars
  BY NodesStep DEF IndInv
<1>2. QED
  BY <1>1, Inductive, PTL DEF Spec, NodesNeverBack

\* The simulator implements the abstract Jacobi store.
THEOREM Refinement == Spec => ImplementsJacobi
<1>1. Init => Jacobi!Init
  BY DEF Init, Jacobi!Init
<1>2. IndInv /\ [Next]_vars => [Jacobi!Next]_state
  BY JacobiStep DEF IndInv
<1>3. QED
  BY <1>1, <1>2, Inductive, PTL DEF Spec, ImplementsJacobi, Jacobi!Spec

=============================================================================
