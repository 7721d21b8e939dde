------------------------------ MODULE Simulator ------------------------------
(***************************************************************************)
(* One simulator process: SimulatorState behind its RwLock, the Jacobi     *)
(* tick loop, the write callbacks of the input nodes with the tasks they   *)
(* spawn, and the loop that copies the state to the OPC-UA address space.  *)
(*                                                                         *)
(* Simplifications.                                                        *)
(*  - A value is a number: 0 is "the field is absent", 1 is the seeded     *)
(*    value, a later value of an output is the next number, and the n-th   *)
(*    acknowledged write carries the value n + 1.                          *)
(*  - A physics script assigns the fields Outputs[d]; whether it fails is  *)
(*    not determined.  Counters and logs are left out.                     *)
(*  - A node both of a metric and of an input (async-opcua is external):   *)
(*    ClashWritable says whether the second add_variables takes effect.    *)
(*  - Writes come from one session, so their acknowledgements are ordered. *)
(***************************************************************************)
EXTENDS Naturals

CONSTANTS
    Devices,        \* the devices of the PLC
    Fields,         \* names of metrics and inputs
    Metrics,        \* Metrics[d]: the metrics of d's type
    Ports,          \* Ports[d]: the input ports of d's type
    Inputs,         \* Inputs[d]: the input_variables of d, its wired ports
    Outputs,        \* Outputs[d]: the fields the physics script of d assigns
    Live,           \* the devices whose type has physics_mode = Live
    ClashWritable,  \* a node that is both metric and input can be written
    MaxWrites,      \* bound: writes acknowledged by one process
    MaxValue        \* bound: values told apart (an output stops there)

ASSUME SimulatorAssumption ==
    /\ Metrics \in [Devices -> SUBSET Fields]
    /\ Ports \in [Devices -> SUBSET Fields]
    /\ Inputs \in [Devices -> SUBSET Fields]
    /\ Outputs \in [Devices -> SUBSET Fields]
    /\ Live \in SUBSET Devices
    /\ ClashWritable \in BOOLEAN
    /\ MaxWrites \in Nat
    /\ MaxValue \in Nat
    /\ MaxWrites < MaxValue

VARIABLES
    state,      \* SimulatorState.values
    lock,       \* who holds the write lock: Free, Ticking or the number of a write
    \* the tick loop
    ticking,    \* tick() is running
    ok,         \* devices whose physics ran in this tick
    staged,     \* new_states
    \* the write callbacks
    acked,      \* writes acknowledged so far
    tasks,      \* spawned tasks that have not stored their value yet
    \* the address-space loop
    snap,       \* the snapshot being published
    toPublish,  \* metric nodes the current pass has not set yet
    node,       \* values of the metric nodes
    \* history
    stored,     \* stored[d][i]: value of the write stored last, 0 if none
    ran         \* devices whose physics has run in this process

tickVars    == <<ticking, ok, staged>>
writeVars   == <<acked, tasks>>
publishVars == <<snap, toPublish, node>>
historyVars == <<stored, ran>>
vars == <<state, lock, tickVars, writeVars, publishVars, historyVars>>

Free    == 0
Ticking == MaxWrites + 1

MetricNodes == {p \in Devices \X Fields : p[2] \in Metrics[p[1]]}

Nothing == [d \in Devices |-> [f \in Fields |-> 0]]
NoFields == [f \in Fields |-> 0]

\* SimulatorState::new seeds every metric, and nothing else.
Seeded == [d \in Devices |-> [f \in Fields |-> IF f \in Metrics[d] THEN 1 ELSE 0]]

Booted ==
    /\ state' = Seeded
    /\ lock' = Free
    /\ ticking' = FALSE
    /\ ok' = {}
    /\ staged' = Nothing
    /\ acked' = 0
    /\ tasks' = {}
    /\ snap' = Seeded
    /\ toPublish' = {}
    /\ node' = Seeded
    /\ stored' = Nothing
    /\ ran' = {}

Init ==
    /\ state = Seeded
    /\ lock = Free
    /\ ticking = FALSE
    /\ ok = {}
    /\ staged = Nothing
    /\ acked = 0
    /\ tasks = {}
    /\ snap = Seeded
    /\ toPublish = {}
    /\ node = Seeded
    /\ stored = Nothing
    /\ ran = {}

-----------------------------------------------------------------------------
(* The physics tick.  The loop in main() takes the write lock, tick()      *)
(* computes every device from the snapshot and commits, the lock is        *)
(* released.                                                               *)

\* The readiness gate: every declared input has a value in the snapshot.
Ready(d, fields) == d \notin Live /\ \A i \in Inputs[d] : fields[i] # 0

RunMutant(d, fields) ==
    [f \in Fields |-> IF f \in Outputs[d] THEN fields[f] + 1 ELSE 0]
\* PhysicsEngine::run writes back existing fields only.
Run(d, fields) ==
    [f \in Fields |->
        IF f \in Outputs[d] /\ fields[f] # 0 /\ fields[f] < MaxValue
        THEN fields[f] + 1
        ELSE fields[f]]

TickLockMutant == UNCHANGED lock
\* tick_state.write().await
TickLock == lock = Free /\ lock' = Ticking

TickBegin ==
    /\ ~ticking
    /\ TickLock
    /\ ticking' = TRUE
    /\ \E failing \in SUBSET Devices :
         ok' = {d \in Devices : Ready(d, state[d])} \ failing
    /\ staged' = [d \in Devices |-> IF d \in ok' THEN Run(d, state[d]) ELSE NoFields]
    /\ UNCHANGED <<state, writeVars, publishVars, historyVars>>

TickUnlock == lock' = Free

TickCommit ==
    /\ ticking
    /\ ticking' = FALSE
    /\ state' = [d \in Devices |-> IF d \in ok THEN staged[d] ELSE state[d]]
    /\ ran' = ran \cup ok
    /\ ok' = {}
    /\ staged' = Nothing
    /\ TickUnlock
    /\ UNCHANGED <<writeVars, publishVars, stored>>

-----------------------------------------------------------------------------
(* The write callback of an input node acknowledges a write and spawns a   *)
(* task that stores it.                                                    *)

WritableMutant(d, i) == i \in Ports[d] /\ (i \in Metrics[d] => ClashWritable)
\* collect_input_specs: a node per wired input, each with a write callback.
Writable(d, i) == i \in Inputs[d] /\ (i \in Metrics[d] => ClashWritable)

Spawned(d, i) ==
    [number |-> acked + 1, device |-> d, input |-> i, step |-> "wait", copy |-> NoFields]

Acknowledge(d, i) ==
    /\ Writable(d, i)
    /\ acked < MaxWrites
    /\ acked' = acked + 1
    /\ tasks' = tasks \cup {Spawned(d, i)}
    /\ UNCHANGED <<state, lock, tickVars, publishVars, historyVars>>

TaskLockMutant(t) == UNCHANGED lock
\* state_clone.write().await
TaskLock(t) == lock = Free /\ lock' = t.number

Storing(t) ==
    [number |-> t.number, device |-> t.device, input |-> t.input,
     step |-> "store", copy |-> state[t.device]]

\* s.snapshot().get(&device).cloned()
TaskRead(t) ==
    /\ t.step = "wait"
    /\ TaskLock(t)
    /\ tasks' = (tasks \ {t}) \cup {Storing(t)}
    /\ UNCHANGED <<state, tickVars, acked, publishVars, historyVars>>

TaskUnlockMutant == UNCHANGED lock
\* The guard is dropped at the end of the task.
TaskUnlock == lock' = Free

\* fields.insert(..); s.set_device_state(..)
TaskStore(t) ==
    /\ t.step = "store"
    /\ state' = [state EXCEPT ![t.device] = [t.copy EXCEPT ![t.input] = t.number + 1]]
    /\ stored' = [stored EXCEPT ![t.device][t.input] = t.number + 1]
    /\ tasks' = tasks \ {t}
    /\ TaskUnlock
    /\ UNCHANGED <<tickVars, acked, publishVars, ran>>

-----------------------------------------------------------------------------
(* The address-space update loop: one snapshot, then one set_value per     *)
(* metric node.                                                            *)

PublishedNodesMutant == {p \in MetricNodes : p[2] \notin Inputs[p[1]]}
PublishedNodes == MetricNodes

PassBegin ==
    /\ toPublish = {}
    /\ lock = Free  \* state.read().await
    /\ snap' = state
    /\ toPublish' = PublishedNodes
    /\ UNCHANGED <<state, lock, tickVars, writeVars, node, historyVars>>

SetValue(d, f) ==
    /\ <<d, f>> \in toPublish
    /\ toPublish' = toPublish \ {<<d, f>>}
    /\ node' = [node EXCEPT ![d][f] = IF snap[d][f] # 0 THEN snap[d][f] ELSE @]
    /\ UNCHANGED <<state, lock, tickVars, writeVars, snap, historyVars>>

-----------------------------------------------------------------------------
\* The process dies and is started again: everything is in memory.
Restart == Booted

Tick == TickBegin \/ TickCommit
Publish == PassBegin \/ \E d \in Devices, f \in Fields : SetValue(d, f)

Next ==
    \/ Tick
    \/ \E d \in Devices, i \in Fields : Acknowledge(d, i)
    \/ \E t \in tasks : TaskRead(t) \/ TaskStore(t)
    \/ Publish
    \/ Restart

Spec == Init /\ [][Next]_vars

\* The three kinds of tasks are scheduled.  tokio's RwLock queues its waiters,
\* so a task that waits for the lock gets it although the tick loop keeps
\* taking it: strong fairness where a lock is acquired.
Fairness ==
    /\ WF_vars(TickCommit)
    /\ SF_vars(TickBegin)
    /\ \A n \in 1..MaxWrites : SF_vars(\E t \in tasks : t.number = n /\ TaskRead(t))
    /\ \A n \in 1..MaxWrites : WF_vars(\E t \in tasks : t.number = n /\ TaskStore(t))
    /\ SF_vars(PassBegin)
    /\ WF_vars(\E d \in Devices, f \in Fields : SetValue(d, f))

FairSpec == Spec /\ Fairness

-----------------------------------------------------------------------------
FieldValues == [Fields -> 0..MaxValue]
DeviceValues == [Devices -> FieldValues]

TaskType ==
    [number : 1..MaxWrites, device : Devices, input : Fields,
     step : {"wait", "store"}, copy : FieldValues]

\* The type of every variable; a task is about an input port of its device.
TypeOK ==
    /\ state \in DeviceValues
    /\ lock \in 0..(MaxWrites + 1)
    /\ ticking \in BOOLEAN
    /\ ok \in SUBSET Devices
    /\ staged \in DeviceValues
    /\ acked \in 0..MaxWrites
    /\ tasks \in SUBSET TaskType
    /\ \A t \in tasks : t.number <= acked /\ t.input \in Inputs[t.device]
    /\ snap \in DeviceValues
    /\ toPublish \in SUBSET MetricNodes
    /\ node \in DeviceValues
    /\ stored \in DeviceValues
    /\ ran \in SUBSET Devices

-----------------------------------------------------------------------------
(* Safety.                                                                 *)

\* A write is never lost to a tick or to another task (tick.rs:87-89 and
\* plc_server.rs:133-139 both replace ALL fields of a device): an input that no
\* script assigns has the value stored last, and before any write its seed.
NoLostInput ==
    \A d \in Devices : \A i \in Inputs[d] \ Outputs[d] :
        state[d][i] = IF stored[d][i] # 0 THEN stored[d][i] ELSE Seeded[d][i]

\* A device has the fields of its metrics and the inputs that were written,
\* whatever a script assigns: physics cannot open its own readiness gate and
\* no tick or task drops a field.
FieldsAreKnown ==
    \A d \in Devices :
        {f \in Fields : state[d][f] # 0}
            = Metrics[d] \cup {i \in Inputs[d] : stored[d][i] # 0}

\* The readiness gate over a whole run of the process: physics has run for a
\* device only if every wired input without a seed has been written.
GateHolds ==
    \A d \in ran : \A i \in Inputs[d] \ Metrics[d] : stored[d][i] # 0

\* The exclusion the write lock gives: a tick in progress and a task that has
\* copied its device are alone, and what they hold is computed from the
\* current state.
Exclusion ==
    /\ ticking <=> lock = Ticking
    /\ ok # {} => ticking
    /\ \A d \in ok : Ready(d, state[d]) /\ staged[d] = Run(d, state[d])
    /\ \A t \in tasks : t.step = "store" =>
         lock = t.number /\ t.copy = state[t.device]
    /\ \A t, u \in tasks : t.number = u.number => t = u

\* A metric node is not ahead of the snapshot being published, and that is not
\* ahead of the state, where only physics moves a field.
NodesBehind ==
    \A d \in Devices : \A f \in Metrics[d] \ Inputs[d] :
        node[d][f] <= snap[d][f] /\ snap[d][f] <= state[d][f]

\* Everything above, which every step preserves.
IndInv == TypeOK /\ Exclusion /\ FieldsAreKnown /\ NoLostInput /\ GateHolds /\ NodesBehind

\* What physics computes only advances: neither a tick nor a task puts back a
\* field that a concurrent step has replaced.
NoOutputReverts ==
    [][ \/ \A d \in Devices : \A f \in Fields \ Inputs[d] : state'[d][f] >= state[d][f]
        \/ Restart ]_vars

\* Nor does what a client polls: while the process lives, a metric node that no
\* write may change never shows an older value than before, although nodes are
\* set one by one while ticks and tasks go on (plc_server.rs:151-167).
NodesNeverBack ==
    [][ \/ \A d \in Devices : \A f \in Metrics[d] \ Inputs[d] : node'[d][f] >= node[d][f]
        \/ Restart ]_vars

Jacobi == INSTANCE JacobiStore WITH Initial <- Seeded

\* The process implements the abstract store: whole writes and whole Jacobi
\* ticks, each in one step, whatever the interleaving of loop and tasks.
ImplementsJacobi == Jacobi!Spec

-----------------------------------------------------------------------------
(* Liveness.                                                               *)

Pending(n) == \E t \in tasks : t.number = n

\* An acknowledged write is stored (or the process restarts): no schedule of
\* ticks starves a spawned task (plc_server.rs:132-140).
EveryWriteStored == \A n \in 1..MaxWrites : Pending(n) ~> ~Pending(n)

\* A metric node catches up with the state (plc_server.rs:151-167), unless the
\* state falls back, as a restart makes it.
NodesFollowState ==
    \A p \in MetricNodes : \A v \in 1..MaxValue :
        state[p[1]][p[2]] = v ~> (node[p[1]][p[2]] >= v \/ state[p[1]][p[2]] < v)
=============================================================================
