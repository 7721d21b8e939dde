------------------------------- MODULE DataPath -------------------------------
(***************************************************************************)
(* The path of a value from the metric of one device to the inputs of      *)
(* others: polled into IngestedState, sent along the wires by the tick of  *)
(* orchestration.rs, queued and written by the connector of the PLC, and   *)
(* stored by a task of the simulator.  It composes the ends that modules   *)
(* Connector and Simulator have in detail, each by what it promises: a     *)
(* channel (PlcChannel) and a device store (JacobiStore).                  *)
(*                                                                         *)
(* Simplifications.                                                        *)
(*  - A device has one metric.  A value is the device it was computed by   *)
(*    and a number that grows with every new value and every restart.      *)
(*  - load_wires has no ORDER BY: the tick takes the wires in any order.   *)
(*  - All ports are inputs of their simulator; module Provision has the    *)
(*    ones it does not know.                                               *)
(***************************************************************************)
EXTENDS Naturals, Sequences, FiniteSets, SequencesExt

CONSTANTS
    Plcs, Devices, Ports,
    PlcOf,          \* PlcOf[d]: the PLC of device d
    IdOf,           \* IdOf[d]: the device_id, which two PLCs may both use
    Owner,          \* Owner[q]: the device that has input port q
    Tables,         \* wire tables: the device_id each port is wired to, or None
    None,           \* no wire, no value
    Manual,         \* the origin of a setpoint
    Capacity,       \* commands a connector's queue holds
    MaxTasks,       \* bound: MaxTasks[p] write tasks of one simulator at a time
    MaxStamp,       \* bound: MaxStamp[d] values of device d
    Settable,       \* bound: ports that get setpoints
    MaxSetpoints    \* bound: setpoints

Ids == {IdOf[d] : d \in Devices}

ASSUME DataPathAssumption ==
    /\ PlcOf \in [Devices -> Plcs]
    /\ DOMAIN IdOf = Devices
    /\ Owner \in [Ports -> Devices]
    /\ None \notin Ids
    /\ Tables \subseteq [Ports -> Ids \cup {None}]
    /\ Manual \notin Devices
    /\ Settable \subseteq Ports
    /\ Capacity \in Nat \ {0} /\ MaxTasks \in [Plcs -> Nat \ {0}]
    /\ MaxStamp \in [Devices -> Nat \ {0}] /\ MaxSetpoints \in Nat

VARIABLES
    pub,        \* pub[d]: number of the newest value of device d
    input,      \* input[q]: the value stored at port q
    tasks,      \* tasks[p]: writes the simulator acknowledged and has not stored
    queue,      \* queue[p]: commands that wait for the connector of p
    ingested,   \* IngestedState
    seen,       \* seen[d]: newest value a poll has read
    handles,    \* PLCs of the plant, which have a connector and a write handle
    table,      \* the shared wire table
    pc,         \* where the tick is
    wires,      \* its wires_snapshot, without those it has done
    values,     \* its ingested_snapshot
    setpoints,  \* setpoints sent so far
    \* history
    newest      \* newest[q][d]: newest value of d written to the node of q

plcVars  == <<pub, input, tasks>>
tickVars == <<pc, wires, values>>
vars == <<plcVars, queue, ingested, seen, handles, table, tickVars, setpoints, newest>>

Values == [from : Devices, stamp : Nat \ {0}] \cup [from : {Manual}, stamp : {0}]
Cmds   == [port : Ports, value : Values]

PlcAt(q) == PlcOf[Owner[q]]
NoWires  == [q \in Ports |-> None]
Nothing  == [id \in Ids |-> None]
Wired(t) == {q \in Ports : t[q] # None}

Seeded == 1

Init ==
    /\ pub = [d \in Devices |-> Seeded]
    /\ input = [q \in Ports |-> None]
    /\ tasks = [p \in Plcs |-> <<>>]
    /\ queue = [p \in Plcs |-> <<>>]
    /\ ingested = Nothing
    /\ seen = [d \in Devices |-> 0]
    /\ handles \in SUBSET Plcs
    /\ table \in Tables
    /\ pc = "sleep"
    /\ wires = NoWires
    /\ values = Nothing
    /\ setpoints = 0
    /\ newest = [q \in Ports |-> [d \in Devices |-> 0]]

-----------------------------------------------------------------------------
(* The write queues: WriteHandle::send, and the connector that drains them. *)

RoomMutant(p) == Len(queue[p]) < Capacity - 1
\* One command may wait in the hands of the connector besides those queued.
Room(p) == Len(queue[p]) <= Capacity
Full(p) == Len(queue[p]) >= Capacity

\* Never waits: a full queue drops the command.
Send(q, v) ==
    LET p == PlcAt(q) IN
    \/ Room(p) /\ queue' = [queue EXCEPT ![p] = Append(@, [port |-> q, value |-> v])]
    \/ (Full(p) \/ ~Room(p)) /\ UNCHANGED queue

\* The write callback acknowledges a command and leaves its value to a task.
Execute(p) ==
    LET c == Head(queue[p]) IN
    /\ queue[p] # <<>>
    /\ Len(tasks[p]) < MaxTasks[p]
    /\ queue' = [queue EXCEPT ![p] = Tail(@)]
    /\ tasks' = [tasks EXCEPT ![p] = Append(@, c)]
    /\ newest' = IF c.value.from = Manual THEN newest
                 ELSE [newest EXCEPT ![c.port][c.value.from] = c.value.stamp]
    /\ UNCHANGED <<pub, input, ingested, seen, handles, table, tickVars, setpoints>>

LoseMutant(p) ==
    /\ queue[p] # <<>>
    /\ queue' = [queue EXCEPT ![p] = Append(Tail(@), Head(@))]
    /\ UNCHANGED <<plcVars, ingested, seen, handles, table, tickVars, setpoints, newest>>
\* A write that fails is not retried.
Lose(p) ==
    /\ queue[p] # <<>>
    /\ queue' = [queue EXCEPT ![p] = Tail(@)]
    /\ UNCHANGED <<plcVars, ingested, seen, handles, table, tickVars, setpoints, newest>>

Setpoint(q) ==
    /\ setpoints < MaxSetpoints
    /\ PlcAt(q) \in handles
    /\ Send(q, [from |-> Manual, stamp |-> 0])
    /\ setpoints' = setpoints + 1
    /\ UNCHANGED <<plcVars, ingested, seen, handles, table, tickVars, newest>>

\* A poll merges what it read of device d under its device_id.
Observe(d, v) ==
    /\ PlcOf[d] \in handles
    /\ seen' = [seen EXCEPT ![d] = v]
    /\ ingested' = [ingested EXCEPT ![IdOf[d]] = [from |-> d, stamp |-> v]]
    /\ UNCHANGED <<plcVars, queue, handles, table, tickVars, setpoints, newest>>

CatchUp(d) == Observe(d, pub[d])

-----------------------------------------------------------------------------
(* The simulators.                                                         *)

\* Tasks wait for the lock of the state and get it in any order.
StoreTask(p, k) ==
    /\ k \in DOMAIN tasks[p]
    /\ input' = [input EXCEPT ![tasks[p][k].port] = tasks[p][k].value]
    /\ tasks' = [tasks EXCEPT ![p] = RemoveAt(@, k)]
    /\ UNCHANGED <<pub, queue, ingested, seen, handles, table, tickVars, setpoints, newest>>

\* A tick of the physics: a device runs once all its inputs have a value.
Publish(d) ==
    /\ pub[d] < MaxStamp[d]
    /\ \A q \in Ports : Owner[q] = d => input[q] # None
    /\ pub' = [pub EXCEPT ![d] = @ + 1]
    /\ UNCHANGED <<input, tasks, queue, ingested, seen, handles, table, tickVars, setpoints, newest>>

\* The seeded metrics are published anew, the inputs are gone.
RestartPlc(p) ==
    /\ \A d \in Devices : PlcOf[d] = p => pub[d] < MaxStamp[d]
    /\ pub' = [d \in Devices |-> IF PlcOf[d] = p THEN pub[d] + 1 ELSE pub[d]]
    /\ input' = [q \in Ports |-> IF PlcAt(q) = p THEN None ELSE input[q]]
    /\ tasks' = [tasks EXCEPT ![p] = <<>>]
    /\ UNCHANGED <<queue, ingested, seen, handles, table, tickVars, setpoints, newest>>

-----------------------------------------------------------------------------
(* The tick of orchestration::start.                                       *)

ToSleep == pc' = "sleep" /\ wires' = NoWires /\ values' = Nothing

TickStart ==
    /\ pc = "sleep"
    /\ wires' = table
    /\ pc' = "values"
    /\ UNCHANGED <<plcVars, queue, ingested, seen, handles, table, values, setpoints, newest>>

TickValues ==
    /\ pc = "values"
    /\ values' = ingested
    /\ pc' = "handles"
    /\ UNCHANGED <<plcVars, queue, ingested, seen, handles, table, wires, setpoints, newest>>

\* It keeps its read guard on the handles to the end of the tick.
TickHandles ==
    /\ pc = "handles"
    /\ IF wires = NoWires THEN ToSleep ELSE pc' = "send" /\ UNCHANGED <<wires, values>>
    /\ UNCHANGED <<plcVars, queue, ingested, seen, handles, table, setpoints, newest>>

\* No value yet, or no connector: the wire is skipped.
SendNext(q) ==
    /\ pc = "send"
    /\ wires[q] # None
    /\ IF values[wires[q]] # None /\ PlcAt(q) \in handles
       THEN Send(q, values[wires[q]])
       ELSE UNCHANGED queue
    /\ IF Wired(wires) = {q}
       THEN ToSleep
       ELSE wires' = [wires EXCEPT ![q] = None] /\ UNCHANGED <<pc, values>>
    /\ UNCHANGED <<plcVars, ingested, seen, handles, table, setpoints, newest>>

-----------------------------------------------------------------------------
(* The rest of the backend: the LISTEN loop and the process.               *)

Rewire(t) ==
    /\ table' = t
    /\ UNCHANGED <<plcVars, queue, ingested, seen, handles, tickVars, setpoints, newest>>

AddConnector(p) ==
    /\ p \notin handles
    /\ pc # "send"
    /\ handles' = handles \cup {p}
    /\ UNCHANGED <<plcVars, queue, ingested, seen, table, tickVars, setpoints, newest>>

\* plant::start makes the connectors before the tick is started.  A poll of the
\* new process reads after every poll of the old one.
RestartBackend(t) ==
    /\ queue' = [p \in Plcs |-> <<>>]
    /\ ingested' = Nothing
    /\ table' = t
    /\ ToSleep
    /\ UNCHANGED <<plcVars, seen, handles, setpoints, newest>>

-----------------------------------------------------------------------------
Tick == TickStart \/ TickValues \/ TickHandles \/ \E q \in Ports : SendNext(q)

Flow ==
    \/ Tick
    \/ \E p \in Plcs : Execute(p) \/ \E k \in 1..MaxTasks[p] : StoreTask(p, k)
    \/ \E d \in Devices : Publish(d) \/ \E v \in 1..pub[d] : v >= seen[d] /\ Observe(d, v)

Change ==
    \/ \E p \in Plcs : Lose(p) \/ RestartPlc(p) \/ AddConnector(p)
    \/ \E q \in Settable : Setpoint(q)
    \/ \E t \in Tables : Rewire(t) \/ RestartBackend(t)

Next == Flow \/ Change

Spec == Init /\ [][Next]_vars

\* The interval fires, the connectors drain and poll, and the lock of a
\* simulator, which queues its waiters, comes to the oldest task.
Fairness ==
    /\ WF_vars(Tick)
    /\ \A p \in Plcs : WF_vars(Execute(p)) /\ WF_vars(StoreTask(p, 1))
    /\ \A d \in Devices : WF_vars(CatchUp(d))

FairSpec == Spec /\ Fairness

-----------------------------------------------------------------------------
\* The type of every variable.
TypeOK ==
    /\ \A d \in Devices : pub[d] \in 1..MaxStamp[d]
    /\ input \in [Ports -> Values \cup {None}]
    /\ \A p \in Plcs : tasks[p] \in Seq(Cmds) /\ Len(tasks[p]) <= MaxTasks[p]
    /\ \A p \in Plcs : queue[p] \in Seq(Cmds) /\ Len(queue[p]) <= Capacity + 1
    /\ ingested \in [Ids -> Values \cup {None}]
    /\ \A d \in Devices : seen[d] \in 0..pub[d]
    /\ handles \in SUBSET Plcs
    /\ table \in Tables
    /\ pc \in {"sleep", "values", "handles", "send"}
    /\ wires \in [Ports -> Ids \cup {None}]
    /\ values \in [Ids -> Values \cup {None}]
    /\ setpoints \in 0..MaxSetpoints
    /\ \A q \in Ports, d \in Devices : newest[q][d] \in 0..MaxStamp[d]

\* Along every path a value takes - three snapshots of a tick, a swap of the
\* table, queues that drop, restarts of either end - the node of an input gets
\* values of the devices it is wired to, and never an older one of a device
\* after a newer one; what it stores is one of them or a setpoint, and a device
\* computes once all its inputs have one (orchestration.rs:30-48).
Wiring == INSTANCE LatestValue WITH
    Links <- {l \in Devices \X Ports : \E t \in Tables : t[l[2]] = IdOf[l[1]]}
ImplementsLatestValue == Wiring!Spec

-----------------------------------------------------------------------------
\* From some time on nothing is edited, lost, restarted or set by hand.
Settled == <>[][Flow]_vars

FitsQueue(t) == \A p \in Plcs : Cardinality({q \in Wired(t) : PlcAt(q) = p}) <= Capacity

\* Again and again the connector has caught up when a tick comes to send.
KeepsUp == \A p \in Plcs : []<>(pc = "handles" /\ queue[p] = <<>>)

\* The device a table feeds port q from, if no other has its device_id.
IsSource(d, q) == {e \in Devices : IdOf[e] = table[q]} = {d}

\* In the end every input has the newest value of its source and keeps it,
\* whatever was queued, acknowledged or lost before: across PLCs, along a cycle
\* of devices that wait for each other's first value, and after a rewiring that
\* left commands of the old wire behind (orchestration.rs:25-51).
EndsAtSource ==
    Settled /\ KeepsUp /\ <>[](handles = Plcs /\ FitsQueue(table)) =>
        <>[](\A d \in Devices, q \in Ports :
                IsSource(d, q) => input[q] = [from |-> d, stamp |-> pub[d]])

\* Port q has the newest value of its source, and so has every write that waits
\* to be stored there; in the queues and in the tick's hands there may be more
\* values of the source, of whatever age.
AtSource(d, q) ==
    /\ IsSource(d, q)
    /\ input[q] = [from |-> d, stamp |-> pub[d]]
    /\ wires[q] \in {None, table[q]}
    /\ \A p \in Plcs :
          /\ \A k \in DOMAIN tasks[p] :
                tasks[p][k].port = q => tasks[p][k].value = input[q]
          /\ \A k \in DOMAIN queue[p] :
                queue[p][k].port = q => queue[p][k].value.from = d

Disturbed(d, q) ==
    Setpoint(q) \/ input'[q] = None \/ pub'[d] # pub[d] \/ table'[q] # table[q]

\* An input that is at its source stays there until the source computes, the
\* input is rewired, set by hand or lost with its PLC: no command left in a
\* queue, no older snapshot of a tick and no late task takes it back, whatever
\* is lost or restarted elsewhere (orchestration.rs:30-48).
StaysAtSource ==
    [][\A d \in Devices, q \in Ports :
          AtSource(d, q) => AtSource(d, q)' \/ Disturbed(d, q)]_vars
=============================================================================
