----------------------------- MODULE LatestValue -----------------------------
(***************************************************************************)
(* What wiring promises to the devices it connects: every input node is a  *)
(* register that is fed from the devices its wires name, and what it gets  *)
(* of one device never goes back.  Values may be skipped and may be late.  *)
(* What is stored at the input is one of the values it got, and a device   *)
(* computes once all its inputs have one.  PLCs, connections, queues, ticks *)
(* and the wire table's life are invisible here.  Module DataPath          *)
(* implements this specification.                                          *)
(***************************************************************************)
EXTENDS Naturals

CONSTANTS
    Devices,    \* the devices of all PLCs, each with one metric
    Ports,      \* the input ports of all devices
    Owner,      \* Owner[q]: the device that has input port q
    Links,      \* pairs <<d, q>>: device d is wired to q, now or at some time
    Settable,   \* ports that get setpoints
    Manual,     \* the origin of a setpoint
    None        \* no value

VARIABLES
    pub,        \* pub[d]: the newest value of device d, a number that grows
    newest,     \* newest[q][d]: the newest value of d written to q, 0 for none
    input       \* input[q]: the value stored at q, its origin and its number

Init ==
    /\ pub = [d \in Devices |-> 1]
    /\ newest = [q \in Ports |-> [d \in Devices |-> 0]]
    /\ input = [q \in Ports |-> None]

Compute(d) ==
    /\ \A q \in Ports : Owner[q] = d => input[q] # None
    /\ pub' = [pub EXCEPT ![d] = @ + 1]
    /\ UNCHANGED <<newest, input>>

\* The devices of one process start again, with seeds and without inputs.
Restart(S) ==
    /\ pub' = [d \in Devices |-> IF d \in S THEN pub[d] + 1 ELSE pub[d]]
    /\ input' = [q \in Ports |-> IF Owner[q] \in S THEN None ELSE input[q]]
    /\ UNCHANGED newest

Deliver(d, q) ==
    /\ \E v \in newest[q][d]..pub[d] : newest' = [newest EXCEPT ![q][d] = v]
    /\ UNCHANGED <<pub, input>>

\* The stores of two deliveries may happen in the other order.
Store(d, q) ==
    /\ \E v \in 1..newest[q][d] : input' = [input EXCEPT ![q] = [from |-> d, stamp |-> v]]
    /\ UNCHANGED <<pub, newest>>

StoreSetpoint(q) ==
    /\ input' = [input EXCEPT ![q] = [from |-> Manual, stamp |-> 0]]
    /\ UNCHANGED <<pub, newest>>

Next ==
    \/ \E d \in Devices : Compute(d)
    \/ \E S \in SUBSET Devices : Restart(S)
    \/ \E l \in Links : Deliver(l[1], l[2]) \/ Store(l[1], l[2])
    \/ \E q \in Settable : StoreSetpoint(q)

Spec == Init /\ [][Next]_<<pub, newest, input>>
=============================================================================
