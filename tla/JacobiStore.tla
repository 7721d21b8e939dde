----------------------------- MODULE JacobiStore -----------------------------
(***************************************************************************)
(* What a simulator promises about its device state: it changes only by    *)
(* whole writes of one input and by whole Jacobi ticks, each of which maps *)
(* the state before it to the state after it in one step.  Locks, tasks,   *)
(* snapshots and staged results are invisible here.  Module Simulator      *)
(* implements this specification.                                          *)
(***************************************************************************)
EXTENDS Naturals

CONSTANTS
    Devices,    \* the devices of the PLC
    Fields,     \* names of metrics and inputs
    Inputs,     \* Inputs[d]: the wired input ports of device d
    Outputs,    \* Outputs[d]: the fields the physics script of d assigns
    Live,       \* the devices whose type has physics_mode = Live
    Initial,    \* Initial[d][f]: the seeded value, 0 if the field is absent
    MaxValue    \* bound: values told apart

VARIABLE state

Ready(d, fields) == d \notin Live /\ \A i \in Inputs[d] : fields[i] # 0

\* A script assigns existing fields only; the new value is the next one.
Run(d, fields) ==
    [f \in Fields |->
        IF f \in Outputs[d] /\ fields[f] # 0 /\ fields[f] < MaxValue
        THEN fields[f] + 1
        ELSE fields[f]]

Init == state = Initial

Write(d, i) ==
    \E v \in 1..MaxValue : state' = [state EXCEPT ![d][i] = v]

\* The devices in `ok` are ready and their scripts succeed; all of them read
\* the state before the tick.
Tick(ok) ==
    /\ \A d \in ok : Ready(d, state[d])
    /\ state' = [d \in Devices |-> IF d \in ok THEN Run(d, state[d]) ELSE state[d]]

\* A restarted process has only the seeded values.
Restart == state' = Initial

Next ==
    \/ \E d \in Devices : \E i \in Inputs[d] : Write(d, i)
    \/ \E ok \in SUBSET Devices : Tick(ok)
    \/ Restart

Spec == Init /\ [][Next]_state
=============================================================================
