------------------------------ MODULE PlcChannel ------------------------------
(***************************************************************************)
(* What the rest of the backend may assume of the connection to one PLC:   *)
(* a lossy channel in each direction.                                      *)
(*                                                                         *)
(*   writes     Commands are executed in the order they were sent, each at *)
(*              most once.  A command is refused only when Capacity of     *)
(*              them wait; an accepted one may be lost.                    *)
(*   telemetry  The view of a field only ever moves forward, and only to   *)
(*              values the PLC has published.                              *)
(*                                                                         *)
(* Connections, sessions, browses and retries are invisible here.  Module  *)
(* Connector implements this specification.                                *)
(***************************************************************************)
EXTENDS Naturals, Sequences

CONSTANTS
    Nodes,      \* the fields a PLC may publish
    Capacity,   \* commands that may wait
    MaxCmds,    \* bound: commands ever sent
    MaxStamp    \* bound: values ever published

VARIABLES
    sent,       \* commands sent so far; a command is its position in that order
    pending,    \* commands accepted and neither executed nor lost yet
    executed,   \* commands the PLC has executed, in order
    published,  \* newest value of the PLC
    view        \* newest value seen of each field, 0 for none

channelVars == <<sent, pending, executed, published, view>>

Init ==
    /\ sent = 0
    /\ pending = <<>>
    /\ executed = <<>>
    /\ published = 1
    /\ view = [n \in Nodes |-> 0]

Accept ==
    /\ sent < MaxCmds
    /\ Len(pending) <= Capacity
    /\ sent' = sent + 1
    /\ pending' = Append(pending, sent')
    /\ UNCHANGED <<executed, published, view>>

Refuse ==
    /\ sent < MaxCmds
    /\ Len(pending) >= Capacity
    /\ sent' = sent + 1
    /\ UNCHANGED <<pending, executed, published, view>>

Execute ==
    /\ pending # <<>>
    /\ executed' = Append(executed, Head(pending))
    /\ pending' = Tail(pending)
    /\ UNCHANGED <<sent, published, view>>

Lose ==
    /\ pending # <<>>
    /\ pending' = Tail(pending)
    /\ UNCHANGED <<sent, executed, published, view>>

Publish ==
    /\ published < MaxStamp
    /\ published' = published + 1
    /\ UNCHANGED <<sent, pending, executed, view>>

\* Some fields catch up, each with a value between what was seen and the newest.
Observe ==
    /\ view' \in [Nodes -> 0..published]
    /\ \A n \in Nodes : view[n] <= view'[n]
    /\ UNCHANGED <<sent, pending, executed, published>>

Next == Accept \/ Refuse \/ Execute \/ Lose \/ Publish \/ Observe

Spec == Init /\ [][Next]_channelVars
=============================================================================
