---------------------------- MODULE DataPathProofs ----------------------------
(***************************************************************************)
(* Proofs about DataPath: types, and that values reach every input in the  *)
(* order in which their device computed them, whatever is lost, rewired or *)
(* restarted on their way.                                                 *)
(***************************************************************************)
EXTENDS DataPath, SequenceTheorems, TLAPS

(* Values and commands.                                                    *)
LEMMA ValueFacts ==
    /\ \A v \in Values : v.from \in Devices \cup {Manual}
    /\ \A v \in Values : v.from \in Devices => v.stamp \in Nat \ {0}
    /\ \A d \in Devices, n \in Nat \ {0} : [from |-> d, stamp |-> n] \in Values
    /\ [from |-> Manual, stamp |-> 0] \in Values
  BY DataPathAssumption DEF Values

LEMMA CmdFacts ==
    /\ \A c \in Cmds : c.port \in Ports /\ c.value \in Values
    /\ \A q \in Ports, v \in Values : [port |-> q, value |-> v] \in Cmds
  BY DEF Cmds

LEMMA ConstantFacts ==
    /\ \A d \in Devices : PlcOf[d] \in Plcs /\ IdOf[d] \in Ids
    /\ \A q \in Ports : PlcAt(q) \in Plcs
    /\ NoWires \in [Ports -> Ids \cup {None}]
    /\ \A t \in Tables : t \in [Ports -> Ids \cup {None}]
    /\ Nothing \in [Ids -> Values \cup {None}]
  BY DataPathAssumption DEF Ids, PlcAt, NoWires, Nothing

(* Append, Tail and RemoveAt, element by element.                          *)
LEMMA QueueSteps ==
    ASSUME NEW S, NEW s \in Seq(S)
    PROVE  /\ Len(s) \in Nat
           /\ \A k \in 1..Len(s) : s[k] \in S
           /\ \A e \in S : /\ Append(s, e) \in Seq(S)
                           /\ Len(Append(s, e)) = Len(s) + 1
                           /\ \A k \in 1..Len(s) : Append(s, e)[k] = s[k]
                           /\ Append(s, e)[Len(s) + 1] = e
           /\ s # <<>> => /\ Len(s) \in Nat \ {0}
                          /\ Head(s) \in S /\ Head(s) = s[1]
                          /\ Tail(s) \in Seq(S)
                          /\ Len(Tail(s)) = Len(s) - 1
                          /\ \A k \in 1..Len(Tail(s)) : Tail(s)[k] = s[k + 1]
  OBVIOUS

LEMMA RemoveSteps ==
    ASSUME NEW S, NEW s \in Seq(S), NEW i \in DOMAIN s
    PROVE  RemoveAt(s, i) \in Seq(S) /\ Len(RemoveAt(s, i)) = Len(s) - 1
  <1> DEFINE a == SubSeq(s, 1, i - 1)
             b == SubSeq(s, i + 1, Len(s))
  <1>1. i \in 1..Len(s) /\ Len(s) \in Nat
    OBVIOUS
  <1>2. a \in Seq(S) /\ Len(a) = i - 1
    BY <1>1
  <1>3. b \in Seq(S) /\ Len(b) = Len(s) - i
    BY <1>1
  <1>4. RemoveAt(s, i) = a \o b
    BY DEF RemoveAt
  <1> HIDE DEF a, b
  <1>5. a \o b \in Seq(S) /\ Len(a \o b) = Len(a) + Len(b)
    BY <1>2, <1>3, ConcatProperties
  <1>6. QED
    BY <1>1, <1>2, <1>3, <1>4, <1>5

-----------------------------------------------------------------------------
(* Types.  EndTypes are those of the simulators and their queues, Middle   *)
(* those of the backend.                                                   *)
EndTypes ==
    /\ pub \in [Devices -> Nat \ {0}] /\ \A d \in Devices : pub[d] <= MaxStamp[d]
    /\ input \in [Ports -> Values \cup {None}]
    /\ tasks \in [Plcs -> Seq(Cmds)] /\ \A p \in Plcs : Len(tasks[p]) <= MaxTasks[p]
    /\ queue \in [Plcs -> Seq(Cmds)] /\ \A p \in Plcs : Len(queue[p]) <= Capacity + 1
    /\ newest \in [Ports -> [Devices -> Nat]]

Middle ==
    /\ ingested \in [Ids -> Values \cup {None}]
    /\ seen \in [Devices -> Nat] /\ \A d \in Devices : seen[d] <= pub[d]
    /\ handles \in SUBSET Plcs
    /\ table \in Tables
    /\ pc \in {"sleep", "values", "handles", "send"}
    /\ wires \in [Ports -> Ids \cup {None}]
    /\ values \in [Ids -> Values \cup {None}]
    /\ setpoints \in 0..MaxSetpoints

(* A queue after WriteHandle::send.                                        *)
LEMMA SendTypes ==
    ASSUME EndTypes, NEW q \in Ports, NEW v \in Values, Send(q, v)
    PROVE  queue' \in [Plcs -> Seq(Cmds)] /\ \A p \in Plcs : Len(queue'[p]) <= Capacity + 1
  <1> DEFINE p == PlcAt(q)
             c == [port |-> q, value |-> v]
  <1>1. p \in Plcs /\ queue[p] \in Seq(Cmds) /\ c \in Cmds
    BY ConstantFacts, CmdFacts DEF EndTypes
  <1>2. Append(queue[p], c) \in Seq(Cmds) /\ Len(Append(queue[p], c)) = Len(queue[p]) + 1 /\ Len(queue[p]) \in Nat
    BY <1>1, QueueSteps
  <1>3. CASE Room(p) /\ queue' = [queue EXCEPT ![p] = Append(queue[p], c)]
    BY <1>1, <1>2, <1>3, DataPathAssumption DEF EndTypes, Room
  <1>4. CASE queue' = queue
    BY <1>4 DEF EndTypes
  <1>5. QED
    BY <1>3, <1>4 DEF Send

LEMMA ExecuteTypes ==
    ASSUME EndTypes, NEW p \in Plcs, Execute(p)
    PROVE  EndTypes'
  <1> DEFINE s == queue[p]
             c == Head(queue[p])
  <1>1. s # <<>> /\ s \in Seq(Cmds) /\ Len(tasks[p]) < MaxTasks[p] /\ tasks[p] \in Seq(Cmds)
    BY DEF Execute, EndTypes
  <1>2. /\ Tail(s) \in Seq(Cmds) /\ Len(Tail(s)) = Len(s) - 1 /\ Len(s) \in Nat
        /\ c \in Cmds /\ c.port \in Ports /\ c.value \in Values
    BY <1>1, QueueSteps, CmdFacts
  <1>3. Append(tasks[p], c) \in Seq(Cmds) /\ Len(Append(tasks[p], c)) = Len(tasks[p]) + 1 /\ Len(tasks[p]) \in Nat
    BY <1>1, <1>2, QueueSteps
  <1>4. queue' = [queue EXCEPT ![p] = Tail(s)] /\ tasks' = [tasks EXCEPT ![p] = Append(tasks[p], c)]
    BY DEF Execute
  <1>5. queue' \in [Plcs -> Seq(Cmds)] /\ \A r \in Plcs : Len(queue'[r]) <= Capacity + 1
    BY <1>2, <1>4, DataPathAssumption DEF EndTypes
  <1>6. tasks' \in [Plcs -> Seq(Cmds)] /\ \A r \in Plcs : Len(tasks'[r]) <= MaxTasks[r]
    <2>1. ASSUME NEW r \in Plcs PROVE tasks'[r] \in Seq(Cmds) /\ Len(tasks'[r]) <= MaxTasks[r]
      <3>1. MaxTasks[r] \in Nat \ {0} /\ Len(tasks[r]) <= MaxTasks[r] /\ tasks[r] \in Seq(Cmds)
        BY DataPathAssumption DEF EndTypes
      <3>2. tasks'[r] = IF r = p THEN Append(tasks[p], c) ELSE tasks[r]
        BY <1>4 DEF EndTypes
      <3>3. QED
        BY <1>1, <1>3, <3>1, <3>2
    <2>2. tasks' = [r \in Plcs |-> tasks'[r]]
      BY <1>4 DEF EndTypes
    <2>3. QED
      BY <2>1, <2>2
  <1>7. newest' \in [Ports -> [Devices -> Nat]]
    <2>1. CASE c.value.from = Manual
      BY <2>1 DEF Execute, EndTypes
    <2>2. CASE c.value.from # Manual
      <3>1. c.value.from \in Devices /\ c.value.stamp \in Nat
        BY <1>2, <2>2, ValueFacts
      <3>2. newest' = [newest EXCEPT ![c.port][c.value.from] = c.value.stamp]
        BY <2>2 DEF Execute
      <3>3. QED
        BY <1>2, <3>1, <3>2 DEF EndTypes
    <2>3. QED
      BY <2>1, <2>2
  <1>8. QED
    BY <1>5, <1>6, <1>7 DEF Execute, EndTypes

LEMMA TypeInit == Init => EndTypes /\ Middle
  <1> SUFFICES ASSUME Init PROVE EndTypes /\ Middle
    OBVIOUS
  <1> USE DataPathAssumption DEF Init
  <1>1. <<>> \in Seq(Cmds) /\ Len(<<>>) = 0
    OBVIOUS
  <1>2. \A p \in Plcs : tasks[p] = <<>> /\ queue[p] = <<>>
    OBVIOUS
  <1>3. EndTypes
    BY <1>1, <1>2 DEF EndTypes, Seeded
  <1>4. Middle
    BY ConstantFacts DEF Middle, Seeded
  <1>5. QED
    BY <1>3, <1>4

LEMMA EndNext ==
    ASSUME EndTypes, Middle, [Next]_vars
    PROVE  EndTypes'
  <1>1. ASSUME NEW p \in Plcs, Execute(p) PROVE EndTypes'
    BY <1>1, ExecuteTypes
  <1>2. ASSUME NEW p \in Plcs, Lose(p) PROVE EndTypes'
    <2>1. queue[p] # <<>> /\ queue[p] \in Seq(Cmds) /\ queue' = [queue EXCEPT ![p] = Tail(queue[p])]
      BY <1>2 DEF Lose, EndTypes
    <2>2. Tail(queue[p]) \in Seq(Cmds) /\ Len(Tail(queue[p])) = Len(queue[p]) - 1 /\ Len(queue[p]) \in Nat
      BY <2>1, QueueSteps
    <2>3. QED
      BY <1>2, <2>1, <2>2, DataPathAssumption DEF Lose, EndTypes, plcVars
  <1>3. ASSUME NEW q \in Ports, NEW v \in Values, Send(q, v), UNCHANGED <<plcVars, newest>> PROVE EndTypes'
    BY <1>3, SendTypes DEF EndTypes, plcVars
  <1>4. ASSUME NEW p \in Plcs, NEW k, StoreTask(p, k) PROVE EndTypes'
    <2>1. /\ k \in DOMAIN tasks[p] /\ tasks[p] \in Seq(Cmds) /\ tasks[p][k] \in Cmds
      BY <1>4, QueueSteps DEF StoreTask, EndTypes
    <2>2. RemoveAt(tasks[p], k) \in Seq(Cmds) /\ Len(RemoveAt(tasks[p], k)) = Len(tasks[p]) - 1 /\ Len(tasks[p]) \in Nat
      BY <2>1, RemoveSteps
    <2>3. tasks' = [tasks EXCEPT ![p] = RemoveAt(tasks[p], k)]
      BY <1>4 DEF StoreTask
    <2>4. tasks' \in [Plcs -> Seq(Cmds)] /\ \A r \in Plcs : Len(tasks'[r]) <= MaxTasks[r]
      <3>1. ASSUME NEW r \in Plcs PROVE tasks'[r] \in Seq(Cmds) /\ Len(tasks'[r]) <= MaxTasks[r]
        <4>1. MaxTasks[r] \in Nat \ {0} /\ Len(tasks[r]) <= MaxTasks[r] /\ tasks[r] \in Seq(Cmds)
          BY DataPathAssumption DEF EndTypes
        <4>2. tasks'[r] = IF r = p THEN RemoveAt(tasks[p], k) ELSE tasks[r]
          BY <2>3 DEF EndTypes
        <4>3. QED
          BY <2>2, <4>1, <4>2
      <3>2. tasks' = [r \in Plcs |-> tasks'[r]]
        BY <2>3 DEF EndTypes
      <3>3. QED
        BY <3>1, <3>2
    <2>5. input' \in [Ports -> Values \cup {None}]
      BY <1>4, <2>1, CmdFacts DEF StoreTask, EndTypes
    <2>6. QED
      BY <1>4, <2>4, <2>5 DEF StoreTask, EndTypes
  <1>5. ASSUME NEW d \in Devices, Publish(d) PROVE EndTypes'
    <2>1. \A e \in Devices : MaxStamp[e] \in Nat \ {0} /\ pub[e] \in Nat \ {0} /\ pub[e] <= MaxStamp[e]
      BY DataPathAssumption DEF EndTypes
    <2>2. pub[d] < MaxStamp[d] /\ pub' = [pub EXCEPT ![d] = pub[d] + 1] /\ pub \in [Devices -> Nat \ {0}]
      BY <1>5 DEF Publish, EndTypes
    <2>3. pub' \in [Devices -> Nat \ {0}] /\ \A e \in Devices : pub'[e] <= MaxStamp[e]
      BY <2>1, <2>2
    <2>4. QED
      BY <1>5, <2>3 DEF Publish, EndTypes
  <1>6. ASSUME NEW p \in Plcs, RestartPlc(p) PROVE EndTypes'
    <2>1. pub' \in [Devices -> Nat \ {0}] /\ \A d \in Devices : pub'[d] <= MaxStamp[d]
      BY <1>6, DataPathAssumption DEF RestartPlc, EndTypes
    <2>2. input' \in [Ports -> Values \cup {None}]
      BY <1>6 DEF RestartPlc, EndTypes
    <2>3. <<>> \in Seq(Cmds) /\ Len(<<>>) = 0
      OBVIOUS
    <2>4. tasks' \in [Plcs -> Seq(Cmds)] /\ \A r \in Plcs : Len(tasks'[r]) <= MaxTasks[r]
      <3>1. tasks' = [tasks EXCEPT ![p] = <<>>]
        BY <1>6 DEF RestartPlc
      <3>2. \A r \in Plcs : MaxTasks[r] \in Nat \ {0}
        BY DataPathAssumption
      <3>3. QED
        BY <2>3, <3>1, <3>2 DEF EndTypes
    <2>5. QED
      BY <1>6, <2>1, <2>2, <2>4 DEF RestartPlc, EndTypes
  <1>7. ASSUME NEW t \in Tables, RestartBackend(t) PROVE EndTypes'
    <2>1. <<>> \in Seq(Cmds) /\ Len(<<>>) = 0
      OBVIOUS
    <2>2. \A p \in Plcs : queue'[p] = <<>>
      BY <1>7 DEF RestartBackend
    <2>3. queue' \in [Plcs -> Seq(Cmds)] /\ \A p \in Plcs : Len(queue'[p]) <= Capacity + 1
      BY <1>7, <2>1, <2>2, DataPathAssumption DEF RestartBackend
    <2>4. QED
      BY <1>7, <2>3 DEF RestartBackend, EndTypes, plcVars
  <1>8. CASE UNCHANGED <<plcVars, queue, newest>>
    BY <1>8 DEF EndTypes, plcVars
  <1>9. ASSUME NEW q \in Ports, SendNext(q) PROVE EndTypes'
    <2>1. CASE values[wires[q]] # None /\ PlcAt(q) \in handles
      <3>1. values[wires[q]] \in Values /\ Send(q, values[wires[q]])
        BY <1>9, <2>1 DEF SendNext, Middle
      <3>2. QED
        BY <1>3, <1>9, <3>1 DEF SendNext
    <2>2. CASE ~(values[wires[q]] # None /\ PlcAt(q) \in handles)
      BY <1>8, <1>9, <2>2 DEF SendNext
    <2>3. QED
      BY <2>1, <2>2
  <1>10. ASSUME NEW q \in Settable, Setpoint(q) PROVE EndTypes'
    BY <1>3, <1>10, ValueFacts, DataPathAssumption DEF Setpoint
  <1>11. QED
    BY <1>1, <1>2, <1>4, <1>5, <1>6, <1>7, <1>8, <1>9, <1>10
       DEF Next, Flow, Tick, Change, TickStart, TickValues, TickHandles, Observe, Rewire,
           AddConnector, vars

LEMMA MiddleNext ==
    ASSUME EndTypes, Middle, [Next]_vars
    PROVE  Middle'
  <1> USE ConstantFacts
  <1>1. CASE UNCHANGED <<pub, ingested, seen, handles, table, tickVars, setpoints>>
    BY <1>1 DEF Middle, tickVars
  <1>2. ASSUME NEW d \in Devices, NEW v \in 1..pub[d], Observe(d, v) PROVE Middle'
    <2>1. v \in Nat \ {0} /\ [from |-> d, stamp |-> v] \in Values /\ v <= pub[d]
      BY <1>2, ValueFacts DEF EndTypes
    <2>2. QED
      BY <1>2, <2>1 DEF Observe, Middle, tickVars, plcVars
  <1>3. ASSUME NEW d \in Devices, Publish(d) PROVE Middle'
    BY <1>3 DEF Publish, Middle, EndTypes, tickVars
  <1>4. ASSUME NEW p \in Plcs, RestartPlc(p) PROVE Middle'
    BY <1>4 DEF RestartPlc, Middle, EndTypes, tickVars
  <1>5. CASE TickStart
    BY <1>5 DEF TickStart, Middle, plcVars
  <1>6. CASE TickValues
    BY <1>6 DEF TickValues, Middle, plcVars
  <1>7. CASE TickHandles
    BY <1>7 DEF TickHandles, ToSleep, Middle, plcVars
  <1>8. ASSUME NEW q \in Ports, SendNext(q) PROVE Middle'
    BY <1>8 DEF SendNext, ToSleep, Middle, plcVars
  <1>9. ASSUME NEW q \in Settable, Setpoint(q) PROVE Middle'
    BY <1>9, DataPathAssumption DEF Setpoint, Middle, plcVars, tickVars
  <1>10. ASSUME NEW t \in Tables, Rewire(t) \/ RestartBackend(t) PROVE Middle'
    BY <1>10 DEF Rewire, RestartBackend, ToSleep, Middle, plcVars, tickVars
  <1>11. ASSUME NEW p \in Plcs, AddConnector(p) PROVE Middle'
    BY <1>11 DEF AddConnector, Middle, plcVars, tickVars
  <1>12. QED
    BY <1>1, <1>2, <1>3, <1>4, <1>5, <1>6, <1>7, <1>8, <1>9, <1>10, <1>11
       DEF Next, Flow, Tick, Change, Execute, StoreTask, Lose, plcVars, vars

-----------------------------------------------------------------------------
(* Order.  AtMost(sn, vl, d, n): n is no newer than any value of device d  *)
(* that can still be sent, which a poll will read (sn) or the tick holds   *)
(* (vl).                                                                   *)
AtMost(sn, vl, d, n) ==
    /\ n <= sn[d]
    /\ \A id \in Ids : vl[id] # None /\ vl[id].from = d => n <= vl[id].stamp

Linked(d, q) == \E t \in Tables : t[q] = IdOf[d]

\* A queued command is for a port of this PLC, a setpoint or on a wire that is or
\* was, no newer than what can follow it and no older than what was written
\* before it.
CmdOK(sn, vl, nw, p, c) ==
    /\ PlcAt(c.port) = p
    /\ c.value.from = Manual => c.port \in Settable
    /\ c.value.from \in Devices =>
          /\ AtMost(sn, vl, c.value.from, c.value.stamp)
          /\ nw[c.port][c.value.from] <= c.value.stamp
          /\ Linked(c.value.from, c.port)

InOrder(s) ==
    \A k, m \in 1..Len(s) :
        k < m /\ s[k].value.from \in Devices /\ s[k].value.from = s[m].value.from =>
            s[k].value.stamp <= s[m].value.stamp

HeldOK ==
    /\ \A id \in Ids : ingested[id] # None =>
          /\ ingested[id].from \in Devices /\ IdOf[ingested[id].from] = id
          /\ ingested[id].stamp = seen[ingested[id].from]
    /\ \A id \in Ids : values[id] # None =>
          /\ values[id].from \in Devices /\ IdOf[values[id].from] = id
          /\ values[id].stamp <= seen[values[id].from]

WiresOK == \A q \in Ports : wires[q] # None => \E t \in Tables : t[q] = wires[q]

QueuesOK ==
    \A p \in Plcs :
        /\ \A k \in 1..Len(queue[p]) : CmdOK(seen, values, newest, p, queue[p][k])
        /\ InOrder(queue[p])

NewestOK == \A q \in Ports, d \in Devices : AtMost(seen, values, d, newest[q][d])

\* What was written to a node: a setpoint, or a value of a device on a wire.
Written(nw) ==
    {c \in Cmds :
        /\ c.value.from = Manual => c.port \in Settable
        /\ c.value.from \in Devices => /\ c.value.stamp <= nw[c.port][c.value.from]
                                       /\ Linked(c.value.from, c.port)}

TasksOK == \A p \in Plcs : tasks[p] \in Seq(Written(newest))

Inv == EndTypes /\ Middle /\ HeldOK /\ WiresOK /\ QueuesOK /\ NewestOK /\ TasksOK

LEMMA OrderInit == Init => HeldOK /\ WiresOK /\ QueuesOK /\ NewestOK /\ TasksOK
  <1> SUFFICES ASSUME Init PROVE HeldOK /\ WiresOK /\ QueuesOK /\ NewestOK /\ TasksOK
    OBVIOUS
  <1>1. HeldOK /\ WiresOK
    BY DEF Init, HeldOK, WiresOK, Nothing, NoWires
  <1>2. \A p \in Plcs : queue[p] = <<>>
    BY DEF Init
  <1>3. QueuesOK
    BY <1>2 DEF QueuesOK, InOrder
  <1>4. NewestOK
    BY DEF Init, NewestOK, AtMost, Nothing
  <1>5. TasksOK
    <2>1. \A p \in Plcs : tasks[p] = <<>>
      BY DEF Init
    <2>2. \A S : <<>> \in Seq(S)
      BY EmptySeq
    <2>3. QED
      BY <2>1, <2>2 DEF TasksOK
  <1>6. QED
    BY <1>1, <1>3, <1>4, <1>5

(* Whatever can still be sent of a device only gets newer.                 *)
LEMMA HeldGrows ==
    ASSUME EndTypes, Middle, HeldOK, [Next]_vars
    PROVE  \A d \in Devices, n \in Nat : AtMost(seen, values, d, n) => AtMost(seen', values', d, n)
  <1>1. CASE UNCHANGED <<seen, values>>
    BY <1>1 DEF AtMost
  <1>2. CASE seen' = seen /\ values' = Nothing
    BY <1>2 DEF AtMost, Nothing
  <1>3. ASSUME NEW d \in Devices, NEW v \in 1..pub[d], v >= seen[d], Observe(d, v)
        PROVE  \A e \in Devices, n \in Nat : AtMost(seen, values, e, n) => AtMost(seen', values', e, n)
    <2>1. \A e \in Devices : seen[e] <= seen'[e] /\ seen[e] \in Nat /\ seen'[e] \in Nat
      BY <1>3 DEF Observe, Middle, EndTypes
    <2>2. values' = values
      BY <1>3 DEF Observe, tickVars
    <2>3. QED
      BY <2>1, <2>2 DEF AtMost
  <1>4. CASE TickValues
    BY <1>4 DEF TickValues, AtMost, HeldOK
  <1>5. QED
    BY <1>1, <1>2, <1>3, <1>4
       DEF Next, Flow, Tick, Change, TickStart, TickHandles, SendNext, ToSleep, Execute, StoreTask,
           Publish, Lose, RestartPlc, AddConnector, Setpoint, Rewire, RestartBackend, tickVars, vars

LEMMA HeldNext ==
    ASSUME EndTypes, Middle, HeldOK, [Next]_vars
    PROVE  HeldOK'
  <1>1. CASE UNCHANGED <<ingested, seen, values>>
    BY <1>1 DEF HeldOK
  <1>2. CASE seen' = seen /\ values' = Nothing /\ (ingested' = ingested \/ ingested' = Nothing)
    BY <1>2 DEF HeldOK, Nothing
  <1>3. ASSUME NEW d \in Devices, NEW v \in 1..pub[d], v >= seen[d], Observe(d, v)
        PROVE  HeldOK'
    <2>1. /\ seen' = [seen EXCEPT ![d] = v] /\ values' = values
          /\ ingested' = [ingested EXCEPT ![IdOf[d]] = [from |-> d, stamp |-> v]]
      BY <1>3 DEF Observe, tickVars
    <2>2. /\ \A e \in Devices : seen'[e] = IF e = d THEN v ELSE seen[e]
          /\ \A e \in Devices : seen[e] <= seen'[e] /\ seen[e] \in Nat /\ seen'[e] \in Nat
      BY <1>3, <2>1 DEF Middle, EndTypes
    <2>3. \A id \in Ids : ingested'[id] = IF id = IdOf[d] THEN [from |-> d, stamp |-> v] ELSE ingested[id]
      BY <2>1 DEF Middle
    <2>4. \A id \in Ids : values[id] # None => values[id].from \in Devices /\ values[id].stamp \in Nat
      BY ValueFacts DEF HeldOK, Middle
    <2>5. QED
      BY <2>1, <2>2, <2>3, <2>4 DEF HeldOK
  <1>4. CASE TickValues
    <2>1. \A id \in Ids : ingested[id] # None => ingested[id].from \in Devices /\ ingested[id].stamp \in Nat
      BY ValueFacts DEF HeldOK, Middle
    <2>2. QED
      BY <1>4, <2>1 DEF TickValues, HeldOK
  <1>5. QED
    BY <1>1, <1>2, <1>3, <1>4
       DEF Next, Flow, Tick, Change, TickStart, TickHandles, SendNext, ToSleep, Execute, StoreTask,
           Publish, Lose, RestartPlc, AddConnector, Setpoint, Rewire, RestartBackend, tickVars, vars

LEMMA WiresNext ==
    ASSUME Middle, WiresOK, [Next]_vars
    PROVE  WiresOK'
  <1>1. CASE wires' = wires
    BY <1>1 DEF WiresOK
  <1>2. CASE wires' = NoWires
    BY <1>2 DEF WiresOK, NoWires
  <1>3. CASE TickStart
    BY <1>3 DEF WiresOK, TickStart, Middle
  <1>4. ASSUME NEW q \in Ports, wires' = [wires EXCEPT ![q] = None]
        PROVE  WiresOK'
    BY <1>4 DEF WiresOK, Middle
  <1>5. QED
    BY <1>1, <1>2, <1>3, <1>4
       DEF Next, Flow, Tick, Change, TickValues, TickHandles, SendNext, ToSleep, Execute, StoreTask,
           Publish, Observe, Lose, RestartPlc, AddConnector, Setpoint, Rewire, RestartBackend,
           tickVars, vars

(* A command stays in order while what follows it only gets newer.         *)
LEMMA CmdKept ==
    ASSUME NEW sn, NEW sn2, NEW vl, NEW vl2, NEW nw, NEW nw2, NEW p, NEW c \in Cmds,
           \A d \in Devices, n \in Nat : AtMost(sn, vl, d, n) => AtMost(sn2, vl2, d, n),
           CmdOK(sn, vl, nw, p, c),
           c.value.from \in Devices => nw2[c.port][c.value.from] <= c.value.stamp
    PROVE  CmdOK(sn2, vl2, nw2, p, c)
  <1>1. c.value.from \in Devices => c.value.stamp \in Nat
    BY CmdFacts, ValueFacts
  <1>2. QED
    BY <1>1 DEF CmdOK

LEMMA TailInOrder ==
    ASSUME NEW s \in Seq(Cmds), InOrder(s), s # <<>>
    PROVE  /\ InOrder(Tail(s))
           /\ \A k \in 1..Len(Tail(s)) :
                 s[1].value.from \in Devices /\ s[1].value.from = Tail(s)[k].value.from =>
                     s[1].value.stamp <= Tail(s)[k].value.stamp
  <1>1. /\ Len(s) \in Nat \ {0} /\ Len(Tail(s)) = Len(s) - 1
        /\ \A k \in 1..Len(Tail(s)) : Tail(s)[k] = s[k + 1]
    BY QueueSteps
  <1>2. \A k \in 1..Len(Tail(s)) : k + 1 \in 1..Len(s) /\ 1 < k + 1
    BY <1>1
  <1>3. \A k, m \in 1..Len(Tail(s)) : k < m => k + 1 < m + 1
    OBVIOUS
  <1>4. InOrder(Tail(s))
    BY <1>1, <1>2, <1>3 DEF InOrder
  <1>5. 1 \in 1..Len(s)
    BY <1>1
  <1>6. QED
    BY <1>1, <1>2, <1>4, <1>5 DEF InOrder

LEMMA AppendInOrder ==
    ASSUME NEW s \in Seq(Cmds), NEW c \in Cmds, InOrder(s),
           \A k \in 1..Len(s) : s[k].value.from \in Devices /\ s[k].value.from = c.value.from =>
                                    s[k].value.stamp <= c.value.stamp
    PROVE  InOrder(Append(s, c))
  <1>1. /\ Len(s) \in Nat /\ Len(Append(s, c)) = Len(s) + 1
        /\ \A k \in 1..Len(s) : Append(s, c)[k] = s[k]
        /\ Append(s, c)[Len(s) + 1] = c
    BY QueueSteps
  <1>2. SUFFICES ASSUME NEW k \in 1..Len(s) + 1, NEW m \in 1..Len(s) + 1, k < m,
                        Append(s, c)[k].value.from \in Devices,
                        Append(s, c)[k].value.from = Append(s, c)[m].value.from
                 PROVE  Append(s, c)[k].value.stamp <= Append(s, c)[m].value.stamp
    BY <1>1 DEF InOrder
  <1>3. k \in 1..Len(s) /\ Append(s, c)[k] = s[k]
    BY <1>1, <1>2
  <1>4. CASE m \in 1..Len(s)
    BY <1>1, <1>2, <1>3, <1>4 DEF InOrder
  <1>5. CASE m = Len(s) + 1
    BY <1>1, <1>2, <1>3, <1>5
  <1>6. QED
    BY <1>1, <1>4, <1>5

LEMMA QueuesNext ==
    ASSUME EndTypes, Middle, HeldOK, WiresOK, QueuesOK, NewestOK, [Next]_vars
    PROVE  QueuesOK' /\ NewestOK'
  <1>1. \A d \in Devices, n \in Nat : AtMost(seen, values, d, n) => AtMost(seen', values', d, n)
    BY HeldGrows
  <1>2. /\ \A r \in Plcs : queue[r] \in Seq(Cmds) /\ Len(queue[r]) \in Nat
        /\ \A r \in Plcs : \A k \in 1..Len(queue[r]) : queue[r][k] \in Cmds
    BY QueueSteps DEF EndTypes
  <1>3. /\ \A c \in Cmds : c.port \in Ports /\ c.value \in Values
        /\ \A v \in Values : v.from \in Devices => v.stamp \in Nat
    BY CmdFacts, ValueFacts
  <1>4. ASSUME NEW r \in Plcs, NEW k \in 1..Len(queue[r]),
               queue[r][k].value.from \in Devices =>
                   newest'[queue[r][k].port][queue[r][k].value.from] <= queue[r][k].value.stamp
        PROVE  CmdOK(seen', values', newest', r, queue[r][k])
    <2>1. CmdOK(seen, values, newest, r, queue[r][k]) /\ queue[r][k] \in Cmds
      BY <1>2 DEF QueuesOK
    <2>2. QED
      BY <1>1, <1>4, <2>1, CmdKept
  <1>5. ASSUME newest' = newest
        PROVE  /\ NewestOK'
               /\ \A r \in Plcs : \A k \in 1..Len(queue[r]) : CmdOK(seen', values', newest', r, queue[r][k])
    <2>1. \A q \in Ports, d \in Devices : newest[q][d] \in Nat
      BY DEF EndTypes
    <2>2. NewestOK'
      BY <1>1, <1>5, <2>1 DEF NewestOK
    <2>3. ASSUME NEW r \in Plcs, NEW k \in 1..Len(queue[r])
          PROVE  CmdOK(seen', values', newest', r, queue[r][k])
      <3>1. queue[r][k].value.from \in Devices =>
                newest'[queue[r][k].port][queue[r][k].value.from] <= queue[r][k].value.stamp
        BY <1>5, <2>3 DEF QueuesOK, CmdOK
      <3>2. QED
        BY <1>4, <3>1
    <2>4. QED
      BY <2>2, <2>3
  <1>6. CASE UNCHANGED <<queue, newest>>
    BY <1>5, <1>6 DEF QueuesOK
  <1>7. CASE newest' = newest /\ queue' = [p \in Plcs |-> <<>>]
    <2>1. \A p \in Plcs : queue'[p] = <<>>
      BY <1>7
    <2>2. QED
      BY <1>5, <1>7, <2>1 DEF QueuesOK, InOrder
  <1>8. ASSUME NEW q \in Ports, NEW v \in Values, Send(q, v), newest' = newest,
               v.from \in Devices =>
                   /\ AtMost(seen, values, v.from, v.stamp)
                   /\ \A n \in Nat : AtMost(seen, values, v.from, n) => n <= v.stamp
                   /\ Linked(v.from, q),
               v.from = Manual => q \in Settable
        PROVE  QueuesOK' /\ NewestOK'
    <2> DEFINE p == PlcAt(q)
               c == [port |-> q, value |-> v]
               s == queue[p]
    <2>1. p \in Plcs /\ s \in Seq(Cmds) /\ c \in Cmds /\ c.port = q /\ c.value = v
      BY <1>2, ConstantFacts, CmdFacts
    <2>2. CASE queue' = [queue EXCEPT ![p] = Append(s, c)]
      <3>1. /\ \A k \in 1..Len(s) : Append(s, c)[k] = s[k]
            /\ Append(s, c)[Len(s) + 1] = c
            /\ Len(Append(s, c)) = Len(s) + 1 /\ Len(s) \in Nat
        BY <2>1, QueueSteps
      <3>2. CmdOK(seen', values', newest', p, c)
        <4>1. v.from \in Devices => newest[q][v.from] \in Nat /\ v.stamp \in Nat
          BY <1>3 DEF EndTypes
        <4>2. v.from \in Devices => newest[q][v.from] <= v.stamp
          BY <1>8, <4>1 DEF NewestOK
        <4>3. QED
          BY <1>1, <1>8, <2>1, <4>1, <4>2 DEF CmdOK
      <3>3. \A k \in 1..Len(s) : s[k].value.from \in Devices /\ s[k].value.from = c.value.from =>
                                     s[k].value.stamp <= c.value.stamp
        <4>1. ASSUME NEW k \in 1..Len(s), s[k].value.from \in Devices, s[k].value.from = v.from
              PROVE  s[k].value.stamp <= v.stamp
          <5>1. AtMost(seen, values, v.from, s[k].value.stamp)
            BY <2>1, <4>1 DEF QueuesOK, CmdOK
          <5>2. s[k].value.stamp \in Nat
            BY <1>2, <1>3, <2>1, <4>1
          <5>3. QED
            BY <1>8, <4>1, <5>1, <5>2
        <4>2. QED
          BY <2>1, <4>1
      <3>4. InOrder(Append(s, c))
        BY <2>1, <3>3, AppendInOrder DEF QueuesOK
      <3>5. \A r \in Plcs : queue'[r] = IF r = p THEN Append(s, c) ELSE queue[r]
        BY <2>1, <2>2 DEF EndTypes
      <3>6. \A k \in 1..Len(Append(s, c)) : CmdOK(seen', values', newest', p, Append(s, c)[k])
        <4>1. \A k \in 1..Len(s) : CmdOK(seen', values', newest', p, s[k])
          BY <1>5, <1>8, <2>1
        <4>2. \A k \in 1..Len(Append(s, c)) : k \in 1..Len(s) \/ k = Len(s) + 1
          BY <3>1
        <4>3. QED
          BY <3>1, <3>2, <4>1, <4>2
      <3>7. ASSUME NEW r \in Plcs
            PROVE  /\ \A k \in 1..Len(queue'[r]) : CmdOK(seen', values', newest', r, queue'[r][k])
                   /\ InOrder(queue'[r])
        <4>1. CASE r = p
          BY <3>4, <3>5, <3>6, <4>1
        <4>2. CASE r # p
          BY <1>5, <1>8, <3>5, <4>2 DEF QueuesOK
        <4>3. QED
          BY <4>1, <4>2
      <3>8. QED
        BY <1>5, <1>8, <3>7 DEF QueuesOK
    <2>3. CASE queue' = queue
      BY <1>6, <1>8, <2>3
    <2>4. QED
      BY <1>8, <2>2, <2>3 DEF Send
  <1>9. ASSUME NEW p \in Plcs, queue[p] # <<>>, queue' = [queue EXCEPT ![p] = Tail(queue[p])],
               \A r \in Plcs : \A k \in 1..Len(queue'[r]) : CmdOK(seen', values', newest', r, queue'[r][k])
        PROVE  QueuesOK'
    <2>1. InOrder(Tail(queue[p]))
      BY <1>2, <1>9, TailInOrder DEF QueuesOK
    <2>2. \A r \in Plcs : queue'[r] = IF r = p THEN Tail(queue[p]) ELSE queue[r]
      BY <1>9 DEF EndTypes
    <2>3. QED
      BY <1>9, <2>1, <2>2 DEF QueuesOK
  <1>10. ASSUME NEW p \in Plcs, Lose(p)
         PROVE  QueuesOK' /\ NewestOK'
    <2>1. queue[p] # <<>> /\ queue' = [queue EXCEPT ![p] = Tail(queue[p])] /\ newest' = newest
      BY <1>10 DEF Lose
    <2>2. ASSUME NEW r \in Plcs, NEW k \in 1..Len(queue'[r])
          PROVE  CmdOK(seen', values', newest', r, queue'[r][k])
      <3>1. CASE r = p
        <4>1. /\ queue'[r] = Tail(queue[r]) /\ Len(Tail(queue[r])) = Len(queue[r]) - 1
              /\ \A j \in 1..Len(Tail(queue[r])) : Tail(queue[r])[j] = queue[r][j + 1]
          BY <1>2, <2>1, <3>1, QueueSteps DEF EndTypes
        <4>2. k + 1 \in 1..Len(queue[r]) /\ queue'[r][k] = queue[r][k + 1]
          BY <1>2, <2>2, <4>1
        <4>3. QED
          BY <1>5, <2>1, <4>2
      <3>2. CASE r # p
        BY <1>5, <2>1, <2>2, <3>2 DEF EndTypes
      <3>3. QED
        BY <3>1, <3>2
    <2>3. QED
      BY <1>5, <1>9, <2>1, <2>2
  <1>11. ASSUME NEW p \in Plcs, Execute(p)
         PROVE  QueuesOK' /\ NewestOK'
    <2> DEFINE s == queue[p]
               c == queue[p][1]
    <2>1. /\ s # <<>> /\ queue' = [queue EXCEPT ![p] = Tail(s)]
          /\ newest' = IF c.value.from = Manual THEN newest
                       ELSE [newest EXCEPT ![c.port][c.value.from] = c.value.stamp]
          /\ seen' = seen /\ values' = values
      <3>1. s # <<>> /\ Head(s) = c
        BY <1>2, <1>11, QueueSteps DEF Execute
      <3>2. QED
        BY <1>11, <3>1 DEF Execute, tickVars
    <2>2. /\ s \in Seq(Cmds) /\ Len(s) \in Nat \ {0} /\ Len(Tail(s)) = Len(s) - 1
          /\ \A k \in 1..Len(Tail(s)) : Tail(s)[k] = s[k + 1]
      BY <1>2, <2>1, QueueSteps
    <2>3. 1 \in 1..Len(s) /\ c \in Cmds /\ c.port \in Ports /\ c.value \in Values
      BY <1>2, <1>3, <2>2
    <2>4. CmdOK(seen, values, newest, p, c)
      BY <2>3 DEF QueuesOK
    <2>5. CASE c.value.from = Manual
      <3>1. newest' = newest
        BY <2>1, <2>5
      <3>2. ASSUME NEW r \in Plcs, NEW k \in 1..Len(queue'[r])
            PROVE  CmdOK(seen', values', newest', r, queue'[r][k])
        <4>1. CASE r = p
          <5>1. queue'[r] = Tail(s)
            BY <2>1, <4>1 DEF EndTypes
          <5>2. k + 1 \in 1..Len(s) /\ queue'[r][k] = s[k + 1]
            BY <2>2, <3>2, <5>1
          <5>3. QED
            BY <1>5, <3>1, <4>1, <5>2
        <4>2. CASE r # p
          BY <1>5, <2>1, <3>1, <3>2, <4>2 DEF EndTypes
        <4>3. QED
          BY <4>1, <4>2
      <3>3. QED
        BY <1>5, <1>9, <2>1, <3>1, <3>2
    <2>6. CASE c.value.from # Manual
      <3>1. c.value.from \in Devices /\ c.value.stamp \in Nat
        BY <1>3, <2>3, <2>6, ValueFacts
      <3>2. newest' = [newest EXCEPT ![c.port][c.value.from] = c.value.stamp]
        BY <2>1, <2>6
      <3>3. /\ newest'[c.port][c.value.from] = c.value.stamp
            /\ \A q \in Ports, d \in Devices :
                   ~(q = c.port /\ d = c.value.from) => newest'[q][d] = newest[q][d]
        BY <2>3, <3>1, <3>2 DEF EndTypes
      <3>4. NewestOK'
        BY <2>1, <2>4, <3>1, <3>3 DEF NewestOK, CmdOK
      <3>5. ASSUME NEW r \in Plcs, NEW k \in 1..Len(queue[r]), r = p => k # 1
            PROVE  CmdOK(seen', values', newest', r, queue[r][k])
        <4> DEFINE e == queue[r][k]
        <4>1. e \in Cmds /\ e.port \in Ports /\ CmdOK(seen, values, newest, r, e)
          BY <1>2, <1>3 DEF QueuesOK
        <4>2. e.value.from \in Devices => newest'[e.port][e.value.from] <= e.value.stamp
          <5>1. CASE e.port = c.port /\ e.value.from = c.value.from
            <6>1. r = p
              BY <2>4, <4>1, <5>1 DEF CmdOK
            <6>2. 1 < k /\ InOrder(s)
              BY <3>5, <6>1 DEF QueuesOK
            <6>3. c.value.stamp <= e.value.stamp
              BY <2>3, <3>1, <5>1, <6>1, <6>2 DEF InOrder
            <6>4. QED
              BY <3>3, <5>1, <6>3
          <5>2. CASE ~(e.port = c.port /\ e.value.from = c.value.from)
            BY <3>3, <4>1, <5>2 DEF CmdOK
          <5>3. QED
            BY <5>1, <5>2
        <4>3. QED
          BY <1>4, <4>2
      <3>6. ASSUME NEW r \in Plcs, NEW k \in 1..Len(queue'[r])
            PROVE  CmdOK(seen', values', newest', r, queue'[r][k])
        <4>1. CASE r = p
          <5>1. queue'[r] = Tail(s)
            BY <2>1, <4>1 DEF EndTypes
          <5>2. k + 1 \in 1..Len(s) /\ queue'[r][k] = s[k + 1] /\ k + 1 # 1
            BY <2>2, <3>6, <5>1
          <5>3. QED
            BY <3>5, <4>1, <5>2
        <4>2. CASE r # p
          <5>1. queue'[r] = queue[r]
            BY <2>1, <4>2 DEF EndTypes
          <5>2. QED
            BY <3>5, <3>6, <4>2, <5>1
        <4>3. QED
          BY <4>1, <4>2
      <3>7. QED
        BY <1>9, <2>1, <3>4, <3>6
    <2>7. QED
      BY <2>5, <2>6
  <1>12. ASSUME NEW q \in Ports, SendNext(q)
         PROVE  QueuesOK' /\ NewestOK'
    <2> DEFINE v == values[wires[q]]
    <2>1. wires[q] # None /\ wires[q] \in Ids /\ newest' = newest
      BY <1>12 DEF SendNext, Middle
    <2>2. CASE v # None /\ PlcAt(q) \in handles
      <3>1. v \in Values /\ Send(q, v)
        BY <1>12, <2>1, <2>2 DEF SendNext, Middle
      <3>2. v.from \in Devices /\ IdOf[v.from] = wires[q] /\ v.stamp <= seen[v.from]
        BY <2>1, <2>2 DEF HeldOK
      <3>3. v.stamp \in Nat
        BY <1>3, <3>1, <3>2
      <3>4. \A id \in Ids : values[id] # None /\ values[id].from = v.from => values[id] = v
        BY <3>2 DEF HeldOK
      <3>5. AtMost(seen, values, v.from, v.stamp)
        BY <3>2, <3>3, <3>4 DEF AtMost
      <3>6. \A n \in Nat : AtMost(seen, values, v.from, n) => n <= v.stamp
        BY <2>1, <2>2 DEF AtMost
      <3>7. Linked(v.from, q)
        BY <2>1, <3>2 DEF WiresOK, Linked
      <3>8. v.from # Manual
        BY <3>2, DataPathAssumption
      <3>9. QED
        BY <1>8, <2>1, <3>1, <3>5, <3>6, <3>7, <3>8
    <2>3. CASE ~(v # None /\ PlcAt(q) \in handles)
      BY <1>6, <1>12, <2>1, <2>3 DEF SendNext
    <2>4. QED
      BY <2>2, <2>3
  <1>13. ASSUME NEW q \in Settable, Setpoint(q)
         PROVE  QueuesOK' /\ NewestOK'
    <2>1. q \in Ports /\ [from |-> Manual, stamp |-> 0] \in Values /\ Manual \notin Devices
      BY ValueFacts, DataPathAssumption
    <2>2. QED
      BY <1>8, <1>13, <2>1 DEF Setpoint
  <1>14. QED
    BY <1>6, <1>7, <1>10, <1>11, <1>12, <1>13
       DEF Next, Flow, Tick, Change, TickStart, TickValues, TickHandles, StoreTask, Publish, Observe,
           RestartPlc, AddConnector, Rewire, RestartBackend, vars

(* What is written to a node of a device never gets older.                 *)
LEMMA NewestGrows ==
    ASSUME EndTypes, Middle, QueuesOK, [Next]_vars
    PROVE  \A q \in Ports, d \in Devices :
               newest[q][d] \in Nat /\ newest'[q][d] \in Nat /\ newest[q][d] <= newest'[q][d]
  <1>1. CASE newest' = newest
    BY <1>1 DEF EndTypes
  <1>2. ASSUME NEW p \in Plcs, Execute(p)
        PROVE  \A q \in Ports, d \in Devices :
                   newest[q][d] \in Nat /\ newest'[q][d] \in Nat /\ newest[q][d] <= newest'[q][d]
    <2> DEFINE c == queue[p][1]
    <2>1. queue[p] # <<>> /\ queue[p] \in Seq(Cmds)
      BY <1>2 DEF Execute, EndTypes
    <2>2. Head(queue[p]) = c /\ 1 \in 1..Len(queue[p]) /\ c \in Cmds
      BY <2>1, QueueSteps
    <2>3. newest' = IF c.value.from = Manual THEN newest
                    ELSE [newest EXCEPT ![c.port][c.value.from] = c.value.stamp]
      BY <1>2, <2>2 DEF Execute
    <2>4. CmdOK(seen, values, newest, p, c)
      BY <2>2 DEF QueuesOK
    <2>5. c.port \in Ports /\ (c.value.from # Manual => c.value.from \in Devices /\ c.value.stamp \in Nat)
      BY <2>2, CmdFacts, ValueFacts
    <2>6. QED
      BY <2>3, <2>4, <2>5 DEF EndTypes, CmdOK
  <1>3. QED
    BY <1>1, <1>2
       DEF Next, Flow, Tick, Change, TickStart, TickValues, TickHandles, SendNext, Publish, Observe,
           StoreTask, RestartPlc, Lose, AddConnector, Setpoint, Rewire, RestartBackend, plcVars, vars

(* What was written stays written; a task is one of the writes.            *)
LEMMA TasksNext ==
    ASSUME EndTypes, Middle, QueuesOK, TasksOK, [Next]_vars
    PROVE  TasksOK'
  <1>1. CASE UNCHANGED <<tasks, newest>>
    BY <1>1 DEF TasksOK
  <1>2. ASSUME NEW p \in Plcs, Execute(p) PROVE TasksOK'
    <2> DEFINE c == queue[p][1]
    <2>1. queue[p] # <<>> /\ queue[p] \in Seq(Cmds)
      BY <1>2 DEF Execute, EndTypes
    <2>2. Head(queue[p]) = c /\ 1 \in 1..Len(queue[p]) /\ c \in Cmds
      BY <2>1, QueueSteps
    <2>3. /\ tasks' = [tasks EXCEPT ![p] = Append(tasks[p], c)]
          /\ newest' = IF c.value.from = Manual THEN newest
                       ELSE [newest EXCEPT ![c.port][c.value.from] = c.value.stamp]
      BY <1>2, <2>2 DEF Execute
    <2>4. CmdOK(seen, values, newest, p, c)
      BY <2>2 DEF QueuesOK
    <2>5. c.port \in Ports /\ c.value \in Values /\ (c.value.from # Manual => c.value.from \in Devices)
      BY <2>2, CmdFacts, ValueFacts
    <2>6. \A q \in Ports, d \in Devices :
              newest'[q][d] = IF c.value.from # Manual /\ q = c.port /\ d = c.value.from
                              THEN c.value.stamp ELSE newest[q][d]
      BY <2>3, <2>5 DEF EndTypes
    <2>7. \A q \in Ports, d \in Devices :
              newest[q][d] \in Nat /\ newest'[q][d] \in Nat /\ newest[q][d] <= newest'[q][d]
      BY NewestGrows
    <2>8. Written(newest) \subseteq Written(newest')
      <3>1. \A e \in Cmds : e.port \in Ports /\ (e.value.from \in Devices => e.value.stamp \in Nat)
        BY CmdFacts, ValueFacts
      <3>2. QED
        BY <2>7, <3>1 DEF Written
    <2>9. c \in Written(newest')
      <3>1. CASE c.value.from = Manual
        BY <2>2, <2>4, <3>1, DataPathAssumption DEF Written, CmdOK
      <3>2. CASE c.value.from # Manual
        <4>1. c.value.stamp \in Nat /\ newest'[c.port][c.value.from] = c.value.stamp
          BY <2>5, <2>6, <3>2, ValueFacts
        <4>2. QED
          BY <2>2, <2>4, <3>2, <4>1 DEF Written, CmdOK
      <3>3. QED
        BY <3>1, <3>2
    <2>10. ASSUME NEW r \in Plcs PROVE tasks'[r] \in Seq(Written(newest'))
      <3>1. tasks[r] \in Seq(Written(newest'))
        BY <2>8, SeqMonotonic DEF TasksOK
      <3>2. tasks'[r] = IF r = p THEN Append(tasks[r], c) ELSE tasks[r]
        BY <2>3 DEF EndTypes
      <3>3. Append(tasks[r], c) \in Seq(Written(newest'))
        BY <2>9, <3>1, QueueSteps
      <3>4. QED
        BY <3>1, <3>2, <3>3
    <2>11. QED
      BY <2>10 DEF TasksOK
  <1>3. ASSUME NEW p \in Plcs, NEW k, StoreTask(p, k) PROVE TasksOK'
    <2>1. /\ k \in DOMAIN tasks[p] /\ tasks' = [tasks EXCEPT ![p] = RemoveAt(tasks[p], k)]
          /\ newest' = newest
      BY <1>3 DEF StoreTask
    <2>2. RemoveAt(tasks[p], k) \in Seq(Written(newest))
      BY <2>1, RemoveSteps DEF TasksOK
    <2>3. QED
      BY <2>1, <2>2 DEF TasksOK, EndTypes
  <1>4. ASSUME NEW p \in Plcs, RestartPlc(p) PROVE TasksOK'
    <2>1. tasks' = [tasks EXCEPT ![p] = <<>>] /\ newest' = newest
      BY <1>4 DEF RestartPlc
    <2>2. <<>> \in Seq(Written(newest))
      BY EmptySeq
    <2>3. QED
      BY <2>1, <2>2 DEF TasksOK, EndTypes
  <1>5. QED
    BY <1>1, <1>2, <1>3, <1>4
       DEF Next, Flow, Tick, Change, TickStart, TickValues, TickHandles, SendNext, Publish, Observe,
           Lose, AddConnector, Setpoint, Rewire, RestartBackend, plcVars, vars

-----------------------------------------------------------------------------
LEMMA Invariance == Spec => []Inv
  <1>1. Init => Inv
    BY TypeInit, OrderInit DEF Inv
  <1>2. Inv /\ [Next]_vars => Inv'
    BY EndNext, MiddleNext, HeldNext, WiresNext, QueuesNext, TasksNext DEF Inv
  <1>3. QED
    BY <1>1, <1>2, PTL DEF Spec

(* Every variable keeps its type; in particular no queue grows past its    *)
(* capacity and the command in the connector's hands, and no node gets a   *)
(* value its device never had (orchestration.rs, generic_connector.rs).    *)
THEOREM TypeCorrect == Spec => []TypeOK
  <1>1. Inv => TypeOK
    <2> SUFFICES ASSUME Inv PROVE TypeOK
      OBVIOUS
    <2>1. \A d \in Devices : /\ MaxStamp[d] \in Nat /\ pub[d] \in Nat \ {0} /\ seen[d] \in Nat
                             /\ pub[d] <= MaxStamp[d] /\ seen[d] <= pub[d]
      BY DataPathAssumption DEF Inv, EndTypes, Middle
    <2>2. \A q \in Ports, d \in Devices : newest[q][d] \in Nat /\ newest[q][d] <= seen[d]
      BY DEF Inv, EndTypes, NewestOK, AtMost
    <2>3. \A q \in Ports, d \in Devices : newest[q][d] \in 0..MaxStamp[d]
      BY <2>1, <2>2
    <2>4. QED
      BY <2>1, <2>3 DEF TypeOK, Inv, EndTypes, Middle
  <1>2. QED
    BY <1>1, Invariance, PTL

(* The path of a value implements the register fed in order: what is       *)
(* written to the node of an input comes from a device the wire table      *)
(* names at some time, and is never older than what that device sent       *)
(* before; what is stored is one of the values written, or a setpoint; and *)
(* a device computes once all its inputs have one - for any PLCs, devices, *)
(* tables, capacity and losses (orchestration.rs:30-48,                    *)
(* generic_connector.rs:72-107, plc_server.rs:116-143).                    *)
THEOREM WiringImplemented == Spec => ImplementsLatestValue
  <1> DEFINE Links == {l \in Devices \X Ports : \E t \in Tables : t[l[2]] = IdOf[l[1]]}
             seenByAll == <<pub, newest, input>>
  <1>0. \A d \in Devices, q \in Ports : Linked(d, q) =>
            <<d, q>> \in Links /\ <<d, q>>[1] = d /\ <<d, q>>[2] = q
    BY DEF Linked
  <1>1. Init => Wiring!Init
    BY DEF Init, Wiring!Init, Seeded
  <1>2. Inv /\ [Next]_vars => [Wiring!Next]_seenByAll
    <2> SUFFICES ASSUME Inv, [Next]_vars
                 PROVE  Wiring!Next \/ UNCHANGED seenByAll
      OBVIOUS
    <2>1. /\ pub \in [Devices -> Nat \ {0}] /\ newest \in [Ports -> [Devices -> Nat]]
          /\ \A d \in Devices : seen[d] \in Nat /\ seen[d] <= pub[d]
      BY DEF Inv, EndTypes, Middle
    <2>2. ASSUME NEW d \in Devices, Publish(d) PROVE Wiring!Next
      <3>1. Wiring!Compute(d)
        BY <2>2 DEF Publish, Wiring!Compute
      <3>2. QED
        BY <3>1 DEF Wiring!Next
    <2>3. ASSUME NEW p \in Plcs, RestartPlc(p) PROVE Wiring!Next
      <3> DEFINE S == {d \in Devices : PlcOf[d] = p}
      <3>1. \A q \in Ports : PlcAt(q) = p <=> Owner[q] \in S
        BY DataPathAssumption DEF PlcAt
      <3>2. /\ pub' = [d \in Devices |-> IF PlcOf[d] = p THEN pub[d] + 1 ELSE pub[d]]
            /\ input' = [q \in Ports |-> IF PlcAt(q) = p THEN None ELSE input[q]]
            /\ newest' = newest
        BY <2>3 DEF RestartPlc
      <3>3. Wiring!Restart(S)
        BY <3>1, <3>2 DEF Wiring!Restart
      <3>4. QED
        BY <3>3 DEF Wiring!Next
    <2>4. ASSUME NEW p \in Plcs, Execute(p) PROVE Wiring!Next \/ UNCHANGED seenByAll
      <3> DEFINE c == queue[p][1]
                 d == c.value.from
                 q == c.port
      <3>1. queue[p] # <<>> /\ queue[p] \in Seq(Cmds)
        BY <2>4 DEF Execute, Inv, EndTypes
      <3>2. Head(queue[p]) = c /\ 1 \in 1..Len(queue[p]) /\ c \in Cmds
        BY <3>1, QueueSteps
      <3>3. /\ pub' = pub /\ input' = input
            /\ newest' = IF d = Manual THEN newest ELSE [newest EXCEPT ![q][d] = c.value.stamp]
        BY <2>4, <3>2 DEF Execute
      <3>4. CmdOK(seen, values, newest, p, c)
        BY <3>2 DEF Inv, QueuesOK
      <3>5. CASE d # Manual
        <4>1. d \in Devices /\ q \in Ports /\ c.value.stamp \in Nat
          BY <3>2, <3>5, CmdFacts, ValueFacts
        <4>2. c.value.stamp \in newest[q][d]..pub[d]
          BY <2>1, <3>4, <4>1 DEF CmdOK, AtMost
        <4>3. Wiring!Deliver(d, q)
          BY <3>3, <3>5, <4>2 DEF Wiring!Deliver
        <4>4. <<d, q>> \in Links /\ <<d, q>>[1] = d /\ <<d, q>>[2] = q
          BY <1>0, <3>4, <4>1 DEF CmdOK
        <4>5. QED
          BY <4>3, <4>4 DEF Wiring!Next
      <3>6. QED
        BY <3>3, <3>5
    <2>5. ASSUME NEW p \in Plcs, NEW k, StoreTask(p, k) PROVE Wiring!Next
      <3> DEFINE c == tasks[p][k]
                 d == c.value.from
                 q == c.port
      <3>1. c \in Written(newest) /\ k \in DOMAIN tasks[p]
        BY <2>5, ElementOfSeq, LenProperties DEF StoreTask, Inv, TasksOK
      <3>2. /\ c \in Cmds /\ q \in Ports /\ c.value \in Values
            /\ d = Manual => q \in Settable
            /\ d \in Devices => c.value.stamp <= newest[q][d] /\ Linked(d, q)
        BY <3>1, CmdFacts DEF Written
      <3>3. pub' = pub /\ newest' = newest /\ input' = [input EXCEPT ![q] = c.value]
        BY <2>5 DEF StoreTask
      <3>4. CASE d = Manual
        <4>1. c.value = [from |-> Manual, stamp |-> 0]
          BY <3>2, <3>4, DataPathAssumption DEF Values
        <4>2. Wiring!StoreSetpoint(q)
          BY <3>3, <4>1 DEF Wiring!StoreSetpoint
        <4>3. QED
          BY <3>2, <3>4, <4>2 DEF Wiring!Next
      <3>5. CASE d # Manual
        <4>1. d \in Devices /\ c.value.stamp \in Nat \ {0} /\ c.value = [from |-> d, stamp |-> c.value.stamp]
          BY <3>2, <3>5 DEF Values
        <4>2. c.value.stamp \in 1..newest[q][d]
          BY <2>1, <3>2, <4>1
        <4>3. Wiring!Store(d, q)
          BY <3>3, <4>1, <4>2 DEF Wiring!Store
        <4>4. <<d, q>> \in Links /\ <<d, q>>[1] = d /\ <<d, q>>[2] = q
          BY <1>0, <3>2, <4>1
        <4>5. QED
          BY <4>3, <4>4 DEF Wiring!Next
      <3>6. QED
        BY <3>4, <3>5
    <2>6. QED
      BY <2>2, <2>3, <2>4, <2>5
         DEF Next, Flow, Tick, Change, TickStart, TickValues, TickHandles, SendNext, Observe,
             Lose, AddConnector, Setpoint, Rewire, RestartBackend, plcVars, vars
  <1>3. QED
    BY <1>1, <1>2, Invariance, PTL DEF Spec, ImplementsLatestValue, Wiring!Spec

-----------------------------------------------------------------------------
(* An input at its source stays there.                                     *)

\* What is stored of a device is one of the values written to the port.
InputOK ==
    \A q \in Ports, d \in Devices, n \in Nat :
        input[q] = [from |-> d, stamp |-> n] => input[q] = None \/ n <= newest[q][d]

LEMMA StoreFacts ==
    ASSUME Inv, NEW p \in Plcs, NEW k, StoreTask(p, k)
    PROVE  /\ k \in 1..Len(tasks[p]) /\ tasks[p] \in Seq(Cmds)
           /\ tasks[p][k] \in Cmds /\ tasks[p][k] \in Written(newest)
           /\ input' = [input EXCEPT ![tasks[p][k].port] = tasks[p][k].value]
           /\ tasks' = [tasks EXCEPT ![p] = RemoveAt(tasks[p], k)]
  <1>1. tasks[p] \in Seq(Written(newest)) /\ tasks[p] \in Seq(Cmds)
    BY DEF Inv, TasksOK, EndTypes
  <1>2. k \in 1..Len(tasks[p])
    BY <1>1 DEF StoreTask
  <1>3. tasks[p][k] \in Cmds /\ tasks[p][k] \in Written(newest)
    BY <1>1, <1>2
  <1>4. QED
    BY <1>1, <1>2, <1>3 DEF StoreTask

LEMMA InputNext ==
    ASSUME Inv, InputOK, [Next]_vars
    PROVE  InputOK'
  <1>1. \A q \in Ports, d \in Devices :
            newest[q][d] \in Nat /\ newest'[q][d] \in Nat /\ newest[q][d] <= newest'[q][d]
    BY NewestGrows DEF Inv
  <1>2. CASE \A q \in Ports : input'[q] = input[q] \/ input'[q] = None
    BY <1>1, <1>2 DEF InputOK
  <1>3. ASSUME NEW p \in Plcs, NEW k, StoreTask(p, k) PROVE InputOK'
    <2> DEFINE c == tasks[p][k]
    <2>1. c \in Written(newest) /\ c \in Cmds
      BY <1>3, StoreFacts
    <2>2. input' = [input EXCEPT ![c.port] = c.value] /\ newest' = newest
      BY <1>3 DEF StoreTask
    <2>3. c.value.from \in Devices => c.value.stamp <= newest[c.port][c.value.from]
      BY <2>1 DEF Written
    <2>4. c.port \in Ports
      BY <2>1, CmdFacts
    <2>5. ASSUME NEW q \in Ports, NEW d \in Devices, NEW n \in Nat, input'[q] = [from |-> d, stamp |-> n]
          PROVE  input'[q] = None \/ n <= newest'[q][d]
      <3>1. CASE q = c.port
        BY <2>2, <2>3, <2>4, <2>5, <3>1 DEF Inv, EndTypes
      <3>2. CASE q # c.port
        BY <2>2, <2>4, <2>5, <3>2 DEF Inv, EndTypes, InputOK
      <3>3. QED
        BY <3>1, <3>2
    <2>6. QED
      BY <2>5 DEF InputOK
  <1>4. ASSUME NEW p \in Plcs, RestartPlc(p) PROVE InputOK'
    <2>1. \A q \in Ports : input'[q] = input[q] \/ input'[q] = None
      BY <1>4 DEF RestartPlc
    <2>2. QED
      BY <1>2, <2>1
  <1>5. QED
    BY <1>2, <1>3, <1>4
       DEF Next, Flow, Tick, Change, TickStart, TickValues, TickHandles, SendNext, Publish, Observe,
           Execute, Lose, AddConnector, Setpoint, Rewire, RestartBackend, plcVars, vars

LEMMA InputInvariance == Spec => []InputOK
  <1>1. Init => InputOK
    BY DEF Init, InputOK
  <1>2. Inv /\ InputOK /\ [Next]_vars => InputOK'
    BY InputNext
  <1>3. QED
    BY <1>1, <1>2, Invariance, PTL DEF Spec

(* A sequence that keeps what all its elements have.                       *)
LEMMA AllHave ==
    ASSUME NEW S, NEW T, NEW s \in Seq(S), \A k \in 1..Len(s) : s[k] \in T
    PROVE  s \in Seq(T)
  OBVIOUS

\* While port q is at its source d, what is queued of d for it is the newest too.
LEMMA QueuedIsNewest ==
    ASSUME Inv, InputOK, NEW d \in Devices, NEW q \in Ports, AtSource(d, q), input[q] # None,
           NEW p \in Plcs, NEW k \in 1..Len(queue[p]), queue[p][k].port = q
    PROVE  queue[p][k].value = input[q]
  <1> DEFINE v == queue[p][k].value
  <1>1. queue[p] \in Seq(Cmds) /\ pub[d] \in Nat /\ seen[d] \in Nat /\ seen[d] <= pub[d]
    BY DEF Inv, EndTypes, Middle
  <1>2. v \in Values /\ v.from = d
    BY <1>1, QueueSteps, CmdFacts DEF AtSource
  <1>3. v.stamp \in Nat /\ v = [from |-> d, stamp |-> v.stamp]
    BY <1>2, ValueFacts, DataPathAssumption DEF Values
  <1>4. v.stamp <= seen[d] /\ newest[q][d] <= v.stamp
    BY <1>2 DEF Inv, QueuesOK, CmdOK, AtMost
  <1>5. input[q] = [from |-> d, stamp |-> pub[d]]
    BY DEF AtSource
  <1>6. pub[d] <= newest[q][d] /\ newest[q][d] \in Nat
    BY <1>1, <1>5 DEF InputOK, Inv, EndTypes
  <1>7. v.stamp = pub[d]
    BY <1>1, <1>3, <1>4, <1>6
  <1>8. QED
    BY <1>3, <1>5, <1>7

LEMMA StaysNext ==
    ASSUME Inv, InputOK, Next, NEW d \in Devices, NEW q \in Ports, AtSource(d, q),
           ~Disturbed(d, q)
    PROVE  AtSource(d, q)'
  <1> DEFINE Stored == {c \in Cmds : c.port = q => c.value = input[q]}
             Queued == {c \in Cmds : c.port = q => c.value.from = d}
  <1>1. pub'[d] = pub[d] /\ table'[q] = table[q] /\ input'[q] # None /\ ~Setpoint(q)
    BY DEF Disturbed
  <1>2. /\ \A p \in Plcs : tasks[p] \in Seq(Cmds) /\ queue[p] \in Seq(Cmds)
        /\ tasks \in [Plcs -> Seq(Cmds)] /\ queue \in [Plcs -> Seq(Cmds)]
        /\ input \in [Ports -> Values \cup {None}]
    BY DEF Inv, EndTypes
  <1>3. \A p \in Plcs : tasks[p] \in Seq(Stored) /\ queue[p] \in Seq(Queued)
    <2> SUFFICES ASSUME NEW p \in Plcs PROVE tasks[p] \in Seq(Stored) /\ queue[p] \in Seq(Queued)
      OBVIOUS
    <2>1. \A k \in 1..Len(tasks[p]) : tasks[p][k] \in Stored
      BY <1>2 DEF AtSource
    <2>2. \A k \in 1..Len(queue[p]) : queue[p][k] \in Queued
      BY <1>2 DEF AtSource
    <2>3. QED
      BY <1>2, <2>1, <2>2, AllHave
  <1>4. input'[q] = input[q]
    <2>1. ASSUME NEW p \in Plcs, NEW k, StoreTask(p, k) PROVE input'[q] = input[q]
      <3>1. k \in DOMAIN tasks[p] /\ tasks[p][k].port \in Ports
            /\ input' = [input EXCEPT ![tasks[p][k].port] = tasks[p][k].value]
        BY <1>2, <2>1, StoreFacts, CmdFacts
      <3>2. tasks[p][k].port = q => tasks[p][k].value = input[q]
        BY <3>1 DEF AtSource
      <3>3. QED
        BY <1>2, <3>1, <3>2
    <2>2. ASSUME NEW p \in Plcs, RestartPlc(p) PROVE input'[q] = input[q]
      BY <1>1, <2>2 DEF RestartPlc
    <2>3. QED
      BY <2>1, <2>2
         DEF Next, Flow, Tick, Change, TickStart, TickValues, TickHandles, SendNext, Publish, Observe,
             Execute, Lose, AddConnector, Setpoint, Rewire, RestartBackend, plcVars
  <1>5. input[q] # None
    BY <1>1, <1>4
  <1>6. \A p \in Plcs : tasks'[p] \in Seq(Stored)
    <2>1. ASSUME NEW p \in Plcs, Execute(p) PROVE \A r \in Plcs : tasks'[r] \in Seq(Stored)
      <3>1. queue[p] # <<>> /\ tasks' = [tasks EXCEPT ![p] = Append(tasks[p], Head(queue[p]))]
        BY <2>1 DEF Execute
      <3>2. 1 \in 1..Len(queue[p]) /\ Head(queue[p]) = queue[p][1] /\ Head(queue[p]) \in Cmds
        BY <1>2, <3>1, QueueSteps
      <3>3. Head(queue[p]) \in Stored
        BY <1>5, <3>2, QueuedIsNewest
      <3>4. Append(tasks[p], Head(queue[p])) \in Seq(Stored)
        BY <1>3, <3>3, QueueSteps
      <3>5. QED
        BY <1>2, <1>3, <3>1, <3>4
    <2>2. ASSUME NEW p \in Plcs, NEW k, StoreTask(p, k) PROVE \A r \in Plcs : tasks'[r] \in Seq(Stored)
      <3>1. k \in DOMAIN tasks[p] /\ tasks' = [tasks EXCEPT ![p] = RemoveAt(tasks[p], k)]
        BY <1>2, <2>2, StoreFacts
      <3>2. RemoveAt(tasks[p], k) \in Seq(Stored)
        BY <1>3, <3>1, RemoveSteps
      <3>3. QED
        BY <1>2, <1>3, <3>1, <3>2
    <2>3. ASSUME NEW p \in Plcs, RestartPlc(p) PROVE \A r \in Plcs : tasks'[r] \in Seq(Stored)
      <3>1. tasks' = [tasks EXCEPT ![p] = <<>>]
        BY <2>3 DEF RestartPlc
      <3>2. QED
        BY <1>2, <1>3, <3>1, EmptySeq
    <2>4. CASE tasks' = tasks
      BY <1>3, <2>4
    <2>5. QED
      BY <2>1, <2>2, <2>3, <2>4
         DEF Next, Flow, Tick, Change, TickStart, TickValues, TickHandles, SendNext, Publish, Observe,
             Lose, AddConnector, Setpoint, Rewire, RestartBackend, plcVars
  <1>7. \A p \in Plcs : queue'[p] \in Seq(Queued)
    <2>1. ASSUME NEW p \in Plcs, Execute(p) \/ Lose(p) PROVE \A r \in Plcs : queue'[r] \in Seq(Queued)
      <3>1. queue[p] # <<>> /\ queue' = [queue EXCEPT ![p] = Tail(queue[p])]
        BY <2>1 DEF Execute, Lose
      <3>2. Tail(queue[p]) \in Seq(Queued)
        BY <1>3, <3>1, QueueSteps
      <3>3. QED
        BY <1>2, <1>3, <3>1, <3>2
    <2>2. ASSUME NEW r \in Ports, NEW v \in Values, Send(r, v), r = q => v.from = d
          PROVE  \A p \in Plcs : queue'[p] \in Seq(Queued)
      <3> DEFINE s == queue[PlcAt(r)]
                 c == [port |-> r, value |-> v]
      <3>1. c \in Queued /\ PlcAt(r) \in Plcs
        BY <2>2, CmdFacts, ConstantFacts
      <3>2. Append(s, c) \in Seq(Queued)
        BY <1>3, <3>1, QueueSteps
      <3>3. queue' = queue \/ queue' = [queue EXCEPT ![PlcAt(r)] = Append(s, c)]
        BY <2>2 DEF Send
      <3>4. QED
        BY <1>2, <1>3, <3>1, <3>2, <3>3
    <2>3. ASSUME NEW r \in Ports, SendNext(r) PROVE \A p \in Plcs : queue'[p] \in Seq(Queued)
      <3>1. CASE queue' = queue
        BY <1>3, <3>1
      <3>2. CASE queue' # queue
        <4>1. values[wires[r]] # None /\ wires[r] # None /\ Send(r, values[wires[r]])
          BY <2>3, <3>2 DEF SendNext
        <4>2. wires[r] \in Ids /\ values[wires[r]] \in Values
          BY <4>1 DEF Inv, Middle
        <4>3. values[wires[r]].from \in Devices /\ IdOf[values[wires[r]].from] = wires[r]
          BY <4>1, <4>2 DEF Inv, HeldOK
        <4>4. r = q => values[wires[r]].from = d
          BY <4>1, <4>3 DEF AtSource, IsSource
        <4>5. QED
          BY <2>2, <4>1, <4>2, <4>4
      <3>3. QED
        BY <3>1, <3>2
    <2>4. ASSUME NEW r \in Settable, Setpoint(r) PROVE \A p \in Plcs : queue'[p] \in Seq(Queued)
      BY <1>1, <2>2, <2>4, ValueFacts, DataPathAssumption DEF Setpoint
    <2>5. ASSUME NEW t \in Tables, RestartBackend(t) PROVE \A p \in Plcs : queue'[p] \in Seq(Queued)
      BY <2>5, EmptySeq DEF RestartBackend
    <2>6. CASE queue' = queue
      BY <1>3, <2>6
    <2>7. QED
      BY <2>1, <2>3, <2>4, <2>5, <2>6
         DEF Next, Flow, Tick, Change, TickStart, TickValues, TickHandles, Publish, Observe,
             StoreTask, RestartPlc, AddConnector, Rewire, plcVars
  <1>8. wires'[q] \in {None, table'[q]}
    <2>1. wires[q] \in {None, table[q]}
      BY DEF AtSource
    <2>2. CASE wires' = wires \/ wires' = table \/ wires' = NoWires
      BY <1>1, <2>1, <2>2 DEF NoWires
    <2>3. ASSUME NEW r \in Ports, SendNext(r) PROVE wires'[q] \in {None, table'[q]}
      <3>1. CASE wires' = [wires EXCEPT ![r] = None]
        BY <1>1, <2>1, <3>1 DEF Inv, Middle
      <3>2. QED
        BY <2>2, <2>3, <3>1 DEF SendNext, ToSleep
    <2>4. QED
      BY <2>2, <2>3
         DEF Next, Flow, Tick, Change, TickStart, TickValues, TickHandles, ToSleep, Publish, Observe,
             Execute, StoreTask, RestartPlc, Lose, AddConnector, Setpoint, Rewire, RestartBackend,
             tickVars
  <1>9. ASSUME NEW p \in Plcs
        PROVE  /\ \A k \in DOMAIN tasks'[p] : tasks'[p][k].port = q => tasks'[p][k].value = input[q]
               /\ \A k \in DOMAIN queue'[p] : queue'[p][k].port = q => queue'[p][k].value.from = d
    <2>1. tasks'[p] \in Seq(Stored) /\ queue'[p] \in Seq(Queued)
      BY <1>6, <1>7
    <2>2. \A k \in DOMAIN tasks'[p] : tasks'[p][k] \in Stored
      BY <2>1
    <2>3. \A k \in DOMAIN queue'[p] : queue'[p][k] \in Queued
      BY <2>1
    <2>4. QED
      BY <2>2, <2>3
  <1>10. IsSource(d, q)'
    BY <1>1 DEF AtSource, IsSource
  <1>11. QED
    BY <1>1, <1>4, <1>8, <1>9, <1>10 DEF AtSource

(* An input that is at its source stays there until the source computes or *)
(* the input is rewired, set by hand or lost: the safety half of           *)
(* EndsAtSource, for any PLCs, tables and capacity (orchestration.rs:30-48, *)
(* generic_connector.rs:72-107, plc_server.rs:116-143).                    *)
THEOREM SourceKept == Spec => StaysAtSource
  <1>1. Inv /\ InputOK /\ [Next]_vars =>
            [\A d \in Devices, q \in Ports :
                AtSource(d, q) => AtSource(d, q)' \/ Disturbed(d, q)]_vars
    BY StaysNext
  <1>2. QED
    BY <1>1, Invariance, InputInvariance, PTL DEF Spec, StaysAtSource

=============================================================================
