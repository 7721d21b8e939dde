---------------------------- MODULE WsStreamProofs ----------------------------
(***************************************************************************)
(* Proofs about WsStream: one socket or one timer, what subscribers see,   *)
(* and why values never go back while the client is used as main.ts uses   *)
(* it.                                                                     *)
(***************************************************************************)
EXTENDS WsStream, FiniteSetTheorems, TLAPS

(* Append and Tail, element by element.                                    *)
LEMMA QueueSteps ==
    ASSUME NEW S, NEW q \in Seq(S)
    PROVE  /\ \A e \in S : /\ Append(q, e) \in Seq(S)
                           /\ Len(Append(q, e)) = Len(q) + 1
                           /\ \A k \in 1..Len(q) : Append(q, e)[k] = q[k]
                           /\ Append(q, e)[Len(q) + 1] = e
           /\ q # <<>> => /\ Len(q) \in Nat \ {0}
                          /\ Head(q) \in S /\ Head(q) = q[1]
                          /\ Tail(q) \in Seq(S)
                          /\ Len(Tail(q)) = Len(q) - 1
                          /\ \A k \in 1..Len(Tail(q)) : Tail(q)[k] = q[k + 1]
  OBVIOUS

-----------------------------------------------------------------------------
(* Types.                                                                  *)
LEMMA TypeInit == Init => TypeOK
  <1> SUFFICES ASSUME Init PROVE TypeOK
    OBVIOUS
  <1> USE WsStreamAssumption DEF Init
  <1>1. <<>> \in Seq(Snapshots) /\ Len(<<>>) <= MaxInFlight
    OBVIOUS
  <1>2. inFlight \in [Sockets -> Seq(Snapshots)] /\ \A s \in Sockets : Len(inFlight[s]) <= MaxInFlight
    BY <1>1
  <1>3. NoDevices \in Snapshots
    BY DEF NoDevices, Snapshots, Values
  <1>4. socket \in [Sockets -> ReadyState] /\ timers \in 0..MaxTimers /\ delay \in Delays
    BY DEF ReadyState, Delays
  <1>5. ingested \in Snapshots /\ devices \in Snapshots /\ shown \in Snapshots
    BY <1>3
  <1>6. QED
    BY <1>2, <1>4, <1>5 DEF TypeOK

LEMMA TypeNext == TypeOK /\ [Next]_vars => TypeOK'
  <1> SUFFICES ASSUME TypeOK, [Next]_vars PROVE TypeOK'
    OBVIOUS
  <1> USE WsStreamAssumption
  <1>1. ASSUME NEW d \in Devices, Merge(d) PROVE TypeOK'
    <2>1. ingested' \in Snapshots
      BY <1>1 DEF Merge, TypeOK, Snapshots, Values
    <2>2. QED
      BY <1>1, <2>1 DEF Merge, TypeOK, clientVars, stateVars
  <1>2. ASSUME NEW d \in Devices, subscribe(d) PROVE TypeOK'
    <2>1. shown' \in Snapshots
      BY <1>2 DEF subscribe, TypeOK, Snapshots
    <2>2. QED
      BY <1>2, <2>1 DEF subscribe, TypeOK, clientVars, serverVars
  <1>3. ASSUME NEW s \in Sockets, connect(s) PROVE TypeOK'
    <2>1. s \notin serving
      BY <1>3 DEF connect, Open, TypeOK
    <2>2. QED
      BY <1>3, <2>1 DEF connect, Open, TypeOK, ReadyState, stateVars, serverVars
  <1>4. ASSUME NEW s \in Sockets, Accept(s) PROVE TypeOK'
    BY <1>4 DEF Accept, TypeOK, clientVars, stateVars
  <1>5. ASSUME NEW s \in Sockets, Send(s) PROVE TypeOK'
    <2>1. Append(inFlight[s], ingested) \in Seq(Snapshots)
      BY <1>5, QueueSteps DEF TypeOK
    <2>2. Len(Append(inFlight[s], ingested)) <= MaxInFlight
      BY <1>5, QueueSteps DEF TypeOK, Send
    <2>3. inFlight' = [inFlight EXCEPT ![s] = Append(inFlight[s], ingested)]
      BY <1>5 DEF Send
    <2>4. inFlight' \in [Sockets -> Seq(Snapshots)]
      BY <2>1, <2>3 DEF TypeOK
    <2>5. \A t \in Sockets : Len(inFlight'[t]) <= MaxInFlight
      BY <2>2, <2>3 DEF TypeOK
    <2>6. QED
      BY <1>5, <2>4, <2>5 DEF Send, TypeOK, clientVars, stateVars
  <1>6. ASSUME NEW s \in Sockets, onopen(s) PROVE TypeOK'
    BY <1>6 DEF onopen, TypeOK, ReadyState, Delays, serverVars, stateVars
  <1>7. ASSUME NEW s \in Sockets, onmessage(s) PROVE TypeOK'
    <2>1. /\ Head(inFlight[s]) \in Snapshots /\ Tail(inFlight[s]) \in Seq(Snapshots)
          /\ Len(Tail(inFlight[s])) <= MaxInFlight
      BY <1>7, QueueSteps DEF onmessage, TypeOK
    <2>2. inFlight' = [inFlight EXCEPT ![s] = Tail(inFlight[s])]
      BY <1>7 DEF onmessage
    <2>3. inFlight' \in [Sockets -> Seq(Snapshots)] /\ \A t \in Sockets : Len(inFlight'[t]) <= MaxInFlight
      BY <2>1, <2>2 DEF TypeOK
    <2>4. devices' \in Snapshots
      BY <1>7, <2>1 DEF onmessage, NewDevices, TypeOK, Snapshots
    <2>5. shown' \in Snapshots
      BY <1>7, <2>1 DEF onmessage, TypeOK, Snapshots
    <2>6. QED
      BY <1>7, <2>3, <2>4, <2>5 DEF onmessage, TypeOK, clientVars
  <1>8. ASSUME NEW s \in Sockets, onclose(s) PROVE TypeOK'
    <2>1. s \notin serving
      BY <1>8 DEF onclose, TypeOK
    <2>2. timers' \in 0..MaxTimers
      BY <1>8 DEF onclose, OneMoreTimer, TypeOK
    <2>3. QED
      BY <1>8, <2>1, <2>2 DEF onclose, TypeOK, ReadyState, serverVars, stateVars
  <1>9. ASSUME NEW s \in Sockets, Reconnect(s) PROVE TypeOK'
    <2>1. s \notin serving
      BY <1>9 DEF Reconnect, Open, TypeOK
    <2>2. timers' \in 0..MaxTimers
      BY <1>9 DEF Reconnect, TypeOK
    <2>3. delay' \in Delays
      BY <1>9 DEF Reconnect, Longer, TypeOK, Delays
    <2>4. QED
      BY <1>9, <2>1, <2>2, <2>3 DEF Reconnect, Open, TypeOK, ReadyState, serverVars, stateVars
  <1>10. ASSUME NEW s \in Sockets, Break(s) PROVE TypeOK'
    BY <1>10 DEF Break, Close, OnError, TypeOK, ReadyState, stateVars
  <1>11. ASSUME disconnect PROVE TypeOK'
    <2>1. CASE ws # NoSocket /\ socket[ws] \in {"connecting", "open"}
      <3>1. ws \in Sockets /\ Close(ws)
        BY <1>11, <2>1 DEF disconnect, TypeOK
      <3>2. /\ socket' \in [Sockets -> ReadyState]
            /\ serving' \in SUBSET Sockets
            /\ \A s \in serving' : socket'[s] \in {"connecting", "open"}
        BY <3>1 DEF Close, TypeOK, ReadyState
      <3>3. /\ inFlight' \in [Sockets -> Seq(Snapshots)]
            /\ \A s \in Sockets : Len(inFlight'[s]) <= MaxInFlight
        BY <3>1 DEF Close, TypeOK
      <3>4. QED
        BY <1>11, <3>2, <3>3 DEF disconnect, TypeOK, stateVars
    <2>2. CASE ~(ws # NoSocket /\ socket[ws] \in {"connecting", "open"})
      BY <1>11, <2>2 DEF disconnect, TypeOK, stateVars
    <2>3. QED
      BY <2>1, <2>2
  <1>12. CASE UNCHANGED vars
    BY <1>12 DEF vars, serverVars, clientVars, stateVars, TypeOK
  <1>13. QED
    BY <1>1, <1>2, <1>3, <1>4, <1>5, <1>6, <1>7, <1>8, <1>9, <1>10, <1>11, <1>12 DEF Next, Stream

(* Every variable has its type, and only live sockets are served           *)
(* (ws-client.ts:9-66, ws_bridge.rs stream_state, state.ts).               *)
THEOREM TypeCorrect == Spec => []TypeOK
  BY TypeInit, TypeNext, PTL DEF Spec

-----------------------------------------------------------------------------
(* What a subscriber shows.  Before its subscription it was shown nothing. *)
ShowInv == ShowsState /\ \A d \in Devices \ subscribed : shown[d] = 0

LEMMA ShowNext ==
    ASSUME TypeOK, ShowInv, [Next]_vars
    PROVE  ShowInv'
  <1> USE DEF ShowInv, ShowsState
  <1>1. ASSUME NEW d \in Devices, subscribe(d) PROVE ShowInv'
    BY <1>1 DEF subscribe, SubscribeNow, TypeOK, Snapshots
  <1>2. ASSUME NEW s \in Sockets, onmessage(s) PROVE ShowInv'
    <2>1. PICK snapshot : /\ devices' = NewDevices(snapshot)
                          /\ shown' = [d \in Devices |-> IF d \in Changed(snapshot) \cap subscribed
                                                         THEN snapshot[d] ELSE shown[d]]
      BY <1>2 DEF onmessage
    <2>2. subscribed' = subscribed /\ subscribed \subseteq Devices
      BY <1>2 DEF onmessage, TypeOK
    <2>3. \A d \in Devices : NewDevices(snapshot)[d] = IF snapshot[d] # 0 THEN snapshot[d] ELSE devices[d]
      BY DEF NewDevices
    <2>4. QED
      BY <2>1, <2>2, <2>3 DEF Changed
  <1>3. CASE UNCHANGED stateVars
    BY <1>3 DEF stateVars
  <1>4. QED
    BY <1>1, <1>2, <1>3
       DEF Next, Stream, Merge, connect, Accept, Send, onopen, onclose, Reconnect, Break,
           disconnect, clientVars, vars

(* A subscriber shows the last value of its device, whenever it came       *)
(* (state.ts:14-38).                                                       *)
THEOREM SubscribersShowState == Spec => []ShowsState
  <1>1. Init => ShowInv
    BY DEF Init, ShowInv, ShowsState, NoDevices
  <1>2. TypeOK /\ ShowInv /\ [Next]_vars => ShowInv'
    BY ShowNext
  <1>3. ShowInv => ShowsState
    BY DEF ShowInv
  <1>4. QED
    BY <1>1, <1>2, <1>3, TypeCorrect, PTL DEF Spec

-----------------------------------------------------------------------------
(* Sockets and timers.  Live sockets are Live; Open adds one to them.      *)
LEMMA LiveSteps ==
    ASSUME TypeOK, NEW s \in Sockets
    PROVE  /\ Open(s) => Live' = Live \cup {s}
           /\ Close(s) /\ socket[s] # "free" => Live' = Live
           /\ socket' = [socket EXCEPT ![s] = "free"] => Live' = Live \ {s}
           /\ socket' = [socket EXCEPT ![s] = "open"] /\ socket[s] # "free" => Live' = Live
           /\ socket' = socket => Live' = Live
  BY DEF TypeOK, Live, Open, Close

(* What each step does to the sockets and timers.                          *)
LEMMA LiveNext ==
    ASSUME TypeOK, [Next]_vars
    PROVE  \/ Live' = Live /\ UNCHANGED <<timers, ws, asMain>> /\ (stopped' = stopped)
           \/ Live' = Live /\ UNCHANGED <<timers, ws>> /\ stopped' = TRUE /\ asMain' = FALSE
           \/ \E s \in Sockets : connect(s) /\ Live' = Live \cup {s}
           \/ \E s \in Sockets : Reconnect(s) /\ Live' = Live \cup {s}
           \/ \E s \in Live : onclose(s) /\ Live' = Live \ {s}
  <1>1. ASSUME NEW s \in Sockets, connect(s) PROVE Live' = Live \cup {s}
    BY <1>1, LiveSteps DEF connect
  <1>2. ASSUME NEW s \in Sockets, Reconnect(s) PROVE Live' = Live \cup {s}
    BY <1>2, LiveSteps DEF Reconnect
  <1>3. ASSUME NEW s \in Sockets, onclose(s) PROVE s \in Live /\ Live' = Live \ {s}
    BY <1>3, LiveSteps DEF onclose, Live
  <1>4. ASSUME NEW s \in Sockets, onopen(s) \/ Break(s)
        PROVE  Live' = Live /\ UNCHANGED <<timers, ws, asMain, stopped>>
    BY <1>4, LiveSteps DEF onopen, Break, OnError
  <1>5. ASSUME disconnect
        PROVE  Live' = Live /\ UNCHANGED <<timers, ws>> /\ stopped' = TRUE /\ asMain' = FALSE
    <2>1. CASE ws # NoSocket /\ socket[ws] \in {"connecting", "open"}
      BY <1>5, <2>1, LiveSteps DEF disconnect, TypeOK
    <2>2. CASE ~(ws # NoSocket /\ socket[ws] \in {"connecting", "open"})
      BY <1>5, <2>2 DEF disconnect, Live
    <2>3. QED
      BY <2>1, <2>2
  <1>6. CASE UNCHANGED <<socket, timers, ws, asMain, stopped>>
    BY <1>6 DEF Live
  <1>7. QED
    BY <1>1, <1>2, <1>3, <1>4, <1>5, <1>6
       DEF Next, Stream, Merge, subscribe, Accept, Send, onmessage, clientVars, vars

(* A client that was not told to stop has a socket, or a timer that will   *)
(* open one, after any calls and failures (ws-client.ts:48-66).            *)
THEOREM NotStranded == Spec => []NeverStranded
  <1>1. Init => NeverStranded
    BY DEF Init, NeverStranded
  <1>2. ASSUME TypeOK, NeverStranded, [Next]_vars PROVE NeverStranded'
    <2> USE DEF NeverStranded
    <2>1. CASE Live' = Live /\ UNCHANGED <<timers, ws, asMain>> /\ stopped' = stopped
      BY <1>2, <2>1
    <2>2. CASE stopped' = TRUE
      BY <2>2
    <2>3. CASE \E s \in Sockets : Live' = Live \cup {s}
      BY <2>3
    <2>4. ASSUME NEW s \in Live, onclose(s) PROVE NeverStranded'
      <3>1. stopped' = stopped /\ (~stopped => timers' = OneMoreTimer)
        BY <2>4 DEF onclose, Retry
      <3>2. OneMoreTimer > 0
        BY <1>2, WsStreamAssumption DEF TypeOK, OneMoreTimer
      <3>3. QED
        BY <3>1, <3>2
    <2>5. QED
      BY <1>2, <2>1, <2>2, <2>3, <2>4, LiveNext
  <1>3. QED
    BY <1>1, <1>2, TypeCorrect, PTL DEF Spec

(* Used as main.ts does: one socket, or one timer, or nothing yet.         *)
SoleInv ==
    asMain =>
        /\ ws = NoSocket => Live = {} /\ timers = 0
        /\ \/ Live = {} /\ timers \in {0, 1}
           \/ timers = 0 /\ \E s \in Sockets : Live = {s}

LEMMA SoleNext ==
    ASSUME TypeOK, SoleInv, [Next]_vars
    PROVE  SoleInv'
  <1>1. CASE Live' = Live /\ UNCHANGED <<timers, ws, asMain>>
    BY <1>1 DEF SoleInv
  <1>2. CASE asMain' = FALSE
    BY <1>2 DEF SoleInv
  <1>3. ASSUME NEW s \in Sockets, connect(s), Live' = Live \cup {s}, asMain' PROVE SoleInv'
    <2>1. asMain /\ ws = NoSocket /\ ws' = s /\ timers' = timers
      BY <1>3 DEF connect, Open
    <2>2. Live = {} /\ timers = 0
      BY <2>1 DEF SoleInv
    <2>3. Live' = {s} /\ timers' = 0 /\ ws' # NoSocket
      BY <1>3, <2>1, <2>2, WsStreamAssumption
    <2>4. QED
      BY <2>3 DEF SoleInv
  <1>4. ASSUME NEW s \in Sockets, Reconnect(s), Live' = Live \cup {s}, asMain' PROVE SoleInv'
    <2>1. asMain /\ timers > 0 /\ timers' = timers - 1 /\ ws' = s
      BY <1>4 DEF Reconnect, Open
    <2>2. Live = {} /\ timers = 1
      BY <2>1 DEF SoleInv
    <2>3. Live' = {s} /\ timers' = 0 /\ ws' # NoSocket
      BY <1>4, <2>1, <2>2, WsStreamAssumption
    <2>4. QED
      BY <2>3 DEF SoleInv
  <1>5. ASSUME NEW s \in Live, onclose(s), Live' = Live \ {s}, asMain' PROVE SoleInv'
    <2>1. asMain /\ ws' = ws /\ timers' \in {timers, OneMoreTimer}
      BY <1>5 DEF onclose
    <2>2. Live = {s} /\ timers = 0 /\ ws # NoSocket
      BY <1>5, <2>1 DEF SoleInv
    <2>3. Live' = {} /\ timers' \in {0, 1}
      BY <1>5, <2>1, <2>2 DEF OneMoreTimer
    <2>4. QED
      BY <2>1, <2>2, <2>3 DEF SoleInv
  <1>6. QED
    BY <1>1, <1>2, <1>3, <1>4, <1>5, LiveNext DEF SoleInv

LEMMA SoleHolds == Spec => []SoleInv
  <1>1. Init => SoleInv
    BY DEF Init, SoleInv, Live
  <1>2. TypeOK /\ SoleInv /\ [Next]_vars => SoleInv'
    BY SoleNext
  <1>3. QED
    BY <1>1, <1>2, TypeCorrect, PTL DEF Spec

(* Each close event schedules one reconnect and each reconnect opens one   *)
(* socket (ws-client.ts:20-66).                                            *)
THEOREM SocketOrTimer == Spec => []OneSocket
  <1>1. TypeOK /\ SoleInv => OneSocket
    <2>1. Cardinality({}) = 0 /\ \A s \in Sockets : Cardinality({s}) = 1
      BY FS_EmptySet, FS_Singleton
    <2>2. QED
      BY <2>1 DEF SoleInv, OneSocket
  <1>2. QED
    BY <1>1, SoleHolds, TypeCorrect, PTL

-----------------------------------------------------------------------------
(* Frames are in order.  Only a connected socket has frames, so that under *)
(* SoleInv there is one queue of them, between what is shown and what the  *)
(* backend has.                                                            *)
Between(d, s) ==
    /\ \A k \in 1..Len(inFlight[s]) : devices[d] <= inFlight[s][k][d] /\ inFlight[s][k][d] <= ingested[d]
    /\ \A j, k \in 1..Len(inFlight[s]) : j <= k => inFlight[s][j][d] <= inFlight[s][k][d]

OrderInv ==
    /\ \A s \in Sockets : inFlight[s] # <<>> => socket[s] \in {"connecting", "open"}
    /\ asMain => \A d \in Devices : /\ devices[d] <= ingested[d]
                                   /\ \A s \in Sockets : Between(d, s)

LEMMA EmptyBetween ==
    ASSUME NEW d, NEW s, inFlight'[s] = <<>>
    PROVE  Between(d, s)'
  BY DEF Between

(* The only step that changes devices, and that it does not go back.       *)
LEMMA MessageStep ==
    ASSUME TypeOK, SoleInv, OrderInv, NEW s \in Sockets, onmessage(s), asMain
    PROVE  \A d \in Devices : /\ devices'[d] = inFlight[s][1][d]
                             /\ devices[d] <= devices'[d] /\ devices'[d] <= ingested[d]
                             /\ \A t \in Sockets : Between(d, t)'
  <1> DEFINE q == inFlight[s]
  <1>1. /\ q \in Seq(Snapshots) /\ q # <<>>
        /\ Len(q) \in Nat \ {0} /\ Head(q) = q[1] /\ q[1] \in Snapshots
        /\ Len(Tail(q)) = Len(q) - 1 /\ \A k \in 1..Len(Tail(q)) : Tail(q)[k] = q[k + 1]
    BY QueueSteps DEF onmessage, TypeOK
  <1>2. devices' = NewDevices(q[1]) /\ inFlight' = [inFlight EXCEPT ![s] = Tail(q)]
        /\ UNCHANGED <<ingested, asMain>>
    BY <1>1 DEF onmessage
  <1>3. \A d \in Devices : devices[d] \in Nat /\ q[1][d] \in Nat /\ ingested[d] \in Nat
    BY <1>1 DEF TypeOK, Snapshots, Values
  <1>4. \A d \in Devices : devices[d] <= q[1][d] /\ q[1][d] <= ingested[d]
    BY <1>1 DEF OrderInv, Between
  <1>5. \A d \in Devices : devices'[d] = q[1][d]
    BY <1>2, <1>3, <1>4 DEF NewDevices
  <1>6. ASSUME NEW d \in Devices, NEW t \in Sockets PROVE Between(d, t)'
    <2>1. CASE t = s
      <3>1. inFlight'[s] = Tail(q)
        BY <1>2 DEF TypeOK
      <3>2. ASSUME NEW k \in 1..Len(Tail(q))
            PROVE  /\ k + 1 \in 1..Len(q) /\ Tail(q)[k] = q[k + 1]
                   /\ q[1][d] <= q[k + 1][d] /\ q[k + 1][d] <= ingested[d]
        <4>1. k + 1 \in 1..Len(q) /\ 1 \in 1..Len(q) /\ 1 <= k + 1
          BY <1>1
        <4>2. QED
          BY <1>1, <4>1 DEF OrderInv, Between
      <3>3. ASSUME NEW j \in 1..Len(Tail(q)), NEW k \in 1..Len(Tail(q)), j <= k
            PROVE  Tail(q)[j][d] <= Tail(q)[k][d]
        <4>1. j + 1 <= k + 1
          BY <1>1, <3>3
        <4>2. QED
          BY <3>2, <4>1 DEF OrderInv, Between
      <3>4. QED
        BY <1>2, <1>5, <2>1, <3>1, <3>2, <3>3 DEF Between
    <2>2. CASE t # s
      <3>1. socket[s] = "open" /\ s \in Live
        BY DEF onmessage, Live
      <3>2. t \notin Live
        BY <2>2, <3>1 DEF SoleInv
      <3>3. inFlight'[t] = <<>>
        BY <1>2, <2>2, <3>2 DEF OrderInv, Live, TypeOK
      <3>4. QED
        BY <3>3, EmptyBetween
    <2>3. QED
      BY <2>1, <2>2
  <1>7. QED
    BY <1>2, <1>4, <1>5, <1>6

LEMMA OrderNext ==
    ASSUME TypeOK, SoleInv, OrderInv, [Next]_vars
    PROVE  OrderInv'
  <1>1. ASSUME NEW e \in Devices, Merge(e) PROVE OrderInv'
    <2>1. /\ UNCHANGED <<devices, inFlight, socket, asMain>>
          /\ \A d \in Devices : ingested[d] \in Nat /\ ingested'[d] \in Nat /\ ingested[d] <= ingested'[d]
      BY <1>1 DEF Merge, TypeOK, Snapshots, Values, clientVars, stateVars
    <2>2. \A s \in Sockets, d \in Devices : \A k \in 1..Len(inFlight[s]) : inFlight[s][k][d] \in Nat
      BY DEF TypeOK, Snapshots, Values
    <2>3. \A d \in Devices : devices[d] \in Nat
      BY DEF TypeOK, Snapshots, Values
    <2>4. ASSUME asMain', NEW d \in Devices, NEW s \in Sockets
          PROVE  devices'[d] <= ingested'[d] /\ Between(d, s)'
      BY <2>1, <2>2, <2>3, <2>4 DEF OrderInv, Between
    <2>5. ASSUME asMain', NEW d \in Devices PROVE devices'[d] <= ingested'[d]
      BY <2>1, <2>3, <2>5 DEF OrderInv
    <2>6. QED
      BY <2>1, <2>4, <2>5 DEF OrderInv
  <1>2. ASSUME NEW s \in Sockets, Send(s) PROVE OrderInv'
    <2> DEFINE q == inFlight[s]
    <2>1. /\ q \in Seq(Snapshots) /\ Len(q) \in Nat
          /\ inFlight'[s] = Append(q, ingested)
          /\ \A t \in Sockets \ {s} : inFlight'[t] = inFlight[t]
          /\ UNCHANGED <<ingested, devices, socket, asMain>>
          /\ socket[s] \in {"connecting", "open"}
      BY <1>2 DEF Send, TypeOK, clientVars, stateVars
    <2>2. /\ Len(inFlight'[s]) = Len(q) + 1 /\ inFlight'[s][Len(q) + 1] = ingested
          /\ \A k \in 1..Len(q) : inFlight'[s][k] = q[k]
      BY <2>1, QueueSteps DEF TypeOK
    <2>3. ASSUME asMain, NEW d \in Devices PROVE Between(d, s)'
      <3>1. ingested[d] \in Nat /\ devices[d] <= ingested[d] /\ Between(d, s)
        BY <2>3 DEF OrderInv, TypeOK, Snapshots, Values
      <3>2. \A k \in 1..Len(q) + 1 : k \in 1..Len(q) \/ k = Len(q) + 1
        BY <2>1
      <3>3. \A k \in 1..Len(q) + 1 : devices[d] <= inFlight'[s][k][d] /\ inFlight'[s][k][d] <= ingested[d]
        BY <2>2, <3>1, <3>2 DEF Between
      <3>4. ASSUME NEW j \in 1..Len(q) + 1, NEW k \in 1..Len(q) + 1, j <= k
            PROVE  inFlight'[s][j][d] <= inFlight'[s][k][d]
        <4>1. CASE k = Len(q) + 1
          BY <2>2, <3>3, <4>1
        <4>2. CASE k # Len(q) + 1
          <5>1. j \in 1..Len(q) /\ k \in 1..Len(q)
            BY <2>1, <3>4, <4>2
          <5>2. QED
            BY <2>2, <3>1, <3>4, <5>1 DEF Between
        <4>3. QED
          BY <4>1, <4>2
      <3>5. QED
        BY <2>1, <2>2, <3>3, <3>4 DEF Between
    <2>4. ASSUME asMain, NEW d \in Devices, NEW t \in Sockets \ {s} PROVE Between(d, t)'
      BY <2>1, <2>4 DEF OrderInv, Between
    <2>5. QED
      BY <2>1, <2>3, <2>4 DEF OrderInv
  <1>3. ASSUME NEW s \in Sockets, onmessage(s) PROVE OrderInv'
    <2>1. /\ UNCHANGED <<ingested, socket, asMain>> /\ socket[s] = "open"
          /\ \A t \in Sockets \ {s} : inFlight'[t] = inFlight[t]
      BY <1>3 DEF onmessage, TypeOK, clientVars
    <2>2. QED
      BY <1>3, <2>1, MessageStep DEF OrderInv
  <1>4. ASSUME NEW s \in Sockets, Close(s), UNCHANGED <<ingested, devices>>, asMain' => asMain
        PROVE  OrderInv'
    <2>1. /\ inFlight'[s] = <<>>
          /\ \A t \in Sockets \ {s} : inFlight'[t] = inFlight[t] /\ socket'[t] = socket[t]
      BY <1>4 DEF Close, TypeOK
    <2>2. ASSUME asMain', NEW d \in Devices, NEW t \in Sockets PROVE Between(d, t)'
      BY <1>4, <2>1, <2>2, EmptyBetween DEF OrderInv, Between
    <2>3. QED
      BY <1>4, <2>1, <2>2 DEF OrderInv
  <1>5. ASSUME UNCHANGED <<ingested, devices, inFlight>>, asMain' => asMain,
               \A t \in Sockets : socket[t] \in {"connecting", "open"} => socket'[t] \in {"connecting", "open"}
        PROVE  OrderInv'
    BY <1>5 DEF OrderInv, Between
  <1>6. ASSUME NEW s \in Sockets, connect(s) \/ Reconnect(s) \/ onclose(s) \/ onopen(s) PROVE OrderInv'
    <2>1. UNCHANGED <<ingested, devices, inFlight>> /\ (asMain' => asMain)
      <3>1. CASE connect(s)
        BY <3>1, Zenon DEF connect, serverVars, stateVars
      <3>2. CASE Reconnect(s) \/ onclose(s) \/ onopen(s)
        BY <3>2 DEF Reconnect, onclose, onopen, serverVars, stateVars
      <3>3. QED
        BY <1>6, <3>1, <3>2
    <2>2. \A t \in Sockets : socket[t] \in {"connecting", "open"} => socket'[t] \in {"connecting", "open"}
      BY <1>6 DEF connect, Reconnect, onclose, onopen, Open, TypeOK
    <2>3. QED
      BY <1>5, <2>1, <2>2
  <1>7. ASSUME NEW s \in Sockets, Break(s) PROVE OrderInv'
    BY <1>4, <1>7 DEF Break, stateVars
  <1>8. CASE disconnect
    <2>1. CASE ws # NoSocket /\ socket[ws] \in {"connecting", "open"}
      BY <1>4, <1>8, <2>1 DEF disconnect, stateVars, TypeOK
    <2>2. CASE ~(ws # NoSocket /\ socket[ws] \in {"connecting", "open"})
      BY <1>5, <1>8, <2>2 DEF disconnect, stateVars
    <2>3. QED
      BY <2>1, <2>2
  <1>9. CASE UNCHANGED <<ingested, devices, inFlight, socket, asMain>>
    BY <1>5, <1>9
  <1>10. QED
    BY <1>1, <1>2, <1>3, <1>6, <1>7, <1>8, <1>9
       DEF Next, Stream, subscribe, Accept, serverVars, clientVars, stateVars, vars

(* The scene never goes back to an older value, over any number of         *)
(* reconnects with frames in flight (ws-client.ts:20-66, state.ts:14-30).  *)
THEOREM ValuesNeverGoBack == Spec => NeverBack
  <1>1. Init => OrderInv
    BY DEF Init, OrderInv, Between, NoDevices
  <1>2. TypeOK /\ SoleInv /\ OrderInv /\ [Next]_vars => OrderInv'
    BY OrderNext
  <1>3. TypeOK /\ SoleInv /\ OrderInv /\ [Next]_vars
          => [asMain' => \A d \in Devices : devices'[d] >= devices[d]]_vars
    <2>1. SUFFICES ASSUME TypeOK, SoleInv, OrderInv, [Next]_vars, asMain', NEW d \in Devices
                   PROVE  devices'[d] >= devices[d]
      OBVIOUS
    <2>2. devices[d] \in Nat
      BY <2>1 DEF TypeOK, Snapshots, Values
    <2>3. CASE UNCHANGED devices
      BY <2>2, <2>3
    <2>4. ASSUME NEW s \in Sockets, onmessage(s) PROVE devices'[d] >= devices[d]
      <3>1. asMain /\ devices'[d] \in Nat
        BY <2>1, <2>4, TypeNext DEF onmessage, TypeOK, Snapshots, Values
      <3>2. devices[d] <= devices'[d]
        BY <2>1, <2>4, <3>1, MessageStep
      <3>3. QED
        BY <2>2, <3>1, <3>2
    <2>5. QED
      BY <2>1, <2>3, <2>4
         DEF Next, Stream, Merge, subscribe, connect, Accept, Send, onopen, onclose, Reconnect,
             Break, disconnect, clientVars, stateVars, vars
  <1>4. QED
    BY <1>1, <1>2, <1>3, SoleHolds, TypeCorrect, PTL DEF Spec, NeverBack
=============================================================================
