------------------------------- MODULE WsStream -------------------------------
(***************************************************************************)
(* Telemetry on its way to the screen: stream_state of the backend, which  *)
(* sends the whole IngestedState on every tick, the class WsClient, which  *)
(* keeps a WebSocket open, and state.ts, which hands changed values to the *)
(* subscribers.  Every event of the browser is one step of its one thread. *)
(*                                                                         *)
(* Simplifications.                                                        *)
(*  - The fields of a device are one value, numbered in the order the      *)
(*    connectors merge them; 0 is no value yet.                            *)
(*  - Seconds are not kept, only the delay the next reconnect would use.   *)
(*  - A socket whose close event has fired may be used again by the model. *)
(*  - Sockets are external: a message is only delivered to an open one, a  *)
(*    broken one gets its close event, and nothing after it.               *)
(***************************************************************************)
EXTENDS Naturals, Sequences, FiniteSets

CONSTANTS
    Devices,      \* device_ids
    Sockets,      \* sockets that may exist at one time
    NoSocket,     \* not a socket
    MaxVersion,   \* bound: values of a device
    MaxInFlight,  \* bound: frames in one socket
    MaxTimers     \* bound: reconnects scheduled at one time, more are not counted

ASSUME WsStreamAssumption ==
    /\ IsFiniteSet(Sockets)
    /\ NoSocket \notin Sockets
    /\ MaxVersion \in Nat
    /\ MaxInFlight \in Nat
    /\ MaxTimers \in Nat \ {0}

VARIABLES
    ingested,    \* IngestedState of the backend
    serving,     \* sockets with a stream_state task
    inFlight,    \* inFlight[s]: frames sent on s and not delivered
    \* WsClient
    socket,      \* socket[s]: its readyState, or "free"
    ws,          \* this.ws
    timers,      \* pending timers of scheduleReconnect
    delay,       \* reconnectDelay in seconds
    stopped,
    \* state.ts
    devices,     \* the last value of every device
    subscribed,  \* devices with a callback
    shown,       \* what the callback was last given
    \* history
    asMain       \* connect() was called at most once and disconnect() never, as in main.ts

serverVars == <<ingested, serving, inFlight>>
clientVars == <<socket, ws, timers, delay, stopped>>
stateVars  == <<devices, subscribed, shown>>
vars == <<serverVars, clientVars, stateVars, asMain>>

Values     == 0..MaxVersion
Snapshots  == [Devices -> Values]
NoDevices  == [d \in Devices |-> 0]
ReadyState == {"free", "connecting", "open", "closing"}
Delays     == {1, 2, 4, 8, 16, 30}
Live       == {s \in Sockets : socket[s] # "free"}

Init ==
    /\ ingested = NoDevices
    /\ serving = {}
    /\ inFlight = [s \in Sockets |-> <<>>]
    /\ socket = [s \in Sockets |-> "free"]
    /\ ws = NoSocket
    /\ timers = 0
    /\ delay = 1
    /\ stopped = FALSE
    /\ devices = NoDevices
    /\ subscribed = {}
    /\ shown = NoDevices
    /\ asMain = TRUE

-----------------------------------------------------------------------------
(* The backend                                                             *)

\* A connector merges a new value.
Merge(d) ==
    /\ ingested[d] < MaxVersion
    /\ ingested' = [ingested EXCEPT ![d] = @ + 1]
    /\ UNCHANGED <<serving, inFlight, clientVars, stateVars, asMain>>

Accept(s) ==
    /\ socket[s] = "connecting"
    /\ serving' = serving \cup {s}
    /\ UNCHANGED <<ingested, inFlight, clientVars, stateVars, asMain>>

\* One tick of stream_state.
Send(s) ==
    /\ s \in serving
    /\ Len(inFlight[s]) < MaxInFlight
    /\ inFlight' = [inFlight EXCEPT ![s] = Append(@, ingested)]
    /\ UNCHANGED <<ingested, serving, clientVars, stateVars, asMain>>

-----------------------------------------------------------------------------
(* WsClient                                                                *)

Open(s) ==
    /\ socket[s] = "free"
    /\ socket' = [socket EXCEPT ![s] = "connecting"]
    /\ ws' = s

\* Nothing reaches a socket that closes.
Close(s) ==
    /\ socket' = [socket EXCEPT ![s] = "closing"]
    /\ serving' = serving \ {s}
    /\ inFlight' = [inFlight EXCEPT ![s] = <<>>]

connect(s) ==
    /\ asMain' = (asMain /\ ws = NoSocket)
    /\ stopped' = FALSE
    /\ Open(s)
    /\ UNCHANGED <<serverVars, timers, delay, stateVars>>

disconnect ==
    /\ asMain' = FALSE
    /\ stopped' = TRUE
    /\ IF ws # NoSocket /\ socket[ws] \in {"connecting", "open"}
       THEN Close(ws)
       ELSE UNCHANGED <<socket, serving, inFlight>>
    /\ UNCHANGED <<ingested, ws, timers, delay, stateVars>>

onopen(s) ==
    /\ socket[s] = "connecting"
    /\ s \in serving
    /\ socket' = [socket EXCEPT ![s] = "open"]
    /\ delay' = 1
    /\ UNCHANGED <<serverVars, ws, timers, stopped, stateVars, asMain>>

NewDevicesMutant(snapshot) == [d \in Devices |-> IF devices[d] = 0 THEN snapshot[d] ELSE devices[d]]
NewDevices(snapshot) == [d \in Devices |-> IF snapshot[d] # 0 THEN snapshot[d] ELSE devices[d]]

\* The devices of a snapshot whose callbacks run.
Changed(snapshot) == {d \in Devices : snapshot[d] # 0 /\ devices[d] # snapshot[d]}

\* onmessage, which is ingest of state.ts
onmessage(s) ==
    /\ socket[s] = "open"
    /\ inFlight[s] # <<>>
    /\ LET snapshot == Head(inFlight[s])
       IN  /\ devices' = NewDevices(snapshot)
           /\ shown' = [d \in Devices |-> IF d \in Changed(snapshot) \cap subscribed
                                          THEN snapshot[d] ELSE shown[d]]
    /\ inFlight' = [inFlight EXCEPT ![s] = Tail(@)]
    /\ UNCHANGED <<ingested, serving, clientVars, subscribed, asMain>>

OneMoreTimer == IF timers < MaxTimers THEN timers + 1 ELSE timers

OnErrorMutant == timers' = OneMoreTimer
\* onerror only logs: the close event follows.
OnError == UNCHANGED timers

\* The network or the server ends the connection, or refuses it.
Break(s) ==
    /\ socket[s] \in {"connecting", "open"}
    /\ Close(s)
    /\ OnError
    /\ UNCHANGED <<ingested, ws, delay, stopped, stateVars, asMain>>

RetryMutant == ~stopped /\ delay < 30
Retry == ~stopped

onclose(s) ==
    /\ socket[s] = "closing"
    /\ socket' = [socket EXCEPT ![s] = "free"]
    /\ timers' = IF Retry THEN OneMoreTimer ELSE timers
    /\ UNCHANGED <<serverVars, ws, delay, stopped, stateVars, asMain>>

Longer(seconds) == IF 2 * seconds < 30 THEN 2 * seconds ELSE 30

\* The callback of scheduleReconnect.
Reconnect(s) ==
    /\ timers > 0
    /\ timers' = timers - 1
    /\ delay' = Longer(delay)
    /\ Open(s)
    /\ UNCHANGED <<serverVars, stopped, stateVars, asMain>>

-----------------------------------------------------------------------------
(* state.ts                                                                *)

SubscribeNowMutant(d) == FALSE
\* A late subscriber gets the last value at once.
SubscribeNow(d) == devices[d] # 0

subscribe(d) ==
    /\ d \notin subscribed
    /\ subscribed' = subscribed \cup {d}
    /\ shown' = IF SubscribeNow(d) THEN [shown EXCEPT ![d] = devices[d]] ELSE shown
    /\ UNCHANGED <<serverVars, clientVars, devices, asMain>>

-----------------------------------------------------------------------------
Stream(s) == Accept(s) \/ Send(s) \/ onopen(s) \/ onmessage(s) \/ onclose(s) \/ Reconnect(s)

Next ==
    \/ \E d \in Devices : Merge(d) \/ subscribe(d)
    \/ \E s \in Sockets : connect(s) \/ Stream(s) \/ Break(s)
    \/ disconnect

Spec == Init /\ [][Next]_vars

\* The backend accepts and ticks; the browser fires events and timers.
Fairness ==
    \A s \in Sockets :
        /\ WF_vars(Accept(s))
        /\ WF_vars(Send(s))
        /\ WF_vars(onopen(s))
        /\ WF_vars(onmessage(s))
        /\ WF_vars(onclose(s))
        /\ WF_vars(Reconnect(s))

FairSpec == Spec /\ Fairness

-----------------------------------------------------------------------------
\* The type of every variable; only live sockets are served.
TypeOK ==
    /\ ingested \in Snapshots
    /\ serving \in SUBSET Sockets
    /\ \A s \in serving : socket[s] \in {"connecting", "open"}
    /\ inFlight \in [Sockets -> Seq(Snapshots)]
    /\ \A s \in Sockets : Len(inFlight[s]) <= MaxInFlight
    /\ socket \in [Sockets -> ReadyState]
    /\ ws \in Sockets \cup {NoSocket}
    /\ timers \in 0..MaxTimers
    /\ delay \in Delays
    /\ stopped \in BOOLEAN
    /\ devices \in Snapshots
    /\ subscribed \in SUBSET Devices
    /\ shown \in Snapshots
    /\ asMain \in BOOLEAN

\* A subscriber shows the last value of its device, whether it subscribed
\* before the first frame or long after the last change.
ShowsState == \A d \in subscribed : shown[d] = devices[d]

\* A client that was not told to stop has a socket or a timer that will open
\* one, after any sequence of calls and failures.
NeverStranded == ws # NoSocket /\ ~stopped => Live # {} \/ timers > 0

\* Used as main.ts uses it, the client has one socket or one timer: each close
\* event schedules one reconnect and each reconnect opens one socket.
OneSocket == asMain => Cardinality(Live) + timers <= 1

\* Then the scene never goes back to an older value, over any number of
\* reconnects with frames in flight.
NeverBack == [][asMain' => \A d \in Devices : devices'[d] >= devices[d]]_vars

-----------------------------------------------------------------------------
\* When connections stop breaking and the client is not told to stop, the scene
\* gets to show the values of the backend (which change MaxVersion times).
ScreenFollows ==
    <>[][\A s \in Sockets : ~Break(s)]_vars /\ <>(ws # NoSocket) /\ <>[]~stopped
        => <>[](devices = ingested)
=============================================================================
