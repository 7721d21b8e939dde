------------------------------- MODULE LiveEdit -------------------------------
(***************************************************************************)
(* How an edit of the plant reaches the running backend: the rows of the   *)
(* database, the NOTIFY its triggers send, the boot sequence of main() and *)
(* the loop run_listen_loop that reloads the wire table and starts         *)
(* connectors.                                                             *)
(*                                                                         *)
(* Simplifications.                                                        *)
(*  - A PLC row is its name and endpoint.  Device instances are not kept:  *)
(*    a wire goes from a PLC to a PLC, and deleting an instance deletes    *)
(*    the wires at it, as DeleteWires does.                                *)
(*  - The notifications carry no information the loop reads, so they are   *)
(*    counted.  One edit counts as one; a cascading delete sends more,     *)
(*    which only repeats the reload.                                       *)
(*  - Postgres and sqlx's PgListener are external: a listener that lost    *)
(*    its connection connects and listens again inside recv().             *)
(***************************************************************************)
EXTENDS Naturals

CONSTANTS
    Names,         \* names of PLCs
    Endpoints,     \* protocols, hosts and ports of PLCs
    Opcua,         \* the endpoints with protocol "opcua"
    NoPlc,         \* not an endpoint: there is no such PLC
    Wires,         \* rows the table wires may hold
    Src, Dst,      \* the PLCs a wire goes from and to
    OtherWriters,  \* the database has writers besides this backend's API
    Faulty,        \* queries may fail, and connections may be lost
    MaxInbox       \* bound: notifications in flight

ASSUME LiveEditAssumption ==
    /\ Opcua \subseteq Endpoints
    /\ NoPlc \notin Endpoints
    /\ Src \in [Wires -> Names]
    /\ Dst \in [Wires -> Names]
    /\ OtherWriters \in BOOLEAN
    /\ Faulty \in BOOLEAN
    /\ MaxInbox \in Nat

VARIABLES
    \* the database
    plcs,        \* plcs[n]: the endpoint of PLC n
    wires,       \* the rows of table wires
    listening,   \* the listener's session has executed LISTEN
    inbox,       \* notifications sent to it and not received
    \* the backend process
    main,        \* where main() is
    loop,        \* where run_listen_loop is
    plant,       \* PlantConfig loaded at start, which GET /api/plant answers
    loaded,      \* PlantConfig loaded by the loop
    toAdd,       \* its PLCs that add_plc_connector has not seen
    handles,     \* WriteHandles: the endpoint each connector was made for
    fresh,       \* wires read by refresh_wires and not stored yet
    table,       \* the wire table of the orchestration tick
    permit,      \* reconcile_kick holds a permit
    \* history
    started,     \* connectors started per name, two stands for more
    wiresMissed, \* an edit since the wires were last read was not notified
    plcsMissed   \* the same for the plant

dbVars      == <<plcs, wires>>
notifyVars  == <<listening, inbox>>
plantVars   == <<plant, loaded, toAdd, handles, started>>
tableVars   == <<fresh, table>>
missedVars  == <<wiresMissed, plcsMissed>>
vars == <<dbVars, notifyVars, main, loop, plantVars, tableVars, permit, missedVars>>

Rows       == [Names -> Endpoints \cup {NoPlc}]
NoPlcs     == [n \in Names |-> NoPlc]
Exists(n)  == plcs[n] # NoPlc
Known(n)   == handles[n] # NoPlc

Booting == {"off", "plant", "connectors", "wires"}
LoopPcs == {"off", "listen", "recv", "refresh", "store", "reload", "add", "kick", "dead"}

Init ==
    /\ plcs \in Rows
    /\ wires \in SUBSET {w \in Wires : Exists(Src[w]) /\ Exists(Dst[w])}
    /\ listening = FALSE
    /\ inbox = 0
    /\ main = "off"
    /\ loop = "off"
    /\ plant = NoPlcs
    /\ loaded = NoPlcs
    /\ toAdd = {}
    /\ handles = NoPlcs
    /\ fresh = {}
    /\ table = {}
    /\ permit = FALSE
    /\ started = [n \in Names |-> 0]
    /\ wiresMissed = FALSE
    /\ plcsMissed = FALSE

-----------------------------------------------------------------------------
(* Edits: every INSERT, UPDATE or DELETE on plcs, device_instances and     *)
(* wires sends a NOTIFY, which only a listening session gets.              *)

Editing == (main = "up" \/ OtherWriters) /\ inbox < MaxInbox

NotifyMutant == UNCHANGED <<inbox, missedVars>>
Notify ==
    /\ inbox' = IF listening THEN inbox + 1 ELSE inbox
    /\ wiresMissed' = (wiresMissed \/ ~listening)
    /\ plcsMissed' = (plcsMissed \/ ~listening)

CreatePlc(n, e) ==
    /\ Editing
    /\ ~Exists(n)
    /\ plcs' = [plcs EXCEPT ![n] = e]
    /\ Notify
    /\ UNCHANGED <<wires, listening, main, loop, plantVars, tableVars, permit>>

CascadeMutant(n) == {w \in wires : Dst[w] # n}
\* The foreign keys of wires delete them with either of their PLCs.
Cascade(n) == {w \in wires : n \notin {Src[w], Dst[w]}}

DeletePlc(n) ==
    /\ Editing
    /\ Exists(n)
    /\ plcs' = [plcs EXCEPT ![n] = NoPlc]
    /\ wires' = Cascade(n)
    /\ Notify
    /\ UNCHANGED <<listening, main, loop, plantVars, tableVars, permit>>

CreateWire(w) ==
    /\ Editing
    /\ w \notin wires
    /\ Exists(Src[w]) /\ Exists(Dst[w])
    /\ wires' = wires \cup {w}
    /\ Notify
    /\ UNCHANGED <<plcs, listening, main, loop, plantVars, tableVars, permit>>

\* DELETE of one wire, or of an instance and the wires at it.
DeleteWires(ws) ==
    /\ Editing
    /\ ws # {} /\ ws \subseteq wires
    /\ wires' = wires \ ws
    /\ Notify
    /\ UNCHANGED <<plcs, listening, main, loop, plantVars, tableVars, permit>>

Edit ==
    \/ \E n \in Names : DeletePlc(n) \/ \E e \in Endpoints : CreatePlc(n, e)
    \/ \E w \in Wires : CreateWire(w)
    \/ \E ws \in SUBSET Wires : DeleteWires(ws)

-----------------------------------------------------------------------------
(* main().  An error ends the process, as Crash does.                      *)

Boot ==
    /\ main = "off"
    /\ main' = "plant"
    /\ UNCHANGED <<dbVars, notifyVars, loop, plantVars, tableVars, permit, missedVars>>

LoadPlant ==
    /\ main = "plant"
    /\ plant' = plcs
    /\ plcsMissed' = FALSE
    /\ main' = "connectors"
    /\ UNCHANGED <<dbVars, notifyVars, loop, loaded, toAdd, handles, started,
                   tableVars, permit, wiresMissed>>

\* make_connector skips a PLC with an unknown protocol.
Connectable(rows, n) == rows[n] \in Opcua

StartConnectors ==
    /\ main = "connectors"
    /\ handles' = [n \in Names |-> IF Connectable(plant, n) THEN plant[n] ELSE NoPlc]
    /\ started' = [n \in Names |-> IF Connectable(plant, n) THEN 1 ELSE 0]
    /\ main' = "wires"
    /\ UNCHANGED <<dbVars, notifyVars, loop, plant, loaded, toAdd, tableVars, permit,
                   missedVars>>

\* orchestration::load; then the tick, the LISTEN loop and the API are spawned.
LoadWires ==
    /\ main = "wires"
    /\ table' = wires
    /\ wiresMissed' = FALSE
    /\ main' = "up"
    /\ loop' = "listen"
    /\ UNCHANGED <<dbVars, notifyVars, plantVars, fresh, permit, plcsMissed>>

Crash ==
    /\ main # "off"
    /\ main' = "off"
    /\ loop' = "off"
    /\ listening' = FALSE
    /\ inbox' = 0
    /\ plant' = NoPlcs
    /\ loaded' = NoPlcs
    /\ toAdd' = {}
    /\ handles' = NoPlcs
    /\ fresh' = {}
    /\ table' = {}
    /\ permit' = FALSE
    /\ started' = [n \in Names |-> 0]
    /\ wiresMissed' = FALSE
    /\ plcsMissed' = FALSE
    /\ UNCHANGED dbVars

-----------------------------------------------------------------------------
(* run_listen_loop                                                         *)

Listen ==
    /\ \/ loop = "listen"
       \/ loop = "recv" /\ ~listening
    /\ listening' = TRUE
    /\ loop' = "recv"
    /\ UNCHANGED <<dbVars, inbox, main, plantVars, tableVars, permit, missedVars>>

\* connect_with, listen or recv returns an error: the task ends.
ListenFailed ==
    /\ Faulty
    /\ \/ loop = "listen"
       \/ loop = "recv" /\ ~listening
    /\ loop' = "dead"
    /\ UNCHANGED <<dbVars, notifyVars, main, plantVars, tableVars, permit, missedVars>>

\* The session breaks; what it had been sent is gone.
ConnectionLost ==
    /\ Faulty
    /\ listening
    /\ listening' = FALSE
    /\ inbox' = 0
    /\ wiresMissed' = (wiresMissed \/ inbox > 0)
    /\ plcsMissed' = (plcsMissed \/ inbox > 0)
    /\ UNCHANGED <<dbVars, main, loop, plantVars, tableVars, permit>>

Recv ==
    /\ loop = "recv"
    /\ inbox > 0
    /\ inbox' = inbox - 1
    /\ loop' = "refresh"
    /\ UNCHANGED <<dbVars, listening, main, plantVars, tableVars, permit, missedVars>>

ReadWires ==
    /\ loop = "refresh"
    /\ fresh' = wires
    /\ wiresMissed' = FALSE
    /\ loop' = "store"
    /\ UNCHANGED <<dbVars, notifyVars, main, plantVars, table, permit, plcsMissed>>

AfterFailureMutant(next) == loop' = "dead"
\* A failed reload is logged and the loop goes on.
AfterFailure(next) == loop' = next

ReadWiresFailed ==
    /\ Faulty
    /\ loop = "refresh"
    /\ wiresMissed' = TRUE
    /\ AfterFailure("reload")
    /\ UNCHANGED <<dbVars, notifyVars, main, plantVars, tableVars, permit, plcsMissed>>

NewTableMutant == table \cup fresh
NewTable == fresh

StoreWires ==
    /\ loop = "store"
    /\ table' = NewTable
    /\ fresh' = {}
    /\ loop' = "reload"
    /\ UNCHANGED <<dbVars, notifyVars, main, plantVars, permit, missedVars>>

Reload ==
    /\ loop = "reload"
    /\ loaded' = plcs
    /\ toAdd' = {n \in Names : Exists(n)}
    /\ plcsMissed' = FALSE
    /\ loop' = "add"
    /\ UNCHANGED <<dbVars, notifyVars, main, plant, handles, started, tableVars,
                   permit, wiresMissed>>

ReloadFailed ==
    /\ Faulty
    /\ loop = "reload"
    /\ plcsMissed' = TRUE
    /\ AfterFailure("kick")
    /\ UNCHANGED <<dbVars, notifyVars, main, plantVars, tableVars, permit, wiresMissed>>

NeedsConnectorStaleMutant(n) == ~Known(n) /\ Connectable(plant, n)
NeedsConnectorMutant(n) == Connectable(loaded, n)
NeedsConnector(n) == ~Known(n) /\ Connectable(loaded, n)

\* add_plc_connector
AddConnector(n) ==
    /\ loop = "add"
    /\ n \in toAdd
    /\ toAdd' = toAdd \ {n}
    /\ IF NeedsConnector(n)
       THEN /\ handles' = [handles EXCEPT ![n] = loaded[n]]
            /\ started' = [started EXCEPT ![n] = IF @ < 2 THEN @ + 1 ELSE @]
       ELSE UNCHANGED <<handles, started>>
    /\ UNCHANGED <<dbVars, notifyVars, main, loop, plant, loaded, tableVars, permit,
                   missedVars>>

AddDone ==
    /\ loop = "add"
    /\ toAdd = {}
    /\ loaded' = NoPlcs
    /\ loop' = "kick"
    /\ UNCHANGED <<dbVars, notifyVars, main, plant, toAdd, handles, started, tableVars,
                   permit, missedVars>>

\* reconcile_kick.notify_one()
Kick ==
    /\ loop = "kick"
    /\ permit' = TRUE
    /\ loop' = "recv"
    /\ UNCHANGED <<dbVars, notifyVars, main, plantVars, tableVars, missedVars>>

\* The reconciler wakes up (module Reconciler).
KickTaken ==
    /\ permit
    /\ permit' = FALSE
    /\ UNCHANGED <<dbVars, notifyVars, main, loop, plantVars, tableVars, missedVars>>

-----------------------------------------------------------------------------
Start  == Boot \/ LoadPlant \/ StartConnectors \/ LoadWires
Failed == ListenFailed \/ ConnectionLost \/ ReadWiresFailed \/ ReloadFailed
React  ==
    \/ Listen \/ Recv \/ ReadWires \/ StoreWires \/ Reload
    \/ \E n \in Names : AddConnector(n)
    \/ AddDone \/ Kick

Next == Edit \/ Start \/ Crash \/ Failed \/ React \/ KickTaken

Spec == Init /\ [][Next]_vars

\* main() and the loop are scheduled and their queries answered.
Fairness == WF_vars(Start) /\ WF_vars(React)

FairSpec == Spec /\ Fairness

-----------------------------------------------------------------------------
\* The type of every variable; a wire row has both its PLCs.
TypeOK ==
    /\ plcs \in Rows
    /\ wires \in SUBSET Wires
    /\ \A w \in wires : Exists(Src[w]) /\ Exists(Dst[w])
    /\ listening \in BOOLEAN
    /\ inbox \in 0..MaxInbox
    /\ main \in Booting \cup {"up"}
    /\ loop \in LoopPcs
    /\ plant \in Rows
    /\ loaded \in Rows
    /\ toAdd \in SUBSET Names
    /\ handles \in Rows
    /\ started \in [Names -> 0..2]
    /\ fresh \in SUBSET Wires
    /\ table \in SUBSET Wires
    /\ permit \in BOOLEAN
    /\ wiresMissed \in BOOLEAN
    /\ plcsMissed \in BOOLEAN

\* The tick routes along the rows of the database, or a reload is under way,
\* unless an edit went unheard since the wires were last read.  One edit that
\* is heard later makes up for every one that was not: the loop reloads all.
WiresFollow ==
    main = "up" /\ ~wiresMissed =>
        \/ table = wires
        \/ inbox > 0
        \/ loop = "refresh"
        \/ loop = "store" /\ fresh = wires

\* The same for connectors: every PLC with a known protocol has one, or the
\* loop is on its way to it.
ConnectorsFollow ==
    main = "up" /\ ~plcsMissed =>
        \A n \in Names : Connectable(plcs, n) =>
            \/ Known(n)
            \/ inbox > 0
            \/ loop \in {"refresh", "store", "reload"}
            \/ loop = "add" /\ n \in toAdd /\ Connectable(loaded, n)

\* A process never runs two connectors for one PLC, however often the loop
\* sees its row ("idempotent"): a second one would write every input twice and
\* leave the first without a handle.
OneConnector == \A n \in Names : started[n] <= 1

\* What makes them inductive.  The order of the boot: the loop runs, and
\* listens, only once main() is up.
BootOrder ==
    /\ loop # "off" <=> main = "up"
    /\ listening => main = "up"
    /\ inbox > 0 => listening
    /\ main \in {"off", "plant", "connectors"} => \A n \in Names : ~Known(n)
    /\ \A n \in Names : ~Known(n) => started[n] = 0

\* A stale copy of the wires is never stored last; the connectors are those of
\* the rows loaded at the start.
CopiesFollow ==
    /\ loop = "store" /\ ~wiresMissed /\ fresh # wires => inbox > 0
    /\ main \in {"connectors", "wires"} /\ ~plcsMissed => plant = plcs
    /\ main = "wires" => \A n \in Names : Connectable(plant, n) => Known(n)

IndInv ==
    TypeOK /\ WiresFollow /\ ConnectorsFollow /\ OneConnector /\ BootOrder /\ CopiesFollow

-----------------------------------------------------------------------------
Quiet == <>[][UNCHANGED dbVars]_vars /\ <>[](main = "up")

\* When edits stop the wire table becomes and stays the table of the database,
\* if from some time on no edit has gone unheard.
WiresConverge == Quiet /\ <>[]~wiresMissed => <>[](table = wires)

\* Every edit that was heard wakes the reconciler, also when both reloads fail.
KickFollows == inbox > 0 ~> (permit \/ ~listening)

-----------------------------------------------------------------------------
(* What the documentation says and the code does not do.                   *)

\* api.md: "Any successful write fires a NOTIFY; the backend picks up the
\* change within a tick / one reconcile interval - no restart."
EditsReachRuntime == Quiet => <>[](table = wires)
=============================================================================
