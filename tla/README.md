# A TLA+ model of factory_sim

factory_sim simulates a water plant: simulator processes act as PLCs and run the physics of their devices, a
backend polls and writes them over OPC-UA, routes values along wires between devices, provisions simulators in
Kubernetes, and streams telemetry to a 3D scene in the browser. This directory holds TLA+ modules that model the
parts of it whose correctness depends on order: interleavings of tasks, lost sessions, restarts, partial failures
and edits of the plant while it runs. TLC checks them on small instances, and TLAPS proves the safety properties for
every value of the constants.

    tlasany M.tla                              parse a module
    tlc -workers 2 -config MCX.cfg MCX         check an instance
    tlapm XProofs.tla                          check the proofs about X

`PROJECT.json` maps every definition that models code to its lines, and lists the runs, the mutants, the findings,
the hazards and the theorems.

## 1. Inventory

### Parts and how they interact

```
  browser            backend process                                     simulator process (one per PLC)
  ┌────────┐  ws     ┌───────────────────────────────────────────┐      ┌──────────────────────────────┐
  │ scene  │◄────────│ API ── IngestedState ◄── merge ─ connector │◄poll─│ nodes ◄─ state ◄─ tick         │
  │        │  http   │  │          │                        ▲     │      │            ▲                  │
  │        │────────►│  │     orchestration tick ──queue────┘     │─write►│ callback ─ task               │
  └────────┘         │  ▼          ▲ wire table                   │      └──────────────────────────────┘
                     │ database ─NOTIFY─► LISTEN loop ─kick─► reconciler ──kubectl──► cluster
                     └───────────────────────────────────────────┘
```

| Part | Code | State it keeps | Operations | What is hard | What makes it correct |
|---|---|---|---|---|---|
| PLC connector | `backend/src/comms` | session, poll list, discovered nodes, failure count, write queue | connect, browse, drain, write, poll, merge, reconnect | PLC restarts and lost sessions at any await; a full queue; a merge skipped for a reader | commands in order and at most once, writes before the poll, values never go back, recovery |
| Simulator core | `simulator/src` | SimulatorState, spawned write tasks, address space | tick, write callback, store, publish | tick, tasks and publisher on one lock; acknowledgement before the store | no write and no output lost, readiness gate, every write stored |
| Plant edits at run time | `main.rs`, `orchestration.rs`, `plant.rs` | wire table, write handles, LISTEN session | boot, listen, refresh, reload, add connector, kick | edits during the boot, lost notifications, failed reloads, deletions | the copies follow the database; one connector per PLC |
| Orchestration tick | `orchestration.rs` | three snapshots of a tick | take snapshots, send along the wires | tables swapped and values merged between snapshots, full queues, lost writes, restarts of either end | an input never goes back to an older value of a device, and ends at the newest of its source |
| Reconciler | `k8s.rs` | kick permit, locals of a cycle; Deployments, Services, claims in the cluster | query, list, apply, delete | any call fails half-way, rows change during a cycle, restarts | Deployments converge, no wrong deletion, no kick lost |
| Telemetry stream, frontend data | `ws_bridge.rs` stream_state, `frontend/src/data` | sockets, timers, last values, subscribers | connect, disconnect, socket events, ingest, subscribe | events, timers and calls in any order | the scene follows and never goes back; one socket |
| Plant database | `migrations`, `db/queries.rs`, `db/plant_loader.rs` | tables, audit log | create, delete, revert, load | cascades, triggers, reverting steps out of order, loads of several statements | keys and references hold, a revert restores, a loaded plant builds |
| Seeding | `db/seed.rs` | tables of an empty database | seed | crash between two statements, rows skipped for others | a seed that was not cut imports all that is described |
| Simulator start-up, plant configuration | `simulator/src/loader.rs`, `plant_config` | ResolvedPlant of one PLC | fetch with retries, build, slice | wires from other PLCs, edits after the build | a simulator starts for every PLC the database allows |
| HTTP API | `ws_bridge.rs` | none of its own | CRUD, setpoint, config, log level | concurrent edits | see the parts it calls |
| Configuration, assets, scene, packaging | `config_handle`, `assets`, `frontend/src/{scene,objects,overlays}`, `helm`, `deploy`, `codegen` | none that changes | | | not modelled |

### Interactions

* The connector of a PLC is the only task that talks to it. Others send a `WriteCmd` into its bounded queue
  (`try_send`, dropped when full) and read what it merged into `IngestedState` behind an `RwLock`.
* The orchestration tick reads the wire table, `IngestedState` and the handles one after the other and sends.
* The LISTEN loop replaces the wire table, adds connectors, and calls `notify_one()` of the reconciler's kick.
* A simulator is reached through its OPC-UA nodes alone, and asks the API for its own configuration once.
* The browser gets the whole `IngestedState` on every tick of its socket's task.

The list of what is hard to test, each at its line, is `hazards` in `PROJECT.json`; hazards without a property say
why.

## 2. Plan

Modules in the order they are written; the most important behaviour first.

| Module | What | Status |
|---|---|---|
| `PlcChannel`, `Connector`, `ConnectorProofs` | one connector, and the abstract lossy channel it implements | done |
| `JacobiStore`, `Simulator`, `SimulatorProofs` | one simulator, and the abstract store it implements | done |
| `LiveEdit`, `LiveEditProofs` | edits of the plant in the running backend | done |
| `Reconciler`, `ReconcilerProofs` | the Kubernetes loop | done, node sync left out |
| `WsStream`, `WsStreamProofs` | telemetry to the screen | done |
| `LatestValue`, `DataPath`, `DataPathProofs` | the orchestration tick over several PLCs, each end abstracted to what `Connector` and `Simulator` were shown to implement, and the register it implements | done |
| `PlantDb`, `Provision`, `ProvisionProofs` | the database with its cascades, triggers, audit log and reverts; seeding with crashes; fetching and building the configuration of a simulator while users edit | done; updates of rows in place left out |
| `Conversions` | DataType and Variant, memory sizes, ports: pure operators against a reference definition | not begun: pure functions that unit tests reach |

Theorems still worth proving: that every step from an input's source to the input, of those `EndsAtSource` is about,
brings it nearer (a rank, as in `CycleEnds`); that `LiveEdit`'s wire table is one the database had at some time.

## 3. The modules

Common conventions. A wait (sleep, backoff, interval) ends at any time, so every order a real delay allows is
explored; a lost race is a step of its own. An `await` separates two steps unless nothing another task changes is
read before and used after it. `Crash` and `Restart` lose everything a process keeps in memory. A definition
`XMutant` stands before `X` and shows that a property notices the bug it stands for; no other definition uses it.

### Connector (implements PlcChannel)

`pc` is the point at which `GenericConnector::run` awaits: `connect`, `backoff`, `wait` for a session; `browse`,
`types`, `browsed` for `do_browse`; then the loop `sleep`, `drain`, `write`, `poll`, `merge` or `pollwait`. The
server (`up`, `nodes`, `stamp`) and the client's session (`link`, `sessions`) are the environment: the server
crashes and restarts with other nodes, a session is lost and, with `session_retry_limit(-1)`, restored by the
library. A command is its number in the order of `send`, a value the number under which the server published it.

| Definition | Code |
|---|---|
| `Send` | `WriteHandle::send`, `try_send` into the bounded queue |
| `ConnectRefused`, `BackoffOver`, `EndpointFound`, `Connected` | `connect_with_backoff`, `ScadaPlcConnector::connect` |
| `BrowseTree`, `BrowseTypes`, `BrowseFailed`, `BrowseStored` | `do_browse`, `ScadaPlcConnector::browse` |
| `TickElapsed`, `TakeWrite`, `WriteExecuted`, `WriteFailed`, `DrainOver` | the drain loop |
| `PollOk`, `PollFailed`, `PollWaitOver`, `Merge`, `MergeSkipped` | the poll, its failures, `try_write` |

`PlcChannel` is what the rest of the backend may rely on: commands accepted up to a capacity, executed in order,
each at most once, possibly dropped; and a view that only moves to values the PLC published later. The refinement
maps the command being written to the head of the pending ones.

### Simulator (implements JacobiStore)

`state` is `SimulatorState.values`, `lock` its write lock. The tick takes the lock, computes from a snapshot
(`TickBegin`) and stores (`TickCommit`); the write callback acknowledges (`Acknowledge`) and spawns a task that
takes the lock, copies the device's fields (`TaskRead`) and stores them with the new input (`TaskStore`); the
publisher takes a snapshot (`PassBegin`) and sets node by node (`SetValue`). Field values are numbers with 0 for
absent, so that the readiness gate and the seed of `SimulatorState::new` are visible. `stored` and `ran` are history
variables. `JacobiStore` has one variable and three actions: a whole write, a whole tick, a
restart. `NodesNeverBack` is what the process promises beyond it, to whoever polls its nodes.

### LiveEdit

The database (`plcs`, `wires`), the notifications (`listening`, `inbox`), `main()` (`main`), the loop (`loop`), and
the copies: `plant` for the API, `handles` for the connectors, `table` for the tick. `Boot`, `LoadPlant`,
`StartConnectors`, `LoadWires` are `main()` in its order; `Listen`, `Recv`, `ReadWires`, `StoreWires`, `Reload`,
`AddConnector`, `AddDone`, `Kick` are `run_listen_loop` with `refresh_wires` and `add_plc_connector`. The history
variables `wiresMissed` and `plcsMissed` say that an edit since the last read was not notified (no LISTEN yet, a
lost session) or its reload failed: the properties promise nothing while they are set.

### Reconciler

`rows`, the cluster (`deployments`, `services`, `claims`) and one cycle of `reconcile()`: `Query`, `List`, `Create`
for each missing name in any order (the code iterates a `HashMap`), `DeleteDeployment`, `DeleteService`,
`DeleteClaim` for each stale one. `CreateFails` leaves any part of the three documents applied; every failure ends
the cycle. `Drift` is someone else deleting a resource. `desired` is any choice of one row per Deployment name,
because plc_ids that differ may make one name. The history variables are `owed` (a kick that no query has followed),
`absent` (names that had no row at some time since the query) and `drifted` (names whose Deployment someone else deleted
since the listing). With the last two a property can say what a cycle achieves although rows and cluster change under
it (`CycleAchieves`); `Rank` counts the steps a cycle has left (`CycleEnds`).

### WsStream

The stream of one backend to one browser: `Send` is a tick of `stream_state`, `inFlight` the frames of a socket in
order. The methods and handlers of `WsClient` are actions under their own names; `onmessage` is `ingest` of
`state.ts`, `subscribe` its subscription. The history
variable `asMain` says that so far `connect()` was called at most once and `disconnect()` never, as in `main.ts`;
`OneSocket` and `NeverBack` are about such uses, the other properties about any calls.

### DataPath (implements LatestValue)

The composition of the connectors, the simulators and the tick. Each end is what its own refinement leaves: a queue
of commands that are executed in order, at most once, and may be lost (`Execute`, `Lose`; `PlcChannel`), and a store
whose write tasks run in any order (`StoreTask`; `JacobiStore`). `TickStart`, `TickValues` and `TickHandles` are the
three snapshots of `orchestration::start`, `SendNext` one wire; the read guard on the handles is held while it sends,
so `AddConnector` waits for it. `Observe` is a poll and its merge, `Setpoint` `POST /api/setpoint`, `Rewire` the swap
of the wire table, `RestartPlc` and `RestartBackend` the loss of a process. A value is the device it was computed by
and a number that grows, so that "older" means something across devices, queues and restarts. `IngestedState` is keyed
by device_id, as in the code: `IdOf` may give two devices one id.

`LatestValue` has a register per input port: whatever it gets of a device is not older than what it got of that device
before, and comes from a device it is or was wired to. `newest` is the history variable that makes this visible. What is
stored (`input`) is one of the values it got, or a setpoint where setpoints are sent; it may still go back for a moment,
when two tasks store in the other order. A device computes once each of its inputs has a value, and a restart takes the
inputs of every device of the process. `StaysAtSource` says when what is stored can no longer go back.

### PlantDb and Provision

`PlantDb` is the state every other part starts from: `rows` of the four authored tables, `audit` with the steps of
each row. `Insert` checks the foreign and unique keys, `Delete` takes `Cascade(r)` with it (ON DELETE CASCADE and the
trigger that removes the wires of a deleted source), `Revert` is `revert_audit`. `Edit` is any of these. `NoDeadEnd`
relates the three: what cascades took can come back row by row, because one of the missing rows always passes the keys
and has a deletion in the log to revert.

`Provision` puts two processes next to it. The backend's `main()` seeds an empty database row by row (`Seed`, in the
order of the seeder's passes, `Skipped` for what it leaves out) and then serves. The simulator asks for its
configuration (`ResolveSlug`, `ReadPlc`, `ReadInstances`, `ReadWires`: the statements of `sim_config` and
`load_plc_config`, which share no transaction), waits and asks again when it gets anything but a success, and builds
(`Build`). `cut` and `edited` are history variables: a seed was interrupted; the tables changed since the slug was
resolved.

## 4. The runs

| Run | Checks | Shows |
|---|---|---|
| `MCConnector.cfg` | `TypeOK`, `DrainedBeforePoll`, `ImplementsChannel`, `Recovers`, `NeverGivesUp`, `QueueEmpties`, `TelemetryFollows` | a connector under crashes, lost sessions, failed browses and skipped merges implements the channel, comes back when the server does, and keeps trying while it does not |
| `MCSimulator.cfg` | `TypeOK`, `NoLostInput`, `FieldsAreKnown`, `NodesNeverBack`, `ImplementsJacobi`, `EveryWriteStored`, `NodesFollowState` | the lock discipline of tick and tasks; what a client polls never goes back; no task or publisher starves |
| `MCLiveEdit.cfg` | `TypeOK`, `WiresFollow`, `ConnectorsFollow`, `OneConnector`, `WiresConverge`, `KickFollows` | the copies follow the database, or a reload is on its way; the wire table converges; a heard edit kicks the reconciler even when reloads fail |
| `MCReconciler.cfg` | `TypeOK`, `NoKickLost`, `NoWrongDelete`, `CycleAchieves`, `CycleEnds`, `DeploymentsConverge` | a cycle under every failure: what it may not delete, what it has done when it is done, that it ends; and level-triggered convergence |
| `MCWsStream.cfg` | `OneSocket`, `NeverStranded`, `ShowsState`, `NeverBack`, `ScreenFollows` | the client under any calls, and as the application uses it; the screen catches up |
| `MCDataPath.cfg` | `ImplementsLatestValue`, `StaysAtSource`, `EndsAtSource` | two PLCs whose devices wait for each other: values are never out of order, and every input ends at its source and then stays there |
| `MCProvision.cfg` | `TypeOK`, `AuditReplays`, `NoDeadEnd`, `SeedComplete`, `FreshStart`, `SimStarts` | seeds, edits and reverts leave a sound database, in which what was deleted can be brought back; a simulator starts whenever it can, with what the tables held |

### Runs that find a disagreement

Each checks one statement of a document or a comment that the code does not keep; TLC's counterexample is the
finding (quoted in `PROJECT.json`).

| Run | Statement | What happens |
|---|---|---|
| `MCConnectorBlind.cfg` | `BrowseCompletes`: the nodes of a connected PLC get polled | a browse that failed once is never repeated |
| `MCLiveEditGap.cfg` | `EditsReachRuntime`: any write is picked up without a restart | an edit between the load and LISTEN is not |
| `MCReconcilerHeal.cfg` | `SelfHeals`: each cycle self-heals a failed apply | only Deployments are listed |
| `MCProvisionCross.cfg` | `CrossPlcStarts`: cross-PLC wires are allowed | the simulator of the PLC such a wire leads to never starts |
| `MCProvisionEdits.cfg` | `EditsReachSimulator`: live editing without restarts | a running simulator keeps the devices and inputs it started with |

### Differences met while modelling, without a run of their own

The models have the behaviour of the code in each of these points; no run is kept for them.

* The doc of a setpoint says that it updates the state. Two writes of one input are acknowledged in order, but their
  tasks may store in the other (`plc_server.rs:132`), and the older value stays until the next write.
* A PLC that is deleted, or created again with another endpoint, keeps the connector of its first row
  (`plant.rs:68`).
* `disconnect()` of the browser's client clears no timer: a pending reconnect opens a socket afterwards
  (`ws-client.ts:25`, `53`).
* The comment of migration 0003 and `data-model.md:82` say that no orphaned wire is left. `create_wire` takes any source
  device, and a revert may insert a wire after its source is gone; the simulator does not start until it is deleted.
* A seed that was interrupted after its first row is never completed: the next start finds data (`seed.rs:31-34`).
* A device type created without `io_spec` gets `{}`, which `load_plc_config` cannot read: a simulator with a device of
  it does not start (an instance outside `Sound`).
* Reverting the deletion of a PLC brings back its row alone; what its cascade took needs a revert per row, parents first
  (`Revert`, refused otherwise).
* Two PLCs with a device of one device_id share its entry of `IngestedState` (`IdOf`): inputs wired to that id get
  whichever was polled last.
* More wires into one PLC than its queue holds, with a connector in a backoff: the tick drops the newest, and which
  wires get through depends on the order of the rows. `EndsAtSource` asks for a table that fits (`FitsQueue`) and a
  connector that keeps up (`KeepsUp`).

* `scada_plc_connector.rs:26` says the poll list is rebuilt on every (re)connect. It is not when the client library
  restores the session by itself (`session_retry_limit(-1)`): `RestoreLink` leaves `nodeReads` alone.
* ARCHITECTURE.md says one session with no manual reconnect. After the sixth failed poll `run()` connects again, and
  the event loop of the first session goes on retrying: `sessions` reaches 2.
* ARCHITECTURE.md says a device with any unconnected input stays idle. The gate looks at wired inputs only
  (`Inputs`, not `Ports`), and it asks for a value, not for its age: a stalled backend does not make devices un-ready.
* `plc_server.rs:107-108` says the next tick picks a write up. A tick may run between the acknowledgement and the
  write's task.
* `docs/api.md` calls `/api/plant` the current plant. It is the plant of the start (`plant` in LiveEdit).
* ARCHITECTURE.md says Services go with their row. A deletion that fails after the Deployment is gone leaves the
  Service and the claim for ever, because stale PLCs are found by their Deployments.
* The same of Deployments: a PLC whose documents the cluster refuses ends every cycle before the deletions, which is
  why `DeploymentsConverge` has a condition about `Rejected`.
* `docs/backend.md` says `nodeSelector` comes from the PLC's `deploy_node`. An existing Deployment is never applied
  again, so a PLC created again with another node keeps its pod.
* ARCHITECTURE.md says a new simulated PLC gets a Deployment. It does not when `plc_deploy_name` makes the name of
  another PLC of its plc_id, which is why `Deployed` is compared with names and not with rows.

### Bounds

* Connector: two nodes (one may vanish while the other stays), a queue of two and three commands (one is dropped,
  order is visible), a backoff table of two instead of six (a failure that does not and one that does reconnect),
  two published values. The run that finds a disagreement has a queue of one and two commands.
* Simulator: a pump with an unwired port, a tank whose input is also a metric and whose script assigns a field it
  does not have, a Live meter; two writes (to the same or to different inputs) and three values. The liveness run
  has the tank alone.
* LiveEdit: two PLCs, two protocols of which one has connectors, a wire across the PLCs; at most two notifications in
  flight (more repeat the same reload). The run that finds a disagreement has one PLC with two endpoints, and nothing
  fails in it.
* Reconciler: three rows of which two share a Deployment name and one is refused; no other bound.
* WsStream: one device, two sockets at one time, two values, two frames in flight, two pending timers.
* DataPath: two PLCs, a device with one input on each, wired in a cycle or in a chain; a queue of one, one and two write
  tasks (two may store in the other order), two values of one device and a restart, one setpoint.
* Provision: one PLC and the PLC created again under its slug, two instances and one of a type the seed lacks, two wires
  of which one has that instance as its source. What the seed inserts may be deleted and brought back by a revert (three
  audit steps of a row), its type and the second PLC created and deleted (two), the others created. The runs that find
  disagreements have two PLCs with one device each and a wire across.

The proofs are for every value of these constants; the bounds matter only for liveness and for the runs that find
disagreements.

### Fairness

* Tasks that are spawned are scheduled, and requests are answered or time out: weak fairness of `Run`, `TickCommit`,
  `React`, `Cycle`, and of the browser's events and timers.
* `RestoreLink` is weakly fair: `session_retry_limit(-1)` lets the library retry for ever.
* `Merge` is strongly fair: `try_write` fails only at an instant at which somebody holds the lock, and nobody holds it
  always.
* Taking the simulator's lock (`TickBegin`, `TaskRead`, `PassBegin`) is strongly fair: tokio's `RwLock` queues
  its waiters first in, first out.
* `Wake` is weakly fair: the interval ticks for ever. So are the orchestration `Tick`, which has an interval too, and
  each connector's `Execute` and `CatchUp`.
* `StoreTask(p, 1)`, the oldest waiting write task of a simulator, is weakly fair, for the same queue of waiters.
* The backend (`Serve`) and the simulator's start (`Fetch`) are weakly fair: both are scheduled, kubelet starts them
  again, and `load_from_api` retries for ever.
* No fairness on anything the environment does: edits, failures, crashes, lost sessions. Liveness properties name
  what they need of it (`Stable`, `Quiet`: from some time on nothing of that kind happens).

## 5. The proofs

Every theorem is of the form `Spec => ...`, for all values of the constants that satisfy the module's named assumption
(bounds are natural numbers, sentinels are not data, functions have their domains). In each module the argument is the
same: an inductive invariant, a lemma that the initial states satisfy it, one lemma per group of actions with one step
per action and one leaf per conjunct, and temporal theorems that follow by PTL.

* `ConnectorProofs`: type correctness; `WritesInOrder` and `DrainedBeforePoll` from `WriteInv`; `NeverOlder` from
  `TelemetryInv`; `DiscoveredIsPolled` and `FailedBrowseEmptiesPollList` from `BrowseInv`; and that the connector
  implements `PlcChannel`. `WritesInOrder` alone is not inductive: it needs that what is executed comes before the
  command in hand, and that before the queue. `NeverOlder` needs that a poll in hand is not older than what is shown.
* `SimulatorProofs`: `TypeOK`, `NoLostInput`, `FieldsAreKnown`, `GateHolds`, `NoOutputReverts`, `NodesNeverBack`, and
  that the simulator implements `JacobiStore`. The strengthening is `Exclusion`: while a tick or a task is between its
  read and its store it is alone, and what it holds was computed from the current state. `NodesNeverBack` needs
  `NodesBehind` too: a node is no newer than the publisher's snapshot, nor that than the state, for every metric that
  no write may change.
* `LiveEditProofs`: `TypeOK`, `WiresFollow`, `ConnectorsFollow`, `OneConnector`. The strengthening is `BootOrder`
  (nobody listens before `main()` is up, so an edit during the boot is a missed one) and `CopiesFollow` (a copy of the
  wires that is older than the table has a notification behind it).
* `ReconcilerProofs`: `TypeOK`, `NoKickLost`, `NoWrongDelete`, `CycleAchieves`, `CycleEnds`. The first three rest on
  `StaleIsAbsent`: whatever a cycle holds for stale had no row at some time since its query. `CycleAchieves` rests on
  `LeftToDo`: what is not yet as the query wants it is still to be done, or drifted; with nothing left to do only the
  drifted remains. `CycleEnds` is a bound, four steps per name and four more, by the cardinalities of what is missing
  and stale (`SizeOfNames`: they are finite, as `Names` is). It is the part of "cycles end" that is within the
  provers' reach: that each step is taken is fairness, and left to `DeploymentsConverge`.
* `ProvisionProofs`: `TypeOK`, `AuditReplays`, `NoDeadEnd`, `FreshStart`, `SeedComplete`. `CascadeClosed` is the lemma
  behind the first: no row that a DELETE leaves refers to one that its cascades and the cleanup trigger take.
  `AuditReplays` is inductive together with it, because a row that may be inserted is absent and one that is deleted
  present. `NoDeadEnd` joins the two: types and PLCs refer to nothing, so of any missing rows one has its parents
  (`ParentsFirst`), and a row that was inserted and is absent has a deletion as its last step. `FreshInv` adds what an
  answer holds between its statements; a wire is never dropped with its device, because the device it feeds is a row
  of the same PLC. `SeedInv` says that what the seeder has dealt with is there, from the order of its passes
  (`NotSkipped`).
* `WsStreamProofs`: `TypeOK`, `ShowsState`, `NeverStranded`, `OneSocket`, `NeverBack`. `ShowsState` needs `ShowInv`,
  that a subscriber was shown nothing before it subscribed. `OneSocket` needs `SoleInv`: the client that forgot its
  socket has none that is open, and either one live socket or at most one timer. With that there is one queue of
  frames, and `OrderInv` says that they are in order, between what is shown and what the backend has.
* `DataPathProofs`: `TypeOK`, `StaysAtSource`, and that the path implements `LatestValue`. The invariant says of every
  queued command that it is no newer than anything that can still be sent of its device (`AtMost`: what a poll will
  read, what the tick holds), and no older than what was written to its port; that a queue is sorted per device
  (`InOrder`); and that the values the tick and `IngestedState` hold stand under the id of their device (`HeldOK`). Of
  every write task it says that it holds what was written to its port (`TasksOK`), whence whatever is stored is one of
  those values. Losing a command, swapping the table or restarting either end keeps all of these; a queue that put a
  failed write back would not. `StaysAtSource` is the safety half of `EndsAtSource`, and shows what the order is for:
  once the newest value is stored, what is queued of the same device lies between what was written (`InputOK`: at
  least what is stored) and what the device has, so it is the same value (`QueuedIsNewest`).

Some theorems are about properties that no run checks. `DiscoveredIsPolled`, `FailedBrowseEmptiesPollList`,
`GateHolds` and the types of `WsStream` and `DataPath` are parts of invariants that are proved. `WritesInOrder` and
`NeverOlder` follow from `ImplementsChannel`, and `NoOutputReverts` is what `NodesNeverBack` rests on.

Only model-checked: every liveness property (fairness is out of the provers' reach). Every other property that a
passing run checks has a theorem.

## 6. What is not modelled

* Statements that change a row in place: upserts that meet an existing row, reverts of updates. The API has no UPDATE
  of an authored table, and the seeder runs on an empty database, so they are reached only by hand or by a revert of
  what was done by hand. Deploy nodes and discovered nodes are caches that only the API's lists read.
* Validation of parameters and `io_spec` (a constant of a device), `slice_to_plc`, plants loaded from files.
* Conversions between DataType and Variant, ports and memory sizes: values are numbers in every module.
* The backend without a database: it has no edits, no LISTEN loop, no wires and no reconciler.
* Node sync of `k8s.rs`: one upsert per node and no state between rounds.
* What physics scripts compute, the wording of logs and errors, counters, health checks, the assets directory,
  parsing of files and environment variables, the drawing of the scene, charts and provisioning.
* External parts are modelled from how the code uses them: async-opcua sessions and address space, Postgres with
  LISTEN and sqlx's listener, kubectl and the cluster, the browser's WebSocket and timers.
