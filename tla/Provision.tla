------------------------------ MODULE Provision ------------------------------
(***************************************************************************)
(* From an empty database to a running simulator: the backend seeds the    *)
(* database and serves the API; the pod of one simulated PLC asks it for   *)
(* its configuration, which it reads in several statements while users     *)
(* edit and revert, and builds itself from the answer.                     *)
(*                                                                         *)
(* Simplifications.                                                        *)
(*  - The files of SEED_DIR are the set of rows they describe; the nodes   *)
(*    of inventory.json come before all of them and change nothing here.   *)
(*  - A backoff ends at any time.  What kubelet starts again and when a    *)
(*    pod is killed is external; module Reconciler has the Deployments.    *)
(*  - Sound stands for the validation of io_spec and params of one device. *)
(***************************************************************************)
EXTENDS PlantDb

CONSTANTS
    SeedRows,   \* what the files in SEED_DIR describe
    SimPlcs,    \* rows of plcs with the plc_id of the pod's SIM_PLC_ID
    Sound,      \* instances whose io_spec and params ResolvedPlant accepts
    NoPlc       \* not a row

ASSUME ProvisionAssumption ==
    /\ SeedRows \subseteq Rows
    /\ SimPlcs \subseteq Plcs
    /\ Sound \subseteq Instances
    /\ NoPlc \notin Rows

VARIABLES
    backend,    \* where main() of the backend is
    toSeed,     \* rows of the files the seeder has not come to
    sim,        \* where main() of the simulator is, and the request it made
    plc,        \* the uuid the slug was resolved to
    devices,    \* instances read for the answer
    inputs,     \* wires read for the answer
    \* history
    cut,        \* a seed was interrupted
    edited      \* the tables changed since the slug was resolved

backendVars == <<backend, toSeed, cut>>
simVars     == <<sim, plc, devices, inputs>>
vars == <<dbVars, backendVars, simVars, edited>>

Fetching == {"plc", "instances", "wires", "build"}
SimPcs   == {"down", "slug", "wait", "running"} \cup Fetching

Init ==
    /\ DbInit
    /\ backend = "down"
    /\ toSeed = {}
    /\ sim = "down"
    /\ plc = NoPlc
    /\ devices = {}
    /\ inputs = {}
    /\ cut = FALSE
    /\ edited = FALSE

-----------------------------------------------------------------------------
(* The backend: seed_if_configured, then the API.                          *)

HasData == rows \cap Plcs # {} \/ rows \cap Types # {}

Boot ==
    /\ backend = "down"
    /\ backend' = IF HasData THEN "up" ELSE "seed"
    /\ toSeed' = IF HasData THEN {} ELSE SeedRows
    /\ UNCHANGED <<dbVars, simVars, cut, edited>>

BeforeMutant(r) == IF r \in Types THEN {} ELSE Types
\* The order of the seeder: types, each PLC and its instances, then the wires.
Before(r) ==
    CASE r \in Types     -> {}
      [] r \in Plcs      -> Types
      [] r \in Instances -> Types \cup {PlcOf[r]}
      [] OTHER           -> Rows \ Wires

\* A device of an unknown type is skipped, and so is a wire at an instance that
\* was, or from a device no seeded instance has.
Skipped(r) ==
    \/ r \in Instances /\ TypeOf[r] \notin rows
    \/ r \in Wires /\ Dst[r] \notin rows
    \/ r \in Wires /\ \A i \in rows \cap Instances : DeviceOf[i] # SrcDevice[r]

\* An upsert; the rest of it does nothing in a database nobody else writes.
Seed(r) ==
    /\ backend = "seed"
    /\ r \in toSeed
    /\ Before(r) \cap toSeed = {}
    /\ toSeed' = toSeed \ {r}
    /\ IF Skipped(r) THEN UNCHANGED <<dbVars, edited>> ELSE Insert(r) /\ edited' = TRUE
    /\ UNCHANGED <<backend, simVars, cut>>

Seeded ==
    /\ backend = "seed"
    /\ toSeed = {}
    /\ backend' = "up"
    /\ UNCHANGED <<dbVars, toSeed, simVars, cut, edited>>

\* Requests under way are answered by nobody.
Crash ==
    /\ backend # "down"
    /\ backend' = "down"
    /\ cut' = (cut \/ toSeed # {})
    /\ toSeed' = {}
    /\ sim' = IF sim \in Fetching \ {"build"} THEN "wait" ELSE sim
    /\ UNCHANGED <<dbVars, plc, devices, inputs, edited>>

\* The API, whose handlers check nothing that the database does not.
UserEdit ==
    /\ backend = "up"
    /\ Edit
    /\ edited' = TRUE
    /\ UNCHANGED <<backendVars, simVars>>

-----------------------------------------------------------------------------
(* The simulator: load_from_api and the handler sim_config it calls.       *)

Start ==
    /\ sim = "down"
    /\ sim' = "slug"
    /\ UNCHANGED <<dbVars, backendVars, plc, devices, inputs, edited>>

\* Anything but a success is retried after a backoff.
Refused == sim' = "wait"

ResolveSlug ==
    /\ sim = "slug"
    /\ backend = "up"
    /\ edited' = FALSE
    /\ \/ \E p \in SimPlcs \cap rows : plc' = p /\ sim' = "plc"
       \/ SimPlcs \cap rows = {} /\ Refused /\ UNCHANGED plc
    /\ UNCHANGED <<dbVars, backendVars, devices, inputs>>

\* The backend is not reachable, or a statement of the handler fails.
RequestFails ==
    /\ sim \in {"slug", "plc", "instances", "wires"}
    /\ Refused
    /\ UNCHANGED <<dbVars, backendVars, plc, devices, inputs, edited>>

ReadPlc ==
    /\ sim = "plc"
    /\ IF plc \in rows THEN sim' = "instances" ELSE Refused
    /\ UNCHANGED <<dbVars, backendVars, plc, devices, inputs, edited>>

ReadInstances ==
    /\ sim = "instances"
    /\ devices' = InstancesOf(plc) \cap rows
    /\ sim' = "wires"
    /\ UNCHANGED <<dbVars, backendVars, plc, inputs, edited>>

WiresOf(p) == {w \in Wires : PlcOf[Dst[w]] = p}

HasDevice(ds, id) == \E i \in ds : DeviceOf[i] = id

KeptMutant(w) == HasDevice(devices, DeviceOf[Dst[w]]) /\ HasDevice(devices, SrcDevice[w])
\* Wires at a device that was not read are dropped with it.
Kept(w) == HasDevice(devices, DeviceOf[Dst[w]])

ReadWires ==
    /\ sim = "wires"
    /\ inputs' = {w \in WiresOf(plc) \cap rows : Kept(w)}
    /\ sim' = "build"
    /\ UNCHANGED <<dbVars, backendVars, plc, devices, edited>>

RetryMutant == IF plc = NoPlc THEN "slug" ELSE "plc"
\* Every attempt is a whole request.
Retry == "slug"

BackoffOver ==
    /\ sim = "wait"
    /\ sim' = Retry
    /\ UNCHANGED <<dbVars, backendVars, plc, devices, inputs, edited>>

\* ResolvedPlant::build looks for the source among the devices of the answer.
SoundWires(ds, ws) == \A w \in ws : HasDevice(ds, SrcDevice[w])

Builds(ds, ws) == ds \subseteq Sound /\ SoundWires(ds, ws)

\* An error of build() ends the process, which kubelet starts again.
Build ==
    /\ sim = "build"
    /\ sim' = IF Builds(devices, inputs) THEN "running" ELSE "down"
    /\ UNCHANGED <<dbVars, backendVars, plc, devices, inputs, edited>>

Kill ==
    /\ sim # "down"
    /\ sim' = "down"
    /\ UNCHANGED <<dbVars, backendVars, plc, devices, inputs, edited>>

-----------------------------------------------------------------------------
Serve == Boot \/ (\E r \in Rows : Seed(r)) \/ Seeded
Fetch ==
    \/ Start \/ ResolveSlug \/ ReadPlc \/ ReadInstances \/ ReadWires \/ BackoffOver \/ Build

Next == Serve \/ Crash \/ UserEdit \/ Fetch \/ RequestFails \/ Kill

Spec == Init /\ [][Next]_vars

\* Both processes are scheduled and restarted, and their statements answered.
Fairness == WF_vars(Serve) /\ WF_vars(Fetch)

FairSpec == Spec /\ Fairness

-----------------------------------------------------------------------------
\* The type of every variable, and the references of the rows.
TypeOK ==
    /\ DbTypeOK
    /\ backend \in {"down", "seed", "up"}
    /\ toSeed \in SUBSET SeedRows
    /\ sim \in SimPcs
    /\ plc \in SimPlcs \cup {NoPlc}
    /\ devices \in SUBSET Instances
    /\ inputs \in SUBSET Wires
    /\ cut \in BOOLEAN
    /\ edited \in BOOLEAN

\* What the files describe completely: the parents and the source are in them.
Described(r) ==
    /\ References(r) \subseteq SeedRows
    /\ r \in Wires => HasDevice({i \in SeedRows \cap Instances : TypeOf[i] \in SeedRows}, SrcDevice[r])
    /\ \A i \in References(r) \cap Instances : TypeOf[i] \in SeedRows

\* Unless a seed was interrupted, a backend that serves has imported everything
\* its files describe completely: no row is skipped or refused because the one
\* it needs comes later (seed.rs:39-43, 115-182).
SeedComplete ==
    backend = "up" /\ ~cut => \A r \in SeedRows : Described(r) => audit[r] # <<>>

\* What a simulator runs is what the tables held when it asked, although the
\* answer is put together by statements that are no transaction: a mix of
\* states is built only if an edit came in between (plant_loader.rs:208-317).
FreshStart ==
    sim = "running" /\ ~edited =>
        /\ devices = InstancesOf(plc) \cap rows
        /\ inputs = WiresOf(plc) \cap rows

-----------------------------------------------------------------------------
\* From some time on the backend serves and nothing but the simulator's own
\* steps happens.
Settled == <>[](backend = "up") /\ <>[][Fetch]_vars

CanBuild(p) == p \in rows /\ Builds(InstancesOf(p) \cap rows, WiresOf(p) \cap rows)

\* A simulator whose PLC can be built runs in the end, whatever its requests met
\* before: a missing row, a PLC that was deleted and created again under its
\* slug, a half-read answer that does not build (loader.rs:80-123).
SimStarts == Settled /\ <>[](\E p \in SimPlcs : CanBuild(p)) => <>[](sim = "running")

-----------------------------------------------------------------------------
(* What comments and documents say, and the code does not do.              *)

\* resolved.rs:60: "cross-PLC wires are allowed".  So it should be enough that
\* the source of every wire exists on the PLC the wire names.
HasSource(w) == \E i \in InstancesOf(SrcPlc[w]) \cap rows : DeviceOf[i] = SrcDevice[w]

CrossPlcStarts ==
    /\ Settled
    /\ <>[](\E p \in SimPlcs \cap rows :
               /\ InstancesOf(p) \cap rows \subseteq Sound
               /\ \A w \in WiresOf(p) \cap rows : HasSource(w))
    => <>[](sim = "running")

\* architecture.md:112: "Live editing - no restarts".  So a running simulator
\* should come to have the devices and the inputs of its rows.
EditsReachSimulator ==
    Settled => <>[](sim = "running" =>
        /\ devices = InstancesOf(plc) \cap rows
        /\ inputs = WiresOf(plc) \cap rows)
=============================================================================
