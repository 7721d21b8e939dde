------------------------------ MODULE Connector ------------------------------
(***************************************************************************)
(* One PLC connector of the backend: the write queue behind a WriteHandle, *)
(* the task GenericConnector::run, the ScadaPlcConnector it drives, and    *)
(* the OPC-UA server at the other end of the session.                      *)
(*                                                                         *)
(*   connect -> browse -> loop { sleep; drain writes; poll; merge }        *)
(*                                                                         *)
(* Simplifications.                                                        *)
(*  - Durations are left out: a sleep ends whenever it is scheduled, so    *)
(*    the delays 1,2,4,...,30 s of the backoff table are all "some time".  *)
(*    Its length stays, as the number of failed polls before a reconnect.  *)
(*  - A value is the number `stamp` had when the server published it, so   *)
(*    a larger number is a newer value; 0 is "no value".                   *)
(*  - A command is its sequence number in the order of WriteHandle::send.  *)
(*  - The breadth-first browse reads the address space in one step; the    *)
(*    DataType read that completes it is a second step.                    *)
(*  - The async-opcua client is external.  session_retry_limit(-1) makes   *)
(*    it restore a lost session by itself, and for ever.                   *)
(***************************************************************************)
EXTENDS Naturals, Sequences

CONSTANTS
    Nodes,        \* the variable nodes a PLC's address space may hold
    QueueCap,     \* depth of the write queue (256 in the code)
    MaxFailures,  \* length of the backoff table (6 in the code)
    MaxCmds,      \* bound: commands ever offered to the queue
    MaxStamp      \* bound: values ever published by the server

ASSUME ConnectorAssumption ==
    /\ QueueCap \in Nat \ {0}
    /\ MaxFailures \in Nat \ {0}
    /\ MaxCmds \in Nat
    /\ MaxStamp \in Nat \ {0}

VARIABLES
    \* the OPC-UA server and the session
    up,           \* the server process runs
    nodes,        \* the variable nodes of its address space
    stamp,        \* the newest value it has published
    link,         \* requests on the connector's current session are answered
    sessions,     \* client event loops running (2 stands for two or more)
    \* the connector task
    pc,           \* where GenericConnector::run is
    failures,     \* consecutive_failures
    nodeReads,    \* ScadaPlcConnector::node_reads, the poll list
    found,        \* the nodes a browse has collected so far
    discovered,   \* this PLC's entry of DiscoveredState: {} or {its nodes}
    batch,        \* the PartialState a poll has returned
    ingested,     \* this PLC's part of IngestedState
    \* the write queue
    sent,         \* commands offered to the queue so far
    queue,        \* accepted commands that the connector has not taken
    current,      \* the command taken last (0: none yet)
    drained,      \* value of `sent` when the last drain saw an empty queue
    applied       \* the commands the server has executed, in order

serverVars    == <<up, nodes, stamp, link, sessions>>
browseVars    == <<nodeReads, found, discovered>>
telemetryVars == <<batch, ingested>>
writeVars     == <<sent, queue, current, drained, applied>>
vars == <<serverVars, pc, failures, browseVars, telemetryVars, writeVars>>

NoValues == [n \in Nodes |-> 0]

Connecting == {"connect", "backoff", "wait"}
Browsing   == {"browse", "types", "browsed"}
Loop       == {"sleep", "drain", "write", "poll", "merge", "pollwait"}

Init ==
    /\ up \in BOOLEAN
    /\ nodes \in SUBSET Nodes
    /\ stamp = 1
    /\ link = FALSE
    /\ sessions = 0
    /\ pc = "connect"
    /\ failures = 0
    /\ nodeReads = {}
    /\ found = {}
    /\ discovered = {}
    /\ batch = NoValues
    /\ ingested = NoValues
    /\ sent = 0
    /\ queue = <<>>
    /\ current = 0
    /\ drained = 0
    /\ applied = <<>>

-----------------------------------------------------------------------------
(* The environment: the OPC-UA server and the client library's event loop. *)

Serving == up /\ link

Publish ==
    /\ up
    /\ stamp < MaxStamp
    /\ stamp' = stamp + 1
    /\ UNCHANGED <<up, nodes, link, sessions, pc, failures, browseVars,
                   telemetryVars, writeVars>>

Crash ==
    /\ up
    /\ up' = FALSE
    /\ link' = FALSE
    /\ UNCHANGED <<nodes, stamp, sessions, pc, failures, browseVars,
                   telemetryVars, writeVars>>

\* A restarted simulator has read its configuration again: its address space
\* may hold other nodes, and every node its initial value.
Restart ==
    /\ ~up
    /\ up' = TRUE
    /\ nodes' \in SUBSET Nodes
    /\ stamp' = IF stamp < MaxStamp THEN stamp + 1 ELSE stamp
    /\ UNCHANGED <<link, sessions, pc, failures, browseVars, telemetryVars,
                   writeVars>>

LoseLink ==
    /\ link
    /\ link' = FALSE
    /\ UNCHANGED <<up, nodes, stamp, sessions, pc, failures, browseVars,
                   telemetryVars, writeVars>>

\* The event loop re-establishes the session without the connector's knowledge.
RestoreLink ==
    /\ up
    /\ ~link
    /\ pc \notin Connecting
    /\ link' = TRUE
    /\ UNCHANGED <<up, nodes, stamp, sessions, pc, failures, browseVars,
                   telemetryVars, writeVars>>

-----------------------------------------------------------------------------
(* connect_with_backoff *)

ConnectRefused ==
    /\ pc = "connect"
    /\ ~up
    /\ pc' = "backoff"
    /\ UNCHANGED <<serverVars, failures, browseVars, telemetryVars, writeVars>>

RetryMutant == pc' = "backoff"
\* Back to the head of the loop in connect_with_backoff.
Retry == pc' = "connect"

BackoffOver ==
    /\ pc = "backoff"
    /\ Retry
    /\ UNCHANGED <<serverVars, failures, browseVars, telemetryVars, writeVars>>

\* The endpoint answers; event_loop.spawn() starts the loop of a new session.
\* The loop of the previous session, if any, is left running.
EndpointFound ==
    /\ pc = "connect"
    /\ up
    /\ pc' = "wait"
    /\ link' = FALSE
    /\ sessions' = IF sessions < 2 THEN sessions + 1 ELSE sessions
    /\ UNCHANGED <<up, nodes, stamp, failures, browseVars, telemetryVars,
                   writeVars>>

ClearPollList == nodeReads' = {}

\* session.wait_for_connection() returns and the old poll list is cleared.
Connected ==
    /\ pc = "wait"
    /\ up
    /\ pc' = "browse"
    /\ link' = TRUE
    /\ ClearPollList
    /\ UNCHANGED <<up, nodes, stamp, sessions, failures, found, discovered,
                   telemetryVars, writeVars>>

-----------------------------------------------------------------------------
(* do_browse, after which run() enters or resumes its loop with           *)
(* consecutive_failures = 0.  An error is logged and nothing more.        *)

BrowseTree ==
    /\ pc = "browse"
    /\ Serving
    /\ found' = nodes
    /\ pc' = "types"
    /\ UNCHANGED <<serverVars, failures, nodeReads, discovered, telemetryVars,
                   writeVars>>

\* The DataType read is skipped when the tree holds no variable.
BrowseTypes ==
    /\ pc = "types"
    /\ found = {} \/ Serving
    /\ nodeReads' = found
    /\ pc' = "browsed"
    /\ UNCHANGED <<serverVars, failures, found, discovered, telemetryVars,
                   writeVars>>

BrowseFailed ==
    /\ \/ pc = "browse"
       \/ pc = "types" /\ found # {}
    /\ ~Serving
    /\ found' = {}
    /\ failures' = 0
    /\ pc' = "sleep"
    /\ UNCHANGED <<serverVars, nodeReads, discovered, telemetryVars, writeVars>>

\* discovered.write().await.insert(name, nodes)
StoreDiscovered == discovered' = {found}

BrowseStored ==
    /\ pc = "browsed"
    /\ StoreDiscovered
    /\ found' = {}
    /\ failures' = 0
    /\ pc' = "sleep"
    /\ UNCHANGED <<serverVars, nodeReads, telemetryVars, writeVars>>

-----------------------------------------------------------------------------
(* The write queue.  Any holder of the WriteHandle sends at any time: the  *)
(* orchestration tick and the setpoint handler of the API.                 *)

\* try_send: a full queue refuses the new command and keeps the old ones.
Send ==
    /\ sent < MaxCmds
    /\ sent' = sent + 1
    /\ queue' = IF Len(queue) < QueueCap THEN Append(queue, sent') ELSE queue
    /\ UNCHANGED <<serverVars, pc, failures, browseVars, telemetryVars,
                   current, drained, applied>>

TickElapsed ==
    /\ pc = "sleep"
    /\ pc' = "drain"
    /\ UNCHANGED <<serverVars, failures, browseVars, telemetryVars, writeVars>>

HasWritesMutant == Len(queue) > 1
HasWrites == queue # <<>>

TakeWrite ==
    /\ pc = "drain"
    /\ HasWrites
    /\ current' = Head(queue)
    /\ queue' = Tail(queue)
    /\ pc' = "write"
    /\ UNCHANGED <<serverVars, failures, browseVars, telemetryVars, sent,
                   drained, applied>>

AfterWriteMutant == pc' = "poll" /\ drained' = sent
\* Back to the head of `while let Ok(cmd) = try_recv()`.
AfterWrite == pc' = "drain" /\ UNCHANGED drained

\* The server executes the command; whether the response arrives, and what
\* it says, changes nothing but the log.
WriteExecuted ==
    /\ pc = "write"
    /\ Serving
    /\ applied' = Append(applied, current)
    /\ AfterWrite
    /\ UNCHANGED <<serverVars, failures, browseVars, telemetryVars, sent,
                   queue, current>>

AfterFailedWriteMutant ==
    /\ queue' = Append(queue, current)
    /\ AfterWrite
\* A write that fails is logged and forgotten.
AfterFailedWrite == AfterWrite /\ UNCHANGED queue

\* No answer, an unparsable node id, or a bad status (read-only node, wrong
\* type).
WriteFailed ==
    /\ pc = "write"
    /\ AfterFailedWrite
    /\ UNCHANGED <<serverVars, failures, browseVars, telemetryVars, sent,
                   current, applied>>

DrainOver ==
    /\ pc = "drain"
    /\ ~HasWrites
    /\ drained' = sent
    /\ pc' = "poll"
    /\ UNCHANGED <<serverVars, failures, browseVars, telemetryVars, sent,
                   queue, current, applied>>

-----------------------------------------------------------------------------
(* ScadaPlcConnector::poll and what run() does with its result.            *)

\* One batch read.  A listed node the server no longer has yields a bad
\* DataValue, which is skipped.
ReadAll == [n \in Nodes |-> IF n \in nodeReads \cap nodes THEN stamp ELSE 0]

\* An empty poll list is a success that asks the server nothing.
PollOk ==
    /\ pc = "poll"
    /\ nodeReads = {} \/ Serving
    /\ batch' = ReadAll
    /\ failures' = 0
    /\ pc' = "merge"
    /\ UNCHANGED <<serverVars, browseVars, ingested, writeVars>>

CountFailureMutant == UNCHANGED failures
\* consecutive_failures += 1
CountFailure == failures' = failures + 1

PollFailed ==
    /\ pc = "poll"
    /\ nodeReads # {}
    /\ ~Serving
    /\ CountFailure
    /\ pc' = "pollwait"
    /\ UNCHANGED <<serverVars, browseVars, telemetryVars, writeVars>>

GivesUpMutant == failures > MaxFailures
GivesUp == failures >= MaxFailures

PollWaitOver ==
    /\ pc = "pollwait"
    /\ pc' = IF GivesUp THEN "connect" ELSE "sleep"
    /\ UNCHANGED <<serverVars, failures, browseVars, telemetryVars, writeVars>>

MergedKeepMutant(old, new) == [n \in Nodes |-> IF old[n] # 0 THEN old[n] ELSE new[n]]
\* state.entry(device).or_default().extend(fields)
Merged(old, new) == [n \in Nodes |-> IF new[n] # 0 THEN new[n] ELSE old[n]]

Merge ==
    /\ pc = "merge"
    /\ ingested' = Merged(ingested, batch)
    /\ batch' = NoValues
    /\ pc' = "sleep"
    /\ UNCHANGED <<serverVars, failures, browseVars, writeVars>>

\* try_write() finds IngestedState locked: the poll's values are dropped.
MergeSkipped ==
    /\ pc = "merge"
    /\ batch' = NoValues
    /\ pc' = "sleep"
    /\ UNCHANGED <<serverVars, failures, browseVars, ingested, writeVars>>

-----------------------------------------------------------------------------
Environment == Publish \/ Crash \/ Restart \/ LoseLink \/ RestoreLink \/ Send

Connect == ConnectRefused \/ BackoffOver \/ EndpointFound \/ Connected
Browse  == BrowseTree \/ BrowseTypes \/ BrowseFailed \/ BrowseStored
Drain   == TickElapsed \/ TakeWrite \/ WriteExecuted \/ WriteFailed \/ DrainOver
Poll    == PollOk \/ PollFailed \/ PollWaitOver \/ Merge \/ MergeSkipped

Run == Connect \/ Browse \/ Drain \/ Poll

Next == Environment \/ Run

\* The connector's task is scheduled, every request is answered or times out,
\* and the client library keeps trying to restore a lost session.  The lock
\* on IngestedState is not always taken at the instant of try_write().
Fairness ==
    /\ WF_vars(Run)
    /\ WF_vars(RestoreLink)
    /\ SF_vars(Merge)

Spec == Init /\ [][Next]_vars

FairSpec == Spec /\ Fairness

-----------------------------------------------------------------------------
(* Type correctness.  consecutive_failures never passes the length of the  *)
(* backoff table, and no number is newer than what has been sent or        *)
(* published.                                                              *)
TypeOK ==
    /\ up \in BOOLEAN
    /\ nodes \in SUBSET Nodes
    /\ stamp \in 1..MaxStamp
    /\ link \in BOOLEAN
    /\ sessions \in 0..2
    /\ pc \in Connecting \cup Browsing \cup Loop
    /\ failures \in 0..MaxFailures
    /\ nodeReads \in SUBSET Nodes
    /\ found \in SUBSET Nodes
    /\ discovered \in SUBSET (SUBSET Nodes)
    /\ batch \in [Nodes -> Nat]
    /\ ingested \in [Nodes -> Nat]
    /\ sent \in 0..MaxCmds
    /\ queue \in Seq(1..MaxCmds)
    /\ current \in 0..MaxCmds
    /\ drained \in 0..MaxCmds
    /\ applied \in Seq(1..MaxCmds)

(* Commands reach the server in the order they were sent, each at most     *)
(* once, whatever happens to the session in between.                       *)
Increasing(s) == \A i, j \in DOMAIN s : i < j => s[i] < s[j]

WritesInOrder == Increasing(applied)

(* "Drain the write queue before reading": when a poll reads, and while    *)
(* its values are merged, no command that was sent before the drain ended  *)
(* is still waiting.                                                       *)
DrainedBeforePoll ==
    pc \in {"poll", "merge"} => \A i \in DOMAIN queue : queue[i] > drained

(* What an operator is shown as the PLC's address space is what is polled: *)
(* node_reads and DiscoveredState, written in two steps, agree whenever    *)
(* the loop polls anything at all.                                         *)
DiscoveredIsPolled ==
    pc \in Loop /\ nodeReads # {} => discovered = {nodeReads}

(* A field of IngestedState never disappears and never goes back to an     *)
(* older value, across crashes, reconnects and skipped merges.             *)
NeverOlder == [][\A n \in Nodes : ingested'[n] >= ingested[n]]_vars

(* A browse that fails leaves nothing to poll: "poll() returns empty       *)
(* rather than stale results until browse() completes".                    *)
FailedBrowseEmptiesPollList ==
    [][(pc \in {"browse", "types"} /\ pc' = "sleep") => nodeReads' = {}]_vars

-----------------------------------------------------------------------------
(* The inductive invariant behind these properties.                        *)

\* A loop iteration starts with fewer failures than lead to a reconnect.
FailureInv ==
    pc \in {"sleep", "drain", "write", "poll", "merge"} => failures < MaxFailures

\* Executed commands come before the one in hand, and those before the queue.
WriteInv ==
    /\ Increasing(applied)
    /\ \A i \in DOMAIN applied : applied[i] <= current
    /\ pc = "write" => current > 0 /\ \A i \in DOMAIN applied : applied[i] < current
    /\ current <= sent
    /\ Increasing(queue)
    /\ \A i \in DOMAIN queue : current < queue[i] /\ queue[i] <= sent
    /\ drained <= sent
    /\ DrainedBeforePoll

\* What is shown is never newer than the poll in hand, nor that than the server.
TelemetryInv ==
    \A n \in Nodes :
        /\ ingested[n] <= stamp
        /\ batch[n] <= stamp
        /\ batch[n] # 0 => ingested[n] <= batch[n]

\* The poll list is empty from the connection to the end of the browse.
BrowseInv ==
    /\ pc \in {"browse", "types"} => nodeReads = {}
    /\ pc = "browsed" => nodeReads = found
    /\ DiscoveredIsPolled

(* The conjunction is inductive: every step of the connector, its queue    *)
(* and the server preserves it.                                            *)
IndInv == TypeOK /\ FailureInv /\ WriteInv /\ TelemetryInv /\ BrowseInv

-----------------------------------------------------------------------------
(* Refinement: the connector implements the lossy channel of PlcChannel.   *)

\* The command being written still counts as pending.
Pending == IF pc = "write" THEN <<current>> \o queue ELSE queue

Channel == INSTANCE PlcChannel WITH
    Capacity <- QueueCap, pending <- Pending, executed <- applied,
    published <- stamp, view <- ingested

(* The rest of the backend may treat a connector, with all its reconnects, *)
(* browses and skipped merges, as an at-most-once in-order lossy channel   *)
(* for writes and a monotone view of what the PLC published.               *)
ImplementsChannel == Channel!Spec

-----------------------------------------------------------------------------
(* Liveness. *)

\* From some point on the server runs and no session is lost.
Stable == <>[]up /\ <>[][~LoseLink]_vars

(* Once the server stays up the connector settles in its loop, with a      *)
(* working session.                                                        *)
Recovers == Stable => <>[](pc \in Loop /\ link)

(* While the server is down for good the connector keeps trying to connect *)
(* unless it polls nothing, in which case it cannot notice.                *)
NeverGivesUp == <>[](~up) => []<>(pc \in Connecting) \/ <>[](nodeReads = {})

(* Every accepted command is eventually taken out of the queue.            *)
QueueEmpties == Stable => []<>(queue = <<>>)

(* What is polled and exists is eventually shown at its newest value.      *)
TelemetryFollows ==
    \A n \in Nodes :
        Stable /\ <>[](n \in nodeReads \cap nodes) => []<>(ingested[n] = stamp)

-----------------------------------------------------------------------------
(* What the documentation says and the code does not do.                   *)

(* Once the server stays up, the browse completes and the connector polls  *)
(* what the server has.                                                    *)
BrowseCompletes ==
    Stable /\ <>[](nodes # {}) => <>[](pc \in Loop => nodeReads # {})
=============================================================================
