--------------------------- MODULE ConnectorProofs ---------------------------
(* Proofs about Connector, for every value of its constants. *)
EXTENDS Connector, SequenceTheorems, TLAPS

-----------------------------------------------------------------------------
(* Every step keeps the types; FailureInv is what bounds consecutive_failures. *)

\* A command in hand has a sequence number: `current` is 0 only before the first.
InHand == pc = "write" => current > 0

TypeInv == TypeOK /\ FailureInv /\ InHand

\* The connector starts with every variable in its type.
LEMMA TypeInit == Init => TypeInv
<1> SUFFICES ASSUME Init PROVE TypeInv
  OBVIOUS
<1> USE ConnectorAssumption DEF Init
<1>1. queue \in Seq(1..MaxCmds) /\ applied \in Seq(1..MaxCmds)
  OBVIOUS
<1>2. batch \in [Nodes -> Nat] /\ ingested \in [Nodes -> Nat]
  BY DEF NoValues
<1>3. FailureInv
  BY DEF FailureInv
<1>4. TypeOK
  <2>1. pc \in Connecting BY DEF Connecting
  <2>2. nodes \in SUBSET Nodes /\ up \in BOOLEAN /\ link \in BOOLEAN OBVIOUS
  <2>3. stamp \in 1..MaxStamp /\ failures \in 0..MaxFailures /\ sessions \in 0..2 OBVIOUS
  <2>4. sent \in 0..MaxCmds /\ current \in 0..MaxCmds /\ drained \in 0..MaxCmds OBVIOUS
  <2>5. nodeReads \in SUBSET Nodes /\ found \in SUBSET Nodes
        /\ discovered \in SUBSET (SUBSET Nodes) OBVIOUS
  <2>6. QED BY <1>1, <1>2, <2>1, <2>2, <2>3, <2>4, <2>5, Zenon DEF TypeOK
<1>5. QED
  BY <1>3, <1>4 DEF TypeInv, InHand

\* No step of the connector, its producers or the PLC leaves the types; a failed
\* poll is counted up to the limit and no further.
LEMMA TypeStep == TypeInv /\ [Next]_vars => TypeInv'
<1> SUFFICES ASSUME TypeInv, [Next]_vars
             PROVE  TypeInv'
  OBVIOUS
<1> USE ConnectorAssumption
    DEF TypeInv, TypeOK, FailureInv, InHand, Connecting, Browsing, Loop,
        serverVars, browseVars, telemetryVars, writeVars
<1>1. CASE Environment
  <2>1. CASE Publish BY <2>1 DEF Publish
  <2>2. CASE Crash BY <2>2 DEF Crash
  <2>3. CASE Restart BY <2>3 DEF Restart
  <2>4. CASE LoseLink BY <2>4 DEF LoseLink
  <2>5. CASE RestoreLink BY <2>5 DEF RestoreLink
  <2>6. CASE Send
    <3>1. sent' \in 1..MaxCmds BY <2>6 DEF Send
    <3>2. queue' = queue \/ queue' = Append(queue, sent') BY <2>6 DEF Send
    <3>3. queue' \in Seq(1..MaxCmds)
      <4>1. queue \in Seq(1..MaxCmds) OBVIOUS
      <4>2. Append(queue, sent') \in Seq(1..MaxCmds) BY <3>1, <4>1, AppendProperties
      <4>3. QED BY <3>2, <4>1, <4>2
    <3>4. QED BY <2>6, <3>1, <3>3 DEF Send
  <2>7. QED BY <1>1, <2>1, <2>2, <2>3, <2>4, <2>5, <2>6 DEF Environment
<1>2. CASE Connect
  <2>1. CASE ConnectRefused BY <2>1 DEF ConnectRefused
  <2>2. CASE BackoffOver BY <2>2 DEF BackoffOver, Retry
  <2>3. CASE EndpointFound
    <3>1. sessions' \in 0..2 BY <2>3 DEF EndpointFound
    <3>2. QED BY <2>3, <3>1 DEF EndpointFound
  <2>4. CASE Connected BY <2>4 DEF Connected, ClearPollList
  <2>5. QED BY <1>2, <2>1, <2>2, <2>3, <2>4 DEF Connect
<1>3. CASE Browse
  <2>1. CASE BrowseTree BY <2>1 DEF BrowseTree
  <2>2. CASE BrowseTypes BY <2>2 DEF BrowseTypes
  <2>3. CASE BrowseFailed BY <2>3 DEF BrowseFailed
  <2>4. CASE BrowseStored BY <2>4 DEF BrowseStored, StoreDiscovered
  <2>5. QED BY <1>3, <2>1, <2>2, <2>3, <2>4 DEF Browse
<1>4. CASE Drain
  <2>1. CASE TickElapsed BY <2>1 DEF TickElapsed
  <2>2. CASE TakeWrite BY <2>2 DEF TakeWrite, HasWrites
  <2>3. CASE WriteExecuted
    <3>1. applied' \in Seq(1..MaxCmds) BY <2>3 DEF WriteExecuted
    <3>2. QED BY <2>3, <3>1 DEF WriteExecuted, AfterWrite
  <2>4. CASE WriteFailed BY <2>4 DEF WriteFailed, AfterFailedWrite, AfterWrite
  <2>5. CASE DrainOver BY <2>5 DEF DrainOver
  <2>6. QED BY <1>4, <2>1, <2>2, <2>3, <2>4, <2>5 DEF Drain
<1>5. CASE Poll
  <2>1. CASE PollOk BY <2>1 DEF PollOk, ReadAll
  <2>2. CASE PollFailed BY <2>2 DEF PollFailed, CountFailure
  <2>3. CASE PollWaitOver BY <2>3 DEF PollWaitOver, GivesUp
  <2>4. CASE Merge BY <2>4 DEF Merge, Merged, NoValues
  <2>5. CASE MergeSkipped BY <2>5 DEF MergeSkipped, NoValues
  <2>6. QED BY <1>5, <2>1, <2>2, <2>3, <2>4, <2>5 DEF Poll
<1>6. CASE UNCHANGED vars
  BY <1>6 DEF vars
<1>7. QED
  BY <1>1, <1>2, <1>3, <1>4, <1>5, <1>6 DEF Next, Run

\* Every reachable state is well typed; consecutive_failures in particular
\* never passes the length of the backoff table.
THEOREM TypeCorrect == Spec => []TypeOK
<1>1. Spec => []TypeInv
  BY TypeInit, TypeStep, PTL DEF Spec
<1>2. QED
  BY <1>1, PTL DEF TypeInv

-----------------------------------------------------------------------------
(* Sequences of increasing numbers. *)

\* An increasing sequence stays increasing when a larger number is appended.
LEMMA IncreasingAppend ==
  ASSUME NEW S \in SUBSET Nat, NEW s \in Seq(S), NEW e \in S,
         Increasing(s), \A i \in DOMAIN s : s[i] < e
  PROVE  Increasing(Append(s, e))
<1> DEFINE t == Append(s, e)
<1>1. /\ DOMAIN s = 1..Len(s)
      /\ DOMAIN t = 1..Len(s) + 1
      /\ Len(s) \in Nat
      /\ \A i \in 1..Len(s) : t[i] = s[i]
      /\ t[Len(s) + 1] = e
  BY AppendProperties, LenProperties
<1>2. \A i \in 1..Len(s) : s[i] \in Nat
  BY ElementOfSeq
<1>3. SUFFICES ASSUME NEW i \in DOMAIN t, NEW j \in DOMAIN t, i < j
               PROVE  t[i] < t[j]
  BY DEF Increasing
<1>4. i \in 1..Len(s)
  BY <1>1, <1>3
<1>5. CASE j = Len(s) + 1
  BY <1>1, <1>4, <1>5
<1>6. CASE j \in 1..Len(s)
  BY <1>1, <1>3, <1>4, <1>6 DEF Increasing
<1>7. QED
  BY <1>1, <1>5, <1>6

\* The tail of an increasing sequence is increasing, above its head, and holds
\* only elements of the sequence.
LEMMA IncreasingTail ==
  ASSUME NEW S \in SUBSET Nat, NEW s \in Seq(S), s # <<>>, Increasing(s)
  PROVE  /\ Increasing(Tail(s))
         /\ \A i \in DOMAIN Tail(s) :
              /\ Head(s) < Tail(s)[i]
              /\ \E j \in DOMAIN s : Tail(s)[i] = s[j]
         /\ 1 \in DOMAIN s /\ Head(s) = s[1]
<1> DEFINE t == Tail(s)
<1>1. /\ DOMAIN s = 1..Len(s)
      /\ Len(s) \in Nat \ {0}
      /\ Len(t) = Len(s) - 1
      /\ DOMAIN t = 1..Len(t)
      /\ \A i \in 1..Len(t) : t[i] = s[i + 1]
      /\ Head(s) = s[1]
  BY HeadTailProperties, LenProperties, EmptySeq
<1>2. ASSUME NEW i \in DOMAIN t
      PROVE  i + 1 \in DOMAIN s /\ 1 \in DOMAIN s /\ t[i] = s[i + 1] /\ 1 < i + 1
  BY <1>1
<1>3. ASSUME NEW i \in DOMAIN t, NEW j \in DOMAIN t, i < j
      PROVE  t[i] < t[j]
  <2>1. i + 1 < j + 1 BY <1>1, <1>3
  <2>2. QED BY <1>2, <2>1 DEF Increasing
<1>4. ASSUME NEW i \in DOMAIN t
      PROVE  Head(s) < t[i] /\ \E j \in DOMAIN s : t[i] = s[j]
  BY <1>1, <1>2 DEF Increasing
<1>5. QED
  BY <1>1, <1>3, <1>4 DEF Increasing

-----------------------------------------------------------------------------
(* The commands: executed < in hand < queued, each part increasing. *)

\* No command has been sent, taken or executed at the start.
LEMMA WriteInit == Init => WriteInv
  BY DEF Init, WriteInv, Increasing, DrainedBeforePoll

\* Commands keep their order on the way from the queue through the drain to the
\* PLC, and the queue is drained before a poll.
LEMMA WriteStep == TypeInv /\ WriteInv /\ [Next]_vars => WriteInv'
<1> SUFFICES ASSUME TypeInv, WriteInv, [Next]_vars
             PROVE  WriteInv'
  OBVIOUS
<1> DEFINE Ids == 1..MaxCmds
<1>t. /\ Ids \in SUBSET Nat
      /\ queue \in Seq(Ids) /\ applied \in Seq(Ids)
      /\ sent \in Nat /\ current \in Nat /\ drained \in Nat
      /\ \A i \in DOMAIN queue : queue[i] \in Nat
      /\ \A i \in DOMAIN applied : applied[i] \in Nat
  BY ConnectorAssumption, ElementOfSeq, LenProperties DEF TypeInv, TypeOK
<1>1. CASE UNCHANGED writeVars /\ (pc' = pc \/ pc' \notin {"write", "poll"})
           /\ (pc' = "merge" => pc \in {"poll", "merge"})
  BY <1>1 DEF WriteInv, DrainedBeforePoll, writeVars
<1>2. CASE Send
  <2>1. sent' \in Ids /\ sent' = sent + 1
    <3>1. sent < MaxCmds /\ sent' = sent + 1 BY <1>2 DEF Send
    <3>2. QED BY <1>t, <3>1, ConnectorAssumption
  <2>2. UNCHANGED <<pc, current, drained, applied>>
    BY <1>2 DEF Send
  <2>3. CASE queue' = queue
    <3>1. current' <= sent' /\ drained' <= sent'
      BY <1>t, <2>1, <2>2 DEF WriteInv
    <3>2. \A i \in DOMAIN queue' : queue'[i] <= sent'
      BY <1>t, <2>1, <2>3 DEF WriteInv
    <3>3. QED
      BY <2>2, <2>3, <3>1, <3>2 DEF WriteInv, DrainedBeforePoll
  <2>4. CASE queue' = Append(queue, sent')
    <3>1. \A i \in DOMAIN queue : queue[i] < sent'
      BY <1>t, <2>1 DEF WriteInv
    <3>2. Increasing(queue')
      BY <1>t, <2>1, <2>4, <3>1, IncreasingAppend DEF WriteInv
    <3>3. \A i \in DOMAIN queue' : queue'[i] = sent' \/ \E j \in DOMAIN queue : queue'[i] = queue[j]
      <4>1. /\ DOMAIN queue = 1..Len(queue)
            /\ Len(queue) \in Nat
            /\ DOMAIN queue' = 1..Len(queue) + 1
            /\ \A i \in 1..Len(queue) : queue'[i] = queue[i]
            /\ queue'[Len(queue) + 1] = sent'
        BY <1>t, <2>1, <2>4, AppendProperties, LenProperties
      <4>2. QED BY <4>1
    <3>4. current < sent' /\ drained < sent' /\ sent <= sent'
      BY <1>t, <2>1 DEF WriteInv
    <3>5. \A i \in DOMAIN queue' : current < queue'[i] /\ queue'[i] <= sent'
      BY <1>t, <2>1, <3>1, <3>3, <3>4 DEF WriteInv
    <3>6. DrainedBeforePoll'
      BY <1>t, <2>1, <2>2, <3>3, <3>4 DEF WriteInv, DrainedBeforePoll
    <3>7. current' <= sent' /\ drained' <= sent'
      BY <1>t, <2>1, <2>2, <3>4
    <3>8. QED
      BY <2>2, <3>2, <3>5, <3>6, <3>7 DEF WriteInv
  <2>5. QED
    BY <1>2, <2>3, <2>4 DEF Send
<1>3. CASE TakeWrite
  <2>1. /\ queue # <<>> /\ pc' = "write"
        /\ current' = Head(queue) /\ queue' = Tail(queue)
        /\ UNCHANGED <<sent, drained, applied>>
    BY <1>3 DEF TakeWrite, HasWrites
  <2>2. /\ Increasing(queue')
        /\ \A i \in DOMAIN queue' :
             current' < queue'[i] /\ \E j \in DOMAIN queue : queue'[i] = queue[j]
        /\ 1 \in DOMAIN queue /\ current' = queue[1]
    BY <1>t, <2>1, IncreasingTail DEF WriteInv
  <2>3. current < current' /\ current' <= sent /\ current' \in Nat
    BY <1>t, <2>2 DEF WriteInv
  <2>4. \A i \in DOMAIN applied : applied[i] < current'
    BY <1>t, <2>3 DEF WriteInv
  <2>5. \A i \in DOMAIN queue' : queue'[i] <= sent
    BY <1>t, <2>2 DEF WriteInv
  <2>6. QED
    BY <1>t, <2>1, <2>2, <2>3, <2>4, <2>5 DEF WriteInv, DrainedBeforePoll
<1>4. CASE WriteExecuted
  <2>1. /\ pc = "write" /\ pc' = "drain"
        /\ applied' = Append(applied, current)
        /\ UNCHANGED <<sent, queue, current, drained>>
    BY <1>4 DEF WriteExecuted, AfterWrite
  <2>2. current \in Ids
    BY <1>t, <2>1, ConnectorAssumption DEF WriteInv, TypeInv, TypeOK
  <2>3. Increasing(applied')
    BY <1>t, <2>1, <2>2, IncreasingAppend DEF WriteInv
  <2>4. \A i \in DOMAIN applied' : applied'[i] <= current
    <3>1. /\ DOMAIN applied = 1..Len(applied)
          /\ Len(applied) \in Nat
          /\ DOMAIN applied' = 1..Len(applied) + 1
          /\ \A i \in 1..Len(applied) : applied'[i] = applied[i]
          /\ applied'[Len(applied) + 1] = current
      BY <1>t, <2>1, <2>2, AppendProperties, LenProperties
    <3>2. QED BY <1>t, <3>1 DEF WriteInv
  <2>5. QED
    BY <2>1, <2>3, <2>4 DEF WriteInv, DrainedBeforePoll
<1>5. CASE WriteFailed
  BY <1>5 DEF WriteFailed, AfterFailedWrite, AfterWrite, WriteInv, DrainedBeforePoll
<1>6. CASE DrainOver
  <2>1. queue = <<>> /\ drained' = sent /\ pc' = "poll"
        /\ UNCHANGED <<sent, queue, current, applied>>
    BY <1>6 DEF DrainOver, HasWrites
  <2>2. DOMAIN queue = {}
    BY <2>1
  <2>3. QED
    BY <1>t, <2>1, <2>2 DEF WriteInv, DrainedBeforePoll
<1>7. QED
  <2>1. CASE Environment
    BY <2>1, <1>1, <1>2 DEF Environment, Publish, Crash, Restart, LoseLink, RestoreLink
  <2>2. CASE Connect
    BY <2>2, <1>1 DEF Connect, ConnectRefused, BackoffOver, Retry, EndpointFound, Connected
  <2>3. CASE Browse
    BY <2>3, <1>1 DEF Browse, BrowseTree, BrowseTypes, BrowseFailed, BrowseStored
  <2>4. CASE Drain
    <3>1. TickElapsed => UNCHANGED writeVars /\ pc' = "drain"
      BY DEF TickElapsed
    <3>2. QED
      BY <2>4, <3>1, <1>1, <1>3, <1>4, <1>5, <1>6 DEF Drain
  <2>5. CASE Poll
    BY <2>5, <1>1 DEF Poll, PollOk, PollFailed, PollWaitOver, Merge, MergeSkipped
  <2>6. CASE UNCHANGED vars
    BY <2>6, <1>1 DEF vars
  <2>7. QED
    BY <2>1, <2>2, <2>3, <2>4, <2>5, <2>6 DEF Next, Run

\* Commands are executed in the order they were sent, each at most once.
THEOREM OrderCorrect == Spec => []WritesInOrder
<1>1. TypeInv /\ WriteInv => WritesInOrder
  BY DEF WriteInv, WritesInOrder
<1>2. QED
  BY <1>1, TypeInit, TypeStep, WriteInit, WriteStep, PTL DEF Spec

\* No command sent before the end of the drain is still queued at the poll.
THEOREM DrainCorrect == Spec => []DrainedBeforePoll
<1>1. TypeInv /\ WriteInv => DrainedBeforePoll
  BY DEF WriteInv
<1>2. QED
  BY <1>1, TypeInit, TypeStep, WriteInit, WriteStep, PTL DEF Spec

-----------------------------------------------------------------------------
(* Telemetry: shown <= polled <= published, field by field. *)

\* There is no telemetry at the start.
LEMMA TelemetryInit == Init => TelemetryInv
<1> SUFFICES ASSUME Init, NEW n \in Nodes
             PROVE  /\ ingested[n] <= stamp
                    /\ batch[n] <= stamp
                    /\ batch[n] # 0 => ingested[n] <= batch[n]
  BY DEF TelemetryInv
<1>1. ingested[n] = 0 /\ batch[n] = 0 /\ stamp = 1
  BY DEF Init, NoValues
<1>2. QED
  BY <1>1

\* What is merged was polled after everything merged before.
LEMMA TelemetryStep == TypeInv /\ TelemetryInv /\ [Next]_vars => TelemetryInv'
<1> SUFFICES ASSUME TypeInv, TelemetryInv, [Next]_vars
             PROVE  TelemetryInv'
  OBVIOUS
<1>t. /\ stamp \in Nat \ {0}
      /\ \A n \in Nodes : batch[n] \in Nat /\ ingested[n] \in Nat
  BY ConnectorAssumption DEF TypeInv, TypeOK
<1>1. CASE UNCHANGED telemetryVars /\ (stamp' = stamp \/ stamp' = stamp + 1)
  <2>1. stamp <= stamp' /\ UNCHANGED batch /\ UNCHANGED ingested
    BY <1>1, <1>t DEF telemetryVars
  <2>2. ASSUME NEW n \in Nodes
        PROVE  ingested[n] <= stamp' /\ batch[n] <= stamp'
    BY <1>1, <1>t DEF TelemetryInv
  <2>3. QED
    BY <2>1, <2>2 DEF TelemetryInv
<1>2. CASE PollOk
  <2>1. /\ batch' = [n \in Nodes |-> IF n \in nodeReads \cap nodes THEN stamp ELSE 0]
        /\ ingested' = ingested /\ stamp' = stamp
    BY <1>2 DEF PollOk, ReadAll, serverVars
  <2>2. QED
    BY <1>t, <2>1 DEF TelemetryInv
<1>3. CASE Merge
  BY <1>3, <1>t DEF Merge, Merged, NoValues, TelemetryInv, serverVars
<1>4. CASE MergeSkipped
  BY <1>4, <1>t DEF MergeSkipped, NoValues, TelemetryInv, serverVars
<1>5. QED
  <2>1. CASE Environment
    <3>1. (stamp' = stamp \/ stamp' = stamp + 1) /\ UNCHANGED telemetryVars
      BY <2>1 DEF Environment, Publish, Crash, Restart, LoseLink, RestoreLink, Send,
         serverVars
    <3>2. QED
      BY <3>1, <1>1
  <2>2. CASE Connect
    <3>1. stamp' = stamp /\ UNCHANGED telemetryVars
      BY <2>2 DEF Connect, ConnectRefused, BackoffOver, Retry, EndpointFound, Connected,
         serverVars
    <3>2. QED
      BY <3>1, <1>1
  <2>3. CASE Browse
    BY <2>3, <1>1 DEF Browse, BrowseTree, BrowseTypes, BrowseFailed, BrowseStored,
       serverVars
  <2>4. CASE Drain
    BY <2>4, <1>1 DEF Drain, TickElapsed, TakeWrite, WriteExecuted, WriteFailed,
       DrainOver, serverVars
  <2>5. CASE Poll
    BY <2>5, <1>1, <1>2, <1>3, <1>4 DEF Poll, PollFailed, PollWaitOver, serverVars
  <2>6. CASE UNCHANGED vars
    BY <2>6, <1>1 DEF vars, serverVars
  <2>7. QED
    BY <2>1, <2>2, <2>3, <2>4, <2>5, <2>6 DEF Next, Run

\* What a step does to the view: it changes only by a merge, and then each
\* field moves forward to a value that has been published.
LEMMA ViewStep ==
  TypeInv /\ TelemetryInv /\ [Next]_vars =>
    \/ ingested' = ingested
    \/ /\ UNCHANGED <<sent, queue, current, applied, stamp>>
       /\ pc # "write" /\ pc' # "write"
       /\ ingested' \in [Nodes -> 0..stamp]
       /\ \A n \in Nodes : ingested[n] <= ingested'[n]
<1> SUFFICES ASSUME TypeInv, TelemetryInv, [Next]_vars
             PROVE  \/ ingested' = ingested
                    \/ /\ UNCHANGED <<sent, queue, current, applied, stamp>>
                       /\ pc # "write" /\ pc' # "write"
                       /\ ingested' \in [Nodes -> 0..stamp]
                       /\ \A n \in Nodes : ingested[n] <= ingested'[n]
  OBVIOUS
<1>1. CASE Merge
  <2>1. /\ stamp \in Nat
        /\ \A n \in Nodes : batch[n] \in Nat /\ ingested[n] \in Nat
    BY ConnectorAssumption DEF TypeInv, TypeOK
  <2>2. ingested' = [n \in Nodes |-> IF batch[n] # 0 THEN batch[n] ELSE ingested[n]]
    BY <1>1 DEF Merge, Merged
  <2>3. ingested' \in [Nodes -> 0..stamp]
    BY <2>1, <2>2 DEF TelemetryInv
  <2>4. \A n \in Nodes : ingested[n] <= ingested'[n]
    BY <2>1, <2>2 DEF TelemetryInv
  <2>5. QED
    BY <1>1, <2>3, <2>4 DEF Merge, serverVars, writeVars
<1>2. CASE ~Merge
  <2>1. CASE Environment
    BY <2>1 DEF Environment, Publish, Crash, Restart, LoseLink, RestoreLink, Send,
       telemetryVars
  <2>2. CASE Connect
    BY <2>2 DEF Connect, ConnectRefused, BackoffOver, Retry, EndpointFound, Connected,
       telemetryVars
  <2>3. CASE Browse
    BY <2>3 DEF Browse, BrowseTree, BrowseTypes, BrowseFailed, BrowseStored,
       telemetryVars
  <2>4. CASE Drain
    BY <2>4 DEF Drain, TickElapsed, TakeWrite, WriteExecuted, WriteFailed, DrainOver,
       telemetryVars
  <2>5. CASE Poll
    BY <2>5, <1>2 DEF Poll, PollOk, PollFailed, PollWaitOver, MergeSkipped,
       telemetryVars
  <2>6. CASE UNCHANGED vars
    BY <2>6 DEF vars, telemetryVars
  <2>7. QED
    BY <2>1, <2>2, <2>3, <2>4, <2>5, <2>6 DEF Next, Run
<1>3. QED
  BY <1>1, <1>2

\* A field of IngestedState never goes back to an older value.
THEOREM ViewMonotone == Spec => NeverOlder
<1>1. TypeInv /\ TelemetryInv /\ [Next]_vars
      => [\A n \in Nodes : ingested'[n] >= ingested[n]]_vars
  <2> SUFFICES ASSUME TypeInv, TelemetryInv, [Next]_vars, NEW n \in Nodes
               PROVE  ingested'[n] >= ingested[n]
    OBVIOUS
  <2>1. ingested[n] \in Nat /\ ingested' \in [Nodes -> 0..stamp] => ingested'[n] \in Nat
    BY ConnectorAssumption DEF TypeInv, TypeOK
  <2>2. ingested[n] \in Nat /\ stamp \in Nat
    BY ConnectorAssumption DEF TypeInv, TypeOK
  <2>3. QED
    BY <2>1, <2>2, ViewStep
<1>2. QED
  BY <1>1, TypeInit, TypeStep, TelemetryInit, TelemetryStep, PTL DEF Spec, NeverOlder

-----------------------------------------------------------------------------
(* The poll list and the list of discovered nodes. *)

\* Nothing is discovered or polled at the start.
LEMMA BrowseInit == Init => BrowseInv
  BY DEF Init, BrowseInv, DiscoveredIsPolled, Loop

\* The list of discovered nodes and the list that is polled stay those of one
\* browse.
LEMMA BrowseStep == TypeInv /\ BrowseInv /\ [Next]_vars => BrowseInv'
<1> SUFFICES ASSUME TypeInv, BrowseInv, [Next]_vars
             PROVE  BrowseInv'
  OBVIOUS
<1> USE DEF BrowseInv, DiscoveredIsPolled, Loop
<1>1. CASE UNCHANGED <<pc, browseVars>>
  BY <1>1 DEF browseVars
<1>2. CASE pc \in Loop /\ pc' \in Loop \cup Connecting /\ UNCHANGED browseVars
  BY <1>2 DEF browseVars, Connecting
<1>3. CASE Connect
  BY <1>3 DEF Connect, ConnectRefused, BackoffOver, Retry, EndpointFound, Connected,
     ClearPollList, browseVars
<1>4. CASE Browse
  BY <1>4 DEF Browse, BrowseTree, BrowseTypes, BrowseFailed, BrowseStored,
     StoreDiscovered
<1>5. QED
  <2>1. CASE Environment
    BY <2>1, <1>1 DEF Environment, Publish, Crash, Restart, LoseLink, RestoreLink, Send
  <2>2. CASE Drain
    BY <2>2, <1>2 DEF Drain, TickElapsed, TakeWrite, WriteExecuted, WriteFailed,
       DrainOver, AfterWrite, AfterFailedWrite
  <2>3. CASE Poll
    BY <2>3, <1>2 DEF Poll, PollOk, PollFailed, PollWaitOver, Merge, MergeSkipped,
       Connecting
  <2>4. CASE UNCHANGED vars
    BY <2>4, <1>1 DEF vars
  <2>5. QED
    BY <2>1, <2>2, <2>3, <2>4, <1>3, <1>4 DEF Next, Run

\* What is discovered is what is polled, whenever anything is polled.
THEOREM BrowseCorrect == Spec => []DiscoveredIsPolled
<1>1. BrowseInv => DiscoveredIsPolled
  BY DEF BrowseInv
<1>2. QED
  BY <1>1, TypeInit, TypeStep, BrowseInit, BrowseStep, PTL DEF Spec

\* A browse that fails leaves an empty poll list.
THEOREM FailedBrowseCorrect == Spec => FailedBrowseEmptiesPollList
<1>1. TypeInv /\ BrowseInv /\ [Next]_vars
      => [(pc \in {"browse", "types"} /\ pc' = "sleep") => nodeReads' = {}]_vars
  <2> SUFFICES ASSUME TypeInv, BrowseInv, [Next]_vars,
                      pc \in {"browse", "types"}, pc' = "sleep"
               PROVE  nodeReads' = {}
    OBVIOUS
  <2>1. CASE BrowseFailed
    BY <2>1 DEF BrowseFailed, BrowseInv
  <2>2. QED
    BY <2>1 DEF Next, Run, Environment, Publish, Crash, Restart, LoseLink, RestoreLink,
       Send, Connect, ConnectRefused, BackoffOver, Retry, EndpointFound, Connected, Browse,
       BrowseTree, BrowseTypes, BrowseStored, Drain, TickElapsed, TakeWrite,
       WriteExecuted, WriteFailed, DrainOver, Poll, PollOk, PollFailed, PollWaitOver,
       Merge, MergeSkipped, vars
<1>2. QED
  BY <1>1, TypeInit, TypeStep, BrowseInit, BrowseStep, PTL
     DEF Spec, FailedBrowseEmptiesPollList

\* Every reachable state satisfies the whole inductive invariant.
THEOREM Inductive == Spec => []IndInv
<1>1. TypeInv /\ WriteInv /\ TelemetryInv /\ BrowseInv => IndInv
  BY DEF TypeInv, IndInv
<1>2. QED
  BY <1>1, TypeInit, TypeStep, WriteInit, WriteStep, TelemetryInit, TelemetryStep,
     BrowseInit, BrowseStep, PTL DEF Spec

-----------------------------------------------------------------------------
(* The connector implements PlcChannel. *)

\* What putting an element before a sequence does to its head, tail and length.
LEMMA ConsProperties ==
  ASSUME NEW S, NEW q \in Seq(S), NEW e \in S
  PROVE  /\ <<e>> \o q \in Seq(S)
         /\ <<e>> \o q # <<>>
         /\ Len(<<e>> \o q) = Len(q) + 1
         /\ Head(<<e>> \o q) = e
         /\ Tail(<<e>> \o q) = q
         /\ \A x \in S : Append(<<e>> \o q, x) = <<e>> \o Append(q, x)
<1> DEFINE p == <<e>> \o q
<1>1. <<e>> \in Seq(S) /\ Len(<<e>>) = 1 /\ <<e>>[1] = e
  OBVIOUS
<1>2. /\ p \in Seq(S)
      /\ Len(p) = Len(q) + 1
      /\ \A i \in 1..Len(q) + 1 : p[i] = IF i <= 1 THEN e ELSE q[i - 1]
      /\ Len(q) \in Nat
  BY <1>1, ConcatProperties, LenProperties
<1>3. p # <<>>
  BY <1>2, EmptySeq
<1>4. Head(p) = e
  BY <1>2, <1>3
<1>5. Tail(p) = q
  <2>1. /\ Tail(p) \in Seq(S)
        /\ Len(Tail(p)) = Len(q)
        /\ \A i \in 1..Len(q) : Tail(p)[i] = p[i + 1]
    BY <1>2, <1>3, HeadTailProperties
  <2>2. \A i \in 1..Len(q) : p[i + 1] = q[i]
    BY <1>2
  <2>3. QED
    BY <2>1, <2>2, SeqEqual
<1>6. ASSUME NEW x \in S
      PROVE  Append(p, x) = <<e>> \o Append(q, x)
  <2>1. <<x>> \in Seq(S)
    OBVIOUS
  <2>2. Append(p, x) = p \o <<x>> /\ Append(q, x) = q \o <<x>>
    BY <1>2, AppendIsConcat
  <2>3. p \o <<x>> = <<e>> \o (q \o <<x>>)
    BY <1>1, <2>1, ConcatAssociative
  <2>4. QED
    BY <2>2, <2>3
<1>7. QED
  BY <1>2, <1>3, <1>4, <1>5, <1>6

\* A sequence is its head before its tail.
LEMMA ConsHeadTail ==
  ASSUME NEW S, NEW q \in Seq(S), q # <<>>
  PROVE  <<Head(q)>> \o Tail(q) = q
<1> DEFINE p == <<Head(q)>> \o Tail(q)
<1>1. /\ Head(q) \in S /\ Tail(q) \in Seq(S)
      /\ Len(q) \in Nat \ {0}
      /\ Len(Tail(q)) = Len(q) - 1
      /\ \A i \in 1..Len(q) - 1 : Tail(q)[i] = q[i + 1]
      /\ Head(q) = q[1]
  BY HeadTailProperties, LenProperties, EmptySeq
<1>2. <<Head(q)>> \in Seq(S) /\ Len(<<Head(q)>>) = 1 /\ <<Head(q)>>[1] = Head(q)
  BY <1>1
<1>3. /\ p \in Seq(S)
      /\ Len(p) = Len(q)
      /\ \A i \in 1..Len(q) : p[i] = IF i <= 1 THEN Head(q) ELSE Tail(q)[i - 1]
  BY <1>1, <1>2, ConcatProperties
<1>4. \A i \in 1..Len(q) : p[i] = q[i]
  BY <1>1, <1>3
<1>5. QED
  BY <1>3, <1>4, SeqEqual

\* The connector's initial states are initial states of PlcChannel.
LEMMA ChannelInit == Init => Channel!Init
<1> SUFFICES ASSUME Init PROVE Channel!Init
  OBVIOUS
<1>1. Pending = <<>>
  BY DEF Init, Pending
<1>2. QED
  BY <1>1 DEF Init, Channel!Init, NoValues

\* Every step of the connector is a step of PlcChannel or leaves it unchanged.
LEMMA ChannelStep ==
  TypeInv /\ TelemetryInv /\ [Next]_vars => [Channel!Next]_(Channel!channelVars)
<1> SUFFICES ASSUME TypeInv, TelemetryInv, [Next]_vars
             PROVE  [Channel!Next]_(Channel!channelVars)
  OBVIOUS
<1> DEFINE Ids == 1..MaxCmds
<1>t. /\ queue \in Seq(Ids) /\ Len(queue) \in Nat
      /\ pc = "write" => current \in Ids
      /\ QueueCap \in Nat
  BY ConnectorAssumption, LenProperties DEF TypeInv, TypeOK, InHand
<1>p. /\ pc = "write" => Pending = <<current>> \o queue
      /\ pc # "write" => Pending = queue
      /\ pc' = "write" => Pending' = <<current'>> \o queue'
      /\ pc' # "write" => Pending' = queue'
  BY DEF Pending
<1>c. pc = "write" =>
        /\ Pending # <<>>
        /\ Len(Pending) = Len(queue) + 1
        /\ Head(Pending) = current
        /\ Tail(Pending) = queue
        /\ \A x \in Ids : Append(Pending, x) = <<current>> \o Append(queue, x)
  BY <1>t, <1>p, ConsProperties
\* Steps the channel does not see.
<1>1. CASE /\ UNCHANGED <<sent, queue, current, applied, stamp, ingested>>
           /\ pc' = pc \/ (pc # "write" /\ pc' # "write")
  <2>1. Pending' = Pending
    BY <1>1, <1>p
  <2>2. QED
    BY <1>1, <2>1 DEF Channel!channelVars
<1>2. CASE Publish
  <2>1. Pending' = Pending
    BY <1>2, <1>p DEF Publish, writeVars
  <2>2. Channel!Publish
    BY <1>2, <2>1 DEF Publish, Channel!Publish, telemetryVars, writeVars
  <2>3. QED
    BY <2>2 DEF Channel!Next
<1>3. CASE Restart
  <2>1. Pending' = Pending
    BY <1>3, <1>p DEF Restart, writeVars
  <2>2. CASE stamp < MaxStamp
    <3>1. Channel!Publish
      BY <1>3, <2>1, <2>2 DEF Restart, Channel!Publish, telemetryVars, writeVars
    <3>2. QED
      BY <3>1 DEF Channel!Next
  <2>3. CASE ~(stamp < MaxStamp)
    BY <1>3, <2>1, <2>3 DEF Restart, Channel!channelVars, telemetryVars, writeVars
  <2>4. QED
    BY <2>2, <2>3
<1>4. CASE Send
  <2>1. /\ sent < MaxCmds /\ sent' = sent + 1
        /\ queue' = IF Len(queue) < QueueCap THEN Append(queue, sent') ELSE queue
        /\ UNCHANGED <<pc, current, applied, stamp, ingested>>
    BY <1>4 DEF Send, serverVars, telemetryVars
  <2>2. sent' \in Ids
    <3>1. sent \in 0..MaxCmds BY DEF TypeInv, TypeOK
    <3>2. QED BY <2>1, <3>1, ConnectorAssumption
  <2>3. CASE Len(queue) < QueueCap
    <3>1. Pending' = Append(Pending, sent')
      <4>1. CASE pc = "write" BY <4>1, <1>p, <1>c, <2>1, <2>2, <2>3
      <4>2. CASE pc # "write" BY <4>2, <1>p, <2>1, <2>3
      <4>3. QED BY <4>1, <4>2
    <3>2. Len(Pending) <= QueueCap
      <4>1. CASE pc = "write" BY <4>1, <1>c, <1>t, <2>3
      <4>2. CASE pc # "write" BY <4>2, <1>p, <1>t, <2>3
      <4>3. QED BY <4>1, <4>2
    <3>3. Channel!Accept
      BY <2>1, <3>1, <3>2 DEF Channel!Accept
    <3>4. QED
      BY <3>3 DEF Channel!Next
  <2>4. CASE ~(Len(queue) < QueueCap)
    <3>1. Pending' = Pending
      BY <1>p, <2>1, <2>4
    <3>2. Len(Pending) >= QueueCap
      <4>1. CASE pc = "write" BY <4>1, <1>c, <1>t, <2>4
      <4>2. CASE pc # "write" BY <4>2, <1>p, <1>t, <2>4
      <4>3. QED BY <4>1, <4>2
    <3>3. Channel!Refuse
      BY <2>1, <3>1, <3>2 DEF Channel!Refuse
    <3>4. QED
      BY <3>3 DEF Channel!Next
  <2>5. QED
    BY <2>3, <2>4
<1>5. CASE TakeWrite
  <2>1. /\ pc = "drain" /\ pc' = "write" /\ queue # <<>>
        /\ current' = Head(queue) /\ queue' = Tail(queue)
        /\ UNCHANGED <<sent, applied, stamp, ingested>>
    BY <1>5 DEF TakeWrite, HasWrites, serverVars, telemetryVars
  <2>2. Pending' = Pending
    BY <1>p, <1>t, <2>1, ConsHeadTail
  <2>3. QED
    BY <2>1, <2>2 DEF Channel!channelVars
<1>6. CASE WriteExecuted
  <2>1. /\ pc = "write" /\ pc' = "drain"
        /\ applied' = Append(applied, current)
        /\ UNCHANGED <<sent, queue, stamp, ingested>>
    BY <1>6 DEF WriteExecuted, AfterWrite, serverVars, telemetryVars
  <2>2. Pending' = Tail(Pending)
    BY <1>p, <1>c, <2>1
  <2>3. Channel!Execute
    BY <1>c, <2>1, <2>2 DEF Channel!Execute
  <2>4. QED
    BY <2>3 DEF Channel!Next
<1>7. CASE WriteFailed
  <2>1. /\ pc = "write" /\ pc' = "drain"
        /\ UNCHANGED <<sent, queue, applied, stamp, ingested>>
    BY <1>7 DEF WriteFailed, AfterFailedWrite, AfterWrite, serverVars, telemetryVars
  <2>2. Pending' = Tail(Pending)
    BY <1>p, <1>c, <2>1
  <2>3. Channel!Lose
    BY <1>c, <2>1, <2>2 DEF Channel!Lose
  <2>4. QED
    BY <2>3 DEF Channel!Next
<1>8. CASE ingested' # ingested
  <2>1. /\ UNCHANGED <<sent, queue, current, applied, stamp>>
        /\ pc # "write" /\ pc' # "write"
        /\ ingested' \in [Nodes -> 0..stamp]
        /\ \A n \in Nodes : ingested[n] <= ingested'[n]
    BY <1>8, ViewStep
  <2>2. Pending' = Pending
    BY <1>p, <2>1
  <2>3. Channel!Observe
    BY <2>1, <2>2 DEF Channel!Observe
  <2>4. QED
    BY <2>3 DEF Channel!Next
<1>9. QED
  <2>1. CASE Environment
    BY <2>1, <1>1, <1>2, <1>3, <1>4 DEF Environment, Crash, LoseLink, RestoreLink,
       telemetryVars, writeVars
  <2>2. CASE Connect
    BY <2>2, <1>1 DEF Connect, ConnectRefused, BackoffOver, Retry, EndpointFound, Connected,
       serverVars, telemetryVars, writeVars
  <2>3. CASE Browse
    BY <2>3, <1>1 DEF Browse, BrowseTree, BrowseTypes, BrowseFailed, BrowseStored,
       serverVars, telemetryVars, writeVars
  <2>4. CASE Drain
    BY <2>4, <1>1, <1>5, <1>6, <1>7 DEF Drain, TickElapsed, DrainOver,
       serverVars, telemetryVars, writeVars
  <2>5. CASE Poll
    BY <2>5, <1>1, <1>8 DEF Poll, PollOk, PollFailed, PollWaitOver, Merge, MergeSkipped,
       serverVars, telemetryVars, writeVars
  <2>6. CASE UNCHANGED vars
    BY <2>6, <1>1 DEF vars, serverVars, telemetryVars, writeVars
  <2>7. QED
    BY <2>1, <2>2, <2>3, <2>4, <2>5, <2>6 DEF Next, Run

\* The connector, with all its reconnects, implements the lossy channel.
THEOREM Refinement == Spec => ImplementsChannel
<1>1. Spec => Channel!Spec
  BY ChannelInit, ChannelStep, TypeInit, TypeStep, TelemetryInit, TelemetryStep, PTL
     DEF Spec, Channel!Spec
<1>2. QED
  BY <1>1 DEF ImplementsChannel
=============================================================================
