------------------------------ MODULE Reconciler ------------------------------
(***************************************************************************)
(* The loop of k8s.rs that keeps one Deployment, Service and volume claim  *)
(* per simulated PLC in the cluster: it wakes on an interval or on a kick, *)
(* reads the rows of the PLCs, lists the Deployments it manages, applies   *)
(* what is missing and deletes what is stale.  The first error ends the    *)
(* cycle.                                                                  *)
(*                                                                         *)
(* Simplifications.                                                        *)
(*  - A row of table plcs with kind "simulated" is a member of Rows; rows  *)
(*    with one PlcId differ in their deploy_node.                          *)
(*  - kubectl and the cluster are external: a call succeeds or fails, and  *)
(*    a failing apply leaves any part of its three documents applied.      *)
(*  - The chart runs one backend, so no two reconcilers run at a time.     *)
(***************************************************************************)
EXTENDS Naturals, FiniteSets

CONSTANTS
    Rows,        \* rows table plcs may hold
    Ids,         \* their plc_ids
    PlcId,       \* PlcId[r]: the plc_id of row r
    Names,       \* names of Deployments
    DeployName,  \* DeployName[i]: the name plc_deploy_name makes of plc_id i
    Rejected,    \* rows whose documents the cluster never accepts
    NoRow,       \* not a row
    NoName,      \* not a name
    Faulty       \* queries and calls of kubectl may fail

ASSUME ReconcilerAssumption ==
    /\ PlcId \in [Rows -> Ids]
    /\ DeployName \in [Ids -> Names]
    /\ Rejected \subseteq Rows
    /\ NoRow \notin Rows
    /\ NoName \notin Names
    /\ Faulty \in BOOLEAN
    /\ IsFiniteSet(Names)

VARIABLES
    rows,         \* the rows of table plcs
    \* the cluster
    deployments,  \* deployments[n]: the row the Deployment n was made for
    services,     \* names of Services
    claims,       \* names of PersistentVolumeClaims
    \* the reconciler
    permit,       \* reconcile_kick holds a permit
    pc,           \* where the loop is
    desired,      \* desired[n]: the row wanted under name n
    missing,      \* names desired and not in the list, not created yet
    stale,        \* names in the list and not desired, not deleted yet
    victim,       \* the one being deleted
    \* history
    owed,         \* a kick that no query has followed yet
    absent,       \* names that had no row at some time since the query
    drifted       \* names whose Deployment others deleted since the listing

clusterVars == <<deployments, services, claims>>
cycleVars   == <<desired, missing, stale, victim>>
historyVars == <<owed, absent, drifted>>
vars == <<rows, clusterVars, permit, pc, cycleVars, historyVars>>

Name(r)   == DeployName[PlcId[r]]
Wanted(S) == {Name(r) : r \in S}
NoRows    == [n \in Names |-> NoRow]
Deployed  == {n \in Names : deployments[n] # NoRow}

\* Where a cycle acts on what it has listed.
Acting == {"create", "delete", "delete service", "delete claim"}
Pcs    == {"idle", "query", "list"} \cup Acting

Init ==
    /\ rows = {}
    /\ deployments = NoRows
    /\ services = {}
    /\ claims = {}
    /\ permit = FALSE
    /\ pc = "idle"
    /\ desired = NoRows
    /\ missing = {}
    /\ stale = {}
    /\ victim = NoName
    /\ owed = FALSE
    /\ absent = Names
    /\ drifted = {}

-----------------------------------------------------------------------------
(* Everyone else: writers of table plcs, the LISTEN loop, the cluster.     *)

\* plc_id is unique.
AddRow(r) ==
    /\ \A s \in rows : PlcId[s] # PlcId[r]
    /\ rows' = rows \cup {r}
    /\ UNCHANGED <<clusterVars, permit, pc, cycleVars, historyVars>>

RemoveRow(r) ==
    /\ r \in rows
    /\ rows' = rows \ {r}
    /\ absent' = absent \cup (Names \ Wanted(rows'))
    /\ UNCHANGED <<clusterVars, permit, pc, cycleVars, owed, drifted>>

KickMutant ==
    /\ permit' = (permit \/ pc = "idle")
    /\ owed' = TRUE
    /\ UNCHANGED <<rows, clusterVars, pc, cycleVars, absent, drifted>>

\* notify_one() of the LISTEN loop
Kick ==
    /\ permit' = TRUE
    /\ owed' = TRUE
    /\ UNCHANGED <<rows, clusterVars, pc, cycleVars, absent, drifted>>

\* Someone deletes a resource with kubectl.
Drift(n) ==
    /\ \/ /\ n \in Deployed
          /\ deployments' = [deployments EXCEPT ![n] = NoRow]
          /\ drifted' = IF pc \in Acting THEN drifted \cup {n} ELSE drifted
          /\ UNCHANGED <<services, claims>>
       \/ n \in services /\ services' = services \ {n} /\ UNCHANGED <<deployments, claims, drifted>>
       \/ n \in claims   /\ claims' = claims \ {n}     /\ UNCHANGED <<deployments, services, drifted>>
    /\ UNCHANGED <<rows, permit, pc, cycleVars, owed, absent>>

-----------------------------------------------------------------------------
(* The loop                                                                *)

IntervalTick ==
    /\ pc = "idle"
    /\ pc' = "query"
    /\ UNCHANGED <<rows, clusterVars, permit, cycleVars, historyVars>>

KickTaken ==
    /\ pc = "idle"
    /\ permit
    /\ permit' = FALSE
    /\ pc' = "query"
    /\ UNCHANGED <<rows, clusterVars, cycleVars, historyVars>>

\* collect() keeps one row of those that share a name.
Pickings(S) ==
    {f \in [Names -> S \cup {NoRow}] :
        \A n \in Names : IF n \in Wanted(S) THEN f[n] # NoRow /\ Name(f[n]) = n
                                            ELSE f[n] = NoRow}

Query ==
    /\ pc = "query"
    /\ desired' \in Pickings(rows)
    /\ absent' = Names \ Wanted(rows)
    /\ owed' = FALSE
    /\ pc' = "list"
    /\ UNCHANGED <<rows, clusterVars, permit, missing, stale, victim, drifted>>

ForgetMutant ==
    desired' = NoRows /\ missing' = {} /\ stale' = {} /\ drifted' = {} /\ UNCHANGED victim
\* The locals of reconcile() are gone when it returns.
Forget ==
    desired' = NoRows /\ missing' = {} /\ stale' = {} /\ drifted' = {} /\ victim' = NoName

AfterFailedQueryMutant == pc' = "list"
AfterFailedQuery == pc' = "idle"

QueryFails ==
    /\ Faulty
    /\ pc = "query"
    /\ owed' = FALSE
    /\ AfterFailedQuery
    /\ Forget
    /\ UNCHANGED <<rows, clusterVars, permit, absent>>

MissingMutant == {n \in Names : desired[n] # NoRow /\ n \notin services}
Missing == {n \in Names : desired[n] # NoRow /\ n \notin Deployed}
Stale   == {n \in Names : desired[n] = NoRow /\ n \in Deployed}

List ==
    /\ pc = "list"
    /\ missing' = Missing
    /\ stale' = Stale
    /\ pc' = "create"
    /\ UNCHANGED <<rows, clusterVars, permit, desired, victim, historyVars>>

\* apply_sim_resources
Create(n) ==
    /\ pc = "create"
    /\ n \in missing
    /\ desired[n] \notin Rejected
    /\ deployments' = [deployments EXCEPT ![n] = desired[n]]
    /\ services' = services \cup {n}
    /\ claims' = claims \cup {n}
    /\ missing' = missing \ {n}
    /\ UNCHANGED <<rows, permit, pc, desired, stale, victim, historyVars>>

CreateDoneMutant ==
    /\ pc = "create"
    /\ pc' = "delete"
    /\ missing' = {}
    /\ UNCHANGED <<rows, clusterVars, permit, desired, stale, victim, historyVars>>
CreateDone ==
    /\ pc = "create"
    /\ missing = {}
    /\ pc' = "delete"
    /\ UNCHANGED <<rows, clusterVars, permit, cycleVars, historyVars>>

\* delete_sim_resources: the Deployment, then the Service, then the claim.
DeleteDeployment(n) ==
    /\ pc = "delete"
    /\ n \in stale
    /\ deployments' = [deployments EXCEPT ![n] = NoRow]
    /\ stale' = stale \ {n}
    /\ victim' = n
    /\ pc' = "delete service"
    /\ UNCHANGED <<rows, services, claims, permit, desired, missing, historyVars>>

DeleteService ==
    /\ pc = "delete service"
    /\ services' = services \ {victim}
    /\ pc' = "delete claim"
    /\ UNCHANGED <<rows, deployments, claims, permit, cycleVars, historyVars>>

DeleteClaimMutant ==
    /\ pc = "delete claim"
    /\ claims' = claims \ {victim}
    /\ victim' = NoName
    /\ pc' = "list"
    /\ UNCHANGED <<rows, deployments, services, permit, desired, missing, stale, historyVars>>
DeleteClaim ==
    /\ pc = "delete claim"
    /\ claims' = claims \ {victim}
    /\ victim' = NoName
    /\ pc' = "delete"
    /\ UNCHANGED <<rows, deployments, services, permit, desired, missing, stale, historyVars>>

Done ==
    /\ pc = "delete"
    /\ stale = {}
    /\ pc' = "idle"
    /\ Forget
    /\ UNCHANGED <<rows, clusterVars, permit, owed, absent>>

\* The error of one call ends the cycle.
Abort ==
    /\ pc' = "idle"
    /\ Forget
    /\ UNCHANGED <<rows, permit, owed, absent>>

Refused(n) ==
    /\ pc = "create"
    /\ n \in missing
    /\ desired[n] \in Rejected
    /\ Abort
    /\ UNCHANGED clusterVars

CreateFails(n) ==
    /\ Faulty
    /\ pc = "create"
    /\ n \in missing
    /\ desired[n] \notin Rejected
    /\ deployments' \in {deployments, [deployments EXCEPT ![n] = desired[n]]}
    /\ services' \in {services, services \cup {n}}
    /\ claims' \in {claims, claims \cup {n}}
    /\ Abort

\* A listing, or one of the three deletions.
CallFails ==
    /\ Faulty
    /\ \/ pc \in {"list", "delete service", "delete claim"}
       \/ pc = "delete" /\ stale # {}
    /\ Abort
    /\ UNCHANGED clusterVars

Crash ==
    /\ pc' = "idle"
    /\ permit' = FALSE
    /\ owed' = FALSE
    /\ Forget
    /\ UNCHANGED <<rows, clusterVars, absent>>

-----------------------------------------------------------------------------
Wake   == IntervalTick \/ KickTaken
Cycle  ==
    \/ Query \/ List \/ CreateDone \/ DeleteService \/ DeleteClaim \/ Done
    \/ \E n \in Names : Create(n) \/ DeleteDeployment(n) \/ Refused(n)
Edit   == \E r \in Rows : AddRow(r) \/ RemoveRow(r)
Fault  == QueryFails \/ CallFails \/ \E n \in Names : CreateFails(n)
Drifts == \E n \in Names : Drift(n)

Next == Edit \/ Kick \/ Drifts \/ Wake \/ Cycle \/ Fault \/ Crash

Spec == Init /\ [][Next]_vars

\* The interval ticks for ever, and every call returns.
Fairness == WF_vars(Wake) /\ WF_vars(Cycle)

FairSpec == Spec /\ Fairness

-----------------------------------------------------------------------------
\* The type of every variable; a victim exists exactly between its deletions.
TypeOK ==
    /\ rows \in SUBSET Rows
    /\ deployments \in [Names -> Rows \cup {NoRow}]
    /\ services \in SUBSET Names
    /\ claims \in SUBSET Names
    /\ permit \in BOOLEAN
    /\ pc \in Pcs
    /\ desired \in [Names -> Rows \cup {NoRow}]
    /\ missing \in SUBSET Names
    /\ stale \in SUBSET Names
    /\ IF pc \in {"delete service", "delete claim"} THEN victim \in Names ELSE victim = NoName
    /\ owed \in BOOLEAN
    /\ absent \in SUBSET Names
    /\ drifted \in SUBSET Names

\* Names are unambiguous: a row is only ever deployed under its own name.
NamesMatch ==
    \A n \in Names : /\ deployments[n] # NoRow => Name(deployments[n]) = n
                     /\ desired[n] # NoRow => Name(desired[n]) = n

\* A kick of any moment of a cycle leads to another look at the database: it
\* is pending until a query follows it.
NoKickLost == owed => permit \/ pc = "query"

\* Rows come and go during a cycle, share a name, or cannot be read; yet what
\* the reconciler deletes belongs to a PLC that was really gone at some time
\* since the cycle looked, and what it creates does not replace a Deployment.
NoWrongDelete ==
    [][~Drifts => \A n \in Names :
          \/ n \in absent
          \/ /\ deployments[n] # NoRow => deployments'[n] = deployments[n]
             /\ n \in services => n \in services'
             /\ n \in claims => n \in claims']_vars

Sought == {n \in Names : desired[n] # NoRow}

\* What one cycle achieves when no call of it fails: every PLC that had a row
\* since its query has a Deployment, unless someone deleted it meanwhile, and
\* no Deployment is left that the query gave no row for (k8s.rs:98-131).
CycleAchieves ==
    [][Done => /\ Names \ (absent \cup drifted) \subseteq Deployed
               /\ Deployed \subseteq Sought]_vars

\* The steps a cycle has left, at most: a deletion is three calls.
Rank ==
    LET n == Cardinality(Names)
        m == Cardinality(missing)
        s == Cardinality(stale)
    IN CASE pc = "idle"           -> 0
         [] pc = "query"          -> 4 * n + 4
         [] pc = "list"           -> 4 * n + 3
         [] pc = "create"         -> m + 3 * s + 2
         [] pc = "delete"         -> 3 * s + 1
         [] pc = "delete service" -> 3 * s + 3
         [] pc = "delete claim"   -> 3 * s + 2

\* A cycle is over after at most four steps per name and four more, whatever
\* fails, changes or is kicked meanwhile: edits cannot keep it from the next
\* query (k8s.rs:84-134).
CycleEnds == [][Wake \/ Rank' < Rank \/ (Rank' = Rank /\ pc' = pc)]_vars

\* What makes them inductive: the locals of a cycle and what they are based on.
StaleIsAbsent ==
    /\ pc \in {"list"} \cup Acting => \A n \in Names : desired[n] = NoRow => n \in absent
    /\ pc \in Acting => stale \subseteq absent
    /\ victim # NoName => victim \in absent
    /\ pc = "create" => \A n \in missing : desired[n] # NoRow /\ n \notin Deployed
    /\ pc # "create" => missing = {}
    /\ pc \in {"idle", "query", "list"} => stale = {}

\* What is not yet as the query wants it is still to be done, or drifted.
LeftToDo ==
    /\ pc \in Acting => Sought \ (missing \cup drifted) \subseteq Deployed
    /\ pc \in Acting => Deployed \ stale \subseteq Sought
    /\ pc \in Acting => stale \cap Sought = {}

IndInv == TypeOK /\ NamesMatch /\ NoKickLost /\ StaleIsAbsent /\ LeftToDo

-----------------------------------------------------------------------------
\* From some time on nobody edits rows, deletes resources or fails.
Quiet == <>[][~(Edit \/ Drifts \/ Fault \/ Crash)]_vars

\* Level-triggered: from whatever state partial failures, restarts and manual
\* deletions left, the Deployments become those of the rows, if from some time
\* on no row is among those the cluster refuses.
DeploymentsConverge ==
    Quiet /\ <>[](rows \cap Rejected = {}) => <>[](Deployed = Wanted(rows))

-----------------------------------------------------------------------------
(* What the documentation says and the code does not do.                   *)

\* backend.md: the actual state drifts by manual kubectl or a failed apply,
\* "so each cycle re-asserts desired state and self-heals".
SelfHeals == Quiet => <>[](Wanted(rows) \subseteq services \cap claims)
=============================================================================
