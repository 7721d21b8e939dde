--------------------------- MODULE ReconcilerProofs ---------------------------
(***************************************************************************)
(* Theorems about Reconciler: the inductive invariant and, from it, that   *)
(* no kick is lost and nothing of a PLC that was there is deleted.         *)
(***************************************************************************)
EXTENDS Reconciler, FiniteSetTheorems, TLAPS

\* IndInv without what is left to do.
CycleInv == TypeOK /\ NamesMatch /\ NoKickLost /\ StaleIsAbsent

\* The invariant holds in the state the reconciler starts in.
LEMMA InitCycleInv == Init => CycleInv
  <1>. SUFFICES ASSUME Init PROVE CycleInv
    OBVIOUS
  <1>. USE ReconcilerAssumption DEF Init, NoRows
  <1>1. TypeOK
    BY DEF TypeOK, Pcs, Acting
  <1>2. NamesMatch
    BY DEF NamesMatch
  <1>3. NoKickLost
    BY DEF NoKickLost
  <1>4. StaleIsAbsent
    BY DEF StaleIsAbsent, Acting
  <1>. QED
    BY <1>1, <1>2, <1>3, <1>4 DEF CycleInv

\* Writers of table plcs, kicks and manual deletions: what the database and
\* the cluster do meanwhile.  A row that goes only adds names to absent.
LEMMA OthersCycleInv ==
  ASSUME CycleInv, Edit \/ Kick \/ Drifts
  PROVE CycleInv'
  <1>. USE ReconcilerAssumption DEF CycleInv, TypeOK, Pcs, Acting
  <1>1. ASSUME NEW r \in Rows, AddRow(r) PROVE CycleInv'
    <2>. USE <1>1 DEF AddRow, clusterVars, cycleVars, historyVars
    <2>1. TypeOK'
      OBVIOUS
    <2>2. NamesMatch'
      BY DEF NamesMatch, Name
    <2>3. NoKickLost'
      BY DEF NoKickLost
    <2>4. StaleIsAbsent'
      BY DEF StaleIsAbsent, Deployed, Acting
    <2>. QED
      BY <2>1, <2>2, <2>3, <2>4
  <1>2. ASSUME NEW r \in Rows, RemoveRow(r) PROVE CycleInv'
    <2>. USE <1>2 DEF RemoveRow, clusterVars, cycleVars, historyVars
    <2>0. absent \subseteq absent' /\ absent' \subseteq Names
      OBVIOUS
    <2>1. TypeOK'
      BY <2>0
    <2>2. NamesMatch'
      BY DEF NamesMatch, Name
    <2>3. NoKickLost'
      BY DEF NoKickLost
    <2>4. StaleIsAbsent'
      BY <2>0 DEF StaleIsAbsent, Deployed, Acting
    <2>. QED
      BY <2>1, <2>2, <2>3, <2>4
  <1>3. ASSUME Kick PROVE CycleInv'
    <2>. USE <1>3 DEF Kick, clusterVars, cycleVars, historyVars
    <2>1. TypeOK'
      OBVIOUS
    <2>2. NamesMatch'
      BY DEF NamesMatch, Name
    <2>3. NoKickLost'
      BY DEF NoKickLost
    <2>4. StaleIsAbsent'
      BY DEF StaleIsAbsent, Deployed, Acting
    <2>. QED
      BY <2>1, <2>2, <2>3, <2>4
  <1>4. ASSUME NEW n \in Names, Drift(n) PROVE CycleInv'
    <2>. USE <1>4 DEF Drift, cycleVars, historyVars
    <2>0. /\ deployments' \in [Names -> Rows \cup {NoRow}]
          /\ \A m \in Names : deployments'[m] \in {deployments[m], NoRow}
      BY DEF Deployed
    <2>1. TypeOK'
      BY <2>0
    <2>2. NamesMatch'
      BY <2>0 DEF NamesMatch, Name
    <2>3. NoKickLost'
      BY DEF NoKickLost
    <2>4. StaleIsAbsent'
      BY <2>0 DEF StaleIsAbsent, Deployed, Acting
    <2>. QED
      BY <2>1, <2>2, <2>3, <2>4
  <1>. QED
    BY <1>1, <1>2, <1>3, <1>4 DEF Edit, Drifts

\* An end of the cycle, for whatever reason, forgets its locals; what is left
\* to show is that the cluster still has rows under their own names.
LEMMA ForgetCycleInv ==
  ASSUME CycleInv, Forget, pc' = "idle", rows' = rows, absent' = absent,
         permit' \in BOOLEAN, owed' \in BOOLEAN, owed' => permit',
         deployments' \in [Names -> Rows \cup {NoRow}],
         \A n \in Names : deployments'[n] # NoRow => Name(deployments'[n]) = n,
         services' \in SUBSET Names, claims' \in SUBSET Names
  PROVE CycleInv'
  <1>. USE ReconcilerAssumption DEF CycleInv, TypeOK, Pcs, Acting, Forget, NoRows
  <1>1. TypeOK'
    OBVIOUS
  <1>2. NamesMatch'
    BY DEF NamesMatch, Name
  <1>3. NoKickLost'
    BY DEF NoKickLost
  <1>4. StaleIsAbsent'
    BY DEF StaleIsAbsent, Acting
  <1>. QED
    BY <1>1, <1>2, <1>3, <1>4

\* Every way in which a cycle ends early, or well.
LEMMA EndCycleInv ==
  ASSUME CycleInv, Done \/ Fault \/ Crash \/ \E n \in Names : Refused(n)
  PROVE CycleInv'
  <1>. USE ReconcilerAssumption DEF clusterVars, historyVars
  <1>0. /\ deployments \in [Names -> Rows \cup {NoRow}]
        /\ \A n \in Names : deployments[n] # NoRow => Name(deployments[n]) = n
        /\ services \in SUBSET Names /\ claims \in SUBSET Names
        /\ permit \in BOOLEAN /\ owed \in BOOLEAN
        /\ pc # "query" => (owed => permit)
    BY DEF CycleInv, TypeOK, NamesMatch, NoKickLost
  <1>1. CASE Done
    BY <1>0, <1>1, ForgetCycleInv DEF Done
  <1>2. CASE QueryFails
    BY <1>0, <1>2, ForgetCycleInv DEF QueryFails, AfterFailedQuery
  <1>3. CASE CallFails
    BY <1>0, <1>3, ForgetCycleInv DEF CallFails, Abort
  <1>4. CASE Crash
    BY <1>0, <1>4, ForgetCycleInv DEF Crash
  <1>5. ASSUME NEW n \in Names, Refused(n) PROVE CycleInv'
    BY <1>0, <1>5, ForgetCycleInv DEF Refused, Abort
  <1>6. ASSUME NEW n \in Names, CreateFails(n) PROVE CycleInv'
    <2>1. desired[n] \in Rows /\ Name(desired[n]) = n
      BY <1>6 DEF CreateFails, CycleInv, TypeOK, NamesMatch, StaleIsAbsent
    <2>2. /\ deployments' \in [Names -> Rows \cup {NoRow}]
          /\ services' \in SUBSET Names /\ claims' \in SUBSET Names
      BY <1>0, <1>6, <2>1 DEF CreateFails
    <2>3. \A m \in Names : deployments'[m] # NoRow => Name(deployments'[m]) = m
      BY <1>0, <1>6, <2>1 DEF CreateFails
    <2>. QED
      BY <1>0, <1>6, <2>2, <2>3, ForgetCycleInv DEF CreateFails, Abort
  <1>. QED
    BY <1>1, <1>2, <1>3, <1>4, <1>5, <1>6 DEF Fault

\* The steps of a cycle that goes well.
LEMMA CycleCycleInv ==
  ASSUME CycleInv, Wake \/ Cycle
  PROVE CycleInv'
  <1>. USE ReconcilerAssumption DEF CycleInv, TypeOK, Pcs, Acting, clusterVars, cycleVars, historyVars
  <1>1. CASE IntervalTick
    <2>. USE <1>1 DEF IntervalTick
    <2>1. TypeOK'
      OBVIOUS
    <2>2. NamesMatch'
      BY DEF NamesMatch, Name
    <2>3. NoKickLost'
      BY DEF NoKickLost
    <2>4. StaleIsAbsent'
      BY DEF StaleIsAbsent, Deployed, Acting
    <2>. QED
      BY <2>1, <2>2, <2>3, <2>4
  <1>2. CASE KickTaken
    <2>. USE <1>2 DEF KickTaken
    <2>1. TypeOK'
      OBVIOUS
    <2>2. NamesMatch'
      BY DEF NamesMatch, Name
    <2>3. NoKickLost'
      BY DEF NoKickLost
    <2>4. StaleIsAbsent'
      BY DEF StaleIsAbsent, Deployed, Acting
    <2>. QED
      BY <2>1, <2>2, <2>3, <2>4
  <1>3. CASE Query
    <2>. USE <1>3 DEF Query
    <2>1. /\ desired' \in [Names -> Rows \cup {NoRow}]
          /\ \A n \in Names : desired'[n] # NoRow => Name(desired'[n]) = n
          /\ \A n \in Names : desired'[n] = NoRow => n \in absent'
      BY DEF Pickings
    <2>2. TypeOK'
      BY <2>1
    <2>3. NamesMatch'
      BY <2>1 DEF NamesMatch, Name
    <2>4. NoKickLost'
      BY DEF NoKickLost
    <2>5. StaleIsAbsent'
      BY <2>1 DEF StaleIsAbsent, Deployed, Acting
    <2>. QED
      BY <2>2, <2>3, <2>4, <2>5
  <1>4. CASE List
    <2>. USE <1>4 DEF List, Missing, Stale
    <2>1. TypeOK'
      OBVIOUS
    <2>2. NamesMatch'
      BY DEF NamesMatch, Name
    <2>3. NoKickLost'
      BY DEF NoKickLost
    <2>4. StaleIsAbsent'
      BY DEF StaleIsAbsent, Deployed, Acting
    <2>. QED
      BY <2>1, <2>2, <2>3, <2>4
  <1>5. ASSUME NEW n \in Names, Create(n) PROVE CycleInv'
    <2>. USE <1>5 DEF Create
    <2>1. desired[n] \in Rows /\ Name(desired[n]) = n
      BY DEF NamesMatch, StaleIsAbsent
    <2>2. TypeOK'
      BY <2>1
    <2>3. NamesMatch'
      BY <2>1 DEF NamesMatch, Name
    <2>4. NoKickLost'
      BY DEF NoKickLost
    <2>5. StaleIsAbsent'
      BY DEF StaleIsAbsent, Deployed, Acting
    <2>. QED
      BY <2>2, <2>3, <2>4, <2>5
  <1>6. CASE CreateDone
    <2>. USE <1>6 DEF CreateDone
    <2>1. TypeOK'
      OBVIOUS
    <2>2. NamesMatch'
      BY DEF NamesMatch, Name
    <2>3. NoKickLost'
      BY DEF NoKickLost
    <2>4. StaleIsAbsent'
      BY DEF StaleIsAbsent, Deployed, Acting
    <2>. QED
      BY <2>1, <2>2, <2>3, <2>4
  <1>7. ASSUME NEW n \in Names, DeleteDeployment(n) PROVE CycleInv'
    <2>. USE <1>7 DEF DeleteDeployment
    <2>1. TypeOK'
      OBVIOUS
    <2>2. NamesMatch'
      BY DEF NamesMatch, Name
    <2>3. NoKickLost'
      BY DEF NoKickLost
    <2>4. StaleIsAbsent'
      BY DEF StaleIsAbsent, Deployed, Acting
    <2>. QED
      BY <2>1, <2>2, <2>3, <2>4
  <1>8. CASE DeleteService
    <2>. USE <1>8 DEF DeleteService
    <2>1. TypeOK'
      OBVIOUS
    <2>2. NamesMatch'
      BY DEF NamesMatch, Name
    <2>3. NoKickLost'
      BY DEF NoKickLost
    <2>4. StaleIsAbsent'
      BY DEF StaleIsAbsent, Deployed, Acting
    <2>. QED
      BY <2>1, <2>2, <2>3, <2>4
  <1>9. CASE DeleteClaim
    <2>. USE <1>9 DEF DeleteClaim
    <2>1. TypeOK'
      OBVIOUS
    <2>2. NamesMatch'
      BY DEF NamesMatch, Name
    <2>3. NoKickLost'
      BY DEF NoKickLost
    <2>4. StaleIsAbsent'
      BY DEF StaleIsAbsent, Deployed, Acting
    <2>. QED
      BY <2>1, <2>2, <2>3, <2>4
  <1>. QED
    BY <1>1, <1>2, <1>3, <1>4, <1>5, <1>6, <1>7, <1>8, <1>9, EndCycleInv
    DEF Wake, Cycle

\* A step in which nothing happens.
LEMMA StutterCycleInv ==
  ASSUME CycleInv, UNCHANGED vars
  PROVE CycleInv'
  <1>. USE DEF CycleInv, vars, clusterVars, cycleVars, historyVars
  <1>1. TypeOK'
    BY DEF TypeOK, Pcs, Acting
  <1>2. NamesMatch'
    BY DEF NamesMatch, Name
  <1>3. NoKickLost'
    BY DEF NoKickLost
  <1>4. StaleIsAbsent'
    BY DEF StaleIsAbsent, Deployed, Acting
  <1>. QED
    BY <1>1, <1>2, <1>3, <1>4

\* The first part of the invariant is inductive.
LEMMA NextCycleInv == CycleInv /\ [Next]_vars => CycleInv'
  BY OthersCycleInv, CycleCycleInv, EndCycleInv, StutterCycleInv DEF Next

-----------------------------------------------------------------------------
\* Every name that is not as the query wants it stays on a list of the cycle or
\* among those others deleted.
LEMMA LeftToDoNext ==
  ASSUME CycleInv, LeftToDo, [Next]_vars
  PROVE LeftToDo'
  <1>. USE DEF LeftToDo, Sought, Deployed
  <1>1. CASE UNCHANGED <<deployments, pc, cycleVars, drifted>>
    BY <1>1 DEF cycleVars
  <1>2. CASE pc' \notin Acting
    BY <1>2
  <1>3. ASSUME NEW n \in Names, Drift(n) PROVE LeftToDo'
    <2>1. \A m \in Names \ {n} : deployments'[m] = deployments[m]
      BY <1>3 DEF Drift, CycleInv, TypeOK
    <2>2. deployments' = deployments \/ (deployments'[n] = NoRow /\ (pc \in Acting => n \in drifted'))
      BY <1>3 DEF Drift, CycleInv, TypeOK
    <2>. QED
      BY <1>3, <2>1, <2>2 DEF Drift, cycleVars
  <1>4. CASE List
    BY <1>4 DEF List, Missing, Stale, clusterVars, historyVars
  <1>5. ASSUME NEW n \in Names, Create(n) PROVE LeftToDo'
    <2>1. desired[n] # NoRow
      BY <1>5 DEF Create, CycleInv, StaleIsAbsent
    <2>2. \A m \in Names : deployments'[m] = IF m = n THEN desired[n] ELSE deployments[m]
      BY <1>5 DEF Create, CycleInv, TypeOK
    <2>. QED
      BY <1>5, <2>1, <2>2 DEF Create, historyVars
  <1>6. CASE CreateDone
    BY <1>6 DEF CreateDone, clusterVars, cycleVars, historyVars, Acting
  <1>7. ASSUME NEW n \in Names, DeleteDeployment(n) PROVE LeftToDo'
    <2>1. \A m \in Names : deployments'[m] = IF m = n THEN NoRow ELSE deployments[m]
      BY <1>7 DEF DeleteDeployment, CycleInv, TypeOK
    <2>2. pc \in Acting /\ n \notin Sought
      BY <1>7 DEF DeleteDeployment, Acting
    <2>. QED
      BY <1>7, <2>1, <2>2 DEF DeleteDeployment, historyVars
  <1>8. CASE DeleteService \/ DeleteClaim
    BY <1>8 DEF DeleteService, DeleteClaim, clusterVars, cycleVars, historyVars, Acting
  <1>. QED
    BY <1>1, <1>2, <1>3, <1>4, <1>5, <1>6, <1>7, <1>8
    DEF Next, Edit, AddRow, RemoveRow, Kick, Drifts, Wake, IntervalTick, KickTaken, Cycle, Query,
        Done, Refused, Abort, Fault, QueryFails, AfterFailedQuery, CreateFails, CallFails, Crash,
        clusterVars, historyVars, vars, Acting

\* IndInv holds in every state the reconciler, the database and the cluster
\* can reach together.
THEOREM Inductive == Spec => []IndInv
  <1>1. Init => IndInv
    BY InitCycleInv DEF IndInv, CycleInv, LeftToDo, Init, Acting
  <1>2. IndInv /\ [Next]_vars => IndInv'
    BY NextCycleInv, LeftToDoNext DEF IndInv, CycleInv
  <1>. QED
    BY <1>1, <1>2, PTL DEF Spec

\* Every variable keeps its type, for any set of PLCs and names.
THEOREM TypeCorrect == Spec => []TypeOK
  <1>1. IndInv => TypeOK
    BY DEF IndInv
  <1>. QED
    BY <1>1, Inductive, PTL

\* A kick is pending until a query of the database follows it: notify_one()
\* between the end of one cycle's query and the next is never swallowed.
THEOREM KicksAreKept == Spec => []NoKickLost
  <1>1. IndInv => NoKickLost
    BY DEF IndInv
  <1>. QED
    BY <1>1, Inductive, PTL

\* A Deployment, Service or claim of a name is deleted, and a Deployment
\* replaced, only if the name had no row at some time since the cycle's query,
\* whatever rows come and go, share names, or fail to be read meanwhile.
THEOREM DeletesOnlyAbsent == Spec => NoWrongDelete
  <1>. DEFINE Safe(n) ==
         \/ n \in absent
         \/ /\ deployments[n] # NoRow => deployments'[n] = deployments[n]
            /\ n \in services => n \in services'
            /\ n \in claims => n \in claims'
  <1>1. ASSUME IndInv, [Next]_vars, ~Drifts, NEW n \in Names PROVE Safe(n)
    <2>. USE DEF clusterVars
    <2>1. CASE UNCHANGED clusterVars
      BY <2>1
    <2>2. ASSUME NEW m \in Names, Create(m) \/ CreateFails(m) PROVE Safe(n)
      <3>1. deployments[m] = NoRow
        BY <2>2, <1>1 DEF Create, CreateFails, IndInv, TypeOK, StaleIsAbsent, Deployed
      <3>2. \A k \in Names \ {m} : deployments'[k] = deployments[k]
        BY <2>2, <1>1 DEF Create, CreateFails, IndInv, TypeOK
      <3>3. services \subseteq services' /\ claims \subseteq claims'
        BY <2>2 DEF Create, CreateFails
      <3>. QED
        BY <3>1, <3>2, <3>3
    <2>3. ASSUME NEW m \in Names, DeleteDeployment(m) PROVE Safe(n)
      <3>1. m \in absent
        BY <2>3, <1>1 DEF DeleteDeployment, IndInv, StaleIsAbsent, Acting
      <3>. QED
        BY <3>1, <2>3, <1>1 DEF DeleteDeployment, IndInv, TypeOK
    <2>4. CASE DeleteService \/ DeleteClaim
      <3>1. victim \in absent
        BY <2>4, <1>1, ReconcilerAssumption
        DEF DeleteService, DeleteClaim, IndInv, TypeOK, StaleIsAbsent
      <3>. QED
        BY <3>1, <2>4 DEF DeleteService, DeleteClaim
    <2>5. Next => \/ UNCHANGED clusterVars
                  \/ \E m \in Names : Create(m) \/ CreateFails(m) \/ DeleteDeployment(m)
                  \/ DeleteService \/ DeleteClaim
      BY <1>1 DEF Next, Edit, AddRow, RemoveRow, Kick, Wake, IntervalTick, KickTaken,
                  Cycle, Query, List, CreateDone, Done, Refused, Abort, Fault, QueryFails,
                  CallFails, Crash
    <2>. QED
      BY <1>1, <2>1, <2>2, <2>3, <2>4, <2>5 DEF vars
  <1>2. IndInv /\ [Next]_vars => [~Drifts => \A n \in Names : Safe(n)]_vars
    BY <1>1
  <1>. QED
    BY <1>2, Inductive, PTL DEF Spec, NoWrongDelete

\* A cycle all of whose calls succeeded has left a Deployment for every PLC
\* that had a row since its query and whose Deployment nobody deleted
\* meanwhile, and none that its query gave no row for.
THEOREM CyclesAchieve == Spec => CycleAchieves
  <1>1. ASSUME IndInv, Done
        PROVE  /\ Names \ (absent \cup drifted) \subseteq Deployed
               /\ Deployed \subseteq Sought
    <2>1. pc = "delete" /\ pc \in Acting /\ stale = {} /\ missing = {}
      BY <1>1 DEF Done, Acting, IndInv, StaleIsAbsent
    <2>2. Names \ absent \subseteq Sought
      BY <1>1, <2>1 DEF IndInv, StaleIsAbsent, Sought
    <2>3. Sought \ drifted \subseteq Deployed /\ Deployed \subseteq Sought
      BY <1>1, <2>1 DEF IndInv, LeftToDo
    <2>. QED
      BY <2>2, <2>3
  <1>2. IndInv /\ [Next]_vars =>
          [Done => /\ Names \ (absent \cup drifted) \subseteq Deployed
                   /\ Deployed \subseteq Sought]_vars
    BY <1>1
  <1>. QED
    BY <1>2, Inductive, PTL DEF Spec, CycleAchieves

\* Whatever rows there are, the query has an answer: one row of each name.
LEMMA QueryAnswers ==
  ASSUME NEW S \in SUBSET Rows
  PROVE  Pickings(S) # {}
  <1>. DEFINE Pick(n) == CHOOSE r \in S : Name(r) = n
              f == [n \in Names |-> IF n \in Wanted(S) THEN Pick(n) ELSE NoRow]
  <1>1. \A n \in Wanted(S) : Pick(n) \in S /\ Name(Pick(n)) = n
    BY DEF Wanted
  <1>. HIDE DEF Pick
  <1>2. NoRow \notin S
    BY ReconcilerAssumption
  <1>3. f \in Pickings(S)
    BY <1>1, <1>2 DEF Pickings
  <1>. QED
    BY <1>3

-----------------------------------------------------------------------------
\* A set of names has a size, at most that of all names; one name less is one
\* less.
LEMMA SizeOfNames ==
  ASSUME NEW S \in SUBSET Names
  PROVE  /\ IsFiniteSet(S)
         /\ Cardinality(S) \in Nat
         /\ Cardinality(Names) \in Nat
         /\ Cardinality(S) <= Cardinality(Names)
         /\ \A n \in S : Cardinality(S \ {n}) = Cardinality(S) - 1
  BY ReconcilerAssumption, FS_Subset, FS_CardinalityType, FS_RemoveElement

\* What the two lists and pc determine, the rank is made of.
LEMMA RankSame ==
  ASSUME pc' = pc, missing' = missing, stale' = stale
  PROVE  Rank' = Rank
  BY DEF Rank

\* A cycle that has begun has steps left.
LEMMA RankIsNat ==
  ASSUME TypeOK
  PROVE  /\ Rank \in Nat
         /\ pc # "idle" => Rank > 0
  <1>. DEFINE N == Cardinality(Names)
              M == Cardinality(missing)
              S == Cardinality(stale)
  <1>1. N \in Nat /\ M \in Nat /\ S \in Nat
    BY SizeOfNames DEF TypeOK
  <1>2. pc \in {"idle", "query", "list", "create", "delete", "delete service", "delete claim"}
    BY DEF TypeOK, Pcs, Acting
  <1>3. CASE pc = "idle"
    <2>1. Rank = 0
      BY <1>3 DEF Rank
    <2>. QED
      BY <1>1, <1>3, <2>1
  <1>4. CASE pc = "query"
    <2>1. Rank = 4 * N + 4
      BY <1>4 DEF Rank
    <2>. QED
      BY <1>1, <1>4, <2>1
  <1>5. CASE pc = "list"
    <2>1. Rank = 4 * N + 3
      BY <1>5 DEF Rank
    <2>. QED
      BY <1>1, <1>5, <2>1
  <1>6. CASE pc = "create"
    <2>1. Rank = M + 3 * S + 2
      BY <1>6 DEF Rank
    <2>. QED
      BY <1>1, <1>6, <2>1
  <1>7. CASE pc = "delete"
    <2>1. Rank = 3 * S + 1
      BY <1>7 DEF Rank
    <2>. QED
      BY <1>1, <1>7, <2>1
  <1>8. CASE pc = "delete service"
    <2>1. Rank = 3 * S + 3
      BY <1>8 DEF Rank
    <2>2. 3 * S + 3 \in Nat /\ 3 * S + 3 > 0
      BY <1>1
    <2>. QED
      BY <2>1, <2>2
  <1>9. CASE pc = "delete claim"
    <2>1. Rank = 3 * S + 2
      BY <1>9 DEF Rank
    <2>2. 3 * S + 2 \in Nat /\ 3 * S + 2 > 0
      BY <1>1
    <2>. QED
      BY <2>1, <2>2
  <1>. QED
    BY <1>2, <1>3, <1>4, <1>5, <1>6, <1>7, <1>8, <1>9

\* Every step of a cycle that has begun comes closer to its end; the others'
\* steps leave it where it is.
THEOREM CyclesEnd == Spec => CycleEnds
  <1>. DEFINE Closer == Wake \/ Rank' < Rank \/ (Rank' = Rank /\ pc' = pc)
  <1>1. ASSUME IndInv, IndInv', [Next]_vars PROVE Closer
    <2>. DEFINE N == Cardinality(Names)
                M == Cardinality(missing)
                S == Cardinality(stale)
                M2 == Cardinality(missing')
                S2 == Cardinality(stale')
    <2>0. /\ missing \in SUBSET Names /\ stale \in SUBSET Names
          /\ missing' \in SUBSET Names /\ stale' \in SUBSET Names
      BY <1>1 DEF IndInv, TypeOK
    <2>1. /\ N \in Nat /\ M \in Nat /\ S \in Nat /\ M2 \in Nat /\ S2 \in Nat
          /\ M <= N /\ S <= N /\ M2 <= N /\ S2 <= N
      BY <2>0, SizeOfNames
    <2>2. /\ \A n \in missing : Cardinality(missing \ {n}) = M - 1
          /\ \A n \in stale : Cardinality(stale \ {n}) = S - 1
      BY <2>0, SizeOfNames
    <2>3. CASE Edit \/ Kick \/ Drifts \/ UNCHANGED vars
      <3>1. pc' = pc /\ missing' = missing /\ stale' = stale
        BY <2>3 DEF Edit, AddRow, RemoveRow, Kick, Drifts, Drift, vars, cycleVars
      <3>. QED
        BY <3>1, RankSame
    <2>4. CASE Query
      <3>1. Rank = 4 * N + 4 /\ Rank' = 4 * N + 3
        BY <2>4 DEF Query, Rank
      <3>. QED
        BY <2>1, <3>1
    <2>5. CASE List
      <3>1. Rank = 4 * N + 3 /\ Rank' = M2 + 3 * S2 + 2
        BY <2>5 DEF List, Rank
      <3>. QED
        BY <2>1, <3>1
    <2>6. ASSUME NEW n \in Names, Create(n) PROVE Closer
      <3>1. Rank = M + 3 * S + 2 /\ Rank' = M2 + 3 * S + 2
        BY <2>6 DEF Create, Rank
      <3>2. M2 = M - 1
        BY <2>6, <2>2 DEF Create
      <3>. QED
        BY <2>1, <3>1, <3>2
    <2>7. CASE CreateDone
      <3>1. Rank = M + 3 * S + 2 /\ Rank' = 3 * S + 1
        BY <2>7 DEF CreateDone, Rank, cycleVars
      <3>. QED
        BY <2>1, <3>1
    <2>8. ASSUME NEW n \in Names, DeleteDeployment(n) PROVE Closer
      <3>1. Rank = 3 * S + 1 /\ Rank' = 3 * S2 + 3
        BY <2>8 DEF DeleteDeployment, Rank
      <3>2. S2 = S - 1
        BY <2>8, <2>2 DEF DeleteDeployment
      <3>. QED
        BY <2>1, <3>1, <3>2
    <2>9. CASE DeleteService
      <3>1. Rank = 3 * S + 3 /\ Rank' = 3 * S + 2
        BY <2>9 DEF DeleteService, Rank, cycleVars
      <3>. QED
        BY <2>1, <3>1
    <2>10. CASE DeleteClaim
      <3>1. Rank = 3 * S + 2 /\ Rank' = 3 * S + 1
        BY <2>10 DEF DeleteClaim, Rank
      <3>. QED
        BY <2>1, <3>1
    <2>11. CASE Done \/ Fault \/ Crash \/ \E n \in Names : Refused(n)
      <3>1. pc' = "idle" /\ Rank' = 0
        BY <2>11 DEF Done, Fault, QueryFails, AfterFailedQuery, CallFails, CreateFails, Crash,
                     Refused, Abort, Rank
      <3>2. Rank \in Nat /\ (pc # "idle" => Rank > 0)
        BY <1>1, RankIsNat DEF IndInv
      <3>3. pc = "idle" => Rank = 0
        BY DEF Rank
      <3>. QED
        BY <3>1, <3>2, <3>3
    <2>. QED
      BY <1>1, <2>3, <2>4, <2>5, <2>6, <2>7, <2>8, <2>9, <2>10, <2>11 DEF Next, Cycle
  <1>2. IndInv /\ IndInv' /\ [Next]_vars => [Closer]_vars
    BY <1>1
  <1>. QED
    BY <1>2, Inductive, PTL DEF Spec, CycleEnds
=============================================================================
