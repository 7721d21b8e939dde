---------------------------- MODULE LiveEditProofs ----------------------------
(***************************************************************************)
(* Theorems about LiveEdit: the inductive invariant and, from it, that     *)
(* copies follow the database unless an edit went unheard, and that no PLC *)
(* gets two connectors.                                                    *)
(***************************************************************************)
EXTENDS LiveEdit, TLAPS

\* The invariant holds before the backend starts, whatever the database holds.
LEMMA InitIndInv == Init => IndInv
  <1>. SUFFICES ASSUME Init PROVE IndInv
    OBVIOUS
  <1>. USE LiveEditAssumption DEF Init
  <1>1. TypeOK
    <2>1. 0 \in 0..MaxInbox /\ NoPlcs \in Rows /\ [n \in Names |-> 0] \in [Names -> 0..2]
      BY DEF Rows, NoPlcs
    <2>2. /\ wires \in SUBSET Wires
          /\ \A w \in wires : Exists(Src[w]) /\ Exists(Dst[w])
      OBVIOUS
    <2>. QED
      BY <2>1, <2>2 DEF TypeOK, Booting, LoopPcs
  <1>2. WiresFollow /\ ConnectorsFollow /\ OneConnector
    BY DEF WiresFollow, ConnectorsFollow, OneConnector
  <1>3. BootOrder /\ CopiesFollow
    BY DEF BootOrder, CopiesFollow, Known, NoPlcs
  <1>. QED
    BY <1>1, <1>2, <1>3 DEF IndInv

\* Edits: one that is heard is in the inbox, one that is not is remembered.
LEMMA EditIndInv ==
  ASSUME IndInv, Edit
  PROVE IndInv'
  <1>. USE LiveEditAssumption DEF IndInv, dbVars, notifyVars, plantVars, tableVars,
             missedVars
  <1>1. ASSUME NEW n \in Names, NEW e \in Endpoints, CreatePlc(n, e) PROVE IndInv'
    <2>. USE <1>1 DEF CreatePlc
    <2>1. listening => inbox' > 0
      BY DEF Notify, TypeOK
    <2>2. ~listening => wiresMissed' /\ plcsMissed'
      BY DEF Notify, TypeOK
    <2>3. TypeOK'
      BY DEF TypeOK, Rows, Booting, LoopPcs, Exists, Notify, BootOrder, Editing
    <2>4. WiresFollow'
      BY <2>1, <2>2 DEF WiresFollow
    <2>5. ConnectorsFollow'
      BY <2>1, <2>2 DEF ConnectorsFollow, Connectable, Known, TypeOK, Rows, Exists
    <2>6. OneConnector'
      BY DEF OneConnector, TypeOK, Notify
    <2>7. BootOrder'
      BY DEF BootOrder, Known, Notify, TypeOK
    <2>8. CopiesFollow'
      BY <2>1, <2>2 DEF CopiesFollow, BootOrder, Connectable, Known
    <2>. QED
      BY <2>3, <2>4, <2>5, <2>6, <2>7, <2>8 DEF IndInv
  <1>2. ASSUME NEW n \in Names, DeletePlc(n) PROVE IndInv'
    <2>. USE <1>2 DEF DeletePlc
    <2>1. listening => inbox' > 0
      BY DEF Notify, TypeOK
    <2>2. ~listening => wiresMissed' /\ plcsMissed'
      BY DEF Notify, TypeOK
    <2>3. TypeOK'
      BY DEF TypeOK, Rows, Booting, LoopPcs, Exists, Notify, BootOrder, Editing,
             Cascade
    <2>4. WiresFollow'
      BY <2>1, <2>2 DEF WiresFollow
    <2>5. ConnectorsFollow'
      BY <2>1, <2>2 DEF ConnectorsFollow, Connectable, Known, TypeOK, Rows, Exists
    <2>6. OneConnector'
      BY DEF OneConnector, TypeOK, Notify
    <2>7. BootOrder'
      BY DEF BootOrder, Known, Notify, TypeOK
    <2>8. CopiesFollow'
      BY <2>1, <2>2 DEF CopiesFollow, BootOrder, Connectable, Known
    <2>. QED
      BY <2>3, <2>4, <2>5, <2>6, <2>7, <2>8 DEF IndInv
  <1>3. ASSUME NEW w \in Wires, CreateWire(w) PROVE IndInv'
    <2>. USE <1>3 DEF CreateWire
    <2>1. listening => inbox' > 0
      BY DEF Notify, TypeOK
    <2>2. ~listening => wiresMissed' /\ plcsMissed'
      BY DEF Notify, TypeOK
    <2>3. TypeOK'
      BY DEF TypeOK, Rows, Booting, LoopPcs, Exists, Notify, BootOrder, Editing
    <2>4. WiresFollow'
      BY <2>1, <2>2 DEF WiresFollow
    <2>5. ConnectorsFollow'
      BY <2>1, <2>2 DEF ConnectorsFollow, Connectable, Known, TypeOK, Rows, Exists
    <2>6. OneConnector'
      BY DEF OneConnector, TypeOK, Notify
    <2>7. BootOrder'
      BY DEF BootOrder, Known, Notify, TypeOK
    <2>8. CopiesFollow'
      BY <2>1, <2>2 DEF CopiesFollow, BootOrder, Connectable, Known
    <2>. QED
      BY <2>3, <2>4, <2>5, <2>6, <2>7, <2>8 DEF IndInv
  <1>4. ASSUME NEW ws \in SUBSET Wires, DeleteWires(ws) PROVE IndInv'
    <2>. USE <1>4 DEF DeleteWires
    <2>1. listening => inbox' > 0
      BY DEF Notify, TypeOK
    <2>2. ~listening => wiresMissed' /\ plcsMissed'
      BY DEF Notify, TypeOK
    <2>3. TypeOK'
      BY DEF TypeOK, Rows, Booting, LoopPcs, Exists, Notify, BootOrder, Editing
    <2>4. WiresFollow'
      BY <2>1, <2>2 DEF WiresFollow
    <2>5. ConnectorsFollow'
      BY <2>1, <2>2 DEF ConnectorsFollow, Connectable, Known, TypeOK, Rows, Exists
    <2>6. OneConnector'
      BY DEF OneConnector, TypeOK, Notify
    <2>7. BootOrder'
      BY DEF BootOrder, Known, Notify, TypeOK
    <2>8. CopiesFollow'
      BY <2>1, <2>2 DEF CopiesFollow, BootOrder, Connectable, Known
    <2>. QED
      BY <2>3, <2>4, <2>5, <2>6, <2>7, <2>8 DEF IndInv
  <1>. QED
    BY <1>1, <1>2, <1>3, <1>4 DEF Edit

\* main(): the copies it makes are those the loop would make, unless an edit
\* came in between.
LEMMA StartIndInv ==
  ASSUME IndInv, Start \/ Crash
  PROVE IndInv'
  <1>. USE LiveEditAssumption DEF IndInv, dbVars, notifyVars, plantVars, tableVars,
             missedVars
  <1>1. CASE Boot
    <2>. USE <1>1 DEF Boot
    <2>1. TypeOK'
      BY DEF TypeOK, Rows, Booting, LoopPcs, Exists
    <2>2. WiresFollow'
      BY DEF WiresFollow, TypeOK, BootOrder, CopiesFollow
    <2>3. ConnectorsFollow'
      BY DEF ConnectorsFollow, Connectable, Known, TypeOK, BootOrder, CopiesFollow,
             Rows, Booting
    <2>4. OneConnector'
      BY DEF OneConnector, TypeOK, BootOrder
    <2>5. BootOrder'
      BY DEF BootOrder, Known, TypeOK, Rows, LoopPcs
    <2>6. CopiesFollow'
      BY DEF CopiesFollow, BootOrder, Connectable, Known, TypeOK, Rows
    <2>. QED
      BY <2>1, <2>2, <2>3, <2>4, <2>5, <2>6 DEF IndInv
  <1>2. CASE LoadPlant
    <2>. USE <1>2 DEF LoadPlant
    <2>1. TypeOK'
      BY DEF TypeOK, Rows, Booting, LoopPcs, Exists
    <2>2. WiresFollow'
      BY DEF WiresFollow, TypeOK, BootOrder, CopiesFollow
    <2>3. ConnectorsFollow'
      BY DEF ConnectorsFollow, Connectable, Known, TypeOK, BootOrder, CopiesFollow,
             Rows, Booting
    <2>4. OneConnector'
      BY DEF OneConnector, TypeOK, BootOrder
    <2>5. BootOrder'
      BY DEF BootOrder, Known, TypeOK, Rows, LoopPcs
    <2>6. CopiesFollow'
      BY DEF CopiesFollow, BootOrder, Connectable, Known, TypeOK, Rows
    <2>. QED
      BY <2>1, <2>2, <2>3, <2>4, <2>5, <2>6 DEF IndInv
  <1>3. CASE StartConnectors
    <2>. USE <1>3 DEF StartConnectors
    <2>1. TypeOK'
      BY DEF TypeOK, Rows, Booting, LoopPcs, Exists, Connectable
    <2>2. WiresFollow'
      BY DEF WiresFollow, TypeOK, BootOrder, CopiesFollow
    <2>3. ConnectorsFollow'
      BY DEF ConnectorsFollow, Connectable, Known, TypeOK, BootOrder, CopiesFollow,
             Rows, Booting
    <2>4. OneConnector'
      BY DEF OneConnector, TypeOK, BootOrder
    <2>5. BootOrder'
      BY DEF BootOrder, Known, TypeOK, Rows, LoopPcs, Connectable
    <2>6. CopiesFollow'
      BY DEF CopiesFollow, BootOrder, Connectable, Known, TypeOK, Rows
    <2>. QED
      BY <2>1, <2>2, <2>3, <2>4, <2>5, <2>6 DEF IndInv
  <1>4. CASE LoadWires
    <2>. USE <1>4 DEF LoadWires
    <2>1. TypeOK'
      BY DEF TypeOK, Rows, Booting, LoopPcs, Exists
    <2>2. WiresFollow'
      BY DEF WiresFollow, TypeOK, BootOrder, CopiesFollow
    <2>3. ConnectorsFollow'
      BY DEF ConnectorsFollow, Connectable, Known, TypeOK, BootOrder, CopiesFollow,
             Rows, Booting
    <2>4. OneConnector'
      BY DEF OneConnector, TypeOK, BootOrder
    <2>5. BootOrder'
      BY DEF BootOrder, Known, TypeOK, Rows, LoopPcs
    <2>6. CopiesFollow'
      BY DEF CopiesFollow, BootOrder, Connectable, Known, TypeOK, Rows
    <2>. QED
      BY <2>1, <2>2, <2>3, <2>4, <2>5, <2>6 DEF IndInv
  <1>5. CASE Crash
    <2>. USE <1>5 DEF Crash
    <2>1. 0 \in 0..MaxInbox /\ NoPlcs \in Rows /\ [n \in Names |-> 0] \in [Names -> 0..2]
      BY DEF Rows, NoPlcs
    <2>2. TypeOK'
      BY <2>1 DEF TypeOK, Rows, Booting, LoopPcs, Exists
    <2>3. WiresFollow'
      BY DEF WiresFollow, TypeOK, BootOrder, CopiesFollow, NoPlcs
    <2>4. ConnectorsFollow'
      BY DEF ConnectorsFollow, Connectable, Known, TypeOK, BootOrder, CopiesFollow,
             Rows, Booting, NoPlcs
    <2>5. OneConnector'
      BY DEF OneConnector, TypeOK, BootOrder, NoPlcs
    <2>6. BootOrder'
      BY DEF BootOrder, Known, TypeOK, Rows, LoopPcs, NoPlcs
    <2>7. CopiesFollow'
      BY DEF CopiesFollow, BootOrder, Connectable, Known, TypeOK, Rows, NoPlcs
    <2>. QED
      BY <2>2, <2>3, <2>4, <2>5, <2>6, <2>7 DEF IndInv
  <1>. QED
    BY <1>1, <1>2, <1>3, <1>4, <1>5 DEF Start

\* Failures of queries and connections.
LEMMA FailedIndInv ==
  ASSUME IndInv, Failed
  PROVE IndInv'
  <1>. USE LiveEditAssumption DEF IndInv, dbVars, notifyVars, plantVars, tableVars,
             missedVars
  <1>1. CASE ListenFailed
    <2>. USE <1>1 DEF ListenFailed
    <2>1. TypeOK'
      BY DEF TypeOK, Rows, Booting, LoopPcs, Exists
    <2>2. WiresFollow'
      BY DEF WiresFollow, TypeOK, BootOrder, CopiesFollow
    <2>3. ConnectorsFollow'
      BY DEF ConnectorsFollow, Connectable, Known, TypeOK, BootOrder, CopiesFollow,
             Rows, Booting
    <2>4. OneConnector'
      BY DEF OneConnector, TypeOK, BootOrder
    <2>5. BootOrder'
      BY DEF BootOrder, Known, TypeOK, Rows, LoopPcs
    <2>6. CopiesFollow'
      BY DEF CopiesFollow, BootOrder, Connectable, Known, TypeOK, Rows
    <2>. QED
      BY <2>1, <2>2, <2>3, <2>4, <2>5, <2>6 DEF IndInv
  <1>2. CASE ConnectionLost
    <2>. USE <1>2 DEF ConnectionLost
    <2>1. 0 \in 0..MaxInbox
      OBVIOUS
    <2>2. TypeOK'
      BY <2>1 DEF TypeOK, Rows, Booting, LoopPcs, Exists
    <2>3. WiresFollow'
      BY DEF WiresFollow, TypeOK, BootOrder, CopiesFollow
    <2>4. ConnectorsFollow'
      BY DEF ConnectorsFollow, Connectable, Known, TypeOK, BootOrder, CopiesFollow,
             Rows, Booting
    <2>5. OneConnector'
      BY DEF OneConnector, TypeOK, BootOrder
    <2>6. BootOrder'
      BY DEF BootOrder, Known, TypeOK, Rows, LoopPcs
    <2>7. CopiesFollow'
      BY DEF CopiesFollow, BootOrder, Connectable, Known, TypeOK, Rows
    <2>. QED
      BY <2>2, <2>3, <2>4, <2>5, <2>6, <2>7 DEF IndInv
  <1>3. CASE ReadWiresFailed
    <2>. USE <1>3 DEF ReadWiresFailed
    <2>1. TypeOK'
      BY DEF TypeOK, Rows, Booting, LoopPcs, Exists, AfterFailure
    <2>2. WiresFollow'
      BY DEF WiresFollow, TypeOK, BootOrder, CopiesFollow, AfterFailure
    <2>3. ConnectorsFollow'
      BY DEF ConnectorsFollow, Connectable, Known, TypeOK, BootOrder, CopiesFollow,
             Rows, Booting, AfterFailure
    <2>4. OneConnector'
      BY DEF OneConnector, TypeOK, BootOrder, AfterFailure
    <2>5. BootOrder'
      BY DEF BootOrder, Known, TypeOK, Rows, LoopPcs, AfterFailure
    <2>6. CopiesFollow'
      BY DEF CopiesFollow, BootOrder, Connectable, Known, TypeOK, Rows, AfterFailure
    <2>. QED
      BY <2>1, <2>2, <2>3, <2>4, <2>5, <2>6 DEF IndInv
  <1>4. CASE ReloadFailed
    <2>. USE <1>4 DEF ReloadFailed
    <2>1. TypeOK'
      BY DEF TypeOK, Rows, Booting, LoopPcs, Exists, AfterFailure
    <2>2. WiresFollow'
      BY DEF WiresFollow, TypeOK, BootOrder, CopiesFollow, AfterFailure
    <2>3. ConnectorsFollow'
      BY DEF ConnectorsFollow, Connectable, Known, TypeOK, BootOrder, CopiesFollow,
             Rows, Booting, AfterFailure
    <2>4. OneConnector'
      BY DEF OneConnector, TypeOK, BootOrder, AfterFailure
    <2>5. BootOrder'
      BY DEF BootOrder, Known, TypeOK, Rows, LoopPcs, AfterFailure
    <2>6. CopiesFollow'
      BY DEF CopiesFollow, BootOrder, Connectable, Known, TypeOK, Rows, AfterFailure
    <2>. QED
      BY <2>1, <2>2, <2>3, <2>4, <2>5, <2>6 DEF IndInv
  <1>. QED
    BY <1>1, <1>2, <1>3, <1>4 DEF Failed

\* The LISTEN loop and the reconciler that takes its kick.
LEMMA ReactIndInv ==
  ASSUME IndInv, React \/ KickTaken
  PROVE IndInv'
  <1>. USE LiveEditAssumption DEF IndInv, dbVars, notifyVars, plantVars, tableVars,
             missedVars
  <1>1. CASE Listen
    <2>. USE <1>1 DEF Listen
    <2>1. TypeOK'
      BY DEF TypeOK, Rows, Booting, LoopPcs, Exists
    <2>2. WiresFollow'
      BY DEF WiresFollow, TypeOK, BootOrder, CopiesFollow
    <2>3. ConnectorsFollow'
      BY DEF ConnectorsFollow, Connectable, Known, TypeOK, BootOrder, CopiesFollow,
             Rows, Booting
    <2>4. OneConnector'
      BY DEF OneConnector, TypeOK, BootOrder
    <2>5. BootOrder'
      BY DEF BootOrder, Known, TypeOK, Rows, LoopPcs
    <2>6. CopiesFollow'
      BY DEF CopiesFollow, BootOrder, Connectable, Known, TypeOK, Rows
    <2>. QED
      BY <2>1, <2>2, <2>3, <2>4, <2>5, <2>6 DEF IndInv
  <1>2. CASE Recv
    <2>. USE <1>2 DEF Recv
    <2>1. inbox' \in 0..MaxInbox
      BY DEF TypeOK
    <2>2. TypeOK'
      BY <2>1 DEF TypeOK, Rows, Booting, LoopPcs, Exists
    <2>3. WiresFollow'
      BY DEF WiresFollow, TypeOK, BootOrder, CopiesFollow
    <2>4. ConnectorsFollow'
      BY DEF ConnectorsFollow, Connectable, Known, TypeOK, BootOrder, CopiesFollow,
             Rows, Booting
    <2>5. OneConnector'
      BY DEF OneConnector, TypeOK, BootOrder
    <2>6. BootOrder'
      BY DEF BootOrder, Known, TypeOK, Rows, LoopPcs
    <2>7. CopiesFollow'
      BY DEF CopiesFollow, BootOrder, Connectable, Known, TypeOK, Rows
    <2>. QED
      BY <2>2, <2>3, <2>4, <2>5, <2>6, <2>7 DEF IndInv
  <1>3. CASE ReadWires
    <2>. USE <1>3 DEF ReadWires
    <2>1. TypeOK'
      BY DEF TypeOK, Rows, Booting, LoopPcs, Exists
    <2>2. WiresFollow'
      BY DEF WiresFollow, TypeOK, BootOrder, CopiesFollow
    <2>3. ConnectorsFollow'
      BY DEF ConnectorsFollow, Connectable, Known, TypeOK, BootOrder, CopiesFollow,
             Rows, Booting
    <2>4. OneConnector'
      BY DEF OneConnector, TypeOK, BootOrder
    <2>5. BootOrder'
      BY DEF BootOrder, Known, TypeOK, Rows, LoopPcs
    <2>6. CopiesFollow'
      BY DEF CopiesFollow, BootOrder, Connectable, Known, TypeOK, Rows
    <2>. QED
      BY <2>1, <2>2, <2>3, <2>4, <2>5, <2>6 DEF IndInv
  <1>4. CASE StoreWires
    <2>. USE <1>4 DEF StoreWires
    <2>1. TypeOK'
      BY DEF TypeOK, Rows, Booting, LoopPcs, Exists, NewTable
    <2>2. WiresFollow'
      BY DEF WiresFollow, TypeOK, BootOrder, CopiesFollow, NewTable
    <2>3. ConnectorsFollow'
      BY DEF ConnectorsFollow, Connectable, Known, TypeOK, BootOrder, CopiesFollow,
             Rows, Booting, NewTable
    <2>4. OneConnector'
      BY DEF OneConnector, TypeOK, BootOrder, NewTable
    <2>5. BootOrder'
      BY DEF BootOrder, Known, TypeOK, Rows, LoopPcs, NewTable
    <2>6. CopiesFollow'
      BY DEF CopiesFollow, BootOrder, Connectable, Known, TypeOK, Rows, NewTable
    <2>. QED
      BY <2>1, <2>2, <2>3, <2>4, <2>5, <2>6 DEF IndInv
  <1>5. CASE Reload
    <2>. USE <1>5 DEF Reload
    <2>1. TypeOK'
      BY DEF TypeOK, Rows, Booting, LoopPcs, Exists
    <2>2. WiresFollow'
      BY DEF WiresFollow, TypeOK, BootOrder, CopiesFollow
    <2>3. ConnectorsFollow'
      BY DEF ConnectorsFollow, Connectable, Known, TypeOK, BootOrder, CopiesFollow,
             Rows, Booting, Exists
    <2>4. OneConnector'
      BY DEF OneConnector, TypeOK, BootOrder
    <2>5. BootOrder'
      BY DEF BootOrder, Known, TypeOK, Rows, LoopPcs
    <2>6. CopiesFollow'
      BY DEF CopiesFollow, BootOrder, Connectable, Known, TypeOK, Rows
    <2>. QED
      BY <2>1, <2>2, <2>3, <2>4, <2>5, <2>6 DEF IndInv
  <1>6. ASSUME NEW n \in Names, AddConnector(n) PROVE IndInv'
    <2>. USE <1>6 DEF AddConnector
    <2>1. TypeOK'
      BY DEF TypeOK, Rows, Booting, LoopPcs, Exists, NeedsConnector, Connectable,
             Known
    <2>2. WiresFollow'
      BY DEF WiresFollow, TypeOK, BootOrder, CopiesFollow, NeedsConnector,
             Connectable, Known
    <2>3. ConnectorsFollow'
      BY DEF ConnectorsFollow, Connectable, Known, TypeOK, BootOrder, CopiesFollow,
             Rows, Booting, NeedsConnector
    <2>4. OneConnector'
      BY DEF OneConnector, TypeOK, BootOrder, NeedsConnector, Connectable, Known
    <2>5. BootOrder'
      BY DEF BootOrder, Known, TypeOK, Rows, LoopPcs, NeedsConnector, Connectable
    <2>6. CopiesFollow'
      BY DEF CopiesFollow, BootOrder, Connectable, Known, TypeOK, Rows,
             NeedsConnector
    <2>. QED
      BY <2>1, <2>2, <2>3, <2>4, <2>5, <2>6 DEF IndInv
  <1>7. CASE AddDone
    <2>. USE <1>7 DEF AddDone
    <2>1. TypeOK'
      BY DEF TypeOK, Rows, Booting, LoopPcs, Exists, NoPlcs
    <2>2. WiresFollow'
      BY DEF WiresFollow, TypeOK, BootOrder, CopiesFollow
    <2>3. ConnectorsFollow'
      BY DEF ConnectorsFollow, Connectable, Known, TypeOK, BootOrder, CopiesFollow,
             Rows, Booting
    <2>4. OneConnector'
      BY DEF OneConnector, TypeOK, BootOrder
    <2>5. BootOrder'
      BY DEF BootOrder, Known, TypeOK, Rows, LoopPcs
    <2>6. CopiesFollow'
      BY DEF CopiesFollow, BootOrder, Connectable, Known, TypeOK, Rows
    <2>. QED
      BY <2>1, <2>2, <2>3, <2>4, <2>5, <2>6 DEF IndInv
  <1>8. CASE Kick
    <2>. USE <1>8 DEF Kick
    <2>1. TypeOK'
      BY DEF TypeOK, Rows, Booting, LoopPcs, Exists
    <2>2. WiresFollow'
      BY DEF WiresFollow, TypeOK, BootOrder, CopiesFollow
    <2>3. ConnectorsFollow'
      BY DEF ConnectorsFollow, Connectable, Known, TypeOK, BootOrder, CopiesFollow,
             Rows, Booting
    <2>4. OneConnector'
      BY DEF OneConnector, TypeOK, BootOrder
    <2>5. BootOrder'
      BY DEF BootOrder, Known, TypeOK, Rows, LoopPcs
    <2>6. CopiesFollow'
      BY DEF CopiesFollow, BootOrder, Connectable, Known, TypeOK, Rows
    <2>. QED
      BY <2>1, <2>2, <2>3, <2>4, <2>5, <2>6 DEF IndInv
  <1>9. CASE KickTaken
    <2>. USE <1>9 DEF KickTaken
    <2>1. TypeOK'
      BY DEF TypeOK, Rows, Booting, LoopPcs, Exists
    <2>2. WiresFollow'
      BY DEF WiresFollow, TypeOK, BootOrder, CopiesFollow
    <2>3. ConnectorsFollow'
      BY DEF ConnectorsFollow, Connectable, Known, TypeOK, BootOrder, CopiesFollow,
             Rows, Booting
    <2>4. OneConnector'
      BY DEF OneConnector, TypeOK, BootOrder
    <2>5. BootOrder'
      BY DEF BootOrder, Known, TypeOK, Rows, LoopPcs
    <2>6. CopiesFollow'
      BY DEF CopiesFollow, BootOrder, Connectable, Known, TypeOK, Rows
    <2>. QED
      BY <2>1, <2>2, <2>3, <2>4, <2>5, <2>6 DEF IndInv
  <1>. QED
    BY <1>1, <1>2, <1>3, <1>4, <1>5, <1>6, <1>7, <1>8, <1>9 DEF React

\* A step in which nothing happens.
LEMMA StutterIndInv ==
  ASSUME IndInv, UNCHANGED vars
  PROVE IndInv'
  <1>. USE LiveEditAssumption DEF IndInv, dbVars, notifyVars, plantVars, tableVars,
             missedVars, vars
  <1>1. TypeOK'
    BY DEF TypeOK, Rows, Booting, LoopPcs, Exists
  <1>2. WiresFollow'
    BY DEF WiresFollow
  <1>3. ConnectorsFollow'
    BY DEF ConnectorsFollow, Connectable, Known
  <1>4. OneConnector'
    BY DEF OneConnector
  <1>5. BootOrder'
    BY DEF BootOrder, Known
  <1>6. CopiesFollow'
    BY DEF CopiesFollow, Connectable, Known
  <1>. QED
    BY <1>1, <1>2, <1>3, <1>4, <1>5, <1>6

\* The invariant is inductive.
LEMMA NextIndInv == IndInv /\ [Next]_vars => IndInv'
  BY EditIndInv, StartIndInv, FailedIndInv, ReactIndInv, StutterIndInv DEF Next

\* IndInv holds in every state that edits, restarts, failures and the loop can
\* reach.
THEOREM Inductive == Spec => []IndInv
  <1>1. Init => IndInv
    BY InitIndInv
  <1>2. IndInv /\ [Next]_vars => IndInv'
    BY NextIndInv
  <1>. QED
    BY <1>1, <1>2, PTL DEF Spec

\* Every variable keeps its type, and a wire row both its PLCs.
THEOREM TypeCorrect == Spec => []TypeOK
  <1>1. IndInv => TypeOK
    BY DEF IndInv
  <1>. QED
    BY <1>1, Inductive, PTL

\* For any PLCs, wires and number of notifications in flight: the wire table is
\* that of the database, or is about to be, unless an edit went unheard.
THEOREM TableFollowsRows == Spec => []WiresFollow
  <1>1. IndInv => WiresFollow
    BY DEF IndInv
  <1>. QED
    BY <1>1, Inductive, PTL

\* The same for the connectors of PLCs with a known protocol.
THEOREM ConnectorsFollowRows == Spec => []ConnectorsFollow
  <1>1. IndInv => ConnectorsFollow
    BY DEF IndInv
  <1>. QED
    BY <1>1, Inductive, PTL

\* No process ever starts two connectors for one PLC.
THEOREM AtMostOneConnector == Spec => []OneConnector
  <1>1. IndInv => OneConnector
    BY DEF IndInv
  <1>. QED
    BY <1>1, Inductive, PTL
=============================================================================
