---------------------------- MODULE EngineProofs ----------------------------
(***************************************************************************)
(* Proofs about Engine for any numbers of callers, transactions and ports: *)
(* type correctness, the inductive invariant that the per-transaction lock *)
(* gives, the two safety invariants it implies, and the refinement of      *)
(* AnalysisOnce.                                                           *)
(***************************************************************************)
EXTENDS Engine, TLAPS

(* A caller inside prepare has a transaction. *)
Targeted == \A c \in Caller : pc[c] # "idle" => target[c] \in Tx

(* The caller past the lock is the one the lock's table names. *)
LockDiscipline == \A c \in Caller : Locked(c) => in_flight[target[c]] = c

PickedIsPort == \A c \in Caller : pc[c] \in {"binding", "storing"} => picked[c] \in Port

(* Nobody publishes a transaction that another caller is analysing. *)
UnpublishedWhileAnalysing == \A c \in Caller : Analysing(c) => handles[target[c]] = NoPort

(* The server a caller started lives until that caller has stored it. *)
StartedIsServing ==
  \A c \in Caller : pc[c] = "storing" =>
     serving[picked[c]] = target[c] /\ picked[c] \notin draining

DrainingIsServing == \A p \in draining : serving[p] # NoTx

IInv ==
  /\ TypeOK
  /\ Targeted
  /\ LockDiscipline
  /\ PickedIsPort
  /\ UnpublishedWhileAnalysing
  /\ StartedIsServing
  /\ DrainingIsServing
  /\ PublishedIsServed
  /\ NoLostServer

USE CallerAssumption, TxAssumption, PortAssumption
-----------------------------------------------------------------------------
LEMMA TypeInit == Init => TypeOK
  BY DEF Init, TypeOK, Steps

LEMMA TypeStep == TypeOK /\ Targeted /\ [Next]_vars => TypeOK'
<1> SUFFICES ASSUME TypeOK, Targeted, [Next]_vars PROVE TypeOK'
  OBVIOUS
<1> USE DEF TypeOK, Steps
<1>1. ASSUME NEW c \in Caller, NEW t \in Tx, Prepare(c, t) PROVE TypeOK'
  BY <1>1 DEF Prepare
<1>2. ASSUME NEW c \in Caller, Lock(c) PROVE TypeOK'
  BY <1>2 DEF Lock, Targeted
<1>3. ASSUME NEW c \in Caller, ReturnExisting(c) PROVE TypeOK'
  BY <1>3 DEF ReturnExisting, Return, serverVars, Targeted
<1>4. ASSUME NEW c \in Caller, BeginAnalysis(c) PROVE TypeOK'
  BY <1>4 DEF BeginAnalysis
<1>5. ASSUME NEW c \in Caller, Fail(c) PROVE TypeOK'
  BY <1>5 DEF Fail, Return, serverVars, Targeted
<1>6. ASSUME NEW c \in Caller, PickPort(c) PROVE TypeOK'
  BY <1>6 DEF PickPort
<1>7. ASSUME NEW c \in Caller, Bind(c) PROVE TypeOK'
  BY <1>7 DEF Bind
<1>8. ASSUME NEW c \in Caller, BindFails(c) PROVE TypeOK'
  BY <1>8 DEF BindFails, Return, serverVars, Targeted
<1>9. ASSUME NEW c \in Caller, Store(c) PROVE TypeOK'
  BY <1>9 DEF Store, Return, Targeted
<1>10. ASSUME NEW t \in Tx, ShutdownRpcServer(t) PROVE TypeOK'
  BY <1>10 DEF ShutdownRpcServer
<1>11. ASSUME NEW p \in Port, StopListening(p) PROVE TypeOK'
  BY <1>11 DEF StopListening
<1>12. CASE UNCHANGED vars
  BY <1>12 DEF vars
<1> QED
  BY <1>1, <1>2, <1>3, <1>4, <1>5, <1>6, <1>7, <1>8, <1>9, <1>10, <1>11, <1>12
     DEF Next, PrepareStep

LEMMA InvInit == Init => IInv
<1> SUFFICES ASSUME Init PROVE IInv
  OBVIOUS
<1>1. TypeOK
  BY TypeInit
<1> QED
  BY <1>1 DEF Init, IInv, Targeted, LockDiscipline, Locked, PickedIsPort,
     UnpublishedWhileAnalysing, Analysing, StartedIsServing, DrainingIsServing,
     PublishedIsServed, Published, NoLostServer

LEMMA InvStep == IInv /\ [Next]_vars => IInv'
<1> SUFFICES ASSUME IInv, [Next]_vars PROVE IInv'
  OBVIOUS
<1> USE DEF IInv
<1>t. TypeOK'
  BY TypeStep
<1>1. ASSUME NEW c \in Caller, NEW t \in Tx, Prepare(c, t) PROVE IInv'
  <2>1. Targeted'
    BY <1>1, <1>t DEF Prepare, Targeted, TypeOK, Steps
  <2>2. LockDiscipline'
    BY <1>1 DEF Prepare, LockDiscipline, Locked
  <2>3. PickedIsPort'
    BY <1>1 DEF Prepare, PickedIsPort
  <2>4. UnpublishedWhileAnalysing'
    BY <1>1 DEF Prepare, UnpublishedWhileAnalysing, Analysing
  <2>5. StartedIsServing'
    BY <1>1 DEF Prepare, StartedIsServing
  <2>6. DrainingIsServing'
    BY <1>1 DEF Prepare, DrainingIsServing
  <2>7. PublishedIsServed'
    BY <1>1 DEF Prepare, PublishedIsServed, Published
  <2>8. NoLostServer'
    BY <1>1 DEF Prepare, NoLostServer
  <2> QED
    BY <1>t, <2>1, <2>2, <2>3, <2>4, <2>5, <2>6, <2>7, <2>8
<1>2. ASSUME NEW c \in Caller, Lock(c) PROVE IInv'
  <2>1. Targeted'
    BY <1>2 DEF Lock, Targeted
  <2>2. LockDiscipline'
    BY <1>2, <1>t DEF Lock, LockDiscipline, Locked, TypeOK, Steps
  <2>3. PickedIsPort'
    BY <1>2 DEF Lock, PickedIsPort
  <2>4. UnpublishedWhileAnalysing'
    BY <1>2 DEF Lock, UnpublishedWhileAnalysing, Analysing
  <2>5. StartedIsServing'
    BY <1>2 DEF Lock, StartedIsServing
  <2>6. DrainingIsServing'
    BY <1>2 DEF Lock, DrainingIsServing
  <2>7. PublishedIsServed'
    BY <1>2 DEF Lock, PublishedIsServed, Published
  <2>8. NoLostServer'
    BY <1>2 DEF Lock, NoLostServer
  <2> QED
    BY <1>t, <2>1, <2>2, <2>3, <2>4, <2>5, <2>6, <2>7, <2>8
<1>3. ASSUME NEW c \in Caller, ReturnExisting(c) PROVE IInv'
  <2>1. Targeted'
    BY <1>3, <1>t DEF ReturnExisting, Return, serverVars, Targeted, TypeOK, Steps
  <2>2. LockDiscipline'
    BY <1>3, <1>t DEF ReturnExisting, Return, serverVars, LockDiscipline, Locked,
      TypeOK, Steps
  <2>3. PickedIsPort'
    BY <1>3 DEF ReturnExisting, Return, serverVars, PickedIsPort
  <2>4. UnpublishedWhileAnalysing'
    BY <1>3 DEF ReturnExisting, Return, serverVars, UnpublishedWhileAnalysing, Analysing
  <2>5. StartedIsServing'
    BY <1>3 DEF ReturnExisting, Return, serverVars, StartedIsServing
  <2>6. DrainingIsServing'
    BY <1>3 DEF ReturnExisting, Return, serverVars, DrainingIsServing
  <2>7. PublishedIsServed'
    BY <1>3 DEF ReturnExisting, Return, serverVars, PublishedIsServed, Published
  <2>8. NoLostServer'
    BY <1>3 DEF ReturnExisting, Return, serverVars, NoLostServer
  <2> QED
    BY <1>t, <2>1, <2>2, <2>3, <2>4, <2>5, <2>6, <2>7, <2>8
<1>4. ASSUME NEW c \in Caller, BeginAnalysis(c) PROVE IInv'
  <2>1. Targeted'
    BY <1>4 DEF BeginAnalysis, Targeted
  <2>2. LockDiscipline'
    BY <1>4 DEF BeginAnalysis, LockDiscipline, Locked
  <2>3. PickedIsPort'
    BY <1>4 DEF BeginAnalysis, PickedIsPort
  <2>4. UnpublishedWhileAnalysing'
    BY <1>4 DEF BeginAnalysis, UnpublishedWhileAnalysing, Analysing
  <2>5. StartedIsServing'
    BY <1>4 DEF BeginAnalysis, StartedIsServing
  <2>6. DrainingIsServing'
    BY <1>4 DEF BeginAnalysis, DrainingIsServing
  <2>7. PublishedIsServed'
    BY <1>4 DEF BeginAnalysis, PublishedIsServed, Published
  <2>8. NoLostServer'
    BY <1>4 DEF BeginAnalysis, NoLostServer
  <2> QED
    BY <1>t, <2>1, <2>2, <2>3, <2>4, <2>5, <2>6, <2>7, <2>8
<1>5. ASSUME NEW c \in Caller, Fail(c) PROVE IInv'
  <2>1. Targeted'
    BY <1>5, <1>t DEF Fail, Return, serverVars, Targeted, TypeOK, Steps
  <2>2. LockDiscipline'
    BY <1>5, <1>t DEF Fail, Return, serverVars, LockDiscipline, Locked, TypeOK, Steps
  <2>3. PickedIsPort'
    BY <1>5 DEF Fail, Return, serverVars, PickedIsPort
  <2>4. UnpublishedWhileAnalysing'
    BY <1>5, <1>t DEF Fail, Return, serverVars, UnpublishedWhileAnalysing, Analysing,
      TypeOK, Steps
  <2>5. StartedIsServing'
    BY <1>5 DEF Fail, Return, serverVars, StartedIsServing
  <2>6. DrainingIsServing'
    BY <1>5 DEF Fail, Return, serverVars, DrainingIsServing
  <2>7. PublishedIsServed'
    BY <1>5 DEF Fail, Return, serverVars, PublishedIsServed, Published
  <2>8. NoLostServer'
    BY <1>5 DEF Fail, Return, serverVars, NoLostServer
  <2> QED
    BY <1>t, <2>1, <2>2, <2>3, <2>4, <2>5, <2>6, <2>7, <2>8
<1>6. ASSUME NEW c \in Caller, PickPort(c) PROVE IInv'
  <2>1. Targeted'
    BY <1>6 DEF PickPort, Targeted
  <2>2. LockDiscipline'
    BY <1>6 DEF PickPort, LockDiscipline, Locked
  <2>3. PickedIsPort'
    BY <1>6, <1>t DEF PickPort, PickedIsPort, TypeOK, Steps
  <2>4. UnpublishedWhileAnalysing'
    BY <1>6 DEF PickPort, UnpublishedWhileAnalysing, Analysing
  <2>5. StartedIsServing'
    BY <1>6 DEF PickPort, StartedIsServing
  <2>6. DrainingIsServing'
    BY <1>6 DEF PickPort, DrainingIsServing
  <2>7. PublishedIsServed'
    BY <1>6 DEF PickPort, PublishedIsServed, Published
  <2>8. NoLostServer'
    BY <1>6 DEF PickPort, NoLostServer
  <2> QED
    BY <1>t, <2>1, <2>2, <2>3, <2>4, <2>5, <2>6, <2>7, <2>8
<1>7. ASSUME NEW c \in Caller, Bind(c) PROVE IInv'
  <2>1. Targeted'
    BY <1>7 DEF Bind, Targeted
  <2>2. LockDiscipline'
    BY <1>7 DEF Bind, LockDiscipline, Locked
  <2>3. PickedIsPort'
    BY <1>7 DEF Bind, PickedIsPort
  <2>4. UnpublishedWhileAnalysing'
    BY <1>7 DEF Bind, UnpublishedWhileAnalysing, Analysing
  <2>5. StartedIsServing'
    BY <1>7, <1>t DEF Bind, StartedIsServing, TypeOK, Steps, Targeted, LockDiscipline,
      Locked, UnpublishedWhileAnalysing, Analysing, PickedIsPort, DrainingIsServing,
      PublishedIsServed, Published
  <2>6. DrainingIsServing'
    BY <1>7 DEF Bind, DrainingIsServing
  <2>7. PublishedIsServed'
    BY <1>7 DEF Bind, PublishedIsServed, Published
  <2>8. NoLostServer'
    BY <1>7, <1>t DEF Bind, NoLostServer, TypeOK, Steps
  <2> QED
    BY <1>t, <2>1, <2>2, <2>3, <2>4, <2>5, <2>6, <2>7, <2>8
<1>8. ASSUME NEW c \in Caller, BindFails(c) PROVE IInv'
  <2>1. Targeted'
    BY <1>8, <1>t DEF BindFails, Return, serverVars, Targeted, TypeOK, Steps
  <2>2. LockDiscipline'
    BY <1>8, <1>t DEF BindFails, Return, serverVars, LockDiscipline, Locked, TypeOK,
      Steps
  <2>3. PickedIsPort'
    BY <1>8, <1>t DEF BindFails, Return, serverVars, PickedIsPort, TypeOK, Steps
  <2>4. UnpublishedWhileAnalysing'
    BY <1>8, <1>t DEF BindFails, Return, serverVars, UnpublishedWhileAnalysing,
      Analysing, TypeOK, Steps
  <2>5. StartedIsServing'
    BY <1>8 DEF BindFails, Return, serverVars, StartedIsServing
  <2>6. DrainingIsServing'
    BY <1>8 DEF BindFails, Return, serverVars, DrainingIsServing
  <2>7. PublishedIsServed'
    BY <1>8 DEF BindFails, Return, serverVars, PublishedIsServed, Published
  <2>8. NoLostServer'
    BY <1>8 DEF BindFails, Return, serverVars, NoLostServer
  <2> QED
    BY <1>t, <2>1, <2>2, <2>3, <2>4, <2>5, <2>6, <2>7, <2>8
<1>9. ASSUME NEW c \in Caller, Store(c) PROVE IInv'
  <2>1. Targeted'
    BY <1>9, <1>t DEF Store, Return, Targeted, TypeOK, Steps
  <2>2. LockDiscipline'
    BY <1>9, <1>t DEF Store, Return, LockDiscipline, Locked, TypeOK, Steps
  <2>3. PickedIsPort'
    BY <1>9, <1>t DEF Store, Return, PickedIsPort, TypeOK, Steps
  <2>4. UnpublishedWhileAnalysing'
    BY <1>9, <1>t DEF Store, Return, UnpublishedWhileAnalysing, Analysing, TypeOK,
      Steps, Targeted, LockDiscipline, Locked
  <2>5. StartedIsServing'
    BY <1>9, <1>t DEF Store, Return, StartedIsServing, TypeOK, Steps,
      UnpublishedWhileAnalysing, Analysing
  <2>6. DrainingIsServing'
    BY <1>9, <1>t DEF Store, Return, DrainingIsServing, TypeOK, Steps,
      UnpublishedWhileAnalysing, Analysing
  <2>7. PublishedIsServed'
    BY <1>9, <1>t DEF Store, Return, PublishedIsServed, Published, TypeOK, Steps,
      Targeted, UnpublishedWhileAnalysing, Analysing, StartedIsServing, PickedIsPort
  <2>8. NoLostServer'
    BY <1>9, <1>t DEF Store, Return, NoLostServer, TypeOK, Steps
  <2> QED
    BY <1>t, <2>1, <2>2, <2>3, <2>4, <2>5, <2>6, <2>7, <2>8
<1>10. ASSUME NEW t \in Tx, ShutdownRpcServer(t) PROVE IInv'
  <2>1. Targeted'
    BY <1>10 DEF ShutdownRpcServer, Targeted
  <2>2. LockDiscipline'
    BY <1>10 DEF ShutdownRpcServer, LockDiscipline, Locked
  <2>3. PickedIsPort'
    BY <1>10 DEF ShutdownRpcServer, PickedIsPort
  <2>4. UnpublishedWhileAnalysing'
    BY <1>10 DEF ShutdownRpcServer, UnpublishedWhileAnalysing, Analysing
  <2>5. StartedIsServing'
    BY <1>10, <1>t DEF ShutdownRpcServer, StartedIsServing, TypeOK, Steps, Targeted,
      UnpublishedWhileAnalysing, Analysing, PublishedIsServed, Published
  <2>6. DrainingIsServing'
    BY <1>10, <1>t DEF ShutdownRpcServer, DrainingIsServing, TypeOK, Steps, Targeted,
      UnpublishedWhileAnalysing, Analysing, PublishedIsServed, Published
  <2>7. PublishedIsServed'
    BY <1>10, <1>t DEF ShutdownRpcServer, PublishedIsServed, Published, TypeOK, Steps
  <2>8. NoLostServer'
    BY <1>10 DEF ShutdownRpcServer, NoLostServer
  <2> QED
    BY <1>t, <2>1, <2>2, <2>3, <2>4, <2>5, <2>6, <2>7, <2>8
<1>11. ASSUME NEW p \in Port, StopListening(p) PROVE IInv'
  <2>1. Targeted'
    BY <1>11 DEF StopListening, Targeted
  <2>2. LockDiscipline'
    BY <1>11 DEF StopListening, LockDiscipline, Locked
  <2>3. PickedIsPort'
    BY <1>11 DEF StopListening, PickedIsPort
  <2>4. UnpublishedWhileAnalysing'
    BY <1>11 DEF StopListening, UnpublishedWhileAnalysing, Analysing
  <2>5. StartedIsServing'
    BY <1>11 DEF StopListening, StartedIsServing
  <2>6. DrainingIsServing'
    BY <1>11 DEF StopListening, DrainingIsServing
  <2>7. PublishedIsServed'
    BY <1>11 DEF StopListening, PublishedIsServed, Published
  <2>8. NoLostServer'
    BY <1>11, <1>t DEF StopListening, NoLostServer, TypeOK, Steps
  <2> QED
    BY <1>t, <2>1, <2>2, <2>3, <2>4, <2>5, <2>6, <2>7, <2>8
<1>12. CASE UNCHANGED vars
  BY <1>12 DEF vars, TypeOK, Targeted, LockDiscipline, Locked, PickedIsPort,
     UnpublishedWhileAnalysing, Analysing, StartedIsServing, DrainingIsServing,
     PublishedIsServed, Published, NoLostServer
<1> QED
  BY <1>1, <1>2, <1>3, <1>4, <1>5, <1>6, <1>7, <1>8, <1>9, <1>10, <1>11, <1>12
     DEF Next, PrepareStep
-----------------------------------------------------------------------------
(* The inductive invariant holds of prepare and shutdown_rpc_server in every
   interleaving. *)
THEOREM Invariance == Spec => []IInv
  BY InvInit, InvStep, PTL DEF Spec

(* The variables of Engine keep their types, for any callers, transactions
   and ports: no handle, lock or listener is ever a stale sentinel. *)
THEOREM TypeCorrect == Spec => []TypeOK
  BY Invariance, PTL DEF IInv

(* server_handles (core.rs:120-164) never holds the address of a server that
   was told to stop or that serves another transaction. *)
THEOREM PublishedServers == Spec => []PublishedIsServed
  BY Invariance, PTL DEF IInv

(* Every debug server that listens can be reached to be shut down. *)
THEOREM ServersAreKept == Spec => []NoLostServer
  BY Invariance, PTL DEF IInv
-----------------------------------------------------------------------------
(* Whoever analyses a transaction does so alone. *)
LEMMA OneAnalyst ==
  ASSUME IInv, NEW c \in Caller, Analysing(c)
  PROVE  Analysts[target[c]] = {c}
<1>1. target[c] \in Tx
  BY DEF IInv, Targeted, Analysing
<1>2. \A d \in Caller : Analysing(d) /\ target[d] = target[c] => d = c
  BY DEF IInv, LockDiscipline, Locked, Analysing
<1> QED
  BY <1>1, <1>2 DEF Analysts

(* Steps that leave the analysing callers and their transactions alone. *)
LEMMA SameAnalysts ==
  ASSUME \A c \in Caller : Analysing(c)' <=> Analysing(c),
         \A c \in Caller : Analysing(c) => target'[c] = target[c]
  PROVE  Analysts' = Analysts
  BY DEF Analysts

(* A caller that stops analysing leaves its transaction without an analyst. *)
LEMMA AnalystLeaves ==
  ASSUME IInv, NEW c \in Caller, Analysing(c), ~Analysing(c)',
         \A d \in Caller \ {c} : /\ Analysing(d)' <=> Analysing(d)
                                 /\ target'[d] = target[d]
  PROVE  Analysts' = [Analysts EXCEPT ![target[c]] = {}]
<1>1. \A d \in Caller : Analysing(d) /\ target[d] = target[c] => d = c
  BY DEF IInv, LockDiscipline, Locked, Analysing
<1>2. ASSUME NEW t \in Tx
      PROVE  Analysts'[t] = IF t = target[c] THEN {} ELSE Analysts[t]
  <2>1. CASE t = target[c]
    BY <1>1, <2>1 DEF Analysts
  <2>2. CASE t # target[c]
    <3>1. \A d \in Caller : (Analysing(d)' /\ target'[d] = t) <=> (Analysing(d) /\ target[d] = t)
      BY <2>2
    <3> QED
      BY <2>2, <3>1 DEF Analysts
  <2> QED
    BY <2>1, <2>2
<1>3. /\ Analysts' = [t \in Tx |-> Analysts'[t]]
      /\ [Analysts EXCEPT ![target[c]] = {}] = [t \in Tx |-> IF t = target[c] THEN {} ELSE Analysts[t]]
  BY DEF Analysts
<1> QED
  BY <1>2, <1>3

LEMMA RefinesInit == Init => Once!Init
  BY DEF Init, Once!Init, Analysts, Analysing, Published

LEMMA RefinesStep == IInv /\ [Next]_vars => [Once!Next]_(Once!vars)
<1> SUFFICES ASSUME IInv, [Next]_vars PROVE [Once!Next]_(Once!vars)
  OBVIOUS
<1> USE DEF IInv, TypeOK, Steps
<1>1. ASSUME NEW c \in Caller, NEW t \in Tx, Prepare(c, t) PROVE UNCHANGED Once!vars
  <2>1. Analysts' = Analysts
    BY <1>1, SameAnalysts DEF Prepare, Analysing
  <2> QED
    BY <1>1, <2>1 DEF Prepare, Published, Once!vars
<1>2. ASSUME NEW c \in Caller, Lock(c) \/ PickPort(c) \/ Bind(c) PROVE UNCHANGED Once!vars
  <2>1. Analysts' = Analysts
    BY <1>2, SameAnalysts DEF Lock, PickPort, Bind, Analysing
  <2> QED
    BY <1>2, <2>1 DEF Lock, PickPort, Bind, Published, Once!vars
<1>3. ASSUME NEW c \in Caller, ReturnExisting(c) PROVE UNCHANGED Once!vars
  <2>1. Analysts' = Analysts
    BY <1>3, SameAnalysts DEF ReturnExisting, Return, Analysing
  <2> QED
    BY <1>3, <2>1 DEF ReturnExisting, serverVars, Published, Once!vars
<1>4. ASSUME NEW c \in Caller, BeginAnalysis(c) PROVE Once!Begin(c, target[c])
  <2>1. target[c] \in Tx /\ target[c] \notin Published
    BY <1>4 DEF BeginAnalysis, Targeted, Published
  <2>2. \A d \in Caller : Analysing(d) => target[d] # target[c]
    BY <1>4 DEF BeginAnalysis, LockDiscipline, Locked, Analysing
  <2>3. Analysts[target[c]] = {}
    BY <2>1, <2>2 DEF Analysts
  <2>4. ASSUME NEW t \in Tx
        PROVE  Analysts'[t] = IF t = target[c] THEN {c} ELSE Analysts[t]
    BY <1>4, <2>2 DEF BeginAnalysis, Analysts, Analysing
  <2>5. Analysts' = [Analysts EXCEPT ![target[c]] = {c}]
    BY <2>4 DEF Analysts
  <2> QED
    BY <1>4, <2>1, <2>3, <2>5 DEF BeginAnalysis, Published, Once!Begin
<1>5. ASSUME NEW c \in Caller, Fail(c) \/ BindFails(c) PROVE Once!Abandon(c, target[c])
  <2>1. Analysing(c) /\ ~Analysing(c)'
    BY <1>5 DEF Fail, BindFails, Return, Analysing
  <2>2. Analysts' = [Analysts EXCEPT ![target[c]] = {}]
    BY <1>5, <2>1, AnalystLeaves DEF Fail, BindFails, Return, Analysing
  <2> QED
    BY <1>5, <2>1, <2>2, OneAnalyst DEF Fail, BindFails, serverVars, Published, Once!Abandon
<1>6. ASSUME NEW c \in Caller, Store(c) PROVE Once!Publish(c, target[c])
  <2>1. Analysing(c) /\ ~Analysing(c)'
    BY <1>6 DEF Store, Return, Analysing
  <2>2. Analysts' = [Analysts EXCEPT ![target[c]] = {}]
    BY <1>6, <2>1, AnalystLeaves DEF Store, Return, Analysing
  <2>3. target[c] \in Tx /\ picked[c] # NoPort
    BY <1>6 DEF Store, Targeted, PickedIsPort
  <2>4. Published' = Published \union {target[c]}
    BY <1>6, <2>3 DEF Store, Published
  <2> QED
    BY <2>1, <2>2, <2>4, OneAnalyst DEF Once!Publish
<1>7. ASSUME NEW t \in Tx, ShutdownRpcServer(t) PROVE Once!Withdraw(t)
  <2>1. Analysts' = Analysts
    BY <1>7, SameAnalysts DEF ShutdownRpcServer, Analysing
  <2>2. Published' = Published \ {t} /\ t \in Published
    BY <1>7 DEF ShutdownRpcServer, Published
  <2> QED
    BY <2>1, <2>2 DEF Once!Withdraw
<1>8. ASSUME NEW p \in Port, StopListening(p) PROVE UNCHANGED Once!vars
  <2>1. Analysts' = Analysts
    BY <1>8, SameAnalysts DEF StopListening, Analysing
  <2> QED
    BY <1>8, <2>1 DEF StopListening, Published, Once!vars
<1>9. CASE UNCHANGED vars
  BY <1>9 DEF vars, Analysts, Analysing, Published, Once!vars
<1>10. \A c \in Caller : target[c] \in Tx \/ pc[c] = "idle"
  BY DEF Targeted
<1> QED
  BY <1>1, <1>2, <1>3, <1>4, <1>5, <1>6, <1>7, <1>8, <1>9, <1>10
     DEF Next, PrepareStep, Once!Next, BeginAnalysis, Fail, BindFails, Store

(* core.rs:180-183: at most one analysis of a transaction at a time, none of
   one that is published, and only an analysis publishes; with any number of
   callers, and whichever of them fail or are shut down in between. *)
THEOREM AnalysisIsOnce == Spec => AnalysedOnce
<1>1. Init => Once!Init
  BY RefinesInit
<1>2. IInv /\ [Next]_vars => [Once!Next]_(Once!vars)
  BY RefinesStep
<1> QED
  BY <1>1, <1>2, Invariance, PTL DEF Spec, AnalysedOnce, Once!Spec
=============================================================================
