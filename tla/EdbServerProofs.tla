--------------------------- MODULE EdbServerProofs ---------------------------
(***************************************************************************)
(* Proofs about EdbServer for any connections, transactions and ports: no  *)
(* server without an owner and no handler without a request, that a client *)
(* finds its own transaction's server at the port it was given, and what   *)
(* the counts of connections count.  While the worker lives the engine's   *)
(* own inductive invariant holds; its proof is instantiated with the       *)
(* worker as the only caller, never repeated.                              *)
(***************************************************************************)
EXTENDS EdbServer, FiniteSetTheorems, TLAPS

P == INSTANCE EngineProofs WITH Caller <- {Worker}

(* The worker is inside prepare only for the transaction of its job. *)
PreparesItsJob ==
  pc[Worker] # "idle" => worker = "preparing" /\ target[Worker] = txOf[job]

WorkerHasJob ==
  IF worker \in {"forking", "preparing"}
  THEN job \in Client /\ conn[job] = "queued"
  ELSE job = NoClient

(* A handler between the request and its end has a transaction. *)
Requested ==
  \A c \in Client :
     conn[c] \in {"reusing", "delegating", "queued", "prepared", "replying",
                  "tracking", "closing"} => txOf[c] \in Tx

(* The channel holds the requests of queued handlers, each at one place and
   none of them the worker's. *)
ChannelIsQueue ==
  /\ worker = "dead" => channel = <<>>
  /\ \A i \in 1..Len(channel) : conn[channel[i]] = "queued" /\ channel[i] # job
  /\ \A i, j \in 1..Len(channel) : channel[i] = channel[j] => i = j

QueuedIsSomewhere == \A c \in Client : conn[c] = "queued" => job = c \/ Waiting(c)

(* What prepare answered is still so when the worker passes it on, unless a
   handler has shut the session down meanwhile. *)
Responding == worker = "preparing" /\ pc[Worker] = "idle"

AnswerStands ==
  Responding =>
     IF answer[Worker] = NoPort
     THEN handles[txOf[job]] = NoPort
     ELSE ClosedOn(txOf[job]) \/ handles[txOf[job]] = answer[Worker]

(* ServerOwned with less: a request in the worker's hands owns a server only
   once prepare has answered it. *)
Owned(t) ==
  \/ active_connections[t] > 0
  \/ \E c \in Client : txOf[c] = t /\ conn[c] \in {"prepared", "closing"}
  \/ Responding /\ txOf[job] = t /\ answer[Worker] = handles[t]

PublishedIsOwned == \A t \in Tx : handles[t] # NoPort => Owned(t)

PortIsPublished ==
  \A c \in Client :
     HasPort(c) /\ ~ClosedOn(txOf[c]) =>
        portOf[c] # NoPort /\ portOf[c] = handles[txOf[c]]

(* What relates the handlers to the channel and to the worker ... *)
QueueInv == WorkerHasJob /\ Requested /\ ChannelIsQueue /\ QueuedIsSomewhere

(* ... and what relates both to the engine. *)
SessionInv == PreparesItsJob /\ AnswerStands /\ PublishedIsOwned /\ PortIsPublished

IInv ==
  /\ TypeOK
  /\ worker # "dead" => P!IInv
  /\ QueueInv
  /\ SessionInv

USE ClientAssumption, TxAssumption, PortAssumption, WorkerAssumption, UnwindsAssumption DEF counts
-----------------------------------------------------------------------------
(* A handler that is not queued is in nobody's hands. *)
LEMMA NotQueued ==
  ASSUME IInv, NEW c \in Client, conn[c] # "queued"
  PROVE  job # c /\ ~Waiting(c)
  BY DEF IInv, QueueInv, WorkerHasJob, ChannelIsQueue, Waiting

(* A handler that closes its session, or has ended, stays so, with its
   transaction. *)
LEMMA ClosedStays ==
  ASSUME IInv, [Next]_vars, NEW t \in Tx, ClosedOn(t)
  PROVE  \E c \in Client : txOf'[c] = t /\ conn'[c] \in {"closing", "gone"}
<1>1. PICK c \in Client : txOf[c] = t /\ conn[c] \in {"closing", "gone"}
  BY DEF ClosedOn
<1>2. job # c /\ ~Waiting(c)
  BY <1>1, NotQueued
<1>3. txOf'[c] = txOf[c] /\ conn'[c] \in {"closing", "gone"}
  <2> USE <1>1, <1>2 DEF IInv, TypeOK, engineVars, handlerVars, workerVars
  <2>1. ASSUME NEW d \in Client, Disconnect(d) \/ BadRequest(d) PROVE <1>3
    BY <2>1 DEF Disconnect, BadRequest
  <2>2. ASSUME NEW d \in Client, NEW u \in Tx, ReplayRequest(d, u) PROVE <1>3
    BY <2>2 DEF ReplayRequest
  <2>3. ASSUME NEW d \in Client, HandlerStep(d) PROVE <1>3
    BY <2>3 DEF HandlerStep, CountReuse, Delegate, CountPrepared, SendSuccess,
       SendSuccessFails, SendError, CloseIdle, Untrack, ShutdownSession
  <2>4. ASSUME WorkerStep PROVE <1>3
    BY <2>4 DEF WorkerStep, Receive, ForkOk, ForkFails, PrepareRuns, SendResponse, Respond
  <2>5. ASSUME WorkerPanics \/ StopListening PROVE <1>3
    BY <2>5 DEF WorkerPanics, StopListening
  <2>6. CASE UNCHANGED vars
    BY <2>6 DEF vars
  <2> QED
    BY <2>1, <2>2, <2>3, <2>4, <2>5, <2>6 DEF Next
<1> QED
  BY <1>1, <1>3
-----------------------------------------------------------------------------
(* The engine. *)

(* A step of the engine preserves its invariant: EngineProofs says so, for
   the worker as the only caller. *)
LEMMA EngineStep ==
  ASSUME P!IInv, [E!Next]_engineVars
  PROVE  P!IInv'
<1>1. NoCaller \notin {Worker}
  OBVIOUS
<1>2. [P!Next]_(P!vars)
  BY DEF engineVars, P!vars, E!Next, P!Next, E!Prepare, P!Prepare, E!PrepareStep,
     P!PrepareStep, E!Lock, P!Lock, E!ReturnExisting, P!ReturnExisting, E!BeginAnalysis,
     P!BeginAnalysis, E!Fail, P!Fail, E!PickPort, P!PickPort, E!Bind, P!Bind,
     E!BindFails, P!BindFails, E!Store, P!Store, E!Return, P!Return, E!serverVars,
     P!serverVars, E!ShutdownRpcServer, P!ShutdownRpcServer, E!StopListening, P!StopListening
<1> QED
  BY <1>1, <1>2, P!InvStep

(* Whatever the server does is a step of the engine, a stuttering of it, or
   the panic that takes the engine's servers along. *)
LEMMA DrivesStep ==
  ASSUME IInv, [Next]_vars
  PROVE  [E!Next \/ (worker # "dead" /\ worker' = "dead")]_engineVars
<1>1. ASSUME NEW c \in Client, Disconnect(c) \/ BadRequest(c) PROVE UNCHANGED engineVars
  BY <1>1 DEF Disconnect, BadRequest
<1>2. ASSUME NEW c \in Client, NEW t \in Tx, ReplayRequest(c, t) PROVE UNCHANGED engineVars
  BY <1>2 DEF ReplayRequest
<1>3. ASSUME NEW c \in Client, HandlerStep(c), ~ShutdownSession(c) PROVE UNCHANGED engineVars
  BY <1>3 DEF HandlerStep, CountReuse, Delegate, CountPrepared, SendSuccess,
     SendSuccessFails, SendError, CloseIdle, Untrack
<1>4. ASSUME NEW c \in Client, ShutdownSession(c) PROVE E!Next \/ UNCHANGED engineVars
  <2>1. txOf[c] \in Tx
    BY <1>4 DEF ShutdownSession, IInv, QueueInv, Requested
  <2> QED
    BY <1>4, <2>1 DEF ShutdownSession, E!Next
<1>5. ASSUME Receive \/ ForkFails \/ SendResponse PROVE UNCHANGED engineVars
  BY <1>5 DEF Receive, ForkFails, SendResponse
<1>6. ASSUME ForkOk PROVE E!Next
  <2>1. txOf[job] \in Tx
    BY <1>6 DEF ForkOk, IInv, QueueInv, WorkerHasJob, Requested
  <2> QED
    BY <1>6, <2>1 DEF ForkOk, E!Next
<1>7. ASSUME PrepareRuns PROVE E!Next
  BY <1>7 DEF PrepareRuns, E!Next
<1>8. ASSUME WorkerPanics PROVE worker # "dead" /\ worker' = "dead"
  BY <1>8 DEF WorkerPanics
<1>9. ASSUME StopListening PROVE E!Next
  BY <1>9 DEF StopListening, E!Next
<1>10. CASE UNCHANGED vars
  BY <1>10 DEF vars, engineVars
<1> QED
  BY <1>1, <1>2, <1>3, <1>4, <1>5, <1>6, <1>7, <1>8, <1>9, <1>10 DEF Next, WorkerStep

(* The worker never lives again, so the engine's invariant holds as long as it
   does. *)
LEMMA EngineInvStep ==
  ASSUME IInv, [Next]_vars, worker' # "dead"
  PROVE  worker # "dead" /\ P!IInv'
<1>1. worker # "dead"
  BY DEF Next, Disconnect, BadRequest, ReplayRequest, HandlerStep, CountReuse, Delegate,
     CountPrepared, SendSuccess, SendSuccessFails, SendError, CloseIdle, Untrack,
     ShutdownSession, WorkerStep, Receive, ForkOk, ForkFails, PrepareRuns, SendResponse,
     WorkerPanics, StopListening, vars, workerVars
<1> QED
  BY <1>1, DrivesStep, EngineStep DEF IInv

(* What a step inside prepare comes to: it goes on, without publishing
   anything; or it answers an error, and nothing is published; or it answers
   the address that is published. *)
LEMMA PrepareRunsDoes ==
  ASSUME IInv, PrepareRuns
  PROVE  /\ pc[Worker] # "idle" /\ target[Worker] = txOf[job]
         /\ \A t \in Tx \ {txOf[job]} : handles'[t] = handles[t]
         /\ \/ pc'[Worker] # "idle" /\ target'[Worker] = target[Worker] /\ UNCHANGED handles
            \/ /\ pc'[Worker] = "idle" /\ answer'[Worker] = NoPort
               /\ handles[txOf[job]] = NoPort /\ UNCHANGED handles
            \/ /\ pc'[Worker] = "idle" /\ answer'[Worker] # NoPort
               /\ handles'[txOf[job]] = answer'[Worker]
               /\ handles[txOf[job]] \in {NoPort, answer'[Worker]}
<1> USE DEF IInv, SessionInv, PreparesItsJob, QueueInv, WorkerHasJob, Requested, PrepareRuns,
        P!IInv, P!TypeOK, P!Steps
<1>1. pc[Worker] # "idle" /\ target[Worker] = txOf[job] /\ txOf[job] \in Tx
  BY DEF E!PrepareStep, E!Lock, E!ReturnExisting, E!BeginAnalysis, E!Fail, E!PickPort,
     E!Bind, E!BindFails, E!Store
<1>2. CASE E!Lock(Worker) \/ E!BeginAnalysis(Worker) \/ E!PickPort(Worker) \/ E!Bind(Worker)
  BY <1>1, <1>2 DEF E!Lock, E!BeginAnalysis, E!PickPort, E!Bind
<1>3. CASE E!ReturnExisting(Worker)
  BY <1>1, <1>3 DEF E!ReturnExisting, E!Return, E!serverVars
<1>4. CASE E!Fail(Worker) \/ E!BindFails(Worker)
  BY <1>1, <1>4 DEF E!Fail, E!BindFails, E!Return, E!serverVars,
     P!UnpublishedWhileAnalysing, P!Analysing
<1>5. CASE E!Store(Worker)
  BY <1>1, <1>5 DEF E!Store, E!Return, P!UnpublishedWhileAnalysing, P!Analysing, P!PickedIsPort
<1> QED
  BY <1>1, <1>2, <1>3, <1>4, <1>5 DEF E!PrepareStep
-----------------------------------------------------------------------------
LEMMA TypeStep == IInv /\ [Next]_vars => TypeOK'
<1> SUFFICES ASSUME IInv, [Next]_vars PROVE TypeOK'
  OBVIOUS
<1> USE DEF IInv, TypeOK, ConnStates
<1>a. ASSUME UNCHANGED engineVars PROVE E!TypeOK'
  BY <1>a DEF engineVars, E!TypeOK
<1>b. ASSUME worker' # "dead" PROVE E!TypeOK'
  BY <1>b, EngineInvStep DEF P!IInv, P!TypeOK, E!TypeOK, P!Steps, E!Steps
<1>1. ASSUME NEW c \in Client, Disconnect(c) \/ BadRequest(c) PROVE TypeOK'
  BY <1>1, <1>a DEF Disconnect, BadRequest, workerVars
<1>2. ASSUME NEW c \in Client, NEW t \in Tx, ReplayRequest(c, t) PROVE TypeOK'
  BY <1>2, <1>a DEF ReplayRequest, workerVars, E!TypeOK
<1>3. ASSUME NEW c \in Client, Delegate(c) PROVE TypeOK'
  <2>1. channel' \in Seq(Client)
    <3>1. Append(channel, c) \in Seq(Client)
      OBVIOUS
    <3> QED
      BY <1>3, <3>1 DEF Delegate
  <2> QED
    BY <1>3, <1>a, <2>1 DEF Delegate
<1>4. ASSUME NEW c \in Client, CountReuse(c) \/ CountPrepared(c) \/ Untrack(c) PROVE TypeOK'
  <2>1. txOf[c] \in Tx
    BY <1>4 DEF CountReuse, CountPrepared, Untrack, QueueInv, Requested
  <2>2. active_connections' \in [Tx -> Nat]
    <3>1. active_connections[txOf[c]] \in Nat
      BY <2>1
    <3>2. \E n \in Nat : active_connections' = [active_connections EXCEPT ![txOf[c]] = n]
      BY <1>4, <3>1 DEF CountReuse, CountPrepared, Untrack
    <3> QED
      BY <3>2
  <2>3. /\ UNCHANGED <<engineVars, peer, txOf, portOf, workerVars>>
        /\ conn' \in [Client -> ConnStates]
    BY <1>4 DEF CountReuse, CountPrepared, Untrack
  <2>4. recounted' \subseteq Tx
    BY <1>4, <2>1 DEF CountReuse, CountPrepared, Untrack
  <2> QED
    BY <1>a, <2>2, <2>3, <2>4 DEF workerVars
<1>5. ASSUME NEW c \in Client,
             SendSuccess(c) \/ SendSuccessFails(c) \/ SendError(c) \/ CloseIdle(c)
      PROVE  TypeOK'
  BY <1>5, <1>a DEF SendSuccess, SendSuccessFails, SendError, CloseIdle, workerVars
<1>6. ASSUME NEW c \in Client, ShutdownSession(c) PROVE TypeOK'
  <2>1. E!TypeOK'
    <3>1. CASE handles[txOf[c]] # NoPort
      <4>1. txOf[c] \in Tx
        BY <1>6 DEF ShutdownSession, QueueInv, Requested
      <4>2. E!ShutdownRpcServer(txOf[c])
        BY <1>6, <3>1 DEF ShutdownSession
      <4>3. draining' \subseteq Port /\ handles' \in [Tx -> Port \union {NoPort}]
        BY <3>1, <4>1, <4>2 DEF E!ShutdownRpcServer, E!TypeOK
      <4> QED
        BY <4>2, <4>3 DEF E!ShutdownRpcServer, E!TypeOK
    <3>2. CASE handles[txOf[c]] = NoPort
      BY <1>6, <1>a, <3>2 DEF ShutdownSession
    <3> QED
      BY <3>1, <3>2
  <2>2. /\ conn' = [conn EXCEPT ![c] = "gone"]
        /\ UNCHANGED <<peer, txOf, portOf, counts, channel, job, worker>>
    BY <1>6 DEF ShutdownSession, workerVars
  <2> QED
    BY <2>1, <2>2
<1>7. ASSUME Receive PROVE TypeOK'
  BY <1>7, <1>a DEF Receive, handlerVars
<1>8. ASSUME ForkOk \/ PrepareRuns PROVE TypeOK'
  BY <1>8, <1>b DEF ForkOk, PrepareRuns, handlerVars, workerVars
<1>9. ASSUME ForkFails \/ SendResponse PROVE TypeOK'
  BY <1>9, <1>a DEF ForkFails, SendResponse, Respond, E!TypeOK, QueueInv, WorkerHasJob
<1>10. ASSUME WorkerPanics PROVE TypeOK'
  <2>1. pc[Worker] # "idle" => target[Worker] \in Tx
    BY <1>10 DEF WorkerPanics, P!IInv, P!Targeted
  <2>2. E!TypeOK'
    BY <1>10, <2>1 DEF WorkerPanics, E!Return, E!TypeOK, E!Steps
  <2> QED
    BY <1>10, <2>2 DEF WorkerPanics
<1>11. ASSUME StopListening PROVE TypeOK'
  BY <1>11 DEF StopListening, E!StopListening, E!TypeOK, handlerVars, workerVars
<1>12. CASE UNCHANGED vars
  BY <1>12, <1>a DEF vars, engineVars
<1> QED
  BY <1>1, <1>2, <1>3, <1>4, <1>5, <1>6, <1>7, <1>8, <1>9, <1>10, <1>11, <1>12
     DEF Next, HandlerStep, WorkerStep
-----------------------------------------------------------------------------
(* The queue. *)
LEMMA QueueStep == IInv /\ [Next]_vars => QueueInv'
<1> SUFFICES ASSUME IInv, [Next]_vars PROVE QueueInv'
  OBVIOUS
<1> USE DEF IInv, TypeOK, QueueInv
<1>a. ASSUME UNCHANGED workerVars, \A c \in Client : conn'[c] = "queued" <=> conn[c] = "queued"
      PROVE  WorkerHasJob' /\ ChannelIsQueue' /\ QueuedIsSomewhere'
  <2>1. WorkerHasJob'
    BY <1>a DEF workerVars, WorkerHasJob
  <2>2. \A i \in 1..Len(channel) : channel[i] \in Client
    OBVIOUS
  <2>3. ChannelIsQueue'
    BY <1>a, <2>2 DEF workerVars, ChannelIsQueue
  <2>4. QueuedIsSomewhere'
    BY <1>a DEF workerVars, QueuedIsSomewhere, Waiting
  <2> QED
    BY <2>1, <2>3, <2>4
<1>1. ASSUME NEW c \in Client, Disconnect(c) \/ BadRequest(c) PROVE QueueInv'
  BY <1>1, <1>a DEF Disconnect, BadRequest, Requested
<1>2. ASSUME NEW c \in Client, NEW t \in Tx, ReplayRequest(c, t) PROVE QueueInv'
  BY <1>2, <1>a DEF ReplayRequest, Requested
<1>3. ASSUME NEW c \in Client, CountReuse(c) \/ CountPrepared(c) \/ Untrack(c) PROVE QueueInv'
  BY <1>3, <1>a DEF CountReuse, CountPrepared, Untrack, Requested
<1>4. ASSUME NEW c \in Client,
             SendSuccess(c) \/ SendSuccessFails(c) \/ SendError(c) \/ CloseIdle(c)
      PROVE  QueueInv'
  BY <1>4, <1>a DEF SendSuccess, SendSuccessFails, SendError, CloseIdle, Requested
<1>5. ASSUME NEW c \in Client, ShutdownSession(c) PROVE QueueInv'
  BY <1>5, <1>a DEF ShutdownSession, Requested
<1>6. ASSUME NEW c \in Client, Delegate(c) PROVE QueueInv'
  <2>1. job # c /\ ~Waiting(c)
    BY <1>6, NotQueued DEF Delegate
  <2>2. Requested' /\ WorkerHasJob'
    BY <1>6, <2>1 DEF Delegate, Requested, WorkerHasJob
  <2>3. CASE worker = "dead"
    BY <1>6, <1>a, <2>2, <2>3 DEF Delegate, workerVars
  <2>4. CASE worker # "dead"
    <3>0. channel' = Append(channel, c) /\ conn' = [conn EXCEPT ![c] = "queued"]
      BY <1>6, <2>4 DEF Delegate
    <3>1. /\ Len(channel') = Len(channel) + 1
          /\ channel'[Len(channel) + 1] = c
          /\ \A i \in 1..Len(channel) : channel'[i] = channel[i] /\ channel[i] \in Client
      BY <3>0
    <3>2. ChannelIsQueue'
      BY <1>6, <2>1, <2>4, <3>0, <3>1 DEF Delegate, ChannelIsQueue, Waiting
    <3>3. QueuedIsSomewhere'
      <4> SUFFICES ASSUME NEW d \in Client, conn'[d] = "queued" PROVE job' = d \/ Waiting(d)'
        BY DEF QueuedIsSomewhere
      <4>1. CASE d = c
        BY <3>1, <4>1 DEF Waiting
      <4>2. CASE d # c
        BY <1>6, <2>4, <3>1, <4>2 DEF Delegate, QueuedIsSomewhere, Waiting
      <4> QED
        BY <4>1, <4>2
    <3> QED
      BY <2>2, <3>2, <3>3
  <2> QED
    BY <2>3, <2>4
<1>7. ASSUME Receive PROVE QueueInv'
  <2>1. /\ Len(channel) > 0 /\ channel' = Tail(channel) /\ job' = channel[1]
        /\ Len(channel') = Len(channel) - 1
        /\ \A i \in 1..Len(channel') : channel'[i] = channel[i + 1]
        /\ \A i \in 1..Len(channel) : channel[i] \in Client
    BY <1>7 DEF Receive
  <2>2. WorkerHasJob' /\ Requested'
    BY <1>7, <2>1 DEF Receive, handlerVars, WorkerHasJob, ChannelIsQueue, Requested
  <2>3. ChannelIsQueue'
    BY <1>7, <2>1 DEF Receive, handlerVars, ChannelIsQueue
  <2>4. QueuedIsSomewhere'
    <3> SUFFICES ASSUME NEW d \in Client, conn[d] = "queued" PROVE job' = d \/ Waiting(d)'
      BY <1>7 DEF QueuedIsSomewhere, Receive, handlerVars
    <3>1. job = NoClient
      BY <1>7 DEF Receive, WorkerHasJob
    <3>2. PICK i \in 1..Len(channel) : channel[i] = d
      BY <3>1 DEF QueuedIsSomewhere, Waiting
    <3>3. CASE i = 1
      BY <2>1, <3>2, <3>3
    <3>4. CASE i # 1
      <4>1. i - 1 \in 1..Len(channel') /\ channel'[i - 1] = d
        BY <2>1, <3>2, <3>4
      <4> QED
        BY <4>1 DEF Waiting
    <3> QED
      BY <3>3, <3>4
  <2> QED
    BY <2>2, <2>3, <2>4
<1>8. ASSUME ForkOk \/ PrepareRuns PROVE QueueInv'
  <2> USE DEF handlerVars, workerVars, WorkerHasJob, Requested, ChannelIsQueue, QueuedIsSomewhere, Waiting
  <2>1. CASE ForkOk
    BY <2>1 DEF ForkOk
  <2>2. CASE PrepareRuns
    BY <2>2 DEF PrepareRuns
  <2> QED
    BY <1>8, <2>1, <2>2
<1>9. ASSUME ForkFails \/ SendResponse PROVE QueueInv'
  <2>1. /\ job \in Client /\ job' = NoClient /\ channel' = channel /\ worker' = "receiving"
        /\ \A c \in Client \ {job} : conn'[c] = conn[c] /\ txOf'[c] = txOf[c]
        /\ conn'[job] \in {"refused", "prepared"} /\ txOf'[job] = txOf[job]
        /\ conn[job] = "queued"
    BY <1>9 DEF ForkFails, SendResponse, Respond, WorkerHasJob
  <2>2. \A i \in 1..Len(channel) : channel[i] \in Client
    OBVIOUS
  <2>3. WorkerHasJob' /\ Requested'
    BY <2>1 DEF WorkerHasJob, Requested
  <2>4. ChannelIsQueue'
    BY <2>1, <2>2 DEF ChannelIsQueue
  <2>5. QueuedIsSomewhere'
    BY <2>1 DEF QueuedIsSomewhere, Waiting
  <2> QED
    BY <2>3, <2>4, <2>5
<1>10. ASSUME WorkerPanics PROVE QueueInv'
  <2>1. WorkerHasJob' /\ Requested'
    BY <1>10 DEF WorkerPanics, WorkerHasJob, Requested
  <2>2. ChannelIsQueue'
    BY <1>10 DEF WorkerPanics, ChannelIsQueue
  <2>3. QueuedIsSomewhere'
    BY <1>10 DEF WorkerPanics, QueuedIsSomewhere
  <2> QED
    BY <2>1, <2>2, <2>3
<1>11. ASSUME StopListening PROVE QueueInv'
  BY <1>11, <1>a DEF StopListening, handlerVars, Requested
<1>12. CASE UNCHANGED vars
  BY <1>12, <1>a DEF vars, workerVars, Requested
<1> QED
  BY <1>1, <1>2, <1>3, <1>4, <1>5, <1>6, <1>7, <1>8, <1>9, <1>10, <1>11, <1>12
     DEF Next, HandlerStep, WorkerStep

-----------------------------------------------------------------------------
(* The sessions. *)

(* A handler's step that leaves the engine, the worker and the transactions
   of the others alone keeps what the worker knows of its job. *)
LEMMA JobKept ==
  ASSUME IInv, [Next]_vars, UNCHANGED <<engineVars, workerVars>>,
         worker = "preparing" => txOf'[job] = txOf[job]
  PROVE  PreparesItsJob' /\ AnswerStands'
<1> USE DEF IInv, SessionInv, engineVars, workerVars
<1>1. PreparesItsJob'
  BY DEF PreparesItsJob
<1>2. AnswerStands'
  <2>1. SUFFICES ASSUME Responding, answer[Worker] # NoPort PROVE AnswerStands'
    BY DEF AnswerStands, Responding
  <2>2. txOf[job] \in Tx
    BY <2>1 DEF Responding, QueueInv, WorkerHasJob, Requested
  <2>3. ClosedOn(txOf[job]) =>
          \E c \in Client : txOf'[c] = txOf[job] /\ conn'[c] \in {"closing", "gone"}
    BY <2>2, ClosedStays
  <2> QED
    BY <2>1, <2>3 DEF AnswerStands, Responding, ClosedOn
<1> QED
  BY <1>1, <1>2

LEMMA SessionStep == IInv /\ [Next]_vars => SessionInv'
<1> SUFFICES ASSUME IInv, [Next]_vars PROVE SessionInv'
  OBVIOUS
<1> USE DEF IInv, TypeOK, SessionInv
<1>j. \A c \in Client : conn[c] # "queued" => job # c
  BY NotQueued
<1>t. worker = "preparing" => job \in Client /\ txOf[job] \in Tx
  BY DEF QueueInv, WorkerHasJob, Requested
<1>c. \A t \in Tx :
         ClosedOn(t) => \E c \in Client : txOf'[c] = t /\ conn'[c] \in {"closing", "gone"}
  BY ClosedStays
<1>p. ASSUME UNCHANGED handles,
             \A c \in Client : HasPort(c)' /\ ~ClosedOn(txOf[c])' =>
                txOf'[c] \in Tx /\ \/ HasPort(c) /\ txOf'[c] = txOf[c] /\ portOf'[c] = portOf[c]
                                   \/ portOf'[c] # NoPort /\ portOf'[c] = handles[txOf'[c]]
      PROVE  PortIsPublished'
  <2> SUFFICES ASSUME NEW c \in Client, HasPort(c)', ~ClosedOn(txOf[c])'
               PROVE  portOf'[c] # NoPort /\ portOf'[c] = handles'[txOf'[c]]
    BY DEF PortIsPublished
  <2>1. /\ txOf'[c] \in Tx
        /\ \/ HasPort(c) /\ txOf'[c] = txOf[c] /\ portOf'[c] = portOf[c]
           \/ portOf'[c] # NoPort /\ portOf'[c] = handles[txOf'[c]]
    BY <1>p
  <2>2. ~\E d \in Client : txOf'[d] = txOf'[c] /\ conn'[d] \in {"closing", "gone"}
    BY DEF ClosedOn
  <2>3. CASE HasPort(c) /\ txOf'[c] = txOf[c] /\ portOf'[c] = portOf[c]
    <3>1. ~ClosedOn(txOf[c])
      BY <1>c, <2>1, <2>2, <2>3
    <3> QED
      BY <1>p, <2>3, <3>1 DEF PortIsPublished
  <2>4. CASE portOf'[c] # NoPort /\ portOf'[c] = handles[txOf'[c]]
    BY <1>p, <2>4
  <2> QED
    BY <2>1, <2>3, <2>4
<1>1. ASSUME NEW c \in Client, Disconnect(c) \/ BadRequest(c) PROVE SessionInv'
  <2>1. PreparesItsJob' /\ AnswerStands'
    BY <1>1, JobKept DEF Disconnect, BadRequest, engineVars, workerVars
  <2>2. PublishedIsOwned'
    BY <1>1 DEF Disconnect, BadRequest, engineVars, workerVars, PublishedIsOwned, Owned, Responding
  <2>3. PortIsPublished'
    BY <1>1, <1>p DEF Disconnect, BadRequest, engineVars, workerVars, HasPort, QueueInv, Requested
  <2> QED
    BY <2>1, <2>2, <2>3
<1>2. ASSUME NEW c \in Client, NEW t \in Tx, ReplayRequest(c, t) PROVE SessionInv'
  <2>1. PreparesItsJob' /\ AnswerStands'
    BY <1>2, <1>j, JobKept DEF ReplayRequest
  <2>2. PublishedIsOwned'
    BY <1>2, <1>j DEF ReplayRequest, engineVars, workerVars, PublishedIsOwned, Owned, Responding
  <2>3. PortIsPublished'
    BY <1>2, <1>p DEF ReplayRequest, engineVars, workerVars, HasPort, QueueInv, Requested
  <2> QED
    BY <2>1, <2>2, <2>3
<1>3. ASSUME NEW c \in Client, CountReuse(c) PROVE SessionInv'
  <2>1. PreparesItsJob' /\ AnswerStands'
    BY <1>3, JobKept DEF CountReuse
  <2>2. PublishedIsOwned'
    BY <1>3 DEF CountReuse, engineVars, workerVars, PublishedIsOwned, Owned, Responding
  <2>3. PortIsPublished'
    BY <1>3, <1>p DEF CountReuse, engineVars, workerVars, HasPort, QueueInv, Requested
  <2> QED
    BY <2>1, <2>2, <2>3
<1>4. ASSUME NEW c \in Client, Delegate(c) PROVE SessionInv'
  <2>1. PreparesItsJob' /\ AnswerStands'
    BY <1>4, <1>c, <1>t DEF Delegate, engineVars, PreparesItsJob, AnswerStands, Responding, ClosedOn
  <2>2. PublishedIsOwned'
    BY <1>4 DEF Delegate, engineVars, PublishedIsOwned, Owned, Responding
  <2>3. PortIsPublished'
    BY <1>4, <1>p DEF Delegate, engineVars, HasPort, QueueInv, Requested
  <2> QED
    BY <2>1, <2>2, <2>3
<1>5. ASSUME NEW c \in Client, CountPrepared(c) PROVE SessionInv'
  <2>1. PreparesItsJob' /\ AnswerStands'
    BY <1>5, JobKept DEF CountPrepared
  <2>2. PublishedIsOwned'
    BY <1>5 DEF CountPrepared, engineVars, workerVars, PublishedIsOwned, Owned, Responding
  <2>3. PortIsPublished'
    BY <1>5, <1>p DEF CountPrepared, engineVars, workerVars, HasPort, QueueInv, Requested
  <2> QED
    BY <2>1, <2>2, <2>3
<1>6. ASSUME NEW c \in Client, SendSuccess(c) \/ SendSuccessFails(c) \/ CloseIdle(c)
      PROVE  SessionInv'
  <2> USE DEF SendSuccess, SendSuccessFails, CloseIdle
  <2>1. PreparesItsJob' /\ AnswerStands'
    BY <1>6, JobKept
  <2>2. PublishedIsOwned'
    BY <1>6 DEF engineVars, workerVars, PublishedIsOwned, Owned, Responding
  <2>3. PortIsPublished'
    BY <1>6, <1>p DEF engineVars, workerVars, HasPort, QueueInv, Requested
  <2> QED
    BY <2>1, <2>2, <2>3
<1>7. ASSUME NEW c \in Client, SendError(c) PROVE SessionInv'
  <2>1. PreparesItsJob' /\ AnswerStands'
    BY <1>7, <1>j, JobKept DEF SendError
  <2>2. PublishedIsOwned'
    BY <1>7, <1>j DEF SendError, engineVars, workerVars, PublishedIsOwned, Owned, Responding
  <2>3. PortIsPublished'
    BY <1>7, <1>p DEF SendError, engineVars, workerVars, HasPort, QueueInv, Requested
  <2> QED
    BY <2>1, <2>2, <2>3
<1>8. ASSUME NEW c \in Client, Untrack(c) PROVE SessionInv'
  <2>1. PreparesItsJob' /\ AnswerStands'
    BY <1>8, JobKept DEF Untrack
  <2>2. PublishedIsOwned'
    BY <1>8 DEF Untrack, engineVars, workerVars, PublishedIsOwned, Owned, Responding, QueueInv, Requested
  <2>3. PortIsPublished'
    BY <1>8, <1>p DEF Untrack, engineVars, workerVars, HasPort, QueueInv, Requested
  <2> QED
    BY <2>1, <2>2, <2>3
<1>9. ASSUME NEW c \in Client, ShutdownSession(c) PROVE SessionInv'
  <2>1. /\ txOf[c] \in Tx /\ ClosedOn(txOf[c])
        /\ handles' = [handles EXCEPT ![txOf[c]] = NoPort]
        /\ UNCHANGED <<pc, target, answer, txOf, portOf, active_connections, job, worker>>
        /\ conn' = [conn EXCEPT ![c] = "gone"]
    BY <1>9 DEF ShutdownSession, E!ShutdownRpcServer, E!TypeOK, engineVars, workerVars,
       QueueInv, Requested, ClosedOn
  <2>2. PreparesItsJob'
    BY <2>1 DEF PreparesItsJob
  <2>3. AnswerStands'
    BY <1>c, <1>t, <2>1 DEF AnswerStands, Responding, ClosedOn, E!TypeOK
  <2>4. PublishedIsOwned'
    BY <2>1 DEF PublishedIsOwned, Owned, Responding, E!TypeOK
  <2>5. PortIsPublished'
    <3> SUFFICES ASSUME NEW d \in Client, HasPort(d)', ~ClosedOn(txOf[d])'
                 PROVE  portOf'[d] # NoPort /\ portOf'[d] = handles'[txOf'[d]]
      BY DEF PortIsPublished
    <3>1. HasPort(d) /\ txOf[d] \in Tx /\ ~ClosedOn(txOf[d])
      BY <1>c, <2>1 DEF HasPort, ClosedOn, QueueInv, Requested
    <3> QED
      BY <2>1, <3>1 DEF PortIsPublished, E!TypeOK
  <2> QED
    BY <2>2, <2>3, <2>4, <2>5
<1>10. ASSUME Receive PROVE SessionInv'
  <2>1. PreparesItsJob'
    BY <1>10 DEF Receive, engineVars, PreparesItsJob
  <2>2. AnswerStands' /\ PublishedIsOwned'
    BY <1>10 DEF Receive, engineVars, handlerVars, AnswerStands, PublishedIsOwned, Owned, Responding
  <2>3. PortIsPublished'
    BY <1>10, <1>p DEF Receive, engineVars, handlerVars, HasPort, QueueInv, Requested
  <2> QED
    BY <2>1, <2>2, <2>3
<1>11. ASSUME ForkOk PROVE SessionInv'
  <2>1. /\ pc'[Worker] = "waiting" /\ target'[Worker] = txOf[job] /\ handles' = handles
        /\ worker = "forking" /\ worker' = "preparing"
        /\ UNCHANGED <<conn, txOf, portOf, active_connections, job>>
    BY <1>11 DEF ForkOk, E!Prepare, E!TypeOK, handlerVars
  <2>2. PreparesItsJob' /\ AnswerStands'
    BY <2>1 DEF PreparesItsJob, AnswerStands, Responding
  <2>3. PublishedIsOwned'
    BY <2>1 DEF PublishedIsOwned, Owned, Responding
  <2>4. PortIsPublished'
    BY <2>1, <1>p DEF HasPort, QueueInv, Requested
  <2> QED
    BY <2>2, <2>3, <2>4
<1>12. ASSUME PrepareRuns PROVE SessionInv'
  <2>1. /\ worker = "preparing" /\ worker' = "preparing"
        /\ UNCHANGED <<conn, txOf, portOf, active_connections, job>>
    BY <1>12 DEF PrepareRuns, handlerVars, workerVars
  <2>2. PreparesItsJob' /\ AnswerStands'
    BY <1>12, <2>1, PrepareRunsDoes DEF PreparesItsJob, AnswerStands, Responding
  <2>3. PublishedIsOwned'
    <3> SUFFICES ASSUME NEW t \in Tx, handles'[t] # NoPort PROVE Owned(t)'
      BY DEF PublishedIsOwned
    <3>1. CASE Owned(t)
      BY <1>12, <2>1, <3>1, PrepareRunsDoes DEF Owned, Responding
    <3>2. CASE ~Owned(t)
      <4>1. t = txOf[job] /\ pc'[Worker] = "idle" /\ handles'[t] = answer'[Worker]
        BY <1>12, <3>2, PrepareRunsDoes DEF PublishedIsOwned
      <4> QED
        BY <2>1, <4>1 DEF Owned, Responding
    <3> QED
      BY <3>1, <3>2
  <2>4. PortIsPublished'
    <3> SUFFICES ASSUME NEW c \in Client, HasPort(c)', ~ClosedOn(txOf[c])'
                 PROVE  portOf'[c] # NoPort /\ portOf'[c] = handles'[txOf'[c]]
      BY DEF PortIsPublished
    <3>1. HasPort(c) /\ txOf[c] \in Tx /\ ~ClosedOn(txOf[c])
      BY <2>1 DEF HasPort, ClosedOn, QueueInv, Requested
    <3>2. portOf[c] # NoPort /\ portOf[c] = handles[txOf[c]]
      BY <3>1 DEF PortIsPublished
    <3>3. handles'[txOf[c]] = handles[txOf[c]]
      BY <1>12, <3>1, <3>2, PrepareRunsDoes
    <3> QED
      BY <2>1, <3>2, <3>3
  <2> QED
    BY <2>2, <2>3, <2>4
<1>13. ASSUME NEW p \in Port \union {NoPort}, Respond(job, p), job \in Client,
              UNCHANGED engineVars, worker' = "receiving",
              p = NoPort => ~Responding \/ answer[Worker] = NoPort,
              p # NoPort => Responding /\ answer[Worker] = p,
              pc[Worker] = "idle"
       PROVE  SessionInv'
  <2>1. /\ conn' = [conn EXCEPT ![job] = IF p = NoPort THEN "refused" ELSE "prepared"]
        /\ portOf' = [portOf EXCEPT ![job] = p]
        /\ UNCHANGED <<handles, answer, pc, target, txOf, active_connections>>
    BY <1>13 DEF Respond, engineVars
  <2>2. PreparesItsJob' /\ AnswerStands'
    BY <1>13, <2>1 DEF PreparesItsJob, AnswerStands, Responding
  <2>3. conn[job] = "queued"
    BY <1>13 DEF QueueInv, WorkerHasJob
  <2>4. PublishedIsOwned'
    <3> SUFFICES ASSUME NEW t \in Tx, handles[t] # NoPort PROVE Owned(t)'
      BY <2>1 DEF PublishedIsOwned
    <3>1. CASE active_connections[t] > 0
      BY <2>1, <3>1 DEF Owned
    <3>2. CASE \E c \in Client : txOf[c] = t /\ conn[c] \in {"prepared", "closing"}
      BY <2>1, <2>3, <3>2 DEF Owned
    <3>3. CASE Responding /\ txOf[job] = t /\ answer[Worker] = handles[t]
      BY <1>13, <2>1, <3>3 DEF Owned
    <3> QED
      BY <3>1, <3>2, <3>3 DEF PublishedIsOwned, Owned
  <2>5. PortIsPublished'
    <3> SUFFICES ASSUME NEW c \in Client, HasPort(c)', ~ClosedOn(txOf[c])'
                 PROVE  portOf'[c] # NoPort /\ portOf'[c] = handles'[txOf'[c]]
      BY DEF PortIsPublished
    <3>1. CASE c = job
      <4>1. p # NoPort /\ Responding /\ answer[Worker] = p
        BY <1>13, <2>1, <3>1 DEF HasPort
      <4>2. txOf[c] \in Tx /\ ~ClosedOn(txOf[c])
        BY <1>c, <1>t, <2>1, <3>1, <4>1 DEF Responding, ClosedOn
      <4>3. handles[txOf[c]] = p
        BY <3>1, <4>1, <4>2 DEF AnswerStands
      <4> QED
        BY <2>1, <3>1, <4>1, <4>3
    <3>2. CASE c # job
      <4>1. HasPort(c) /\ portOf'[c] = portOf[c] /\ txOf'[c] = txOf[c]
        BY <2>1, <3>2 DEF HasPort
      <4>2. txOf[c] \in Tx
        BY <4>1 DEF HasPort, QueueInv, Requested
      <4>3. ~ClosedOn(txOf[c])
        BY <1>c, <4>1, <4>2 DEF ClosedOn
      <4> QED
        BY <2>1, <4>1, <4>3 DEF PortIsPublished
    <3> QED
      BY <3>1, <3>2
  <2> QED
    BY <2>2, <2>4, <2>5
<1>14. ASSUME ForkFails PROVE SessionInv'
  <2>1. job \in Client /\ pc[Worker] = "idle" /\ ~Responding
    BY <1>14 DEF ForkFails, QueueInv, WorkerHasJob, PreparesItsJob, Responding, E!TypeOK
  <2> QED
    BY <1>13, <1>14, <2>1 DEF ForkFails
<1>15. ASSUME SendResponse PROVE SessionInv'
  <2>1. job \in Client /\ Responding /\ answer[Worker] \in Port \union {NoPort}
    BY <1>15, <1>t DEF SendResponse, Responding, E!TypeOK
  <2> QED
    BY <1>13, <1>15, <2>1 DEF SendResponse, Responding
<1>16. ASSUME WorkerPanics PROVE SessionInv'
  <2>1. /\ worker' = "dead" /\ pc'[Worker] = "idle" /\ ~Responding
        /\ UNCHANGED <<handles, txOf, portOf, active_connections>>
    BY <1>16 DEF WorkerPanics, E!Return, E!TypeOK, PreparesItsJob, Responding
  <2>2. \A c \in Client : conn'[c] = conn[c] \/ (conn[c] = "queued" /\ conn'[c] = "refused")
    BY <1>16, NotQueued DEF WorkerPanics
  <2>3. PreparesItsJob' /\ AnswerStands'
    BY <2>1 DEF PreparesItsJob, AnswerStands, Responding
  <2>4. PublishedIsOwned'
    BY <2>1, <2>2 DEF PublishedIsOwned, Owned
  <2>5. PortIsPublished'
    BY <1>p, <2>1, <2>2 DEF HasPort, QueueInv, Requested
  <2> QED
    BY <2>3, <2>4, <2>5
<1>17. ASSUME StopListening PROVE SessionInv'
  <2>1. UNCHANGED <<pc, target, answer, handles, conn, txOf, portOf, active_connections, job, worker>>
    BY <1>17 DEF StopListening, E!StopListening, handlerVars, workerVars
  <2> QED
    BY <2>1 DEF PreparesItsJob, AnswerStands, PublishedIsOwned, PortIsPublished, Owned,
       Responding, HasPort, ClosedOn
<1>18. CASE UNCHANGED vars
  BY <1>18 DEF vars, PreparesItsJob, AnswerStands, PublishedIsOwned, PortIsPublished,
     Owned, Responding, HasPort, ClosedOn
<1> QED
  BY <1>1, <1>2, <1>3, <1>4, <1>5, <1>6, <1>7, <1>8, <1>9, <1>10, <1>11, <1>12, <1>14,
     <1>15, <1>16, <1>17, <1>18 DEF Next, HandlerStep, WorkerStep
-----------------------------------------------------------------------------
LEMMA InvInit == Init => IInv
<1> SUFFICES ASSUME Init PROVE IInv
  OBVIOUS
<1>1. P!IInv
  <2>1. P!Init
    BY DEF Init, E!Init, P!Init
  <2> QED
    BY <2>1, P!InvInit
<1>2. TypeOK
  BY DEF Init, E!Init, TypeOK, ConnStates, E!TypeOK, E!Steps
<1>3. QueueInv
  BY DEF Init, QueueInv, WorkerHasJob, Requested, ChannelIsQueue, QueuedIsSomewhere
<1>4. SessionInv
  BY DEF Init, E!Init, SessionInv, PreparesItsJob, AnswerStands, Responding,
     PublishedIsOwned, PortIsPublished, HasPort
<1> QED
  BY <1>1, <1>2, <1>3, <1>4 DEF IInv

LEMMA InvStep == IInv /\ [Next]_vars => IInv'
  BY TypeStep, QueueStep, SessionStep, EngineInvStep DEF IInv

(* The inductive invariant holds in every behaviour. *)
THEOREM Invariance == Spec => []IInv
  BY InvInit, InvStep, PTL DEF Spec

(* The state of the server keeps its types. *)
THEOREM TypeCorrect == Spec => []TypeOK
  BY Invariance, PTL DEF IInv

(* A queue without repetitions holds a request at one place at most. *)
LEMMA PendingOnce ==
  ASSUME IInv, NEW c \in Client
  PROVE  IF conn[c] = "queued" THEN worker # "dead" /\ Cardinality(Pending(c)) = 1
                               ELSE Pending(c) = {}
<1> USE DEF IInv, TypeOK, QueueInv
<1>1. CASE conn[c] # "queued"
  BY <1>1, NotQueued DEF Pending, Waiting
<1>2. CASE conn[c] = "queued"
  <2>1. job = c \/ Waiting(c)
    BY <1>2 DEF QueuedIsSomewhere
  <2>2. worker # "dead"
    BY <2>1 DEF WorkerHasJob, ChannelIsQueue, Waiting
  <2>3. \E i : Pending(c) = {i}
    <3>1. CASE job = c
      <4>1. Pending(c) = {0}
        BY <3>1 DEF Pending, ChannelIsQueue
      <4> QED
        BY <4>1
    <3>2. CASE job # c
      <4>1. PICK i \in 1..Len(channel) : channel[i] = c
        BY <2>1, <3>2 DEF Waiting
      <4>2. Pending(c) = {i}
        BY <3>2, <4>1 DEF Pending, ChannelIsQueue
      <4> QED
        BY <4>2
    <3> QED
      BY <3>1, <3>2
  <2> QED
    BY <1>2, <2>2, <2>3, FS_Singleton
<1> QED
  BY <1>1, <1>2

(* Whatever interleaves and whatever fails (server.rs:183-330): no debug server
   is left without an owner that will shut it down, and no handler waits for a
   request that is nowhere, or twice. *)
THEOREM NobodyStranded == Spec => []NothingStranded
<1>1. IInv => ServerOwned
  <2> SUFFICES ASSUME IInv, NEW t \in Tx, handles[t] # NoPort
               PROVE  \/ active_connections[t] > 0
                      \/ \E c \in Client : /\ txOf[c] = t
                                           /\ conn[c] \in {"prepared", "closing"} \/ job = c
    BY DEF ServerOwned
  <2>1. Responding => job \in Client
    BY DEF IInv, QueueInv, WorkerHasJob, Responding
  <2> QED
    BY <2>1 DEF IInv, SessionInv, PublishedIsOwned, Owned
<1>2. IInv => QueuedIsPending
  BY PendingOnce DEF QueuedIsPending
<1> QED
  BY <1>1, <1>2, Invariance, PTL DEF NothingStranded

(* While the worker lives and no connection of its transaction has closed, a
   client that was given a port finds its own transaction's server there, and
   that server was not told to stop. *)
THEOREM ClientsAreServed == Spec => []ServedUntilAClose
<1>1. IInv => ServedUntilAClose
  <2> SUFFICES ASSUME IInv, worker # "dead", NEW c \in Client, HasPort(c), ~ClosedOn(txOf[c])
               PROVE  /\ portOf[c] = handles[txOf[c]]
                      /\ serving[portOf[c]] = txOf[c]
                      /\ portOf[c] \notin draining
    BY DEF ServedUntilAClose
  <2>1. portOf[c] # NoPort /\ portOf[c] = handles[txOf[c]] /\ txOf[c] \in Tx
    BY DEF IInv, SessionInv, PortIsPublished, QueueInv, Requested, HasPort
  <2> QED
    BY <2>1 DEF IInv, P!IInv, P!PublishedIsServed, P!Published
<1> QED
  BY <1>1, Invariance, PTL

-----------------------------------------------------------------------------
(* The counts. *)

(* CountsConnections for one transaction, whose counted connections are
   finitely many: each was counted by a step of its own. *)
CountHolds(n, S, t) ==
  IsFiniteSet(S) /\ n <= Cardinality(S) /\ (t \in recounted \/ n = Cardinality(S))

CountInv == \A t \in Tx : CountHolds(active_connections[t], Counted(t), t)

(* A step that counts no connection and gives none back. *)
LEMMA CountKept ==
  ASSUME CountInv, UNCHANGED counts,
         \A c \in Client :
            /\ conn'[c] \in {"replying", "tracking", "lost"}
                 <=> conn[c] \in {"replying", "tracking", "lost"}
            /\ conn[c] \in {"replying", "tracking", "lost"} => txOf'[c] = txOf[c]
  PROVE  CountInv'
<1>1. \A t \in Tx : Counted(t)' = Counted(t)
  BY DEF Counted
<1> QED
  BY <1>1 DEF CountInv, CountHolds

(* A step that counts connection c, and sets the count of its transaction to
   n: one more than before, or one where that is less. *)
LEMMA CountOneMore ==
  ASSUME TypeOK, CountInv, NEW c \in Client, txOf[c] \in Tx, NEW n \in Nat,
         conn[c] \in {"reusing", "prepared"},
         conn' = [conn EXCEPT ![c] = "replying"], txOf' = txOf,
         active_connections' = [active_connections EXCEPT ![txOf[c]] = n],
         n <= active_connections[txOf[c]] + 1,
         recounted \subseteq recounted',
         txOf[c] \in recounted' \/ n = active_connections[txOf[c]] + 1
  PROVE  CountInv'
<1> SUFFICES ASSUME NEW t \in Tx PROVE CountHolds(active_connections[t], Counted(t), t)'
  BY DEF CountInv
<1>1. CountHolds(active_connections[t], Counted(t), t)
  BY DEF CountInv
<1>2. active_connections[t] \in Nat /\ active_connections[txOf[c]] \in Nat
  BY DEF TypeOK
<1>3. CASE t # txOf[c]
  <2>1. Counted(t)' = Counted(t) /\ active_connections'[t] = active_connections[t]
    BY <1>3 DEF Counted, TypeOK
  <2> QED
    BY <1>1, <2>1 DEF CountHolds
<1>4. CASE t = txOf[c]
  <2>1. Counted(t)' = Counted(t) \union {c} /\ c \notin Counted(t)
    BY <1>4 DEF Counted, TypeOK
  <2>2. /\ IsFiniteSet(Counted(t)')
        /\ Cardinality(Counted(t)') = Cardinality(Counted(t)) + 1
        /\ Cardinality(Counted(t)) \in Nat
    BY <1>1, <2>1, FS_AddElement, FS_CardinalityType DEF CountHolds
  <2>3. active_connections'[t] = n
    BY <1>4 DEF TypeOK
  <2> QED
    BY <1>1, <1>2, <1>4, <2>2, <2>3 DEF CountHolds
<1> QED
  BY <1>3, <1>4

(* A close gives back one connection, and one of the count if there is any. *)
LEMMA CountOneLess ==
  ASSUME TypeOK, CountInv, NEW c \in Client, txOf[c] \in Tx, Untrack(c)
  PROVE  CountInv'
<1> SUFFICES ASSUME NEW t \in Tx PROVE CountHolds(active_connections[t], Counted(t), t)'
  BY DEF CountInv
<1>1. CountHolds(active_connections[t], Counted(t), t)
  BY DEF CountInv
<1>2. active_connections[t] \in Nat
  BY DEF TypeOK
<1>3. /\ txOf' = txOf /\ recounted' = recounted /\ conn[c] = "tracking"
      /\ conn'[c] \in {"closing", "gone"} /\ \A d \in Client \ {c} : conn'[d] = conn[d]
  BY DEF Untrack, TypeOK
<1>4. CASE t # txOf[c]
  <2>1. Counted(t)' = Counted(t)
    BY <1>3, <1>4 DEF Counted
  <2>2. active_connections'[t] = active_connections[t]
    BY <1>4 DEF Untrack, TypeOK
  <2> QED
    BY <1>1, <1>3, <2>1, <2>2 DEF CountHolds
<1>5. CASE t = txOf[c]
  <2>1. Counted(t)' = Counted(t) \ {c} /\ c \in Counted(t)
    BY <1>3, <1>5 DEF Counted
  <2>2. /\ IsFiniteSet(Counted(t)')
        /\ Cardinality(Counted(t)') = Cardinality(Counted(t)) - 1
        /\ Cardinality(Counted(t)) \in Nat /\ Cardinality(Counted(t)') \in Nat
    BY <1>1, <2>1, FS_RemoveElement, FS_CardinalityType DEF CountHolds
  <2>3. active_connections'[t] = IF active_connections[t] = 0 THEN 0
                                 ELSE active_connections[t] - 1
    BY <1>5 DEF Untrack, TypeOK
  <2> QED
    BY <1>1, <1>2, <1>3, <2>2, <2>3 DEF CountHolds
<1> QED
  BY <1>4, <1>5

LEMMA CountStep == IInv /\ CountInv /\ [Next]_vars => CountInv'
<1> SUFFICES ASSUME IInv, CountInv, [Next]_vars PROVE CountInv'
  OBVIOUS
<1> USE DEF engineVars, handlerVars, workerVars
<1>t. TypeOK /\ QueueInv
  BY DEF IInv
<1>1. ASSUME NEW c \in Client, CountReuse(c) PROVE CountInv'
  <2>1. txOf[c] \in Tx /\ active_connections[txOf[c]] + 1 \in Nat
    BY <1>1, <1>t DEF CountReuse, QueueInv, Requested, TypeOK
  <2>2. /\ conn[c] = "reusing" /\ conn' = [conn EXCEPT ![c] = "replying"] /\ txOf' = txOf
        /\ active_connections' =
             [active_connections EXCEPT ![txOf[c]] = active_connections[txOf[c]] + 1]
        /\ recounted' = recounted
    BY <1>1 DEF CountReuse
  <2>3. active_connections[txOf[c]] + 1 <= active_connections[txOf[c]] + 1
    BY <2>1
  <2> QED
    BY <1>t, <2>1, <2>2, <2>3, CountOneMore
<1>2. ASSUME NEW c \in Client, CountPrepared(c) PROVE CountInv'
  <2>1. txOf[c] \in Tx /\ active_connections[txOf[c]] \in Nat
    BY <1>2, <1>t DEF CountPrepared, QueueInv, Requested, TypeOK
  <2>2. /\ 1 <= active_connections[txOf[c]] + 1 /\ recounted \subseteq recounted'
        /\ txOf[c] \in recounted' \/ 1 = active_connections[txOf[c]] + 1
    BY <1>2, <2>1 DEF CountPrepared
  <2>3. /\ conn[c] = "prepared" /\ conn' = [conn EXCEPT ![c] = "replying"] /\ txOf' = txOf
        /\ active_connections' = [active_connections EXCEPT ![txOf[c]] = 1]
    BY <1>2 DEF CountPrepared
  <2> QED
    BY <1>t, <2>1, <2>2, <2>3, CountOneMore
<1>3. ASSUME NEW c \in Client, Untrack(c) PROVE CountInv'
  <2>1. txOf[c] \in Tx
    BY <1>3, <1>t DEF Untrack, QueueInv, Requested
  <2> QED
    BY <1>3, <1>t, <2>1, CountOneLess
<1>4. ASSUME NEW c \in Client,
             \/ Disconnect(c) \/ BadRequest(c) \/ Delegate(c) \/ SendSuccess(c)
             \/ SendSuccessFails(c) \/ SendError(c) \/ CloseIdle(c) \/ ShutdownSession(c)
      PROVE  CountInv'
  BY <1>4, <1>t, CountKept DEF Disconnect, BadRequest, Delegate, SendSuccess,
     SendSuccessFails, SendError, CloseIdle, ShutdownSession, TypeOK
<1>5. ASSUME NEW c \in Client, NEW t \in Tx, ReplayRequest(c, t) PROVE CountInv'
  BY <1>5, <1>t, CountKept DEF ReplayRequest, TypeOK
<1>6. ASSUME WorkerStep PROVE CountInv'
  <2>1. worker = "receiving" \/ (job \in Client /\ conn[job] = "queued")
    BY <1>6, <1>t DEF WorkerStep, Receive, ForkOk, ForkFails, PrepareRuns, SendResponse,
       QueueInv, WorkerHasJob
  <2> QED
    BY <1>6, <1>t, <2>1, CountKept DEF WorkerStep, Receive, ForkOk, ForkFails, PrepareRuns,
       SendResponse, Respond, TypeOK
<1>7. ASSUME WorkerPanics PROVE CountInv'
  <2>1. \A c \in Client : conn'[c] = conn[c] \/ (conn[c] = "queued" /\ conn'[c] = "refused")
    BY <1>7, NotQueued DEF WorkerPanics
  <2> QED
    BY <1>7, <2>1, CountKept DEF WorkerPanics
<1>8. ASSUME StopListening \/ UNCHANGED vars PROVE CountInv'
  BY <1>8, CountKept DEF StopListening, vars
<1> QED
  BY <1>1, <1>2, <1>3, <1>4, <1>5, <1>6, <1>7, <1>8 DEF Next, HandlerStep

(* The count of a transaction is the number of its counted connections, and
   less only once two of its handlers have both come back from the worker:
   for any number of connections, whatever interleaves and whatever fails. *)
THEOREM ConnectionsAreCounted == Spec => []CountsConnections
<1>1. Init => CountInv
  <2> SUFFICES ASSUME Init, NEW t \in Tx PROVE CountHolds(active_connections[t], Counted(t), t)
    BY DEF CountInv
  <2>1. Counted(t) = {} /\ active_connections[t] = 0
    BY DEF Init, Counted
  <2> QED
    BY <2>1, FS_EmptySet DEF CountHolds
<1>2. CountInv => CountsConnections
  BY DEF CountInv, CountHolds, CountsConnections
<1> QED
  BY <1>1, <1>2, CountStep, Invariance, PTL DEF Spec
=============================================================================
