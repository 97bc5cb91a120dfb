----------------------------- MODULE EdbServer -----------------------------
(***************************************************************************)
(* edb's WebSocket server mode, crates/edb/src/cmd/server.rs: one handler  *)
(* task per connection (handle_socket), the connection count per           *)
(* transaction (active_connections), the channel to the single worker      *)
(* thread, and that worker calling Engine::prepare.  Engine is the module  *)
(* of the same name, with the worker as the only caller of prepare and the *)
(* handlers as the callers of shutdown_rpc_server.                         *)
(*                                                                         *)
(* A handler holds the mutex of active_connections only within a step, and *)
(* every await of the handler separates two steps.                         *)
(***************************************************************************)
EXTENDS Naturals, Sequences, FiniteSets

CONSTANTS Client,    \* WebSocket connections, each opened once
          Tx, Port,
          Worker,    \* the worker thread
          NoClient, NoCaller, NoTx, NoPort,
          Unwinds    \* TRUE in builds whose panics unwind (Cargo.toml, dev
                     \* profile): a panic then ends the worker thread only

ASSUME ClientAssumption == NoClient \notin Client
ASSUME TxAssumption == NoTx \notin Tx
ASSUME PortAssumption == NoPort \notin Port
ASSUME WorkerAssumption == Worker # NoCaller
ASSUME UnwindsAssumption == Unwinds \in BOOLEAN

VARIABLES
  pc, target, picked, answer, in_flight, handles, serving, draining,
              \* the engine's state, see Engine
  conn,       \* conn[c]: where the handler task of connection c stands
  peer,       \* peer[c]: TRUE while the client keeps its end open
  txOf,       \* txOf[c]: the transaction of the request being handled
  portOf,     \* portOf[c]: the rpc_port of the answer, NoPort before
  active_connections,  \* the count per transaction, 0 for an absent entry
  recounted,  \* history: transactions whose count CountPrepared wrote over
  channel,    \* the connections whose request waits for the worker
  job,        \* the connection whose request the worker handles
  worker      \* what the worker thread does

engineVars == <<pc, target, picked, answer, in_flight, handles, serving, draining>>
counts == <<active_connections, recounted>>
handlerVars == <<conn, peer, txOf, portOf, counts>>
workerVars == <<channel, job, worker>>
vars == <<pc, target, picked, answer, in_flight, handles, serving, draining,
          conn, peer, txOf, portOf, active_connections, recounted, channel, job, worker>>

E == INSTANCE Engine WITH Caller <- {Worker}

(* "reusing" and "delegating" are the two branches of handle_replay_request
   after its look at server_handles; "queued" awaits the worker's answer and
   "prepared" has it; "replying" and "refused" are about to send; "lost" is a
   counted connection whose answer could not be sent. *)
ConnStates == {"idle", "reusing", "delegating", "queued", "prepared",
               "replying", "refused", "tracking", "closing", "gone", "lost"}

TypeOK ==
  /\ E!TypeOK
  /\ conn \in [Client -> ConnStates]
  /\ peer \in [Client -> BOOLEAN]
  /\ txOf \in [Client -> Tx \union {NoTx}]
  /\ portOf \in [Client -> Port \union {NoPort}]
  /\ active_connections \in [Tx -> Nat]
  /\ recounted \subseteq Tx
  /\ channel \in Seq(Client)
  /\ job \in Client \union {NoClient}
  /\ worker \in {"receiving", "forking", "preparing", "dead"}

Init ==
  /\ E!Init
  /\ conn = [c \in Client |-> "idle"]
  /\ peer = [c \in Client |-> TRUE]
  /\ txOf = [c \in Client |-> NoTx]
  /\ portOf = [c \in Client |-> NoPort]
  /\ active_connections = [t \in Tx |-> 0]
  /\ recounted = {}
  /\ channel = <<>>
  /\ job = NoClient
  /\ worker = "receiving"
-----------------------------------------------------------------------------
(* The handler of connection c. *)

(* The client may go away at any moment; its handler learns of it only when
   it reads from the socket or fails to write to it. *)
Disconnect(c) ==
  /\ peer[c]
  /\ peer' = [peer EXCEPT ![c] = FALSE]
  /\ UNCHANGED <<engineVars, conn, txOf, portOf, counts, workerVars>>

(* A message that does not parse, an invalid hash, or a Test request. *)
BadRequest(c) ==
  /\ conn[c] = "idle" /\ peer[c]
  /\ conn' = [conn EXCEPT ![c] = "refused"]
  /\ UNCHANGED <<engineVars, peer, txOf, portOf, counts, workerVars>>

ReplayRequest(c, t) ==
  /\ conn[c] = "idle" /\ peer[c]
  /\ conn' = [conn EXCEPT ![c] = IF handles[t] # NoPort THEN "reusing" ELSE "delegating"]
  /\ txOf' = [txOf EXCEPT ![c] = t]
  /\ portOf' = [portOf EXCEPT ![c] = handles[t]]
  /\ UNCHANGED <<engineVars, peer, counts, workerVars>>

CountReuseInserts(c) ==
  /\ conn[c] = "reusing"
  /\ active_connections' = [active_connections EXCEPT ![txOf[c]] = 1]
  /\ conn' = [conn EXCEPT ![c] = "replying"]
  /\ UNCHANGED <<engineVars, peer, txOf, portOf, recounted, workerVars>>

CountReuse(c) ==
  /\ conn[c] = "reusing"
  /\ active_connections' = [active_connections EXCEPT ![txOf[c]] = @ + 1]
  /\ conn' = [conn EXCEPT ![c] = "replying"]
  /\ UNCHANGED <<engineVars, peer, txOf, portOf, recounted, workerVars>>

(* Sending to the channel fails once the worker thread is gone. *)
Delegate(c) ==
  /\ conn[c] = "delegating"
  /\ IF worker # "dead"
     THEN /\ channel' = Append(channel, c)
          /\ conn' = [conn EXCEPT ![c] = "queued"]
     ELSE /\ conn' = [conn EXCEPT ![c] = "refused"]
          /\ UNCHANGED channel
  /\ UNCHANGED <<engineVars, peer, txOf, portOf, counts, job, worker>>

CountPreparedIfPresent(c) ==
  /\ conn[c] = "prepared"
  /\ active_connections' =
       [active_connections EXCEPT ![txOf[c]] = IF @ > 0 THEN 1 ELSE 0]
  /\ conn' = [conn EXCEPT ![c] = "replying"]
  /\ UNCHANGED <<engineVars, peer, txOf, portOf, recounted, workerVars>>

(* The count of the transaction becomes 1, whatever it was. *)
CountPrepared(c) ==
  /\ conn[c] = "prepared"
  /\ active_connections' = [active_connections EXCEPT ![txOf[c]] = 1]
  /\ recounted' = IF active_connections[txOf[c]] > 0
                  THEN recounted \union {txOf[c]} ELSE recounted
  /\ conn' = [conn EXCEPT ![c] = "replying"]
  /\ UNCHANGED <<engineVars, peer, txOf, portOf, workerVars>>

SendSuccess(c) ==
  /\ conn[c] = "replying"
  /\ conn' = [conn EXCEPT ![c] = "tracking"]
  /\ UNCHANGED <<engineVars, peer, txOf, portOf, counts, workerVars>>

(* handle_socket leaves its loop without calling track_connection. *)
SendSuccessFails(c) ==
  /\ conn[c] = "replying" /\ ~peer[c]
  /\ conn' = [conn EXCEPT ![c] = "lost"]
  /\ UNCHANGED <<engineVars, peer, txOf, portOf, counts, workerVars>>

SendError(c) ==
  /\ conn[c] = "refused"
  /\ \/ conn' = [conn EXCEPT ![c] = "idle"]
     \/ ~peer[c] /\ conn' = [conn EXCEPT ![c] = "gone"]
  /\ txOf' = [txOf EXCEPT ![c] = NoTx]
  /\ portOf' = [portOf EXCEPT ![c] = NoPort]
  /\ UNCHANGED <<engineVars, peer, counts, workerVars>>

CloseIdle(c) ==
  /\ conn[c] = "idle" /\ ~peer[c]
  /\ conn' = [conn EXCEPT ![c] = "gone"]
  /\ UNCHANGED <<engineVars, peer, txOf, portOf, counts, workerVars>>

(* track_connection sees the close: decrement, and remove the entry at 0.  A
   missing entry is left missing. *)
Untrack(c) ==
  LET n == active_connections[txOf[c]] IN
  /\ conn[c] = "tracking" /\ ~peer[c]
  /\ active_connections' =
       [active_connections EXCEPT ![txOf[c]] = IF n = 0 THEN 0 ELSE n - 1]
  /\ conn' = [conn EXCEPT ![c] = IF n = 1 THEN "closing" ELSE "gone"]
  /\ UNCHANGED <<engineVars, peer, txOf, portOf, recounted, workerVars>>

(* The mutex is released by now: shutdown_rpc_server is a later step. *)
ShutdownSession(c) ==
  /\ conn[c] = "closing"
  /\ IF handles[txOf[c]] # NoPort
     THEN E!ShutdownRpcServer(txOf[c])
     ELSE UNCHANGED engineVars
  /\ conn' = [conn EXCEPT ![c] = "gone"]
  /\ UNCHANGED <<peer, txOf, portOf, counts, workerVars>>

HandlerStep(c) ==
  \/ CountReuse(c) \/ Delegate(c) \/ CountPrepared(c) \/ SendSuccess(c)
  \/ SendSuccessFails(c) \/ SendError(c) \/ CloseIdle(c) \/ Untrack(c)
  \/ ShutdownSession(c)
-----------------------------------------------------------------------------
(* The worker thread: one request at a time, in the order of the channel. *)

Respond(c, p) ==
  /\ conn' = [conn EXCEPT ![c] = IF p = NoPort THEN "refused" ELSE "prepared"]
  /\ portOf' = [portOf EXCEPT ![c] = p]
  /\ UNCHANGED <<peer, txOf, counts>>

Receive ==
  /\ worker = "receiving" /\ channel # <<>>
  /\ job' = Head(channel)
  /\ channel' = Tail(channel)
  /\ worker' = "forking"
  /\ UNCHANGED <<engineVars, handlerVars>>

(* fork_and_prepare, then the call of prepare, or its error as the answer. *)
ForkOk ==
  /\ worker = "forking"
  /\ E!Prepare(Worker, txOf[job])
  /\ worker' = "preparing"
  /\ UNCHANGED <<handlerVars, channel, job>>

ForkFails ==
  /\ worker = "forking"
  /\ Respond(job, NoPort)
  /\ worker' = "receiving"
  /\ job' = NoClient
  /\ UNCHANGED <<engineVars, channel>>

PrepareRuns ==
  /\ worker = "preparing"
  /\ E!PrepareStep(Worker)
  /\ UNCHANGED <<handlerVars, workerVars>>

SendResponse ==
  /\ worker = "preparing" /\ pc[Worker] = "idle"
  /\ Respond(job, answer[Worker])
  /\ worker' = "receiving"
  /\ job' = NoClient
  /\ UNCHANGED <<engineVars, channel>>

Waiting(c) == \E i \in 1..Len(channel) : channel[i] = c

(* A panic while a request is worked on.  Unwinding drops the lock's guard,
   the channel with every response sender in it, and the worker's runtime,
   on which the debug servers were spawned: they all stop.  server_handles
   belongs to the engine and keeps its entries. *)
WorkerPanics ==
  /\ Unwinds
  /\ \/ worker = "forking" /\ UNCHANGED <<pc, target, picked, answer, in_flight>>
     \/ worker = "preparing" /\ pc[Worker] = "analysing" /\ E!Return(Worker, NoPort)
  /\ worker' = "dead"
  /\ channel' = <<>>
  /\ job' = NoClient
  /\ serving' = [p \in Port |-> NoTx]
  /\ draining' = {}
  /\ conn' = [c \in Client |-> IF c = job \/ Waiting(c) THEN "refused" ELSE conn[c]]
  /\ UNCHANGED <<handles, peer, txOf, portOf, counts>>

WorkerStep == Receive \/ ForkOk \/ ForkFails \/ PrepareRuns \/ SendResponse

StopListening ==
  /\ \E p \in Port : E!StopListening(p)
  /\ UNCHANGED <<handlerVars, workerVars>>

Next ==
  \/ \E c \in Client : Disconnect(c) \/ BadRequest(c)
  \/ \E c \in Client, t \in Tx : ReplayRequest(c, t)
  \/ \E c \in Client : HandlerStep(c)
  \/ WorkerStep
  \/ WorkerPanics
  \/ StopListening

Spec == Init /\ [][Next]_vars
-----------------------------------------------------------------------------
(* A published server is somebody's to shut down: its transaction has a
   count, or the handler that will write or has just removed that count is
   still at work.  A server with no owner would run until edb exits. *)
ServerOwned ==
  \A t \in Tx :
     handles[t] # NoPort =>
        \/ active_connections[t] > 0
        \/ \E c \in Client : /\ txOf[c] = t
                             /\ \/ conn[c] \in {"prepared", "closing"}
                                \/ job = c

(* As long as no connection of a transaction has closed and the worker lives,
   every client that was given a port finds its own transaction's server
   there, however the requests interleave with the worker and with other
   transactions. *)
ClosedOn(t) == \E c \in Client : txOf[c] = t /\ conn[c] \in {"closing", "gone"}

HasPort(c) == conn[c] \in {"reusing", "prepared", "replying", "tracking"}

ServedUntilAClose ==
  worker # "dead" =>
    \A c \in Client : HasPort(c) /\ ~ClosedOn(txOf[c]) =>
       /\ portOf[c] = handles[txOf[c]]
       /\ serving[portOf[c]] = txOf[c]
       /\ portOf[c] \notin draining

(* A handler that waits for the worker waits for something: its request is in
   the channel or in the worker's hands, exactly once, and the worker lives.
   A request that was dropped silently, on an error, on a panic, or with the
   channel, would hang its client for good. *)
Pending(c) ==
  {i \in 1..Len(channel) : channel[i] = c} \union (IF job = c THEN {0} ELSE {})

QueuedIsPending ==
  \A c \in Client :
     IF conn[c] = "queued"
     THEN worker # "dead" /\ Cardinality(Pending(c)) = 1
     ELSE Pending(c) = {}

(* Whatever interleaves and whatever fails, no server is left without an owner
   and no handler without a request. *)
NothingStranded == ServerOwned /\ QueuedIsPending

(* The count of a transaction is the number of its connections that were
   counted and have not closed, whatever interleaves at the awaits: a close
   that finds a count of 1 is the last one's, and a server stays up only for a
   connection.  Two handlers of one transaction that both come back from the
   worker make the count too low (server.rs:242), and then the first of their
   closes ends the other's session; it is never too high.  A connection whose
   answer could not be sent stays counted, and keeps its server, for good
   (server.rs:175). *)
Counted(t) ==
  {c \in Client : txOf[c] = t /\ conn[c] \in {"replying", "tracking", "lost"}}

CountsConnections ==
  \A t \in Tx :
     /\ active_connections[t] <= Cardinality(Counted(t))
     /\ t \in recounted \/ active_connections[t] = Cardinality(Counted(t))
=============================================================================
