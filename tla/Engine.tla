------------------------------- MODULE Engine -------------------------------
(***************************************************************************)
(* The engine of crates/engine/src/core.rs as its callers see it: the map  *)
(* of published debug servers (server_handles), the per-transaction locks  *)
(* (in_flight), Engine::prepare step by step, Engine::shutdown_rpc_server, *)
(* and the axum listeners that crates/engine/src/rpc/server.rs starts.     *)
(* Callers run concurrently; a step of one may fall between any two steps  *)
(* of another.  The seven analysis stages of prepare are one step that     *)
(* may fail: none of them touches the state modelled here.                 *)
(***************************************************************************)
EXTENDS Naturals

CONSTANTS Caller,    \* the tasks that may call Engine::prepare
          Tx,        \* transaction hashes
          Port,      \* the loopback ports a debug server may bind
          NoCaller, NoTx, NoPort

ASSUME CallerAssumption == NoCaller \notin Caller
ASSUME TxAssumption == NoTx \notin Tx
ASSUME PortAssumption == NoPort \notin Port

VARIABLES
  pc,         \* pc[c]: where caller c stands in prepare
  target,     \* target[c]: the transaction c prepares
  picked,     \* picked[c]: the port c found available, then bound
  answer,     \* answer[c]: the last result of prepare, NoPort for an Err
  in_flight,  \* in_flight[t]: the holder of t's lock, NoCaller when free
  handles,    \* handles[t]: the address in server_handles, NoPort if absent
  serving,    \* serving[p]: the transaction served on p, NoTx if p is free
  draining    \* ports whose shutdown signal was sent, listener still bound

serverVars == <<handles, serving, draining>>
vars == <<pc, target, picked, answer, in_flight, handles, serving, draining>>

Steps == {"idle", "waiting", "checking", "analysing", "binding", "storing"}

TypeOK ==
  /\ pc \in [Caller -> Steps]
  /\ target \in [Caller -> Tx \union {NoTx}]
  /\ picked \in [Caller -> Port \union {NoPort}]
  /\ answer \in [Caller -> Port \union {NoPort}]
  /\ in_flight \in [Tx -> Caller \union {NoCaller}]
  /\ handles \in [Tx -> Port \union {NoPort}]
  /\ serving \in [Port -> Tx \union {NoTx}]
  /\ draining \subseteq Port

Init ==
  /\ pc = [c \in Caller |-> "idle"]
  /\ target = [c \in Caller |-> NoTx]
  /\ picked = [c \in Caller |-> NoPort]
  /\ answer = [c \in Caller |-> NoPort]
  /\ in_flight = [t \in Tx |-> NoCaller]
  /\ handles = [t \in Tx |-> NoPort]
  /\ serving = [p \in Port |-> NoTx]
  /\ draining = {}
-----------------------------------------------------------------------------
(* prepare leaves by dropping the guard of the transaction's lock; its locals
   go with it. *)
Return(c, a) ==
  /\ pc' = [pc EXCEPT ![c] = "idle"]
  /\ answer' = [answer EXCEPT ![c] = a]
  /\ in_flight' = [in_flight EXCEPT ![target[c]] = NoCaller]
  /\ target' = [target EXCEPT ![c] = NoTx]
  /\ picked' = [picked EXCEPT ![c] = NoPort]

Prepare(c, t) ==
  /\ pc[c] = "idle"
  /\ pc' = [pc EXCEPT ![c] = "waiting"]
  /\ target' = [target EXCEPT ![c] = t]
  /\ answer' = [answer EXCEPT ![c] = NoPort]
  /\ UNCHANGED <<picked, in_flight, handles, serving, draining>>

LockHeld(c) ==
  /\ pc[c] = "waiting"
  /\ in_flight' = [in_flight EXCEPT ![target[c]] = c]
  /\ pc' = [pc EXCEPT ![c] = "checking"]
  /\ UNCHANGED <<target, picked, answer, handles, serving, draining>>

Lock(c) ==
  /\ pc[c] = "waiting"
  /\ in_flight[target[c]] = NoCaller
  /\ in_flight' = [in_flight EXCEPT ![target[c]] = c]
  /\ pc' = [pc EXCEPT ![c] = "checking"]
  /\ UNCHANGED <<target, picked, answer, handles, serving, draining>>

ReturnExisting(c) ==
  /\ pc[c] = "checking"
  /\ handles[target[c]] # NoPort
  /\ Return(c, handles[target[c]])
  /\ UNCHANGED serverVars

BeginAnalysisUnchecked(c) ==
  /\ pc[c] = "checking"
  /\ pc' = [pc EXCEPT ![c] = "analysing"]
  /\ UNCHANGED <<target, picked, answer, in_flight, handles, serving, draining>>

BeginAnalysis(c) ==
  /\ pc[c] = "checking"
  /\ handles[target[c]] = NoPort
  /\ pc' = [pc EXCEPT ![c] = "analysing"]
  /\ UNCHANGED <<target, picked, answer, in_flight, handles, serving, draining>>

FailAndRetry(c) ==
  /\ pc[c] = "analysing"
  /\ pc' = [pc EXCEPT ![c] = "checking"]
  /\ UNCHANGED <<target, picked, answer, in_flight, handles, serving, draining>>

(* One of the eight stages, or the search for a port, answers Err. *)
Fail(c) ==
  /\ pc[c] = "analysing"
  /\ Return(c, NoPort)
  /\ UNCHANGED serverVars

(* get_default_rpc_port binds a candidate, drops that listener and answers
   its number.  The candidate is the lowest one free; other processes and
   other probes occupy ports for a moment, so it may be any free one. *)
PickPort(c) ==
  /\ pc[c] = "analysing"
  /\ \E p \in Port :
        /\ serving[p] = NoTx
        /\ picked' = [picked EXCEPT ![c] = p]
  /\ pc' = [pc EXCEPT ![c] = "binding"]
  /\ UNCHANGED <<target, answer, in_flight, handles, serving, draining>>

Bind(c) ==
  /\ pc[c] = "binding"
  /\ serving[picked[c]] = NoTx
  /\ serving' = [serving EXCEPT ![picked[c]] = target[c]]
  /\ pc' = [pc EXCEPT ![c] = "storing"]
  /\ UNCHANGED <<target, picked, answer, in_flight, handles, draining>>

(* The port was taken between the probe and the bind, by another server of
   this engine or by another process: prepare answers Err. *)
BindFails(c) ==
  /\ pc[c] = "binding"
  /\ Return(c, NoPort)
  /\ UNCHANGED serverVars

(* server_handles.insert drops a handle it replaces, and with it the sender
   of that server's shutdown channel: that server stops as well. *)
Store(c) ==
  /\ pc[c] = "storing"
  /\ handles' = [handles EXCEPT ![target[c]] = picked[c]]
  /\ draining' = draining \union ({handles[target[c]]} \ {NoPort})
  /\ Return(c, picked[c])
  /\ UNCHANGED serving

ShutdownKeepsHandle(t) ==
  /\ handles[t] # NoPort
  /\ draining' = draining \union {handles[t]}
  /\ UNCHANGED <<pc, target, picked, answer, in_flight, handles, serving>>

ShutdownUnsignalled(t) ==
  /\ handles[t] # NoPort
  /\ handles' = [handles EXCEPT ![t] = NoPort]
  /\ UNCHANGED <<pc, target, picked, answer, in_flight, serving, draining>>

ShutdownRpcServer(t) ==
  /\ handles[t] # NoPort
  /\ handles' = [handles EXCEPT ![t] = NoPort]
  /\ draining' = draining \union {handles[t]}
  /\ UNCHANGED <<pc, target, picked, answer, in_flight, serving>>

(* axum's graceful shutdown closes the listener some time after the signal. *)
StopListening(p) ==
  /\ p \in draining
  /\ draining' = draining \ {p}
  /\ serving' = [serving EXCEPT ![p] = NoTx]
  /\ UNCHANGED <<pc, target, picked, answer, in_flight, handles>>

PrepareStep(c) ==
  \/ Lock(c) \/ ReturnExisting(c) \/ BeginAnalysis(c) \/ Fail(c)
  \/ PickPort(c) \/ Bind(c) \/ BindFails(c) \/ Store(c)

Next ==
  \/ \E c \in Caller, t \in Tx : Prepare(c, t)
  \/ \E c \in Caller : PrepareStep(c)
  \/ \E t \in Tx : ShutdownRpcServer(t)
  \/ \E p \in Port : StopListening(p)

Spec == Init /\ [][Next]_vars

(* tokio's Mutex is fair (first come, first served) and every stage of an
   analysis ends, so a caller that can proceed again and again does. *)
FairSpec ==
  /\ Spec
  /\ \A c \in Caller : SF_vars(Lock(c)) /\ WF_vars(PrepareStep(c))
  /\ \A p \in Port : WF_vars(StopListening(p))
-----------------------------------------------------------------------------
Analysing(c) == pc[c] \in {"analysing", "binding", "storing"}
Locked(c) == pc[c] \in {"checking", "analysing", "binding", "storing"}

(* The callers of prepare that are past the check, per transaction. *)
Analysts == [t \in Tx |-> {c \in Caller : Analysing(c) /\ target[c] = t}]
Published == {t \in Tx : handles[t] # NoPort}

Once == INSTANCE AnalysisOnce WITH analysts <- Analysts, published <- Published

(* Engine::prepare, doc at core.rs:180-183: "only one thread can analyze a
   given transaction at a time" and later calls "return the cached result".
   Every step of the engine is a step of AnalysisOnce, or changes nothing
   there. *)
AnalysedOnce == Once!Spec

(* A published address is one a live, unsignalled server of exactly that
   transaction listens on: server_handles never holds the address of a
   server that was told to stop, nor of another transaction's. *)
PublishedIsServed ==
  \A t \in Published : serving[handles[t]] = t /\ handles[t] \notin draining

(* No server is lost: whatever listens is either reachable through
   server_handles, about to be stored there by the caller that started it, or
   already told to stop.  A server outside these could never be shut down. *)
NoLostServer ==
  \A p \in Port :
     serving[p] # NoTx =>
        \/ p \in draining
        \/ handles[serving[p]] = p
        \/ \E c \in Caller : /\ pc[c] = "storing"
                             /\ picked[c] = p
                             /\ target[c] = serving[p]

(* A call of prepare ends, however many callers queue on the same lock and
   whichever of them fail. *)
PrepareEnds == \A c \in Caller : pc[c] = "waiting" ~> pc[c] = "idle"
=============================================================================
