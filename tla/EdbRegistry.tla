---------------------------- MODULE EdbRegistry ----------------------------
(***************************************************************************)
(* The registry of edb processes inside the RPC proxy,                     *)
(* crates/rpc-proxy/src/registry.rs, with its heartbeat monitor.  The      *)
(* monitor takes the lock of the instances, then the lock again, then the  *)
(* lock of the grace period, and gives each one back before the next:      *)
(* MonitorSweep, MonitorCheck and MonitorGrace.  register_edb_instance     *)
(* takes the lock of the grace period while it holds the instances' lock.  *)
(*                                                                         *)
(* Time is counted in heartbeat intervals.  A stored time is represented   *)
(* by its age, which grows with Tick up to the largest value any           *)
(* comparison distinguishes.                                               *)
(***************************************************************************)
EXTENDS Naturals

CONSTANTS Pid,       \* process ids
          Timeout,   \* heartbeat_timeout, in heartbeat intervals
          Grace,     \* grace_period, in heartbeat intervals
          None

ASSUME PidAssumption == None \notin Pid
ASSUME TimeoutAssumption == Timeout \in Nat
(* ProxyServer::new starts the monitor only when grace_period > 0. *)
ASSUME GraceAssumption == Grace \in Nat \ {0}
ASSUME NoneAssumption == None \notin Nat

VARIABLES
  last_heartbeat,      \* per pid: the age of last_heartbeat, None if absent
  grace_period_start,  \* its age, None when no grace period runs
  registering,         \* the pid whose registration holds both locks
  monitor,             \* the next step of start_heartbeat_monitor
  shutdown,            \* the shutdown signal was sent
  processes            \* the edb processes alive in the operating system

instanceVars == <<last_heartbeat, grace_period_start, registering>>
vars == <<last_heartbeat, grace_period_start, registering, monitor, shutdown, processes>>

Instances == {p \in Pid : last_heartbeat[p] # None}

HeartbeatAges == 0..(Timeout + 1)
GraceAges == 0..Grace

TypeOK ==
  /\ last_heartbeat \in [Pid -> HeartbeatAges \union {None}]
  /\ grace_period_start \in GraceAges \union {None}
  /\ registering \in Pid \union {None}
  /\ monitor \in {"sleeping", "checking", "expiring"}
  /\ shutdown \in BOOLEAN
  /\ processes \subseteq Pid

Fresh ==
  /\ last_heartbeat = [p \in Pid |-> None]
  /\ grace_period_start = None
  /\ registering = None
  /\ monitor = "sleeping"
  /\ shutdown = FALSE

Init == Fresh /\ processes = Pid

(* EdbRegistry::new in a proxy process that takes over. *)
Renew ==
  /\ last_heartbeat' = [p \in Pid |-> None]
  /\ grace_period_start' = None
  /\ registering' = None
  /\ monitor' = "sleeping"
  /\ shutdown' = FALSE
-----------------------------------------------------------------------------
(* register_edb_instance, with the instances' lock taken ... *)
RegisterInsert(p) ==
  /\ registering = None
  /\ registering' = p
  /\ last_heartbeat' = [last_heartbeat EXCEPT ![p] = 0]
  /\ UNCHANGED <<grace_period_start, monitor, shutdown, processes>>

RegisterKeepsGrace ==
  /\ registering # None
  /\ registering' = None
  /\ UNCHANGED <<last_heartbeat, grace_period_start, monitor, shutdown, processes>>

(* ... and with the lock of the grace period taken as well. *)
RegisterCancelsGrace ==
  /\ registering # None
  /\ registering' = None
  /\ grace_period_start' = None
  /\ UNCHANGED <<last_heartbeat, monitor, shutdown, processes>>

(* An unknown pid gets an error and is not registered again. *)
Heartbeat(p) ==
  /\ registering = None
  /\ last_heartbeat' =
       [last_heartbeat EXCEPT ![p] = IF p \in Instances THEN 0 ELSE None]
  /\ UNCHANGED <<grace_period_start, registering, monitor, shutdown, processes>>

IsAliveStrict(p) == last_heartbeat[p] < Timeout

IsAlive(p) == last_heartbeat[p] <= Timeout

MonitorSweepRemovesNone(seen) ==
  /\ monitor = "sleeping" /\ registering = None
  /\ monitor' = "checking"
  /\ UNCHANGED <<instanceVars, shutdown, processes>>

(* is_process_alive runs `kill -0` and takes every failure, of the command or
   to run it, as the death of the process; a pid that was given away again, or
   a process nobody has waited for, it takes as alive.  So the pids it sees
   in one sweep are any pids. *)
ProcessChecks == SUBSET Pid

MonitorSweep(seen) ==
  /\ monitor = "sleeping" /\ registering = None
  /\ last_heartbeat' =
       [p \in Pid |-> IF p \in Instances /\ IsAlive(p) /\ p \in seen
                      THEN last_heartbeat[p] ELSE None]
  /\ monitor' = "checking"
  /\ UNCHANGED <<grace_period_start, registering, shutdown, processes>>

MonitorCheck ==
  /\ monitor = "checking" /\ registering = None
  /\ monitor' = IF Instances = {} THEN "expiring" ELSE "sleeping"
  /\ UNCHANGED <<instanceVars, shutdown, processes>>

MonitorGraceResets ==
  /\ monitor = "expiring"
  /\ grace_period_start' = 0
  /\ shutdown' = (shutdown \/ grace_period_start = Grace)
  /\ monitor' = "sleeping"
  /\ UNCHANGED <<last_heartbeat, registering, processes>>

MonitorGrace ==
  /\ monitor = "expiring"
  /\ grace_period_start' = IF grace_period_start = None THEN 0 ELSE grace_period_start
  /\ shutdown' = (shutdown \/ grace_period_start = Grace)
  /\ monitor' = "sleeping"
  /\ UNCHANGED <<last_heartbeat, registering, processes>>

Older(age, cap) == IF age = None \/ age = cap THEN age ELSE age + 1

Tick ==
  /\ last_heartbeat' = [p \in Pid |-> Older(last_heartbeat[p], Timeout + 1)]
  /\ grace_period_start' = Older(grace_period_start, Grace)
  /\ UNCHANGED <<registering, monitor, shutdown, processes>>

ProcessDies(p) ==
  /\ p \in processes
  /\ processes' = processes \ {p}
  /\ UNCHANGED <<instanceVars, monitor, shutdown>>

MonitorStep ==
  \/ \E seen \in ProcessChecks : MonitorSweep(seen)
  \/ MonitorCheck \/ MonitorGrace

Next ==
  \/ \E p \in processes : RegisterInsert(p) \/ Heartbeat(p)
  \/ \E p \in Pid : ProcessDies(p)
  \/ RegisterCancelsGrace
  \/ MonitorStep
  \/ Tick

Spec == Init /\ [][Next]_vars
-----------------------------------------------------------------------------
(* README.md:348 of rpc-proxy: the proxy shuts down "when no EDB instances are
   active".  The signal is never sent while an instance whose registration
   was answered is in the registry: one that registers between the monitor's
   look at the instances and its look at the grace period has cancelled that
   grace period.  (One whose registration is still in progress may be there.) *)
NoShutdownWhileRegistered ==
  [][shutdown' /\ ~shutdown => Instances \subseteq {registering}]_vars

(* The step between the two looks: any instance there by then has
   registered since the first, and cancelled the grace period. *)
CancelledSinceCheck ==
  monitor = "expiring" /\ Instances \ {registering} # {} => grace_period_start = None
=============================================================================
