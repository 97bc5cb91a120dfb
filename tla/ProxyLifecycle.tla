--------------------------- MODULE ProxyLifecycle ---------------------------
(***************************************************************************)
(* The edb processes of one machine and the RPC proxy they share on one    *)
(* port: ensure_proxy_running and the heartbeat task of                    *)
(* crates/edb/src/proxy.rs, and the start and the end of the proxy process *)
(* (crates/rpc-proxy/src/proxy.rs).  The variables and actions of          *)
(* EdbRegistry are those of the running proxy's registry; a new proxy      *)
(* process starts with a fresh one.                                        *)
(***************************************************************************)
EXTENDS EdbRegistry

VARIABLES
  up,         \* a proxy process listens on the port
  booting,    \* processes whose spawned proxy has not bound the port yet
  stage,      \* stage[p]: how far ensure_proxy_running of edb process p is
  members,    \* processes whose registration the running proxy answered
  late,       \* history: members whose heartbeat once took longer than Timeout
  unseen      \* history: members the monitor once took for dead processes

lifecycleVars == <<vars, up, booting, stage, members, late, unseen>>

Stages == {"starting", "spawning", "awaiting", "registering", "inserted",
           "running", "exited"}

LifecycleTypeOK ==
  /\ TypeOK
  /\ up \in BOOLEAN
  /\ booting \subseteq Pid
  /\ stage \in [Pid -> Stages]
  /\ members \subseteq Pid
  /\ late \subseteq Pid
  /\ unseen \subseteq Pid
  /\ ~up => Fresh /\ members = {} /\ late = {} /\ unseen = {}

LifecycleInit ==
  /\ Init
  /\ up = FALSE
  /\ booting = {}
  /\ stage = [p \in Pid |-> "starting"]
  /\ members = {} /\ late = {} /\ unseen = {}
-----------------------------------------------------------------------------
(* ensure_proxy_running and the heartbeat task of one edb process. *)

Enter(p, s) == stage' = [stage EXCEPT ![p] = s]

(* The health check fails without a proxy, or by its timeout. *)
HealthCheck(p) ==
  /\ stage[p] = "starting"
  /\ \/ up /\ Enter(p, "registering")
     \/ Enter(p, "spawning")
  /\ UNCHANGED <<vars, up, booting, members, late, unseen>>

Spawn(p) ==
  /\ stage[p] = "spawning"
  /\ booting' = booting \union {p}
  /\ Enter(p, "awaiting")
  /\ UNCHANGED <<vars, up, members, late, unseen>>

(* wait_for_proxy_ready is content with any proxy on the port. *)
Ready(p) ==
  /\ stage[p] = "awaiting" /\ up
  /\ Enter(p, "registering")
  /\ UNCHANGED <<vars, up, booting, members, late, unseen>>

Register(p) ==
  /\ stage[p] = "registering" /\ up
  /\ RegisterInsert(p)
  /\ Enter(p, "inserted")
  /\ UNCHANGED <<up, booting, members, late, unseen>>

RegisterAnswered ==
  LET p == registering IN
  /\ RegisterCancelsGrace
  /\ IF stage[p] = "inserted" THEN Enter(p, "running") ELSE UNCHANGED stage
  /\ members' = members \union {p}
  /\ UNCHANGED <<up, booting, late, unseen>>

(* The answer is not looked at: an error of the registry, as well as a proxy
   that is not there, only leads to the next heartbeat. *)
SendHeartbeat(p) ==
  /\ stage[p] = "running" /\ up
  /\ Heartbeat(p)
  /\ UNCHANGED <<up, booting, stage, members, late, unseen>>

(* edb ends: its user quits, it is killed, or ensure_proxy_running answers
   Err because the spawn, the wait of 120 attempts or the registration failed. *)
Exit(p) ==
  /\ ProcessDies(p)
  /\ Enter(p, "exited")
  /\ UNCHANGED <<up, booting, members, late, unseen>>
-----------------------------------------------------------------------------
(* The proxy process. *)

(* A spawned proxy binds the port, or finds it taken and exits. *)
Boot(p) ==
  /\ p \in booting
  /\ booting' = booting \ {p}
  /\ up' = TRUE
  /\ UNCHANGED <<vars, stage, members, late, unseen>>

Down ==
  /\ up
  /\ up' = FALSE
  /\ Renew
  /\ members' = {} /\ late' = {} /\ unseen' = {}
  /\ UNCHANGED <<processes, booting, stage>>

(* The server's graceful shutdown, some time after the signal. *)
Stop == shutdown /\ Down

(* edb_shutdown, Ctrl-C, or the proxy is killed. *)
Terminate == Down

Monitor ==
  /\ up
  /\ \/ \E seen \in ProcessChecks :
          /\ MonitorSweep(seen)
          /\ unseen' = unseen \union (Instances \ seen)
     \/ (MonitorCheck \/ MonitorGrace) /\ UNCHANGED unseen
  /\ UNCHANGED <<up, booting, stage, members, late>>

TimePasses ==
  /\ up
  /\ Tick
  /\ late' = late \union {p \in Instances : last_heartbeat[p] = Timeout}
  /\ UNCHANGED <<up, booting, stage, members, unseen>>

LifecycleNext ==
  \/ \E p \in processes : \/ HealthCheck(p) \/ Spawn(p) \/ Ready(p)
                          \/ Register(p) \/ SendHeartbeat(p) \/ Exit(p)
  \/ \E p \in Pid : Boot(p)
  \/ RegisterAnswered
  \/ Monitor \/ TimePasses \/ Stop \/ Terminate

LifecycleSpec == LifecycleInit /\ [][LifecycleNext]_lifecycleVars

(* The operating system runs the spawned processes; inside the proxy the
   runtime polls a pending registration and the monitor, tokio's RwLock
   serves its waiters in turn (hence strong fairness for the monitor, which
   waits for it), and time passes.  Nothing makes a process start, register,
   beat or die. *)
LifecycleFairSpec ==
  /\ LifecycleSpec
  /\ \A p \in Pid : WF_lifecycleVars(Boot(p))
  /\ WF_lifecycleVars(RegisterAnswered) /\ SF_lifecycleVars(Monitor)
  /\ WF_lifecycleVars(TimePasses) /\ WF_lifecycleVars(Stop)
-----------------------------------------------------------------------------
(* An edb process whose registration the running proxy answered, and which has
   since always been heard of in time and been seen by the process check, is
   in the registry, whatever other processes start, die or restart around it
   (registry.rs:186-196).  One that missed either once is dropped for as long
   as this proxy runs: its heartbeats are answered with an error nobody reads
   (proxy.rs:128 of edb). *)
MembersStayRegistered ==
  (members \intersect processes) \ (late \union unseen) \subseteq Instances

(* A process that died leaves the registry, although it never says so. *)
DeadAreRemoved == \A p \in Pid : p \notin processes ~> p \notin Instances

(* Once no edb process is left, the machine is eventually without a proxy for
   good, late spawned proxies included. *)
NoProxyLeftBehind == (processes = {}) ~> []~up
=============================================================================
