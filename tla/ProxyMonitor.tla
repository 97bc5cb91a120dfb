---------------------------- MODULE ProxyMonitor ----------------------------
(***************************************************************************)
(* The terminal monitor of the RPC proxy (rpc-proxy/src/tui) beside a      *)
(* proxy at work: update sends its calls at once and waits for them all,   *)
(* each is answered from counters other requests are changing (handle_rpc, *)
(* proxy.rs) or fails, and what came is shown.                             *)
(*                                                                         *)
(* A reply is the sequence of the values read for it, one read a step.     *)
(***************************************************************************)
EXTENDS Metrics

CONSTANT Asked   \* the calls of fetch_all_data

VARIABLES
  call,       \* where each call of an update stands
  reply,      \* what was read for it so far
  shown,      \* per call: the reply on display, Absent if there is none
  updating    \* an update waits for its calls

callVars == <<call, reply>>
appVars == <<shown, updating>>
monitorVars == <<callVars, appVars>>
allVars == <<metricsVars, monitorVars>>

Absent == <<>>
Call == {"edb_cache_metrics", "edb_provider_metrics", "edb_info"}

ASSUME AskedAssumption == Asked \subseteq Call

(* What a call of handle_rpc reads, in its order.  Left out are the counters
   cache_hit_rate and error_rate read a second time, and those of the kinds
   of errors. *)
Reads ==
  [edb_cache_metrics |->
     <<"method_stats", "total_requests", "cache_hits", "cache_misses", "total_errors">>,
   edb_provider_metrics |-> <<"provider_usage", "cache_misses">>,
   edb_info |-> <<"pid">>]

Value(name) ==
  IF name \in Counters THEN counter[name]
  ELSE CASE name = "method_stats" -> method_stats
         [] name = "provider_usage" -> provider_usage
         [] name = "pid" -> life

MonitorTypeOK ==
  /\ MetricsTypeOK
  /\ call \in [Asked -> {"none", "sent", "replied", "failed"}]
  /\ \A c \in Asked : Len(reply[c]) <= Len(Reads[c])
  /\ \A c \in Asked : Len(shown[c]) \in {0, Len(Reads[c])}
  /\ updating \in BOOLEAN

MonitorInit ==
  /\ MetricsInit
  /\ call = [c \in Asked |-> "none"]
  /\ reply = [c \in Asked |-> <<>>]
  /\ shown = [c \in Asked |-> Absent]
  /\ updating = FALSE
-----------------------------------------------------------------------------
(* handle_rpc reads on for a call, and answers it. *)
Serve(c) ==
  /\ call[c] = "sent" /\ Len(reply[c]) < Len(Reads[c])
  /\ reply' = [reply EXCEPT ![c] = Append(@, Value(Reads[c][Len(@) + 1]))]
  /\ call' = [call EXCEPT ![c] = IF Len(reply'[c]) = Len(Reads[c]) THEN "replied" ELSE "sent"]
  /\ UNCHANGED <<metricsVars, appVars>>

Failed(cs) ==
  /\ call' = [c \in Asked |-> IF c \in cs THEN "failed" ELSE call[c]]
  /\ reply' = [c \in Asked |-> IF c \in cs THEN <<>> ELSE reply[c]]

(* A call that takes longer than the client's timeout, or finds no proxy. *)
Lose(c) ==
  /\ call[c] = "sent"
  /\ Failed({c})
  /\ UNCHANGED <<metricsVars, appVars>>

(* The proxy is restarted: the calls it was serving fail. *)
RestartProxy ==
  /\ Restart
  /\ Failed({c \in Asked : call[c] = "sent"})
  /\ UNCHANGED appVars

(* update: every tick_rate, and for the keys r and c. *)
StartUpdate ==
  /\ ~updating
  /\ updating' = TRUE
  /\ call' = [c \in Asked |-> "sent"]
  /\ UNCHANGED <<metricsVars, reply, shown>>

(* What fetch_all_data makes of the replies: what failed is absent. *)
FetchedOnce(c) == IF call[c] = "replied" /\ shown[c] = Absent THEN reply[c] ELSE shown[c]

Fetched(c) == IF call[c] = "replied" THEN reply[c] ELSE Absent

FinishUpdate ==
  /\ updating /\ \A c \in Asked : call[c] \in {"replied", "failed"}
  /\ shown' = [c \in Asked |-> Fetched(c)]
  /\ updating' = FALSE
  /\ call' = [c \in Asked |-> "none"]
  /\ reply' = [c \in Asked |-> <<>>]
  /\ UNCHANGED metricsVars

MonitorNext ==
  \/ RequestStep /\ UNCHANGED monitorVars
  \/ \E c \in Asked : Serve(c) \/ Lose(c)
  \/ RestartProxy
  \/ StartUpdate
  \/ FinishUpdate

MonitorSpec == MonitorInit /\ [][MonitorNext]_allVars

(* handle_rpc runs on, the client's timeout ends every call, and the loop
   of the monitor comes to its next update (mod.rs:42-79). *)
MonitorFairSpec ==
  /\ MonitorSpec
  /\ WF_allVars(StartUpdate) /\ WF_allVars(FinishUpdate)
  /\ \A c \in Asked : WF_allVars(Serve(c))
-----------------------------------------------------------------------------
(* What widgets.rs makes of the table, in render_method_details and in
   render_method_stats_summary: the requests of a method are its hits and
   misses, the total shown is the sum of them. *)
MethodRequests(stats, m) == stats[m].hits + stats[m].misses
MethodTotal(stats) == SumFunction([m \in MethodName |-> MethodRequests(stats, m)])

(* The table of the methods never shows more requests or hits than the
   totals beside it, whatever is recorded while the call is answered:
   metrics.rs:266-318 counts in the totals first, the handler (proxy.rs:
   435-449) reads them last.  The two are shown next to each other
   (tui/widgets.rs:1100-1218 and 939-1080). *)
MethodsWithinTotals ==
  LET metrics == shown["edb_cache_metrics"] IN
  "edb_cache_metrics" \in Asked /\ metrics # Absent =>
    /\ MethodTotal(metrics[1]) <= metrics[2]
    /\ MethodSum(metrics[1], "hits") <= metrics[3]

(* Numbers a reader may compare: those the proxy keeps, at rest, and those the
   monitor shows, at any moment. *)
MetricsAgree == CountersAgree /\ MethodsWithinTotals

Current(c) == shown[c] = [i \in 1..Len(Reads[c]) |-> Value(Reads[c][i])]

(* The monitor catches up: once no request changes a number any more, and
   no call is lost, what is shown is what the proxy counts, for good.  An
   update under way when the last number changed does not stay on display. *)
MonitorCatchesUp ==
  (<>[][UNCHANGED metricsVars]_allVars /\ <>[][~\E c \in Asked : Lose(c)]_allVars)
     => <>[](\A c \in Asked : Current(c))
=============================================================================
