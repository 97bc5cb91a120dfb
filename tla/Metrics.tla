------------------------------- MODULE Metrics -------------------------------
(***************************************************************************)
(* The metrics of the RPC proxy: MetricsCollector of rpc-proxy/src/        *)
(* metrics.rs.  Every counter is an atomic or behind a lock of its own, so *)
(* that a record_* function is a sequence of atomic updates, and those of  *)
(* concurrent requests interleave.  The functions do not await: a request  *)
(* whose client goes away is dropped before or after one, never within, so *)
(* that any order and choice of them may occur (RpcHandler models the      *)
(* requests that call them).  Response times and request timestamps are    *)
(* left out.                                                               *)
(***************************************************************************)
EXTENDS Naturals, Sequences, FiniteSets, FiniteSetsExt

CONSTANTS Task,         \* requests the proxy handles at the same time
          MethodName,   \* the methods they ask for
          Provider,     \* the configured upstream providers
          MaxRecords,   \* bound on the record_* calls of all tasks together
          MaxRestarts   \* bound on the restarts of the proxy

ASSUME BoundsAssumption == MaxRecords \in Nat /\ MaxRestarts \in Nat
ASSUME FiniteAssumption == IsFiniteSet(Task) /\ IsFiniteSet(MethodName) /\ IsFiniteSet(Provider)

VARIABLES
  counter,         \* the AtomicU64 fields
  method_stats,    \* per method: hits, misses, total_requests, errors
  provider_usage,  \* per provider: request_count, success_count, error_count
  updates,         \* the atomic updates task t has before it in a record_*
  records,         \* how many record_* calls there have been
  life             \* how often the proxy has been restarted

collector == <<counter, method_stats, provider_usage>>
metricsVars == <<collector, updates, records, life>>

Counters == {"cache_hits", "cache_misses", "total_requests",
             "total_errors", "rate_limit_errors", "user_errors"}

ErrorType == {"total_errors", "rate_limit_errors", "user_errors"}

NoStats == [hits |-> 0, misses |-> 0, total_requests |-> 0, errors |-> 0]
NoUsage == [request_count |-> 0, success_count |-> 0, error_count |-> 0]

MetricsTypeOK ==
  /\ counter \in [Counters -> 0..MaxRecords]
  /\ \A m \in MethodName : \A f \in DOMAIN NoStats : method_stats[m][f] \in 0..MaxRecords
  /\ \A p \in Provider : \A f \in DOMAIN NoUsage : provider_usage[p][f] \in 0..MaxRecords
  /\ \A t \in Task : Len(updates[t]) <= 4
  /\ records \in 0..MaxRecords /\ life \in 0..MaxRestarts

NewCollector ==
  /\ counter = [c \in Counters |-> 0]
  /\ method_stats = [m \in MethodName |-> NoStats]
  /\ provider_usage = [p \in Provider |-> NoUsage]

MetricsInit ==
  /\ NewCollector
  /\ updates = [t \in Task |-> <<>>]
  /\ records = 0 /\ life = 0
-----------------------------------------------------------------------------
(* The record_* functions, as the updates they make in their order. *)
Count(c) == [of |-> "counter", name |-> c]
MethodUpdate(m, hit, error) == [of |-> "method", name |-> m, hit |-> hit, error |-> error]
ProviderUpdate(p, error) == [of |-> "provider", name |-> p, error |-> error]

RecordCacheHit(m) ==
  <<Count("cache_hits"), Count("total_requests"), MethodUpdate(m, TRUE, FALSE)>>

RecordCacheMiss == <<Count("cache_misses")>>

RecordRequestMethodFirst(m, p, success) ==
  <<MethodUpdate(m, FALSE, ~success), Count("total_requests")>>
  \o (IF success THEN <<>> ELSE <<Count("total_errors")>>)
  \o <<ProviderUpdate(p, ~success)>>

RecordRequest(m, p, success) ==
  <<Count("total_requests")>>
  \o (IF success THEN <<>> ELSE <<Count("total_errors")>>)
  \o <<MethodUpdate(m, FALSE, ~success), ProviderUpdate(p, ~success)>>

RecordError(type) == <<Count(type)>>

One(b) == IF b THEN 1 ELSE 0

(* One of these updates: a fetch_add, or what is done under one lock. *)
Record(t) ==
  /\ updates[t] # <<>>
  /\ LET u == Head(updates[t]) IN
     /\ counter' = IF u.of = "counter" THEN [counter EXCEPT ![u.name] = @ + 1] ELSE counter
     /\ method_stats' =
          IF u.of # "method" THEN method_stats
          ELSE [method_stats EXCEPT ![u.name] =
                 [hits |-> @.hits + One(u.hit), misses |-> @.misses + One(~u.hit),
                  total_requests |-> @.total_requests + 1, errors |-> @.errors + One(u.error)]]
     /\ provider_usage' =
          IF u.of # "provider" THEN provider_usage
          ELSE [provider_usage EXCEPT ![u.name] =
                 [request_count |-> @.request_count + 1,
                  success_count |-> @.success_count + One(~u.error),
                  error_count |-> @.error_count + One(u.error)]]
  /\ updates' = [updates EXCEPT ![t] = Tail(@)]
  /\ UNCHANGED <<records, life>>

(* What handle_request and forward_request record (rpc.rs:150-249, 440-690):
   a hit; each attempt at a provider; a miss, with the kind of the error the
   response is, if it is one. *)
Recordings ==
  {RecordCacheHit(m) : m \in MethodName}
  \union {RecordRequest(m, p, success) : m \in MethodName, p \in Provider, success \in BOOLEAN}
  \union {RecordCacheMiss} \union {RecordCacheMiss \o RecordError(e) : e \in ErrorType}

StartRecord(t, recording) ==
  /\ updates[t] = <<>> /\ records < MaxRecords
  /\ records' = records + 1
  /\ updates' = [updates EXCEPT ![t] = recording]
  /\ UNCHANGED <<collector, life>>

(* The proxy ends and another is started. *)
Restart ==
  /\ life < MaxRestarts
  /\ life' = life + 1
  /\ counter' = [c \in Counters |-> 0]
  /\ method_stats' = [m \in MethodName |-> NoStats]
  /\ provider_usage' = [p \in Provider |-> NoUsage]
  /\ updates' = [t \in Task |-> <<>>]
  /\ UNCHANGED records

RequestStep ==
  \/ \E t \in Task : Record(t)
  \/ \E t \in Task, recording \in Recordings : StartRecord(t, recording)
-----------------------------------------------------------------------------
MethodSum(stats, field) == SumFunction([m \in MethodName |-> stats[m][field]])
ProviderSum(usage, field) == SumFunction([p \in Provider |-> usage[p][field]])

(* metrics.rs:228-232, 298-317 and proxy.rs handle_rpc: the numbers of the
   metrics calls count the same requests.  Whenever no request is within a
   record_* function, the requests are the cache hits and the attempts at
   providers; the methods' numbers add up to them; every failed attempt is
   an error of its method, and among the errors in total (where an error
   response of a cacheable method may count again: rpc.rs:231). *)
CountersAgree ==
  LET hits == MethodSum(method_stats, "hits")
      misses == MethodSum(method_stats, "misses")
      all == MethodSum(method_stats, "total_requests")
      methodErrors == MethodSum(method_stats, "errors")
      providerErrors == ProviderSum(provider_usage, "error_count")
      asked == ProviderSum(provider_usage, "request_count")
  IN (\A t \in Task : updates[t] = <<>>) =>
       /\ counter["total_requests"] = counter["cache_hits"] + asked
       /\ counter["total_requests"] = all /\ counter["cache_hits"] = hits /\ asked = misses
       /\ methodErrors = providerErrors /\ providerErrors <= counter["total_errors"]
=============================================================================
