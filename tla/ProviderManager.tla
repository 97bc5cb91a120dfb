--------------------------- MODULE ProviderManager ---------------------------
(***************************************************************************)
(* The pool of upstream RPC providers of the proxy,                        *)
(* crates/rpc-proxy/src/providers.rs.  One lock guards the list; every     *)
(* mark_provider_* takes it once.  health_check_all takes it to copy the   *)
(* list, probes without it, and takes it again for each result, so a       *)
(* result may be applied long after the list or the provider changed.      *)
(* The upstream providers are external: faulty is the set of those that    *)
(* do not answer properly at the moment.                                   *)
(***************************************************************************)
EXTENDS Naturals

CONSTANTS Provider,     \* the provider urls
          Checker,      \* the tasks that may run health_check_all
          MaxFailures,  \* max_failures
          Flaky         \* the providers that may be out of order at all

ASSUME MaxFailuresAssumption == MaxFailures \in Nat \ {0}
ASSUME FlakyAssumption == Flaky \subseteq Provider

VARIABLES
  is_healthy,            \* per provider
  consecutive_failures,  \* per provider, counted up to FailureBound
  recent,                \* providers whose last_health_check is at most 60s old
  checks,                \* checks[h][p]: where checker h stands with p
  faulty                 \* the providers that fail just now

poolVars == <<is_healthy, consecutive_failures, recent>>
vars == <<is_healthy, consecutive_failures, recent, checks, faulty>>

(* Only the comparison with max_failures reads the counter; one more value
   stands for all above it. *)
FailureBound == MaxFailures + 1

Unchecked == [p \in Provider |-> "none"]

TypeOK ==
  /\ is_healthy \in [Provider -> BOOLEAN]
  /\ consecutive_failures \in [Provider -> 0..FailureBound]
  /\ recent \subseteq Provider
  /\ checks \in [Checker -> [Provider -> {"none", "probing", "ok", "err"}]]
  /\ faulty \subseteq Flaky

(* ProviderManager::new probes every url once. *)
Init ==
  \E failing \in SUBSET Flaky :
  LET ok == Provider \ failing IN
     /\ is_healthy = [p \in Provider |-> p \in ok]
     /\ consecutive_failures = [p \in Provider |-> IF p \in ok THEN 0 ELSE 1]
     /\ recent = ok
     /\ checks = [h \in Checker |-> Unchecked]
     /\ faulty = failing
-----------------------------------------------------------------------------
MarkProviderFailed(p) ==
  LET failures == consecutive_failures[p] + 1 IN
  /\ consecutive_failures' =
       [consecutive_failures EXCEPT ![p] = IF failures > FailureBound THEN @ ELSE failures]
  /\ is_healthy' = [is_healthy EXCEPT ![p] = @ /\ failures < MaxFailures]
  /\ UNCHANGED recent

MarkProviderSuccess(p) ==
  /\ consecutive_failures' = [consecutive_failures EXCEPT ![p] = 0]
  /\ is_healthy' = [is_healthy EXCEPT ![p] = TRUE]
  /\ recent' = recent \union {p}

(* health_check_all: the copy of the list ... *)
Checking(h) == checks[h] # Unchecked

HealthCheckStaleOnly(h) ==
  /\ ~Checking(h)
  /\ checks' = [checks EXCEPT ![h] =
       [p \in Provider |-> IF is_healthy[p] /\ p \notin recent THEN "probing" ELSE "none"]]
  /\ UNCHANGED <<poolVars, faulty>>

HealthCheckAll(h) ==
  /\ ~Checking(h)
  /\ checks' = [checks EXCEPT ![h] =
       [p \in Provider |-> IF ~is_healthy[p] \/ p \notin recent THEN "probing" ELSE "none"]]
  /\ UNCHANGED <<poolVars, faulty>>

(* ... the probes, in parallel ... *)
CheckProviderHealth(h, p) ==
  /\ checks[h][p] = "probing"
  /\ checks' = [checks EXCEPT ![h][p] = IF p \in faulty THEN "err" ELSE "ok"]
  /\ UNCHANGED <<poolVars, faulty>>

(* ... and, when join_all has them all, the results, one lock at a time. *)
ApplyCheck(h, p) ==
  /\ \A q \in Provider : checks[h][q] # "probing"
  /\ \/ checks[h][p] = "ok" /\ MarkProviderSuccess(p)
     \/ checks[h][p] = "err" /\ MarkProviderFailed(p)
  /\ checks' = [checks EXCEPT ![h][p] = "none"]
  /\ UNCHANGED faulty

CheckStep(h) == \E p \in Provider : CheckProviderHealth(h, p) \/ ApplyCheck(h, p)

(* Sixty seconds pass without a success of p. *)
Age(p) ==
  /\ p \in recent
  /\ recent' = recent \ {p}
  /\ UNCHANGED <<is_healthy, consecutive_failures, checks, faulty>>

(* The network and the provider's operator decide. *)
Break(p) == p \in Flaky \ faulty /\ faulty' = faulty \union {p} /\ UNCHANGED <<poolVars, checks>>
Repair(p) == p \in faulty /\ faulty' = faulty \ {p} /\ UNCHANGED <<poolVars, checks>>

Environment == \E p \in Provider : Age(p) \/ Break(p) \/ Repair(p)
-----------------------------------------------------------------------------
(* A provider in use has a failure to spare: whichever requests and checks
   report, in whatever order their reports reach the list, the pool never
   goes on choosing a provider that has used up max_failures
   (providers.rs:325-336). *)
HealthyBelowMax == \A p \in Provider : is_healthy[p] => consecutive_failures[p] < MaxFailures

(* README.md:611 of rpc-proxy, "Automatic Recovery: Failed providers restored
   when healthy": a provider that stays in order is in use again, and again
   after every report of a failure that was on its way. *)
FailedProvidersRecover ==
  \A p \in Provider : <>[](p \notin faulty) => []<>is_healthy[p]
=============================================================================
