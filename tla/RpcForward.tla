------------------------------ MODULE RpcForward ------------------------------
(***************************************************************************)
(* RpcHandler::forward_request of crates/rpc-proxy/src/rpc.rs: concurrent  *)
(* requests that try providers of the shared pool, at most MAX_RETRIES     *)
(* times each, with the pool's own health checks running beside them       *)
(* (crates/rpc-proxy/src/proxy.rs starts the periodic one).                *)
(***************************************************************************)
EXTENDS ProviderManager, FiniteSets

CONSTANTS Request,     \* the requests forwarded at the same time
          Error,       \* error signatures, create_error_signature
          Hard,        \* the requests that some providers may not answer well
          Periodic,    \* the task of the periodic health check, no Checker where
                       \* its interval is longer than all that is modelled
          NoProvider,
          MAX_RETRIES, MAX_MULTIPLE_SAME_ERROR

ASSUME CheckersAssumption ==
  Checker \in {Request, Request \union {Periodic}} /\ Periodic \notin Request
ASSUME HardAssumption == Hard \subseteq Request
ASSUME ProvidersAssumption == IsFiniteSet(Provider) /\ NoProvider \notin Provider
ASSUME RetriesAssumption ==
  /\ MAX_RETRIES \in Nat \ {0}
  /\ MAX_MULTIPLE_SAME_ERROR \in Nat \ {0}

VARIABLES
  stage,          \* where the loop of request r stands
  retry,          \* its index
  tried,          \* tried_providers
  provider,       \* the provider_url being asked
  errors,         \* error_responses: how often each signature was received
  network_error,  \* last_network_error is Some
  answer,         \* what the caller got: "ok", "user_error", "err", an Error
  steady,         \* history: providers in use that served r ever since it began
  refusing        \* the providers that answer r with an error only, or with what
                  \* is_rate_limit_response takes for a rate limit

requestVars == <<stage, retry, tried, provider, errors, network_error, answer>>
allVars == <<vars, requestVars, steady, refusing>>

None == "none"
ASSUME ErrorAssumption == Error \intersect {None, "ok", "user_error", "err"} = {}

Refusals == {f \in [Request -> SUBSET Provider] : \A r \in Request \ Hard : f[r] = {}}

ForwardTypeOK ==
  /\ TypeOK
  /\ stage \in [Request -> {"new", "choosing", "checking", "sent", "answered"}]
  /\ retry \in [Request -> 0..(MAX_RETRIES - 1)]
  /\ tried \in [Request -> SUBSET Provider]
  /\ provider \in [Request -> Provider \union {NoProvider}]
  /\ errors \in [Request -> [Error -> 0..MAX_MULTIPLE_SAME_ERROR]]
  /\ network_error \in [Request -> BOOLEAN]
  /\ answer \in [Request -> {None, "ok", "user_error", "err"} \union Error]
  /\ steady \in [Request -> SUBSET Provider]
  /\ refusing \in Refusals

Serving(r) == {p \in Provider : is_healthy[p] /\ p \notin faulty \union refusing[r]}

ForwardInit ==
  /\ Init
  /\ stage = [r \in Request |-> "new"]
  /\ retry = [r \in Request |-> 0]
  /\ tried = [r \in Request |-> {}]
  /\ provider = [r \in Request |-> NoProvider]
  /\ errors = [r \in Request |-> [e \in Error |-> 0]]
  /\ network_error = [r \in Request |-> FALSE]
  /\ answer = [r \in Request |-> None]
  /\ steady = [r \in Request |-> {}]
  /\ refusing \in Refusals
-----------------------------------------------------------------------------
ForwardRequest(r) ==
  /\ stage[r] = "new"
  /\ stage' = [stage EXCEPT ![r] = "choosing"]
  /\ UNCHANGED <<vars, retry, tried, provider, errors, network_error, answer>>

(* get_weighted_provider_excluding: every tier has a positive weight, so any
   provider in use that was not tried may be drawn. *)
AvailableUnfiltered(r) == {p \in Provider : is_healthy[p]}

Available(r) == {p \in Provider : is_healthy[p] /\ p \notin tried[r]}

Ask(r) ==
  /\ stage[r] = "choosing"
  /\ \E p \in Available(r) :
        /\ provider' = [provider EXCEPT ![r] = p]
        /\ tried' = [tried EXCEPT ![r] = @ \union {p}]
  /\ stage' = [stage EXCEPT ![r] = "sent"]
  /\ UNCHANGED <<vars, retry, errors, network_error, answer>>

(* The loop's next turn. *)
Continue(r) ==
  /\ retry' = [retry EXCEPT ![r] = @ + 1]
  /\ stage' = [stage EXCEPT ![r] = "choosing"]

Answer(r, a) ==
  /\ answer' = [answer EXCEPT ![r] = a]
  /\ stage' = [stage EXCEPT ![r] = "answered"]

LastRetry(r) == retry[r] = MAX_RETRIES - 1

(* The end of the loop: the most common of the errors received, if any. *)
MostCommon(received) ==
  {e \in Error : received[e] > 0 /\ \A f \in Error : received[f] <= received[e]}

LeaveLoop(r, received) ==
  /\ IF MostCommon(received) = {}
       THEN Answer(r, "err")
       ELSE \E e \in MostCommon(received) : Answer(r, e)
  /\ UNCHANGED retry

NoneLeftUncounted(r) ==
  /\ stage[r] = "choosing" /\ Available(r) = {} /\ ~LastRetry(r)
  /\ HealthCheckAll(r)
  /\ stage' = [stage EXCEPT ![r] = "checking"]
  /\ UNCHANGED <<retry, tried, provider, errors, network_error, answer>>

(* Every provider in use was tried: check the health of all ... *)
NoneLeft(r) ==
  /\ stage[r] = "choosing" /\ Available(r) = {} /\ ~LastRetry(r)
  /\ HealthCheckAll(r)
  /\ stage' = [stage EXCEPT ![r] = "checking"]
  /\ retry' = [retry EXCEPT ![r] = @ + 1]
  /\ UNCHANGED <<tried, provider, errors, network_error, answer>>

(* ... and, when the results are applied, forget which were tried. *)
Rechecked(r) ==
  /\ stage[r] = "checking" /\ ~Checking(r)
  /\ tried' = [tried EXCEPT ![r] = {}]
  /\ stage' = [stage EXCEPT ![r] = "choosing"]
  /\ UNCHANGED <<vars, retry, provider, errors, network_error, answer>>

GiveUp(r) ==
  /\ stage[r] = "choosing" /\ Available(r) = {} /\ LastRetry(r)
  /\ LeaveLoop(r, errors[r])
  /\ UNCHANGED <<vars, tried, provider, errors, network_error>>

(* The provider asked is out of order or does not serve r, which others may. *)
Misanswers(r) == provider[r] \in faulty \union refusing[r]

(* A rate limit by its status, its code, or any text in the answer, also in a
   good one.  Not counted as an error. *)
RateLimited(r) ==
  /\ stage[r] = "sent" /\ Misanswers(r)
  /\ MarkProviderFailed(provider[r])
  /\ IF LastRetry(r) THEN LeaveLoop(r, errors[r]) ELSE Continue(r) /\ UNCHANGED answer
  /\ UNCHANGED <<checks, faulty, tried, provider, errors, network_error>>

(* No answer, an unreadable body or one that is not JSON. *)
NetworkError(r) ==
  /\ stage[r] = "sent" /\ provider[r] \in faulty
  /\ MarkProviderFailed(provider[r])
  /\ network_error' = [network_error EXCEPT ![r] = TRUE]
  /\ IF LastRetry(r) THEN LeaveLoop(r, errors[r]) ELSE Continue(r) /\ UNCHANGED answer
  /\ UNCHANGED <<checks, faulty, tried, provider, errors>>

UserErrorBlamed(r) ==
  /\ stage[r] = "sent" /\ Misanswers(r)
  /\ MarkProviderFailed(provider[r])
  /\ Answer(r, "user_error")
  /\ UNCHANGED <<checks, faulty, retry, tried, provider, errors, network_error>>

(* The code or the text of an error blames the request, a method that this one
   provider does not have among them: that is believed at once, and counts for
   the provider. *)
UserError(r) ==
  /\ stage[r] = "sent" /\ Misanswers(r)
  /\ MarkProviderSuccess(provider[r])
  /\ Answer(r, "user_error")
  /\ UNCHANGED <<checks, faulty, retry, tried, provider, errors, network_error>>

(* Errors are counted by their signature: code, message and simple data. *)
Received(r, e) == [errors[r] EXCEPT ![e] = @ + 1]

(* Any other error: believed when it was received MAX_MULTIPLE_SAME_ERROR
   times, and then the provider is not blamed. *)
ProviderError(r, e) ==
  LET received == Received(r, e)
  IN
  /\ stage[r] = "sent" /\ Misanswers(r)
  /\ errors' = [errors EXCEPT ![r] = received]
  /\ IF received[e] >= MAX_MULTIPLE_SAME_ERROR
       THEN Answer(r, e) /\ UNCHANGED <<poolVars, retry>>
       ELSE /\ MarkProviderFailed(provider[r])
            /\ IF LastRetry(r) THEN LeaveLoop(r, received) ELSE Continue(r) /\ UNCHANGED answer
  /\ UNCHANGED <<checks, faulty, tried, provider, network_error>>

Success(r) ==
  /\ stage[r] = "sent" /\ ~Misanswers(r)
  /\ MarkProviderSuccess(provider[r])
  /\ Answer(r, "ok")
  /\ UNCHANGED <<checks, faulty, retry, tried, provider, errors, network_error>>

RequestStep(r) ==
  \/ Ask(r) \/ NoneLeft(r) \/ Rechecked(r) \/ GiveUp(r)
  \/ RateLimited(r) \/ NetworkError(r) \/ UserError(r) \/ Success(r)
  \/ \E e \in Error : ProviderError(r, e)

PeriodicCheck ==
  /\ Periodic \in Checker
  /\ HealthCheckAll(Periodic)
  /\ UNCHANGED requestVars
Checks == \E h \in Checker : CheckStep(h) /\ UNCHANGED requestVars
World == Environment /\ UNCHANGED requestVars

(* What the history variable remembers of a step. *)
Observe == UNCHANGED refusing /\
  steady' = [r \in Request |->
     CASE stage'[r] = "new" -> {}
       [] stage[r] = "new" /\ stage'[r] # "new" -> Serving(r)'
       [] stage[r] = "answered" -> steady[r]
       [] OTHER -> steady[r] \intersect Serving(r)']

ForwardNext ==
  /\ \/ \E r \in Request : ForwardRequest(r) \/ RequestStep(r)
     \/ PeriodicCheck
     \/ Checks
     \/ World
  /\ Observe

ForwardSpec == ForwardInit /\ [][ForwardNext]_allVars

(* A request's upstream call ends by the client's timeout of 10 seconds, a
   probe by one of 5, and the periodic task's interval elapses again and
   again. *)
ForwardFairSpec ==
  /\ ForwardSpec
  /\ \A r \in Request : WF_allVars(RequestStep(r) /\ Observe)
  /\ \A h \in Checker : WF_allVars(CheckStep(h) /\ UNCHANGED requestVars /\ Observe)
  /\ WF_allVars(PeriodicCheck /\ Observe)
-----------------------------------------------------------------------------
(* forward_request is the proxy's failover: a request that no provider blames
   on the user does not fail while one that serves it stays in use from its
   beginning to its end, whatever the others answer and whatever other requests
   and checks report meanwhile.  Provided that the loop has a turn for each
   provider, and that too few of them can fail to serve it for the loop to
   believe an error that they all answer (rpc.rs:551-559).  The exception is as
   wide as the code makes it: the first provider that says that it has no such
   method ends the request, whoever else has it (rpc.rs:526-534). *)
EnoughTurns(r) ==
  /\ Cardinality(Provider) <= MAX_RETRIES
  /\ Cardinality(Flaky \union refusing[r]) < MAX_MULTIPLE_SAME_ERROR

Failover ==
  \A r \in Request :
     EnoughTurns(r) /\ answer[r] \notin {None, "ok", "user_error"} => steady[r] = {}

(* Users cannot talk the pool out of its providers: a provider leaves the pool
   in a step only if it is out of order, or was asked something that it does not
   serve and that it does not blame on the user, or a check saw it out of
   order. *)
DemotedForCause ==
  [][\A p \in Provider : is_healthy[p] /\ ~is_healthy'[p] =>
       \/ p \in faulty
       \/ \E r \in Request : /\ p \in refusing[r] /\ stage[r] = "sent" /\ provider[r] = p
                            /\ answer'[r] # "user_error"
       \/ \E h \in Checker : checks[h][p] = "err"]_allVars

(* Every request is answered, also when no provider works. *)
RequestsAreAnswered == \A r \in Request : stage[r] = "choosing" ~> stage[r] = "answered"

(* An outage ends for both: requests that meet it are answered, and providers
   that recover from it are chosen again, whichever of the two come first
   (rpc.rs:421-610, providers.rs:325-380). *)
RecoversAndAnswers == FailedProvidersRecover /\ RequestsAreAnswered
=============================================================================
