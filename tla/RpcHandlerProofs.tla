--------------------------- MODULE RpcHandlerProofs ---------------------------
(***************************************************************************)
(* Proofs about ProviderManager, RpcForward and RpcHandler, for any        *)
(* providers, requests, retries and workloads.  The forwarding alone: its  *)
(* types, that the pool never goes on using a provider that has used up    *)
(* its failures, that a request fails over to the provider that can answer *)
(* it, and that no provider is given up without a cause.  The handler      *)
(* around it implements the forwarding, so all of that holds of it too;    *)
(* and what it sends are answers to the questions asked, of the time when   *)
(* they were asked.                                                        *)
(***************************************************************************)
EXTENDS RpcHandler, FiniteSetTheorems, TLAPS

Running(r) == stage[r] \in {"choosing", "checking", "sent"}

(* The providers that r asked and that did not answer it. *)
Asked(r) == IF stage[r] = "sent" THEN tried[r] \ {provider[r]} ELSE tried[r]

(* One request in its loop. *)
LoopAt(r) ==
  /\ stage[r] = "new" => /\ tried[r] = {} /\ retry[r] = 0 /\ steady[r] = {}
                         /\ \A e \in Error : errors[r][e] = 0
  /\ stage[r] = "sent" => provider[r] \in tried[r]
  /\ stage[r] # "answered" =>
       answer[r] = None /\ \A e \in Error : errors[r][e] < MAX_MULTIPLE_SAME_ERROR
  /\ Running(r) => steady[r] \subseteq Serving(r)

(* The providers that may fail to answer r. *)
Unreliable(r) == Flaky \union refusing[r]

(* While a provider that serves r stays in use, every turn of the loop goes to
   another one that does not, and none of those is asked twice. *)
AloneAt(r) ==
  EnoughTurns(r) /\ steady[r] # {} =>
    /\ stage[r] = "answered" => answer[r] \in {"ok", "user_error"}
    /\ Running(r) =>
         /\ stage[r] # "checking"
         /\ Asked(r) \subseteq Unreliable(r) \ steady[r]
         /\ retry[r] = Cardinality(Asked(r))
         /\ \A e \in Error : errors[r][e] <= retry[r]

LoopInv == \A r \in Request : LoopAt(r)
AloneInOrder == \A r \in Request : AloneAt(r)

PoolInv == TypeOK /\ HealthyBelowMax

IInv == ForwardTypeOK /\ HealthyBelowMax /\ LoopInv /\ AloneInOrder

USE MaxFailuresAssumption, FlakyAssumption, CheckersAssumption, HardAssumption,
    ProvidersAssumption, RetriesAssumption, ErrorAssumption
-----------------------------------------------------------------------------
(* The pool: what the reports of requests and of checks do to it. *)

LEMMA FailedFacts ==
  ASSUME PoolInv, NEW p \in Provider, MarkProviderFailed(p)
  PROVE  /\ is_healthy' \in [Provider -> BOOLEAN]
         /\ consecutive_failures' \in [Provider -> 0..FailureBound]
         /\ recent' = recent
         /\ HealthyBelowMax'
         /\ \A q \in Provider : is_healthy[q] /\ ~is_healthy'[q] => q = p
<1> USE DEF PoolInv, TypeOK, MarkProviderFailed, FailureBound
<1>1. is_healthy' \in [Provider -> BOOLEAN]
  OBVIOUS
<1>2. consecutive_failures' \in [Provider -> 0..FailureBound]
  OBVIOUS
<1>3. HealthyBelowMax'
  BY DEF HealthyBelowMax
<1>4. \A q \in Provider : is_healthy[q] /\ ~is_healthy'[q] => q = p
  OBVIOUS
<1> QED
  BY <1>1, <1>2, <1>3, <1>4

LEMMA SuccessFacts ==
  ASSUME PoolInv, NEW p \in Provider, MarkProviderSuccess(p)
  PROVE  /\ is_healthy' \in [Provider -> BOOLEAN]
         /\ consecutive_failures' \in [Provider -> 0..FailureBound]
         /\ recent' \subseteq Provider
         /\ HealthyBelowMax'
         /\ \A q \in Provider : is_healthy[q] => is_healthy'[q]
<1> USE DEF PoolInv, TypeOK, MarkProviderSuccess, FailureBound
<1>1. is_healthy' \in [Provider -> BOOLEAN]
  OBVIOUS
<1>2. consecutive_failures' \in [Provider -> 0..FailureBound]
  OBVIOUS
<1>3. HealthyBelowMax'
  BY DEF HealthyBelowMax
<1>4. \A q \in Provider : is_healthy[q] => is_healthy'[q]
  OBVIOUS
<1> QED
  BY <1>1, <1>2, <1>3, <1>4

LEMMA CheckAllFacts ==
  ASSUME PoolInv, NEW h \in Checker, HealthCheckAll(h)
  PROVE  PoolInv' /\ UNCHANGED <<is_healthy, faulty>>
<1>1. checks' \in [Checker -> [Provider -> {"none", "probing", "ok", "err"}]]
  BY DEF HealthCheckAll, PoolInv, TypeOK
<1> QED
  BY <1>1 DEF HealthCheckAll, PoolInv, TypeOK, HealthyBelowMax, poolVars

LEMMA CheckFacts ==
  ASSUME PoolInv, NEW h \in Checker, CheckStep(h)
  PROVE  /\ PoolInv'
         /\ faulty' = faulty
         /\ \A q \in Provider : is_healthy[q] /\ ~is_healthy'[q] => checks[h][q] = "err"
<1> USE DEF PoolInv, TypeOK
<1>1. PICK p \in Provider : CheckProviderHealth(h, p) \/ ApplyCheck(h, p)
  BY DEF CheckStep
<1>2. checks' \in [Checker -> [Provider -> {"none", "probing", "ok", "err"}]]
  BY <1>1 DEF CheckProviderHealth, ApplyCheck
<1>3. CASE CheckProviderHealth(h, p)
  BY <1>2, <1>3 DEF CheckProviderHealth, poolVars, HealthyBelowMax
<1>4. CASE ApplyCheck(h, p) /\ checks[h][p] = "ok" /\ MarkProviderSuccess(p)
  BY <1>2, <1>4, SuccessFacts DEF ApplyCheck
<1>5. CASE ApplyCheck(h, p) /\ checks[h][p] = "err" /\ MarkProviderFailed(p)
  BY <1>2, <1>5, FailedFacts DEF ApplyCheck
<1> QED
  BY <1>1, <1>3, <1>4, <1>5 DEF ApplyCheck

LEMMA EnvironmentFacts ==
  ASSUME PoolInv, Environment
  PROVE  PoolInv' /\ is_healthy' = is_healthy
<1>1. PICK p \in Provider : Age(p) \/ Break(p) \/ Repair(p)
  BY DEF Environment
<1> QED
  BY <1>1 DEF Age, Break, Repair, poolVars, PoolInv, TypeOK, HealthyBelowMax
-----------------------------------------------------------------------------
(* One turn of a request. *)

RequestTypes ==
  /\ stage \in [Request -> {"new", "choosing", "checking", "sent", "answered"}]
  /\ retry \in [Request -> 0..(MAX_RETRIES - 1)]
  /\ tried \in [Request -> SUBSET Provider]
  /\ provider \in [Request -> Provider \union {NoProvider}]
  /\ errors \in [Request -> [Error -> 0..MAX_MULTIPLE_SAME_ERROR]]
  /\ network_error \in [Request -> BOOLEAN]
  /\ answer \in [Request -> {None, "ok", "user_error", "err"} \union Error]

Same(r) ==
  /\ stage'[r] = stage[r] /\ retry'[r] = retry[r] /\ tried'[r] = tried[r]
  /\ provider'[r] = provider[r] /\ errors'[r] = errors[r] /\ answer'[r] = answer[r]

(* The four things that a step can be for its request. *)
Asks(r) ==
  /\ stage[r] = "choosing" /\ stage'[r] = "sent"
  /\ provider'[r] \in Available(r) /\ tried'[r] = tried[r] \union {provider'[r]}
  /\ retry'[r] = retry[r] /\ errors'[r] = errors[r] /\ answer'[r] = answer[r]

Rechecks(r) ==
  /\ \/ stage[r] = "choosing" /\ Available(r) = {} /\ stage'[r] = "checking"
     \/ stage[r] = "checking" /\ stage'[r] = "choosing"
  /\ errors'[r] = errors[r] /\ answer'[r] = answer[r]

Turns(r) ==
  /\ stage[r] = "sent" /\ stage'[r] = "choosing"
  /\ Misanswers(r)
  /\ retry'[r] = retry[r] + 1
  /\ tried'[r] = tried[r] /\ answer'[r] = answer[r]
  /\ \A e \in Error : /\ errors'[r][e] <= errors[r][e] + 1
                      /\ errors'[r][e] < MAX_MULTIPLE_SAME_ERROR

Answers(r) ==
  /\ stage[r] \in {"choosing", "sent"} /\ stage'[r] = "answered"
  /\ \/ answer'[r] \in {"ok", "user_error"}
     \/ stage[r] = "choosing" /\ Available(r) = {}
     \/ /\ stage[r] = "sent" /\ Misanswers(r)
        /\ \/ LastRetry(r)
           \/ \E e \in Error : errors[r][e] + 1 >= MAX_MULTIPLE_SAME_ERROR

(* The end of the loop changes the stage and the answer of its request. *)
LEMMA LeaveLoopFacts ==
  ASSUME RequestTypes, NEW r \in Request, NEW received, LeaveLoop(r, received)
  PROVE  /\ stage' = [stage EXCEPT ![r] = "answered"]
         /\ \E a \in {"err"} \union Error : answer' = [answer EXCEPT ![r] = a]
         /\ retry' = retry
  BY DEF LeaveLoop, Answer, MostCommon

LEMMA RequestStepFacts ==
  ASSUME PoolInv, RequestTypes, LoopInv, NEW r \in Request, RequestStep(r)
  PROVE  /\ PoolInv' /\ faulty' = faulty /\ RequestTypes'
         /\ \A s \in Request \ {r} : Same(s)
         /\ Asks(r) \/ Rechecks(r) \/ Turns(r) \/ Answers(r)
<1> USE DEF RequestTypes
<1>a. r \in Checker
  OBVIOUS
<1>b. ~LastRetry(r) => retry[r] + 1 \in 0..(MAX_RETRIES - 1)
  BY DEF LastRetry
<1>1. CASE Ask(r)
  <2>1. PICK p \in Available(r) : /\ provider' = [provider EXCEPT ![r] = p]
                                  /\ tried' = [tried EXCEPT ![r] = @ \union {p}]
    BY <1>1 DEF Ask
  <2>2. p \in Provider
    BY <2>1 DEF Available
  <2>3. RequestTypes'
    BY <1>1, <2>1, <2>2 DEF Ask
  <2>4. PoolInv' /\ faulty' = faulty
    BY <1>1 DEF Ask, vars, PoolInv, TypeOK, HealthyBelowMax
  <2>5. Asks(r) /\ \A s \in Request \ {r} : Same(s)
    BY <1>1, <2>1 DEF Ask, Asks, Same
  <2> QED
    BY <2>3, <2>4, <2>5
<1>2. CASE NoneLeft(r)
  <2>1. PoolInv' /\ faulty' = faulty
    BY <1>2, <1>a, CheckAllFacts DEF NoneLeft
  <2>2. retry' \in [Request -> 0..(MAX_RETRIES - 1)]
    BY <1>2, <1>b DEF NoneLeft
  <2>3. RequestTypes'
    BY <1>2, <2>2 DEF NoneLeft
  <2>4. Rechecks(r) /\ \A s \in Request \ {r} : Same(s)
    BY <1>2 DEF NoneLeft, Rechecks, Same
  <2> QED
    BY <2>1, <2>3, <2>4
<1>3. CASE Rechecked(r)
  <2>1. PoolInv' /\ faulty' = faulty
    BY <1>3 DEF Rechecked, vars, PoolInv, TypeOK, HealthyBelowMax
  <2>2. RequestTypes'
    BY <1>3 DEF Rechecked
  <2>3. Rechecks(r) /\ \A s \in Request \ {r} : Same(s)
    BY <1>3 DEF Rechecked, Rechecks, Same
  <2> QED
    BY <2>1, <2>2, <2>3
<1>4. CASE GiveUp(r)
  <2>1. PoolInv' /\ faulty' = faulty
    BY <1>4 DEF GiveUp, vars, PoolInv, TypeOK, HealthyBelowMax
  <2>2. PICK a \in {"err"} \union Error : answer' = [answer EXCEPT ![r] = a]
    BY <1>4, LeaveLoopFacts DEF GiveUp
  <2>3. stage' = [stage EXCEPT ![r] = "answered"] /\ retry' = retry
    BY <1>4, LeaveLoopFacts DEF GiveUp
  <2>4. RequestTypes'
    BY <1>4, <2>2, <2>3 DEF GiveUp
  <2>5. Answers(r) /\ \A s \in Request \ {r} : Same(s)
    BY <1>4, <2>2, <2>3 DEF GiveUp, Answers, Same
  <2> QED
    BY <2>1, <2>4, <2>5
<1>c. ASSUME stage[r] = "sent" PROVE provider[r] \in Provider
  BY <1>c DEF LoopInv, LoopAt
<1>p. ASSUME stage[r] = "sent", MarkProviderFailed(provider[r]), UNCHANGED <<checks, faulty>>
      PROVE  PoolInv' /\ faulty' = faulty
  BY <1>c, <1>p, FailedFacts DEF PoolInv, TypeOK
<1>q. ASSUME stage[r] = "sent", MarkProviderSuccess(provider[r]), UNCHANGED <<checks, faulty>>
      PROVE  PoolInv' /\ faulty' = faulty
  BY <1>c, <1>q, SuccessFacts DEF PoolInv, TypeOK
(* A turn that got no answer it counts: the next one, or the end. *)
<1>t. ASSUME NEW received, stage[r] = "sent", Misanswers(r),
             IF LastRetry(r) THEN LeaveLoop(r, received) ELSE Continue(r) /\ UNCHANGED answer,
             UNCHANGED <<tried, provider>>,
             network_error' \in [Request -> BOOLEAN],
             errors' \in [Request -> [Error -> 0..MAX_MULTIPLE_SAME_ERROR]],
             \A s \in Request \ {r} : errors'[s] = errors[s],
             \A e \in Error : /\ errors'[r][e] <= errors[r][e] + 1
                              /\ errors'[r][e] < MAX_MULTIPLE_SAME_ERROR
      PROVE  /\ RequestTypes'
             /\ \A s \in Request \ {r} : Same(s)
             /\ Turns(r) \/ Answers(r)
  <2>1. CASE LastRetry(r)
    <3>1. PICK a \in {"err"} \union Error : answer' = [answer EXCEPT ![r] = a]
      BY <1>t, <2>1, LeaveLoopFacts
    <3>2. stage' = [stage EXCEPT ![r] = "answered"] /\ retry' = retry
      BY <1>t, <2>1, LeaveLoopFacts
    <3>3. RequestTypes'
      BY <1>t, <3>1, <3>2
    <3>4. Answers(r) /\ \A s \in Request \ {r} : Same(s)
      BY <1>t, <2>1, <3>1, <3>2 DEF Answers, Same
    <3> QED
      BY <3>3, <3>4
  <2>2. CASE ~LastRetry(r)
    <3>1. Continue(r) /\ UNCHANGED answer
      BY <1>t, <2>2
    <3>2. retry' \in [Request -> 0..(MAX_RETRIES - 1)]
      BY <2>2, <3>1, <1>b DEF Continue
    <3>3. RequestTypes'
      BY <1>t, <3>1, <3>2 DEF Continue
    <3>4. Turns(r) /\ \A s \in Request \ {r} : Same(s)
      BY <1>t, <3>1 DEF Turns, Same, Continue
    <3> QED
      BY <3>3, <3>4
  <2> QED
    BY <2>1, <2>2
<1>d. ASSUME stage[r] = "sent"
      PROVE  \A e \in Error : /\ errors[r][e] \in Nat
                              /\ errors[r][e] < MAX_MULTIPLE_SAME_ERROR
  BY <1>d DEF LoopInv, LoopAt
<1>5. CASE RateLimited(r)
  <2>1. PoolInv' /\ faulty' = faulty
    BY <1>5, <1>p DEF RateLimited
  <2>2. \A e \in Error : /\ errors'[r][e] <= errors[r][e] + 1
                         /\ errors'[r][e] < MAX_MULTIPLE_SAME_ERROR
    BY <1>5, <1>d DEF RateLimited
  <2> QED
    BY <1>5, <1>t, <2>1, <2>2 DEF RateLimited
<1>6. CASE NetworkError(r)
  <2>1. PoolInv' /\ faulty' = faulty
    BY <1>6, <1>p DEF NetworkError
  <2>2. \A e \in Error : /\ errors'[r][e] <= errors[r][e] + 1
                         /\ errors'[r][e] < MAX_MULTIPLE_SAME_ERROR
    BY <1>6, <1>d DEF NetworkError
  <2> QED
    BY <1>6, <1>t, <2>1, <2>2 DEF NetworkError, Misanswers
<1>7. CASE UserError(r)
  <2>1. PoolInv' /\ faulty' = faulty
    BY <1>7, <1>q DEF UserError
  <2>2. RequestTypes'
    BY <1>7 DEF UserError, Answer
  <2>3. Answers(r) /\ \A s \in Request \ {r} : Same(s)
    BY <1>7 DEF UserError, Answer, Answers, Same
  <2> QED
    BY <2>1, <2>2, <2>3
<1>8. CASE Success(r)
  <2>1. PoolInv' /\ faulty' = faulty
    BY <1>8, <1>q DEF Success
  <2>2. RequestTypes'
    BY <1>8 DEF Success, Answer
  <2>3. Answers(r) /\ \A s \in Request \ {r} : Same(s)
    BY <1>8 DEF Success, Answer, Answers, Same
  <2> QED
    BY <2>1, <2>2, <2>3
<1>9. ASSUME NEW e \in Error, ProviderError(r, e)
      PROVE  /\ PoolInv' /\ faulty' = faulty /\ RequestTypes'
             /\ \A s \in Request \ {r} : Same(s)
             /\ Turns(r) \/ Answers(r)
  <2> DEFINE received == [errors[r] EXCEPT ![e] = @ + 1]
  <2>1. /\ stage[r] = "sent" /\ Misanswers(r)
        /\ errors' = [errors EXCEPT ![r] = received]
        /\ UNCHANGED <<checks, faulty, tried, provider, network_error>>
    BY <1>9 DEF ProviderError, Received
  <2>2. received \in [Error -> 0..MAX_MULTIPLE_SAME_ERROR]
    BY <2>1, <1>d
  <2>3. errors' \in [Request -> [Error -> 0..MAX_MULTIPLE_SAME_ERROR]]
    BY <2>1, <2>2
  <2>4. errors'[r] = received /\ \A s \in Request \ {r} : errors'[s] = errors[s]
    BY <2>1
  <2>5. CASE received[e] >= MAX_MULTIPLE_SAME_ERROR
    <3>1. Answer(r, e) /\ UNCHANGED <<poolVars, retry>>
      BY <1>9, <2>5 DEF ProviderError, Received
    <3>2. PoolInv'
      BY <2>1, <3>1 DEF poolVars, PoolInv, TypeOK, HealthyBelowMax
    <3>3. RequestTypes'
      BY <2>1, <2>3, <3>1 DEF Answer
    <3>4. errors[r][e] + 1 >= MAX_MULTIPLE_SAME_ERROR
      BY <2>5
    <3>5. Answers(r) /\ \A s \in Request \ {r} : Same(s)
      BY <2>1, <2>4, <3>1, <3>4 DEF Answer, Answers, Same
    <3> QED
      BY <2>1, <3>2, <3>3, <3>5
  <2>6. CASE ~(received[e] >= MAX_MULTIPLE_SAME_ERROR)
    <3>1. /\ MarkProviderFailed(provider[r])
          /\ IF LastRetry(r) THEN LeaveLoop(r, received) ELSE Continue(r) /\ UNCHANGED answer
      BY <1>9, <2>6 DEF ProviderError, Received
    <3>2. PoolInv'
      BY <2>1, <3>1, <1>p
    <3>3. \A f \in Error : /\ received[f] <= errors[r][f] + 1
                           /\ received[f] < MAX_MULTIPLE_SAME_ERROR
      BY <2>1, <2>2, <2>6, <1>d
    <3> HIDE DEF received
    <3> QED
      BY <2>1, <2>3, <2>4, <3>1, <3>2, <3>3, <1>t
  <2> QED
    BY <2>5, <2>6
<1> QED
  BY <1>1, <1>2, <1>3, <1>4, <1>5, <1>6, <1>7, <1>8, <1>9 DEF RequestStep
-----------------------------------------------------------------------------
(* The loop's invariant. *)

LEMMA Observed ==
  ASSUME Observe, NEW s \in Request
  PROVE  /\ stage'[s] = "new" /\ stage[s] # "answered" => steady'[s] = {}
         /\ stage'[s] # "new" /\ stage[s] = "new" => steady'[s] = Serving(s)'
         /\ stage'[s] # "new" /\ stage[s] = "answered" => steady'[s] = steady[s]
         /\ stage'[s] # "new" /\ stage[s] \notin {"new", "answered"} =>
              steady'[s] = steady[s] \intersect Serving(s)'
<1>1. steady'[s] = CASE stage'[s] = "new" -> {}
                     [] stage[s] = "new" /\ stage'[s] # "new" -> Serving(s)'
                     [] stage[s] = "answered" -> steady[s]
                     [] OTHER -> steady[s] \intersect Serving(s)'
  BY DEF Observe
<1>2. CASE stage'[s] = "new" /\ stage[s] # "answered"
  BY <1>1, <1>2
<1>3. CASE stage'[s] # "new" /\ stage[s] = "new"
  BY <1>1, <1>3
<1>4. CASE stage'[s] # "new" /\ stage[s] = "answered"
  BY <1>1, <1>4
<1>5. CASE stage'[s] # "new" /\ stage[s] \notin {"new", "answered"}
  BY <1>1, <1>5
<1> QED
  BY <1>2, <1>3, <1>4, <1>5

LEMMA Untouched ==
  ASSUME IInv, Observe, NEW s \in Request, Same(s)
  PROVE  LoopAt(s)' /\ AloneAt(s)'
<1> USE Observed DEF IInv, Same
<1>1. LoopAt(s)
  BY DEF LoopInv
<1>2. AloneAt(s)
  BY DEF AloneInOrder
<1>3. stage[s] \in {"new", "choosing", "checking", "sent", "answered"}
  BY DEF ForwardTypeOK
<1>4. steady'[s] \subseteq steady[s]
  BY <1>1, <1>3 DEF LoopAt
<1>5. (Running(s))' => Running(s) /\ steady'[s] \subseteq Serving(s)'
  BY DEF Running
<1>6. LoopAt(s)'
  BY <1>1, <1>5 DEF LoopAt
<1>7. Asked(s)' = Asked(s)
  BY DEF Asked
<1>8. Unreliable(s)' = Unreliable(s) /\ (EnoughTurns(s)' <=> EnoughTurns(s))
  BY DEF Observe, Unreliable, EnoughTurns
<1>9. AloneAt(s)'
  BY <1>2, <1>4, <1>5, <1>7, <1>8 DEF AloneAt
<1> QED
  BY <1>6, <1>9

LEMMA Started ==
  ASSUME IInv, Observe, NEW r \in Request, ForwardRequest(r)
  PROVE  LoopAt(r)' /\ AloneAt(r)'
<1> USE Observed DEF IInv, ForwardRequest
<1>1. LoopAt(r)
  BY DEF LoopInv
<1>2. stage'[r] = "choosing" /\ stage[r] = "new" /\ steady'[r] = Serving(r)'
  BY DEF ForwardTypeOK
<1>3. /\ tried'[r] = {} /\ retry'[r] = 0 /\ answer'[r] = None
      /\ \A e \in Error : errors'[r][e] = 0
  BY <1>1, <1>2 DEF LoopAt
<1>4. LoopAt(r)'
  BY <1>2, <1>3 DEF LoopAt
<1>5. Asked(r)' = {} /\ Cardinality({}) = 0
  BY <1>2, <1>3, FS_EmptySet DEF Asked
<1>6. AloneAt(r)'
  BY <1>2, <1>3, <1>5 DEF AloneAt
<1> QED
  BY <1>4, <1>6

LEMMA Moved ==
  ASSUME IInv, Observe, NEW r \in Request, RequestStep(r)
  PROVE  LoopAt(r)' /\ AloneAt(r)'
<1> USE DEF IInv
<1>1. RequestTypes /\ PoolInv
  BY DEF ForwardTypeOK, RequestTypes, PoolInv
<1>2. /\ faulty' = faulty /\ RequestTypes'
      /\ Asks(r) \/ Rechecks(r) \/ Turns(r) \/ Answers(r)
  BY <1>1, RequestStepFacts
<1>3. LoopAt(r) /\ AloneAt(r)
  BY DEF LoopInv, AloneInOrder
<1>4. /\ Running(r) /\ stage'[r] # "new"
      /\ steady'[r] = steady[r] \intersect Serving(r)'
  BY <1>2, Observed DEF Running, Asks, Rechecks, Turns, Answers
<1>5. LoopAt(r)'
  <2>1. CASE Asks(r)
    BY <1>3, <1>4, <2>1 DEF LoopAt, Asks
  <2>2. CASE Rechecks(r)
    BY <1>3, <1>4, <2>2 DEF LoopAt, Rechecks
  <2>3. CASE Turns(r)
    BY <1>3, <1>4, <2>3 DEF LoopAt, Turns
  <2>4. CASE Answers(r)
    BY <1>3, <1>4, <2>4 DEF LoopAt, Answers, Running
  <2> QED
    BY <1>2, <2>1, <2>2, <2>3, <2>4
<1>u. Unreliable(r)' = Unreliable(r) /\ (EnoughTurns(r)' <=> EnoughTurns(r))
  BY DEF Observe, Unreliable, EnoughTurns
<1>v. Unreliable(r) \subseteq Provider
  BY DEF Unreliable, ForwardTypeOK, Refusals
<1>6. ASSUME EnoughTurns(r), steady'[r] # {}
      PROVE  /\ stage'[r] = "answered" => answer'[r] \in {"ok", "user_error"}
             /\ (Running(r))' => /\ stage'[r] # "checking"
                               /\ Asked(r)' \subseteq Unreliable(r) \ steady'[r]
                               /\ retry'[r] = Cardinality(Asked(r)')
                               /\ \A e \in Error : errors'[r][e] <= retry'[r]
  <2>2. /\ stage[r] # "checking"
        /\ Asked(r) \subseteq Unreliable(r) \ steady[r]
        /\ retry[r] = Cardinality(Asked(r))
        /\ \A e \in Error : errors[r][e] <= retry[r]
    BY <1>3, <1>4, <1>6 DEF AloneAt
  <2>3. PICK p : p \in steady'[r]
    BY <1>6
  <2>4. /\ p \in steady[r] /\ p \in Provider /\ is_healthy[p]
        /\ steady[r] \subseteq Serving(r)
    BY <1>3, <1>4, <2>3 DEF LoopAt, Serving
  <2>5. Asked(r) \subseteq Provider /\ IsFiniteSet(Asked(r))
    BY <1>v, <2>2, FS_Subset
  <2>6. Cardinality(Asked(r)) \in Nat
    BY <2>5, FS_CardinalityType
  <2>7. stage[r] = "choosing" => Available(r) # {}
    BY <2>2, <2>4 DEF Asked, Available
  <2>8. CASE Asks(r)
    <3>1. Asked(r)' = Asked(r)
      BY <2>8 DEF Asks, Asked, Available
    <3> QED
      BY <1>4, <2>2, <2>8, <3>1 DEF Asks
  <2>9. CASE Rechecks(r)
    BY <2>2, <2>7, <2>9 DEF Rechecks
  <2>10. ASSUME stage[r] = "sent", Misanswers(r)
         PROVE  /\ provider[r] \in Unreliable(r) \ steady[r]
                /\ tried[r] = Asked(r) \union {provider[r]}
                /\ Cardinality(tried[r]) = Cardinality(Asked(r)) + 1
    <3>1. provider[r] \in Unreliable(r) \ steady[r]
      BY <2>4, <2>10 DEF Serving, Unreliable, Misanswers, ForwardTypeOK, TypeOK
    <3>2. tried[r] = Asked(r) \union {provider[r]} /\ provider[r] \notin Asked(r)
      BY <1>3, <2>10 DEF LoopAt, Asked
    <3>3. Cardinality(Asked(r) \union {provider[r]}) = Cardinality(Asked(r)) + 1
      BY <3>2, <2>5, FS_AddElement
    <3> QED
      BY <3>1, <3>2, <3>3
  <2>11. CASE Turns(r)
    <3>1. stage[r] = "sent" /\ Misanswers(r)
      BY <2>11 DEF Turns
    <3>2. Asked(r)' = tried[r]
      BY <2>11 DEF Turns, Asked
    <3>3. tried[r] \subseteq Unreliable(r) \ steady'[r]
      BY <1>4, <2>2, <2>10, <3>1
    <3>4. retry'[r] = Cardinality(tried[r])
      BY <2>2, <2>10, <2>11, <3>1 DEF Turns
    <3>5. \A e \in Error : errors'[r][e] <= retry'[r]
      <4>1. \A e \in Error : errors[r][e] \in Nat /\ errors'[r][e] \in Nat
        BY <1>2, <1>1 DEF RequestTypes
      <4> QED
        BY <2>2, <2>6, <2>11, <4>1 DEF Turns
    <3> QED
      BY <2>11, <3>2, <3>3, <3>4, <3>5 DEF Turns
  <2>12. CASE Answers(r)
    <3>1. ASSUME stage[r] = "sent", Misanswers(r), LastRetry(r)
          PROVE  FALSE
      <4>1. tried[r] \subseteq Provider \ {p}
        BY <1>v, <2>2, <2>3, <2>4, <2>10, <3>1
      <4>2. /\ IsFiniteSet(Provider \ {p})
            /\ Cardinality(Provider \ {p}) = Cardinality(Provider) - 1
        BY <2>4, FS_RemoveElement
      <4>3. Cardinality(tried[r]) <= Cardinality(Provider \ {p})
        BY <4>1, <4>2, FS_Subset
      <4>4. Cardinality(Provider) \in Nat /\ Cardinality(Provider) <= MAX_RETRIES
        BY <1>6, FS_CardinalityType DEF EnoughTurns
      <4>5. Cardinality(tried[r]) = MAX_RETRIES
        BY <2>2, <2>6, <2>10, <3>1 DEF LastRetry
      <4> QED
        BY <4>2, <4>3, <4>4, <4>5
    <3>2. ASSUME NEW e \in Error, stage[r] = "sent", Misanswers(r),
                 errors[r][e] + 1 >= MAX_MULTIPLE_SAME_ERROR
          PROVE  FALSE
      <4>1. tried[r] \subseteq Unreliable(r)
        BY <2>2, <2>10, <3>2
      <4>2. IsFiniteSet(Unreliable(r)) /\ Cardinality(Unreliable(r)) \in Nat
        BY <1>v, FS_Subset, FS_CardinalityType
      <4>3. Cardinality(tried[r]) <= Cardinality(Unreliable(r))
        BY <4>1, <4>2, FS_Subset
      <4>4. errors[r][e] \in Nat /\ errors[r][e] <= Cardinality(Asked(r))
        BY <1>1, <2>2 DEF RequestTypes
      <4>5. Cardinality(tried[r]) = Cardinality(Asked(r)) + 1
        BY <2>10, <3>2
      <4> QED
        BY <1>6, <2>6, <3>2, <4>2, <4>3, <4>4, <4>5 DEF EnoughTurns, Unreliable
    <3>3. answer'[r] \in {"ok", "user_error"}
      BY <2>7, <2>12, <3>1, <3>2 DEF Answers
    <3> QED
      BY <2>12, <3>3 DEF Answers, Running
  <2> QED
    BY <1>2, <2>8, <2>9, <2>11, <2>12
<1>7. AloneAt(r)'
  BY <1>6, <1>u DEF AloneAt
<1> QED
  BY <1>5, <1>7

(* A step keeps the invariant if its own request does. *)
LEMMA OneMoves ==
  ASSUME IInv, Observe, PoolInv', RequestTypes',
         \A s \in Request : \/ Same(s)
                            \/ stage[s] # "answered" /\ LoopAt(s)' /\ AloneAt(s)'
  PROVE  IInv'
<1>1. LoopInv' /\ AloneInOrder'
  BY Untouched DEF LoopInv, AloneInOrder
<1>2. ASSUME NEW s \in Request PROVE steady'[s] \subseteq Provider
  <2>1. stage[s] = "answered" => stage'[s] = "answered"
    BY DEF Same
  <2>2. stage'[s] # "new" \/ stage[s] # "answered"
    BY <2>1
  <2>3. steady[s] \subseteq Provider /\ Serving(s)' \subseteq Provider
    BY DEF IInv, ForwardTypeOK, Serving
  <2> QED
    BY <2>2, <2>3, Observed
<1>3. steady' = [r \in Request |-> steady'[r]] /\ refusing' \in Refusals
  BY DEF Observe, IInv, ForwardTypeOK
<1>4. steady' \in [Request -> SUBSET Provider]
  BY <1>2, <1>3
<1>5. ForwardTypeOK'
  BY <1>3, <1>4 DEF ForwardTypeOK, RequestTypes, PoolInv
<1> QED
  BY <1>1, <1>5 DEF IInv, PoolInv

LEMMA InvInit == ForwardInit => IInv
<1> SUFFICES ASSUME ForwardInit PROVE IInv
  OBVIOUS
<1> USE DEF ForwardInit
<1>1. PICK failing \in SUBSET Flaky :
        /\ is_healthy = [p \in Provider |-> p \in Provider \ failing]
        /\ consecutive_failures = [p \in Provider |-> IF p \in Provider \ failing THEN 0 ELSE 1]
        /\ recent = Provider \ failing
        /\ checks = [h \in Checker |-> Unchecked]
        /\ faulty = failing
  BY DEF Init
<1>2. TypeOK
  <2>1. is_healthy \in [Provider -> BOOLEAN]
    BY <1>1
  <2>2. consecutive_failures \in [Provider -> 0..FailureBound]
    BY <1>1 DEF FailureBound
  <2>3. checks \in [Checker -> [Provider -> {"none", "probing", "ok", "err"}]]
    BY <1>1 DEF Unchecked
  <2> QED
    BY <1>1, <2>1, <2>2, <2>3 DEF TypeOK
<1>3. HealthyBelowMax
  <2>1. ASSUME NEW p \in Provider, is_healthy[p] PROVE consecutive_failures[p] = 0
    BY <1>1, <2>1
  <2> QED
    BY <2>1 DEF HealthyBelowMax
<1>4. 0 \in 0..(MAX_RETRIES - 1) /\ 0 \in 0..MAX_MULTIPLE_SAME_ERROR
  OBVIOUS
<1>5. ForwardTypeOK
  BY <1>2, <1>4 DEF ForwardTypeOK
<1>6. LoopInv
  BY DEF LoopInv, LoopAt, Running
<1>7. AloneInOrder
  BY DEF AloneInOrder, AloneAt, Running
<1> QED
  BY <1>3, <1>5, <1>6, <1>7 DEF IInv

LEMMA InvStep == IInv /\ [ForwardNext]_allVars => IInv'
<1> SUFFICES ASSUME IInv, [ForwardNext]_allVars PROVE IInv'
  OBVIOUS
<1>1. RequestTypes /\ PoolInv /\ LoopInv
  BY DEF IInv, ForwardTypeOK, RequestTypes, PoolInv
<1>2. ASSUME NEW r \in Request, ForwardRequest(r), Observe PROVE IInv'
  <2>1. PoolInv'
    BY <1>1, <1>2 DEF ForwardRequest, vars, PoolInv, TypeOK, HealthyBelowMax
  <2>2. RequestTypes' /\ \A s \in Request \ {r} : Same(s)
    BY <1>1, <1>2 DEF ForwardRequest, RequestTypes, Same
  <2>3. stage[r] # "answered" /\ LoopAt(r)' /\ AloneAt(r)'
    BY <1>2, Started DEF ForwardRequest
  <2>4. \A s \in Request : \/ Same(s)
                           \/ stage[s] # "answered" /\ LoopAt(s)' /\ AloneAt(s)'
    BY <2>2, <2>3
  <2> QED
    BY <1>2, <2>1, <2>2, <2>4, OneMoves
<1>3. ASSUME NEW r \in Request, RequestStep(r), Observe PROVE IInv'
  <2>1. /\ PoolInv' /\ RequestTypes'
        /\ \A s \in Request \ {r} : Same(s)
        /\ Asks(r) \/ Rechecks(r) \/ Turns(r) \/ Answers(r)
    BY <1>1, <1>3, RequestStepFacts
  <2>2. stage[r] # "answered"
    BY <2>1 DEF Asks, Rechecks, Turns, Answers
  <2>3. LoopAt(r)' /\ AloneAt(r)'
    BY <1>3, Moved
  <2>4. \A s \in Request : \/ Same(s)
                           \/ stage[s] # "answered" /\ LoopAt(s)' /\ AloneAt(s)'
    BY <2>1, <2>2, <2>3
  <2> QED
    BY <1>3, <2>1, <2>4, OneMoves
<1>4. ASSUME PoolInv', UNCHANGED requestVars, Observe PROVE IInv'
  <2>1. RequestTypes' /\ \A s \in Request : Same(s)
    BY <1>1, <1>4 DEF requestVars, RequestTypes, Same
  <2> QED
    BY <1>4, <2>1, OneMoves
<1>5. ASSUME PeriodicCheck, Observe PROVE IInv'
  BY <1>1, <1>4, <1>5, CheckAllFacts DEF PeriodicCheck
<1>6. ASSUME Checks, Observe PROVE IInv'
  BY <1>1, <1>4, <1>6, CheckFacts DEF Checks
<1>7. ASSUME World, Observe PROVE IInv'
  BY <1>1, <1>4, <1>7, EnvironmentFacts DEF World
<1>8. CASE UNCHANGED allVars
  BY <1>8 DEF allVars, vars, requestVars, IInv, ForwardTypeOK, TypeOK, HealthyBelowMax,
     LoopInv, LoopAt, AloneInOrder, AloneAt, Asked, Running, Serving, Unreliable, EnoughTurns
<1> QED
  BY <1>2, <1>3, <1>5, <1>6, <1>7, <1>8 DEF ForwardNext

(* The inductive invariant of forward_request and the health checks. *)
THEOREM Invariance == ForwardSpec => []IInv
  BY InvInit, InvStep, PTL DEF ForwardSpec

(* The state of the pool and of the requests keeps its types. *)
THEOREM ForwardTypes == ForwardSpec => []ForwardTypeOK
  BY Invariance, PTL DEF IInv

(* The pool never goes on choosing a provider that has used up max_failures
   (providers.rs:325-336), whichever requests and checks report. *)
THEOREM PoolKeepsSpareFailures == ForwardSpec => []HealthyBelowMax
  BY Invariance, PTL DEF IInv

LEMMA FailoverOfInv == IInv => Failover
<1> SUFFICES ASSUME IInv, NEW r \in Request, EnoughTurns(r),
                    answer[r] \notin {None, "ok", "user_error"}, steady[r] # {}
             PROVE  FALSE
  BY DEF Failover
<1>1. LoopAt(r) /\ AloneAt(r)
  BY DEF IInv, LoopInv, AloneInOrder
<1> QED
  BY <1>1 DEF LoopAt, AloneAt

(* A request that nobody blames on the user does not fail while a provider that
   serves it stays in the pool (rpc.rs:421-644). *)
THEOREM RequestsFailOver == ForwardSpec => []Failover
  BY Invariance, FailoverOfInv, PTL

(* What a report of a failure has to do with its provider. *)
LEMMA DemotionStep ==
  ASSUME IInv, [ForwardNext]_allVars, NEW p \in Provider, is_healthy[p], ~is_healthy'[p]
  PROVE  \/ p \in faulty
         \/ \E r \in Request : /\ p \in refusing[r] /\ stage[r] = "sent" /\ provider[r] = p
                              /\ answer'[r] # "user_error"
         \/ \E h \in Checker : checks[h][p] = "err"
<1>1. RequestTypes /\ PoolInv /\ LoopInv
  BY DEF IInv, ForwardTypeOK, RequestTypes, PoolInv
<1>2. CASE Checks
  BY <1>1, <1>2, CheckFacts DEF Checks
<1>3. CASE World
  BY <1>1, <1>3, EnvironmentFacts DEF World
<1>4. CASE PeriodicCheck
  BY <1>1, <1>4, CheckAllFacts DEF PeriodicCheck
<1>5. ASSUME NEW r \in Request, RequestStep(r) PROVE
         p \in faulty \/ (p \in refusing[r] /\ stage[r] = "sent" /\ provider[r] = p
                            /\ answer'[r] # "user_error")
  <2>1. CASE Ask(r) \/ NoneLeft(r) \/ Rechecked(r) \/ GiveUp(r)
    <3>1. is_healthy' = is_healthy
      BY <2>1 DEF Ask, NoneLeft, HealthCheckAll, Rechecked, GiveUp, vars, poolVars
    <3> QED
      BY <3>1
  <2>s. ASSUME stage[r] = "sent" PROVE provider[r] \in Provider /\ answer[r] = None
    BY <1>1, <2>s DEF RequestTypes, LoopInv, LoopAt
  <2>2. ASSUME stage[r] = "sent", MarkProviderSuccess(provider[r]) PROVE FALSE
    BY <1>1, <2>2, <2>s, SuccessFacts
  <2>3. ASSUME NEW received, stage[r] = "sent", MarkProviderFailed(provider[r]),
               Misanswers(r),
               IF LastRetry(r) THEN LeaveLoop(r, received) ELSE Continue(r) /\ UNCHANGED answer
         PROVE  p \in faulty \/ (p \in refusing[r] /\ provider[r] = p /\ answer'[r] # "user_error")
    <3>1. provider[r] = p /\ (p \in faulty \/ p \in refusing[r])
      BY <1>1, <2>3, <2>s, FailedFacts DEF Misanswers
    <3>2. CASE LastRetry(r)
      <4>1. PICK a \in {"err"} \union Error : answer' = [answer EXCEPT ![r] = a]
        BY <1>1, <2>3, <3>2, LeaveLoopFacts
      <4>2. answer'[r] = a /\ a # "user_error"
        BY <1>1, <4>1 DEF RequestTypes
      <4> QED
        BY <2>3, <3>1, <4>2
    <3>3. CASE ~LastRetry(r)
      BY <2>3, <2>s, <3>1, <3>3 DEF None
    <3> QED
      BY <3>2, <3>3
  <2>4. CASE RateLimited(r)
    BY <2>3, <2>4 DEF RateLimited
  <2>5. CASE NetworkError(r)
    BY <2>3, <2>5 DEF NetworkError, Misanswers
  <2>6. CASE UserError(r)
    BY <2>2, <2>6 DEF UserError
  <2>7. CASE Success(r)
    BY <2>2, <2>7 DEF Success
  <2>8. ASSUME NEW e \in Error, ProviderError(r, e)
         PROVE  p \in faulty \/ (p \in refusing[r] /\ stage[r] = "sent" /\ provider[r] = p
                                  /\ answer'[r] # "user_error")
    BY <2>3, <2>8 DEF ProviderError, Received, poolVars
  <2> QED
    BY <1>5, <2>1, <2>4, <2>5, <2>6, <2>7, <2>8 DEF RequestStep
<1>6. ASSUME NEW r \in Request, ForwardRequest(r) PROVE FALSE
  BY <1>6 DEF ForwardRequest, vars
<1>7. CASE UNCHANGED allVars
  BY <1>7 DEF allVars, vars
<1> QED
  BY <1>2, <1>3, <1>4, <1>5, <1>6, <1>7 DEF ForwardNext

(* Users cannot talk the pool out of its providers (rpc.rs:485-560). *)
THEOREM NoDemotionWithoutCause == ForwardSpec => DemotedForCause
<1>1. IInv /\ [ForwardNext]_allVars =>
        [\A p \in Provider : is_healthy[p] /\ ~is_healthy'[p] =>
           \/ p \in faulty
           \/ \E r \in Request : /\ p \in refusing[r] /\ stage[r] = "sent" /\ provider[r] = p
                                /\ answer'[r] # "user_error"
           \/ \E h \in Checker : checks[h][p] = "err"]_allVars
  BY DemotionStep
<1> QED
  BY <1>1, Invariance, PTL DEF ForwardSpec, DemotedForCause
-----------------------------------------------------------------------------
(* The handler implements the forwarding. *)

LEMMA ObserveStutters ==
  ASSUME IInv, Observe, UNCHANGED <<vars, requestVars>>
  PROVE  UNCHANGED allVars
<1>1. ASSUME NEW s \in Request PROVE steady'[s] = steady[s]
  <2>1. LoopAt(s) /\ stage'[s] = stage[s]
    BY DEF IInv, LoopInv, requestVars
  <2>2. stage[s] \in {"new", "choosing", "checking", "sent", "answered"}
    BY DEF IInv, ForwardTypeOK
  <2>3. Serving(s)' = Serving(s)
    BY DEF Serving, vars, Observe
  <2>4. CASE stage[s] = "new"
    BY <2>1, <2>4, Observed DEF LoopAt
  <2>5. CASE stage[s] = "answered"
    BY <2>1, <2>5, Observed
  <2>6. CASE stage[s] \in {"choosing", "checking", "sent"}
    <3>1. steady[s] \subseteq Serving(s)
      BY <2>1, <2>6 DEF LoopAt, Running
    <3>2. steady'[s] = steady[s] \intersect Serving(s)'
      BY <2>1, <2>6, Observed
    <3> QED
      BY <2>3, <3>1, <3>2
  <2> QED
    BY <2>2, <2>4, <2>5, <2>6
<1>2. steady' = [s \in Request |-> steady'[s]] /\ steady = [s \in Request |-> steady[s]]
  BY DEF Observe, IInv, ForwardTypeOK
<1>3. steady' = steady
  BY <1>1, <1>2
<1> QED
  BY <1>3 DEF allVars, Observe

LEMMA HandlerForwardsStep ==
  IInv /\ [HandlerNext]_rpcVars => [ForwardNext]_allVars
<1> SUFFICES ASSUME IInv, [HandlerNext]_rpcVars PROVE [ForwardNext]_allVars
  OBVIOUS
<1>1. ASSUME Observe, UNCHANGED <<vars, requestVars>> PROVE [ForwardNext]_allVars
  BY <1>1, ObserveStutters
<1>2. ASSUME NEW r \in Request, HandleRequest(r), Observe PROVE [ForwardNext]_allVars
  <2>1. ForwardRequest(r) \/ UNCHANGED <<vars, requestVars>>
    BY <1>2 DEF HandleRequest
  <2> QED
    BY <1>1, <1>2, <2>1 DEF ForwardNext
<1>3. ASSUME NEW r \in Request, Forwarding(r), Observe PROVE [ForwardNext]_allVars
  BY <1>3 DEF Forwarding, ForwardNext
<1>4. ASSUME NEW r \in Request, Answered(r), Observe PROVE [ForwardNext]_allVars
  BY <1>1, <1>4 DEF Answered
<1>5. ASSUME NEW k \in DOMAIN cache, DeleteCache(k), Observe PROVE [ForwardNext]_allVars
  BY <1>1, <1>5 DEF DeleteCache
<1>6. ASSUME Mine, Observe PROVE [ForwardNext]_allVars
  BY <1>1, <1>6 DEF Mine
<1>7. ASSUME Checks \/ World, Observe PROVE [ForwardNext]_allVars
  BY <1>7 DEF ForwardNext
<1>8. CASE UNCHANGED rpcVars
  BY <1>8 DEF rpcVars
<1> QED
  BY <1>2, <1>3, <1>4, <1>5, <1>6, <1>7, <1>8 DEF HandlerNext

(* With the cache and the dispatch around it, forward_request does nothing but
   what it does alone: what holds of ForwardSpec holds of the handler. *)
THEOREM HandlerForwards == HandlerSpec => ForwardSpec
<1>1. HandlerInit => ForwardInit
  BY DEF HandlerInit
<1>2. HandlerInit => IInv
  BY <1>1, InvInit
<1>3. IInv /\ [HandlerNext]_rpcVars => IInv'
  BY HandlerForwardsStep, InvStep
<1>4. HandlerSpec => []IInv
  BY <1>2, <1>3, PTL DEF HandlerSpec
<1> QED
  BY <1>1, <1>4, HandlerForwardsStep, PTL DEF HandlerSpec, ForwardSpec
-----------------------------------------------------------------------------
(* What the handler keeps and sends. *)

CacheInv ==
  \A k \in DOMAIN cache :
     /\ cache[k].is \in {"data", "null"}
     /\ \E r \in Request :
          /\ k = GenerateCacheKey(body[r]) /\ cache[k].to = body[r]
          /\ Caches(body[r])
          /\ IsTrace(body[r]) => cache[k].is = "data"
          /\ cache[k].is = "data" /\ body[r].upto # Head =>
               cache[k].at = body[r].upto /\ body[r].upto <= head

ResponseAt(r) ==
  LET x == response[r] IN
  \/ x = Nothing
  \/ x = Failed /\ answer[r] \notin {None, "ok"} /\ stage[r] = "answered"
  \/ /\ x.to = body[r] /\ x.is \in {"data", "null", "unsupported"}
     /\ x.is = "unsupported" => IsTrace(body[r])
     /\ x.is \in {"data", "null"} => \E h \in began[r]..head : x = Result(body[r], h)

HandlingAt(r) ==
  /\ handling[r] = "none" => stage[r] = "new" /\ response[r] = Nothing
  /\ handling[r] = "missed" => Caches(body[r])
  /\ handling[r] # "done" => reply[r] = Nothing
  /\ began[r] <= head

CurrentAt(r) ==
  /\ reply[r].is \in {"data", "null"} =>
       \/ \E h \in began[r]..head : SaysTheSame(reply[r], Result(body[r], h))
       \/ reply[r].is = "null" /\ ~IsTrace(body[r])
       \/ body[r].upto = Head /\ ~NamesHead(body[r])
  /\ reply[r].is = "unsupported" => reply[r] = response[r]

ReplyAt(r) ==
  /\ reply[r] \notin {Nothing, Failed} => SameQuestion(reply[r].to, body[r])
  /\ reply[r] \notin {Nothing, Failed} /\ answer[r] = "ok" => reply[r].to = body[r]
  /\ reply[r] = Failed => answer[r] \notin {None, "ok"}
  /\ CurrentAt(r)

HandlerInv ==
  /\ HandlerTypeOK
  /\ response = [r \in Request |-> response[r]]
  /\ reply = [r \in Request |-> reply[r]]
  /\ CacheInv
  /\ \A r \in Request : ResponseAt(r) /\ HandlingAt(r) /\ ReplyAt(r)

At(r) == ResponseAt(r) /\ HandlingAt(r) /\ ReplyAt(r)

LEMMA ResultFacts ==
  ASSUME NEW b, NEW h
  PROVE  /\ Result(b, h).to = b /\ Result(b, h).is \in {"data", "null"}
         /\ b.upto # Head /\ Result(b, h).is = "data" =>
              Result(b, h).at = b.upto /\ ~(h < b.upto)
         /\ b.upto # Head /\ ~(h < b.upto) =>
              Result(b, h).is = "data" /\ Result(b, h).at = b.upto
  BY DEF Result

LEMMA Heads ==
  ASSUME HandlerTypeOK, NEW r \in Request
  PROVE  head \in Nat /\ began[r] \in Nat /\ body[r].upto \in Nat
<1>1. head \in Nat /\ began[r] \in Nat
  BY MaxHeadAssumption DEF HandlerTypeOK
<1>2. PICK w \in Workloads : body = w.body
  BY DEF HandlerTypeOK
<1>3. body[r].upto \in 0..Head
  BY <1>2, WorkloadsAssumption
<1> QED
  BY <1>1, <1>3, MaxHeadAssumption DEF Head

(* While a request's own state stays and the chain only grows. *)
LEMMA Kept ==
  ASSUME NEW s, At(s), body' = body, response'[s] = response[s], handling'[s] = handling[s],
         reply'[s] = reply[s], stage'[s] = stage[s], answer'[s] = answer[s],
         began'[s] = began[s], head \in Nat, head' \in Nat, began[s] \in Nat, head <= head'
  PROVE  At(s)'
<1>1. \A h \in began[s]..head : h \in began'[s]..head'
  OBVIOUS
<1>2. ResponseAt(s)'
  BY <1>1 DEF At, ResponseAt
<1>3. HandlingAt(s)'
  BY DEF At, HandlingAt
<1>4. CurrentAt(s)'
  BY <1>1 DEF At, ReplyAt, CurrentAt
<1> QED
  BY <1>2, <1>3, <1>4 DEF At, ReplyAt

(* The same key is the same question. *)
LEMMA KeyIsQuestion ==
  ASSUME HandlerTypeOK, NEW r \in Request, NEW s \in Request,
         GenerateCacheKey(body[r]) = GenerateCacheKey(body[s])
  PROVE  SameQuestion(body[s], body[r]) /\ body[s].upto = body[r].upto
<1>1. PICK w \in Workloads : body = w.body
  BY DEF HandlerTypeOK
<1>2. SameQuestion(body[s], body[r])
  BY DEF GenerateCacheKey, SameQuestion
<1> QED
  BY <1>1, <1>2, WorkloadsAssumption

(* What names the end of the chain is not looked up. *)
LEMMA NamesHeadSeen ==
  ASSUME NEW b, NamesHead(b)
  PROVE  HasNonDeterministicBlockParams(b)
<1>1. PICK i \in DOMAIN b.params :
        \/ "text" \in DOMAIN b.params[i] /\ b.params[i].text \in Tags
        \/ /\ "fields" \in DOMAIN b.params[i] /\ "blockNumber" \notin DOMAIN b.params[i].fields
           /\ "toBlock" \in DOMAIN b.params[i].fields /\ b.params[i].fields.toBlock \in Tags
  BY DEF NamesHead
<1>2. CASE "text" \in DOMAIN b.params[i] /\ b.params[i].text \in Tags
  BY <1>1, <1>2 DEF HasNonDeterministicBlockParams
<1>3. CASE /\ "fields" \in DOMAIN b.params[i] /\ "blockNumber" \notin DOMAIN b.params[i].fields
           /\ "toBlock" \in DOMAIN b.params[i].fields /\ b.params[i].fields.toBlock \in Tags
  <2>1. BlockOf(b.params[i].fields) = {b.params[i].fields.toBlock}
    BY <1>3 DEF BlockOf
  <2>2. BlockOf(b.params[i].fields) \intersect Tags # {}
    BY <1>3, <2>1
  <2> QED
    BY <1>1, <1>3, <2>2 DEF HasNonDeterministicBlockParams
<1> QED
  BY <1>1, <1>2, <1>3

LEMMA HandlerInvInit == HandlerInit => HandlerInv
<1> SUFFICES ASSUME HandlerInit PROVE HandlerInv
  OBVIOUS
<1>1. ForwardTypeOK
  BY InvInit DEF HandlerInit, IInv
<1>2. HandlerTypeOK
  BY <1>1, MaxHeadAssumption DEF HandlerInit, HandlerTypeOK
<1>3. \A r \in Request : ResponseAt(r) /\ HandlingAt(r) /\ ReplyAt(r)
  BY DEF HandlerInit, ForwardInit, ResponseAt, HandlingAt, ReplyAt, CurrentAt, Nothing, Failed
<1> QED
  BY <1>2, <1>3 DEF HandlerInv, HandlerInit, CacheInv

LEMMA HandlerInvStep ==
  ASSUME IInv, IInv', HandlerInv, [HandlerNext]_rpcVars
  PROVE  HandlerInv'
<1> USE DEF HandlerInv
<1>i. /\ RequestTypes /\ PoolInv /\ LoopInv /\ ForwardTypeOK'
      /\ \A s \in Request : At(s)
  BY DEF IInv, ForwardTypeOK, RequestTypes, PoolInv, At
<1>f. ASSUME \A s \in Request : At(s)'
      PROVE  \A s \in Request : ResponseAt(s)' /\ HandlingAt(s)' /\ ReplyAt(s)'
  BY <1>f DEF At
<1>n. head \in Nat /\ \A s \in Request : began[s] \in Nat
  BY Heads, MaxHeadAssumption DEF HandlerTypeOK
<1>h. ASSUME UNCHANGED <<body, refusing, cache>>, head' \in 0..MaxHead, head <= head',
             began' \in [Request -> 0..MaxHead],
             handling' \in [Request -> {"none", "missed", "bypassing", "done"}]
      PROVE  HandlerTypeOK' /\ CacheInv'
  <2>1. HandlerTypeOK'
    BY <1>h, <1>i DEF HandlerTypeOK
  <2>2. ASSUME NEW k \in DOMAIN cache
        PROVE  \E r \in Request :
          /\ k = GenerateCacheKey(body[r]) /\ cache[k].to = body[r]
          /\ Caches(body[r])
          /\ IsTrace(body[r]) => cache[k].is = "data"
          /\ cache[k].is = "data" /\ body[r].upto # Head =>
               cache[k].at = body[r].upto /\ body[r].upto <= head'
    <3>1. PICK r \in Request :
          /\ k = GenerateCacheKey(body[r]) /\ cache[k].to = body[r]
          /\ Caches(body[r])
          /\ IsTrace(body[r]) => cache[k].is = "data"
          /\ cache[k].is = "data" /\ body[r].upto # Head =>
               cache[k].at = body[r].upto /\ body[r].upto <= head
      BY DEF CacheInv
    <3>2. body[r].upto <= head => body[r].upto <= head'
      BY <1>h, <1>n, Heads, MaxHeadAssumption
    <3> QED
      BY <3>1, <3>2
  <2>3. CacheInv'
    BY <1>h, <2>2 DEF CacheInv
  <2> QED
    BY <2>1, <2>3
<1>1. ASSUME NEW r \in Request, HandleRequest(r), Observe PROVE HandlerInv'
  <2> DEFINE k == GenerateCacheKey(body[r])
  <2>1. /\ handling[r] = "none" /\ stage[r] = "new" /\ reply[r] = Nothing
        /\ answer[r] = None /\ response[r] = Nothing
    BY <1>1, <1>i DEF HandleRequest, At, HandlingAt, LoopInv, LoopAt
  <2>2. UNCHANGED <<body, head, cache, response>> /\ refusing' = refusing
    BY <1>1 DEF HandleRequest, Observe
  <2>b. /\ began' = [began EXCEPT ![r] = head] /\ began' \in [Request -> 0..MaxHead]
        /\ began'[r] = head /\ \A s \in Request \ {r} : began'[s] = began[s]
    BY <1>1 DEF HandleRequest, HandlerTypeOK
  <2>h. head' \in 0..MaxHead /\ head <= head'
    BY <1>n, <2>2 DEF HandlerTypeOK
  <2>3. CASE Caches(body[r]) /\ k \in DOMAIN cache
    <3>1. Reply(r, cache[k]) /\ UNCHANGED <<vars, requestVars>>
      BY <1>1, <2>3 DEF HandleRequest
    <3>2. handling' \in [Request -> {"none", "missed", "bypassing", "done"}]
      BY <3>1 DEF Reply, HandlerTypeOK
    <3>3. HandlerTypeOK' /\ CacheInv'
      BY <1>h, <2>2, <2>b, <2>h, <3>2
    <3>4. PICK s \in Request :
          /\ k = GenerateCacheKey(body[s]) /\ cache[k].to = body[s]
          /\ Caches(body[s])
          /\ IsTrace(body[s]) => cache[k].is = "data"
          /\ cache[k].is = "data" /\ body[s].upto # Head =>
               cache[k].at = body[s].upto /\ body[s].upto <= head
      BY <2>3 DEF CacheInv
    <3>5. SameQuestion(body[s], body[r]) /\ body[s].upto = body[r].upto
      BY <3>4, KeyIsQuestion
    <3>c. cache[k].is \in {"data", "null"} /\ cache[k] # Failed
      BY <2>3 DEF CacheInv, Failed
    <3>6. reply'[r] = cache[k] /\ handling'[r] = "done"
      BY <3>1 DEF Reply, HandlerTypeOK
    <3>k. \/ SaysTheSame(cache[k], Result(body[r], head))
          \/ cache[k].is = "null" /\ ~IsTrace(body[r])
          \/ body[r].upto = Head /\ ~NamesHead(body[r])
      <4>1. CASE cache[k].is = "null"
        BY <3>4, <3>5, <4>1 DEF IsTrace, SameQuestion
      <4>2. CASE cache[k].is = "data" /\ body[r].upto = Head
        <5>1. ~NamesHead(body[s])
          BY <3>4, NamesHeadSeen DEF Caches
        <5>2. NamesHead(body[r]) <=> NamesHead(body[s])
          BY <3>5 DEF NamesHead, SameQuestion
        <5> QED
          BY <4>2, <5>1, <5>2
      <4>3. CASE cache[k].is = "data" /\ body[r].upto # Head
        <5>1. cache[k].at = body[r].upto /\ ~(head < body[r].upto)
          BY <1>n, <3>4, <3>5, <4>3, Heads
        <5>2. Result(body[r], head).is = "data" /\ Result(body[r], head).at = body[r].upto
          BY <4>3, <5>1, ResultFacts
        <5> QED
          BY <4>3, <5>1, <5>2 DEF SaysTheSame
      <4> QED
        BY <3>c, <4>1, <4>2, <4>3
    <3>7. At(r)'
      <4>1. answer'[r] = None /\ stage'[r] = stage[r]
        BY <2>1, <3>1 DEF requestVars
      <4>2. ResponseAt(r)'
        BY <2>1, <2>2 DEF ResponseAt
      <4>3. HandlingAt(r)'
        BY <1>n, <2>2, <2>b, <3>6 DEF HandlingAt
      <4>4. CurrentAt(r)'
        <5>1. head \in began'[r]..head'
          BY <1>n, <2>2, <2>b
        <5> QED
          BY <2>2, <3>6, <3>c, <3>k, <5>1 DEF CurrentAt
      <4>5. ReplyAt(r)'
        BY <2>2, <3>4, <3>5, <3>6, <3>c, <4>1, <4>4 DEF ReplyAt, None
      <4> QED
        BY <4>2, <4>3, <4>5 DEF At
    <3>8. ASSUME NEW t \in Request, t # r PROVE At(t)'
      BY <1>i, <1>n, <2>2, <2>b, <3>1, <3>8, Kept DEF Reply, requestVars
    <3>9. reply' = [q \in Request |-> reply'[q]] /\ response' = [q \in Request |-> response'[q]]
      BY <2>2, <3>1 DEF Reply
    <3> QED
      BY <1>f, <3>3, <3>7, <3>8, <3>9
  <2>4. CASE ~(Caches(body[r]) /\ k \in DOMAIN cache)
    <3>1. /\ ForwardRequest(r) /\ reply' = reply
          /\ handling' = [handling EXCEPT ![r] = IF Caches(body[r]) THEN "missed" ELSE "bypassing"]
      BY <1>1, <2>4 DEF HandleRequest
    <3>2. handling' \in [Request -> {"none", "missed", "bypassing", "done"}]
      BY <3>1 DEF HandlerTypeOK
    <3>3. HandlerTypeOK' /\ CacheInv'
      BY <1>h, <2>2, <2>b, <2>h, <3>2
    <3>4. handling'[r] = IF Caches(body[r]) THEN "missed" ELSE "bypassing"
      BY <3>1 DEF HandlerTypeOK
    <3>5. answer' = answer /\ stage' = [stage EXCEPT ![r] = "choosing"]
      BY <3>1 DEF ForwardRequest
    <3>6. At(r)'
      <4>1. ResponseAt(r)' /\ reply'[r] = Nothing
        BY <2>1, <2>2, <3>1 DEF ResponseAt
      <4>2. HandlingAt(r)'
        BY <1>n, <2>2, <2>b, <3>4, <4>1 DEF HandlingAt
      <4>3. ReplyAt(r)'
        BY <4>1 DEF ReplyAt, CurrentAt, Nothing, Failed
      <4> QED
        BY <4>1, <4>2, <4>3 DEF At
    <3>7. ASSUME NEW s \in Request, s # r PROVE At(s)'
      BY <1>i, <1>n, <2>2, <2>b, <3>1, <3>5, <3>7, Kept
    <3> QED
      BY <1>f, <2>2, <3>1, <3>3, <3>6, <3>7
  <2> QED
    BY <2>3, <2>4
<1>2. ASSUME NEW r \in Request, Forwarding(r), Observe PROVE HandlerInv'
  <2>1. /\ handling[r] \in {"missed", "bypassing"} /\ RequestStep(r)
        /\ UNCHANGED <<body, head, cache, handling, reply, began>> /\ refusing' = refusing
    BY <1>2 DEF Forwarding, Observe
  <2>2. /\ \A s \in Request \ {r} : Same(s)
        /\ Asks(r) \/ Rechecks(r) \/ Turns(r) \/ Answers(r)
    BY <1>i, <2>1, RequestStepFacts
  <2>3. /\ stage[r] # "answered" /\ stage'[r] # "new" /\ answer[r] = None
        /\ answer'[r] # None => stage'[r] = "answered"
    BY <1>i, <2>2 DEF LoopInv, LoopAt, Asks, Rechecks, Turns, Answers
  <2>4. HandlerTypeOK' /\ CacheInv'
    BY <1>h, <1>n, <2>1 DEF HandlerTypeOK
  <2>5. /\ response' = [s \in Request |-> response'[s]]
        /\ \A s \in Request \ {r} : response'[s] = response[s]
    BY <1>2 DEF Forwarding, Receive
  <2>6. ResponseAt(r)'
    <3>1. response[r] = Failed => FALSE
      BY <1>i, <2>3 DEF At, ResponseAt, Nothing, Failed
    <3>2. CASE Receive(r)
      <4>1. response'[r] = IF answer'[r] = "ok" THEN Result(body[r], head)
                           ELSE IF answer'[r] # None /\ response[r] = Nothing THEN Failed
                           ELSE response[r]
        BY <3>2 DEF Receive
      <4>2. CASE answer'[r] = "ok"
        <5>1. head \in began'[r]..head'
          BY <1>i, <1>n, <2>1 DEF At, HandlingAt
        <5>2. response'[r] = Result(body[r], head)
          BY <4>1, <4>2
        <5> QED
          BY <2>1, <5>1, <5>2, ResultFacts DEF ResponseAt
      <4>3. CASE answer'[r] # "ok" /\ answer'[r] # None /\ response[r] = Nothing
        BY <2>3, <4>1, <4>3 DEF ResponseAt
      <4>4. CASE answer'[r] # "ok" /\ ~(answer'[r] # None /\ response[r] = Nothing)
        BY <1>i, <2>1, <3>1, <4>1, <4>4 DEF At, ResponseAt
      <4> QED
        BY <4>2, <4>3, <4>4
    <3>3. CASE IsTrace(body[r]) /\ response' = [response EXCEPT ![r] = Unsupported(body[r])]
      <4>1. response'[r] = Unsupported(body[r])
        BY <3>3
      <4> QED
        BY <2>1, <3>3, <4>1 DEF ResponseAt, Unsupported, IsTrace
    <3> QED
      BY <1>2, <3>2, <3>3 DEF Forwarding
  <2>7. At(r)'
    <3>1. reply'[r] = Nothing /\ HandlingAt(r)'
      BY <1>i, <2>1 DEF At, HandlingAt
    <3>2. ReplyAt(r)'
      BY <3>1 DEF ReplyAt, CurrentAt, Nothing, Failed
    <3> QED
      BY <2>6, <3>1, <3>2 DEF At
  <2>8. ASSUME NEW s \in Request, s # r PROVE At(s)'
    <3>1. /\ response'[s] = response[s] /\ stage'[s] = stage[s] /\ answer'[s] = answer[s]
          /\ handling'[s] = handling[s] /\ reply'[s] = reply[s] /\ began'[s] = began[s]
      BY <2>1, <2>2, <2>5, <2>8 DEF Same
    <3>2. head' \in Nat /\ head <= head' /\ body' = body
      BY <1>n, <2>1
    <3> QED
      BY <1>i, <1>n, <3>1, <3>2, Kept
  <2> QED
    BY <1>f, <2>1, <2>4, <2>5, <2>7, <2>8
<1>3. ASSUME NEW r \in Request, Answered(r), Observe PROVE HandlerInv'
  <2> DEFINE k == GenerateCacheKey(body[r])
  <2>1. /\ handling[r] \in {"missed", "bypassing"} /\ Reply(r, response[r])
        /\ UNCHANGED <<vars, requestVars, body, head, response, began>> /\ refusing' = refusing
    BY <1>3 DEF Answered, Observe
  <2>2. CacheInv' /\ \A j \in DOMAIN cache' : \E s \in Request : j = GenerateCacheKey(body[s])
    <3>1. CASE handling[r] = "missed" /\ Storable(body[r], response[r])
      <4>1. /\ Caches(body[r]) /\ response[r].to = body[r]
            /\ response[r].is \in {"data", "null"}
            /\ IsTrace(body[r]) => response[r].is = "data"
        BY <1>i, <3>1 DEF At, HandlingAt, ResponseAt, Storable, IsValidDebugTraceResponse
      <4>c. response[r].is = "data" /\ body[r].upto # Head =>
              response[r].at = body[r].upto /\ body[r].upto <= head
        <5> SUFFICES ASSUME response[r].is = "data", body[r].upto # Head
                     PROVE  response[r].at = body[r].upto /\ body[r].upto <= head
          OBVIOUS
        <5>1. PICK h \in began[r]..head : response[r] = Result(body[r], h)
          BY <1>i, <4>1 DEF At, ResponseAt, Nothing, Failed
        <5>2. h \in Nat /\ h <= head /\ body[r].upto \in Nat
          BY <1>n, Heads
        <5> QED
          BY <1>n, <5>1, <5>2, ResultFacts
      <4>2. cache' = [j \in DOMAIN cache \union {k} |-> IF j = k THEN response[r] ELSE cache[j]]
        BY <1>3, <3>1 DEF Answered, Insert
      <4>3. /\ DOMAIN cache' = DOMAIN cache \union {k}
            /\ cache'[k] = response[r]
            /\ \A j \in DOMAIN cache : j # k => cache'[j] = cache[j]
        BY <4>2
      <4>4. \A j \in DOMAIN cache' : \E s \in Request : j = GenerateCacheKey(body[s])
        BY <4>3 DEF HandlerTypeOK
      <4>5. CacheInv'
        BY <2>1, <4>1, <4>c, <4>3 DEF CacheInv
      <4> QED
        BY <4>4, <4>5
    <3>2. CASE ~(handling[r] = "missed" /\ Storable(body[r], response[r]))
      BY <1>3, <2>1, <3>2 DEF Answered, CacheInv, HandlerTypeOK
    <3> QED
      BY <3>1, <3>2
  <2>3. handling' \in [Request -> {"none", "missed", "bypassing", "done"}]
    BY <2>1 DEF Reply, HandlerTypeOK
  <2>4. HandlerTypeOK'
    BY <1>i, <2>1, <2>2, <2>3 DEF HandlerTypeOK
  <2>5. reply'[r] = response[r] /\ handling'[r] = "done"
    BY <2>1 DEF Reply, HandlerTypeOK
  <2>6. At(r)'
    <3>1. ResponseAt(r)' /\ HandlingAt(r)'
      BY <1>i, <2>1, <2>5 DEF At, ResponseAt, HandlingAt, requestVars
    <3>2. CurrentAt(r)'
      <4>1. response[r].is \in {"data", "null"} =>
              \E h \in began[r]..head : response[r] = Result(body[r], h)
        BY <1>i DEF At, ResponseAt, Nothing, Failed
      <4> QED
        BY <2>1, <2>5, <4>1 DEF CurrentAt, SaysTheSame
    <3>3. ReplyAt(r)'
      BY <1>i, <2>1, <2>5, <3>2 DEF At, ResponseAt, ReplyAt, SameQuestion, requestVars, Nothing, Failed
    <3> QED
      BY <3>1, <3>3 DEF At
  <2>7. ASSUME NEW s \in Request, s # r PROVE At(s)'
    BY <1>i, <1>n, <2>1, <2>7, Kept DEF Reply, requestVars
  <2>8. reply' = [s \in Request |-> reply'[s]]
    BY <2>1 DEF Reply
  <2> QED
    BY <1>f, <2>1, <2>2, <2>4, <2>6, <2>7, <2>8
<1>4. ASSUME NEW k \in DOMAIN cache, DeleteCache(k), Observe PROVE HandlerInv'
  <2>1. /\ UNCHANGED <<vars, requestVars, body, head, handling, response, reply, began>>
        /\ refusing' = refusing
    BY <1>4 DEF DeleteCache, Observe
  <2>2. PICK keys : cache' = [j \in DOMAIN cache \ keys |-> cache[j]]
    BY <1>4 DEF DeleteCache
  <2>3. CacheInv' /\ HandlerTypeOK'
    BY <1>i, <2>1, <2>2 DEF CacheInv, HandlerTypeOK
  <2>4. \A s \in Request : At(s)'
    BY <1>i, <1>n, <2>1, Kept DEF requestVars
  <2> QED
    BY <1>f, <2>1, <2>3, <2>4
<1>5. ASSUME Mine, Observe PROVE HandlerInv'
  <2>1. /\ UNCHANGED <<vars, requestVars, body, cache, handling, response, reply, began>>
        /\ refusing' = refusing /\ head' \in 0..MaxHead /\ head <= head'
    BY <1>5, MaxHeadAssumption DEF Mine, Observe, HandlerTypeOK
  <2>2. HandlerTypeOK' /\ CacheInv'
    BY <1>h, <2>1 DEF HandlerTypeOK
  <2>3. head' \in Nat /\ head <= head'
    BY <2>1, MaxHeadAssumption
  <2>4. \A s \in Request : At(s)'
    BY <1>i, <1>n, <2>1, <2>3, Kept DEF requestVars
  <2> QED
    BY <1>f, <2>1, <2>2, <2>4
<1>6. ASSUME UNCHANGED handlerVars, UNCHANGED requestVars, refusing' = refusing
      PROVE  HandlerInv'
  <2>1. UNCHANGED <<body, head, cache, handling, response, reply, began, stage, answer>>
    BY <1>6 DEF handlerVars, requestVars
  <2>2. HandlerTypeOK' /\ CacheInv'
    BY <1>h, <1>n, <1>6, <2>1 DEF HandlerTypeOK
  <2>3. \A s \in Request : At(s)'
    BY <1>i, <1>n, <2>1, Kept
  <2> QED
    BY <1>f, <2>1, <2>2, <2>3
<1>7. ASSUME (Checks \/ World) /\ Beside, Observe PROVE HandlerInv'
  BY <1>6, <1>7 DEF Checks, World, Beside, Observe
<1>8. CASE UNCHANGED rpcVars
  BY <1>6, <1>8 DEF rpcVars, allVars
<1> QED
  BY <1>1, <1>2, <1>3, <1>4, <1>5, <1>7, <1>8 DEF HandlerNext

(* The inductive invariant of handle_request, with its cache. *)
THEOREM HandlerInvariance == HandlerSpec => [](IInv /\ HandlerInv)
<1>1. IInv /\ HandlerInv /\ [HandlerNext]_rpcVars => (IInv /\ HandlerInv)'
  BY HandlerForwardsStep, InvStep, HandlerInvStep
<1>2. HandlerInit => IInv /\ HandlerInv
  BY InvInit, HandlerInvInit DEF HandlerInit
<1> QED
  BY <1>1, <1>2, PTL DEF HandlerSpec

(* The handler's own state keeps its types. *)
THEOREM HandlerTypes == HandlerSpec => []HandlerTypeOK
  BY HandlerInvariance, PTL DEF HandlerInv

(* No client is sent the answer to another's question, nor a failure that was
   not its own (rpc.rs:161-249). *)
THEOREM RepliesToTheirQuestions == HandlerSpec => []RepliesAreTheirs
<1>1. HandlerInv => RepliesAreTheirs
  BY DEF HandlerInv, ReplyAt, RepliesAreTheirs
<1> QED
  BY <1>1, HandlerInvariance, PTL

(* Through the cache, too, clients are sent what the chain was while they
   waited, but for the two kinds of questions that RepliesAreCurrent names
   (rpc.rs:161-249). *)
THEOREM RepliesOfTheirTime == HandlerSpec => []RepliesAreCurrent
<1>1. HandlerInv => RepliesAreCurrent
  BY DEF HandlerInv, ReplyAt, CurrentAt, RepliesAreCurrent
<1> QED
  BY <1>1, HandlerInvariance, PTL

(* Beside the cache, too, requests fail over and providers are given up only
   for a cause. *)
THEOREM HandlerFailsOver == HandlerSpec => []Failover /\ DemotedForCause
  BY HandlerForwards, RequestsFailOver, NoDemotionWithoutCause
=============================================================================
