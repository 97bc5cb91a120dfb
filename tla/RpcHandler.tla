------------------------------ MODULE RpcHandler ------------------------------
(***************************************************************************)
(* What the proxy does with a request around the forwarding of it: the     *)
(* dispatch of proxy.rs (handle_rpc), handle_request and the cache policy  *)
(* of rpc.rs, and the end of the server.  Requests run concurrently; each  *)
(* looks into the cache, forwards as in RpcForward and fills the cache     *)
(* when its answer comes, without a lock in between.                       *)
(***************************************************************************)
EXTENDS RpcForward

CONSTANTS Workloads,  \* bound: what is asked, each [body : [Request -> body], refusing : Refusals]
          MaxHead     \* bound: blocks mined while the proxy runs

(* A body is [id, method, params, upto].  A parameter is [text |-> ...] or an
   object [fields |-> ...].  The upstream (external) answers null before the
   block upto exists and the same ever after; Head stands for the block that
   is the newest when it answers. *)
Head == MaxHead + 1

ASSUME MaxHeadAssumption == MaxHead \in Nat

VARIABLES
  body,      \* what request r asks; it never changes
  head,      \* the newest block of the chain
  cache,     \* the answer kept under a key; a function on the keys it has
  handling,  \* where handle_request of r stands
  response,  \* what forward_request of r returned, when that is a result
  reply,     \* what the client was sent
  began      \* history: the newest block when r came

handlerVars == <<body, head, cache, handling, response, reply, began>>
rpcVars == <<allVars, handlerVars>>

Nothing == [is |-> "nothing"]
Failed == [is |-> "error"]

Tags == {"latest", "pending", "earliest", "safe", "finalized"}

Cacheable == {"eth_getTransactionByHash", "eth_getLogs", "eth_call", "debug_traceTransaction"}
IsTrace(b) == b.method = "debug_traceTransaction"

(* What an upstream answers to b when the chain ends at h. *)
Result(b, h) ==
  IF b.upto = Head THEN [is |-> "data", to |-> b, at |-> h]
  ELSE IF h < b.upto THEN [is |-> "null", to |-> b]
  ELSE [is |-> "data", to |-> b, at |-> b.upto]

(* A result that only says that the method is not supported, or an empty one. *)
Unsupported(b) == [is |-> "unsupported", to |-> b]
-----------------------------------------------------------------------------
(* Of an object only the first of these that it has is looked at. *)
BlockOf(fields) ==
  CASE "blockNumber" \in DOMAIN fields -> {fields.blockNumber}
    [] "blockNumber" \notin DOMAIN fields /\ "toBlock" \in DOMAIN fields -> {fields.toBlock}
    [] {"blockNumber", "toBlock"} \intersect DOMAIN fields = {} /\ "fromBlock" \in DOMAIN fields
         -> {fields.fromBlock}
    [] OTHER -> {}

HasNonDeterministicBlockParams(b) ==
  \E i \in DOMAIN b.params :
     LET p == b.params[i] IN
     \/ "text" \in DOMAIN p /\ p.text \in Tags
     \/ "fields" \in DOMAIN p /\ BlockOf(p.fields) \intersect Tags # {}

CacheKeyOfMethod(b) == <<b.method, <<>>>>

(* The id is not hashed.  Hash collisions are left out. *)
GenerateCacheKey(b) == <<b.method, b.params>>

SameQuestion(b, c) == b.method = c.method /\ b.params = c.params

(* What is asked decides what there is to answer. *)
ASSUME WorkloadsAssumption ==
  \A w \in Workloads :
     /\ w.refusing \in Refusals
     /\ \A r \in Request : w.body[r].upto \in 0..Head
     /\ \A r, s \in Request : SameQuestion(w.body[r], w.body[s]) => w.body[r].upto = w.body[s].upto

Caches(b) == b.method \in Cacheable /\ ~HasNonDeterministicBlockParams(b)

IsValidDebugTraceResponse(r) == r.is = "data"

StorableAny(b, r) == r # Nothing

Storable(b, r) == r \notin {Nothing, Failed} /\ (IsTrace(b) => IsValidDebugTraceResponse(r))
-----------------------------------------------------------------------------
HandlerTypeOK ==
  /\ ForwardTypeOK
  /\ \E w \in Workloads : body = w.body /\ refusing = w.refusing
  /\ head \in 0..MaxHead
  /\ handling \in [Request -> {"none", "missed", "bypassing", "done"}]
  /\ began \in [Request -> 0..MaxHead]
  /\ \A k \in DOMAIN cache : \E r \in Request : k = GenerateCacheKey(body[r])

HandlerInit ==
  /\ ForwardInit
  /\ \E w \in Workloads : body = w.body /\ refusing = w.refusing
  /\ head = 0
  /\ cache = [k \in {} |-> Nothing]
  /\ handling = [r \in Request |-> "none"]
  /\ response = [r \in Request |-> Nothing]
  /\ reply = [r \in Request |-> Nothing]
  /\ began = [r \in Request |-> 0]

Insert(k, r) == cache' = [j \in DOMAIN cache \union {k} |-> IF j = k THEN r ELSE cache[j]]

Reply(r, what) ==
  /\ reply' = [reply EXCEPT ![r] = what]
  /\ handling' = [handling EXCEPT ![r] = "done"]

(* handle_rpc passes r on to handle_request: a hit is answered at once, with
   the id of the request that filled the entry. *)
HandleRequest(r) ==
  LET b == body[r]
      k == GenerateCacheKey(b)
  IN
  /\ handling[r] = "none"
  /\ IF Caches(b) /\ k \in DOMAIN cache
       THEN Reply(r, cache[k]) /\ UNCHANGED <<vars, requestVars>>
       ELSE /\ ForwardRequest(r)
            /\ handling' = [handling EXCEPT ![r] = IF Caches(b) THEN "missed" ELSE "bypassing"]
            /\ UNCHANGED reply
  /\ began' = [began EXCEPT ![r] = head]
  /\ UNCHANGED <<body, head, cache, response>>

(* What the body of a successful answer holds. *)
Receive(r) ==
  response' = [response EXCEPT ![r] =
     IF answer'[r] = "ok" THEN Result(body[r], head)
     ELSE IF answer'[r] # None /\ @ = Nothing THEN Failed ELSE @]

Forwarding(r) ==
  /\ handling[r] \in {"missed", "bypassing"}
  /\ RequestStep(r)
  /\ \/ Receive(r)
     \/ /\ IsTrace(body[r]) /\ answer'[r] = "ok"
        /\ response' = [response EXCEPT ![r] = Unsupported(body[r])]
  /\ UNCHANGED <<body, head, cache, handling, reply, began>>

(* The rest of handle_request, when the answer is there. *)
Answered(r) ==
  /\ handling[r] \in {"missed", "bypassing"} /\ stage[r] = "answered"
  /\ IF handling[r] = "missed" /\ Storable(body[r], response[r])
       THEN Insert(GenerateCacheKey(body[r]), response[r])
       ELSE UNCHANGED cache
  /\ Reply(r, response[r])
  /\ UNCHANGED <<vars, requestVars, body, head, response, began>>

(* edb_deleteCache, with or without parameters; eviction by other entries. *)
DeleteCache(k) ==
  /\ k \in DOMAIN cache
  /\ \E keys \in {{k}, {j \in DOMAIN cache : j[1] = k[1]}} :
        cache' = [j \in DOMAIN cache \ keys |-> cache[j]]
  /\ UNCHANGED <<vars, requestVars, body, head, handling, response, reply, began>>

Mine ==
  /\ head < MaxHead /\ head' = head + 1
  /\ UNCHANGED <<vars, requestVars, body, cache, handling, response, reply, began>>

Beside == UNCHANGED handlerVars

(* The periodic check is a task of RpcForward only: it changes the pool as the
   checks of the requests do. *)
HandlerNext ==
  /\ \/ \E r \in Request : HandleRequest(r) \/ Forwarding(r) \/ Answered(r)
     \/ \E k \in DOMAIN cache : DeleteCache(k)
     \/ Mine
     \/ Checks /\ Beside
     \/ World /\ Beside
  /\ Observe

HandlerSpec == HandlerInit /\ [][HandlerNext]_rpcVars
-----------------------------------------------------------------------------
(* Whatever two requests do at the same time, a client is sent an answer to
   its own question, from the cache or not, and an error only if its own
   forwarding failed.  What was forwarded for it bears its id; what the cache
   answers bears that of the first who asked (rpc.rs:161-249, 691-703). *)
RepliesAreTheirs ==
  \A r \in Request :
     /\ reply[r] \notin {Nothing, Failed} => SameQuestion(reply[r].to, body[r])
     /\ reply[r] \notin {Nothing, Failed} /\ answer[r] = "ok" => reply[r].to = body[r]
     /\ reply[r] = Failed => answer[r] \notin {None, "ok"}

(* A parameter that is a tag, or a range of blocks that ends with one. *)
NamesHead(b) ==
  \E i \in DOMAIN b.params :
     LET p == b.params[i] IN
     \/ "text" \in DOMAIN p /\ p.text \in Tags
     \/ /\ "fields" \in DOMAIN p /\ "blockNumber" \notin DOMAIN p.fields
        /\ "toBlock" \in DOMAIN p.fields /\ p.fields.toBlock \in Tags

(* Apart from whom they are sent to. *)
SaysTheSame(x, y) == x.is = y.is /\ (x.is = "data" => x.at = y.at)

(* The cache is not seen: a client is sent what the chain was at some time
   while it waited, however often, by whom and when the question was asked
   before, and that a method is not supported only by the provider that it got
   itself.  Two exceptions, both against what the list of cacheable methods
   says of itself (rpc.rs:41, 57): the null of what is not mined yet is kept,
   except for traces, and so is the answer to a question that is about the end
   of the chain without saying so. *)
RepliesAreCurrent ==
  \A r \in Request :
     /\ reply[r].is \in {"data", "null"} =>
          \/ \E h \in began[r]..head : SaysTheSame(reply[r], Result(body[r], h))
          \/ reply[r].is = "null" /\ ~IsTrace(body[r])
          \/ body[r].upto = Head /\ ~NamesHead(body[r])
     /\ reply[r].is = "unsupported" => reply[r] = response[r]
=============================================================================
