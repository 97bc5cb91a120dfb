---- MODULE MCRpcHandler ----
(* Constants of RpcHandler for the model checker. *)
EXTENDS RpcHandler, TLC
CONSTANTS p1, p2, r1, r2, e1, e2, periodic

Body(id, method, params, upto) == [id |-> id, method |-> method, params |-> params, upto |-> upto]
Tx(id) == Body(id, "eth_getTransactionByHash", <<[text |-> "hash"]>>, 1)
Trace(id) == Body(id, "debug_traceTransaction", <<[text |-> "hash"]>>, 1)
Latest(id) == Body(id, "eth_call", <<[text |-> "latest"]>>, Head)
At(id, n) == Body(id, "eth_call", <<[text |-> ToString(n)]>>, n)
Logs(id, fields) == Body(id, "eth_getLogs", <<[fields |-> fields]>>, Head)
OpenLogs(id) == Logs(id, [address |-> "0x0", fromBlock |-> "0x0"])
LogsToHead(id) == Logs(id, [fromBlock |-> "0x0", toBlock |-> "latest"])

Both(b, c, refused) ==
  [body |-> (r1 :> b) @@ (r2 :> c), refusing |-> (r1 :> {}) @@ (r2 :> refused)]
MCWorkloads == {Both(Tx(1), Tx(2), {}), Both(Trace(1), Trace(2), {p1}),
                Both(Latest(1), Latest(2), {}), Both(LogsToHead(1), LogsToHead(2), {}),
                Both(OpenLogs(1), Latest(2), {}),
                Both(At(1, 0), At(2, 1), {p1, p2})}

(* The two signatures are alike to the code. *)
ErrorSymmetry == Permutations(Error)
====
