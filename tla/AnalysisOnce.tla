---------------------------- MODULE AnalysisOnce ----------------------------
(***************************************************************************)
(* What Engine::prepare promises its callers, with none of its machinery:  *)
(* for one transaction there is at most one analysis in progress, none     *)
(* while a debug server of the transaction is published, and a server is   *)
(* published only by the analysis that produced it.                        *)
(***************************************************************************)
CONSTANTS Caller,   \* the tasks that may call Engine::prepare
          Tx        \* transaction hashes

VARIABLES analysts,   \* analysts[t]: the callers analysing t right now
          published   \* the transactions with a published debug server

TypeOK ==
  /\ analysts \in [Tx -> SUBSET Caller]
  /\ published \subseteq Tx

Init ==
  /\ analysts = [t \in Tx |-> {}]
  /\ published = {}

Begin(c, t) ==
  /\ analysts[t] = {}
  /\ t \notin published
  /\ analysts' = [analysts EXCEPT ![t] = {c}]
  /\ UNCHANGED published

Abandon(c, t) ==
  /\ c \in analysts[t]
  /\ analysts' = [analysts EXCEPT ![t] = {}]
  /\ UNCHANGED published

Publish(c, t) ==
  /\ c \in analysts[t]
  /\ analysts' = [analysts EXCEPT ![t] = {}]
  /\ published' = published \union {t}

Withdraw(t) ==
  /\ t \in published
  /\ published' = published \ {t}
  /\ UNCHANGED analysts

Next ==
  \/ \E c \in Caller, t \in Tx : Begin(c, t) \/ Abandon(c, t) \/ Publish(c, t)
  \/ \E t \in Tx : Withdraw(t)

vars == <<analysts, published>>

Spec == Init /\ [][Next]_vars
=============================================================================
