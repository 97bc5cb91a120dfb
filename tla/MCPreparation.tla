--------------------------- MODULE MCPreparation ---------------------------
(***************************************************************************)
(* prepare from end to end: Preparation up to the hook snapshots, and then *)
(* StepAnalysis over those of one entry whose code was instrumented.  What *)
(* the program did in it is open there, so the rest can be forgotten.      *)
(***************************************************************************)
EXTENDS Preparation, StepAnalysis

allVars == <<worldVars, prepareVars, vars>>

(* Before it begins, and for good where nothing was instrumented. *)
NotBegun ==
  /\ i = 1
  /\ step = [ufid |-> CHOOSE u \in Ufid : TRUE, entry |-> FALSE, calls |-> 0, returns |-> FALSE]
  /\ next = step
  /\ stack = <<Bottom>> /\ next_id = [j \in 1..LastStep |-> None]
  /\ holes = {} /\ phase = "done"

PrepareInit == PreparationInit /\ NotBegun

AnalyzeSteps ==
  /\ stage = "captured"
  /\ \E n \in DOMAIN calls : calls[n].code.by # NoOne
  /\ step' \in Steps /\ next' = step'
  /\ phase' = "visiting"
  /\ UNCHANGED <<i, stack, next_id, holes>>
  /\ stage' = "linking"
  /\ chain' = <<>> /\ history' = <<Empty>> /\ build' = "same" /\ listed' = TRUE /\ quick' = FALSE
  /\ fork' = Empty /\ replaying' = <<>> /\ ctx' = Empty /\ trace' = <<>> /\ visited' = {}
  /\ artifacts' = {} /\ untweaked' = {} /\ tweaking' = NoOne /\ contracts_in_tx' = {}
  /\ calls' = <<>>

PrepareNext ==
  \/ PreparationNext /\ UNCHANGED vars
  \/ AnalyzeSteps
  \/ stage = "linking" /\ Next /\ UNCHANGED <<worldVars, prepareVars>>

PrepareSpec == PrepareInit /\ [][PrepareNext]_allVars
=============================================================================
