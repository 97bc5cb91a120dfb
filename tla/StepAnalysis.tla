---------------------------- MODULE StepAnalysis ----------------------------
(***************************************************************************)
(* analyze_next_steps_for_source of crates/engine/src/snapshot/analysis.rs *)
(* links the hook snapshots of one trace entry for "step over": it visits  *)
(* them in pairs, guesses from the source which calls of functions and     *)
(* modifiers begin and end between two of them, and keeps the open ones on *)
(* a stack.  Visit is one turn of its outer loop (steps 0 to 4), the       *)
(* actions on Returning are turns of the inner one (step 5).               *)
(*                                                                         *)
(* Which step comes next is the program's choice and so is open here.      *)
(***************************************************************************)
EXTENDS Naturals, Sequences

CONSTANTS Function,   \* ufids of functions,
          Modifier,   \* and of modifiers
          Free,       \* the functions that belong to no contract
          MaxCalls,   \* bound on the calls in one step
          LastStep,   \* the number of hook snapshots of the entry
          Many,       \* usize::MAX, of which counting down finds no end
          None

ASSUME UfidAssumption == Free \subseteq Function /\ Function \intersect Modifier = {}
ASSUME BoundsAssumption == MaxCalls \in Nat /\ LastStep \in Nat \ {0}
ASSUME NoneAssumption == None \notin Nat /\ Many \notin Nat /\ None # Many

Ufid == Function \union Modifier

(* What the analysis of the source says of the step of a snapshot. *)
Steps ==
  {s \in [ufid : Ufid, entry : BOOLEAN, calls : 0..MaxCalls, returns : BOOLEAN] :
     s.entry => ~s.returns}

(* FunctionInfo: what is known of the function on top; one that was entered
   twice is invalid, and then nothing is known of it for good. *)
Infos == [function : SUBSET Function, modifiers : SUBSET Modifier, valid : BOOLEAN]

Callsites == [id : 1..LastStep, callees : Nat \union {Many}]

ASSUME NoCallsiteAssumption == None \notin Callsites

StackEntries ==
  [info : Infos, callsite : Callsites \union {None}, return_after : BOOLEAN]

VARIABLES
  i,        \* the snapshot the outer loop is at
  step,     \* its step
  next,     \* the step of the snapshot after it, while the inner loop runs
  stack,    \* the calls that are open
  next_id,  \* per snapshot, None before it is set
  holes,    \* holed_snapshots
  phase     \* "visiting", "returning" or "done"

vars == <<i, step, next, stack, next_id, holes, phase>>

TypeOK ==
  /\ i \in 1..LastStep
  /\ step \in Steps /\ next \in Steps
  /\ stack \in Seq(StackEntries)
  /\ next_id \in [1..LastStep -> (1..LastStep) \union {None}]
  /\ holes \subseteq 1..LastStep
  /\ phase \in {"visiting", "returning", "done"}

Unknown == [function |-> {}, modifiers |-> {}, valid |-> TRUE]
Invalid == [function |-> {}, modifiers |-> {}, valid |-> FALSE]

Bottom == [info |-> Unknown, callsite |-> None, return_after |-> FALSE]

Init ==
  /\ i = 1
  /\ step \in Steps /\ next = step
  /\ stack = <<Bottom>>
  /\ next_id = [j \in 1..LastStep |-> None]
  /\ holes = {}
  /\ phase = IF LastStep > 1 THEN "visiting" ELSE "done"
-----------------------------------------------------------------------------
ContainsUfid(info, ufid) == ufid \in info.function \union info.modifiers

(* with_function and with_modifier *)
Entered(info, s) ==
  IF ~s.entry \/ ~info.valid THEN info
  ELSE IF s.ufid \in Modifier THEN [info EXCEPT !.modifiers = @ \union {s.ufid}]
  ELSE IF info.function = {} THEN [info EXCEPT !.function = {s.ufid}]
  ELSE Invalid

(* Whether step s shows that the function of info is left. *)
Leaves(info, s) ==
  IF info.function # {} THEN ~ContainsUfid(info, s.ufid) \/ s.entry
  ELSE IF info.modifiers # {} THEN ~ContainsUfid(info, s.ufid) /\ ~s.entry
  ELSE ~s.entry

(* Step 0: there is always an entry; step 1: the step may enter its function. *)
Current ==
  LET open == IF stack = <<>> THEN <<Bottom>> ELSE stack
  IN  [open EXCEPT ![Len(open)].info = Entered(@, step)]

(* Step 2: how many calls of step i the entry s has not yet accounted for;
   reEntries of them were calls of other contracts, between i and i + 1. *)
Callees(s, reEntries) ==
  IF step.calls > reEntries /\ s.entry THEN step.calls - reEntries
  ELSE IF s.entry /\ step.ufid \notin Free /\ s.ufid \in Free THEN Many
  ELSE 0

HolesBelowTop(open) ==
  {open[k].callsite.id : k \in {m \in 1..Len(open) :
                                  m < Len(open) /\ \A n \in m..Len(open) : open[n].callsite # None}}

HolesOf(open) ==
  {open[k].callsite.id : k \in {m \in 1..Len(open) :
                                  \A n \in m..Len(open) : open[n].callsite # None}}

(* The outer loop goes on with s; at the last snapshot it ends, and the calls
   still open become holes. *)
GoOn(s, open) ==
  /\ i' = i + 1
  /\ step' = s /\ next' = s
  /\ stack' = open
  /\ IF i + 1 = LastStep
       THEN phase' = "done" /\ holes' = HolesOf(open)
       ELSE phase' = "visiting" /\ UNCHANGED holes

PushCallee(id, callees) ==
  Append(Current, [info |-> Unknown, callsite |-> [id |-> id + 1, callees |-> callees],
                   return_after |-> step.returns])

Push(id, callees) ==
  Append(Current, [info |-> Unknown, callsite |-> [id |-> id, callees |-> callees],
                   return_after |-> step.returns])

VisitCall(s, reEntries) ==
  /\ phase = "visiting"
  /\ Callees(s, reEntries) # 0
  /\ GoOn(s, Push(i, Callees(s, reEntries)))
  /\ UNCHANGED next_id

VisitStay(s, reEntries) ==
  /\ phase = "visiting"
  /\ Callees(s, reEntries) = 0
  /\ ~Leaves(Current[Len(Current)].info, s) /\ ~step.returns
  /\ next_id' = [next_id EXCEPT ![i] = i + 1]
  /\ GoOn(s, Current)

VisitReturn(s, reEntries) ==
  /\ phase = "visiting"
  /\ Callees(s, reEntries) = 0
  /\ Leaves(Current[Len(Current)].info, s) \/ step.returns
  /\ next_id' = [next_id EXCEPT ![i] = i + 1]
  /\ stack' = Current
  /\ next' = s /\ phase' = "returning"
  /\ UNCHANGED <<i, step, holes>>

(* The inner loop. *)
Top == stack[Len(stack)]
Popped == SubSeq(stack, 1, Len(stack) - 1)
Parent == stack[Len(stack) - 1]

ReturnFromTop ==
  /\ phase = "returning"
  /\ Top.callsite = None
  /\ GoOn(next, Popped)
  /\ UNCHANGED next_id

CalleesLeft ==
  IF Top.callsite.callees \in {0, Many} THEN Top.callsite.callees
  ELSE Top.callsite.callees - 1

(* Whether the step that made the call has more calls to make. *)
NotDone ==
  /\ CalleesLeft # 0 \/ next.ufid \in Free
  /\ ~ContainsUfid(Parent.info, next.ufid) \/ next.entry

ReturnToNextCallee ==
  /\ phase = "returning"
  /\ Top.callsite # None /\ NotDone
  /\ GoOn(next, Append(Popped, [Top EXCEPT !.info = Unknown, !.callsite.callees = CalleesLeft]))
  /\ UNCHANGED next_id

ReturnToCallsite ==
  /\ phase = "returning"
  /\ Top.callsite # None /\ ~NotDone
  /\ next_id' = [next_id EXCEPT ![Top.callsite.id] = i + 1]
  /\ IF Leaves(Parent.info, next) \/ Top.return_after
       THEN stack' = Popped /\ UNCHANGED <<i, step, next, holes, phase>>
       ELSE GoOn(next, Popped)

Visit(s, reEntries) ==
  VisitCall(s, reEntries) \/ VisitStay(s, reEntries) \/ VisitReturn(s, reEntries)

Return == ReturnFromTop \/ ReturnToNextCallee \/ ReturnToCallsite

Next ==
  \/ \E s \in Steps, reEntries \in 0..MaxCalls : Visit(s, reEntries)
  \/ Return

Spec == Init /\ [][Next]_vars
-----------------------------------------------------------------------------
(* No snapshot is forgotten: each one visited is followed by a later one, or
   its call is open, or it was made a hole; analyze_prev_steps fails for the
   whole transaction where none of this holds ("does not have next_id set"). *)
EveryStepLinked ==
  \A j \in 1..(i - 1) :
     \/ next_id[j] # None /\ next_id[j] > j
     \/ phase # "done" /\ \E k \in 1..Len(stack) :
           stack[k].callsite # None /\ stack[k].callsite.id = j
     \/ phase = "done" /\ j \in holes

(* Stepping over nests: whatever is visited between a step and the one stepped
   to is followed, at the latest, by that one too.  No call is stepped out of
   beyond the end of the call it was made in. *)
StepsNest ==
  \A a \in 1..LastStep : next_id[a] # None =>
     \A b \in (a + 1)..(next_id[a] - 1) : next_id[b] # None /\ next_id[b] <= next_id[a]
=============================================================================
