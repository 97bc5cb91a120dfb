--------------------------- MODULE SnapshotContents ---------------------------
(***************************************************************************)
(* What the snapshots of Recording hold.  An inspector does not read the   *)
(* whole machine before every step: OpcodeSnapshotInspector keeps the      *)
(* database, the transient storage, the memory of each frame and the stack *)
(* of each call as it last saw them, and renews what the opcode just       *)
(* executed may have changed; HookSnapshotInspector keeps the database and *)
(* the transient storage.  A snapshot shows what they keep.                *)
(*                                                                         *)
(* A value is the number of the step that wrote it, 0 at first.  Storage,  *)
(* transient storage and memory are one cell each.  Left out: the calldata *)
(* of a call, which does not change; balances and accounts; and the stack  *)
(* and memory of calls that are not recorded.                              *)
(***************************************************************************)
EXTENDS Recording

ASSUME OutcomeAssumption == None \notin BOOLEAN

VARIABLES
  state,             \* the storage and the transient storage of the machine
  frames,            \* the machine's frame of each call in execution
  database,          \* OpcodeSnapshotInspector: database and transient_storage
  frame_states,      \* OpcodeSnapshotInspector: the last_memory of a frame
  trace_state,       \* OpcodeSnapshotInspector: the stack of a call
  hook_database      \* HookSnapshotInspector: database and transient_storage

keptVars == <<database, frame_states, trace_state, hook_database>>
contentVars == <<vars, state, frames, keptVars>>

State == [storage : 0..MaxSnapshots + 1, transient : 0..MaxSnapshots + 1]
Blank == [storage |-> 0, transient |-> 0]

(* before is the state to go back to if the call fails; outcome says how its
   code ended, None while it goes on; misread is a history variable. *)
NewFrame(create) ==
  [before |-> state, memory |-> 0, stack |-> <<>>, outcome |-> None,
   create |-> create, misread |-> FALSE]

Forgotten ==
  /\ database' = Blank /\ hook_database' = Blank
  /\ frame_states' = [f \in {} |-> 0] /\ trace_state' = [e \in {} |-> <<>>]

ContentsTypeOK ==
  /\ TypeOK
  /\ state \in State /\ database \in State /\ hook_database \in State
  /\ Len(frames) = Len(evm)
  /\ DOMAIN frame_states \subseteq FrameIds /\ DOMAIN trace_state \subseteq Entries

ContentsInit ==
  /\ Init
  /\ state = Blank /\ frames = <<>>
  /\ database = Blank /\ hook_database = Blank
  /\ frame_states = [f \in {} |-> 0] /\ trace_state = [e \in {} |-> <<>>]
-----------------------------------------------------------------------------
(* The machine.  The opcodes differ in what they take from the stack, put on
   it and write; a call takes one item here, for its target, and a store one,
   for its value. *)
Opcodes == {"push", "swap", "mstore", "sstore", "tstore", "stop", "revert"}

Inputs(op) ==
  CASE op \in {"mstore", "sstore", "tstore", "call"} -> 1
    [] op = "swap" -> 2
    [] OTHER -> 0
Outputs(op) ==
  CASE op = "push" -> 1
    [] op = "swap" -> 2
    [] OTHER -> 0

ModifiesEvmState(op) == op \in {"sstore", "call"}
ModifiesTransientStorage(op) == op = "tstore"
IsMessageCall(op) == op = "call"
ModifiesMemory(op) == op \in {"mstore", "call"}

Value == taken + 1
Top == Last(frames)
GoesOn == Top.outcome = None

Written(op) ==
  [storage |-> IF op = "sstore" THEN Value ELSE state.storage,
   transient |-> IF op = "tstore" THEN Value ELSE state.transient]

TopItems(n, stack) == SubSeq(stack, Len(stack) - n + 1, Len(stack))
Popped(n, stack) == SubSeq(stack, 1, Len(stack) - n)

Executed(op, frame) ==
  [frame EXCEPT
     !.memory = IF op = "mstore" THEN Value ELSE @,
     !.stack = Popped(Inputs(op), @) \o
                 (CASE op = "push" -> <<Value>>
                    [] op = "swap" -> Reverse(TopItems(2, @))
                    [] OTHER -> <<>>),
     !.outcome = CASE op = "stop" -> TRUE
                   [] op = "revert" -> FALSE
                   [] OTHER -> None]
-----------------------------------------------------------------------------
(* update_storage and update_database, at the end of a step of op and around
   a call, where they are forced. *)
UpdatedByOpcode(kept, op, new) ==
  [storage |-> IF ModifiesEvmState(op) /\ ~IsMessageCall(op) THEN new.storage ELSE kept.storage,
   transient |-> IF ModifiesTransientStorage(op) THEN new.transient ELSE kept.transient]

UpdatedUnforced(kept, new) == kept

UpdatedByForce(kept, new) == new

(* update_stack; it panics where an item is missing. *)
StackUnderflow(op, stack, actual) ==
  \/ Len(stack) < Inputs(op)
  \/ ~IsMessageCall(op) /\ Len(actual) < Outputs(op)

UpdatedStack(op, stack, actual) ==
  Popped(Inputs(op), stack) \o
    (IF IsMessageCall(op) THEN <<>> ELSE TopItems(Outputs(op), actual))

(* The current frame and the stack and memory kept of it; the first step of a
   frame takes them from the interpreter, or an empty stack. *)
Frame == Last(opcode_frames)
KeptStack == OrDefault(trace_state, Last(evm))
KeptMemory == IF Frame \in DOMAIN frame_states THEN frame_states[Frame] ELSE Top.memory

(* record_snapshot and then step_end, of op that left the frame as actual. *)
KeepFrame(op, actual) ==
  /\ trace_state' = Put(trace_state, Last(evm), UpdatedStack(op, KeptStack, actual.stack))
  /\ frame_states' =
       Put(frame_states, Frame, IF ModifiesMemory(op) THEN actual.memory ELSE KeptMemory)
-----------------------------------------------------------------------------
(* The actions of Recording, with the contents. *)

(* A step of a recorded call. *)
StepOf(op) ==
  LET new == Executed(op, Top) IN
  /\ PlainStep /\ GoesOn /\ Len(Top.stack) >= Inputs(op)
  /\ frames' = [frames EXCEPT ![Len(frames)] = new]
  /\ state' = Written(op)
  /\ KeepFrame(op, new)
  /\ database' = UpdatedByOpcode(database, op, state')
  /\ hook_database' = UpdatedByOpcode(hook_database, op, state')

(* An opcode that cannot be executed, for want of gas or of items on the stack,
   changes nothing and ends the call.  The inspector takes it for executed, and
   where that takes more items than there are, edb ends here. *)
FailingStepOf(op) ==
  LET new == [Top EXCEPT !.outcome = FALSE] IN
  /\ PlainStep /\ GoesOn
  /\ ~StackUnderflow(op, KeptStack, Top.stack)
  /\ frames' = [frames EXCEPT ![Len(frames)] = new]
  /\ KeepFrame(op, new)
  /\ database' = UpdatedByOpcode(database, op, state)
  /\ hook_database' = UpdatedByOpcode(hook_database, op, state)
  /\ UNCHANGED state

Panic(op) ==
  /\ Recorded /\ GoesOn /\ StackUnderflow(op, KeptStack, Top.stack)
  /\ phase' = "panicked"
  /\ Forgotten
  /\ UNCHANGED <<evm, inspectorVars, taken, merged, linkVars, state, frames>>

(* A write of a call that is not recorded, between the hooks if it has any;
   bound: one between two snapshots. *)
UnrecordedWrite(op) ==
  /\ Running /\ ~Recorded /\ Value \notin {state.storage, state.transient}
  /\ state' = Written(op)
  /\ database' = UpdatedByOpcode(database, op, state')
  /\ hook_database' = UpdatedByOpcode(hook_database, op, state')
  /\ UNCHANGED <<vars, frames, frame_states, trace_state>>

HookStepOf ==
  /\ HookStep
  /\ UNCHANGED <<state, frames, keptVars>>

(* The step of the call, step_end, and then call or create. *)
CallOf(kind, create) ==
  LET caller == Executed("call", Top) IN
  /\ Call(kind)
  /\ Recorded => GoesOn /\ Top.stack # <<>>
  /\ frames' = Append(IF Recorded THEN [frames EXCEPT ![Len(frames)] = caller] ELSE frames,
                      NewFrame(create))
  /\ IF Recorded THEN KeepFrame("call", caller) ELSE UNCHANGED <<frame_states, trace_state>>
  /\ database' = UpdatedByForce(database, state)
  /\ hook_database' = UpdatedByForce(hook_database, state)
  /\ UNCHANGED state

(* call_end and create_end.  The machine undoes what a failed call wrote, puts
   0 or what the call gave on the stack of the caller, and, of a call, its
   output into its memory; at the end of the transaction all is forgotten.  The outcome of a creation that failed may still
   name the address, which create_end takes for the result. *)
CallEndOf(success, named) ==
  LET caller == frames[Len(frames) - 1]
      result == IF success THEN Value ELSE 0
      shown == IF success \/ named THEN Value ELSE 0
      parent == trace[Last(evm)].parent
      recorded == Len(frames) > 1 /\ trace[parent].kind = "plain"
      returned == [caller EXCEPT !.memory = IF Top.create THEN @ ELSE Value,
                                 !.stack = Append(@, result),
                                 !.misread = @ \/ shown # result]
  IN
  /\ CallEnd
  /\ Recorded /\ SnapshotsOf(Frame) # <<>> => Top.outcome = success
  /\ Recorded /\ SnapshotsOf(Frame) = <<>> => ~success
  /\ named => Top.create /\ ~success
  /\ state' = IF phase' = "executed" THEN Blank ELSE IF success THEN state ELSE Top.before
  /\ frames' = IF recorded THEN Append(SubSeq(frames, 1, Len(frames) - 2), returned)
               ELSE Front(frames)
  /\ IF phase' = "executed"
       THEN Forgotten
       ELSE /\ database' = UpdatedByForce(database, state')
            /\ hook_database' = UpdatedByForce(hook_database, state')
            /\ frame_states' = [f \in DOMAIN frame_states \ {Frame} |-> frame_states[f]]
            /\ trace_state' = IF recorded THEN [trace_state EXCEPT ![parent] = Append(@, shown)]
                              ELSE trace_state

ContentsNext ==
  \/ \E op \in Opcodes : StepOf(op)
  \/ \E op \in Opcodes \union {"call"} : FailingStepOf(op) \/ Panic(op)
  \/ \E op \in {"sstore", "tstore"} : UnrecordedWrite(op)
  \/ HookStepOf
  \/ \E kind \in Kinds, create \in BOOLEAN : CallOf(kind, create)
  \/ \E success, named \in BOOLEAN : CallEndOf(success, named)
  \/ (Merge \/ Analyze) /\ UNCHANGED <<state, frames, keptVars>>

ContentsSpec == ContentsInit /\ [][ContentsNext]_contentVars
-----------------------------------------------------------------------------
(* A snapshot shows the machine as it is when it is taken, although the
   inspectors read the machine only where they expect a change
   (opcode_snapshot_inspector.rs:257-348, 424-431): also after calls that failed
   and were undone, and in the memory and on the stack of a caller that goes
   on.  The stack of a caller after a creation that failed is excepted. *)
SnapshotsHoldTheState ==
  /\ Recorded /\ GoesOn =>
       /\ database = state
       /\ KeptMemory = Top.memory
       /\ KeptStack = Top.stack \/ Top.misread
  /\ Running /\ trace[Last(evm)].kind = "sourced" => hook_database = state
=============================================================================
