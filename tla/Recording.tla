------------------------------ MODULE Recording ------------------------------
(***************************************************************************)
(* How edb records a transaction.  The transaction is executed three times *)
(* (core.rs, prepare), each time the same way, under one inspector each:   *)
(* CallTracer lists the calls, OpcodeSnapshotInspector takes a snapshot    *)
(* before every opcode of contracts without source, HookSnapshotInspector  *)
(* one at every hook of the instrumented contracts.  Here one execution    *)
(* drives all three, callback by callback.  Then Snapshots::merge puts the *)
(* snapshots into one list and analyze_next_steps links it for stepping.   *)
(*                                                                         *)
(* Trace entries and snapshots are numbered from 1.  A snapshot is the     *)
(* position at which it was taken; SnapshotContents says what it holds.    *)
(***************************************************************************)
EXTENDS Naturals, SequencesExt

CONSTANTS MaxEntries,    \* bound on the calls of the transaction
          MaxSnapshots,  \* bound on the snapshots taken
          None

(* What a frame runs: code without source; instrumented code; code with
   source whose creation no hook matched, so that it is excluded from opcode
   snapshots and has no hooks; or nothing, as for a precompile. *)
Kinds == {"plain", "sourced", "unhooked", "empty"}

ASSUME BoundsAssumption == MaxEntries \in Nat \ {0} /\ MaxSnapshots \in Nat
ASSUME NoneAssumption == None \notin Nat

VARIABLES
  evm,               \* the frames in execution, as the EVM has them
  trace,             \* CallTracer: the calls, in the order they began
  call_stack,        \* CallTracer
  opcode_frames,     \* OpcodeSnapshotInspector's frame_stack
  opcode_snapshots,  \* its snapshots per execution frame
  hook_frames,       \* HookSnapshotInspector's frame_stack
  hook_snapshots,    \* its list of snapshots and placeholders
  taken,             \* how many snapshots were taken
  merged,            \* Snapshots: what Snapshots::merge made of them
  phase,             \* "executing", "executed", "merged" or "linked"; or "panicked"
  next_id, prev_id   \* of every merged snapshot, None before they are set

inspectorVars == <<trace, call_stack, opcode_frames, opcode_snapshots, hook_frames, hook_snapshots>>
linkVars == <<next_id, prev_id>>
vars == <<evm, inspectorVars, taken, phase, merged, linkVars>>

Entries == 1..Len(trace)
FrameIds == Entries \X (0..Len(trace))

TypeOK ==
  /\ evm \in Seq(Entries) /\ call_stack \in Seq(Entries)
  /\ \A i \in Entries : trace[i] \in [parent : Entries \union {None}, kind : Kinds]
  /\ opcode_frames \in Seq(FrameIds) /\ hook_frames \in Seq(FrameIds)
  /\ DOMAIN opcode_snapshots \subseteq FrameIds
  /\ \A f \in DOMAIN opcode_snapshots : opcode_snapshots[f] \in Seq(1..taken)
  /\ hook_snapshots \in Seq([frame : FrameIds, snapshot : 1..taken \union {None}])
  /\ taken \in 0..MaxSnapshots
  /\ phase \in {"executing", "executed", "merged", "linked", "panicked"}
  /\ phase = "linked" =>
        LET ids == 1..Len(merged) IN next_id \in [ids -> ids] /\ prev_id \in [ids -> ids]
  /\ merged \in Seq([frame : FrameIds, snapshot : 1..taken, hook : BOOLEAN])

Init ==
  /\ evm = <<>> /\ trace = <<>> /\ call_stack = <<>>
  /\ opcode_frames = <<>> /\ hook_frames = <<>>
  /\ opcode_snapshots = [f \in {} |-> <<>>] /\ hook_snapshots = <<>>
  /\ taken = 0 /\ phase = "executing"
  /\ merged = <<>> /\ next_id = <<>> /\ prev_id = <<>>
-----------------------------------------------------------------------------
(* push_frame and pop_frame of the two inspectors. *)

Placeholder(frame) == [frame |-> frame, snapshot |-> None]

ReEntered(frames) ==
  IF frames = <<>> THEN <<>>
  ELSE [frames EXCEPT ![Len(frames)] = <<@[1], @[2] + 1>>]

PopOpcodeFrameSameId ==
  /\ opcode_frames' = Front(opcode_frames)
  /\ UNCHANGED opcode_snapshots

PopOpcodeFrame ==
  /\ opcode_frames' = ReEntered(Front(opcode_frames))
  /\ UNCHANGED opcode_snapshots

PopHookFrameSilently ==
  /\ hook_frames' = ReEntered(Front(hook_frames))
  /\ UNCHANGED hook_snapshots

PopHookFrame ==
  /\ hook_frames' = ReEntered(Front(hook_frames))
  /\ hook_snapshots' = IF hook_frames' = <<>> THEN hook_snapshots
                       ELSE Append(hook_snapshots, Placeholder(Last(hook_frames')))
-----------------------------------------------------------------------------
(* The callbacks. *)

Running == phase = "executing" /\ evm # <<>> /\ trace[Last(evm)].kind # "empty"
Recorded == Running /\ trace[Last(evm)].kind = "plain"

(* HashMap: insert, and entry().or_default(). *)
Put(map, key, value) == [k \in DOMAIN map \union {key} |-> IF k = key THEN value ELSE map[k]]
OrDefault(map, key) == IF key \in DOMAIN map THEN map[key] ELSE <<>>

SnapshotsOf(f) == OrDefault(opcode_snapshots, f)

(* record_snapshot, for the frame on top of the stack. *)
RecordOpcode ==
  LET f == Last(opcode_frames)
  IN  Put(opcode_snapshots, f, Append(SnapshotsOf(f), taken + 1))

(* call and create, after the step that asks for them; a call to nothing is one
   too, and one that fails before its code is run. *)
Call(kind) ==
  LET id == Len(trace) + 1
      recorded == IF Recorded THEN RecordOpcode ELSE opcode_snapshots
  IN
  /\ phase = "executing" /\ Len(trace) < MaxEntries
  /\ Running \/ trace = <<>>
  /\ Recorded => taken < MaxSnapshots
  /\ evm' = Append(evm, id)
  /\ trace' = Append(trace, [parent |-> IF call_stack = <<>> THEN None ELSE Last(call_stack),
                              kind |-> kind])
  /\ call_stack' = Append(call_stack, id)
  /\ opcode_frames' = Append(opcode_frames, <<id, 0>>)
  /\ opcode_snapshots' = Put(recorded, <<id, 0>>, OrDefault(recorded, <<id, 0>>))
  /\ hook_frames' = Append(hook_frames, <<id, 0>>)
  /\ hook_snapshots' = Append(hook_snapshots, Placeholder(<<id, 0>>))
  /\ taken' = IF Recorded THEN taken + 1 ELSE taken
  /\ UNCHANGED <<phase, merged, linkVars>>

(* call_end and create_end, however the call ended; code that goes on after a
   call of its own does not end without another step. *)
CallEnd ==
  /\ phase = "executing" /\ evm # <<>>
  /\ Recorded /\ Last(opcode_frames)[2] > 0 => SnapshotsOf(Last(opcode_frames)) # <<>>
  /\ evm' = Front(evm)
  /\ call_stack' = Front(call_stack)
  /\ PopOpcodeFrame /\ PopHookFrame
  /\ phase' = IF evm' = <<>> THEN "executed" ELSE phase
  /\ UNCHANGED <<trace, taken, merged, linkVars>>

(* step in code whose opcodes are recorded. *)
PlainStep ==
  /\ Recorded /\ taken < MaxSnapshots
  /\ opcode_snapshots' = RecordOpcode
  /\ taken' = taken + 1
  /\ UNCHANGED <<evm, trace, call_stack, opcode_frames, hook_frames, hook_snapshots,
                 phase, merged, linkVars>>

(* update_last_frame_with_snapshot *)
FillOrPush(frame, snapshot) ==
  IF hook_snapshots # <<>> /\ Last(hook_snapshots).snapshot = None
  THEN [hook_snapshots EXCEPT ![Len(hook_snapshots)].snapshot = snapshot]
  ELSE Append(hook_snapshots, [frame |-> frame, snapshot |-> snapshot])

(* step at a hook: KECCAK256 of the number that marks a snapshot. *)
HookStep ==
  /\ Running /\ trace[Last(evm)].kind = "sourced" /\ taken < MaxSnapshots
  /\ hook_snapshots' = FillOrPush(Last(hook_frames), taken + 1)
  /\ taken' = taken + 1
  /\ UNCHANGED <<evm, trace, call_stack, opcode_frames, opcode_snapshots, hook_frames,
                 phase, merged, linkVars>>
-----------------------------------------------------------------------------
(* Snapshots::merge: a placeholder stands for the opcode snapshots of its
   frame, which the first placeholder of a frame takes away. *)
OpcodePiece(i) ==
  LET f == hook_snapshots[i].frame IN
  IF f \in DOMAIN opcode_snapshots /\ \A j \in 1..(i - 1) : hook_snapshots[j] # Placeholder(f)
  THEN [k \in DOMAIN opcode_snapshots[f] |->
          [frame |-> f, snapshot |-> opcode_snapshots[f][k], hook |-> FALSE]]
  ELSE <<>>

HookPiece(i) ==
  <<[frame |-> hook_snapshots[i].frame, snapshot |-> hook_snapshots[i].snapshot, hook |-> TRUE]>>

Merge ==
  /\ phase = "executed"
  /\ merged' = FlattenSeq([i \in DOMAIN hook_snapshots |->
                  IF hook_snapshots[i].snapshot = None THEN OpcodePiece(i) ELSE HookPiece(i)])
  /\ phase' = "merged"
  /\ UNCHANGED <<evm, inspectorVars, taken, linkVars>>

Ids == 1..Len(merged)
EntryOf(i) == merged[i].frame[1]
LastId == Len(merged)
LastOf(e) == Max({i \in Ids : EntryOf(i) = e})

(* find_next_step_for_holed_snapshots: the first snapshot after i of the
   nearest caller that has one, or else the last of all. *)
FillHoleWithNext(i) == IF i = LastId THEN i ELSE i + 1

FillHole(i) ==
  LET inCaller[e \in Entries] ==
        LET p == trace[e].parent
            after == {j \in Ids : j > i /\ EntryOf(j) = p}
        IN  IF p = None THEN LastId
            ELSE IF after # {} THEN Min(after) ELSE inCaller[p]
  IN  inCaller[EntryOf(i)]

LaterInEntry(i) == {j \in Ids : j > i /\ EntryOf(j) = EntryOf(i)}

(* The last snapshot of an entry is a hole; in an entry without source every
   other is followed by the next, analyze_next_steps_for_opcode. *)
NextId(i) == IF LaterInEntry(i) = {} THEN FillHole(i) ELSE Min(LaterInEntry(i))

(* Those of an entry with source, whose call stack StepAnalysis follows, are
   linked to a later one of the entry or left as holes. *)
Sourced == {i \in Ids : merged[LastOf(EntryOf(i))].hook /\ LaterInEntry(i) # {}}
SourcedNextIds(i) == LaterInEntry(i) \union {FillHole(i)}

(* analyze_prev_steps *)
PrevIds(next) ==
  [j \in Ids |-> LET from == {i \in Ids : next[i] = j}
                 IN  IF from # {} THEN Min(from) ELSE IF j = 1 THEN 1 ELSE j - 1]

Analyze ==
  /\ phase = "merged"
  /\ \E hop \in [Sourced -> Ids] :
        /\ \A i \in Sourced : hop[i] \in SourcedNextIds(i)
        /\ next_id' = [i \in Ids |-> IF i \in Sourced THEN hop[i] ELSE NextId(i)]
  /\ prev_id' = PrevIds(next_id')
  /\ phase' = "linked"
  /\ UNCHANGED <<evm, inspectorVars, taken, merged>>

Next ==
  \/ \E kind \in Kinds : Call(kind)
  \/ CallEnd \/ PlainStep \/ HookStep
  \/ Merge \/ Analyze

Spec == Init /\ [][Next]_vars
-----------------------------------------------------------------------------
(* The three inspectors, in three executions, agree on where they are: their
   frames are the calls the tracer has open, which are those of the EVM, and a
   frame has been re-entered as often as it has made calls that returned.  The
   trace entry of a snapshot is looked up by these numbers. *)
FramesAgree ==
  /\ call_stack = evm /\ opcode_frames = hook_frames
  /\ Len(opcode_frames) = Len(evm)
  /\ \A k \in 1..Len(evm) :
        opcode_frames[k] =
          <<evm[k], Cardinality({i \in Entries : trace[i].parent = evm[k]}
                                \ {evm[j] : j \in 1..Len(evm)})>>

(* The merged list (snapshot/mod.rs:315-361) has every snapshot that was taken,
   once, and in the order of the execution, although it is put together from a
   map of frames and a list with placeholders. *)
MergedInExecutionOrder ==
  phase = "merged" => [i \in Ids |-> merged[i].snapshot] = [i \in 1..taken |-> i]

(* e, and the calls in which it was made, directly or not. *)
CallersOf(e) ==
  LET callers[g \in Entries] ==
        {g} \union (IF trace[g].parent = None THEN {} ELSE callers[trace[g].parent])
  IN  callers[e]

(* Stepping over a snapshot of a contract without source goes to the next
   snapshot of the same call or of one it was made by, whichever comes first,
   and so never into a call; only where none is left it goes to the end. *)
StepsOverCalls ==
  phase = "linked" =>
    \A i \in Ids : ~merged[i].hook =>
       LET outside == {j \in Ids : j > i /\ EntryOf(j) \in CallersOf(EntryOf(i))}
       IN  next_id[i] = IF outside = {} THEN LastId ELSE Min(outside)

(* Stepping goes forward until the end, and back until the beginning; and
   stepping back from where a step over led goes behind its origin or to it, so
   that no snapshot is out of reach. *)
StepsProgress ==
  phase = "linked" =>
    \A i \in Ids :
       /\ i # LastId => next_id[i] > i
       /\ i # 1 => prev_id[i] < i
       /\ prev_id[next_id[i]] <= i

(* Both: whatever was recorded of the calls, a debugger that follows the links
   (snapshot/analysis.rs:104-227) steps over calls, makes progress and misses
   nothing. *)
StepsLinkForward == StepsOverCalls /\ StepsProgress
=============================================================================
