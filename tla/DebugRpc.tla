------------------------------ MODULE DebugRpc ------------------------------
(***************************************************************************)
(* Debug-server methods that search the recorded snapshots,                *)
(* crates/engine/src/rpc/methods/navigation.rs and breakpoint.rs.  A       *)
(* recording is a function on snapshot ids 0 .. n-1; a snapshot has the    *)
(* detail its inspector recorded and the values the conditions have there. *)
(***************************************************************************)
EXTENDS Naturals, FiniteSetsExt

Ids(snapshots) == DOMAIN snapshots

LastId(snapshots) == CHOOSE id \in Ids(snapshots) : id + 1 \notin Ids(snapshots)

MessageCalls == {"CREATE", "CREATE2", "CALL", "CALLCODE", "DELEGATECALL", "STATICCALL"}

(* Of a hook snapshot, step_info.function_calls() of the step of its usid. *)
SnapshotIsCall(s) ==
  \/ s.detail = "opcode" /\ s.opcode \in MessageCalls
  \/ s.detail = "hook" /\ s.function_calls > 0

GetNextCall(snapshots, id) ==
  LET calls == {i \in Ids(snapshots) : i > id /\ SnapshotIsCall(snapshots[i])} IN
  IF calls = {} THEN LastId(snapshots) ELSE Min(calls)

GetPrevCall(snapshots, id) ==
  LET calls == {i \in Ids(snapshots) : i < id /\ SnapshotIsCall(snapshots[i])} IN
  IF calls = {} THEN 0 ELSE Max(calls)
-----------------------------------------------------------------------------
(* Breakpoints: a location, a condition, or both. *)
NoLocation == <<>>
NoCondition == "none"

(* A location is <<"hook" or "opcode", its address, the line or the pc>>. *)
CheckLocationMatch(s, loc) ==
  loc \in {NoLocation, <<s.detail, s.bytecode_address, s.at>>}

(* The condition is wrapped in bool(...); an evaluation that fails is no hit. *)
CheckBreakpointHit(s, bp) ==
  /\ CheckLocationMatch(s, bp.loc)
  /\ bp.condition = NoCondition \/ bp.condition \in s.holds

GetBreakpointHits(snapshots, bp) ==
  {id \in Ids(snapshots) : CheckBreakpointHit(snapshots[id], bp)}
=============================================================================
