--------------------------- MODULE ExecutionManager ---------------------------
(***************************************************************************)
(* crates/tui/src/data/manager/execution.rs: the position of the user in   *)
(* the recorded transaction, the breakpoints, and the commands that move   *)
(* the one to the others, on facts that arrive late from the debug server. *)
(* One step is one call of a public method, on the thread that draws; the  *)
(* background task's Take and Finish run between them.  The debug server   *)
(* answers as in DebugRpc.                                                 *)
(***************************************************************************)
EXTENDS ManagerCore, DebugRpc, SequencesExt

CONSTANTS Recordings,      \* what the debugged transaction may have recorded
          Locations,       \* where the user may ask for a breakpoint
          Conditions,      \* the conditions the user may set
          Sessions,        \* bound: the commands a user uses in one session, and the
                           \* requests answered before, whose facts are known already
          MaxBreakpoints   \* bound: length of the list of breakpoints

ASSUME RecordingsAssumption ==
  \A r \in Recordings :
     /\ IsFiniteSet(DOMAIN r) /\ DOMAIN r # {} /\ DOMAIN r = 0..(Cardinality(DOMAIN r) - 1)
     /\ \A i \in DOMAIN r : r[i].next_id \in DOMAIN r /\ r[i].prev_id \in DOMAIN r
ASSUME SessionsAssumption ==
  \A s \in Sessions, r \in Recordings : \A request \in s.known :
     /\ request[1] \in {"info", "code_at", "code", "next", "prev", "hits", "diff"}
     /\ request[1] \notin {"code", "hits"} => request[2] \in DOMAIN r
ASSUME LocationsAssumption ==
  \A loc \in Locations : loc[1] \in {"hook", "opcode"}
ASSUME MaxBreakpointsAssumption == MaxBreakpoints \in Nat

VARIABLES
  snapshots,         \* the recording; it never changes
  status,            \* execution_status: [waits |-> "none" | "next" | "prev" | "hits", for |-> ...]
  current,           \* current_snapshot
  displayed,         \* display_snapshot
  breakpoints,       \* breakpoints: sequence of [bp |-> ..., enabled |-> ...]
  breakpoint_set,    \* breakpoint_set
  session            \* what its user does, and what is cached at its start; it never changes

fixed == <<snapshots, session>>
executionVars == <<managerVars, fixed, status, current, displayed, breakpoints, breakpoint_set>>

Snapshot == Ids(snapshots)
AllBreakpoints == [loc : Locations, condition : Conditions \union {NoCondition}]
Normal == [waits |-> "none"]
Waiting == status # Normal
WaitNextCall(id) == [waits |-> "next", for |-> id]
WaitPrevCall(id) == [waits |-> "prev", for |-> id]
WaitBreakpointHits(b) == [waits |-> "hits", bp |-> b]

ExecutionTypeOK ==
  /\ snapshots \in Recordings
  /\ status \in {Normal} \union {WaitNextCall(i) : i \in Snapshot}
                  \union {WaitPrevCall(i) : i \in Snapshot}
                  \union {WaitBreakpointHits(b) : b \in AllBreakpoints}
  /\ current \in Snapshot /\ displayed \in Snapshot
  /\ breakpoints \in Seq([bp : AllBreakpoints, enabled : BOOLEAN])
  /\ breakpoint_set \subseteq AllBreakpoints
-----------------------------------------------------------------------------
(* ExecutionRequest::fetch_data, for each kind of request in turn.  Of a
   snapshot info only next_id and prev_id are read here; its address, the key
   of its code, comes with the trace. *)
Address(id) == snapshots[id].bytecode_address

InfoFact(id) == <<"info", id, <<snapshots[id].next_id, snapshots[id].prev_id>>>>
CodeFact(a) == <<"code", a, <<>>>>

NextCallFactsInclusive(id) ==
  LET n == GetNextCall(snapshots, id) IN {<<"next", i, n>> : i \in {id} \union (id + 1)..n}

(* get_next_call answers for all snapshots up to the call ... *)
NextCallFacts(id) ==
  LET n == GetNextCall(snapshots, id) IN {<<"next", i, n>> : i \in {id} \union (id + 1)..(n - 1)}

(* ... and get_prev_call for those since. *)
PrevCallFacts(id) ==
  LET n == GetPrevCall(snapshots, id) IN {<<"prev", i, n>> : i \in {id} \union (n + 1)..(id - 1)}

FactsOf(request) ==
  LET kind == request[1]
      key  == request[2]
  IN
  CASE kind = "info" -> {InfoFact(key)}
    [] kind = "code_at" -> {InfoFact(key), CodeFact(Address(key))}
    [] kind = "code" -> {CodeFact(key)}
    [] kind = "next" -> NextCallFacts(key)
    [] kind = "prev" -> PrevCallFacts(key)
    [] kind = "hits" -> {<<"hits", key, GetBreakpointHits(snapshots, key)>>}
    [] kind = "diff" -> {<<"diff", key, <<>>>>}

FetchData(cache, requests) ==
  cache \union UNION {FactsOf(r) : r \in {r \in requests : ~Cached(cache, r[1], r[2])}}
-----------------------------------------------------------------------------
(* The getters: what is not in the manager's cache is requested. *)
Missing(kind, key) == IF Cached(Pulled, kind, key) THEN {} ELSE {<<kind, key>>}

Known(kind, key) == Cached(Pulled, kind, key)
Value(kind, key) == Cell(Pulled, kind, key)

(* get_snapshot_info and get_code of a snapshot *)
MissingOf(id) ==
  IF ~Known("info", id) THEN {<<"info", id>>, <<"code_at", id>>}
  ELSE IF ~Known("code", Address(id)) THEN {<<"code_at", id>>} ELSE {}

Enabled == {breakpoints[i].bp : i \in {i \in DOMAIN breakpoints : breakpoints[i].enabled}}

UnknownHits == UNION {Missing("hits", b) : b \in Enabled}

(* find_breakpoint_hit_in_range; hits it does not know do not stop it. *)
FindBreakpointHitInRange(from, to) ==
  LET hits == UNION {Value("hits", b) : b \in {b \in Enabled : Known("hits", b)}}
      ahead == {h \in hits : from < h /\ h <= to}
      behind == {h \in hits : to <= h /\ h < from}
  IN
  CASE from < to /\ ahead # {} -> Min(ahead)
    [] to < from /\ behind # {} -> Max(behind)
    [] OTHER -> to

(* goto_snapshot, then display_snapshot of where that stopped; asked are
   requests of the same moment. *)
GotoSnapshotAsking(id, stop_on_breakpoint, asked) ==
  LET to == IF stop_on_breakpoint THEN FindBreakpointHitInRange(current, id) ELSE id
      unknown == IF stop_on_breakpoint /\ id # current THEN UnknownHits ELSE {}
  IN
  /\ current' = to
  /\ displayed' = to
  /\ local' = Pulled
  /\ NewFetchingRequests(unknown \union MissingOf(to) \union asked)
  /\ UNCHANGED <<core, batch, fixed, breakpoints, breakpoint_set>>

GotoSnapshot(id, stop_on_breakpoint) == GotoSnapshotAsking(id, stop_on_breakpoint, {})

(* An operation that only asks for what it misses. *)
OnlyRequestMore(requests) ==
  /\ local' = Pulled
  /\ UNCHANGED <<core, batch, fixed, current, displayed>>
  /\ NewFetchingRequests(requests)

OnlyRequest(requests) ==
  OnlyRequestMore(requests) /\ UNCHANGED <<breakpoints, breakpoint_set>>
-----------------------------------------------------------------------------
CheckPendingRequestOnce ==
  /\ Waiting
  /\ \/ /\ status.waits \in {"next", "prev"}
        /\ Known(status.waits, status.for)
        /\ status' = Normal
        /\ GotoSnapshot(Value(status.waits, status.for), status.waits = "next")
     \/ /\ status.waits = "hits" /\ Known("hits", status.bp)
        /\ OnlyRequest({})
        /\ status' = Normal

(* check_pending_request while something is waited for: every command, and
   every redraw, ends here.  A redraw asks for more (asked), a command does
   not. *)
CheckPendingRequestAsking(asked) ==
  /\ Waiting
  /\ \/ /\ status.waits \in {"next", "prev"}
        /\ Known(status.waits, status.for)
        /\ status' = Normal
        /\ GotoSnapshotAsking(Value(status.waits, status.for), status.waits = "next", asked)
     \/ /\ status.waits \in {"next", "prev"}
        /\ ~Known(status.waits, status.for)
        /\ OnlyRequest({<<status.waits, status.for>>} \union asked)
        /\ UNCHANGED status
     \/ /\ status.waits = "hits"
        /\ OnlyRequest(Missing("hits", status.bp) \union asked)
        /\ status' = IF Known("hits", status.bp) THEN Normal ELSE status

CheckPendingRequest == CheckPendingRequestAsking({})

(* A redraw also asks for the hits of the breakpoints and for what is shown. *)
Redraw ==
  /\ ~Waiting
  /\ OnlyRequest(UnknownHits \union MissingOf(current) \union MissingOf(displayed))
  /\ UNCHANGED status

Display(id) ==
  /\ displayed' = id
  /\ local' = Pulled
  /\ NewFetchingRequests(MissingOf(id))
  /\ UNCHANGED <<core, batch, fixed, status, current, breakpoints, breakpoint_set>>

Goto(id, stop_on_breakpoint) ==
  /\ ~Waiting
  /\ GotoSnapshot(id, stop_on_breakpoint)
  /\ UNCHANGED status

Sanitized(id) == Min({id, LastId(snapshots)})

Step(count) == Goto(Sanitized(current + count), TRUE)

ReverseStepAnytime(count) ==
  /\ GotoSnapshot(IF count > current THEN 0 ELSE current - count, FALSE)
  /\ UNCHANGED status

ReverseStep(count) == Goto(IF count > current THEN 0 ELSE current - count, FALSE)

(* Without the info of the current snapshot nothing moves. *)
Over(link, stop_on_breakpoint) ==
  /\ ~Waiting
  /\ IF Known("info", current)
       THEN GotoSnapshot(Sanitized(Value("info", current)[link]), stop_on_breakpoint)
       ELSE OnlyRequest({<<"info", current>>})
  /\ UNCHANGED status

Next == Over(1, TRUE)
Prev == Over(2, FALSE)

NextCallHere ==
  /\ ~Waiting
  /\ IF Known("next", current)
       THEN GotoSnapshot(Value("next", current), TRUE) /\ UNCHANGED status
       ELSE OnlyRequest({<<"next", current>>}) /\ status' = WaitNextCall(current)

PrevCallHere ==
  /\ ~Waiting
  /\ IF Known("prev", current)
       THEN GotoSnapshot(Value("prev", current), FALSE) /\ UNCHANGED status
       ELSE OnlyRequest({<<"prev", current>>}) /\ status' = WaitPrevCall(current)
-----------------------------------------------------------------------------
(* Breakpoints: only while nothing is waited for. *)

(* validate_breakpoint: of a location, once the code of its address is known
   (a file that does not resolve, a line or a pc that is not there: no
   member of Locations). *)
Valid(b) ==
  /\ b.loc # NoLocation \/ b.condition # NoCondition
  /\ b.loc # NoLocation => Known("code", b.loc[2])

AwaitHits(b) ==
  /\ OnlyRequestMore(Missing("hits", b))
  /\ status' = IF Known("hits", b) THEN Normal ELSE WaitBreakpointHits(b)

AddBreakpoint(b) ==
  /\ ~Waiting
  /\ IF Valid(b)
       THEN /\ breakpoint_set' = breakpoint_set \union {b}
            /\ breakpoints' = IF b \in breakpoint_set THEN breakpoints
                              ELSE Append(breakpoints, [bp |-> b, enabled |-> TRUE])
            /\ AwaitHits(b)
       ELSE /\ OnlyRequestMore(IF b.loc = NoLocation THEN {}
                               ELSE Missing("code", b.loc[2]))
            /\ UNCHANGED <<status, breakpoints, breakpoint_set>>

UpdateBreakpointConditionNoWait(i, c) ==
  /\ ~Waiting /\ i \in DOMAIN breakpoints
  /\ breakpoints' = [breakpoints EXCEPT ![i].bp.condition = c]
  /\ OnlyRequestMore(Missing("hits", breakpoints'[i].bp))
  /\ UNCHANGED <<status, breakpoint_set>>

(* The set keeps the breakpoint as it was. *)
UpdateBreakpointCondition(i, c) ==
  /\ ~Waiting /\ i \in DOMAIN breakpoints
  /\ breakpoints' = [breakpoints EXCEPT ![i].bp.condition = c]
  /\ AwaitHits([breakpoints[i].bp EXCEPT !.condition = c])
  /\ UNCHANGED breakpoint_set

EnableBreakpoint(i, enabled) ==
  /\ ~Waiting /\ i \in DOMAIN breakpoints
  /\ breakpoints' = [breakpoints EXCEPT ![i].enabled = enabled]
  /\ UNCHANGED <<managerVars, fixed, status, current, displayed, breakpoint_set>>

EnableAllBreakpoints(enabled) ==
  /\ ~Waiting
  /\ breakpoints' = [i \in DOMAIN breakpoints |-> [breakpoints[i] EXCEPT !.enabled = enabled]]
  /\ UNCHANGED <<managerVars, fixed, status, current, displayed, breakpoint_set>>

RemoveBreakpoint(i) ==
  /\ ~Waiting /\ i \in DOMAIN breakpoints
  /\ breakpoints' = RemoveAt(breakpoints, i)
  /\ breakpoint_set' = breakpoint_set \ {breakpoints[i].bp}
  /\ UNCHANGED <<managerVars, fixed, status, current, displayed>>

ClearBreakpoints ==
  /\ ~Waiting
  /\ breakpoints' = <<>> /\ breakpoint_set' = {}
  /\ UNCHANGED <<managerVars, fixed, status, current, displayed>>
-----------------------------------------------------------------------------
May(command) == command \in session.commands

Init ==
  /\ session \in Sessions
  /\ snapshots \in Recordings
  /\ ManagerInit(UNION {FactsOf(request) : request \in session.known}, MissingOf(0))
  /\ status = Normal
  /\ current = 0 /\ displayed = 0
  /\ breakpoints = <<>> /\ breakpoint_set = {}

Moves ==
  \/ May("goto") /\ \E id \in Snapshot, stop \in BOOLEAN : Goto(id, stop)
  \/ May("step") /\ \E count \in {1, 2} : Step(count)
  \/ May("reverse_step") /\ \E count \in {1, 2} : ReverseStep(count)
  \/ May("next") /\ Next
  \/ May("prev") /\ Prev
  \/ May("next_call") /\ NextCallHere
  \/ May("prev_call") /\ PrevCallHere
  \/ May("display") /\ \E id \in Snapshot : Display(id)

BreakpointCommands ==
  \/ /\ May("add") /\ Len(breakpoints) < MaxBreakpoints
     /\ \E loc \in Locations : AddBreakpoint([loc |-> loc, condition |-> NoCondition])
  \/ May("remove") /\ (ClearBreakpoints \/ \E i \in DOMAIN breakpoints : RemoveBreakpoint(i))
  \/ May("enable") /\ \E enabled \in BOOLEAN :
       \/ EnableAllBreakpoints(enabled)
       \/ \E i \in DOMAIN breakpoints : EnableBreakpoint(i, enabled)
  \/ May("condition") /\ \E i \in DOMAIN breakpoints, c \in Conditions :
       UpdateBreakpointCondition(i, c)

Idle == UNCHANGED <<fixed, status, current, displayed, breakpoints, breakpoint_set>>
Ticks == Tick /\ Idle
Background == (Take \/ \E ok \in SUBSET batch : Finish(FetchData(core, ok))) /\ Idle

ExecNext ==
  \/ CheckPendingRequest \/ Redraw \/ Ticks \/ Background
  \/ Moves
  \/ BreakpointCommands

Spec == Init /\ [][ExecNext]_executionVars
(* The background task ticks and its server answers at last what it is asked
   again and again; the event loop redraws and ticks, also at moments at which
   the background task, which comes round every 200 ms, does not hold the
   lock.  Nobody makes the user do anything. *)
FairSpec ==
  /\ Spec
  /\ WF_executionVars(Take /\ Idle) /\ WF_executionVars(Finish(core) /\ Idle)
  /\ SF_executionVars(Finish(FetchData(core, batch)) /\ Idle)
  /\ SF_executionVars(~locked /\ CheckPendingRequest)
  /\ WF_executionVars(Ticks)
-----------------------------------------------------------------------------
(* What the caches say of calls is what the server would answer, although one
   answer is spread over every snapshot it is taken to hold for
   (execution.rs:191-194, 206-209). *)
CachedCallsAreTrue ==
  \A f \in core \union local :
     /\ f[1] = "next" => f[3] = GetNextCall(snapshots, f[2])
     /\ f[1] = "prev" => f[3] = GetPrevCall(snapshots, f[2])

(* While an answer is awaited the user stays where the question was asked, so
   that the answer, however late, moves on from there, and the breakpoint whose
   hits are awaited stays listed (execution.rs:557-604). *)
WaitsWhereItAsked ==
  /\ status.waits \in {"next", "prev"} => status.for = current
  /\ status.waits = "hits" => \E i \in DOMAIN breakpoints : breakpoints[i].bp = status.bp

(* No command but a goto that is told not to stop runs forward past a snapshot
   at which an enabled breakpoint is hit, although hits that have not arrived
   are ignored (execution.rs:948-988). *)
StopsAtBreakpoints ==
  [][(\E b \in Enabled : \E h \in GetBreakpointHits(snapshots, b) : current < h /\ h < current')
       => \E id \in Snapshot : Goto(id, FALSE)]_executionVars

(* No wait lasts for ever, although requests are dropped when the lock is held
   and when the server fails (core.rs:220-233, 176-190). *)
WaitEnds == Waiting ~> ~Waiting
=============================================================================
