----------------------------- MODULE DisplayPanel -----------------------------
(***************************************************************************)
(* The display panel, crates/tui/src/panels/display.rs: the variables of a *)
(* source snapshot, or the stack, memory, call data and storage of an      *)
(* opcode snapshot compared with the snapshot before it, and the           *)
(* breakpoints.  A value is one line, two when it is shown on several;     *)
(* watched expressions (the watcher and the resolver) and scrolling to the *)
(* side are left out.                                                      *)
(***************************************************************************)
EXTENDS CodePanel

VARIABLE display      \* DisplayPanel

HookModes == <<"Variables", "Breakpoints">>
OpcodeModes == <<"Stack", "Memory", "CallData", "Storage", "TransientStorage",
                 "Expressions", "Breakpoints">>

DisplayInit ==
  display = [focused |-> FALSE, height |-> 0, mode |-> "Stack", previous |-> "Variables",
             available |-> <<"Stack">>, selected |-> 0, scroll |-> 0, lines |-> 0,
             snapshot |-> NoSnapshot, stack |-> <<>>, memory |-> <<>>, calldata |-> 0,
             storage |-> 0, transient |-> 0, storage_lines |-> 0, transient_lines |-> 0,
             variables |-> <<>>, multi_line |-> {}, listed |-> <<>>]

-----------------------------------------------------------------------------
Rewound(panel, mode) == [panel EXCEPT !.mode = mode, !.selected = 0, !.scroll = 0]

(* next_mode, prev_mode: nothing while the mode is none of the available. *)
Switched(by) ==
  LET available == display.available
      n == Len(available)
      i == CHOOSE i \in 1..n : available[i] = display.mode
  IN IF display.mode \notin Range(available) THEN display
     ELSE Rewound(display, available[((i - 1 + by + n) % n) + 1])

DisplayUp(count) ==
  LET to == Minus(display.selected, count) IN
  [display EXCEPT !.selected = to, !.scroll = Min({to, @})]

DisplayDown(count) ==
  LET to == Min({display.selected + count, Minus(display.lines, 1)}) IN
  [display EXCEPT !.selected = to, !.scroll = Followed(to, @, display.height)]

ToggleMultiline ==
  LET names == display.variables IN
  IF display.mode = "Variables" /\ display.selected + 1 \in DOMAIN names
    THEN LET name == names[display.selected + 1] IN
         [display EXCEPT !.multi_line = IF name \in @ THEN @ \ {name} ELSE @ \union {name}]
    ELSE display

(* The entry of the list as it was last drawn *)
TogglesBreakpoint(key) ==
  key = "Enter" /\ display.mode = "Breakpoints" /\ display.selected + 1 \in DOMAIN display.listed

(* Home and End leave the scroll offset as it is. *)
DisplayMoved(key) ==
  CASE key = "s" -> Switched(1)
    [] key = "S" -> Switched(-1)
    [] key = "Up" -> DisplayUp(1)
    [] key = "Down" -> DisplayDown(1)
    [] key = "PageUp" -> DisplayUp(5)
    [] key = "PageDown" -> DisplayDown(5)
    [] key = "Home" -> [display EXCEPT !.selected = 0]
    [] key = "End" -> [display EXCEPT !.selected = Minus(display.lines, 1)]
    [] TogglesBreakpoint(key) ->
         [display EXCEPT !.listed[display.selected + 1].enabled = ~@]
    [] key = "Enter" /\ ~TogglesBreakpoint(key) -> ToggleMultiline
    [] OTHER -> display

DisplayKey(key) ==
  LET i == display.selected + 1 IN
  /\ display' = IF display.focused THEN DisplayMoved(key) ELSE display
  /\ IF display.focused /\ TogglesBreakpoint(key)
       THEN \/ CheckPendingRequest
            \/ EnableBreakpoint(i, ~display.listed[i].enabled)
            \/ ~Waiting /\ i \notin DOMAIN breakpoints /\ UNCHANGED executionVars
       ELSE UNCHANGED executionVars

DisplayScrolled(down) == IF down THEN DisplayDown(1) ELSE DisplayUp(1)
-----------------------------------------------------------------------------
(* render, with the facts the manager holds and the current snapshot *)

(* update_breakpoints_data *)
Listed(facts, id) ==
  [i \in DOMAIN breakpoints |->
     LET entry == breakpoints[i] IN
     [bp |-> entry.bp, enabled |-> entry.enabled,
      hit |-> entry.enabled /\ \E f \in facts : f[1] = "hits" /\ f[2] = entry.bp /\ id \in f[3]]]

(* update_stack_diff, update_memory_diff: without the values before, all of
   them are new. *)
DiffedAgainst(now, before) ==
  [i \in DOMAIN now |-> CASE i \notin DOMAIN before -> "New"
                          [] i \in DOMAIN before /\ before[i] # now[i] -> "Modified"
                          [] OTHER -> "Unchanged"]

Before(facts, id) ==
  LET prev == snapshots[id].prev_id IN
  IF Cached(facts, "info", prev) /\ snapshots[prev].detail = "opcode"
    THEN snapshots[prev]
    ELSE [stack |-> <<>>, memory |-> <<>>, opcode |-> "none"]

(* update_opcode_data *)
UpdateOpcodeData(panel, facts, id) ==
  LET now == snapshots[id]
      before == Before(facts, id)
  IN [panel EXCEPT !.stack = DiffedAgainst(now.stack, before.stack),
                   !.memory = DiffedAgainst(now.memory, before.memory),
                   !.calldata = now.calldata,
                   !.storage = now.stored,
                   !.transient = now.transient]

UpdateHookData(panel, id) == [panel EXCEPT !.variables = snapshots[id].locals]

(* The other mode is the one shown before the last change of detail. *)
InAvailableMode(panel) ==
  IF panel.mode \in Range(panel.available) THEN panel
  ELSE [Rewound(panel, panel.previous) EXCEPT !.previous = panel.mode]

UpdateSnapshotData(panel, facts, id) ==
  LET listing == [panel EXCEPT !.listed = Listed(facts, id)]
      opcode == snapshots[id].detail = "opcode"
      prepared == [listing EXCEPT !.available = IF opcode THEN OpcodeModes ELSE HookModes]
  IN
  CASE panel.snapshot = id \/ ~Cached(facts, "info", id) -> listing
    [] panel.snapshot # id /\ Cached(facts, "info", id) /\ opcode ->
         IF Cached(facts, "diff", id)
           THEN [InAvailableMode(UpdateOpcodeData(prepared, facts, id)) EXCEPT !.snapshot = id]
           ELSE prepared
    [] OTHER -> [InAvailableMode(UpdateHookData(prepared, id)) EXCEPT !.snapshot = id]

Stored(panel, facts, opcodes) ==
  /\ panel.snapshot # NoSnapshot
  /\ Cached(facts, "info", panel.snapshot)
  /\ LET before == Before(facts, panel.snapshot) IN
     before.opcode \in opcodes /\ before.stack # <<>>

(* calculate_storage_display_lines, calculate_tstorage_display_lines: an
   operation just executed, a header, and a few lines for every slot *)
LinesOfSlots(operation, slots, of_slot) ==
  Max({1, operation + (IF operation > 0 /\ slots > 0 THEN 2 ELSE 0) + of_slot * slots})

StorageLines(panel, facts) ==
  LinesOfSlots(IF Stored(panel, facts, {"SSTORE", "TSTORE"}) THEN 7 ELSE 0, panel.storage, 4)

TransientLines(panel, facts) ==
  LinesOfSlots(IF Stored(panel, facts, {"TSTORE"}) THEN 5 ELSE 0, panel.transient, 3)

(* calculate_context_lines *)
ContextLines(panel) ==
  CASE panel.mode = "Stack" -> Len(panel.stack)
    [] panel.mode = "Memory" -> Len(panel.memory)
    [] panel.mode = "CallData" -> panel.calldata
    [] panel.mode = "Storage" -> Max({panel.storage_lines, 1})
    [] panel.mode = "TransientStorage" -> Max({panel.transient_lines, 1})
    [] panel.mode = "Variables" ->
         Max({1, Len(panel.variables) + Cardinality(Range(panel.variables) \intersect panel.multi_line)})
    [] panel.mode = "Expressions" -> 1
    [] panel.mode = "Breakpoints" -> Len(panel.listed)

(* The lines of the storage are counted after the lines of the panel: they are
   those of the draw before. *)
DisplayDrawn(focused, facts, id) ==
  LET updated == UpdateSnapshotData([display EXCEPT !.focused = focused,
                                       !.height = ContextHeight(PanelArea, focused)], facts, id)
  IN [updated EXCEPT
        !.lines = ContextLines(updated),
        !.storage_lines = IF updated.mode = "Storage" THEN StorageLines(updated, facts) ELSE @,
        !.transient_lines =
          IF updated.mode = "TransientStorage" THEN TransientLines(updated, facts) ELSE @]

DisplayAsksAtFirst(facts, id) ==
  IF display.snapshot = NoSnapshot /\ ~Cached(facts, "info", id) THEN {<<"info", id>>} ELSE {}

DisplayAsks(facts, id) ==
  LET prev == snapshots[id].prev_id
      opcode == snapshots[id].detail = "opcode"
      ask == {r \in {<<"diff", id>>, <<"info", prev>>} : ~Cached(facts, r[1], r[2])}
      updating == display.snapshot # id
  IN UnknownHits \union
     (CASE updating /\ ~Cached(facts, "info", id) -> {<<"info", id>>}
        [] updating /\ Cached(facts, "info", id) /\ opcode ->
             IF <<"diff", id>> \in ask THEN {<<"diff", id>>} ELSE ask
        [] ~updating /\ display.mode \in {"Storage", "TransientStorage"} -> ask \ {<<"diff", id>>}
        [] OTHER -> {})
=============================================================================
