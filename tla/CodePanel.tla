------------------------------- MODULE CodePanel -------------------------------
(***************************************************************************)
(* The code panel, crates/tui/src/panels/code.rs: the source or the        *)
(* opcodes of the contract at the displayed snapshot, with a cursor, a     *)
(* selector of source files and keys for execution and breakpoints.  What  *)
(* it shows is brought up to date when it is drawn, as far as the facts of *)
(* the displayed snapshot have arrived.  Scrolling to the side is left     *)
(* out.                                                                    *)
(***************************************************************************)
EXTENDS TracePanel

CONSTANTS CodeOf      \* of each address the files of its source, sorted, as
                      \* [in |-> "hook", files |-> <<[path, blank]>>], or the program
                      \* counters of its opcodes, as [in |-> "opcode", pcs]

ASSUME CodeAssumption ==
  /\ \A a \in DOMAIN CodeOf : CodeOf[a].in = "hook" =>
       CodeOf[a].files # <<>> /\ \A i \in DOMAIN CodeOf[a].files : CodeOf[a].files[i].blank # <<>>
  /\ \A r \in Recordings : \A id \in DOMAIN r :
       LET s == r[id] IN
       /\ s.detail = CodeOf[s.bytecode_address].in
       /\ s.detail = "hook" => \E f \in Range(CodeOf[s.bytecode_address].files) :
            s.at[1] = f.path /\ s.at[2] \in DOMAIN f.blank

VARIABLE code         \* CodePanel

NoLine == 0
Unknown == [in |-> "none"]

CodeInit ==
  code = [focused |-> FALSE, height |-> 0, cursor |-> 1, scroll |-> 0,
          prefix |-> <<>>, command |-> NoCommand,
          selector |-> FALSE, index |-> 1, selector_scroll |-> 0, selector_height |-> 0,
          location |-> Unknown, lines |-> <<>>,
          selected |-> 1, fresh |-> 0, snapshot |-> NoSnapshot, execution_line |-> 1]

Has(panel, in) == panel.location.in = in
Files(panel) == IF Has(panel, "hook") THEN CodeOf[panel.location.bytecode_address].files ELSE <<>>
Pcs(panel) == CodeOf[panel.location.bytecode_address].pcs

(* FileInfo::has_execution *)
FileOf(files, path) == CHOOSE i \in DOMAIN files : files[i].path = path

(* The lines of a source file, as whether they are blank; opcodes never are. *)
Lines(file) == file.blank
OpcodeLines(pcs) == [i \in DOMAIN pcs |-> FALSE]
-----------------------------------------------------------------------------
MoveTo(panel, line) ==
  LET last == Len(panel.lines)
      to == Min({Max({line, 1}), last})
  IN [panel EXCEPT !.cursor = to, !.scroll = Centred(to, last, panel.height)]

CodeUp(count) == MoveTo(code, Minus(code.cursor, count))
CodeDown(count) == MoveTo(code, code.cursor + count)

Blank(from, to) == {n \in from..to : code.lines[n]}

(* vim_next_blank_line, vim_prev_blank_line: the count-th, or the end. *)
NextBlankLine(count) ==
  LET blank == SetToSortSeq(Blank(code.cursor + 1, Len(code.lines)), <) IN
  MoveTo(code, IF count \in DOMAIN blank THEN blank[count] ELSE Len(code.lines))

PrevBlankLine(count) ==
  LET blank == SetToSortSeq(Blank(1, code.cursor - 1), >) IN
  MoveTo(code, IF count \in DOMAIN blank THEN blank[count] ELSE 1)
-----------------------------------------------------------------------------
(* The file selector, only of source *)
ToggleFileSelector ==
  CASE Has(code, "opcode") -> code
    [] ~Has(code, "opcode") /\ code.selector -> [code EXCEPT !.selector = FALSE]
    [] OTHER -> [code EXCEPT !.selector = TRUE, !.index = code.selected]

FileSelectorUp ==
  IF code.index = 1 THEN code
  ELSE [code EXCEPT !.index = @ - 1, !.selector_scroll = Min({code.index - 2, @})]

FileSelectorDown ==
  IF code.index >= Max({Len(Files(code)), 1}) THEN code
  ELSE [code EXCEPT !.index = @ + 1,
                    !.selector_scroll = Followed(code.index, @, code.selector_height)]

SelectFileFromSelector ==
  IF code.index \in DOMAIN Files(code)
    THEN [code EXCEPT !.selected = code.index, !.selector = FALSE]
    ELSE code
-----------------------------------------------------------------------------
(* handle_key_event, the keys that only change the panel *)
CodeMoved(key) ==
  LET command == code.command
      count == Repetition(code.prefix)
      typing == ~command.on /\ ~code.selector
  IN
  CASE command.on /\ key = "Enter" ->
         [(IF IsNumber(command.typed) THEN MoveTo(code, Number(command.typed)) ELSE code)
            EXCEPT !.command = NoCommand]
    [] command.on /\ key # "Enter" -> [code EXCEPT !.command = CommandTyped(command, key)]
    [] ~command.on /\ key = "f" -> ToggleFileSelector
    [] ~command.on /\ code.selector /\ key # "f" ->
         (CASE key = "Up" -> FileSelectorUp
            [] key = "Down" -> FileSelectorDown
            [] key = "Enter" -> SelectFileFromSelector
            [] OTHER -> code)
    [] typing /\ key \in Digit -> Typed(code, Append(code.prefix, DigitOf[key]))
    [] typing /\ key \in {"Up", "k"} -> Typed(CodeUp(count), <<>>)
    [] typing /\ key \in {"Down", "j"} -> Typed(CodeDown(count), <<>>)
    [] typing /\ key = "{" -> Typed(PrevBlankLine(count), <<>>)
    [] typing /\ key = "}" -> Typed(NextBlankLine(count), <<>>)
    [] typing /\ key = "g" ->
         IF code.prefix = PendingG THEN Typed(MoveTo(code, 1), <<>>) ELSE Typed(code, PendingG)
    [] typing /\ key = "G" ->
         Typed(MoveTo(code, IF code.prefix = <<>> THEN Len(code.lines) ELSE count), <<>>)
    [] typing /\ key = ":" -> [code EXCEPT !.command = Command(<<>>)]
    [] OTHER -> code
-----------------------------------------------------------------------------
(* The keys that execute *)
ExecutionKeys == {"s", "S", "n", "N", "c", "C", "r", "R"}

CodeExecutes(key) == ~code.command.on /\ ~code.selector /\ key \in ExecutionKeys

(* goto forwards as far as the last snapshot *)
Execute(key) ==
  \/ CheckPendingRequest
  \/ key = "s" /\ Step(1)
  \/ key = "S" /\ ReverseStep(1)
  \/ key = "n" /\ Next
  \/ key = "N" /\ Prev
  \/ key = "c" /\ NextCallHere
  \/ key = "C" /\ PrevCallHere
  \/ key = "r" /\ Goto(LastId(snapshots), TRUE)
  \/ key = "R" /\ Goto(0, TRUE)

(* get_breakpoint_location_for_line *)
LocationOf(line) ==
  LET At(at) == <<code.location.in, code.location.bytecode_address, at>> IN
  CASE Has(code, "opcode") /\ line \in DOMAIN code.lines -> At(Pcs(code)[line])
    [] Has(code, "hook") -> At(<<Files(code)[code.selected].path, line>>)
    [] OTHER -> NoLocation

(* find_breakpoints, by location only *)
BreakpointsAt(loc) == {i \in DOMAIN breakpoints : breakpoints[i].bp.loc = loc}

Toggles(key) == ~code.command.on /\ key = "b" /\ LocationOf(code.cursor) # NoLocation

(* toggle_breakpoint_at_cursor: add one, or enable all of them if one is
   disabled, or disable all of them. *)
ToggleBreakpointAtCursor ==
  LET loc == LocationOf(code.cursor) IN
  CASE BreakpointsAt(loc) = {} -> AddBreakpoint([loc |-> loc, condition |-> NoCondition])
    [] BreakpointsAt(loc) # {} ->
         /\ ~Waiting
         /\ breakpoints' =
              [i \in DOMAIN breakpoints |->
                 IF i \in BreakpointsAt(loc)
                   THEN [breakpoints[i] EXCEPT !.enabled = \E j \in BreakpointsAt(loc) : ~breakpoints[j].enabled]
                   ELSE breakpoints[i]]
         /\ UNCHANGED <<managerVars, fixed, status, current, displayed, breakpoint_set>>

(* While an answer is awaited a breakpoint is an error. *)
CodeResponse(key) ==
  CASE ~code.focused -> "NotHandled"
    [] code.focused /\ Toggles(key) /\ (Waiting \/ ~Valid([loc |-> LocationOf(code.cursor),
                                                          condition |-> NoCondition])) -> "Error"
    [] OTHER -> "Handled"

CodeKey(key) ==
  /\ code' = IF code.focused THEN CodeMoved(key) ELSE code
  /\ CASE code.focused /\ CodeExecutes(key) -> Execute(key)
       [] code.focused /\ Toggles(key) -> CheckPendingRequest \/ ToggleBreakpointAtCursor
       [] OTHER -> UNCHANGED executionVars

CodeScrolled(down) == IF down THEN CodeDown(1) ELSE CodeUp(1)
-----------------------------------------------------------------------------
(* render: update_display_info, then fresh_source_code, then
   update_execution_info, each only after the one before it.  shown is the
   displayed snapshot, now the current one. *)
Arrived(facts, id) == Cached(facts, "info", id) /\ Cached(facts, "code", Address(id))

CodeAsks(facts, shown, now) ==
  CASE ~Cached(facts, "info", shown) -> {<<"info", shown>>}
    [] Cached(facts, "info", shown) /\ code.snapshot # shown /\ ~Arrived(facts, shown) ->
         {<<"code_at", shown>>}
    [] OTHER -> IF Cached(facts, "info", now) THEN {} ELSE {<<"info", now>>}

LocationShown(id) ==
  LET s == snapshots[id] IN
  [in |-> s.detail, bytecode_address |-> s.bytecode_address] @@
    (IF s.detail = "hook" THEN [path |-> s.at[1]] ELSE [path |-> "none"])

UpdateDisplayInfo(panel, shown) ==
  LET s == snapshots[shown]
      moved == [panel EXCEPT !.location = LocationShown(shown), !.fresh = 0, !.snapshot = shown]
      files == CodeOf[s.bytecode_address].files
      pcs == CodeOf[s.bytecode_address].pcs
      file == FileOf(files, s.at[1])
      other == panel.location # moved.location
  IN
  IF panel.snapshot = shown THEN panel
  ELSE IF s.detail = "hook"
    THEN MoveTo([moved EXCEPT !.selected = file,
                              !.lines = IF other \/ panel.fresh # file THEN Lines(files[file]) ELSE @],
                s.at[2])
    ELSE MoveTo([moved EXCEPT !.selected = IF other THEN 1 ELSE @,
                              !.lines = IF other THEN OpcodeLines(pcs) ELSE @],
                IF \E i \in DOMAIN pcs : pcs[i] = s.at
                  THEN CHOOSE i \in DOMAIN pcs : pcs[i] = s.at ELSE NoLine)

(* Another file of the same address starts at its first line. *)
FreshSourceCode(panel) ==
  IF ~Has(panel, "hook") \/ panel.fresh = panel.selected THEN panel
  ELSE [panel EXCEPT !.lines = Lines(Files(panel)[panel.selected]),
                     !.cursor = IF panel.fresh # 0 THEN 1 ELSE @,
                     !.scroll = IF panel.fresh # 0 THEN 0 ELSE @,
                     !.fresh = panel.selected]

UpdateExecutionInfo(panel, facts, shown, now) ==
  LET s == snapshots[now] IN
  IF ~Cached(facts, "info", now) THEN panel
  ELSE [panel EXCEPT !.execution_line =
          CASE s.bytecode_address # Address(shown) -> NoLine
            [] s.bytecode_address = Address(shown) /\ s.detail = "hook" ->
                 IF s.at[1] = Files(panel)[panel.selected].path THEN s.at[2] ELSE NoLine
            [] OTHER -> FileOf([i \in DOMAIN Pcs(panel) |-> [path |-> Pcs(panel)[i]]], s.at)]

SelectorArea == Max({PanelArea \div 5, 3})

CodeDrawn(focused, facts, shown, now) ==
  LET area == IF code.selector THEN Minus(PanelArea, SelectorArea) ELSE PanelArea
      sized == [code EXCEPT !.focused = focused,
                            !.height = ContextHeight(area, focused),
                            !.selector_height = IF code.selector THEN SelectorArea - 2 ELSE @]
  IN IF code.snapshot = shown \/ Arrived(facts, shown)
       THEN UpdateExecutionInfo(FreshSourceCode(UpdateDisplayInfo(sized, shown)), facts, shown, now)
       ELSE sized
=============================================================================
