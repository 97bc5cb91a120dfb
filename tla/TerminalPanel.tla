---------------------------- MODULE TerminalPanel ----------------------------
(***************************************************************************)
(* The terminal panel, crates/tui/src/panels/terminal.rs: a command line   *)
(* with a history above its output, and a Vim mode that walks the output.  *)
(* A command whose answer needs facts that are not there is pending: every *)
(* draw tries to finish it.  A word of a command is typed with one key,    *)
(* and what a command prints is one line.  Expressions, ABIs, storage      *)
(* slots (the resolver) and themes are left out.                           *)
(***************************************************************************)
EXTENDS DisplayPanel

CONSTANTS MaxInput,    \* bound: words in the input line
          MaxLines,    \* MAX_TERMINAL_LINES
          MaxHistory   \* MAX_COMMAND_HISTORY

ASSUME TerminalAssumption == MaxInput \in Nat /\ MaxLines \in Nat \ {0} /\ MaxHistory \in Nat \ {0}

VARIABLE terminal      \* TerminalPanel

(* Words that are more than a key: only ever typed into the command line *)
LongWord ==
  {"rs", "rc", "rb", "clear", "break add", "break remove 1", "break enable", "break enable 1",
   "break disable", "break disable 1", "break add_expr 1", "break clear", "address", "stack", "memory", "calldata"}
None == [needs |-> "nothing"]
NotBrowsing == 0

TerminalInit ==
  terminal = [focused |-> FALSE, height |-> 0, mode |-> "Insert", input |-> <<>>, cursor |-> 0,
              history |-> <<>>, position |-> NotBrowsing, warned |-> FALSE,
              lines |-> <<"Output", "Output", "Output", "Blank">>,
              scroll |-> 0, prefix |-> <<>>, line |-> 1, pending |-> None]

(* add_line *)
AddLine(lines, line) == Append(IF Len(lines) >= MaxLines THEN Tail(lines) ELSE lines, line)
Printed(panel, line) == [panel EXCEPT !.lines = AddLine(@, line)]
-----------------------------------------------------------------------------
(* Vim mode *)
VimUp(panel, count) ==
  LET to == Max({1, Minus(panel.line, count)}) IN
  [panel EXCEPT !.line = to, !.scroll = Min({to - 1, @}), !.prefix = <<>>]

Visible(panel, to) ==
  [panel EXCEPT !.line = to, !.prefix = <<>>,
                !.scroll = IF to > @ + panel.height THEN Minus(to, panel.height) ELSE @]

VimDown(panel, count) ==
  IF panel.lines = <<>> THEN [panel EXCEPT !.prefix = <<>>]
  ELSE Visible(panel, Min({panel.line + count, Len(panel.lines) + 1}))

VimBottom(panel) ==
  IF panel.lines = <<>> THEN panel
  ELSE LET last == Len(panel.lines) + 1 IN
       [panel EXCEPT !.line = last, !.scroll = Minus(last, panel.height)]

IsBlockStart(n) == terminal.lines[n] \in {"Blank", "Command"}

VimPrevBlock(count) ==
  LET starts == {n \in 1..Min({terminal.line - 1, Len(terminal.lines)}) : IsBlockStart(n)}
      to == IF count <= Cardinality(starts) THEN SetToSortSeq(starts, >)[count] ELSE 1
  IN IF terminal.lines = <<>> THEN terminal
     ELSE [terminal EXCEPT !.line = to, !.scroll = Min({to - 1, @})]

VimNextBlock(count) ==
  LET starts == {n \in (terminal.line + 1)..Len(terminal.lines) : IsBlockStart(n)}
      to == IF count <= Cardinality(starts) THEN SetToSortSeq(starts, <)[count]
            ELSE Len(terminal.lines) + 1
  IN IF terminal.lines = <<>> THEN terminal ELSE Visible(terminal, to)

VimMoved(key) ==
  LET count == Repetition(terminal.prefix) IN
  CASE key \in {"i", "Enter"} -> Typed([VimBottom(terminal) EXCEPT !.mode = "Insert"], <<>>)
    [] key \in {"j", "Down"} -> VimDown(terminal, count)
    [] key \in {"k", "Up"} -> VimUp(terminal, count)
    [] key \in Digit -> Typed(terminal, Append(terminal.prefix, DigitOf[key]))
    [] key = "g" -> IF terminal.prefix = PendingG
                      THEN Typed([terminal EXCEPT !.line = 1, !.scroll = 0], <<>>)
                      ELSE Typed(terminal, PendingG)
    [] key = "G" -> Typed(VimBottom(terminal), <<>>)
    [] key = "{" -> Typed(VimPrevBlock(count), <<>>)
    [] key = "}" -> Typed(VimNextBlock(count), <<>>)
    [] OTHER -> Typed(terminal, <<>>)
-----------------------------------------------------------------------------
(* Insert mode *)
Recalled(position) ==
  LET input == terminal.history[position] IN
  [terminal EXCEPT !.position = position, !.input = input, !.cursor = Len(input)]

HistoryUp ==
  CASE terminal.history # <<>> /\ terminal.position = NotBrowsing -> Recalled(Len(terminal.history))
    [] terminal.history # <<>> /\ terminal.position > 1 -> Recalled(terminal.position - 1)
    [] OTHER -> terminal

HistoryDown ==
  CASE terminal.position = NotBrowsing -> terminal
    [] terminal.position \in 1..(Len(terminal.history) - 1) -> Recalled(terminal.position + 1)
    [] OTHER -> [terminal EXCEPT !.position = NotBrowsing, !.input = <<>>, !.cursor = 0]

Inserting(key) == terminal.mode = "Insert" /\ key \notin NoChar

(* String::insert, String::remove: the position must be in the string. *)
Panics(key) ==
  \/ Inserting(key) /\ terminal.cursor > Len(terminal.input)
  \/ terminal.mode = "Insert" /\ key = "Backspace" /\ terminal.cursor > Len(terminal.input)

Inserted(key) ==
  CASE Inserting(key) ->
         [terminal EXCEPT !.input = InsertAt(@, terminal.cursor + 1, key), !.cursor = @ + 1,
                          !.position = NotBrowsing, !.scroll = 0]
    [] key = "Backspace" /\ terminal.cursor > 0 ->
         [terminal EXCEPT !.input = RemoveAt(@, terminal.cursor), !.cursor = @ - 1,
                          !.position = NotBrowsing]
    [] key = "Up" -> HistoryUp
    [] key = "Down" -> HistoryDown
    [] key = "Home" -> [terminal EXCEPT !.cursor = 0]
    [] key = "End" -> [terminal EXCEPT !.cursor = Len(terminal.input)]
    [] OTHER -> terminal
-----------------------------------------------------------------------------
(* Commands.  What a pending command waits for: *)
Needs(needs, id) == [needs |-> needs, id |-> id]

(* The command a line stands for; the last one again if it is empty. *)
Line == IF terminal.input = <<>> /\ terminal.history # <<>> THEN Last(terminal.history)
        ELSE terminal.input

Is(word) == Line = <<word>>

(* The panel after a line is entered, before its command is executed *)
Entered ==
  LET history == terminal.history
      kept == IF Len(history) >= MaxHistory THEN Tail(history) ELSE history
      again == (Line = <<>>) \/ (history # <<>> /\ Last(history) = Line)
  IN Printed([terminal EXCEPT !.input = <<>>, !.cursor = 0, !.position = NotBrowsing,
                              !.history = IF again THEN @ ELSE Append(kept, Line)], "Command")

Exits == Is("q")

(* A command that waits for facts, and does what else it says *)
Await(needs, operation) == terminal' = [Entered EXCEPT !.pending = needs] /\ operation

Answer(operation) == terminal' = Printed(Entered, "Output") /\ operation
Refuse(operation) == terminal' = Printed(Entered, "Error") /\ operation

(* break add without a location: where the execution is *)
HereArrived ==
  /\ Known("info", current)
  /\ snapshots[current].detail = "hook" => Known("code", Address(current))

Here ==
  [loc |-> <<snapshots[current].detail, Address(current), snapshots[current].at>>,
   condition |-> NoCondition]

AwaitHitsOf(b, operation) ==
  IF Known("hits", b) THEN Answer(operation) ELSE Await([needs |-> "hits", bp |-> b], operation)

BreakAdd ==
  CASE ~HereArrived ->
         Refuse(OnlyRequest({<<IF Known("info", current) THEN "code_at" ELSE "info", current>>})
               /\ UNCHANGED status)
    [] HereArrived /\ ~Valid(Here) -> Refuse(AddBreakpoint(Here))
    [] HereArrived /\ Valid(Here) -> AwaitHitsOf(Here, AddBreakpoint(Here))

Nothing == UNCHANGED executionVars

(* The first breakpoint, if there is one. *)
OfFirst(operation) == IF breakpoints = <<>> THEN Refuse(Nothing) ELSE Answer(operation)

(* enable, disable: of one, or of all. *)
BreakEnable ==
  CASE Is("break enable") -> Answer(EnableAllBreakpoints(TRUE))
    [] Is("break disable") -> Answer(EnableAllBreakpoints(FALSE))
    [] Is("break enable 1") -> OfFirst(EnableBreakpoint(1, TRUE))
    [] Is("break disable 1") -> OfFirst(EnableBreakpoint(1, FALSE))

(* add_expr: the condition is any expression. *)
BreakAddExpr ==
  IF breakpoints = <<>> THEN Refuse(Nothing)
  ELSE \E c \in Conditions :
         AwaitHitsOf([breakpoints[1].bp EXCEPT !.condition = c], UpdateBreakpointCondition(1, c))

Enabling == {"break enable", "break disable", "break enable 1", "break disable 1"}

BreakCommand ==
  CASE Is("break add") -> BreakAdd
    [] Is("break remove 1") -> OfFirst(RemoveBreakpoint(1))
    [] \E word \in Enabling : Is(word) -> BreakEnable
    [] Is("break add_expr 1") -> BreakAddExpr
    [] Is("break clear") -> Answer(ClearBreakpoints)
    [] OTHER -> Answer(Nothing)

(* What is shown is looked up in the snapshot once it is there. *)
OfOpcode == {"stack", "memory", "calldata"}
Shows == {"address"} \union OfOpcode
ShowCommand ==
  Await(Needs(IF \E word \in OfOpcode : Is(word) THEN "opcode" ELSE "info", current), Nothing)

(* handle_debug_command *)
DebugCommand ==
  CASE Waiting -> Refuse(Nothing)
    [] ~Waiting /\ Is("n") -> Await([needs |-> "over", id |-> current, link |-> 1], Next)
    [] ~Waiting /\ Is("p") -> Await([needs |-> "over", id |-> current, link |-> 2], Prev)
    [] ~Waiting /\ Is("s") -> Await(Needs("here", 0), Step(1))
    [] ~Waiting /\ Is("rs") -> Await(Needs("here", 0), ReverseStep(1))
    [] ~Waiting /\ Is("c") -> Await(Needs("next", current), NextCallHere)
    [] ~Waiting /\ Is("rc") -> Await(Needs("prev", current), PrevCallHere)
    [] ~Waiting /\ Is("r") -> Await(Needs("at", LastId(snapshots)), Goto(LastId(snapshots), TRUE))
    [] ~Waiting /\ Is("rb") -> Await(Needs("at", 0), Goto(0, TRUE))
    [] ~Waiting /\ Is("g") -> Await(Needs("at", 0), Goto(0, FALSE))
    [] ~Waiting /\ (\E word \in Shows : Is(word)) -> ShowCommand
    [] OTHER -> BreakCommand

(* execute_command *)
ExecuteCommand ==
  CASE Line = <<>> -> Answer(Nothing)
    [] Exits -> Answer(Nothing)
    [] Is("clear") -> terminal' = [Entered EXCEPT !.lines = <<"Output">>] /\ Nothing
    [] OTHER -> DebugCommand

EntersCommand(key) == terminal.focused /\ terminal.mode = "Insert" /\ key = "Enter"

TerminalMoved(key) ==
  CASE key = "Esc" -> IF terminal.mode = "Insert"
                        THEN Typed([VimBottom(terminal) EXCEPT !.mode = "Vim"], <<>>) ELSE terminal
    [] key = "Ctrl+C" ->
         Printed(IF terminal.mode = "Insert"
                   THEN [terminal EXCEPT !.input = <<>>, !.cursor = 0, !.position = NotBrowsing,
                                         !.warned = TRUE]
                   ELSE [terminal EXCEPT !.warned = TRUE], "Output")
    [] key = "Ctrl+L" -> [terminal EXCEPT !.lines = <<"Output">>]
    [] OTHER -> IF terminal.mode = "Insert" THEN Inserted(key) ELSE VimMoved(key)

TerminalKey(key) ==
  IF EntersCommand(key) THEN ExecuteCommand
  ELSE /\ terminal' = IF terminal.focused THEN TerminalMoved(key) ELSE terminal
       /\ Nothing

(* A second Ctrl+C within two seconds exits. *)
MayExit(key) ==
  /\ terminal.focused
  /\ \/ EntersCommand(key) /\ Exits
     \/ key = "Ctrl+C" /\ terminal.warned

TerminalScrolled(down) ==
  LET panel == [terminal EXCEPT !.mode = "Vim"]
      count == Repetition(terminal.prefix)
  IN IF down THEN VimDown(panel, count) ELSE VimUp(panel, count)
-----------------------------------------------------------------------------
(* PendingCommand::is_pending: the facts it asks for one after the other,
   until one of them is not there.  now is the current snapshot. *)
FactsAt(id) == <<<<"info", id>>, <<"code", Address(id), id>>>>

PendingFacts(facts, now) ==
  LET command == terminal.pending
      needs == command.needs
  IN
  CASE needs = "here" -> FactsAt(now)
    [] needs \in {"next", "prev"} ->
         <<<<needs, command.id>>>> \o
         (IF Cached(facts, needs, command.id) THEN FactsAt(Cell(facts, needs, command.id)) ELSE <<>>)
    [] needs = "over" ->
         <<<<"info", command.id>>>> \o
         (IF Cached(facts, "info", command.id)
            THEN FactsAt(Cell(facts, "info", command.id)[command.link]) ELSE <<>>)
    [] needs = "at" -> FactsAt(command.id)
    [] needs \in {"info", "opcode"} -> <<<<"info", command.id>>>>
    [] needs = "hits" -> <<<<"hits", command.bp>>>>
    [] needs = "nothing" -> <<>>

MissingFacts(facts, now) ==
  SelectSeq(PendingFacts(facts, now), LAMBDA r : ~Cached(facts, r[1], r[2]))

TerminalAsksFirst(facts, now) ==
  LET first == SelectSeq(PendingFacts(facts, now), LAMBDA r : r[1] # "code") IN
  IF first = <<>> \/ Cached(facts, first[1][1], first[1][2]) THEN {} ELSE {first[1]}

TerminalAsks(facts, now) ==
  LET missing == MissingFacts(facts, now) IN
  IF missing = <<>> THEN {}
  ELSE {IF missing[1][1] = "code" THEN <<"code_at", missing[1][3]>> ELSE missing[1]}

(* output_finished: only a snapshot of an opcode has a stack, a memory and
   calldata to show. *)
OutputFinished ==
  LET command == terminal.pending IN
  IF command.needs = "opcode" /\ snapshots[command.id].detail = "hook" THEN "Error" ELSE "Output"

(* render_unified_terminal: the input is cleared while a command is pending,
   the cursor stays where it is. *)
TerminalDrawn(focused, facts, now) ==
  LET finishes == terminal.pending # None /\ MissingFacts(facts, now) = <<>>
      finished == IF finishes THEN Printed([terminal EXCEPT !.pending = None], OutputFinished) ELSE terminal
      area == IF PanelArea > 8 THEN PanelArea - 1 ELSE PanelArea
  IN [finished EXCEPT !.focused = focused, !.height = ContextHeight(area, focused),
                      !.input = IF finished.pending # None THEN <<>> ELSE @]
=============================================================================
