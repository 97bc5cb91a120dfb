------------------------------ MODULE TracePanel ------------------------------
(***************************************************************************)
(* The trace panel, crates/tui/src/panels/trace.rs: the call trace of the  *)
(* transaction as a list of lines that can be folded, walked and used to   *)
(* show or to go to the first snapshot of a call.  Scrolling to the side   *)
(* is left out.                                                            *)
(***************************************************************************)
EXTENDS ExecutionManager

CONSTANTS Trace,      \* the trace: sequence of calls [parent, details, first, code_address]
          PanelArea   \* rows of a panel on the screen

NoEntry == 0          \* no call: calls are numbered from 1
NoSnapshot == 99      \* no snapshot yet, or a call of which none was taken

ASSUME TraceAssumption ==
  \A i \in DOMAIN Trace : Trace[i].parent \in 0..(i - 1) /\ Trace[i].details \in Nat

VARIABLE trace        \* TracePanelInner
-----------------------------------------------------------------------------
(* The vim-like keys all panels share: a number typed before a key repeats it,
   g waits for a second g, and : starts a command that is a line number.  What
   is typed is a sequence of characters: the digits, and Other for every
   character that is none. *)
DigitOf == [key \in {"1", "2", "9"} |-> CASE key = "1" -> 1 [] key = "2" -> 2 [] key = "9" -> 9]
Other == 10

Digit == DOMAIN DigitOf
NoChar == {"Enter", "Esc", "Backspace", "Up", "Down", "PageUp", "PageDown", "Home", "End"}

CharOf(key) == IF key \in Digit THEN DigitOf[key] ELSE Other

(* str::parse: none of a sequence that is empty or has another character. *)
IsNumber(typed) == typed # <<>> /\ \A i \in DOMAIN typed : typed[i] # Other
Number(typed) == FoldLeft(LAMBDA n, d : 10 * n + d, 0, typed)

(* get_vim_repetition *)
Repetition(prefix) == IF IsNumber(prefix) THEN Max({Number(prefix), 1}) ELSE 1

PendingG == <<Other>>

(* The command mode: none, or the characters typed after the colon. *)
NoCommand == [on |-> FALSE]
Command(typed) == [on |-> TRUE, typed |-> typed]

(* A key of the command mode that does not execute the command. *)
CommandTyped(command, key) ==
  CASE key = "Esc" -> NoCommand
    [] key = "Backspace" -> Command(IF command.typed = <<>> THEN <<>> ELSE Front(command.typed))
    [] key \notin NoChar -> Command(Append(command.typed, CharOf(key)))
    [] OTHER -> command

(* Subtraction of unsigned numbers that saturates at 0. *)
Minus(a, b) == IF a > b THEN a - b ELSE 0

(* Rows of text in an area: borders, and two lines of status and help in the
   panel that has the focus if it is high enough. *)
ContextHeight(area_height, focused) ==
  Minus(area_height, IF focused /\ area_height > 10 THEN 4 ELSE 2)

(* The scroll offset after a jump to a line (1 .. lines) of a viewport. *)
Centred(line, lines, height) ==
  IF line <= height \div 2 \/ lines <= height THEN 0
  ELSE IF line > lines - height THEN lines - height
  ELSE Minus(line, height \div 2)
-----------------------------------------------------------------------------
Call == DOMAIN Trace

TraceInit ==
  trace = [focused |-> FALSE, selected |-> 0, scroll |-> 0, height |-> 0, lines |-> 0,
           collapsed |-> {}, prefix |-> <<>>, command |-> NoCommand,
           entry |-> NoEntry, snapshot |-> NoSnapshot]
-----------------------------------------------------------------------------
Ancestors[i \in 0..Len(Trace)] ==
  IF i = NoEntry \/ Trace[i].parent = NoEntry THEN {}
  ELSE {Trace[i].parent} \union Ancestors[Trace[i].parent]

HasChildren(i) == \E j \in Call : Trace[j].parent = i

IsEntryVisible(i, collapsed) == Ancestors[i] \intersect collapsed = {}

(* generate_display_lines: of every visible call its line, then those of its
   events and its return value. *)
DisplayLines(collapsed) ==
  FoldLeft(LAMBDA lines, i : IF IsEntryVisible(i, collapsed)
                             THEN lines \o [n \in 1..(1 + Trace[i].details) |-> i]
                             ELSE lines,
           <<>>, [i \in Call |-> i])

SelectedEntry ==
  LET lines == DisplayLines(trace.collapsed) IN
  IF trace.selected < Len(lines) THEN lines[trace.selected + 1] ELSE NoEntry
-----------------------------------------------------------------------------
TraceUp(count) ==
  LET to == Minus(trace.selected, count) IN
  [trace EXCEPT !.selected = to, !.scroll = Min({to, @})]

(* Auto-scroll so that the selected line is the last of the viewport *)
Followed(selected, scroll, height) ==
  IF selected >= scroll + height THEN Minus(selected + 1, height) ELSE scroll

TraceDown(count) ==
  LET to == Min({trace.selected + count, Minus(trace.lines, 1)}) IN
  [trace EXCEPT !.selected = to, !.scroll = Followed(to, @, trace.height)]

(* Any line number is taken, also one behind the last line. *)
TraceMoveTo(line) ==
  LET to == Minus(line, 1) IN
  [trace EXCEPT !.selected = to, !.scroll = Centred(to, trace.lines, trace.height)]

ToggleExpansion ==
  LET entry == SelectedEntry IN
  IF entry = NoEntry \/ ~HasChildren(entry) THEN trace
  ELSE LET collapsed == IF entry \in trace.collapsed THEN trace.collapsed \ {entry}
                        ELSE trace.collapsed \union {entry}
           lines == DisplayLines(collapsed)
           to == (CHOOSE n \in DOMAIN lines : lines[n] = entry
                    /\ \A m \in 1..(n - 1) : lines[m] # entry) - 1
       IN [trace EXCEPT !.collapsed = collapsed, !.selected = to,
                        !.scroll = IF to < @ THEN to ELSE Followed(to, @, trace.height)]

Typed(panel, prefix) == [panel EXCEPT !.prefix = prefix]

(* handle_key_event, the keys that only move the panel *)
TraceMoved(key) ==
  LET command == trace.command
      count == Repetition(trace.prefix)
  IN
  CASE command.on /\ key = "Enter" ->
         [(IF IsNumber(command.typed) THEN TraceMoveTo(Number(command.typed)) ELSE trace)
            EXCEPT !.command = NoCommand]
    [] command.on /\ key # "Enter" -> [trace EXCEPT !.command = CommandTyped(command, key)]
    [] ~command.on /\ key \in Digit -> Typed(trace, Append(trace.prefix, DigitOf[key]))
    [] ~command.on /\ key \in {"Up", "k"} -> Typed(TraceUp(count), <<>>)
    [] ~command.on /\ key \in {"Down", "j"} -> Typed(TraceDown(count), <<>>)
    [] ~command.on /\ key = "g" ->
         IF trace.prefix = PendingG THEN Typed(TraceMoveTo(1), <<>>) ELSE Typed(trace, PendingG)
    [] ~command.on /\ key = "G" ->
         (CASE trace.prefix = <<>> -> TraceMoveTo(trace.lines)
            [] trace.prefix = PendingG -> Typed(trace, <<>>)
            [] OTHER -> Typed(TraceMoveTo(count), <<>>))
    [] ~command.on /\ key = ":" -> [trace EXCEPT !.command = Command(<<>>)]
    [] ~command.on /\ key = "PageUp" -> TraceUp(trace.height \div 2)
    [] ~command.on /\ key = "PageDown" -> TraceDown(trace.height \div 2)
    [] ~command.on /\ key = "Enter" -> ToggleExpansion
    [] OTHER -> trace

(* The keys that go to, or show, the first snapshot of the selected call *)
Executes(key) == ~trace.command.on /\ key \in {"c", "C", "v", "V"}

(* What the application learns of a key *)
TraceResponse(key) ==
  CASE ~trace.focused -> "NotHandled"
    [] trace.focused /\ ~Executes(key) -> "Handled"
    [] trace.focused /\ Executes(key) ->
         CASE SelectedEntry = NoEntry -> "InternalError"
           [] SelectedEntry # NoEntry /\ Trace[SelectedEntry].first = NoSnapshot -> "Error"
           [] OTHER -> "ChangeFocus"

TraceKey(key) ==
  IF TraceResponse(key) = "ChangeFocus"
    THEN LET first == Trace[SelectedEntry].first IN
         /\ IF key \in {"v", "V"} THEN Display(first) ELSE CheckPendingRequest \/ Goto(first, FALSE)
         /\ UNCHANGED trace
    ELSE /\ trace' = IF trace.focused THEN TraceMoved(key) ELSE trace
         /\ UNCHANGED executionVars

TraceScrolled(down) == IF down THEN TraceDown(1) ELSE TraceUp(1)
-----------------------------------------------------------------------------
(* render, with the facts the manager holds and the current snapshot *)
TraceAsks(facts, id) ==
  IF trace.snapshot # id /\ ~Cached(facts, "info", id) THEN {<<"info", id>>} ELSE {}

TraceDrawn(focused, facts, id) ==
  LET known == trace.snapshot # id /\ Cached(facts, "info", id) IN
  [trace EXCEPT !.focused = focused,
                !.height = ContextHeight(PanelArea, focused),
                !.entry = IF known THEN snapshots[id].entry ELSE @,
                !.snapshot = IF known THEN id ELSE @,
                !.lines = Len(DisplayLines(trace.collapsed))]
=============================================================================
