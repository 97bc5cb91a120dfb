-------------------------------- MODULE TuiApp --------------------------------
(***************************************************************************)
(* The application and the event loop of the terminal user interface,      *)
(* crates/tui/src/app.rs and lib.rs, over its four panels: layouts, focus, *)
(* popups, global keys, mouse events and the order in which the loop draws *)
(* and handles events.  A draw is one step for the background task.  The   *)
(* sizes of the panels and the connection to the server are left out.      *)
(***************************************************************************)
EXTENDS TerminalPanel

CONSTANT MaxTyped      \* bound: characters typed before a key, or after a colon

VARIABLES app,     \* App: current_panel, layout, full_left, compact_main, show_help, popup, mouse
          loop     \* where the event loop is: "draw", "event", "batch" of mouse events,
                   \* or how it ended: "exited", "crashed"

panelVars == <<trace, code, display, terminal>>
tuiVars == <<executionVars, panelVars, app, loop>>

Ended == loop \in {"exited", "crashed"}

AppInit ==
  /\ app = [current |-> "Trace", layout |-> session.layout, full_left |-> "Trace",
            compact_main |-> "Trace", help |-> FALSE, popup |-> session.mouse,
            mouse |-> session.mouse]
  /\ loop = "draw"

(* The panels render draws in the layout *)
Shown ==
  CASE app.layout = "Full" -> {app.full_left, "Display", "Terminal"}
    [] app.layout = "Compact" -> {app.compact_main, "Terminal"}
    [] app.layout = "Mobile" -> {app.current}

(* update_panel_focus, for panels that are not drawn *)
UpdatePanelFocus(panel) ==
  /\ trace' = [trace EXCEPT !.focused = panel = "Trace"]
  /\ code' = [code EXCEPT !.focused = panel = "Code"]
  /\ display' = [display EXCEPT !.focused = panel = "Display"]
  /\ terminal' = [terminal EXCEPT !.focused = panel = "Terminal"]
-----------------------------------------------------------------------------
(* render: what the shown panels ask the manager for, and what becomes of the
   panels; all of them learn who has the focus. *)
DrawAsks(facts, now, shown) ==
  UNION {CASE panel = "Trace" -> TraceAsks(facts, now)
           [] panel = "Code" -> CodeAsks(facts, shown, now)
           [] panel = "Display" -> DisplayAsks(facts, now)
           [] panel = "Terminal" -> TerminalAsks(facts, now) : panel \in Shown}

DrawPanels(facts, now, shown) ==
  LET focused(panel) == app.current = panel IN
  /\ trace' = IF "Trace" \in Shown THEN TraceDrawn(focused("Trace"), facts, now)
              ELSE [trace EXCEPT !.focused = focused("Trace")]
  /\ code' = IF "Code" \in Shown THEN CodeDrawn(focused("Code"), facts, shown, now)
             ELSE [code EXCEPT !.focused = focused("Code")]
  /\ display' = IF "Display" \in Shown THEN DisplayDrawn(focused("Display"), facts, now)
                ELSE [display EXCEPT !.focused = focused("Display")]
  /\ terminal' = IF "Terminal" \in Shown THEN TerminalDrawn(focused("Terminal"), facts, now)
                 ELSE [terminal EXCEPT !.focused = focused("Terminal")]

Draw ==
  /\ loop = "draw"
  /\ \/ CheckPendingRequestAsking(DrawAsks(local', current', displayed'))
     \/ /\ ~Waiting
        /\ OnlyRequest(DrawAsks(local', current', displayed'))
        /\ UNCHANGED status
  /\ DrawPanels(local', current', displayed')
  /\ loop' = "event"
  /\ UNCHANGED app
-----------------------------------------------------------------------------
(* change_focus, which makes sure that the panel is shown *)
FocusChanged(panel) ==
  [app EXCEPT !.current = panel,
              !.full_left = IF app.layout = "Full" /\ panel \in {"Code", "Trace"} THEN panel ELSE @,
              !.compact_main = IF app.layout = "Compact" /\ panel # "Terminal" THEN panel ELSE @]

(* cycle_panels *)
Order == <<"Trace", "Code", "Display", "Terminal">>

Cycled(reversed) ==
  LET i == CHOOSE i \in 1..4 : Order[i] = app.current IN
  CASE app.layout = "Full" ->
         (CASE app.current \in {"Code", "Trace"} -> IF reversed THEN "Terminal" ELSE "Display"
            [] app.current = "Display" -> IF reversed THEN app.full_left ELSE "Terminal"
            [] app.current = "Terminal" -> IF reversed THEN "Display" ELSE app.full_left)
    [] app.layout = "Compact" ->
         IF app.current = "Terminal" THEN app.compact_main ELSE "Terminal"
    [] app.layout = "Mobile" -> Order[IF reversed THEN ((i + 2) % 4) + 1 ELSE (i % 4) + 1]

Function == [key \in {"F1", "F2", "F3"} |->
               CASE key = "F1" -> "Trace" [] key = "F2" -> "Code" [] key = "F3" -> "Display"]

(* Space, unless the panel gets it: the other panel of the left, the next of
   the main ones *)
Turns == \/ app.layout = "Full" /\ app.current \in {"Code", "Trace"}
         \/ app.layout = "Compact" /\ app.current # "Terminal"

Turned ==
  IF app.layout = "Full"
    THEN LET left == IF app.full_left = "Code" THEN "Trace" ELSE "Code" IN
         [app EXCEPT !.full_left = left, !.current = left]
    ELSE LET main == CASE app.compact_main = "Trace" -> "Code"
                       [] app.compact_main = "Code" -> "Display"
                       [] app.compact_main = "Display" -> "Trace"
         IN [app EXCEPT !.compact_main = main, !.current = main]

(* The keys the application keeps, and what they make of it.  F1 to F3 choose
   the main panel of the compact layout in the other layouts. *)
ToTerminal(key) == key \in {"Esc", "Ctrl+C"} /\ app.current # "Terminal"
Resizes(key) ==
  key \in {"Ctrl+Up", "Ctrl+Down", "Ctrl+Left", "Ctrl+Right"}

Keeps(key) ==
  \/ app.popup \/ app.help
  \/ key \in {"?", "\\", "Tab", "BackTab", "F1", "F2", "F3", "F4", "Ctrl+Q", "Ctrl+D", "Alt+Q"}
  \/ key = "Space" /\ Turns
  \/ ToTerminal(key) \/ Resizes(key)

Kept(key) ==
  CASE app.popup -> [app EXCEPT !.popup = key \notin {"Esc", "Enter", "Space"}]
    [] ~app.popup /\ app.help -> [app EXCEPT !.help = key \notin {"?", "Esc"}]
    [] OTHER ->
         CASE key = "?" -> [app EXCEPT !.help = TRUE]
           [] key = "\\" -> [app EXCEPT !.mouse = ~@, !.popup = TRUE]
           [] key = "Tab" -> [app EXCEPT !.current = Cycled(FALSE)]
           [] key = "BackTab" -> [app EXCEPT !.current = Cycled(TRUE)]
           [] key = "Space" -> Turned
           [] key \in DOMAIN Function ->
                [app EXCEPT !.current = Function[key],
                            !.compact_main = IF app.layout = "Compact" THEN @ ELSE Function[key]]
           [] key = "F4" \/ ToTerminal(key) -> [app EXCEPT !.current = "Terminal"]
           [] OTHER -> app

Exit(key) == ~app.popup /\ ~app.help /\ key \in {"Ctrl+Q", "Ctrl+D", "Alt+Q"}

(* handle_boundary_resize says what it did in the terminal. *)
Says(key) ==
  /\ ~app.popup /\ ~app.help /\ Resizes(key) /\ app.current # "Terminal"
  /\ app.layout = "Full" \/ (app.layout = "Compact" /\ key \in {"Ctrl+Up", "Ctrl+Down"})

KeepKey(key) ==
  /\ Keeps(key)
  /\ app' = Kept(key)
  /\ terminal' = IF Says(key) THEN Printed(terminal, "Output") ELSE terminal
  /\ loop' = IF Exit(key) THEN "exited" ELSE "draw"
  /\ UNCHANGED <<executionVars, trace, code, display>>
-----------------------------------------------------------------------------
(* The keys the current panel gets.  An error is shown in a popup; a change of
   focus reaches the panels at the latest with the draw that follows. *)
ForwardToTrace(key) ==
  /\ TraceKey(key)
  /\ app' = CASE TraceResponse(key) \in {"Error", "InternalError"} -> [app EXCEPT !.popup = TRUE]
              [] TraceResponse(key) = "ChangeFocus" -> FocusChanged("Code")
              [] OTHER -> app
  /\ UNCHANGED <<code, display, terminal>>

ForwardToCode(key) ==
  /\ CodeKey(key)
  /\ app' = [app EXCEPT !.popup = CodeResponse(key) = "Error"]
  /\ UNCHANGED <<trace, display, terminal>>

ForwardToDisplay(key) == DisplayKey(key) /\ UNCHANGED <<app, trace, code, terminal>>

ForwardToTerminal(key) ==
  /\ ~Panics(key)
  /\ terminal.focused /\ Inserting(key) => Len(terminal.input) < MaxInput
  /\ TerminalKey(key)
  /\ UNCHANGED <<app, trace, code, display>>

ForwardKey(key) ==
  /\ ~Keeps(key)
  /\ CASE app.current = "Trace" -> ForwardToTrace(key)
       [] app.current = "Code" -> ForwardToCode(key)
       [] app.current = "Display" -> ForwardToDisplay(key)
       [] app.current = "Terminal" -> ForwardToTerminal(key)
  /\ loop' = "draw" \/ (app.current = "Terminal" /\ MayExit(key) /\ loop' = "exited")

Panic(key) ==
  /\ ~Keeps(key) /\ app.current = "Terminal" /\ terminal.focused /\ Panics(key)
  /\ loop' = "crashed"
  /\ UNCHANGED <<executionVars, panelVars, app>>

TypedInCommand(panel) == IF panel.command.on THEN Len(panel.command.typed) ELSE 0

Key(key) ==
  /\ loop \in {"event", "batch"}
  /\ key \in session.keys
  /\ key \in LongWord => app.current = "Terminal" /\ terminal.mode = "Insert"
  /\ key \in Digit => Len(trace.prefix) < MaxTyped /\ Len(code.prefix) < MaxTyped
                      /\ Len(terminal.prefix) < MaxTyped
  /\ key \notin NoChar => TypedInCommand(trace) < MaxTyped /\ TypedInCommand(code) < MaxTyped
  /\ KeepKey(key) \/ ForwardKey(key) \/ Panic(key)

Resize(layout) ==
  /\ loop \in {"event", "batch"}
  /\ layout \in session.layouts
  /\ app' = [app EXCEPT !.layout = layout]
  /\ loop' = "draw"
  /\ UNCHANGED <<executionVars, panelVars>>
-----------------------------------------------------------------------------
(* Mouse events are handled in batches, without a draw between them, and a key
   that ends the batch is handled before the next draw as well. *)

(* get_panel_at_position: where more than one panel can be shown it is taken to
   be the current one. *)
PanelAt ==
  CASE app.layout = "Full" -> Shown
    [] app.layout = "Compact" -> {app.current, "Terminal"}
    [] app.layout = "Mobile" -> {app.current}

Mouse == app.mouse /\ loop \in {"event", "batch"} /\ loop' \in {"batch", "draw"}

Click(panel) ==
  /\ Mouse /\ session.clicks
  /\ app' = FocusChanged(panel)
  /\ UpdatePanelFocus(panel)
  /\ UNCHANGED executionVars

(* Scrolling does not ask who has the focus. *)
Scroll(down) ==
  /\ Mouse /\ session.clicks
  /\ trace' = IF app.current = "Trace" THEN TraceScrolled(down) ELSE trace
  /\ code' = IF app.current = "Code" THEN CodeScrolled(down) ELSE code
  /\ display' = IF app.current = "Display" THEN DisplayScrolled(down) ELSE display
  /\ terminal' = IF app.current = "Terminal" THEN TerminalScrolled(down) ELSE terminal
  /\ UNCHANGED <<executionVars, app>>

(* The ticker of the loop; a select! takes a ready branch at random. *)
LoopTick ==
  /\ loop = "event"
  /\ Tick /\ Idle
  /\ loop' = "draw"
  /\ UNCHANGED <<panelVars, app>>

Work == Background /\ UNCHANGED <<panelVars, app, loop>>
-----------------------------------------------------------------------------
TuiInit == Init /\ TraceInit /\ CodeInit /\ DisplayInit /\ TerminalInit /\ AppInit

UserEvent ==
  \/ \E key \in session.keys : Key(key)
  \/ \E layout \in session.layouts : Resize(layout)
  \/ \E panel \in PanelAt : Click(panel)
  \/ \E down \in BOOLEAN : Scroll(down)

TuiNext == Draw \/ UserEvent \/ LoopTick \/ Work

TuiSpec == TuiInit /\ [][TuiNext]_tuiVars

(* As in FairSpec; the loop draws and comes to its ticker again and again, and
   the background task, which comes round every 200 ms, does not hold the lock
   at every draw. *)
FairTuiSpec ==
  /\ TuiSpec
  /\ WF_tuiVars(Draw) /\ SF_tuiVars(~locked /\ Draw)
  /\ SF_tuiVars(LoopTick)
  /\ WF_tuiVars(Take /\ Idle /\ UNCHANGED <<panelVars, app, loop>>)
  /\ WF_tuiVars(Finish(core) /\ Idle /\ UNCHANGED <<panelVars, app, loop>>)
  /\ SF_tuiVars(Finish(FetchData(core, batch)) /\ Idle /\ UNCHANGED <<panelVars, app, loop>>)
-----------------------------------------------------------------------------
(* When the user rests, every panel on the screen comes to show the snapshot the
   user is at, or looks at, however many requests were dropped because the lock
   was held or the server failed (code.rs:726-944, display.rs:286-350,
   trace.rs:888-904). *)
UpToDate ==
  /\ "Code" \in Shown => code.snapshot = displayed
  /\ "Display" \in Shown => display.snapshot = current
  /\ "Trace" \in Shown => trace.snapshot = current

PanelsCatchUp == <>[][Draw \/ LoopTick \/ Work]_tuiVars => <>[](UpToDate \/ Ended)

(* A command of the terminal does not stay pending while the terminal is shown
   (terminal.rs:124-192, 1861-1877). *)
PendingEnds ==
  terminal.pending # None ~> terminal.pending = None \/ "Terminal" \notin Shown \/ Ended

(* Nothing on the screen waits for ever for what the server was asked once: no
   panel for its snapshot and no command of the terminal for its end
   (core.rs:210-330, where requests are dropped). *)
PanelsSettle == PanelsCatchUp /\ PendingEnds
=============================================================================
