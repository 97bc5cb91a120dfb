--------------------------- MODULE InstrumentedRun ---------------------------
(* An instrumented contract in execution, as the hook snapshot inspector sees  *)
(* it (inspector/hook_snapshot_inspector.rs): a hook takes a snapshot, whose   *)
(* locals are the values that updates reported before.  The compiler and the   *)
(* machine are the environment: the text is parsed again, and the parsed       *)
(* statements are executed one by one, with conditions that may go either way. *)
EXTENDS Instrumentation

CONSTANTS
  Programs,      \* functions with the gap of their layout: <<function, gap>>
  MaxTurns,      \* bound: loops entered or repeated
  MaxCalls,      \* bound: calls of the function by itself
  None

VARIABLES
  program,       \* which of Programs is executed
  steps,         \* its analysis: accessible variables of each step
  code,          \* its instrumented body, parsed
  todo,          \* what is left to execute
  scopes,        \* the variables of the open scopes: name -> value
  turns, calls,  \* loops and calls so far
  clock,         \* writes so far: each writes a new value
  uvid_values,   \* the last value reported of each variable
  snapshot       \* the snapshot whose step is still to come: its step and locals

runVars == <<program, steps, code, todo, scopes, turns, calls, clock, uvid_values, snapshot>>
fixedVars == <<program, steps, code>>
-----------------------------------------------------------------------------
(* The compiler: statements as in Instrumentation, of which each keeps its     *)
(* position, and hooks, from a sequence of tokens.                             *)

Bad == <<"bad">>
Words(tokens) == SelectSeq(tokens, LAMBDA t : t # <<" ">>)

RECURSIVE Parse(_), ParseBlock(_, _), ParseClauses(_, _)

(* A statement, and the tokens after it. *)
Parse(ts) ==
  LET t == ts[1]
      Node(rest) == <<<<t[1], t[2], t[3], rest[1]>>, rest[2]>>
  IN
  IF ts = << >> THEN <<Bad, << >>>>
  ELSE CASE t[1] \in {"hook", "update"} -> <<t, Tail(ts)>>
         [] t[1] = "{" -> ParseBlock(Tail(ts), << >>)
         [] t[1] \in Simple ->
              IF Len(ts) > 1 /\ ts[2] = <<";">> THEN <<t, Tail(Tail(ts))>> ELSE <<Bad, << >>>>
         [] t[1] \in {"while", "for"} -> Node(Parse(Tail(ts)))
         [] t[1] \in {"if", "try"} ->
              LET all == ParseClauses(Tail(ts), << >>) IN <<t \o all[1], all[2]>>
         [] t[1] = "do" ->
              LET body == Parse(Tail(ts)) rest == body[2] IN
              IF Len(rest) > 1 /\ rest[1][1] = "until" /\ rest[2] = <<";">>
              THEN <<<<"do", "", rest[1][3], body[1]>>, Tail(Tail(rest))>>
              ELSE <<Bad, << >>>>
         [] OTHER -> <<Bad, << >>>>

ParseBlock(ts, before) ==
  IF ts = << >> THEN <<Bad, << >>>>
  ELSE IF ts[1] = <<"}">> THEN <<<<"block">> \o before, Tail(ts)>>
  ELSE LET first == Parse(ts) IN ParseBlock(first[2], Append(before, first[1]))

ParseClauses(ts, before) ==
  LET one == Parse(ts) now == Append(before, one[1]) IN
  IF one[2] # << >> /\ one[2][1] = <<"else">> /\ (before = << >> \/ one[1][1] = "block")
  THEN ParseClauses(Tail(one[2]), now) ELSE <<now, one[2]>>

Compiled(tokens) ==
  LET parsed == Parse(Tail(Words(tokens))) IN IF parsed[2] = << >> THEN parsed[1] ELSE Bad

RECURSIVE Erased(_)

Braced(n) == IF n[1] = "block" THEN n ELSE <<"block", n>>

(* Without hooks, and with braces around every body. *)
Erased(n) ==
  CASE n[1] = "block" ->
         LET real == SelectSeq(Tail(n), LAMBDA m : m[1] \notin {"hook", "update"})
         IN  <<"block">> \o [i \in DOMAIN real |-> Erased(real[i])]
    [] n[1] \in {"if", "try", "while", "for", "do"} ->
         [i \in DOMAIN n |-> IF i <= 3 THEN n[i] ELSE Erased(Braced(n[i]))]
    [] OTHER -> n
-----------------------------------------------------------------------------
Source0 == Source(program[1], program[2])
SourceText == [i \in 1..Cardinality(DOMAIN Source0) |-> Source0[i - 1]]

NoValues == [x \in {} |-> None]
NewScope(names, at) == [x \in Range(names) |-> at]

Init ==
  /\ program \in Programs
  /\ steps = Analyze(program[1], program[2]).steps
  /\ code = Compiled(Instrument(program[1], program[2]))
  /\ todo = <<code>>
  /\ scopes = <<NewScope(program[1][1], 1)>>
  /\ turns = 0 /\ calls = 0 /\ clock = 1
  /\ uvid_values = NoValues
  /\ snapshot = << >>

Now == todo[1]
Rest == Tail(todo)

(* The scope a name belongs to. *)
Binding(x) == CHOOSE i \in DOMAIN scopes :
                x \in DOMAIN scopes[i] /\ \A j \in 1..(i - 1) : x \notin DOMAIN scopes[j]
Value(x) == scopes[Binding(x)][x]

Written(x) == [scopes EXCEPT ![Binding(x)][x] = clock + 1]
Declared(x) == <<NewScope(<<x>>, clock + 1) @@ scopes[1]>> \o Tail(scopes)
-----------------------------------------------------------------------------
(* The hook snapshot inspector                                                 *)

StepOf(usid) == CHOOSE s \in Range(steps) : s.usid = usid

(* locals is keyed by name; of two variables the one looked at last is kept. *)
Locals(step) ==
  LET Insert(locals, v) ==
        [x \in DOMAIN locals \union {v[1]} |->
           IF x # v[1] THEN locals[x]
           ELSE IF v \in DOMAIN uvid_values THEN uvid_values[v] ELSE None]
  IN  FoldLeft(Insert, NoValues, step.accessible)

CheckAndRecordHook ==
  /\ todo # << >> /\ Now[1] = "hook"
  /\ snapshot' = IF StepOf(Now[2]).entry THEN << >> ELSE <<Now[2], Locals(StepOf(Now[2]))>>
  /\ todo' = Rest
  /\ UNCHANGED <<fixedVars, scopes, turns, calls, clock, uvid_values>>

CheckAndRecordVariableUpdate ==
  /\ todo # << >> /\ Now[1] = "update"
  /\ uvid_values' = [v \in DOMAIN uvid_values \union {Now[2]} |->
                       IF v = Now[2] THEN Value(v[1]) ELSE uvid_values[v]]
  /\ todo' = Rest
  /\ UNCHANGED <<fixedVars, scopes, turns, calls, clock, snapshot>>
-----------------------------------------------------------------------------
(* The machine.  <<"leave">> ends a scope, <<"again", n>> is where a loop goes *)
(* back to, <<"until", n>> the condition of a do-while and <<"back", s>> the *)
(* caller's scopes.                                                            *)

Here(kind) == todo # << >> /\ Now[1] = kind
Arrive == snapshot' = << >> /\ UNCHANGED <<fixedVars, uvid_values>>

Assign ==
  /\ Here("set") \/ Here("inc") \/ Here("decl")
  /\ scopes' = IF Now[1] = "decl" THEN Declared(Now[2]) ELSE Written(Now[2])
  /\ clock' = clock + 1
  /\ todo' = Rest
  /\ Arrive /\ UNCHANGED <<turns, calls>>

EnterBlock ==
  /\ Here("block")
  /\ todo' = Tail(Now) \o <<<<"leave">>>> \o Rest
  /\ scopes' = <<NoValues>> \o scopes
  /\ UNCHANGED <<fixedVars, turns, calls, clock, uvid_values, snapshot>>

LeaveBlock ==
  /\ Here("leave")
  /\ todo' = Rest
  /\ scopes' = Tail(scopes)
  /\ UNCHANGED <<fixedVars, turns, calls, clock, uvid_values, snapshot>>

Choose ==
  /\ Here("if") \/ Here("try")
  /\ \/ \E i \in 4..Len(Now) : todo' = <<Now[i]>> \o Rest
     \/ Now[1] = "if" /\ Len(Now) = 4 /\ todo' = Rest
  /\ Arrive /\ UNCHANGED <<scopes, turns, calls, clock>>

Turn(n) == turns < MaxTurns /\ turns' = turns + 1 /\ todo' = <<n[4], <<"again", n>>>> \o Rest

While ==
  /\ Here("while")
  /\ \/ Turn(Now)
     \/ todo' = Rest /\ UNCHANGED turns
  /\ Arrive /\ UNCHANGED <<scopes, calls, clock>>

For ==
  /\ Here("for")
  /\ scopes' = <<NewScope(<<Now[2]>>, clock + 1)>> \o scopes
  /\ clock' = clock + 1
  /\ \/ turns < MaxTurns /\ turns' = turns + 1
        /\ todo' = <<Now[4], <<"again", Now>>, <<"leave">>>> \o Rest
     \/ todo' = <<<<"leave">>>> \o Rest /\ UNCHANGED turns
  /\ Arrive /\ UNCHANGED calls

DoBody ==
  /\ Here("do")
  /\ todo' = <<Now[4], <<"until", Now>>>> \o Rest
  /\ UNCHANGED <<fixedVars, scopes, turns, calls, clock, uvid_values, snapshot>>

Until ==
  /\ Here("until") \/ Here("jumped")
  /\ \/ turns < MaxTurns /\ turns' = turns + 1 /\ todo' = <<Now[2]>> \o Rest
     \/ todo' = Rest /\ UNCHANGED turns
  /\ Arrive /\ UNCHANGED <<scopes, calls, clock>>

(* The loop expression of a for statement is an increment. *)
Again ==
  /\ Here("again")
  /\ LET n == Now[2] IN
     /\ IF n[1] = "for" THEN scopes' = Written(n[2]) /\ clock' = clock + 1
        ELSE UNCHANGED <<scopes, clock>>
     /\ \/ Turn(n)
        \/ todo' = Rest /\ UNCHANGED turns
  /\ Arrive /\ UNCHANGED calls

(* The position in todo of what a jump goes to, and the scopes it closes. *)
Target(kinds) == CHOOSE i \in DOMAIN todo :
                   todo[i][1] \in kinds /\ \A j \in 1..(i - 1) : todo[j][1] \notin kinds
Closed(i) == Cardinality({j \in 1..i : todo[j][1] = "leave"})
From(s, i) == SubSeq(s, i, Len(s))

Jump ==
  /\ Here("break") \/ Here("continue")
  /\ LET i == Target({"again", "until", "jumped"})
         loop == IF todo[i][1] = "until" THEN <<"jumped", todo[i][2]>> ELSE todo[i]
     IN  /\ todo' = (IF Now[1] = "break" THEN << >> ELSE <<loop>>) \o From(todo, i + 1)
         /\ scopes' = From(scopes, Closed(i) + 1)
  /\ Arrive /\ UNCHANGED <<turns, calls, clock>>

Return ==
  /\ Here("return")
  /\ LET back == {i \in DOMAIN todo : todo[i][1] = "back"} IN
     IF back = {} THEN todo' = << >> /\ UNCHANGED scopes
     ELSE /\ todo' = From(todo, Target({"back"}) + 1)
          /\ scopes' = todo[Target({"back"})][2]
  /\ Arrive /\ UNCHANGED <<turns, calls, clock>>

CallItself ==
  /\ Here("call") /\ calls < MaxCalls
  /\ calls' = calls + 1
  /\ clock' = clock + 1
  /\ scopes' = <<NewScope(program[1][1], clock + 1)>>
  /\ todo' = <<code, <<"back", scopes>>>> \o Rest
  /\ Arrive /\ UNCHANGED turns

CallOther ==
  /\ Here("call")
  /\ todo' = Rest
  /\ Arrive /\ UNCHANGED <<scopes, turns, calls, clock>>

ComeBack ==
  /\ Here("back")
  /\ todo' = Rest
  /\ scopes' = Now[2]
  /\ UNCHANGED <<fixedVars, turns, calls, clock, uvid_values, snapshot>>

Next ==
  \/ CheckAndRecordHook \/ CheckAndRecordVariableUpdate
  \/ Assign \/ EnterBlock \/ LeaveBlock \/ Choose \/ While \/ For \/ DoBody \/ Until \/ Again
  \/ Jump \/ Return \/ CallItself \/ CallOther \/ ComeBack

Spec == Init /\ [][Next]_runVars
-----------------------------------------------------------------------------
RECURSIVE Within(_)
Within(s) == {s} \union (IF s[1] \in Simple THEN {}
                         ELSE UNION {Within(s[i]) : i \in (IF s[1] = "for" THEN 3 ELSE 2)..Len(s)})
Statements == Within(program[1][2])
Spaced == program[2] = 1

(* Instrumentation adds hooks and nothing else: the compiler reads the same    *)
(* program from the new text, although braces, hooks and updates are put at    *)
(* positions that may coincide, one after the other in an order that decides   *)
(* what they belong to (add_modification and collect_statement_bodies).        *)
SameProgram == Erased(code) = Erased(Compiled(SourceText))

(* The debugger shows a step when it is about to be executed: a hook is        *)
(* followed by the step it is the hook of, and a step is not executed without, *)
(* but for the condition of a do-while after a continue.  This takes white     *)
(* space between statements, and a do-while whose body does not end in a body  *)
(* without braces (the hook locations of step.rs).                             *)

EndsBare(s) ==
  /\ s[1] \in {"if", "while", "for"}
  /\ LET body == Last(s) IN body[1] # "block"

WellHooked == Spaced /\ \A s \in Statements :
  s[1] = "do" => LET body == s[2] IN Len(body) = 1 \/ ~EndsBare(Last(body))

IdOf(n) == IF n[1] = "until" THEN n[2][3] ELSE n[3]
IsStep(n) == n[1] \in (Simple \union {"if", "while", "for", "try", "until"})

HooksAreFollowed ==
  WellHooked /\ todo # << >> =>
    /\ IsStep(Now) => snapshot # << >> /\ snapshot[1] = IdOf(Now)
    /\ Now[1] \in {"hook", "again", "back", "jumped"} => snapshot = << >>

(* What a snapshot shows of a variable is the value it has, however the values *)
(* were written: by assignments and declarations in any nesting of branches,   *)
(* loops and jumps.  Out of it are variables that another hides, changes that  *)
(* are no assignments, the variable of a for statement without braces, and     *)
(* calls of the function by itself (record_assignment, the priorities of       *)
(* modification.rs, and uvid_values and locals of the inspector).              *)
Ordinary ==
  /\ WellHooked
  /\ \A s \in Statements :
       /\ s[1] \notin {"inc", "call"}
       /\ s[1] = "for" => s[3][1] = "block"
  /\ \A s \in Range(steps) : \A v, w \in Range(s.accessible) : v[1] = w[1] => v = w

SnapshotsShowValues ==
  Ordinary /\ snapshot # << >> =>
    \A x \in DOMAIN snapshot[2] \ Unencodable :
       snapshot[2][x] = Value(x)
=============================================================================
