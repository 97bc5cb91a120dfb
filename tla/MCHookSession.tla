---------------------------- MODULE MCHookSession ----------------------------
(***************************************************************************)
(* From an instrumented function to the answers about its run: when the    *)
(* function has ended (InstrumentedRun), the context of a transaction is   *)
(* built and asked (Evaluator).  Which transaction that is, is open there, *)
(* so the run can be forgotten.  In place of asking, the analysis of whole *)
(* source files, the types of single variables, and the texts of values    *)
(* and calls can be looked at; they depend on nothing else.                *)
(***************************************************************************)
EXTENDS InstrumentedRun, EvaluatorReference

(* Functions, in the two layouts: bodies with and without braces in every      *)
(* statement that has one, nested both ways, jumps out of loops, a name that   *)
(* is declared twice, a function that calls itself.                            *)

X == <<"set", "x">>
Y == <<"set", "y">>
Slot == <<"decl", "slot">>
DX == <<"decl", "x">>
DY == <<"decl", "y">>
Break == <<"break">>
Continue == <<"continue">>
Ret == <<"return">>
Recurse == <<"call">>
B0 == <<"block">>
B1(s) == <<"block", s>>
B2(s, t) == <<"block", s, t>>
B3(s, t, u) == <<"block", s, t, u>>
B4(s, t, u, v) == <<"block", s, t, u, v>>
If(s) == <<"if", s>>
IfElse(s, t) == <<"if", s, t>>
Loop(s) == <<"while", s>>
ForI(s) == <<"for", "i", s>>
Do(b) == <<"do", b>>
Try(b, c) == <<"try", b, c>>

(* Every form around every form around an assignment or a jump. *)
Around(ss) ==
  UNION {{If(s), IfElse(B1(s), X), IfElse(X, s), Loop(s), ForI(s), Do(B2(X, s)), Try(B1(s), B1(Y)), B1(s)} : s \in ss}
Nested == {<< <<"x", "y">>, B2(s, X) >> : s \in Around(Around({X, Loop(Continue)}))}

MCFunctions == Nested \union {
  << <<"x", "y">>, B3(If(X), IfElse(X, Y), Ret) >>,
  << <<"x", "y">>, B2(If(IfElse(X, Y)), IfElse(B1(If(X)), If(Y))) >>,                \* dangling else
  << <<"x", "y">>, B2(IfElse(X, IfElse(B1(Y), If(X))), Ret) >>,                   \* else if
  << <<"x">>, B3(Loop(If(X)), If(Loop(X)), X) >>,
  << <<"x">>, B3(Loop(B3(X, If(Break), X)), X, Ret) >>,
  << <<"x">>, B2(Loop(IfElse(B2(X, Continue), Break)), X) >>,
  << <<"x">>, B3(ForI(B2(X, <<"set", "i">>)), ForI(B0), X) >>,
  << <<"x">>, B3(ForI(X), ForI(If(Continue)), X) >>,
  << <<"x">>, B3(Do(B2(X, If(B1(Continue)))), X, Ret) >>,
  << <<"x">>, B3(Do(B2(X, If(X))), Do(B0), X) >>,                                 \* ends without braces
  << <<"x">>, B3(Loop(Do(B1(X))), Do(B1(Do(B1(If(B1(Break)))))), X) >>,
  << <<"x">>, B3(Try(B1(X), B2(X, Ret)), If(Try(B0, B1(X))), X) >>,
  << <<"x">>, B4(DY, B4(Y, DX, X, Y), X, Y) >>,                                         \* x hides the parameter
  << <<"x">>, B3(DY, B1(IfElse(B2(Y, X), B0)), Y) >>,
  << <<"x">>, B4(X, <<"inc", "x">>, Slot, <<"set", "slot">>) >>,
  << <<"x">>, B4(X, If(Recurse), X, Ret) >>,
  << <<"x">>, B3(X, If(Recurse), X) >>,
  << <<"x">>, B3(DY, Loop(B2(Y, B1(X))), If(ForI(B1(Y)))) >>
}
MCPrograms == MCFunctions \X {0, 1}
-----------------------------------------------------------------------------
(* A proxy (0) that delegates to an implementation (1), a plain contract (2)   *)
(* and a user (3), and questions.  Words have four bits: a byte has two, a     *)
(* word two bytes, an address one byte.                                        *)

Word == <<"uint", 4>>
MCTrace == << <<0, 0, 3, 5, <<1, 2, 3>>>>,      \* the user calls the proxy,
              <<0, 1, 3, 5, <<1, 2, 3>>>>,      \* which delegates to the implementation,
              <<2, 2, 0, 0, <<3>>>> >>          \* which calls the plain contract

MCTaken == << <<1, "hook", << <<"x", <<Uint(3, 4)>>>> >>, << >>, << >>, << >>>>,
              <<2, "hook", << <<"x", <<SInt(14, 4)>>>>, <<"total", <<Uint(1, 4)>>>>, <<"gone", << >>>>,
                              <<"s", <<Struct(<<"a", "b">>, <<Bool(TRUE), Array(<<Uint(7, 4), Uint(9, 4)>>)>>)>>>> >>,
                 << >>, << >>, << >>>>,
              <<3, "opcode", << >>, <<4, 9, 2>>, <<1, 0, 3>>, << <<<<2, 1>>, 6>> >>>>,
              <<2, "hook", << >>, << >>, << >>, << >>>> >>

MCContracts ==
  << << << <<"admin", "StateVariable", << >>, << <<"slot", 3, <<"address">>>> >>>> >> >>,
     << << <<"both", "Function", << >>, << <<"slot", 0, Word>>, <<"slot", 1, <<"bool">>>> >>>>,
           <<"echo", "Function", << <<"address">> >>, << <<"echo", 0, Word>> >>>>,
           <<"echo", "Function", << Word >>, << <<"echo", 0, Word>> >>>>,
           <<"bal", "StateVariable", << <<"address">> >>, << <<"mapping", 1, Word>> >>>>,
           <<"list", "StateVariable", << Word >>, << <<"array", 0, Word>> >>>>,
           <<"owner", "StateVariable", << >>, << <<"slot", 1, <<"address">>>> >>>>,
           <<"total", "Function", << >>, << <<"slot", 0, Word>> >>>>,
           <<"total", "StateVariable", << >>, << <<"slot", 0, Word>> >>>> >> >>,
     << >>,
     << >> >>
MCFallback == <<1, 9, 9, 9>>

MCCached == << << <<<< <<1>>, << >>, << >>, << >> >>>>, <<<< << >>, << >>, << >>, << >> >>>>, << >>, << >> >>,
               << <<<< <<2>>, <<2>>, << >>, << >> >>>>, <<<< << >>, << >>, << >>, << >> >>>>, << >>, << >> >>,
               << <<<< <<2>>, <<2>>, << >>, << >> >>>>, <<<< << >>, << >>, << >>, << >> >>>>, <<<< << >>, <<8>>, << >>, << >> >>>>, << >> >>,
               << <<<< <<2>>, <<3>>, << >>, << >> >>>>, <<<< << >>, << >>, << >>, << >> >>>>, <<<< << >>, <<8>>, << >>, << >> >>>>, << >> >> >>
MCFork == << <<1, 0, 13, 2>>, <<11, 15, 7, 0>>, <<6, 5, 4, 3>>, <<0, 0, 0, 0>> >>

N(n)          == <<"number", n, 0, "">>
Var(name)     == <<"variable", name>>
Binary(op, l, r) == <<"binary", op, l, r>>
Call(name, args) == <<"call", Var(name), args>>
On(base, name, args) == <<"call", <<"member", base, name>>, args>>
CastTo(type, e) == <<"call", <<"type", type>>, <<e>>>>

Numbers  == {N(0), N(1), N(3), N(7), N(15)}
Narrow   == {CastTo(<<"uint", 2>>, n) : n \in Numbers}
SignedOnes == {CastTo(<<"int", b>>, n) : b \in {2, 4}, n \in Numbers} \cup {<<"unary", "-", N(3)>>}
Truths   == {<<"bool", TRUE>>, <<"bool", FALSE>>}
Odd      == {Var("missing"), <<"string", <<1, 0, 1>>>>, <<"hex", <<2, 1, 3>>>>, CastTo(<<"address">>, N(6))}
Buffers  == {<<"string", <<1, 0, 1>>>>, <<"hex", <<2, 1, 3>>>>, CastTo(<<"fixed", 1>>, N(6)), <<"string", << >>>>}
Lists    == {<<"array", <<N(1), N(15)>>>>, <<"list", <<N(3), Var("x")>>>>, <<"list", << >>>>}

Types == {<<"address">>, <<"uint", 2>>, <<"uint", 4>>, <<"int", 2>>, <<"int", 4>>, <<"bool">>, <<"fixed", 1>>,
          <<"fixed", 2>>, <<"bytes">>, <<"string">>, <<"function">>}

MCExpressions ==
  {Binary(op, l, r) : op \in ArithmeticOps \cup ComparisonOps \cup BitwiseOps,
                      l \in Numbers \cup Narrow, r \in Numbers \cup Narrow}
  \cup {Binary(op, l, r) : op \in ArithmeticOps \cup ComparisonOps, l \in SignedOnes, r \in SignedOnes}
  \cup {Binary(op, l, r) : op \in {"&&", "||", "==", "+"}, l \in Truths \cup Odd, r \in Truths \cup Odd}
  \cup {<<"unary", op, e>> : op \in {"~", "!", "-", "+"}, e \in Numbers \cup SignedOnes \cup Truths \cup Odd}
  \cup {CastTo(t, e) : t \in Types, e \in Numbers \cup Narrow \cup SignedOnes \cup Truths \cup Buffers
                                          \cup {CastTo(<<"fixed", n>>, N(6)) : n \in 1..2}}
  \cup {On(b, m, << >>) : b \in Buffers \cup Lists, m \in {"push", "pop", "isEmpty", "concat"}}
  \cup {On(b, "slice", <<N(i), N(j)>>) : b \in Buffers, i \in {0, 1, 15}, j \in {2, 7}}
  \cup {On(b, "slice", <<N(i)>>) : b \in Buffers, i \in {0, 3, 7}}
  \cup {On(b, "concat", <<c>>) : b \in Buffers, c \in Buffers}
  \cup {On(N(3), m, <<e>>) : m \in {"min", "max"}, e \in Numbers \cup Truths}
  \cup {<<"member", b, m>> : b \in Buffers \cup Lists \cup SignedOnes \cup {N(0), Var("this")},
                             m \in {"length", "abs", "isZero"}}
  \cup {<<"index", b, i>> : b \in Lists, i \in {<< >>, <<N(0)>>, <<N(3)>>, <<N(15)>>, <<Var("this")>>}}
  \cup {<<"slice", b, i, j>> : b \in Lists, i \in {<< >>, <<N(1)>>}, j \in {<< >>, <<N(1)>>, <<N(3)>>, <<N(15)>>}}
  \cup {<<"conditional", c, N(1), N(3)>> : c \in Truths \cup Odd}
  \cup {Var(n) : n \in {"this", "x", "total", "owner", "admin", "gone", "bal", "msg", "missing"}}
  \cup {<<"member", Var("this"), n>> : n \in {"total", "owner", "admin", "missing"}}
  \cup {<<"member", Var(b), m>> : b \in {"msg", "tx", "block"}, m \in {"sender", "value", "origin", "number", "timestamp"}}
  \cup {<<"member", Var("s"), m>> : m \in {"a", "c"}}
  \cup {<<"index", <<"member", Var("s"), "b">>, <<N(i)>>>> : i \in {0, 1, 3}}
  \cup {<<"index", Var(n), <<i>>>> : n \in {"bal", "list"}, i \in Numbers \cup {<<"member", Var("msg"), "sender">>}}
  \cup {<<"index", <<"index", Var("list"), <<N(0)>>>>, <<N(0)>>>>, <<"index", Var("bal"), << >>>>}
  \cup {Call(f, a) : f \in {"both", "total", "owner", "echo", "edb_help"}, a \in {<< >>, <<N(3)>>, <<Var("this")>>}}
  \cup {On(Var("this"), f, << >>) : f \in {"both", "total", "admin"}}
  \cup {Call(f, <<a, b>>) : f \in {"edb_sload", "edb_tsload", "edb_memory", "edb_calldata"},
                            a \in {Var("this"), N(1)}, b \in {N(1), N(3), N(15)}}
  \cup {Call("edb_memory", <<N(7), N(7)>>), Call("edb_calldata", <<N(1), N(7)>>)}
  \cup {Call(f, <<a>>) : f \in {"edb_stack", "keccak256"}, a \in Buffers \cup {N(0), N(3), N(15)}}
  \cup {<<"number", 3, 2, "">>, <<"number", 3, 0, "ether">>, N(16), <<"unparsable">>, <<"unsupported">>,
        <<"list", <<N(1), <<"none">>>>>>, <<"list", <<Var("bal"), N(1)>>>>}
-----------------------------------------------------------------------------
(* Types of variables. *)

Elementary == {<<"elementary", "uint256">>, <<"elementary", "string">>}
MCUserTypes ==
  [Point  |-> <<"struct", <<"elementary", "uint256">>, <<"array", <<"elementary", "string">>, "literal">>>>,
   Wallet |-> <<"struct", <<"user", "Kind">>, <<"mapping", <<"elementary", "uint256">>, <<"user", "Point">>>>>>,
   Owner  |-> <<"struct", <<"function">>, <<"array", <<"user", "Wallet">>, "none">>>>,
   Order  |-> <<"struct", <<"user", "Point">>, <<"function">>, <<"user", "Price">>, <<"user", "Token">>>>,
   Sized  |-> <<"struct", <<"array", <<"elementary", "uint256">>, "named">>>>,
   Kind   |-> <<"enum">>,
   Price  |-> <<"value", <<"elementary", "uint256">>>>,
   Token  |-> <<"contract">>]

Plain == Elementary \union {<<"function">>} \union {<<"user", name>> : name \in DOMAIN MCUserTypes}
Containers(types) ==
  {<<"array", t, n>> : t \in types, n \in {"none", "literal", "named"}} \union
  {<<"mapping", k, t>> : k \in Elementary \union {<<"user", "Token">>}, t \in types}
MCVersions == {<<4, 23>>, <<4, 24>>, <<6, 12>>, <<7, 6>>, <<8, 0>>}
MCTypes == Plain \union Containers(Plain) \union Containers(Containers({<<"elementary", "uint256">>, <<"user", "Wallet">>}))

Hooks == INSTANCE VariableHooks WITH UserTypes <- MCUserTypes
Examined == INSTANCE MCExamined WITH AddressBytes <- 3, MaxString <- 3

VARIABLES
  serving,    \* whether the debug server runs
  examined    \* a source file, a variable, a value or a call; see the actions

HookInit == Init /\ SessionInit /\ hashOrder /\ serving = FALSE /\ examined = << >>

Run == ~serving /\ Next /\ UNCHANGED <<sessionVars, serving, examined>>

Forgotten == << <<"x">>, B0 >>

StartDebugServer ==
  /\ ~serving /\ todo = << >>
  /\ serving' = TRUE
  /\ hashOrder' \in BOOLEAN
  /\ UNCHANGED <<readiness, firstSnapshot, stateVariables, question, answer>>
  /\ program' = <<Forgotten, 0>>
  /\ steps' = Analyze(Forgotten, 0).steps /\ code' = Compiled(Instrument(Forgotten, 0))
  /\ scopes' = << >> /\ turns' = 0 /\ calls' = 0 /\ clock' = 1
  /\ uvid_values' = NoValues /\ snapshot' = << >>
  /\ UNCHANGED <<todo, examined>>

Ask == serving /\ examined = << >> /\ SessionNext /\ UNCHANGED <<runVars, serving, examined>>

Idle == serving /\ examined = << >> /\ readiness = "trace" /\ question = <<"none">> /\ hashOrder

ExamineSource ==
  /\ Idle
  /\ \E file \in Examined!Files : examined' = <<"file", file>>
  /\ UNCHANGED <<runVars, sessionVars, serving>>

ExamineVariable ==
  /\ Idle
  /\ \E type \in MCTypes, place \in {"state", "storage", "memory"}, version \in MCVersions :
       /\ Hooks!Declarable(type, place = "state", place = "storage", version)
       /\ examined' = <<"variable", type, place, version>>
  /\ UNCHANGED <<runVars, sessionVars, serving>>

ExamineText ==
  /\ Idle
  /\ \/ \E value \in Examined!Samples : examined' = <<"value", value[1], value[2]>>
     \/ \E call \in Examined!Calls, other \in Examined!Overloads : examined' = <<"call", call[1], call[2], other>>
  /\ UNCHANGED <<runVars, sessionVars, serving>>

HookNext == Run \/ StartDebugServer \/ Ask \/ ExamineSource \/ ExamineVariable \/ ExamineText

HookSpec == HookInit /\ [][HookNext]_<<runVars, sessionVars, serving, examined>>
-----------------------------------------------------------------------------
(* The analysis of a source file, one walk with a stack of scopes, finds what  *)
(* the file is made of: a step for every statement and every function with a   *)
(* body, each once, in its function, with the variables that are in scope      *)
(* there and those it changes, the calls it makes, and the bodies that need    *)
(* braces (analysis/analyzer.rs, step.rs, variable.rs, scope.rs).              *)
AnalysisIsOfSource ==
  examined # << >> /\ examined[1] = "file" =>
    Examined!IsOfSource(Examined!NodesOf(Examined!Located(examined[2], 1)), Examined!Analyze(examined[2]))

(* A value comes back from the way it takes.  What the code generator has a    *)
(* contract report, its filter knowing nothing of the inspector's search for a *)
(* type, can be decoded, although a type is not looked at through the names of *)
(* structs, and the indices of a view method lead to the type it returns       *)
(* (codegen.rs, types.rs).  What is shown in full, of a value alone or in a    *)
(* call, a return or an event, is read as that value, by the first overload    *)
(* that takes it, whatever brackets, commas and quotes its strings hold, and   *)
(* what is left out is said to be (sol_value.rs, resolve.rs, abi.rs).          *)
ValuesComeBack ==
  examined # << >> =>
    CASE examined[1] = "variable" ->
           /\ Hooks!Decodable(examined[2], examined[3] = "state", examined[3] = "storage", examined[4])
           /\ examined[3] = "state" => Hooks!ViewTyped(examined[2])
      [] examined[1] = "value" -> Examined!ValueTextsRight(examined[2], examined[3])
      [] examined[1] = "call"  -> Examined!CallTextsRight(examined[2], examined[3], examined[4])
      [] OTHER                 -> TRUE
=============================================================================
