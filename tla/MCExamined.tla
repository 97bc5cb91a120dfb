------------------------------ MODULE MCExamined ------------------------------
(***************************************************************************)
(* What HookSession examines: source files for SourceAnalysis, with what   *)
(* their analysis must find, said of the tree alone and not of a walk; and *)
(* values and interfaces for CallText.                                     *)
(***************************************************************************)
EXTENDS SourceAnalysis, FiniteSetsExt, CallText

Leaf(kind) == <<kind, << >>, << >>>>
Of(kind, parts) == <<kind, << >>, [i \in DOMAIN parts |-> <<parts[i]>>]>>
Opt(part) == IF part = << >> THEN << >> ELSE <<part>>

(* Types and expressions *)
Uint == Leaf("ElementaryTypeName")
User == <<"UserDefinedTypeName", << >>, << <<Leaf("IdentifierPath")>> >>>>
Array(t) == <<"ArrayTypeName", << >>, << <<t>>, << >> >>>>
MappingOf(t) == Of("Mapping", <<Uint, t>>)
Id(x) == <<"Identifier", <<x>>, << >>>>
One == Leaf("Literal")
Bin(l, r) == Of("BinaryOperation", <<l, r>>)
Set(l, r) == Of("Assignment", <<l, r>>)
At(e, i) == Of("IndexAccess", <<e, i>>)
Part(e) == <<"IndexRangeAccess", << >>, << <<e>>, <<One>>, << >> >>>>
Member(e) == Of("MemberAccess", <<e>>)
Tuple(es) == <<"TupleExpression", << >>, <<es>>>>
CallOf(kind, f, es) == <<"FunctionCall", <<kind>>, << <<f>>, es >>>>
Call(f, es) == CallOf("FunctionCall", f, es)
With(f, e) == <<"FunctionCallOptions", << >>, << <<f>>, <<e>> >>>>

(* Declarations *)
Var(x, what, visibility, storage, type, value) ==
  <<"VariableDeclaration", <<x, what, visibility, storage>>, << <<type>>, Opt(value) >>>>
Local(x) == Var(x, "local", "internal", "default", Uint, << >>)
Stored(x) == Var(x, "local", "internal", "storage", User, << >>)
State(x) == Var(x, "state", "internal", "default", Uint, << >>)
Params(vs) == <<"ParameterList", << >>, <<vs>>>>

(* Statements *)
S(stmt) == <<"Statement", << >>, << <<stmt>> >>>>
Block(ss) == <<"Block", << >>, << [i \in DOMAIN ss |-> S(ss[i])] >>>>
Unchecked(ss) == <<"UncheckedBlock", << >>, << [i \in DOMAIN ss |-> S(ss[i])] >>>>
Expr(e) == Of("ExpressionStatement", <<e>>)
Decl(vs, value) == <<"VariableDeclarationStatement", << >>, <<vs, Opt(value)>>>>
Emit(es) == Of("EmitStatement", <<Call(Id("E"), es)>>)
Revert(es) == Of("RevertStatement", <<Call(Id("F"), es)>>)
Return(e) == <<"Return", << >>, <<Opt(e)>>>>
(* A body is a block or, bare, a statement. *)
Bare(stmt) == IF stmt[1] = "Block" THEN stmt ELSE S(stmt)
If(c, s) == <<"IfStatement", << >>, << <<c>>, <<Bare(s)>>, << >> >>>>
IfElse(c, s, t) == <<"IfStatement", << >>, << <<c>>, <<Bare(s)>>, <<Bare(t)>> >>>>
Loop(c, s) == <<"WhileStatement", << >>, << <<c>>, <<Bare(s)>> >>>>
For(init, c, l, s) == <<"ForStatement", << >>, << Opt(init), Opt(c), Opt(l), <<Bare(s)>> >>>>
Do(block, c) == <<"DoWhileStatement", << >>, << <<block>>, <<c>> >>>>
Clause(vs, block) == <<"Clause", << >>, << IF vs = << >> THEN << >> ELSE <<Params(vs)>>, <<block>> >>>>
Try(e, clauses) == <<"TryStatement", << >>, << <<e>>, clauses >>>>

(* Parts of a source file *)
Function(visibility, mutability, params, returns, modifiers, body) ==
  <<"FunctionDefinition", <<"f", visibility, mutability>>,
    << <<Params(params)>>, modifiers, << >>, <<Params(returns)>>, Opt(body) >>>>
Modifier(params, body) == <<"ModifierDefinition", << >>, << <<Params(params)>>, << >>, Opt(body) >>>>
Invoke(e) == <<"ModifierInvocation", << >>, << <<Leaf("IdentifierPath")>>, <<e>> >>>>
Contract(bases, parts) == <<"ContractDefinition", << >>, << bases, parts >>>>
Inherit(e) == <<"InheritanceSpecifier", << >>, << <<User>>, <<e>> >>>>
Struct(vs) == <<"StructDefinition", << >>, <<vs>>>>
Event(vs) == Of("EventDefinition", <<Params(vs)>>)
Unit(parts) == <<"SourceUnit", << >>, <<parts>>>>

(* A function of a contract with a state variable before it and one after it. *)
Around(ss) ==
  Unit(<<Contract(<< >>, <<State("s"), Function("internal", "view",
    <<Local("p"), Var("q", "local", "internal", "calldata", Array(Uint), << >>)>>,
    <<Local("r"), Local("")>>, << >>, Block(ss)), State("t")>>)>>)

DX == Decl(<<Local("x")>>, << >>)
X == Expr(Set(Id("x"), One))
DY == Decl(<<Local("y")>>, << >>)
Y == Expr(Set(Id("y"), One))
F == Call(Id("f"), <<One>>)

Simple == {
  X, DY, Expr(F), Return(<< >>), Return(F), Emit(<<F>>), Revert(<<F>>),
  Leaf("Break"), Leaf("Continue"), Leaf("InlineAssembly"),
  Expr(Call(Id("require"), <<Bin(F, Call(Member(Id("x")), << >>))>>)),
  Expr(Call(With(Member(Id("s")), F), <<CallOf("TypeConversion", Uint, <<F>>)>>)),
  Expr(Set(Tuple(<<Id("x"), At(Id("s"), Id("p")), Member(At(Id("r"), F))>>), F)),
  Expr(Set(Id("x"), Set(Id("s"), Set(Id("t"), One)))),
  Expr(Set(At(Id("q"), Set(Id("p"), One)), Tuple(<<F>>))),
  Expr(Set(Part(Id("q")), One)), Expr(Set(Member(Call(Id("f"), << >>)), One)),
  Decl(<<Stored("y")>>, << >>), Decl(<<Stored("y")>>, Id("s")),
  Decl(<<Local("y"), Local("z")>>, Set(Id("x"), F)),
  Block(<< >>), Block(<<DY, Y>>), Unchecked(<<DY, Y>>)
}

(* Every compound statement around every statement, in two depths. *)
Forms(ss) == UNION {{
  If(F, s), IfElse(Set(Id("x"), One), X, s), IfElse(Id("x"), Block(<<s>>), X),
  Loop(Bin(F, F), s), Do(Block(<<s, X>>), F), Block(<<s, X>>),
  For(Decl(<<Local("i")>>, F), Bin(Id("i"), One), Set(Id("i"), F), s),
  For(<< >>, << >>, << >>, Block(<<s>>)),
  Try(F, <<Clause(<<Local("v")>>, Block(<<s>>)), Clause(<< >>, Block(<<X>>))>>)
 } : s \in ss}

Functions ==
  {Around(<<DX, s, X>>) : s \in Simple \union Forms(Simple) \union Forms(Forms({X, Block(<<DY, Y>>)}))}

Others == {
  Unit(<<Leaf("PragmaDirective"), Leaf("ImportDirective"),
         Var("c", "constant", "internal", "default", Uint, One),
         Struct(<<Local("a"), Local("b")>>), Leaf("EnumDefinition"), Event(<<Local("a")>>),
         Function("internal", "pure", <<Local("p")>>, << >>, << >>, Block(<<DX, X>>)),
         Contract(<<Inherit(F)>>, <<
           Of("UserDefinedValueTypeDefinition", <<Uint>>), Leaf("EnumDefinition"), Struct(<<Local("a")>>),
           <<"UsingForDirective", << >>, << <<User>>, << >>, <<Uint>> >>>>, Event(<<Local("a")>>),
           Var("s", "state", "public", "default", MappingOf(User), << >>),
           Var("c", "constant", "public", "default", Uint, F),
           Var("d", "immutable", "public", "default", Uint, << >>),
           Modifier(<<Local("m")>>, Block(<<Expr(Set(Id("m"), One)), Leaf("PlaceholderStatement"), If(F, Leaf("PlaceholderStatement"))>>)),
           Modifier(<<Local("m")>>, << >>),
           Function("public", "nonpayable", <<Local("p"), Local("p2")>>, <<Stored("r")>>, <<Invoke(F)>>,
                    Block(<<Expr(Set(Id("d"), Id("p"))), Expr(Set(Id("s"), F)), Return(Id("r"))>>)),
           Function("external", "view", <<Local("p")>>, <<Local("r")>>, << >>, << >>),
           Function("private", "view", << >>, << >>, << >>, Block(<< >>))>>),
         Contract(<< >>, << >>),
         Contract(<< >>, <<Function("external", "pure", <<Local("p")>>, << >>, << >>, << >>)>>)>>),
  Unit(<<Contract(<< >>, <<Var("s", "state", "private", "default", Array(User), << >>), State("t"),
                           Function("public", "nonpayable", <<Local("p")>>, << >>, << >>, Block(<<Expr(Set(Id("s"), One))>>))>>),
         Contract(<< >>, <<State("u"), Function("public", "nonpayable", <<Local("p")>>, << >>, << >>,
                           Block(<<Expr(Set(Id("u"), One)), Expr(Set(Id("t"), One))>>))>>)>>)
}

Files == Functions \union Others
-----------------------------------------------------------------------------
(* What must be found.  ns are the nodes of a file, each at its position; a    *)
(* node encloses the positions up to its end.                                  *)

RECURSIVE NodesOf(_)

NodesOf(n) ==
  LET parts == FlattenSeq(n.slots)
  IN  <<n>> \o FlattenSeq([i \in DOMAIN parts |-> NodesOf(parts[i])])

Among(ns, kinds) == {p \in DOMAIN ns : ns[p].kind \in kinds}
Enclosing(ns, p) == {q \in 1..(p - 1) : ns[q].end >= p}
Nearest(ns, p, kinds) == Max({0} \union {q \in Enclosing(ns, p) : ns[q].kind \in kinds})

Functional == {"FunctionDefinition", "ModifierDefinition"}
Scoping == Functional \union Blocks \union {"SourceUnit", "ContractDefinition", "ForStatement", "Clause",
                                            "StructDefinition", "EventDefinition", "ErrorDefinition"}

(* The steps: each statement that is not only braces around others, and the    *)
(* header of each function with a body.                                        *)
StepNodes(ns) ==
  {p + 1 : p \in {q \in Among(ns, {"Statement"}) : ns[q + 1].kind \notin Blocks \union {"PlaceholderStatement"}}}
  \union {p \in Among(ns, Functional) : Last(ns[p].slots) # << >>}

PlaceOf(ns, p) == IF ns[p].kind = "DoWhileStatement" THEN ns[p].slots[2][1].at ELSE p
FunctionOf(ns, p) == IF ns[p].kind \in Functional THEN p ELSE Nearest(ns, p, Functional)

(* What belongs to a step itself, and not to a statement inside it. *)
Own(ns, p) ==
  LET others == Blocks \union {"Statement", "Clause", "ModifierInvocation"}
  IN  {q \in p..ns[p].end : ns[q].kind \notin others /\ Nearest(ns, q, others) < p}

CallsOf(ns, p) ==
  IF ns[p].kind = "EmitStatement" THEN 0
  ELSE Cardinality({q \in Own(ns, p) :
         /\ ns[q].kind = "FunctionCall" /\ ns[q].label = <<"FunctionCall">>
         /\ ~(ns[q + 1].kind = "Identifier" /\ ns[q + 1].label[1] \in {"require", "assert", "keccak256"})})

Declared(ns) == {p \in Among(ns, {"VariableDeclaration"}) :
                   ns[p].label[1] # "" /\ ns[p].label[2] \in {"state", "local"}}

(* Solidity's scoping since 0.5, except that a state variable has to come      *)
(* before its use, and that the analysis leaves out what a catch clause or the *)
(* returns clause of a try declares.                                           *)
InScope(ns, p) ==
  {d \in Declared(ns) : d < p /\ LET s == Nearest(ns, d, Scoping)
                                 IN  s \in Enclosing(ns, p) /\ ns[s].kind # "Clause"}

(* A reference into storage or calldata has a value only when it is given one. *)
HasValue(ns, p, d) ==
  \/ ns[d].label[4] \in {"default", "memory"}
  \/ ns[p].kind \in Functional /\ d <= ns[p].slots[1][1].end
  \/ ns[p].kind = "VariableDeclarationStatement" /\ Has(ns[p].slots[2])

RECURSIVE RootOf(_)

RootOf(e) ==
  CASE e.kind = "Identifier" -> {e.label[1]}
    [] e.kind \in {"IndexAccess", "IndexRangeAccess", "MemberAccess"} -> RootOf(e.slots[1][1])
    [] e.kind = "TupleExpression" -> UNION {RootOf(c) : c \in Range(e.slots[1])}
    [] OTHER -> {}

(* What a step changes by its name: what it declares, and in a simple          *)
(* statement what it assigns to, also within an expression.                    *)
Updated(ns, p) ==
  LET roots == UNION {RootOf(ns[q + 1]) : q \in {r \in Own(ns, p) : ns[r].kind = "Assignment"}}
  IN  {d \in Declared(ns) \intersect Own(ns, p) : HasValue(ns, p, d)} \union
      (IF ns[p].kind \in Compound THEN {} ELSE {d \in Declared(ns) : d < p /\ ns[d].label[1] \in roots})

BareBodies(ns) ==
  {p + 1 : p \in {q \in Among(ns, {"Statement"}) :
     ns[q + 1].kind \notin Blocks /\ ns[Max(Enclosing(ns, q))].kind \in {"IfStatement", "ForStatement", "WhileStatement"}}}

EachOnce(list, set) == Range(list) = set /\ Len(list) = Cardinality(set)

(* The outermost block of a function has its parameters in its scope. *)
ScopeOf(ns, d) ==
  LET s == Nearest(ns, d, Scoping)
  IN  IF s # 1 /\ ns[Max(Enclosing(ns, s))].kind \in Functional THEN Max(Enclosing(ns, s)) ELSE s

InnermostFirst(ns, list) ==
  \A i, j \in DOMAIN list : i < j => ScopeOf(ns, list[i]) >= ScopeOf(ns, list[j])

StepIsOf(ns, p, step) ==
  /\ step.src = PlaceOf(ns, p)
  /\ step.function = FunctionOf(ns, p)
  /\ step.calls = CallsOf(ns, p)
  /\ EachOnce(step.accessible, InScope(ns, p)) /\ InnermostFirst(ns, step.accessible)
  /\ Range(step.updated) = Updated(ns, p)

IsOfSource(ns, found) ==
  /\ ~found.panic
  /\ \A i \in 2..Len(found.steps) : found.steps[i].src < found.steps[i - 1].src
  /\ Len(found.steps) = Cardinality(StepNodes(ns))
  /\ \A p \in StepNodes(ns) : \E i \in DOMAIN found.steps : StepIsOf(ns, p, found.steps[i])
  /\ EachOnce([i \in DOMAIN found.functions |-> <<found.functions[i].src, found.functions[i].contract>>],
              {<<p, Nearest(ns, p, {"ContractDefinition"})>> : p \in Among(ns, Functional)})
  /\ EachOnce(found.contracts, Among(ns, {"ContractDefinition"}))
  /\ EachOnce(found.types, Among(ns, {"ContractDefinition", "StructDefinition", "EnumDefinition",
                                      "UserDefinedValueTypeDefinition"}))
  /\ EachOnce(found.bodies, BareBodies(ns))
  /\ \A i \in DOMAIN found.steps :
       Range(found.steps[i].accessible) \union Range(found.steps[i].updated) \subseteq found.variables
-----------------------------------------------------------------------------
(* The values whose texts are looked at, with the types they are of, and the  *)
(* interfaces whose calls are made by text.                                    *)

A == Word("a")
Strings == {<< >>, <<A>>, <<A, Comma, A>>, <<Sym(")"), Apostrophe>>, <<Sym("(")>>, <<Quote>>, <<A, Backslash>>,
            <<A, Sym(":"), Space, A>>, <<Sym("]"), Comma, Sym(":"), A>>}

Numbers == {<<<<"uint", 8>>, <<"uint", n, 8>>>> : n \in {0, 1, 10, 255}} \union
           {<<<<"uint", 16>>, <<"uint", 65535, 16>>>>} \union
           {<<<<"int", 8>>, <<"int", n, 8>>>> : n \in {-128, -1, 127}} \union
           {<<<<"int", 16>>, <<"int", n, 16>>>> : n \in {-32768, 32767}}

Plain == Numbers \union
  {<<<<"bool">>, <<"bool", b>>>> : b \in BOOLEAN} \union
  {<<<<"address">>, <<"address", bytes>>>> : bytes \in {<<0, 0, 0>>, <<1, 2, 255>>}} \union
  {<<<<"bytes">>, <<"bytes", bytes>>>> : bytes \in {<< >>, <<16>>, <<1, 2, 3>>}} \union
  {<<<<"string">>, <<"string", text>>>> : text \in Strings} \union
  {<<<<"fixed", 1>>, <<"fixed", <<1, 0>>, 1>>>>, <<<<"fixed", 2>>, <<"fixed", <<1, 2>>, 2>>>>} \union
  {<<<<"function">>, <<"function", <<1, 2, 3>>>>>>}

Wrap(samples, lengths) ==
  {<<<<"array", s[1]>>, <<"array", [i \in 1..n |-> s[2]]>>>> : s \in samples, n \in lengths} \union
  {<<<<"fixedarray", s[1], 2>>, <<"fixedarray", <<s[2], s[2]>>>>>> : s \in samples} \union
  {<<<<"tuple", [i \in 1..n |-> s[1]]>>, <<"tuple", [i \in 1..n |-> s[2]]>>>> : s \in samples, n \in (lengths \ {0, 2}) \union {1}} \union
  {<<<<"struct", "S", <<s[1], s[1]>>>>, <<"struct", "S", names, <<s[2], s[2]>>>>>> :
     s \in samples, names \in {<< >>, <<"x", "y">>}}

Colon == <<<<"string">>, <<"string", <<Sym("]"), Comma, Sym(":"), A>>>>>>
Byte == <<<<"uint", 8>>, <<"uint", 10, 8>>>>
Few == {Colon, Byte, <<<<"address">>, <<"address", <<1, 2, 255>>>>>>, <<<<"bytes">>, <<"bytes", <<1, 2, 3>>>>>>}

(* One of each kind, and more. *)
Kinds == Few \union {<<<<"int", 8>>, <<"int", -128, 8>>>>, <<<<"bool">>, <<"bool", TRUE>>>>, <<<<"function">>, <<"function", <<1, 2, 3>>>>>>,
                     <<<<"fixed", 2>>, <<"fixed", <<1, 2>>, 2>>>>, <<<<"string">>, <<"string", <<Sym(")"), Apostrophe>>>>>>}

Empty == <<<<"tuple", << >>>>, <<"tuple", << >>>>>>
Long == <<<<"struct", "L", [i \in 1..5 |-> <<"bool">>]>>,
          <<"struct", "L", <<"p", "q", "r", "s", "t">>, [i \in 1..5 |-> <<"bool", i = 1>>]>>>>
Mixed == {<<<<"tuple", <<s[1], Colon[1]>>>>, <<"tuple", <<s[2], Colon[2]>>>>>> : s \in Kinds}
Nested == Wrap(Wrap({Colon}, {0, 2}) \union {Long}, {0, 2})

Samples == Plain \union Mixed \union Wrap(Kinds, {0, 2, 6}) \union {Empty, Long} \union Nested

Parameters == Kinds \union Wrap({Byte, Colon}, {2})

(* A function and its overload, which may come first. *)
Interface(types, other, first) ==
  IF first THEN <<<<"g", types>>, <<"f", other>>, <<"f", types>>>> ELSE <<<<"f", types>>, <<"g", << >>>>, <<"f", other>>>>

Calls == {<<<<s[1]>>, <<s[2]>>>> : s \in Parameters}
         \union {<<<<s[1], t[1]>>, <<s[2], t[2]>>>> : s \in Few, t \in {Byte, Colon}}
         \union {<<<< >>, << >>>>}

Overloads == {<<s[1]>> : s \in Few} \union {<<Colon[1], s[1]>> : s \in {Byte, Colon}} \union {<< >>}

Contexts == SUBSET {"with_ty", "multi_line"}

(* A value's text in every context, and its type. *)
ValueTextsRight(type, v) ==
  /\ \A ctx \in Contexts : ValueReadsBack(type, v, ctx) /\ DotsForTheRest(v, ctx)
  /\ TellsType(v) => FormatType(v) = TypeText(type)

(* The texts of calls of f, returns and events with these values. *)
CallTextsRight(types, vs, other) ==
  /\ \A first \in BOOLEAN :
       types # other => CallReadsBack(Interface(types, other, first), <<"f", types>>, vs)
  /\ \A names \in [DOMAIN vs -> {"", "x"}] :
       NamedReadBack([i \in DOMAIN types |-> PositionalType(types[i])], names, vs)
=============================================================================
