---------------------------- MODULE SourceAnalysis ----------------------------
(***************************************************************************)
(* The analysis of a whole source file (crates/engine/src/analysis/): one  *)
(* walk over the compiler's syntax tree (utils/visitor.rs) that keeps a    *)
(* stack of scopes and at most one open step, and collects the steps of    *)
(* every function with the variables each of them can see and changes.     *)
(*                                                                         *)
(* A tree is <<kind, label, slots>>: the label is a tuple of words, and a  *)
(* slot a sequence of trees, in the order of the source.  Once it has its  *)
(* positions, a node is a record, and its position stands for the          *)
(* identifiers the code draws (UVID, UFID, UCID, UTID) and for its range.  *)
(* The kinds Statement and Clause are a statement as an item of a block or *)
(* a body, and a clause of a try statement with its parameters.            *)
(***************************************************************************)
EXTENDS Integers, Sequences, FiniteSets, SequencesExt

RECURSIVE Located(_, _)

Located(tree, at) ==
  LET Child(done, c) == LET n == Located(c, done.next)
                        IN  [nodes |-> Append(done.nodes, n), next |-> n.end + 1]
      Slot(done, cs) == LET s == FoldLeft(Child, [nodes |-> << >>, next |-> done.next], cs)
                        IN  [nodes |-> Append(done.nodes, s.nodes), next |-> s.next]
      all == FoldLeft(Slot, [nodes |-> << >>, next |-> at + 1], tree[3])
  IN  [kind |-> tree[1], label |-> tree[2], slots |-> all.nodes, at |-> at, end |-> all.next - 1]

Has(slot) == slot # << >>
Inner(statement) == statement.slots[1][1]
Blocks == {"Block", "UncheckedBlock"}
Compound == {"DoWhileStatement", "ForStatement", "IfStatement", "TryStatement", "WhileStatement"}
-----------------------------------------------------------------------------
(* The order in which a walk visits the slots of a node.                       *)

SourceOrder(n) == 1..Len(n.slots)

DefinitionOrder(n) ==
  CASE n.kind = "FunctionDefinition"  -> <<1, 4, 3, 5, 2>>   \* modifiers last
    [] n.kind = "ModifierDefinition"  -> <<3, 2, 1>>
    [] n.kind = "VariableDeclaration" -> <<2, 1>>            \* the value before the type
    [] OTHER                          -> [i \in SourceOrder(n) |-> i]

ExpressionOrder(n) ==
  IF n.kind = "UsingForDirective" THEN <<3, 1, 2>> ELSE [i \in SourceOrder(n) |-> i]

StatementOrder(n) ==
  CASE n.kind = "ForStatement"           -> <<4, 2, 3, 1>>
    [] n.kind \in {"TryStatement", "Clause"} -> <<2, 1>>
    [] OTHER                             -> [i \in SourceOrder(n) |-> i]

TypeOrder(n) ==
  IF n.kind = "ModifierInvocation" THEN <<2, 1>> ELSE [i \in SourceOrder(n) |-> i]

Definitions == {"SourceUnit", "ContractDefinition", "FunctionDefinition", "ErrorDefinition", "EventDefinition",
                "StructDefinition", "ModifierDefinition", "VariableDeclaration", "OverrideSpecifier"}
TypeNames == {"UserDefinedTypeName", "FunctionTypeName", "ParameterList", "Mapping", "ArrayTypeName",
              "InheritanceSpecifier", "ModifierInvocation", "InlineAssembly"}
Statements == Compound \union Blocks \union
              {"Statement", "Clause", "EmitStatement", "VariableDeclarationStatement", "RevertStatement"}

Children(n) ==
  LET order == CASE n.kind \in Definitions -> DefinitionOrder(n)
                 [] n.kind \in TypeNames   -> TypeOrder(n)
                 [] n.kind \in Statements  -> StatementOrder(n)
                 [] OTHER                  -> ExpressionOrder(n)
  IN  FlattenSeq([i \in DOMAIN order |-> n.slots[order[i]]])
-----------------------------------------------------------------------------
(* What the walk keeps.  A scope knows its parent by its place in scopes, and  *)
(* 0 stands for no scope, no step and no contract.  panic tells that an        *)
(* assertion of the code has failed.                                           *)

NewAnalyzer ==
  [scopes |-> << >>, stack |-> << >>,
   steps |-> << >>, finished |-> << >>, step |-> 0,
   function |-> << >>, functions |-> << >>, contract |-> 0, contracts |-> << >>,
   variables |-> << >>, state_variables |-> << >>, types |-> << >>, bodies |-> << >>,
   private_state_variables |-> << >>, private_functions |-> << >>, immutable_functions |-> << >>,
   declaring |-> "Local", initial |-> FALSE, panic |-> FALSE]

Asserted(a, holds) == [a EXCEPT !.panic = @ \/ ~holds]

(* Scopes *)
CurrentScope(a) == Last(a.stack)

EnterNewScope(a, n) ==
  [a EXCEPT !.scopes = Append(@, [src |-> n.at, parent |-> IF Has(a.stack) THEN Last(a.stack) ELSE 0,
                                  declared |-> << >>, children |-> << >>]),
            !.stack = Append(@, Len(a.scopes) + 1)]

ExitCurrentScope(a, n) ==
  LET closed == CurrentScope(a)
      around == Front(a.stack)
  IN  [Asserted(a, a.scopes[closed].src = n.at) EXCEPT
         !.stack = around,
         !.scopes = IF Has(around) THEN [@ EXCEPT ![Last(around)].children = Append(@, closed)] ELSE @]

RECURSIVE VariablesRecursive(_, _)

VariablesRecursive(scopes, i) ==
  IF i = 0 THEN << >> ELSE scopes[i].declared \o VariablesRecursive(scopes, scopes[i].parent)

(* Contracts, types, functions *)
EnterNewContract(a, n) == [Asserted(a, a.contract = 0) EXCEPT !.contract = n.at]

ExitCurrentContract(a) ==
  [Asserted(a, a.contract # 0) EXCEPT !.contracts = Append(@, a.contract), !.contract = 0]

RecordType(a, n) == [a EXCEPT !.types = Append(@, n.at)]

NewFunction(a, n) ==
  <<[src |-> n.at, contract |-> a.contract, is_modifier |-> n.kind = "ModifierDefinition",
     scope |-> CurrentScope(a), steps |-> << >>]>>

(* A function's label is its name, its visibility and its mutability. *)
CheckVisibilityAndMutability(a, n) ==
  [a EXCEPT !.private_functions = IF n.label[2] \in {"public", "external"} THEN @ ELSE Append(@, n.at),
            !.immutable_functions = IF n.label[3] \in {"view", "pure"} THEN Append(@, n.at) ELSE @]

EnterNewFunction(a, n) ==
  [CheckVisibilityAndMutability(Asserted(a, ~Has(a.function)), n) EXCEPT !.function = NewFunction(a, n)]

EnterNewModifier(a, n) ==
  [Asserted(a, ~Has(a.function) /\ a.contract # 0) EXCEPT !.function = NewFunction(a, n)]

ExitCurrentFunction(a) ==
  [Asserted(a, Has(a.function)) EXCEPT !.functions = @ \o a.function, !.function = << >>]

(* Steps *)
BeginStep(a, src, kind, scope) ==
  LET step == [src |-> src, function |-> a.function[1].src, kind |-> kind, calls |-> 0, scope |-> scope,
               accessible |-> VariablesRecursive(a.scopes, scope),
               declared |-> << >>, updated |-> << >>]
  IN  [a EXCEPT !.steps = Append(@, step), !.step = Len(a.steps) + 1,
                !.function[1].steps = Append(@, Len(a.steps) + 1)]

EndStep(a) == [a EXCEPT !.finished = Append(@, a.step), !.step = 0]

ExitCurrentStatementStep(a, statement) ==
  IF a.step = 0 \/ statement.kind \in Blocks THEN a ELSE EndStep(a)

BuiltIn == {"require", "assert", "keccak256", "sha256", "ripemd160", "ecrecover", "type"}

(* A call's label tells it from a conversion and from a struct's constructor. *)
AddFunctionCall(a, call) ==
  LET callee == call.slots[1][1]
      counts == /\ a.step # 0
                /\ call.label[1] = "FunctionCall"
                /\ a.steps[a.step].kind # "Emit"
                /\ ~(callee.kind = "Identifier" /\ callee.label[1] \in BuiltIn)
  IN  IF counts THEN [a EXCEPT !.steps[a.step].calls = @ + 1] ELSE a
-----------------------------------------------------------------------------
(* Variables.  A declaration's label is its name, "" when it has none, what it *)
(* is ("state", "constant", "immutable", "local"), its visibility and its      *)
(* storage location.                                                           *)

RECURSIVE ContainsUserDefinedType(_)

ContainsUserDefinedType(type) ==
  CASE type.kind = "ArrayTypeName" -> ContainsUserDefinedType(type.slots[1][1])
    [] type.kind = "Mapping" -> \/ ContainsUserDefinedType(type.slots[1][1])
                                \/ ContainsUserDefinedType(type.slots[2][1])
    [] OTHER -> type.kind = "UserDefinedTypeName"

Declares(n) == n.label[1] # "" /\ n.label[2] \notin {"constant", "immutable"}

Initialized(a, n) ==
  \/ n.label[2] = "state" \/ a.declaring = "Param"
  \/ n.label[4] \in {"default", "memory"} \/ a.initial

CheckStateVariableVisibility(a, n) ==
  IF n.label[2] # "state" \/ n.label[3] = "public" \/ ContainsUserDefinedType(n.slots[1][1]) THEN a
  ELSE [a EXCEPT !.private_state_variables = Append(@, n.at)]

(* name is what references to the variable give. *)
DeclareVariable(a, n) ==
  IF ~Declares(n) THEN a
  ELSE LET v == [id |-> n.at, name |-> n.label[1], initialized |-> Initialized(a, n),
                 kind |-> IF n.label[2] = "state" THEN "State" ELSE a.declaring,
                 function |-> IF Has(a.function) THEN a.function[1].src ELSE 0, contract |-> a.contract]
       IN  [CheckStateVariableVisibility(a, n) EXCEPT
              !.state_variables = IF v.kind = "State" THEN Append(@, v.id) ELSE @,
              !.scopes[CurrentScope(a)].declared = Append(@, v.id),
              !.variables = Append(@, v),
              !.steps = IF a.step = 0 THEN @ ELSE [@ EXCEPT ![a.step].declared = Append(@, v.id)]]

RecordDeclaredVariable(a, n) ==
  IF a.step = 0 \/ n.label[1] = "" THEN a
  ELSE LET known == SelectSeq(a.variables, LAMBDA v : v.id = n.at)
       IN  IF ~Has(known) THEN Asserted(a, FALSE)
           ELSE IF known[1].initialized THEN [a EXCEPT !.steps[a.step].updated = Append(@, n.at)] ELSE a

(* The variable an expression is a part of: none if none is declared by now,   *)
(* and 0 where the code says unreachable.                                      *)
RECURSIVE GetVariable(_, _)

GetVariable(a, e) ==
  CASE e.kind = "Identifier" ->
         LET known == SelectSeq(a.variables, LAMBDA v : v.name = e.label[1])
         IN  IF Has(known) THEN <<known[1].id>> ELSE << >>
    [] e.kind = "IndexAccess" -> IF Has(e.slots[2]) THEN GetVariable(a, e.slots[1][1]) ELSE << >>
    [] e.kind \in {"IndexRangeAccess", "MemberAccess"} -> GetVariable(a, e.slots[1][1])
    [] e.kind = "TupleExpression" -> <<0>>
    [] OTHER -> << >>

RecordAssignment(a, n) ==
  LET lhs == n.slots[1][1]
      targets == IF lhs.kind = "TupleExpression" THEN lhs.slots[1] ELSE <<lhs>>
      updated == FlattenSeq([i \in DOMAIN targets |-> GetVariable(a, targets[i])])
      b == Asserted(a, 0 \notin Range(updated))
  IN  IF a.step = 0 THEN b ELSE [b EXCEPT !.steps[a.step].updated = @ \o updated]

CollectStatementBodies(a, body) ==
  IF body.kind # "Statement" \/ Inner(body).kind \in Blocks THEN a
  ELSE [a EXCEPT !.bodies = Append(@, Inner(body).at)]
-----------------------------------------------------------------------------
(* The walk.  The analyzer itself takes over the walk of what it cuts into     *)
(* steps: the header of a function or of a compound statement goes to the      *)
(* walker of a single step, and only then the statements inside to the         *)
(* analyzer.                                                                   *)

RECURSIVE Walk(_, _, _)

WalkAll(a, nodes, walker) == FoldLeft(LAMBDA b, n : Walk(n, walker, b), a, nodes)

StepKind(statement) ==
  CASE statement.kind = "EmitStatement" -> "Emit"
    [] statement.kind = "Return"        -> "Return"
    [] OTHER                            -> "Other"

Header(s) ==
  CASE s.kind = "ForStatement"     -> s.slots[1] \o s.slots[2] \o s.slots[3]
    [] s.kind = "DoWhileStatement" -> s.slots[2]
    [] OTHER                       -> s.slots[1]

Bodies(s) ==
  CASE s.kind = "ForStatement"     -> s.slots[4]
    [] s.kind = "DoWhileStatement" -> s.slots[1]
    [] s.kind = "IfStatement"      -> s.slots[2] \o s.slots[3]
    [] s.kind = "TryStatement"     -> [i \in DOMAIN s.slots[2] |-> s.slots[2][i].slots[2][1]]
    [] s.kind = "WhileStatement"   -> s.slots[2]

(* The step of a do-while statement is what comes after its body. *)
StepStart(s) == IF s.kind = "DoWhileStatement" THEN s.slots[1][1].end + 1 ELSE s.at

(* As if the scope of a for statement began after its header. *)
EnterCompoundStepLateScope(a, s) ==
  LET header == WalkAll(BeginStep(a, StepStart(s), "Other", CurrentScope(a)), Header(s), "step")
      inside == IF s.kind = "ForStatement" THEN EnterNewScope(header, s) ELSE header
      collected == IF s.kind \in {"ForStatement", "IfStatement", "WhileStatement"}
                   THEN FoldLeft(CollectStatementBodies, inside, Bodies(s)) ELSE inside
      walked == WalkAll(ExitCurrentStatementStep(collected, s), Bodies(s), "analyzer")
  IN  IF s.kind = "ForStatement" THEN ExitCurrentScope(walked, s) ELSE walked

EnterCompoundStep(a, s) ==
  LET inside == IF s.kind = "ForStatement" THEN EnterNewScope(a, s) ELSE a
      header == WalkAll(BeginStep(inside, StepStart(s), "Other", CurrentScope(a)), Header(s), "step")
      collected == IF s.kind \in {"ForStatement", "IfStatement", "WhileStatement"}
                   THEN FoldLeft(CollectStatementBodies, header, Bodies(s)) ELSE header
      walked == WalkAll(ExitCurrentStatementStep(collected, s), Bodies(s), "analyzer")
  IN  IF s.kind = "ForStatement" THEN ExitCurrentScope(walked, s) ELSE walked

EnterNewStatementStep(a, s) ==
  LET b == Asserted(a, a.step = 0 /\ Has(a.function))
  IN  CASE b.panic -> b
        [] s.kind \in Blocks \union {"PlaceholderStatement"} -> b
        [] s.kind \in Compound -> EnterCompoundStep(b, s)
        [] OTHER -> BeginStep(b, s.at, StepKind(s), CurrentScope(b))

(* The entry step of a function or modifier: parameters and return values are  *)
(* declared in its header, and the statements of its body in the same scope.   *)
EnterEntryStep(a, n, params, returns, body) ==
  IF ~Has(body) THEN a
  ELSE LET entry == BeginStep(Asserted(a, a.step = 0), n.at, "Entry", CurrentScope(a))
           withParams == WalkAll([entry EXCEPT !.declaring = "Param"], params, "step")
           withReturns == WalkAll([withParams EXCEPT !.declaring = "Return"], returns, "step")
       IN  WalkAll(EndStep([withReturns EXCEPT !.declaring = "Local"]), body[1].slots[1], "analyzer")

EnterNewFunctionStep(a, n) == EnterEntryStep(a, n, n.slots[1], n.slots[4], n.slots[5])
EnterNewModifierStep(a, n) == EnterEntryStep(a, n, n.slots[1], << >>, n.slots[3])

Visit(n, a) ==
  CASE n.kind \in Blocks \union {"SourceUnit"}    -> EnterNewScope(a, n)
    [] n.kind = "ContractDefinition"              -> EnterNewContract(EnterNewScope(RecordType(a, n), n), n)
    [] n.kind \in {"UserDefinedValueTypeDefinition", "StructDefinition", "EnumDefinition"} -> RecordType(a, n)
    [] n.kind = "FunctionDefinition" -> EnterNewFunctionStep(EnterNewFunction(EnterNewScope(a, n), n), n)
    [] n.kind = "ModifierDefinition" -> EnterNewModifierStep(EnterNewModifier(EnterNewScope(a, n), n), n)
    [] n.kind = "Statement"                       -> EnterNewStatementStep(a, Inner(n))
    [] n.kind = "FunctionCall"                    -> AddFunctionCall(a, n)
    [] n.kind = "VariableDeclaration"             -> RecordDeclaredVariable(DeclareVariable(a, n), n)
    [] n.kind = "Assignment"                      -> RecordAssignment(a, n)
    [] n.kind = "VariableDeclarationStatement"    -> [a EXCEPT !.initial = Has(n.slots[2])]
    [] OTHER                                      -> a

SkipsSubtree(n) ==
  \/ n.kind \in {"StructDefinition", "EnumDefinition", "EventDefinition", "ErrorDefinition",
                 "FunctionDefinition", "ModifierDefinition"}
  \/ n.kind = "Statement" /\ Inner(n).kind \in Compound

PostVisit(n, a) ==
  CASE n.kind = "SourceUnit"                      -> Asserted(a, Len(a.stack) = 1 /\ a.step = 0)
    [] n.kind \in Blocks                          -> ExitCurrentScope(a, n)
    [] n.kind = "ContractDefinition"              -> ExitCurrentContract(ExitCurrentScope(a, n))
    [] n.kind \in {"FunctionDefinition", "ModifierDefinition"} -> ExitCurrentFunction(ExitCurrentScope(a, n))
    [] n.kind = "Statement"                       -> ExitCurrentStatementStep(a, Inner(n))
    [] n.kind = "VariableDeclarationStatement"    -> [a EXCEPT !.initial = FALSE]
    [] OTHER                                      -> a

(* A header holds expressions and declarations only. *)
VisitInStep(n, a) ==
  CASE n.kind = "FunctionCall"        -> AddFunctionCall(a, n)
    [] n.kind = "VariableDeclaration" -> RecordDeclaredVariable(DeclareVariable(a, n), n)
    [] OTHER                          -> a

(* Every other visit of the trait goes on, and does nothing afterwards. *)
Walk(n, walker, a) ==
  IF a.panic THEN a
  ELSE IF walker = "step" THEN WalkAll(VisitInStep(n, a), Children(n), walker)
  ELSE LET visited == Visit(n, a)
           inside == IF SkipsSubtree(n) THEN visited ELSE WalkAll(visited, Children(n), walker)
       IN  IF inside.panic THEN inside ELSE PostVisit(n, inside)
-----------------------------------------------------------------------------
(* The results: the steps from the last of the source to the first, and the    *)
(* tables by identifier.                                                       *)

Ended(a) == Asserted(a, Len(a.stack) = 1 /\ a.step = 0)
AnalyzeUnit(unit) == Ended(Walk(unit, "analyzer", NewAnalyzer))

RECURSIVE VariableTable(_, _)

VariableTable(scopes, i) ==
  Range(scopes[i].declared) \union UNION {VariableTable(scopes, c) : c \in Range(scopes[i].children)}

Results(a) ==
  LET steps == [i \in DOMAIN a.finished |-> a.steps[a.finished[i]]]
  IN  [panic     |-> a.panic,
       steps     |-> SortSeq(steps, LAMBDA s, t : s.src > t.src),
       functions |-> a.functions, contracts |-> a.contracts, types |-> a.types, bodies |-> a.bodies,
       variables |-> VariableTable(a.scopes, a.stack[1]),
       private_state_variables |-> a.private_state_variables,
       private_functions |-> a.private_functions, immutable_functions |-> a.immutable_functions]

Analyze(tree) == Results(AnalyzeUnit(Located(tree, 1)))
=============================================================================
