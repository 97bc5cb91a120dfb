--------------------------- MODULE Instrumentation ---------------------------
(* How edb makes a contract's source report where it is and what its variables *)
(* hold: the analysis that cuts a function into steps (analysis/), and the     *)
(* text it adds at positions of the source (instrumentation/).  A source is a  *)
(* sequence of tokens, and a position an index of one.                         *)
(*                                                                             *)
(* A statement is <<"set", x>>, <<"decl", x>>, <<"inc", x>>, <<"break">>,      *)
(* <<"continue">>, <<"return">>, <<"call">>, <<"if", s>>, <<"if", s, s>>,      *)
(* <<"while", s>>, <<"for", x, s>>, <<"do", block>>, <<"try", block, ...>> or  *)
(* <<"block", s, ...>>; a function is <<parameters, block>>.                   *)
EXTENDS Integers, Sequences, FiniteSets, SequencesExt

CONSTANTS
  Unencodable    \* names of state and storage variables, of mappings and functions

Simple == {"set", "decl", "inc", "break", "continue", "return", "call"}
Named == {"set", "decl", "inc", "for"}
-----------------------------------------------------------------------------
(* The compiler's syntax tree: a node has the range of its source, from start  *)
(* up to end, which leaves out the semicolon of a simple statement; next is    *)
(* where the tokens after it may begin.  gap is 1 where the author puts white  *)
(* space between tokens, and 0 where not.                                      *)

RECURSIVE Placed(_, _, _), PlacedAll(_, _, _, _)

PlacedAll(ss, at, between, gap) ==
  IF ss = << >> THEN << >>
  ELSE LET first == Placed(Head(ss), at, gap)
       IN  <<first>> \o PlacedAll(Tail(ss), first.next + between, between, gap)

Placed(s, at, gap) ==
  LET sub == IF s[1] \in Simple THEN << >> ELSE IF s[1] = "for" THEN <<s[3]>> ELSE Tail(s)
      parts == PlacedAll(sub, at + 1 + gap, IF s[1] \in {"if", "try"} THEN 2 * gap + 1 ELSE gap, gap)
      behind == IF parts = << >> THEN at + 1 ELSE Last(parts).next
      end == CASE s[1] = "block" -> behind + gap + 1
               [] s[1] = "do"    -> behind + gap + 2
               [] OTHER          -> behind
  IN  [is    |-> s[1],
       name  |-> IF s[1] \in Named THEN s[2] ELSE "",
       start |-> at,
       end   |-> end,
       next  |-> IF s[1] \in Simple THEN end + 1 ELSE end,
       parts |-> parts]

RECURSIVE TokensOf(_, _)

(* The tokens of a node, with their positions; that of a statement names it. *)
TokensOf(n, gap) ==
  UNION {TokensOf(n.parts[i], gap) : i \in DOMAIN n.parts} \union
  CASE n.is \in Simple -> {<<n.start, <<n.is, n.name, n.start>>>>, <<n.end, <<";">>>>}
    [] n.is = "block"  -> {<<n.start, <<"{">>>>, <<n.end - 1, <<"}">>>>}
    [] n.is = "do"     -> {<<n.start, <<"do">>>>, <<n.end - 2, <<"until", "", n.end - 2>>>>,
                           <<n.end - 1, <<";">>>>}
    [] OTHER -> {<<n.start, <<n.is, n.name, n.start>>>>} \union
                {<<n.parts[i].start - 1 - gap, <<"else">>>> : i \in DOMAIN n.parts \ {1}}

BodyOf(f, gap) == Placed(f[2], 1 + gap, gap)

Source(f, gap) ==
  LET body == BodyOf(f, gap)
      tokens == TokensOf(body, gap)
      At(i) == {t[2] : t \in {u \in tokens : u[1] = i}}
  IN  [i \in 0..(body.end - 1) |->
         IF i = 0 THEN <<"function">>
         ELSE IF At(i) = {} THEN <<" ">> ELSE CHOOSE t \in At(i) : TRUE]
-----------------------------------------------------------------------------
(* Positions                                                                   *)

ExpandToNextSemicolon(n) == n.end + 1

RECURSIVE StatementEnd(_)

StatementEnd(n) ==
  CASE n.is \in Simple                  -> ExpandToNextSemicolon(n)
    [] n.is \in {"if", "while", "for"}  -> StatementEnd(Last(n.parts))
    [] OTHER                            -> n.end

FirstStatementIn(n) ==
  IF n.is # "block" THEN n.start
  ELSE IF n.parts = << >> THEN n.start + 1 ELSE n.parts[1].start

AfterLastStatementIn(block) ==
  IF block.parts = << >> THEN block.end - 1 ELSE StatementEnd(Last(block.parts))
-----------------------------------------------------------------------------
(* The analysis.  A variable is its name with the position that declares it; a *)
(* chain is the variables of each open scope, innermost first.                 *)

DeclareVariable(chain, v) == <<Append(chain[1], v)>> \o Tail(chain)
VariablesRecursive(chain) == FlattenSeq(chain)

(* The compiler's referenced_declaration. *)
Referenced(chain, x) ==
  LET found == SelectSeq(VariablesRecursive(chain), LAMBDA v : v[1] = x)
  IN  IF found = << >> THEN << >> ELSE <<found[1]>>

Step(usid, entry, before, after, updated, chain) ==
  [usid |-> usid, entry |-> entry, before |-> before, after |-> after,
   updated |-> updated, accessible |-> VariablesRecursive(chain)]

CollectTrueBody(parts) ==
  IF parts[1].is = "block" THEN << >> ELSE <<<<parts[1].start, StatementEnd(parts[1])>>>>

(* Bodies that are a statement without braces. *)
CollectStatementBodies(parts) ==
  LET bare == SelectSeq(parts, LAMBDA p : p.is # "block")
  IN  [i \in DOMAIN bare |-> <<bare[i].start, StatementEnd(bare[i])>>]

SimpleStepInFront(n, chain) ==
  IF n.is = "set" THEN Step(n.start, FALSE, n.start, <<n.start>>, Referenced(chain, n.name), chain)
  ELSE Step(n.start, FALSE, n.start, <<ExpandToNextSemicolon(n)>>,
            IF n.is = "decl" THEN <<<<n.name, n.start>>>> ELSE << >>, chain)

SimpleStep(n, chain) ==
  LET updated == CASE n.is = "decl" -> <<<<n.name, n.start>>>>
                   [] n.is = "set"  -> Referenced(chain, n.name)
                   [] OTHER         -> << >>
  IN  Step(n.start, FALSE, n.start, <<ExpandToNextSemicolon(n)>>, updated, chain)

HeaderStepInFront(n, chain) ==
  Step(IF n.is = "do" THEN n.end - 2 ELSE n.start, FALSE, n.start,
       [i \in DOMAIN n.parts |-> FirstStatementIn(n.parts[i])],
       IF n.is = "for" THEN <<<<n.name, n.start>>>> ELSE << >>, chain)

(* The step of a control statement is its header. *)
HeaderStep(n, chain) ==
  CASE n.is = "do"  -> Step(n.end - 2, FALSE, AfterLastStatementIn(n.parts[1]), <<n.end>>, << >>, chain)
    [] n.is = "for" -> Step(n.start, FALSE, n.start, <<FirstStatementIn(n.parts[1])>>,
                            <<<<n.name, n.start>>>>, chain)
    [] OTHER        -> Step(n.start, FALSE, n.start,
                            [i \in DOMAIN n.parts |-> FirstStatementIn(n.parts[i])], << >>, chain)

(* The steps and the bare bodies of a node, as they are met. *)
RECURSIVE Walk(_, _), WalkAll(_, _)

WalkAll(ns, chain) ==
  IF ns = << >> THEN [steps |-> << >>, bodies |-> << >>]
  ELSE LET first == Walk(Head(ns), chain)
           rest == WalkAll(Tail(ns), first.chain)
       IN  [steps |-> first.steps \o rest.steps, bodies |-> first.bodies \o rest.bodies]

Walk(n, chain) ==
  IF n.is \in Simple
  THEN [steps |-> <<SimpleStep(n, chain)>>, bodies |-> << >>,
        chain |-> IF n.is = "decl" THEN DeclareVariable(chain, <<n.name, n.start>>) ELSE chain]
  ELSE LET inner == CASE n.is = "block" -> <<<< >>>> \o chain
                      [] n.is = "for"   -> <<<<<<n.name, n.start>>>>>> \o chain
                      [] OTHER          -> chain
           sub == WalkAll(n.parts, inner)
       IN  [steps  |-> (IF n.is = "block" THEN << >> ELSE <<HeaderStep(n, chain)>>) \o sub.steps,
            bodies |-> (IF n.is \in {"if", "while", "for"} THEN CollectStatementBodies(n.parts)
                        ELSE << >>) \o sub.bodies,
            chain  |-> chain]

(* The step of a function is what comes before its body, and its parameters    *)
(* are variables of the function's own scope.                                  *)
Params(f) == [i \in DOMAIN f[1] |-> <<f[1][i], 0>>]

EntryStep(f, body) ==
  LET first == FirstStatementIn(body)
  IN  Step(0, TRUE, first, <<first>>, Params(f), << >>)

AnalyzeInSourceOrder(f, gap) ==
  LET body == BodyOf(f, gap)
      inside == WalkAll(body.parts, <<Params(f)>>)
  IN  [steps |-> <<EntryStep(f, body)>> \o inside.steps, bodies |-> inside.bodies]

(* A step's usid is where its source starts; the last one comes first. *)
Analyze(f, gap) ==
  LET body == BodyOf(f, gap)
      inside == WalkAll(body.parts, <<Params(f)>>)
  IN  [steps  |-> SortSeq(<<EntryStep(f, body)>> \o inside.steps, LAMBDA s, t : s.usid > t.usid),
       bodies |-> inside.bodies]
-----------------------------------------------------------------------------
(* The modifications: contents by position, with the priority of the first     *)
(* that was added there.  The hook of a function's first statement is added    *)
(* before that of its entry and the updates of its parameters, and has the     *)
(* lowest priority: each of these is put in front of what is there.            *)

LEFT_BRACKET == 255
FUNCTION_ENTRY == 191
VARIABLE_UPDATE == 127
BEFORE_STEP == 63
RIGHT_BRACKET == 0

Action(loc, content, priority) == [loc |-> loc, content |-> content, priority |-> priority]

AddModification(modifications, a) ==
  LET there == SelectSeq(modifications, LAMBDA m : m.loc = a.loc)
      others == SelectSeq(modifications, LAMBDA m : m.loc # a.loc)
  IN  IF there = << >> THEN Append(modifications, a)
      ELSE Append(others, [there[1] EXCEPT !.content =
                             IF there[1].priority >= a.priority THEN @ \o a.content ELSE a.content \o @])

StatementToBlock(analysis) ==
  FlattenSeq([i \in DOMAIN analysis.bodies |->
     <<Action(analysis.bodies[i][1], <<<<"{">>>>, LEFT_BRACKET),
       Action(analysis.bodies[i][2], <<<<"}">>>>, RIGHT_BRACKET)>>])

BeforeStepHooks(analysis) ==
  [i \in DOMAIN analysis.steps |->
     LET s == analysis.steps[i]
     IN  Action(s.before, <<<<"hook", s.usid>>>>, IF s.entry THEN FUNCTION_ENTRY ELSE BEFORE_STEP)]

GenerateVariableUpdateHook(v) == IF v[1] \in Unencodable THEN << >> ELSE <<<<"update", v>>>>

VariableUpdateHooks(analysis) ==
  FlattenSeq([i \in DOMAIN analysis.steps |->
    LET s == analysis.steps[i] IN
    FlattenSeq([k \in DOMAIN s.after |->
      [j \in DOMAIN s.updated |->
         Action(s.after[k], GenerateVariableUpdateHook(s.updated[j]), VARIABLE_UPDATE)]])])

CollectModifications(analysis) ==
  FoldLeft(AddModification, << >>,
           StatementToBlock(analysis) \o BeforeStepHooks(analysis) \o VariableUpdateHooks(analysis))

(* The source with every content put before the token of its position. *)
ModifySource(source, modifications) ==
  LET Added(i) == LET there == SelectSeq(modifications, LAMBDA m : m.loc = i)
                  IN  IF there = << >> THEN << >> ELSE there[1].content
  IN  FlattenSeq([i \in 1..Cardinality(DOMAIN source) |-> Append(Added(i - 1), source[i - 1])])

Instrument(f, gap) == ModifySource(Source(f, gap), CollectModifications(Analyze(f, gap)))
=============================================================================
