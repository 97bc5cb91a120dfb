------------------------------ MODULE Evaluator ------------------------------
(***************************************************************************)
(* Evaluation of a Solidity-like expression at a snapshot                  *)
(* (crates/engine/src/eval/: the evaluator and its EDB handlers), and the  *)
(* questions about storage and interfaces, over a context that was built.  *)
(*                                                                         *)
(* An expression is a tuple that starts with its form: number, string,     *)
(* bool, hex, array, list, variable, member, index, slice, call, binary,   *)
(* unary, conditional, type, and unparsable or unsupported for the rest.   *)
(***************************************************************************)
EXTENDS EngineContext

CONSTANTS Expressions, BlockNumber, BlockTimestamp

VARIABLES question, answer

sessionVars == <<readiness, firstSnapshot, stateVariables, hashOrder, question, answer>>

AskedSnapshots == 1..Len(Taken) + 1    \* the last is out of bounds
SnapshotExists(s) == s \in Snapshots

(* The first result that is not Ok, or Ok of all the values. *)
Collected(results) ==
  LET bad == SelectSeq(results, LAMBDA r : ~IsOk(r))
  IN  IF bad = << >> THEN Ok([i \in DOMAIN results |-> results[i][2]]) ELSE bad[1]

-----------------------------------------------------------------------------
(* Handlers                                                                *)

(* Stands for "edb_eval_placeholder", a text that no variable holds. *)
Magic == <<-1>>

(* What stands for a state variable that needs indices: its getter, as a tuple of two strings. *)
FromAbiInfo(entry) == Tuple(<<Str(Magic), Str(entry)>>)
IntoAbiInfo(v) ==
  IF Kind(v) = "tuple" /\ Len(v[2]) = 2 /\ v[2][1] = Str(Magic) /\ Kind(v[2][2]) = "string"
  THEN <<v[2][2][2]>> ELSE << >>

GetVariableValue(name, s) ==
  IF ~SnapshotExists(s) THEN Err
  ELSE IF name = "this" THEN Ok(Address(TargetOf(s)))
  ELSE IF IsOpcode(s) THEN Err
  ELSE LET local == Lookup(LocalsOf(s), name)
           found == IF local # << >> THEN local ELSE Lookup(stateVariables[s], name)
           getters == SelectSeq(CallableAbiEntries(BytecodeAddress(s)),
                                LAMBDA e : e[1] = name /\ IsStateVariable(e))
       IN  IF found # << >> /\ found[1] # << >> THEN Ok(found[1][1])
           ELSE IF getters # << >> THEN Ok(FromAbiInfo(getters[1])) ELSE Err

RECURSIVE GetMappingOrArrayValue(_, _, _)
GetMappingOrArrayValue(root, indices, s) ==
  IF IntoAbiInfo(root) # << >>
  THEN IF SnapshotExists(s) THEN CallInDerivedEvm(s, TargetOf(s), IntoAbiInfo(root)[1], indices) ELSE Err
  ELSE IF indices = << >> THEN Ok(root)
  ELSE IF Kind(root) \notin {"tuple", "array"} \/ Kind(indices[1]) # "uint" THEN Err
  ELSE IF indices[1][2] > UsizeMax THEN Panic
  ELSE IF indices[1][2] >= Len(root[2]) THEN Err
  ELSE GetMappingOrArrayValue(root[2][indices[1][2] + 1], Tail(indices), s)

(* The part of a buffer from off on, sz long; their sum wraps at a usize. *)
Window(buffer, off, sz) ==
  IF Kind(off) # "uint" \/ Kind(sz) # "uint" THEN Err
  ELSE IF off[2] > UsizeMax \/ sz[2] > UsizeMax THEN Panic
  ELSE LET end == (off[2] + sz[2]) % (UsizeMax + 1)
       IN  IF end > Len(buffer) THEN Err
           ELSE IF off[2] > end THEN Panic
           ELSE Ok(Bytes(SubSeq(buffer, off[2] + 1, end)))

(* Storage as far as the snapshot has cached it: a slot that was not loaded reads as zero. *)
EdbSload(s, address, slot) ==
  IF Kind(address) # "address" \/ Kind(slot) # "uint" \/ Account(s, address[2]) = << >> THEN Err
  ELSE LET known == {i \in Slots : At(Account(s, address[2])[1], i) # << >>}
       IN  Ok(Uint(IF slot[2] \in known THEN At(Account(s, address[2])[1], slot[2])[1] ELSE 0, WordBits))

EdbStack(s, index) ==
  LET stack == Taken[s][4] IN
  IF ~IsOpcode(s) \/ Kind(index) # "uint" THEN Err
  ELSE IF index[2] > UsizeMax THEN Panic
  ELSE IF index[2] >= Len(stack) THEN Err
  ELSE Ok(Uint(stack[Len(stack) - index[2]], WordBits))

EdbTsload(s, address, slot) ==
  IF ~IsOpcode(s) \/ Kind(address) # "address" \/ Kind(slot) # "uint" THEN Err
  ELSE LET found == Lookup(Taken[s][6], <<address[2], slot[2]>>)
       IN  Ok(Uint(IF found = << >> THEN 0 ELSE found[1], WordBits))

EdbMemory(s, off, sz) == IF IsOpcode(s) THEN Window(Taken[s][5], off, sz) ELSE Err
EdbCalldata(s, off, sz) == Window(Trace[EntryOf(s)][5], off, sz)

(* Some function of the bytes; the bytes of a bytesN are its first N. *)
Hash(b) == ZeroPad(<<(1 + FoldLeft(LAMBDA x, y : x + y, Len(b), b)) % 2 ^ ByteBits>>)
EdbKeccak256(v) ==
  CASE Kind(v) = "bytes" -> Ok(Bytes(Hash(v[2])))
    [] Kind(v) = "fixed" -> Ok(Bytes(Hash(Prefix(v[2], v[3]))))
    [] OTHER             -> Err

IsPseudoFunction(name, args) ==
  \/ name \in {"edb_sload", "edb_tsload", "edb_memory", "edb_calldata"} /\ Len(args) = 2
  \/ name \in {"edb_stack", "keccak256"} /\ Len(args) = 1
  \/ name = "edb_help" /\ Len(args) = 0

PseudoFunction(name, args, s) ==
  CASE name = "edb_sload"    -> EdbSload(s, args[1], args[2])
    [] name = "edb_tsload"   -> EdbTsload(s, args[1], args[2])
    [] name = "edb_memory"   -> EdbMemory(s, args[1], args[2])
    [] name = "edb_calldata" -> EdbCalldata(s, args[1], args[2])
    [] name = "edb_stack"    -> EdbStack(s, args[1])
    [] name = "keccak256"    -> EdbKeccak256(args[1])
    [] name = "edb_help"     -> Ok(Str(<<0>>))

ListedEntries(to) ==
  FlattenSeq([i \in DOMAIN AddressCandidates(to) |-> CallableAbiEntries(AddressCandidates(to)[i])])

(* The answer of the first entry that can be called. *)
FirstSuccess(s, to, args, entries) ==
  LET results == [i \in DOMAIN entries |-> CallInDerivedEvm(s, to, entries[i], args)]
      good == SelectSeq(results, IsOk)
  IN  IF good = << >> THEN Err ELSE good[1]

CallFunction(name, args, callee, s) ==
  LET to == IF callee = << >> THEN TargetOf(s) ELSE callee[1][2]
  IN
  IF ~SnapshotExists(s) THEN Err
  ELSE IF IsPseudoFunction(name, args) THEN PseudoFunction(name, args, s)
  ELSE IF callee # << >> /\ Kind(callee[1]) # "address" THEN Err
  ELSE FirstSuccess(s, to, args,
                    SelectSeq(ListedEntries(to), LAMBDA e : e[1] = name /\ Len(e[3]) = Len(args)))

AccessMember(v, member, s) ==
  IF Kind(v) # "address" \/ ~SnapshotExists(s) THEN Err
  ELSE FirstSuccess(s, v[2], << >>,
         SelectSeq(ListedEntries(v[2]), LAMBDA e : e[1] = member /\ IsStateVariable(e) /\ e[3] = << >>))

(* msg comes from the call of the snapshot, tx from the first call, block from the fork. *)
GlobalMembers == {<<"msg", "sender">>, <<"msg", "value">>, <<"tx", "origin">>,
                  <<"block", "number">>, <<"block", "timestamp">>}

IsGlobal(base, member) == base[1] = "variable" /\ <<base[2], member>> \in GlobalMembers

GlobalMember(base, member, s) ==
  CASE base = "tx"                                -> Ok(Address(Trace[1][3]))
    [] base = "block" /\ member = "number"        -> Ok(Uint(BlockNumber, WordBits))
    [] base = "block" /\ member = "timestamp"     -> Ok(Uint(BlockTimestamp, WordBits))
    [] base = "msg" /\ ~SnapshotExists(s)         -> Err
    [] base = "msg" /\ member = "sender"          -> Ok(Address(Trace[EntryOf(s)][3]))
    [] base = "msg" /\ member = "value"           -> Ok(Uint(Trace[EntryOf(s)][4], WordBits))

ValidateValue(v) == IF IntoAbiInfo(v) # << >> THEN Err ELSE Ok(v)

-----------------------------------------------------------------------------
(* The evaluator                                                           *)

(* The exponent of a number is not looked at; a unit is refused. *)
NumberLiteral(value, unit) == IF unit = "" /\ value <= MaxWord THEN Ok(Uint(value, WordBits)) ELSE Err

MemberOf(base, member, s) ==
  LET builtin == HandleBuiltinProperty(base, member) IN
  IF builtin # NoBuiltin THEN builtin
  ELSE IF Kind(base) = "struct"
       THEN IF member \in Range(base[2]) THEN Ok(base[3][CHOOSE i \in DOMAIN base[2] : base[2][i] = member])
                                         ELSE Err
  ELSE AccessMember(base, member, s)

(* a[i][j] as its root a and its indices i, j, from the outside in. *)
RECURSIVE AccessChain(_, _)
AccessChain(e, indices) ==
  IF e[1] = "index" /\ e[3] # << >> THEN AccessChain(e[2], e[3] \o indices) ELSE <<e, indices>>

SliceBound(bound, default) ==
  IF bound = << >> THEN Ok(default)
  ELSE IF Kind(bound[1]) # "uint" THEN Err
  ELSE IF bound[1][2] > UsizeMax THEN Panic
  ELSE Ok(bound[1][2])

ArraySlice(v, start, end) ==
  IF Kind(v) # "array" THEN Err
  ELSE LET first == SliceBound(start, 0) last == SliceBound(end, Len(v[2])) IN
       IF ~IsOk(first) THEN first
       ELSE IF ~IsOk(last) THEN last
       ELSE IF first[2] > last[2] \/ last[2] > Len(v[2]) THEN Err
       ELSE Ok(Array(SubSeq(v[2], first[2] + 1, last[2])))

ApplyBinary(op, l, r) ==
  CASE op \in ArithmeticOps -> ApplyArithmeticOp(l, r, op)
    [] op \in BitwiseOps    -> ApplyBitwiseOp(l, r, op)
    [] op \in ComparisonOps -> ApplyComparisonOp(l, r, op)

ApplyUnary(op, v) ==
  CASE op = "~" -> BitwiseNot(v)
    [] op = "!" -> LogicalNot(v)
    [] op = "-" -> UnaryMinus(v)
    [] op = "+" -> Ok(v)

(* The expressions an expression is computed from, in the order the code evaluates them.  To   *)
(* evaluate one changes nothing, so those that are not reached may be evaluated as well.       *)
Operands(e) ==
  CASE e[1] = "member" -> IF IsGlobal(e[2], e[3]) THEN << >> ELSE <<e[2]>>
    [] e[1] = "index"  -> IF e[3] = << >> THEN << >>
                          ELSE LET chain == AccessChain(e[2], e[3]) IN <<chain[1]>> \o chain[2]
    [] e[1] = "call"   -> e[3] \o (IF e[2][1] = "member" THEN <<e[2][2]>> ELSE << >>)
    [] e[1] = "binary" -> <<e[3], e[4]>>
    [] e[1] = "unary"  -> <<e[3]>>
    [] e[1] = "conditional"       -> <<e[2], e[3], e[4]>>
    [] e[1] = "slice"             -> <<e[2]>> \o e[3] \o e[4]
    [] e[1] \in {"array", "list"} -> e[2]
    [] OTHER                      -> << >>

Literal(e, s) ==
  CASE e[1] = "number"   -> NumberLiteral(e[2], e[4])
    [] e[1] = "string"   -> Ok(Str(e[2]))
    [] e[1] = "hex"      -> Ok(Bytes(e[2]))
    [] e[1] = "bool"     -> Ok(Bool(e[2]))
    [] e[1] = "variable" -> IF e[2] \in {"msg", "tx", "block"} THEN Err ELSE GetVariableValue(e[2], s)
    [] e[1] = "member"   -> GlobalMember(e[2][2], e[3], s)
    [] OTHER             -> Err

(* The right operand is looked at only when the left one does not decide. *)
EvaluateLogical(op, l, r) ==
  IF ~IsOk(l) THEN l
  ELSE IF ToBool(l[2]) = << >> THEN Err
  ELSE IF ToBool(l[2])[1] = (op = "||") THEN Ok(Bool(op = "||"))
  ELSE IF ~IsOk(r) THEN r
  ELSE IF ToBool(r[2]) = << >> THEN Err ELSE Ok(Bool(ToBool(r[2])[1]))

EvaluateConditional(condition, whenTrue, whenFalse) ==
  IF ~IsOk(condition) THEN condition
  ELSE IF ToBool(condition[2]) = << >> THEN Err
  ELSE IF ToBool(condition[2])[1] THEN whenTrue ELSE whenFalse

(* Of a method call the callee is the last of vs. *)
EvaluateFunctionCall(func, vs, s) ==
  CASE func[1] = "variable" -> CallFunction(func[2], vs, << >>, s)
    [] func[1] = "member" ->
         LET builtin == HandleBuiltinMemberCall(func[3], Last(vs), Front(vs))
         IN  IF builtin # NoBuiltin THEN builtin
             ELSE CallFunction(func[3], Front(vs), <<Last(vs)>>, s)
    [] func[1] = "type" /\ Len(vs) = 1 -> EvaluateTypeCasting(func[2], vs[1])
    [] OTHER -> Err

Computed(e, vs, s) ==
  CASE e[1] = "member" -> MemberOf(vs[1], e[3], s)
    [] e[1] = "index"  -> GetMappingOrArrayValue(vs[1], Tail(vs), s)
    [] e[1] = "call"   -> EvaluateFunctionCall(e[2], vs, s)
    [] e[1] = "binary" -> ApplyBinary(e[2], vs[1], vs[2])
    [] e[1] = "unary"  -> ApplyUnary(e[2], vs[1])
    [] e[1] = "slice"  -> ArraySlice(vs[1], SubSeq(vs, 2, 1 + Len(e[3])), SubSeq(vs, 2 + Len(e[3]), Len(vs)))
    [] e[1] = "array"  -> Ok(Array(vs))
    [] e[1] = "list"   -> Ok(Tuple(vs))

Strictly(e, all, s) == IF IsOk(all) THEN Computed(e, all[2], s) ELSE all

EvaluateFrom(e, results, s) ==
  CASE e[1] = "binary" /\ e[2] \in {"&&", "||"} -> EvaluateLogical(e[2], results[1], results[2])
    [] e[1] = "conditional" -> EvaluateConditional(results[1], results[2], results[3])
    [] results = << >> /\ e[1] \notin {"call", "array", "list"} -> Literal(e, s)
    [] OTHER -> Strictly(e, Collected(results), s)

RECURSIVE Evaluate(_, _)
Evaluate(e, s) == EvaluateFrom(e, [i \in DOMAIN Operands(e) |-> Evaluate(Operands(e)[i], s)], s)

Eval(e, s) ==
  LET v == Evaluate(e, s) IN IF IsOk(v) THEN ValidateValue(v[2]) ELSE v

-----------------------------------------------------------------------------
SessionInit ==
  /\ ContextInit
  /\ question = <<"none">>
  /\ answer = Err

EvalOnSnapshot(e, s) ==
  /\ question' = <<"eval", e, s>>
  /\ answer' = Eval(e, s)

AskStorage(s, slot) ==
  /\ question' = <<"storage", s, slot>>
  /\ answer' = IF SnapshotExists(s) THEN Ok(Uint(GetStorage(s, slot), WordBits)) ELSE Err

AskStorageDiff(s) ==
  /\ question' = <<"diff", s>>
  /\ answer' = IF SnapshotExists(s) THEN <<"ok", GetStorageDiff(s)>> ELSE Err

AskCallableAbi(a) ==
  /\ question' = <<"abi", a>>
  /\ answer' = <<"ok", GetCallableAbi(a)>>

(* Answering changes nothing of the context, so one question of a session stands for all. *)
Asked ==
  /\ readiness = "ready"
  /\ question = <<"none">>
  /\ \/ \E e \in Expressions, s \in AskedSnapshots : EvalOnSnapshot(e, s)
     \/ \E s \in AskedSnapshots, slot \in Slots : AskStorage(s, slot)
     \/ \E s \in AskedSnapshots : AskStorageDiff(s)
     \/ \E a \in Addresses : AskCallableAbi(a)
  /\ UNCHANGED contextVars

Finalize == (FinalizeTrace \/ FinalizeSnapshots) /\ UNCHANGED <<question, answer>>

SessionNext == Finalize \/ Asked

SessionSpec == SessionInit /\ [][SessionNext]_sessionVars
=============================================================================
