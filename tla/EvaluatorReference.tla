-------------------------- MODULE EvaluatorReference --------------------------
(***************************************************************************)
(* What the answers of the evaluator are held against: Solidity's own      *)
(* semantics of operators and casts, on integers, and the storage of the   *)
(* contract the debugger stands in.                                        *)
(***************************************************************************)
EXTENDS Evaluator

ToInteger(v) == IF Kind(v) = "int" THEN Signed(v[2]) ELSE v[2]
Number(kind, i, bits) == IF kind = "int" THEN SInt(i % Modulus, bits) ELSE Uint(i, bits)
InRange(kind, bits) == IF kind = "int" THEN -(2 ^ (bits - 1)) .. 2 ^ (bits - 1) - 1 ELSE 0 .. 2 ^ bits - 1
IsNumber(v) == Kind(v) \in {"uint", "int"} /\ ToInteger(v) \in InRange(Kind(v), v[3])
BitsOf(n) == {i \in 0..WordBits - 1 : (n \div 2 ^ i) % 2 = 1}

(* Division rounds towards zero: the remainder has the sign of the dividend. *)
IsDivision(l, r, q, rem) ==
  /\ l = q * r + rem /\ Magnitude(rem) < Magnitude(r)
  /\ (rem < 0 => l < 0) /\ (rem > 0 => l > 0)

(* The integers an operation may result in, before the check of the range; none for a division by zero. *)
ExactResults(op, l, r) ==
  CASE op = "+" -> {l + r}
    [] op = "-" -> {l - r}
    [] op = "*" -> {l * r}
    [] op = "/" -> {q \in -MaxWord..MaxWord : \E rem \in -MaxWord..MaxWord : IsDivision(l, r, q, rem)}
    [] op = "%" -> {rem \in -MaxWord..MaxWord : \E q \in -MaxWord..MaxWord : IsDivision(l, r, q, rem)}

(* The values Solidity computes, none where it reverts or does not compile.  Shifts are left *)
(* out: Solidity drops the bits that leave a narrow type, the evaluator keeps them.          *)
SolidityBinary(op, l, r) ==
  CASE op \in {"+", "-", "*", "/", "%"} /\ Kind(l) = Kind(r) /\ IsNumber(l) /\ IsNumber(r) ->
         {Number(Kind(l), i, Larger(l[3], r[3])) :
            i \in ExactResults(op, ToInteger(l), ToInteger(r)) \cap InRange(Kind(l), Larger(l[3], r[3]))}
    [] op \in {"&", "|", "^"} /\ Kind(l) = "uint" /\ Kind(r) = "uint" ->
         {Uint(n, Larger(l[3], r[3])) :
            n \in {m \in 0..MaxWord : BitsOf(m) =
                     CASE op = "&" -> BitsOf(l[2]) \cap BitsOf(r[2])
                       [] op = "|" -> BitsOf(l[2]) \cup BitsOf(r[2])
                       [] op = "^" -> (BitsOf(l[2]) \cup BitsOf(r[2])) \ (BitsOf(l[2]) \cap BitsOf(r[2]))}}
    [] op \in ComparisonOps /\ Kind(l) = Kind(r) /\ IsNumber(l) /\ IsNumber(r) ->
         {Bool(\/ op \in {"<", "<=", "!="} /\ ToInteger(l) < ToInteger(r)
               \/ op \in {"<=", ">=", "=="} /\ ToInteger(l) = ToInteger(r)
               \/ op \in {">", ">=", "!="} /\ ToInteger(l) > ToInteger(r))}
    [] OTHER -> {}

(* Where Solidity reverts: the integer of a word next to the exact one, in a type that may not *)
(* hold it; none for a division by zero, and the quotient of the lowest word by -1 is left out.  *)
NextTo(kind, i) ==
  CHOOSE n \in InRange(kind, WordBits) :
    \A m \in InRange(kind, WordBits) : Magnitude(i - n) <= Magnitude(i - m)

BeyondSolidity(op, l, r) ==
  IF ~(op \in {"+", "-", "*", "/", "%"} /\ Kind(l) = Kind(r) /\ IsNumber(l) /\ IsNumber(r)) THEN {}
  ELSE IF op \in {"/", "%"} /\ r[2] = 0 THEN {Err}
  ELSE {Ok(Number(Kind(l), NextTo(Kind(l), i), Larger(l[3], r[3]))) :
          i \in ExactResults(op, ToInteger(l), ToInteger(r)) \
                  (InRange(Kind(l), Larger(l[3], r[3])) \cup (IF op = "/" THEN {Modulus \div 2} ELSE {}))}

(* The number the first N bytes of a bytesN are. *)
ByteNumber(v) == BytesToWord(Prefix(v[2], v[3]))

(* An integer keeps its value modulo the width of its new type, bytes keep their first ones. *)
SolidityCast(type, v) ==
  CASE \/ type[1] \in {"uint", "int"} /\ Kind(v) = type[1] /\ IsNumber(v)
       \/ type[1] \in {"uint", "int"} /\ Kind(v) \in {"uint", "int"} /\ IsNumber(v) /\ type[2] = v[3] ->
         {Number(type[1], i, type[2]) :
            i \in {j \in InRange(type[1], type[2]) : (j - ToInteger(v)) % 2 ^ type[2] = 0}}
    [] type[1] = "fixed" /\ Kind(v) = "uint" /\ IsNumber(v) /\ v[3] = ByteBits * type[2] ->
         {FixedBytes(b, type[2]) :
            b \in {c \in [1..WordBytes -> 0..2 ^ ByteBits - 1] :
                     ByteNumber(FixedBytes(c, type[2])) = v[2] /\ \A i \in type[2] + 1..WordBytes : c[i] = 0}}
    [] type[1] = "fixed" /\ Kind(v) = "fixed" ->
         {FixedBytes([i \in 1..WordBytes |-> IF i <= Smaller(type[2], v[3]) THEN v[2][i] ELSE 0], type[2])}
    [] OTHER -> {}

(* What Solidity makes of an expression whose operands have these values. *)
SolidityLogical(op, l, r) ==
  IF ~(IsOk(l) /\ Kind(l[2]) = "bool") THEN {}
  ELSE IF l[2][2] = (op = "||") THEN {l[2]}
  ELSE IF IsOk(r) /\ Kind(r[2]) = "bool" THEN {r[2]} ELSE {}

SolidityOf(e, results) ==
  CASE e[1] = "binary" /\ e[2] \in {"&&", "||"} -> SolidityLogical(e[2], results[1], results[2])
    [] \E i \in DOMAIN results : ~IsOk(results[i]) -> {}
    [] e[1] = "binary" -> SolidityBinary(e[2], results[1][2], results[2][2])
    [] e[1] = "call" /\ e[2][1] = "type" -> SolidityCast(e[2][2], results[1][2])
    [] OTHER -> {}

AsSolidity(e, results) ==
  /\ \A v \in SolidityOf(e, results) : answer = Ok(v)
  /\ e[1] = "binary" /\ (\A i \in DOMAIN results : IsOk(results[i])) =>
       \A a \in BeyondSolidity(e[2], results[1][2], results[2][2]) : answer = a

(* What Solidity computes of an expression, the debugger answers, and nothing else: signs,    *)
(* widths, alignment and operands that are not reached behave as in the contract.  Overflow   *)
(* does not: where the contract reverts, the debugger never answers a number that has wrapped  *)
(* around, but the exact one, beyond the type, or the one next to it that a word holds         *)
(* (evaluate_expression and apply_*_op of eval/evaluator.rs).                                  *)
AgreesWithSolidity ==
  question[1] = "eval" =>
    LET operands == Operands(question[2]) IN
    AsSolidity(question[2], [i \in DOMAIN operands |-> Eval(operands[i], question[3])])

Getters(s, name) == {e \in Range(CallableAbiEntries(BytecodeAddress(s))) :
                       e[1] = name /\ IsStateVariable(e) /\ e[3] = << >>}
Unambiguous(s, name) ==
  \A a \in Range(AddressCandidates(TargetOf(s))) \ {BytecodeAddress(s)} :
    \A e \in Range(CallableAbiEntries(a)) : e[1] # name

(* A state variable read in a contract's source is that of the storage the code works on, also *)
(* behind a proxy, and the three ways to ask for it agree: by its name, which was read ahead   *)
(* when the context was built (finalize_snapshots), as a member of this, and by its getter.    *)
StateReadsAgree ==
  (question[1] = "eval" /\ question[2][1] = "variable" /\ SnapshotExists(question[3])) =>
    LET name == question[2][2] s == question[3] IN
    \A getter \in Getters(s, name) :
      (~IsOpcode(s) /\ Lookup(LocalsOf(s), name) = << >> /\ Unambiguous(s, name)) =>
        /\ answer = Ok(Decoded(getter[4][1][3], StorageRef(s, TargetOf(s), getter[4][1][2])))
        /\ answer = Eval(<<"member", <<"variable", "this">>, name>>, s)
        /\ answer = Eval(<<"call", <<"variable", name>>, << >>>>, s)

(* What the interface lists for an address (resolve.rs) is what a call on that address looks   *)
(* through (edb.rs): no function is offered that cannot be called, none is hidden.             *)
ListedIsCallable ==
  question[1] = "abi" =>
    {<<l[1], l[3]>> : l \in Range(answer[2])}
      = {<<a, CallableAbiEntries(a)>> : a \in {b \in Range(AddressCandidates(question[2])) : HasContract(b)}}

(* However a client asks about state or functions, the methods tell it the same. *)
AnswersAgree == StateReadsAgree /\ ListedIsCallable
=============================================================================
