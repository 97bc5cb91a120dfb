------------------------------ MODULE SolValues ------------------------------
(***************************************************************************)
(* The values an expression evaluates to (DynSolValue), and what the       *)
(* evaluator of crates/engine/src/eval/evaluator.rs computes from them:    *)
(* arithmetic, bitwise and comparison operators, built-in members and type *)
(* casts.                                                                  *)
(*                                                                         *)
(* Widths are scaled down.  A byte has ByteBits bits, a word (uint256)     *)
(* WordBytes bytes, an address AddressBytes bytes, and a usize holds       *)
(* 0 .. UsizeMax.  A value is a tuple that starts with its kind; integers  *)
(* carry their width in bits, and a signed one its two's complement raw    *)
(* word.  A result is Ok of a value, an error, or a panic.                 *)
(***************************************************************************)
EXTENDS Integers, Sequences, SequencesExt, Bitwise

CONSTANTS ByteBits, WordBytes, AddressBytes, UsizeMax

ASSUME WidthsAssumption ==
  /\ {ByteBits, WordBytes, AddressBytes, UsizeMax} \subseteq Nat \ {0}
  /\ AddressBytes < WordBytes
  /\ UsizeMax < 2 ^ (ByteBits * WordBytes) - 1

WordBits == ByteBits * WordBytes
Modulus  == 2 ^ WordBits
MaxWord  == Modulus - 1

Uint(n, bits)      == <<"uint", n, bits>>
SInt(raw, bits)    == <<"int", raw, bits>>
Bool(b)            == <<"bool", b>>
Address(a)         == <<"address", a>>
Str(s)             == <<"string", s>>
Bytes(b)           == <<"bytes", b>>
FixedBytes(b, n)   == <<"fixed", b, n>>
Array(vs)          == <<"array", vs>>
Tuple(vs)          == <<"tuple", vs>>
Struct(names, vs)  == <<"struct", names, vs>>

Ok(v)  == <<"ok", v>>
Err    == <<"err">>
Panic  == <<"panic">>
IsOk(r) == r[1] = "ok"

Kind(v) == v[1]
Signed(raw) == IF raw >= Modulus \div 2 THEN raw - Modulus ELSE raw
Larger(m, n) == IF m > n THEN m ELSE n
Smaller(m, n) == IF m < n THEN m ELSE n

(* The bytes of a word, most significant first, and back. *)
WordToBytes(w) == [i \in 1..WordBytes |-> (w \div (2 ^ (ByteBits * (WordBytes - i)))) % (2 ^ ByteBits)]
BytesToWord(b) == FoldLeft(LAMBDA w, d : w * (2 ^ ByteBits) + d, 0, b)
ZeroPad(b) == [i \in 1..WordBytes |-> IF i <= Len(b) THEN b[i] ELSE 0]
Prefix(b, n) == SubSeq(b, 1, Smaller(Len(b), n))

-----------------------------------------------------------------------------
(* Operators                                                               *)

Clamp(i, low, high) == IF i < low THEN low ELSE IF i > high THEN high ELSE i

WrappedUint(i) == i % Modulus

(* Saturation happens at the width of a word, whatever the operands' own. *)
SaturatedUint(i) == Clamp(i, 0, MaxWord)
SaturatedInt(i)  == Clamp(i, -(Modulus \div 2), Modulus \div 2 - 1) % Modulus

SaturatingPow(base, exponent) ==
  LET power[n \in 0..exponent] == IF n = 0 THEN 1 ELSE SaturatedUint(power[n - 1] * base)
  IN  power[exponent]

Magnitude(i) == IF i < 0 THEN -i ELSE i
Truncated(l, r) == IF (l < 0) = (r < 0) THEN Magnitude(l) \div Magnitude(r)
                                        ELSE -(Magnitude(l) \div Magnitude(r))

UintArithmetic(l, r, op) ==
  CASE op = "+"  -> SaturatedUint(l + r)
    [] op = "-"  -> SaturatedUint(l - r)
    [] op = "*"  -> SaturatedUint(l * r)
    [] op = "/"  -> l \div r
    [] op = "%"  -> l % r
    [] op = "**" -> SaturatingPow(l, r)

(* Powers are taken of the raw words, as if they were unsigned. *)
IntArithmetic(l, r, op) ==
  CASE op = "+"  -> SaturatedInt(Signed(l) + Signed(r))
    [] op = "-"  -> SaturatedInt(Signed(l) - Signed(r))
    [] op = "*"  -> SaturatedInt(Signed(l) * Signed(r))
    [] op = "/"  -> Truncated(Signed(l), Signed(r)) % Modulus
    [] op = "%"  -> (Signed(l) - Signed(r) * Truncated(Signed(l), Signed(r))) % Modulus
    [] op = "**" -> SaturatingPow(l, r)

ArithmeticOps == {"+", "-", "*", "/", "%", "**"}

ApplyArithmeticOp(l, r, op) ==
  IF Kind(l) # Kind(r) \/ Kind(l) \notin {"uint", "int"} \/ (op \in {"/", "%"} /\ r[2] = 0)
  THEN Err
  ELSE Ok(<<Kind(l),
            IF Kind(l) = "uint" THEN UintArithmetic(l[2], r[2], op) ELSE IntArithmetic(l[2], r[2], op),
            Larger(l[3], r[3])>>)

BitwiseOps == {"&", "|", "^", "<<", ">>"}

ApplyBitwiseOp(l, r, op) ==
  IF Kind(l) # "uint" \/ Kind(r) # "uint" THEN Err
  ELSE Ok(Uint(CASE op = "&"  -> l[2] & r[2]
                 [] op = "|"  -> l[2] | r[2]
                 [] op = "^"  -> l[2] ^^ r[2]
                 [] op = "<<" -> IF r[2] >= WordBits THEN 0 ELSE (l[2] * 2 ^ r[2]) % Modulus
                 [] op = ">>" -> IF r[2] >= WordBits THEN 0 ELSE l[2] \div 2 ^ r[2],
               Larger(l[3], r[3])))

BitwiseNot(v) == IF Kind(v) = "uint" THEN Ok(Uint(MaxWord - v[2], v[3])) ELSE Err

ComparisonOps == {"==", "!=", "<", ">", "<=", ">="}

Compared(l, r, op) ==
  CASE op = "==" -> l = r
    [] op = "!=" -> l # r
    [] op = "<"  -> l < r
    [] op = ">"  -> l > r
    [] op = "<=" -> l <= r
    [] op = ">=" -> l >= r

(* Mutant: signed integers are compared as the words they are stored in. *)
CompareRawWords(l, r, op) ==
  IF Kind(l) = Kind(r) /\ Kind(l) \in {"uint", "int"} THEN Ok(Bool(Compared(l[2], r[2], op))) ELSE Err

ApplyComparisonOp(l, r, op) ==
  CASE Kind(l) = "uint" /\ Kind(r) = "uint" -> Ok(Bool(Compared(l[2], r[2], op)))
    [] Kind(l) = "int" /\ Kind(r) = "int"   -> Ok(Bool(Compared(Signed(l[2]), Signed(r[2]), op)))
    [] /\ Kind(l) = Kind(r)
       /\ Kind(l) \in {"bool", "address", "string"}
       /\ op \in {"==", "!="}               -> Ok(Bool(Compared(l[2], r[2], op)))
    [] OTHER                                -> Err

(* What counts as true; << >> for a value that has no truth. *)
ToBool(v) ==
  CASE Kind(v) = "bool"            -> <<v[2]>>
    [] Kind(v) \in {"uint", "int"} -> <<v[2] # 0>>
    [] OTHER                       -> << >>

LogicalNot(v) == IF ToBool(v) = << >> THEN Err ELSE Ok(Bool(~ToBool(v)[1]))

UnaryMinus(v) == IF Kind(v) \in {"uint", "int"} THEN Ok(SInt((-v[2]) % Modulus, v[3])) ELSE Err

-----------------------------------------------------------------------------
(* Built-in members                                                        *)

NoBuiltin == << >>

HandleBuiltinProperty(v, member) ==
  CASE member = "length" /\ Kind(v) \in {"string", "bytes", "tuple"} -> Ok(Uint(Len(v[2]), WordBits))
    [] member = "length" /\ Kind(v) = "fixed"                        -> Ok(Uint(v[3], WordBits))
    [] member = "abs" /\ Kind(v) = "int"    -> Ok(Uint(Magnitude(Signed(v[2])), v[3]))
    [] member = "isZero" /\ Kind(v) \in {"uint", "int", "address"}   -> Ok(Bool(v[2] = 0))
    [] OTHER                                                         -> NoBuiltin

(* An index given as a word is narrowed to a usize, and panics when it does not fit. *)
Sliced(v, first, last) ==
  IF first > UsizeMax \/ last > UsizeMax THEN Panic
  ELSE IF first <= last /\ last <= Len(v[2]) THEN Ok(<<Kind(v), SubSeq(v[2], first + 1, last)>>)
  ELSE Ok(<<Kind(v), << >> >>)

HandleBuiltinMemberCall(member, callee, args) ==
  LET text == Kind(callee) \in {"string", "bytes"} IN
  CASE member = "push" /\ Kind(callee) = "tuple" /\ Len(args) <= 1 -> Ok(Uint(Len(callee[2]) + 1, WordBits))
    [] member = "pop" /\ Kind(callee) = "tuple" /\ Len(args) = 0 ->
         IF callee[2] = << >> THEN Err ELSE Ok(Last(callee[2]))
    [] member = "concat" /\ text /\ Len(args) = 1 /\ Kind(args[1]) = Kind(callee) ->
         Ok(<<Kind(callee), callee[2] \o args[1][2]>>)
    [] member = "slice" /\ text /\ Len(args) = 1 /\ Kind(args[1]) = "uint" ->
         Sliced(callee, args[1][2], Len(callee[2]))
    [] member = "slice" /\ text /\ Len(args) = 2 /\ Kind(args[1]) = "uint" /\ Kind(args[2]) = "uint" ->
         Sliced(callee, args[1][2], args[2][2])
    [] member = "min" /\ Kind(callee) = "uint" /\ Len(args) = 1 /\ Kind(args[1]) = "uint" ->
         Ok(Uint(Smaller(callee[2], args[1][2]), callee[3]))
    [] member = "max" /\ Kind(callee) = "uint" /\ Len(args) = 1 /\ Kind(args[1]) = "uint" ->
         Ok(Uint(Larger(callee[2], args[1][2]), callee[3]))
    [] member = "isEmpty" /\ Kind(callee) \in {"string", "bytes", "tuple"} /\ Len(args) = 0 ->
         Ok(Bool(callee[2] = << >>))
    [] OTHER -> NoBuiltin

-----------------------------------------------------------------------------
(* Type casts, one operator per target                                     *)

CastToAddress(v) ==
  CASE Kind(v) = "address" -> Ok(v)
    [] Kind(v) = "uint"    -> Ok(Address(v[2] % (2 ^ (ByteBits * AddressBytes))))
    [] Kind(v) = "fixed" /\ v[3] = AddressBytes -> Ok(Address(BytesToWord(Prefix(v[2], AddressBytes))))
    [] OTHER               -> Err

CastToUint(v, bits) ==
  CASE Kind(v) \in {"uint", "int", "address"} -> Ok(Uint(v[2] % (2 ^ bits), bits))
    [] Kind(v) = "bool"                       -> Ok(Uint(IF v[2] THEN 1 ELSE 0, bits))
    [] OTHER                                  -> Err

TruncatedSigned(raw, bits) ==
  LET low == raw % (2 ^ bits)
  IN  IF low >= 2 ^ (bits - 1) THEN low + (Modulus - 2 ^ bits) ELSE low

CastToInt(v, bits) ==
  CASE Kind(v) \in {"uint", "int"} -> Ok(SInt(TruncatedSigned(v[2], bits), bits))
    [] Kind(v) = "bool"            -> Ok(SInt(IF v[2] THEN 1 ELSE 0, bits))
    [] OTHER                       -> Err

CastToBool(v) == IF ToBool(v) = << >> THEN Err ELSE Ok(Bool(ToBool(v)[1]))

(* Bytes are aligned to the left of their word, the bytes of an integer are its last ones. *)
CastToFixedBytes(v, n) ==
  CASE Kind(v) \in {"bytes", "fixed", "string"} -> Ok(FixedBytes(ZeroPad(Prefix(v[2], n)), n))
    [] Kind(v) = "uint" -> Ok(FixedBytes(ZeroPad(SubSeq(WordToBytes(v[2]), WordBytes - n + 1, WordBytes)), n))
    [] OTHER            -> Err

CastToBytes(v) ==
  CASE Kind(v) \in {"bytes", "fixed", "string"} -> Ok(Bytes(v[2]))
    [] Kind(v) = "uint"                         -> Ok(Bytes(WordToBytes(v[2])))
    [] OTHER                                    -> Err

(* Half of the byte values are text: a byte with its top bit set stands for invalid UTF-8. *)
IsUtf8(b) == \A i \in DOMAIN b : b[i] < 2 ^ (ByteBits - 1)

CastToString(v) ==
  CASE Kind(v) = "string"                               -> Ok(v)
    [] Kind(v) \in {"bytes", "fixed"} /\ IsUtf8(v[2])   -> Ok(Str(v[2]))
    [] OTHER                                            -> Err

EvaluateTypeCasting(type, v) ==
  CASE type[1] = "address" -> CastToAddress(v)
    [] type[1] = "uint"    -> CastToUint(v, type[2])
    [] type[1] = "int"     -> CastToInt(v, type[2])
    [] type[1] = "bool"    -> CastToBool(v)
    [] type[1] = "fixed"   -> CastToFixedBytes(v, type[2])
    [] type[1] = "bytes"   -> CastToBytes(v)
    [] type[1] = "string"  -> CastToString(v)
    [] OTHER               -> Err
=============================================================================
