------------------------------- MODULE CallText -------------------------------
(***************************************************************************)
(* Values, calls, returns and events as text: how they are shown           *)
(* (common/src/types/sol_value.rs, and the resolver of the interface in    *)
(* tui/src/data/manager/resolve.rs) and how the text of a call is read     *)
(* (engine/src/utils/abi.rs).                                              *)
(*                                                                         *)
(* A text is a sequence of tokens <<kind, what>>: a symbol, a number, the  *)
(* bytes behind 0x, a word, an elementary type, or the dots that stand for *)
(* what is left out.  Values are <<"uint", n, bits>>, <<"int", n, bits>>,  *)
(* <<"bool", b>>, <<"address", bytes>>, <<"fixed", word, size>>,           *)
(* <<"bytes", bytes>>, <<"string", text>>, <<"function", bytes>>,          *)
(* <<"array", values>>, <<"fixedarray", values>>, <<"tuple", values>> and  *)
(* <<"struct", name, names, values>>; their types are named likewise.      *)
(***************************************************************************)
EXTENDS Integers, SequencesExt

CONSTANTS
  WordBytes,       \* 32
  AddressBytes,    \* 20
  MaxString        \* 64, the longest string that is never shortened

Sym(s) == <<"symbol", s>>
Word(w) == <<"word", w>>
Number(n) == <<"number", n>>
Hex(bytes) == <<"hex", bytes>>
Dots(n) == <<"dots", n>>
Comma == Sym(",")
Space == Sym(" ")
Newline == Sym("newline")      \* with the indentation that follows
Quote == Sym("double quote")
Apostrophe == Sym("single quote")
Backslash == Sym("backslash")

Blank == {Space, Newline}

RECURSIVE Trim(_)

Trim(text) ==
  CASE text = << >>           -> << >>
    [] text[1] \in Blank      -> Trim(Tail(text))
    [] Last(text) \in Blank   -> Trim(Front(text))
    [] OTHER                  -> text

Joined(parts, separator) ==
  FlattenSeq([i \in DOMAIN parts |-> IF i = 1 THEN parts[1] ELSE separator \o parts[i]])

Enclosed(open, text, close) == <<Sym(open)>> \o text \o <<Sym(close)>>
-----------------------------------------------------------------------------
(* Showing values.  The context ctx is a set of with_ty, multi_line and        *)
(* shorten_long; no address has a label (resolve_address_label).               *)

MAX_DISPLAY_ITEMS == 5
MAX_DISPLAY_FIELDS == 4

Cast(type, text, ctx) ==
  IF "with_ty" \in ctx THEN <<<<"type", type>>>> \o Enclosed("(", text, ")") ELSE text

(* The zero address is shortened to fewer zeros. *)
ShortZero == Hex([i \in 1..((2 * AddressBytes) \div 5) |-> 0])

FormatAddress(bytes, ctx) ==
  LET shown == CASE "shorten_long" \notin ctx         -> Hex(bytes)
                 [] Range(bytes) = {0}                -> ShortZero
                 [] OTHER                             -> Dots(AddressBytes)
  IN  Cast(<<"address">>, <<shown>>, ctx)

FormatBytes(bytes, ctx) ==
  IF Len(bytes) <= WordBytes \/ "shorten_long" \notin ctx THEN <<Hex(bytes)>>
  ELSE <<Hex(SubSeq(bytes, 1, WordBytes \div 2)), Dots(Len(bytes))>>

Escaped(text) == FlattenSeq([i \in DOMAIN text |-> IF text[i] = Quote THEN <<Backslash, Quote>> ELSE <<text[i]>>])

FormatString(text, ctx) ==
  IF Len(text) <= MaxString \/ "shorten_long" \notin ctx THEN <<Quote>> \o Escaped(text) \o <<Quote>>
  ELSE <<Quote>> \o Escaped(SubSeq(text, 1, MaxString \div 2)) \o <<Quote, Dots(Len(text))>>

Shown(items, limit, ctx) ==
  IF "shorten_long" \in ctx /\ Len(items) > limit THEN Append(SubSeq(items, 1, 3), <<Dots(Len(items))>>) ELSE items

Layout(items, limit, ctx, space) ==
  IF "multi_line" \in ctx /\ Len(items) > 1
  THEN <<Newline>> \o Joined(Shown(items, limit, ctx), <<Comma, Newline>>) \o <<Newline>>
  ELSE space \o Joined(Shown(items, limit, ctx), <<Comma, Space>>) \o space

FormatArray(items, ctx) == Enclosed("[", Layout(items, MAX_DISPLAY_ITEMS, ctx, << >>), "]")
FormatTuple(items, ctx) == Enclosed("(", Layout(items, MAX_DISPLAY_FIELDS, ctx, << >>), ")")

FormatCustomStruct(name, names, items, ctx) ==
  LET fields == [i \in DOMAIN items |-> <<Word(names[i]), Sym(":"), Space>> \o items[i]]
  IN  (IF "with_ty" \in ctx THEN <<Word(name)>> ELSE << >>)
      \o Enclosed("{", Layout(fields, MAX_DISPLAY_FIELDS, ctx, <<Space>>), "}")

RECURSIVE FormatValue(_, _)

FormatValue(v, ctx) ==
  LET Items(vs) == [i \in DOMAIN vs |-> FormatValue(vs[i], ctx)]
  IN  CASE v[1] \in {"int", "uint"} -> Cast(<<v[1], v[3]>>, <<Number(v[2])>>, ctx)
        [] v[1] = "bool"     -> <<Word(IF v[2] THEN "true" ELSE "false")>>
        [] v[1] = "address"  -> FormatAddress(v[2], ctx)
        [] v[1] = "fixed"    -> Cast(<<"fixed", v[3]>>, <<Hex(v[2])>>, ctx)    \* the whole word
        [] v[1] = "function" -> <<Hex(v[2])>>
        [] v[1] = "bytes"    -> FormatBytes(v[2], ctx)
        [] v[1] = "string"   -> FormatString(v[2], ctx)
        [] v[1] \in {"array", "fixedarray"} -> FormatArray(Items(v[2]), ctx)
        [] v[1] = "tuple"    -> FormatTuple(Items(v[2]), ctx)
        [] v[1] = "struct"   -> IF v[3] = << >> THEN <<Word(v[2])>> \o FormatTuple(Items(v[4]), ctx)
                                ELSE FormatCustomStruct(v[2], v[3], Items(v[4]), ctx)

RECURSIVE FormatType(_)

FormatType(v) ==
  LET First(vs) == IF vs = << >> THEN <<Word("unknown")>> ELSE FormatType(vs[1])
  IN  CASE v[1] \in {"int", "uint", "fixed"} -> <<<<"type", <<v[1], v[3]>>>>>>
        [] v[1] = "array"      -> First(v[2]) \o <<Sym("["), Sym("]")>>
        [] v[1] = "fixedarray" -> First(v[2]) \o <<Sym("["), Number(Len(v[2])), Sym("]")>>
        [] v[1] = "tuple"      -> Enclosed("(", Joined([i \in DOMAIN v[2] |-> FormatType(v[2][i])], <<Comma>>), ")")
        [] v[1] = "struct"     -> <<Word(v[2])>>
        [] OTHER               -> <<<<"type", <<v[1]>>>>>>
-----------------------------------------------------------------------------
(* Reading values.  A result is << >> when the text is refused.  Sizes of      *)
(* numbers are not looked at.                                                  *)

Base == 256
WordValues == Base ^ WordBytes
Wrapped(n) == IF n >= WordValues \div 2 THEN n - WordValues ELSE n
NumberOf(bytes) == FoldLeft(LAMBDA n, b : n * Base + b, 0, bytes)

(* Two decimal digits read as hexadecimal ones. *)
RECURSIVE DigitPairs(_)

DigitPairs(n) ==
  IF n < 10 THEN << >> ELSE Append(DigitPairs(n \div 100), 16 * ((n \div 10) % 10) + (n % 10))

RECURSIVE EvenDigits(_)
EvenDigits(n) == n >= 10 /\ (n < 100 \/ EvenDigits(n \div 100))

ParseBytes(text) ==
  CASE text = << >>              -> << << >> >>
    [] Len(text) > 1             -> << >>
    [] text[1][1] = "hex"        -> <<text[1][2]>>
    [] text[1][1] = "number" /\ EvenDigits(text[1][2]) -> <<DigitPairs(text[1][2])>>
    [] OTHER                     -> << >>

ParseFixedBytes(text, size) == SelectSeq(ParseBytes(text), LAMBDA bytes : Len(bytes) = size)
ParseAddress(text) == SelectSeq(ParseBytes(text), LAMBDA bytes : Len(bytes) = AddressBytes)

ParseUint(text) ==
  CASE text = << >>          -> <<0>>
    [] Len(text) > 1         -> << >>
    [] text[1][1] = "hex"    -> SelectSeq(<<NumberOf(text[1][2])>>, LAMBDA n : n < WordValues)
    [] text[1][1] = "number" -> SelectSeq(<<text[1][2]>>, LAMBDA n : n \in 0..(WordValues - 1))
    [] OTHER                 -> << >>

ParseInt(text) ==
  IF Len(text) = 1 /\ text[1][1] = "number" /\ text[1][2] < 0
  THEN SelectSeq(<<text[1][2]>>, LAMBDA n : n >= -(WordValues \div 2))
  ELSE LET read == ParseUint(text) IN [i \in DOMAIN read |-> Wrapped(read[i])]

ParseBool(text) ==
  CASE text \in {<<Word("true")>>, <<Number(1)>>}  -> <<TRUE>>
    [] text \in {<<Word("false")>>, <<Number(0)>>} -> <<FALSE>>
    [] OTHER                                       -> << >>

(* What is escaped stays so. *)
ParseString(text) ==
  IF Len(text) > 1 /\ text[1] \in {Quote, Apostrophe} /\ Last(text) = text[1]
  THEN SubSeq(text, 2, Len(text) - 1) ELSE text

(* The state s of the walk along a text, and the rest of it. *)
RECURSIVE Scan(_, _)

(* As if only round brackets nested. *)
NestingOfCalls(token) ==
  CASE token = Sym("(") -> 1 [] token = Sym(")") -> -1 [] OTHER -> 0

Nesting(token) ==
  CASE token \in {Sym("("), Sym("["), Sym("{")} -> 1
    [] token \in {Sym(")"), Sym("]"), Sym("}")} -> -1
    [] OTHER                                    -> 0

Scan(s, text) ==
  LET token == text[1]
      Push == [s EXCEPT !.current = Append(@, token)]
  IN  CASE text = << >>                             -> Append(s.args, Trim(s.current))
        [] s.escape_next                            -> Scan([Push EXCEPT !.escape_next = FALSE], Tail(text))
        [] s.in_string /\ token = Backslash         -> Scan([Push EXCEPT !.escape_next = TRUE], Tail(text))
        [] ~s.in_string /\ token \in {Quote, Apostrophe} ->
             Scan([Push EXCEPT !.in_string = TRUE, !.string_char = token], Tail(text))
        [] s.in_string /\ token # Backslash         ->
             Scan([Push EXCEPT !.in_string = token # s.string_char], Tail(text))
        [] token = Comma /\ ~s.in_string /\ s.depth = 0 ->
             Scan([s EXCEPT !.args = Append(@, Trim(s.current)), !.current = << >>], Tail(text))
        [] OTHER                                    -> Scan([Push EXCEPT !.depth = @ + Nesting(token)], Tail(text))

(* Nothing after the last comma is no argument. *)
SplitArguments(text) ==
  LET WithoutLast(args) == IF Last(args) = << >> THEN Front(args) ELSE args
  IN  WithoutLast(Scan([args |-> << >>, current |-> << >>, depth |-> 0, in_string |-> FALSE,
                        string_char |-> Quote, escape_next |-> FALSE], text))

(* type(value), whatever follows the bracket that closes it. *)
ExtractTypeCast(text) ==
  LET Count(i, token) == Len(SelectSeq(SubSeq(text, 2, i), LAMBDA t : t = token))
      closing == {i \in 3..Len(text) : Count(i, Sym("(")) = Count(i, Sym(")"))}
  IN  IF Len(text) > 1 /\ text[1][1] = "type" /\ text[2] = Sym("(") /\ closing # {}
      THEN [cast |-> <<text[1][2]>>, value |-> SubSeq(text, 3, Min(closing) - 1)]
      ELSE [cast |-> << >>, value |-> text]

(* Of uint and int, written without a size, the size is 0. *)
Normalized(type) == IF type[1] \in {"uint", "int"} /\ type[2] = 0 THEN <<type[1], 8 * WordBytes>> ELSE type

(* What the name of a type begins with. *)
RECURSIVE Prefix(_)
Prefix(type) == IF type[1] \in {"array", "fixedarray"} THEN Prefix(type[2]) ELSE type[1]

ValidateTypeCast(cast, type) ==
  \/ Normalized(cast) = Normalized(type)
  \/ cast[1] \in {"uint", "int"} /\ Prefix(type) = cast[1]
  \/ {cast[1], Prefix(type)} \subseteq {"bytes", "fixed"}

(* The ABI calls a struct a tuple, which is not the name of a type, and the    *)
(* type function is not supported.                                             *)
RECURSIVE Supported(_)

Supported(type) ==
  CASE type[1] \in {"array", "fixedarray"} -> Supported(type[2])
    [] type[1] = "tuple"                   -> \A i \in DOMAIN type[2] : Supported(type[2][i])
    [] OTHER                               -> type[1] \notin {"struct", "function"}

RECURSIVE ParseAs(_, _)

ParseArgument(text, type) ==
  LET given == ExtractTypeCast(Trim(text))
  IN  IF Supported(type) /\ \A i \in DOMAIN given.cast : ValidateTypeCast(given.cast[i], type)
      THEN ParseAs(Trim(given.value), type) ELSE << >>

(* As many texts as types, each one accepted. *)
ParseEach(texts, types) ==
  IF Len(texts) # Len(types) THEN << >>
  ELSE LET parsed == [i \in DOMAIN texts |-> ParseArgument(texts[i], types[i])]
       IN  IF << >> \in Range(parsed) THEN << >> ELSE <<FlattenSeq(parsed)>>

Brackets(text, open, close) == Len(text) > 1 /\ text[1] = Sym(open) /\ Last(text) = Sym(close)
Inside(text) == SubSeq(text, 2, Len(text) - 1)

ParseArray(text, type) ==
  IF ~Brackets(text, "[", "]") THEN << >>
  ELSE LET elements == SplitArguments(Inside(text))
       IN  ParseEach(elements, [i \in DOMAIN elements |-> type])

(* A field's name is not looked at: its value is what comes after the first    *)
(* colon.                                                                      *)
ParseStructSyntax(text, types) ==
  LET Value(element) == LET colon == SelectInSeq(element, LAMBDA t : t = Sym(":"))
                        IN  Trim(SubSeq(element, colon + 1, Len(element)))
      elements == SplitArguments(text)
  IN  ParseEach([i \in DOMAIN elements |-> Value(elements[i])], types)

ParsePositionalSyntax(text, types) == ParseEach(SplitArguments(text), types)

ParseTuple(text, types) ==
  CASE Brackets(text, "{", "}") -> ParseStructSyntax(Inside(text), types)
    [] Brackets(text, "(", ")") -> ParsePositionalSyntax(Inside(text), types)
    [] OTHER                    -> << >>

ParseAs(text, type) ==
  LET As(parsed) == [i \in DOMAIN parsed |-> <<type[1], parsed[i]>>]
      Sized(parsed) == [i \in DOMAIN parsed |-> <<type[1], parsed[i], type[2]>>]
      Padded(bytes) == bytes \o [i \in 1..(WordBytes - Len(bytes)) |-> 0]
  IN  CASE type[1] = "uint"       -> Sized(ParseUint(text))
        [] type[1] = "int"        -> Sized(ParseInt(text))
        [] type[1] = "bool"       -> As(ParseBool(text))
        [] type[1] = "address"    -> As(ParseAddress(text))
        [] type[1] = "string"     -> As(<<ParseString(text)>>)
        [] type[1] = "bytes"      -> As(ParseBytes(text))
        [] type[1] = "fixed"      -> LET read == ParseFixedBytes(text, type[2])
                                     IN  Sized([i \in DOMAIN read |-> Padded(read[i])])
        [] type[1] = "array"      -> As(ParseArray(text, type[2]))
        [] type[1] = "fixedarray" -> As(SelectSeq(ParseArray(text, type[2]), LAMBDA vs : Len(vs) = type[3]))
        [] type[1] = "tuple"      -> As(ParseTuple(text, type[2]))
-----------------------------------------------------------------------------
(* Calls.  A function is <<name, types>>, which also stands for its selector,  *)
(* and data is <<selector, arguments>>; arguments that its types do not decode *)
(* are << >>, and others <<values>>.                                           *)

ParseFunctionArguments(function, text) ==
  IF Trim(text) = << >> THEN (IF function[2] = << >> THEN << << >> >> ELSE << >>)
  ELSE ParseEach(SplitArguments(text), function[2])

(* The first of the overloads that takes the text. *)
FindMatchingFunction(functions, name, text) ==
  LET found == SelectInSeq(functions,
                 LAMBDA f : f[1] = name /\ ParseFunctionArguments(f, text) # << >>)
  IN  IF found = 0 THEN << >> ELSE << <<functions[found], ParseFunctionArguments(functions[found], text)>> >>

EncodeFunctionCall(functions, text) ==
  LET call == Trim(text)
      open == SelectInSeq(call, LAMBDA t : t = Sym("("))
  IN  IF open # 2 \/ Last(call) # Sym(")") \/ call[1][1] # "word" THEN << >>
      ELSE FindMatchingFunction(functions, call[1][2], SubSeq(call, open + 1, Len(call) - 1))

(* Nothing is shown while the interface of the contract is not there.          *)
(* functions is << >> then, and << the functions >> afterwards.                *)
CallShown(name, vs) ==
  <<Word(name)>> \o Enclosed("(", Joined([i \in DOMAIN vs |-> FormatValue(vs[i], {"with_ty"})], <<Comma, Space>>), ")")

ResolveFunctionCall(functions, data) ==
  IF functions = << >> \/ data[1] \notin Range(functions[1]) THEN << >>
  ELSE IF data[2] = << >> THEN <<<<Word(data[1][1])>> \o Enclosed("(", <<Dots(1)>>, ")")>>
  ELSE <<CallShown(data[1][1], data[2][1])>>

(* arguments and constructor are << >> while they are not there, or never are. *)
ResolveConstructorCall(arguments, constructor) ==
  IF arguments = << >> \/ constructor = << >> \/ arguments[1] = << >> THEN << >>
  ELSE <<CallShown("constructor", arguments[1][1])>>

NamedValue(name, v) ==
  FormatType(v) \o <<Space, Word(name), Sym(":"), Space>> \o FormatValue(v, {})

(* outputs are the names, "" for none. *)
ResolveFunctionReturn(names, output) ==
  IF output = << >> THEN << >>
  ELSE LET parts == [i \in DOMAIN output[1] |->
                       IF names[i] # "" THEN NamedValue(names[i], output[1][i])
                       ELSE FormatValue(output[1][i], {"with_ty"})]
       IN  <<IF Len(parts) = 1 THEN parts[1] ELSE Enclosed("(", Joined(parts, <<Comma, Space>>), ")")>>

(* inputs are the names of an event's parameters and topics how many topics a  *)
(* log of it has.  The body holds the parameters that are not indexed, but is  *)
(* paired with all of them, so that an event with an indexed parameter shows   *)
(* its values by the wrong names.                                              *)
ResolveEvent(event, inputs, topics, body) ==
  IF topics = 0 THEN << >>
  ELSE <<IF body = << >> THEN <<Word(event)>> \o Enclosed("(", <<Dots(1)>>, ")") \o <<Word("decode failed")>>
         ELSE <<Word(event)>> \o Enclosed("(",
                Joined([i \in DOMAIN body[1] |-> NamedValue(inputs[i], body[1][i])], <<Comma, Space>>), ")")>>
-----------------------------------------------------------------------------
(* What the texts are for.  A value that is shown in full can be read, except  *)
(* for bytes of a fixed size less than a word, whose padding is shown too, for *)
(* strings with quotes or backslashes, which are escaped one way only, and for *)
(* structs with their name.                                                    *)
RECURSIVE Readable(_, _)

Readable(v, ctx) ==
  LET All(vs) == \A i \in DOMAIN vs : Readable(vs[i], ctx)
  IN  CASE v[1] = "fixed"    -> v[3] = WordBytes
        [] v[1] = "string"   -> \A i \in DOMAIN v[2] : v[2][i] \notin {Quote, Backslash}
        [] v[1] = "function" -> FALSE
        [] v[1] \in {"array", "fixedarray", "tuple"} -> All(v[2])
        [] v[1] = "struct"   -> "with_ty" \notin ctx /\ v[3] # << >> /\ All(v[4])
        [] OTHER             -> TRUE

(* Structs as the tuples they are to the reader. *)
RECURSIVE Positional(_)

Positional(v) ==
  LET Each(vs) == [i \in DOMAIN vs |-> Positional(vs[i])]
  IN  CASE v[1] = "struct" -> <<"tuple", Each(v[4])>>
        [] v[1] \in {"array", "fixedarray", "tuple"} -> <<v[1], Each(v[2])>>
        [] OTHER -> v

RECURSIVE PositionalType(_)

PositionalType(type) ==
  LET Each(types) == [i \in DOMAIN types |-> PositionalType(types[i])]
  IN  CASE type[1] = "struct"     -> <<"tuple", Each(type[3])>>
        [] type[1] = "tuple"      -> <<"tuple", Each(type[2])>>
        [] type[1] = "array"      -> <<"array", PositionalType(type[2])>>
        [] type[1] = "fixedarray" -> <<"fixedarray", PositionalType(type[2]), type[3]>>
        [] OTHER                  -> type

ValueReadsBack(type, v, ctx) ==
  "shorten_long" \notin ctx /\ Readable(v, ctx) /\ Supported(PositionalType(type)) =>
    ParseArgument(FormatValue(v, ctx), PositionalType(type)) = <<Positional(v)>>

(* The text of a value of type u, shown with its type, may be taken for one of *)
(* type t.                                                                     *)
RECURSIVE Alike(_, _)

Alike(t, u) ==
  CASE t[1] = "string" -> u[1] \notin {"uint", "int", "address", "fixed"}
    [] t[1] \in {"uint", "int", "address"} -> u[1] \in {t[1], "bytes"}
    [] t[1] \in {"bytes", "fixed"} -> u[1] \in {"bytes", "fixed"}
    [] t[1] \in {"array", "fixedarray"} -> u[1] \in {"array", "fixedarray"}
    [] t[1] = "tuple" -> /\ u[1] = "tuple" /\ Len(t[2]) = Len(u[2])
                         /\ \A i \in DOMAIN t[2] : Alike(t[2][i], u[2][i])
    [] OTHER -> t[1] = u[1]

(* A call that is shown can be made again by its text, unless another overload *)
(* that comes first takes it.                                                  *)
CallReadsBack(functions, function, vs) ==
  LET own == SelectInSeq(functions, LAMBDA f : f = function)
      taken == \E i \in 1..(own - 1) :
                 /\ functions[i][1] = function[1] /\ Len(functions[i][2]) = Len(function[2])
                 /\ \A k \in DOMAIN function[2] : Alike(functions[i][2][k], function[2][k])
      plain == \A k \in DOMAIN vs : Readable(vs[k], {"with_ty"}) /\ Supported(function[2][k])
      call == ResolveFunctionCall(<<functions>>, <<function, <<vs>>>>)
      creation == ResolveConstructorCall(<<<<vs>>>>, <<function[2]>>)
  IN  plain =>
        /\ ~taken => EncodeFunctionCall(functions, call[1]) = << <<function, <<vs>>>> >>
        /\ EncodeFunctionCall(<<<<"constructor", function[2]>>>>, creation[1])
             = << <<<<"constructor", function[2]>>, <<vs>>>> >>

(* What is shown of a return, or of an event none of whose parameters are      *)
(* indexed, are its values, by their names.                                    *)
NamedReadBack(types, names, vs) ==
  LET event == ResolveEvent("E", names, 1, <<vs>>)[1]
      returned == ResolveFunctionReturn(names, <<vs>>)[1]
      Unnamed(k) == FormatValue(vs[k], {"with_ty"})
  IN  (\A k \in DOMAIN types : Supported(types[k])) =>
      /\ (\A k \in DOMAIN vs : Readable(vs[k], {})) =>
           ParseStructSyntax(SubSeq(event, 3, Len(event) - 1), types) = <<[k \in DOMAIN vs |-> Positional(vs[k])]>>
      /\ (\A k \in DOMAIN vs : IF names[k] # "" THEN Readable(vs[k], {})
                               ELSE Readable(vs[k], {"with_ty"}) /\ Sym(":") \notin Range(Unnamed(k))) =>
           ParseStructSyntax(IF Len(vs) = 1 THEN returned ELSE Inside(returned), types)
             = <<[k \in DOMAIN vs |-> Positional(vs[k])]>>

(* What a shortened text leaves out it says it leaves out, but for the zeros   *)
(* of an address.                                                              *)
DotsForTheRest(v, ctx) ==
  LET text == FormatValue(v, ctx \union {"shorten_long"})
  IN  \/ text = FormatValue(v, ctx \ {"shorten_long"})
      \/ ShortZero \in Range(text)
      \/ \E i \in DOMAIN text : text[i][1] = "dots"

(* A value with a first element in each of its arrays tells its type.          *)
RECURSIVE TellsType(_)

TellsType(v) ==
  CASE v[1] \in {"array", "fixedarray"} -> v[2] # << >> /\ TellsType(v[2][1])
    [] v[1] = "tuple" -> \A i \in DOMAIN v[2] : TellsType(v[2][i])
    [] OTHER          -> TRUE

RECURSIVE TypeText(_)

TypeText(type) ==
  CASE type[1] = "array"      -> TypeText(type[2]) \o <<Sym("["), Sym("]")>>
    [] type[1] = "fixedarray" -> TypeText(type[2]) \o <<Sym("["), Number(type[3]), Sym("]")>>
    [] type[1] = "tuple"      -> Enclosed("(", Joined([i \in DOMAIN type[2] |-> TypeText(type[2][i])], <<Comma>>), ")")
    [] type[1] = "struct"     -> <<Word(type[2])>>
    [] OTHER                  -> <<<<"type", type>>>>
=============================================================================
