---------------------------- MODULE VariableHooks ----------------------------
(***************************************************************************)
(* Which variables the instrumented code reports and how they are read     *)
(* back: the hooks after an update and the view methods of state           *)
(* variables (instrumentation/codegen.rs), and the type under which the    *)
(* hook inspector decodes a reported value (analysis/types.rs).            *)
(*                                                                         *)
(* A type is <<"elementary", name>>, <<"function">>, <<"user", name>>,     *)
(* <<"mapping", key, value>> or <<"array", base, length>>, whose length is *)
(* "none", "literal" or "named" (a constant).                              *)
(***************************************************************************)
EXTENDS Naturals, Sequences

CONSTANTS
  UserTypes    \* by name: <<"struct", types...>>, <<"enum">>, <<"value", type>> or <<"contract">>

Base(type) == type[2]
Unknown == <<"unknown">>
Panic == <<"panic">>

RECURSIVE ContainsUserDefinedType(_), ContainsFunctionType(_), ContainsMappingType(_), DynSolType(_)

ContainsUserDefinedType(type) ==
  CASE type[1] = "array"   -> ContainsUserDefinedType(Base(type))
    [] type[1] = "mapping" -> ContainsUserDefinedType(type[2]) \/ ContainsUserDefinedType(type[3])
    [] OTHER               -> type[1] = "user"

ContainsFunctionType(type) ==
  CASE type[1] = "array"   -> ContainsFunctionType(Base(type))
    [] type[1] = "mapping" -> ContainsFunctionType(type[2]) \/ ContainsFunctionType(type[3])
    [] OTHER               -> type[1] = "function"

(* What a user-defined type contains is not looked at. *)
ContainsMappingType(type) ==
  IF type[1] = "array" THEN ContainsMappingType(Base(type)) ELSE type[1] = "mapping"

(* Versions of the compiler are <<minor, patch>>: <<4, 24>> is 0.4.24. *)
Before(v, w) == v[1] < w[1] \/ (v[1] = w[1] /\ v[2] < w[2])

(* As if what user-defined types contain did not depend on the compiler. *)
GeneratesUpdateHookAnyVersion(type, state, storage, version) ==
  ~Before(version, <<4, 24>>) /\ ~ContainsFunctionType(type) /\ ~ContainsMappingType(type) /\ ~state /\ ~storage

GeneratesUpdateHook(type, state, storage, version) ==
  /\ ~Before(version, <<4, 24>>)    \* the code generator relies on abi.encode
  /\ ~(ContainsUserDefinedType(type) /\ Before(version, <<8, 0>>))
  /\ ~ContainsFunctionType(type) /\ ~ContainsMappingType(type)
  /\ ~state /\ ~storage

(* The members of a struct are unwrapped: one without a type is a panic. *)
StructType(members) ==
  LET types == [i \in DOMAIN members |-> DynSolType(members[i])]
  IN  IF \E i \in DOMAIN types : types[i] \in {Unknown, Panic} THEN Panic
      ELSE <<"tuple", types>>

DynSolType(type) ==
  CASE type[1] = "elementary" -> type
    [] type[1] = "function"   -> type
    [] type[1] = "mapping"    -> Unknown
    [] type[1] = "array"      -> LET base == DynSolType(Base(type)) IN
                                 IF base \in {Unknown, Panic} THEN base
                                 ELSE IF type[3] = "named" THEN Unknown ELSE <<"array", base, type[3]>>
    [] type[1] = "user"       ->
         IF type[2] \notin DOMAIN UserTypes THEN Unknown
         ELSE LET definition == UserTypes[type[2]] IN
              CASE definition[1] = "struct"   -> StructType(Tail(definition))
                [] definition[1] = "enum"     -> <<"elementary", "uint8">>
                [] definition[1] = "value"    -> DynSolType(definition[2])
                [] definition[1] = "contract" -> <<"elementary", "address">>
-----------------------------------------------------------------------------
(* The parameters of the view method of a state variable, outermost index      *)
(* first, or NoMethod.                                                         *)
NoMethod == <<"no method">>

RECURSIVE AnalyzeType(_)

AnalyzeType(type) ==
  LET Indexed(index, inner) ==
        LET params == AnalyzeType(inner)
        IN  IF params = NoMethod THEN NoMethod ELSE <<index>> \o params
  IN  CASE type[1] = "elementary" -> << >>
        [] type[1] = "array"      -> Indexed(<<"elementary", "uint256">>, Base(type))
        [] type[1] = "mapping" /\ type[2][1] = "elementary" -> Indexed(type[2], type[3])
        [] OTHER                  -> NoMethod

GenerateViewMethod(type, constant, kind) ==
  IF kind # "contract" \/ constant THEN NoMethod ELSE AnalyzeType(type)

(* The type of what the method returns: the variable with every parameter as   *)
(* an index.                                                                   *)
RECURSIVE Returned(_, _)

Returned(type, params) ==
  IF params = << >> THEN type
  ELSE IF type[1] = "array" /\ params[1] = <<"elementary", "uint256">> THEN Returned(Base(type), Tail(params))
  ELSE IF type[1] = "mapping" /\ params[1] = type[2] THEN Returned(type[3], Tail(params))
  ELSE Unknown
-----------------------------------------------------------------------------
(* What Solidity lets be declared: outside of storage there is no mapping, and *)
(* since 0.7 none inside a struct either.                                      *)
RECURSIVE Within(_)

Within(type) ==
  {type} \union
  CASE type[1] = "array"   -> Within(Base(type))
    [] type[1] = "mapping" -> Within(type[3])
    [] type[1] = "user" /\ UserTypes[type[2]][1] = "struct" ->
         UNION {Within(UserTypes[type[2]][i]) : i \in 2..Len(UserTypes[type[2]])}
    [] OTHER -> {}

HasMapping(type) == \E t \in Within(type) : t[1] = "mapping"
HasNamedLength(type) == \E t \in Within(type) : t[1] = "array" /\ t[3] = "named"

Declarable(type, state, storage, version) ==
  state \/ storage \/ (~ContainsMappingType(type) /\ (Before(version, <<7, 0>>) \/ ~HasMapping(type)))

(* A variable whose updates are reported has a type the inspector finds, and   *)
(* looking for it does not fail, except where a length is a constant's name.   *)
Decodable(type, state, storage, version) ==
  GeneratesUpdateHook(type, state, storage, version) /\ ~HasNamedLength(type) =>
    DynSolType(type) \notin {Unknown, Panic}

(* A view method's expression is of the elementary type it claims to return.   *)
ViewTyped(type) ==
  GenerateViewMethod(type, FALSE, "contract") # NoMethod =>
    Returned(type, GenerateViewMethod(type, FALSE, "contract"))[1] = "elementary"
=============================================================================
