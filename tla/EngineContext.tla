---------------------------- MODULE EngineContext ----------------------------
(***************************************************************************)
(* What the engine keeps of an analysed transaction (context/mod.rs): the  *)
(* trace, the snapshots with the databases behind them, and the interfaces *)
(* of the contracts with source; and the questions that read storage or    *)
(* interfaces (rpc/methods/storage.rs and resolve.rs) or call a contract   *)
(* in the state of a snapshot (context/evm.rs).                            *)
(*                                                                         *)
(* The recording is given by the constants, as tuples.  Addresses start at *)
(* 0, and so do the storage slots; a[i] of a sequence over addresses or    *)
(* slots is read with At.                                                  *)
(*   Trace     <<target, code address, caller, value, input>> per entry    *)
(*   Taken     <<entry, kind, locals, stack, memory>> per snapshot, where  *)
(*             kind is "hook" or "opcode", locals is a sequence of         *)
(*             <<name, << >> or <<value>>>>                                *)
(*   Contracts << >> or <<interface>> per address; an interface lists      *)
(*             <<name, "Function" or "StateVariable", input types,         *)
(*             outputs>> by name, an output being <<how, slot, type>>      *)
(*   Fallback  the address the code of an address delegates unknown calls  *)
(*             to, or NoAddress                                            *)
(*   Cached    per snapshot and address, << >> when the account was never  *)
(*             loaded, or <<what is cached of its slots>>                  *)
(*   Fork      per address and slot, the word on the chain                 *)
(***************************************************************************)
EXTENDS SolValues, FiniteSets, FiniteSetsExt, Functions

CONSTANTS Trace, Taken, Contracts, Fallback, Cached, Fork, NoAddress

VARIABLES
  readiness,          \* "trace", "snapshots", "ready" or "failed"
  firstSnapshot,  \* per trace entry, << >> or the id of its first snapshot
  stateVariables, \* per snapshot, the <<name, << >> or <<value>>>> found when it was finalized
  hashOrder       \* whether the set of code addresses of an address is iterated upwards

contextVars == <<readiness, firstSnapshot, stateVariables, hashOrder>>

Entries   == 1..Len(Trace)
Snapshots == 1..Len(Taken)
Slots     == 0..Len(Fork[1]) - 1
Addresses == 0..Len(Fork) - 1
At(seq, i) == seq[i + 1]

EntryOf(s)         == Taken[s][1]
IsOpcode(s)        == Taken[s][2] = "opcode"
LocalsOf(s)        == Taken[s][3]
TargetOf(s)        == Trace[EntryOf(s)][1]
BytecodeAddress(s) == Trace[EntryOf(s)][2]

(* The first pair of that name, as << >> or <<what it says>>. *)
Lookup(pairs, name) ==
  LET named == SelectSeq(pairs, LAMBDA p : p[1] = name)
  IN  IF named = << >> THEN << >> ELSE <<named[1][2]>>

-----------------------------------------------------------------------------
(* Databases: what a snapshot has cached lies over the forked chain        *)

Account(s, a) == At(Cached[s], a)
StorageRef(s, a, slot) ==
  IF Account(s, a) # << >> /\ At(Account(s, a)[1], slot) # << >>
  THEN At(Account(s, a)[1], slot)[1]
  ELSE At(At(Fork, a), slot)

GetStorage(s, slot) == StorageRef(s, TargetOf(s), slot)

(* Compared with the first snapshot: the slots cached now whose words differ. *)
GetStorageDiff(s) ==
  LET cached == {slot \in Slots : Account(s, TargetOf(s)) # << >>
                                  /\ At(Account(s, TargetOf(s))[1], slot) # << >>}
  IN  {<<slot, StorageRef(1, TargetOf(s), slot), StorageRef(s, TargetOf(s), slot)>> :
         slot \in {x \in cached : StorageRef(1, TargetOf(s), x) # StorageRef(s, TargetOf(s), x)}}

-----------------------------------------------------------------------------
(* Interfaces                                                              *)

IsStateVariable(entry) == entry[2] = "StateVariable"
IsFunction(entry)      == entry[2] = "Function"

HasContract(a) == At(Contracts, a) # << >>

(* Functions come before state variables, each kind by name. *)
CallableAbiEntries(a) ==
  IF HasContract(a)
  THEN SelectSeq(At(Contracts, a)[1], IsFunction) \o SelectSeq(At(Contracts, a)[1], IsStateVariable)
  ELSE << >>

CodeAddresses(a) == {Trace[i][2] : i \in {j \in Entries : Trace[j][1] = a}}

(* The address itself, then every code that ran for it in the order of a hash set. *)
AddressCandidates(a) ==
  <<a>> \o SetToSortSeq(CodeAddresses(a), LAMBDA x, y : IF hashOrder THEN x < y ELSE x > y)

RelatedAddresses(a) ==
  IF CodeAddresses(a) = {} THEN <<<<a, "Implementation">>>>
  ELSE IF CodeAddresses(a) \ {a} # {}
       THEN <<<<a, "Proxy">>>> \o [i \in 1..Cardinality(CodeAddresses(a) \ {a}) |->
              <<SetToSortSeq(CodeAddresses(a) \ {a}, LAMBDA x, y : IF hashOrder THEN x < y ELSE x > y)[i],
                "Implementation">>]
       ELSE <<<<a, "Normal">>>>

GetCallableAbi(a) ==
  LET known == SelectSeq(RelatedAddresses(a), LAMBDA r : HasContract(r[1]))
  IN  [i \in DOMAIN known |-> <<known[i][1], known[i][2], CallableAbiEntries(known[i][1])>>]

-----------------------------------------------------------------------------
(* Calls in an EVM derived from a snapshot                                 *)

Matches(type, v) == type[1] = Kind(v) /\ (type[1] \in {"uint", "int"} => type[2] = v[3])

Decoded(type, word) ==
  CASE type[1] = "uint"    -> Uint(word % 2 ^ type[2], type[2])
    [] type[1] = "bool"    -> Bool(word # 0)
    [] type[1] = "address" -> Address(word % 2 ^ (ByteBits * AddressBytes))

(* The word an output reads from the storage of an address; << >> when the call reverts. *)
OutputWord(output, s, to, args) ==
  CASE output[1] = "slot"    -> <<StorageRef(s, to, output[2])>>
    [] output[1] = "mapping" -> <<StorageRef(s, to, (output[2] + args[1][2]) % Len(Fork[1]))>>
    [] output[1] = "array"   -> IF args[1][2] < StorageRef(s, to, output[2])
                                THEN <<StorageRef(s, to, output[2] + 1 + args[1][2])>>
                                ELSE << >>
    [] output[1] = "echo"    -> <<args[1][2]>>

(* The getters of state variables exist in the instrumented code only, which replaces *)
(* the original after the opcode snapshots are taken.                                  *)
Deployed(s, a, entry) ==
  /\ HasContract(a)
  /\ entry \in Range(At(Contracts, a)[1])
  /\ IsStateVariable(entry) => ~IsOpcode(s)

Reaches(s, to, entry) ==
  \/ Deployed(s, to, entry)
  \/ At(Fallback, to) # NoAddress /\ Deployed(s, At(Fallback, to), entry)

CallInDerivedEvm(s, to, entry, args) ==
  LET words == [i \in DOMAIN entry[4] |-> OutputWord(entry[4][i], s, to, args)] IN
  IF Len(args) # Len(entry[3]) \/ \E i \in DOMAIN args : ~Matches(entry[3][i], args[i]) THEN Err
  ELSE IF ~Reaches(s, to, entry) \/ \E i \in DOMAIN words : words[i] = << >> THEN Err
  ELSE LET decoded == [i \in DOMAIN words |-> Decoded(entry[4][i][3], words[i][1])]
       IN  Ok(IF Len(decoded) = 1 THEN decoded[1] ELSE Tuple(decoded))

-----------------------------------------------------------------------------
(* Finalization                                                            *)

ContextInit ==
  /\ readiness = "trace"
  /\ firstSnapshot = [i \in Entries |-> << >>]
  /\ stateVariables = [s \in Snapshots |-> << >>]
  /\ hashOrder \in BOOLEAN

FinalizeTrace ==
  /\ readiness = "trace"
  /\ readiness' = "snapshots"
  /\ firstSnapshot' = [i \in Entries |->
       LET own == {s \in Snapshots : EntryOf(s) = i} IN IF own = {} THEN << >> ELSE <<Min(own)>>]
  /\ UNCHANGED <<stateVariables, hashOrder>>

Option(r) == IF IsOk(r) THEN <<r[2]>> ELSE << >>

(* Mutant: getters are called where the code lives instead of where it runs. *)
PreEvaluatedAtCode(s) ==
  LET getters == SelectSeq(CallableAbiEntries(BytecodeAddress(s)),
                           LAMBDA e : IsStateVariable(e) /\ e[3] = << >>)
  IN  [i \in DOMAIN getters |->
         <<getters[i][1], Option(CallInDerivedEvm(s, BytecodeAddress(s), getters[i], << >>))>>]

PreEvaluated(s) ==
  LET getters == SelectSeq(CallableAbiEntries(BytecodeAddress(s)),
                           LAMBDA e : IsStateVariable(e) /\ e[3] = << >>)
  IN  [i \in DOMAIN getters |->
         <<getters[i][1], Option(CallInDerivedEvm(s, TargetOf(s), getters[i], << >>))>>]

(* A source-level step of a contract without a recompiled artifact fails the whole context. *)
FinalizeSnapshots ==
  /\ readiness = "snapshots"
  /\ IF \A s \in Snapshots : IsOpcode(s) \/ HasContract(BytecodeAddress(s))
     THEN /\ stateVariables' = [s \in Snapshots |-> IF IsOpcode(s) THEN << >> ELSE PreEvaluated(s)]
          /\ readiness' = "ready"
     ELSE readiness' = "failed" /\ UNCHANGED stateVariables
  /\ UNCHANGED <<firstSnapshot, hashOrder>>
=============================================================================
