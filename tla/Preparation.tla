---------------------------- MODULE Preparation ----------------------------
(***************************************************************************)
(* How edb gets from a transaction to its snapshots: it forks the chain in *)
(* front of it (forking.rs), runs it to see which contracts it visits,     *)
(* fetches and recompiles their sources, with hooks, puts what comes of    *)
(* that in the place of their code, by running the transaction that        *)
(* created each with other code (tweak.rs), and runs the transaction again *)
(* (core.rs:184-329).  Contracts that it creates itself are replaced as    *)
(* they are created (hook_snapshot_inspector.rs).                          *)
(*                                                                         *)
(* A chain is a sequence of transactions of one account, which deploys     *)
(* tokens and factories of tokens, and of the system.  All else that they  *)
(* can write is one cell, which a constructor reads.                       *)
(***************************************************************************)
EXTENDS Naturals, Sequences, SequencesExt, FiniteSetsExt

CONSTANTS MaxTransactions,  \* bound on the length of the chain
          SearchRange       \* CONSTRUCTOR_ARG_SEARCH_RANGE

ASSUME SearchRangeAssumption == SearchRange \in Nat

-----------------------------------------------------------------------------
(* Contract code.  Code that is to be created is followed by the arguments of
   its constructor; nothing marks where they begin, and the explorer that knows
   the source may not list them.  extract_constructor_args finds them in the
   code a chain was sent, which need not be what the compiler makes of the
   source today.  A word of this code stands for an instruction, a run of bytes
   or an argument; arguments have fixed sizes. *)

(* How the code on the chain differs from what is compiled now: in its metadata,
   its length, or how it copies the arguments. *)
Builds == {"same", "other", "longer", "shorter", "terse"}

Inputs(contract) == IF contract = "token" THEN 1 ELSE 0

(* What comes after the code that runs: the metadata, a hash. *)
Metadata(build) ==
  CASE build = "same" -> <<"hash">>
    [] build = "other" -> <<"another_hash">>
    [] build = "longer" -> <<"a_hash", "of_two_words">>
    [] build \in {"shorter", "terse"} -> <<>>

Runtime(build) == <<"runtime">> \o Metadata(build)

Data(words) == [i \in DOMAIN words |-> <<"data", words[i]>>]

(* The compiler's code that copies the arguments, which begin at the end of all
   the code, to memory and returns the runtime code. *)
CreationCode(build) ==
  LET end == 6 + Len(Runtime(build))
      again == IF build = "terse" THEN <<"dup">> ELSE <<"push", end>>
  IN <<<<"push", end>>, <<"codesize">>, <<"sub">>, again, <<"dup">>, <<"codecopy">>>>
       \o Data(Runtime(build))

(* init_code of a creation, and an artifact: what is known of a contract. *)
InitCode(init) == CreationCode(init.build) \o Data(init.args)
Original == CreationCode("same")

From(s, offset) == SubSeq(s, offset + 1, Len(s))
-----------------------------------------------------------------------------
(* Fixed sizes: what has the size of the arguments can be decoded as them. *)
CanUseAsConstructorArgs(contract, words) == Len(words) = Inputs(contract)

(* Strategy 3: the offsets tried, around where the arguments would begin. *)
Tried(words) ==
  LET k == Len(Original) IN
  UNION {{IF k + d < Len(words) THEN k + d ELSE Len(words) - 1, IF d < k THEN k - d ELSE 0} :
           d \in 0..SearchRange}

Fitting(contract, words) ==
  {offset \in Tried(words) : CanUseAsConstructorArgs(contract, From(words, offset))}

(* Strategy 4: the operand of a push before codesize and sub that is pushed
   again before a codecopy.  The source takes it for the offset of the runtime
   code, and the arguments for what comes after that. *)
IsPush(word) == word[1] = "push"

SizesArgs(words) ==
  {n \in 1..Len(words) - 2 :
     /\ IsPush(words[n]) /\ words[n][2] < Len(words)
     /\ words[n + 1] = <<"codesize">> /\ words[n + 2] = <<"sub">>}

LookAhead(n) == n + 3..n + SearchRange - 1

Copied(words, n) ==
  \E j \in LookAhead(n) \cap DOMAIN words :
    words[j] = <<"codecopy">> /\ \E b \in {j - 2, j - 1} : words[b] = words[n]

KCandidates(words) == {words[n][2] : n \in {m \in SizesArgs(words) : Copied(words, m)}}

(* Where no codecopy ends it, the search runs beyond the last instruction. *)
SearchPanics(words) ==
  \E n \in SizesArgs(words) : ~Copied(words, n) /\ ~(LookAhead(n) \subseteq DOMAIN words)

ByKPattern(contract, words) ==
  {From(words, k + Len(Runtime("same"))) :
     k \in {n \in KCandidates(words) :
              /\ Len(From(words, n)) > Len(Runtime("same"))
              /\ CanUseAsConstructorArgs(contract, From(words, n + Len(Runtime("same"))))}}

(* args is what the explorer lists.  No strategy can succeed in two ways here. *)
ExtractConstructorArgs(contract, args, init) ==
  LET words == InitCode(init)
      Unwrapped(s) == [i \in DOMAIN s |-> s[i][2]]
      Suffix(offset) == Unwrapped(From(words, offset))
  IN IF Inputs(contract) = 0 \/ args # <<>> THEN args
     ELSE IF IsPrefix(Original, words) THEN Suffix(Len(Original))
     ELSE IF Len(words) > Len(Original) /\ Fitting(contract, words) # {}
       THEN Suffix(CHOOSE offset \in Fitting(contract, words) : TRUE)
     ELSE IF ByKPattern(contract, words) # {}
       THEN Unwrapped(CHOOSE s \in ByKPattern(contract, words) : TRUE)
     ELSE args

ExtractionPanics(contract, args, init) ==
  LET words == InitCode(init) IN
  /\ Inputs(contract) # 0 /\ args = <<>>
  /\ ~IsPrefix(Original, words)
  /\ Len(words) > Len(Original) => Fitting(contract, words) = {}
  /\ SearchPanics(words)

(* get_full_init_code of the contract instrumented for address by. *)
FullInitCode(contract, args, init, by) ==
  [contract |-> contract, build |-> "same", by |-> by,
   args |-> ExtractConstructorArgs(contract, args, init)]
-----------------------------------------------------------------------------
VARIABLES
  chain,            \* its transactions; the last one is debugged
  history,          \* its states, history[n + 1] after n transactions
  build, listed,    \* how code was built, whether arguments are listed
  quick,            \* EngineConfig: whether to replay blocks
  stage,            \* where prepare stands
  fork, replaying,  \* fork_and_prepare: its state, the transactions to replay
  ctx,              \* the state of the fork that is debugged
  trace,            \* the calls of the first run
  visited,          \* the addresses of which no source was asked yet
  artifacts,        \* the addresses whose source is known
  untweaked,        \* those tweak_bytecode has still to see,
  tweaking,         \* the one whose creation it runs,
  contracts_in_tx,  \* and those it leaves to the creation hooks
  calls             \* the calls of the last run

worldVars == <<chain, history, build, listed, quick>>
forkVars == <<fork, replaying>>
tweakVars == <<artifacts, untweaked, tweaking, contracts_in_tx>>
prepareVars == <<stage, forkVars, ctx, trace, visited, tweakVars, calls>>

(* The first contract of an account has nonce 0; a contract begins at 1. *)
Alice == <<"alice">>
NoOne == <<>>

Does == {"deploy_token", "deploy_factory", "produce", "produce_salted", "write", "use", "system"}

Empty ==
  [nonce |-> [a \in {Alice} |-> 0], code |-> [a \in {} |-> NoOne], cell |-> 0, token |-> NoOne, factory |-> NoOne]

NoInspector == [target |-> NoOne, contract |-> "none", args |-> <<>>, hooks |-> {}]

(* Where code is created: by the nonce of the creator or, salted, by the code. *)
CreatedAddress(creator, nonce, init, scheme) ==
  IF scheme = "create2" THEN <<creator, init.by, init.args>> ELSE <<creator, nonce>>

(* check_and_apply_creation_hooks, and TweakInspector::create. *)
Hooked(init, hooks) ==
  LET matching == {h.by : h \in {g \in hooks : /\ g.contract = init.contract /\ g.args = init.args
                                               /\ init.build = "same" /\ init.by = NoOne}}
  IN IF matching = {} THEN init ELSE [init EXCEPT !.by = CHOOSE by \in matching : TRUE]

Intercepted(address, init, inspector) ==
  IF address = inspector.target
    THEN FullInitCode(inspector.contract, inspector.args, init, address)
    ELSE Hooked(init, inspector.hooks)

(* What a transaction creates in a state: nothing, or one contract.  A factory
   carries the code of its tokens, built when it was, or instrumented as it is. *)
FirstCode(contract, args, built) == [contract |-> contract, by |-> NoOne, build |-> built, args |-> args]

TokenOf(factory, scheme, nonce, built) ==
  [contract |-> "token", by |-> factory.by, build |-> IF factory.by = NoOne THEN built ELSE "same",
   args |-> <<IF scheme = "create2" THEN "w" ELSE IF nonce = 1 THEN "y" ELSE "z">>]

Creations(does, s, built) ==
  CASE does = "deploy_token" -> {<<Alice, FirstCode("token", <<"x">>, built), "create">>}
    [] does = "deploy_factory" -> {<<Alice, FirstCode("factory", <<>>, built), "create">>}
    [] does \in {"produce", "produce_salted"} /\ s.factory \in DOMAIN s.code ->
         LET scheme == IF does = "produce_salted" THEN "create2" ELSE "create"
         IN {<<s.factory, TokenOf(s.code[s.factory], scheme, s.nonce[s.factory], built), scheme>>}
    [] OTHER -> {}

(* A creation fails where the constructor misses arguments and where there is
   code already. *)
NoCode == [contract |-> "none", by |-> NoOne, args |-> <<>>, seen |-> 0]

CreationCall(creation, nonce, cell, occupied, inspector) ==
  LET address == CreatedAddress(creation[1], nonce, creation[2], creation[3])
      init == Intercepted(address, creation[2], inspector)
      done == Len(init.args) >= Inputs(init.contract) /\ address \notin occupied
  IN [at |-> address, is |-> "creation", done |-> done,
      code |-> IF done THEN [contract |-> init.contract, by |-> init.by, args |-> init.args, seen |-> cell]
               ELSE NoCode]

Calls(does, s) ==
  LET callee == CASE does = "use" -> s.token
                  [] does \in {"produce", "produce_salted"} -> s.factory
                  [] OTHER -> NoOne
  IN IF callee \in DOMAIN s.code THEN <<[at |-> callee, is |-> "call", done |-> TRUE, code |-> s.code[callee]]>> ELSE <<>>

CallsOf(does, s, inspector, built) ==
  Calls(does, s) \o
    SetToSeq({CreationCall(c, s.nonce[c[1]], s.cell, DOMAIN s.code, inspector) : c \in Creations(does, s, built)})

(* The state after the calls of a transaction. *)
After(does, s, made, built) ==
  LET new == {made[n].at : n \in {m \in DOMAIN made : made[m].is = "creation" /\ made[m].done}}
      CodeAt(address) == (CHOOSE n \in DOMAIN made : made[n].at = address)
      Latest(contract, old) ==
        IF \E a \in new : made[CodeAt(a)].code.contract = contract THEN CHOOSE a \in new : TRUE ELSE old
      creators == {c[1] : c \in Creations(does, s, built)}
  IN [nonce |-> [a \in DOMAIN s.nonce \union new |->
                   IF a \in new THEN 1
                   ELSE IF a \in creators \/ (a = Alice /\ does # "system") THEN s.nonce[a] + 1
                   ELSE s.nonce[a]],
      code |-> [a \in DOMAIN s.code \union new |-> IF a \in new THEN made[CodeAt(a)].code ELSE s.code[a]],
      cell |-> IF does \in {"write", "system"} THEN s.cell + 1 ELSE s.cell,
      token |-> Latest("token", s.token),
      factory |-> Latest("factory", s.factory)]

StateAt(n) == history[n + 1]
Target == Len(chain)

(* What the chain has at an address, and the transaction that created it. *)
OnChain == StateAt(Target).code
CreationTx(address) ==
  CHOOSE n \in 1..Target :
    address \in DOMAIN StateAt(n).code /\ address \notin DOMAIN StateAt(n - 1).code

Mine(does, opens_block) ==
  /\ stage = "mining" /\ Len(chain) < MaxTransactions
  /\ chain' = Append(chain, [does |-> does, opens_block |-> opens_block])
  /\ \E s \in {Last(history)} : \E made \in {CallsOf(does, s, NoInspector, build)} :
       history' = Append(history, After(does, s, made, build))
  /\ UNCHANGED <<build, listed, quick, prepareVars>>
-----------------------------------------------------------------------------
(* fork_and_prepare for transaction n: the state in front of its block, and
   after those in front of it there; those of the system cannot be replayed. *)
BlockOf(n) == Max({m \in 1..n : m = 1 \/ chain[m].opens_block})
IsSystem(n) == chain[n].does = "system"

StartForkWithoutReplay(n) ==
  /\ ~IsSystem(n)
  /\ fork' = StateAt(BlockOf(n) - 1)
  /\ replaying' = <<>>

StartFork(n) ==
  /\ ~IsSystem(n)
  /\ fork' = StateAt(BlockOf(n) - 1)
  /\ replaying' = IF quick THEN <<>> ELSE [k \in 1..n - BlockOf(n) |-> BlockOf(n) + k - 1]

ForkAndPrepare ==
  /\ stage = "mining" /\ chain # <<>>
  /\ StartFork(Target)
  /\ stage' = "forking"
  /\ UNCHANGED <<worldVars, ctx, trace, visited, tweakVars, calls>>

TransactCommit ==
  /\ replaying # <<>>
  /\ IF IsSystem(Head(replaying)) THEN UNCHANGED fork
     ELSE \E does \in {chain[Head(replaying)].does} : \E made \in {CallsOf(does, fork, NoInspector, build)} :
            fork' = After(does, fork, made, build)
  /\ replaying' = Tail(replaying)
  /\ UNCHANGED <<worldVars, stage, ctx, trace, visited, tweakVars, calls>>

(* visited_addresses: what is called, and what is created without failing. *)
Visited(made) == {made[n].at : n \in {m \in DOMAIN made : made[m].done}}

(* replay_and_collect_trace *)
Replay ==
  /\ stage = "forking" /\ replaying = <<>>
  /\ ctx' = fork
  /\ trace' = CallsOf(chain[Target].does, fork, NoInspector, build)
  /\ visited' = Visited(trace')
  /\ stage' = "replayed" /\ fork' = Empty
  /\ UNCHANGED <<worldVars, replaying, tweakVars, calls>>

(* download_verified_source_code, of all at once: the source of a contract that
   is on the chain is known to the explorer or not, or cannot be compiled. *)
Download(address) ==
  /\ stage = "replayed" /\ address \in visited
  /\ visited' = visited \ {address}
  /\ \/ UNCHANGED artifacts
     \/ address \in DOMAIN OnChain /\ artifacts' = artifacts \union {address}
  /\ UNCHANGED <<worldVars, stage, forkVars, ctx, trace, untweaked, tweaking, contracts_in_tx, calls>>

(* instrument_and_recompile_source_code; with the opcode snapshots taken, which
   leave ctx alone, tweak_bytecode begins. *)
Recompile ==
  /\ stage = "replayed" /\ visited = {}
  /\ stage' = "recompiled" /\ untweaked' = artifacts
  /\ UNCHANGED <<worldVars, forkVars, ctx, trace, visited, artifacts, tweaking, contracts_in_tx, calls>>

ListedArgs(address) == IF listed THEN OnChain[address].args ELSE <<>>

LeaveToHooks(address) ==
  /\ stage = "recompiled" /\ tweaking = NoOne /\ CreationTx(address) = Target
  /\ untweaked' = untweaked \ {address}
  /\ contracts_in_tx' = contracts_in_tx \union {address}
  /\ UNCHANGED <<worldVars, stage, forkVars, ctx, trace, visited, artifacts, tweaking, calls>>

(* tweak, whose get_tweaked_code makes a fork of its own. *)
Tweak(address) ==
  /\ stage = "recompiled" /\ tweaking = NoOne /\ CreationTx(address) # Target
  /\ StartFork(CreationTx(address))
  /\ tweaking' = address
  /\ untweaked' = untweaked \ {address}
  /\ UNCHANGED <<worldVars, stage, ctx, trace, visited, artifacts, contracts_in_tx, calls>>

(* The code the creation gives with the inspector, if the target is created and
   the inspector does not panic. *)
InspectorPanics(inspector, does, s) ==
  \E c \in Creations(does, s, build) :
    /\ CreatedAddress(c[1], s.nonce[c[1]], c[2], c[3]) = inspector.target
    /\ ExtractionPanics(inspector.contract, inspector.args, c[2])

InsertCode ==
  /\ tweaking # NoOne /\ replaying = <<>>
  /\ LET inspector == [NoInspector EXCEPT !.target = tweaking, !.contract = OnChain[tweaking].contract,
                                          !.args = ListedArgs(tweaking)]
     IN /\ ~InspectorPanics(inspector, chain[CreationTx(tweaking)].does, fork)
        /\ \E run \in {CallsOf(chain[CreationTx(tweaking)].does, fork, inspector, build)} :
             \E n \in DOMAIN run :
               /\ run[n].at = tweaking /\ run[n].done
               /\ ctx' = [ctx EXCEPT !.code = [a \in DOMAIN @ \union {tweaking} |->
                                           IF a = tweaking THEN run[n].code ELSE @[a]]]
  /\ tweaking' = NoOne /\ fork' = Empty
  /\ UNCHANGED <<worldVars, stage, replaying, trace, visited, artifacts, untweaked, contracts_in_tx, calls>>

(* Whatever the explorer, the chain or the compiler refuses ends prepare, and so
   do a contract that is not created again when its transaction is and a panic. *)
Fail ==
  /\ stage \in {"forking", "replayed", "recompiled"}
  /\ stage' = "failed"
  /\ fork' = Empty /\ replaying' = <<>> /\ ctx' = Empty /\ trace' = <<>> /\ visited' = {}
  /\ artifacts' = {} /\ untweaked' = {} /\ tweaking' = NoOne /\ contracts_in_tx' = {}
  /\ UNCHANGED <<worldVars, calls>>

(* collect_creation_hooks: each contract of each source that has one created. *)
ContractsIn(contract) == IF contract = "factory" THEN {"factory", "token"} ELSE {"token"}

CreationHooks ==
  UNION {{[contract |-> c, args |-> ListedArgs(address), by |-> address] :
            c \in ContractsIn(OnChain[address].contract)} : address \in contracts_in_tx}

WithCreationHooks(hooks) == [NoInspector EXCEPT !.hooks = hooks]

(* capture_hook_snapshots *)
Capture ==
  /\ stage = "recompiled" /\ untweaked = {} /\ tweaking = NoOne
  /\ calls' = CallsOf(chain[Target].does, ctx, WithCreationHooks(CreationHooks), build)
  /\ stage' = "captured"
  /\ UNCHANGED <<worldVars, forkVars, ctx, trace, visited, tweakVars>>
-----------------------------------------------------------------------------
PreparationInit ==
  /\ chain = <<>> /\ history = <<Empty>>
  /\ build \in Builds /\ listed \in BOOLEAN /\ quick \in BOOLEAN
  /\ stage = "mining" /\ fork = Empty /\ replaying = <<>>
  /\ ctx = Empty /\ trace = <<>> /\ calls = <<>> /\ visited = {}
  /\ artifacts = {} /\ untweaked = {} /\ tweaking = NoOne /\ contracts_in_tx = {}

PreparationNext ==
  \/ \E does \in Does, opens_block \in BOOLEAN : Mine(does, opens_block)
  \/ ForkAndPrepare \/ TransactCommit \/ Replay \/ Recompile \/ InsertCode \/ Capture \/ Fail
  \/ \E address \in visited : Download(address)
  \/ \E address \in untweaked : LeaveToHooks(address) \/ Tweak(address)

PreparationSpec == PreparationInit /\ [][PreparationNext]_<<worldVars, prepareVars>>
-----------------------------------------------------------------------------
(* The calls of the transaction on the chain. *)
Mined == CallsOf(chain[Target].does, StateAt(Target - 1), NoInspector, build)

(* A contract the transaction itself creates runs with its own hooks only if its
   arguments are listed and the compiler gives what it gave then.  One created by
   a contract that has hooks gets that one's, and salted another address. *)
Replaceable(n) ==
  Mined[n].is = "creation" =>
    /\ Mined[n].at \in artifacts => listed /\ build = "same"
    /\ \A m \in 1..n - 1 : Mined[m].at \notin artifacts

(* The blocks edb replays hold no transaction of the system. *)
Replayable(n) ==
  \A m \in {Target, CreationTx(Mined[n].at)} : \A k \in BlockOf(m)..m : ~IsSystem(k)

(* The run that is shown calls what the transaction called on the chain, in that
   order, and runs the code it ran there, instrumented for the address it runs at
   if its source is known and as it was if not: no contract gets the code or the
   constructor's arguments of another, although its code was made anew in another
   transaction (tweak.rs:165-198, tweak_inspector.rs:86-168,
   hook_snapshot_inspector.rs:547-597). *)
RunsInstrumentedCode ==
  stage = "captured" /\ ~quick =>
    \A n \in DOMAIN Mined :
      Replaceable(n) /\ Replayable(n) =>
        /\ n \in DOMAIN calls
        /\ calls[n] = [Mined[n] EXCEPT !.code.by = IF Mined[n].at \in artifacts THEN Mined[n].at ELSE @]
=============================================================================
