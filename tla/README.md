# A TLA+ model of edb

edb replays an Ethereum transaction, records it, and serves the recording to a
debugger. This directory holds TLA+ modules that model the program from the
preparation of a transaction to the panels of the debugger and the RPC proxy beside
it, the TLC configurations that check them on small instances, and TLAPS proofs of
what matters most for every instance. Paths below are relative to the repository's
`crates/`.

## 1. The system

| Component | Code | State | Operations | Interacts with |
|---|---|---|---|---|
| Engine core | `engine/src/core.rs`, `rpc/server.rs`, `rpc/utils.rs` | `server_handles`, `in_flight` (a lock per transaction), one axum listener per published transaction | `prepare`, `get_rpc_server_addr`, `shutdown_rpc_server` | called by the CLI and the WebSocket server; starts debug servers |
| Preparation | `common/src/forking.rs`, `engine/src/{tweak,orchestration,inspector}` | forked state, call trace, artifacts, replaced code | fork and replay, call trace, recompile, replace code, run again with hooks | the chain and its explorer |
| Inspectors | `engine/src/inspector/` | call stack, frame stack, snapshots, values of variables | the EVM's callbacks | snapshot merge |
| Snapshots | `engine/src/snapshot/`, `orchestration/` | merged execution order, next and previous ids | merge, linking, step analysis | navigation |
| Source analysis and instrumentation | `engine/src/{analysis,instrumentation}` | steps, scopes and variables of a source; edits by position | analysis of a syntax tree; edits of the text | compiler, hook inspector |
| Expression evaluation | `engine/src/eval`, `engine/src/context` | pre-evaluated state variables | operators, casts, built-ins, storage, calls | snapshots, forked state |
| Debug RPC methods | `engine/src/rpc/methods/` | none | navigation, breakpoints, storage, interfaces, expressions | snapshots, evaluation |
| Terminal user interface | `tui/src` | cached facts, pending requests, position, breakpoints, panels, layout | keys, mouse, background requests, drawing | debug RPC methods |
| WebSocket server | `edb/src/cmd/server.rs` | `active_connections`, the channel to the worker thread, a handler task per connection | replay request, tracking of the connection, close | Engine |
| Proxy client | `edb/src/proxy.rs` | none but the heartbeat task | `ensure_proxy_running`, `register_with_proxy`, `start_heartbeat_task`, `spawn_proxy` | the proxy over HTTP |
| Registry | `rpc-proxy/src/registry.rs` | instances with their last heartbeat, start of the grace period | `register_edb_instance`, `heartbeat`, the monitor | proxy server (shutdown signal) |
| Provider pool | `rpc-proxy/src/providers.rs` | per provider: health, failures in a row, time of the last success | `mark_provider_*`, `health_check_all`, selection | upstream providers |
| Forwarding and request handling | `rpc-proxy/src/{rpc,proxy}.rs` | per request: retry index, providers tried, errors received | cacheability, keys, the retry loop, dispatch | pool, cache |
| Cache | `rpc-proxy/src/cache.rs` | map in memory, directory on disk, older files beside it | `get`, `set`, `delete_*`, `save_to_disk`, load | other proxy processes on the same path |
| Metrics and terminal monitor | `rpc-proxy/src/metrics.rs`, `tui/` | counters; what was fetched last | `record_*`; polling | requests; the proxy over HTTP |

What is hard in it, and what makes each part correct:

* **Engine.** Callers race for one transaction, a port is probed and bound in two
  steps, servers are shut down while others are being prepared. At most one
  analysis of a transaction at a time; what is published is served; nothing that
  listens is forgotten.
* **Preparation.** A contract's code is made anew by running the transaction that
  created it with other code, whose constructor arguments nobody marked; contracts
  made in the transaction itself are recognised by their code. The run that is shown
  must be the run that happened.
* **Inspectors.** A transaction is executed three times under three inspectors that
  number its frames on their own, through failed calls, calls to nothing and
  creations, and keep copies of the machine that they renew where they expect a
  change. Their frames must agree and their copies be true.
* **Snapshots.** The order of the execution is restored from pieces, and where a
  step over leads is guessed from the source. Merging loses and reorders nothing;
  every snapshot has a next and a previous one; a step over never enters a call
  and never jumps out of one too far.
* **Analysis and instrumentation.** Text is added at many positions of a program
  whose statements nest without braces. The program stays the same, a hook stands
  where its step begins, and what is reported of a variable is its value.
* **Evaluation.** Values have widths and signs, the state of a contract is read in
  four ways. The result is Solidity's where it has one, no number wraps around where
  it has none, and the four ways agree.
* **Terminal user interface.** Answers arrive late or never, after the user has moved
  on. Nobody waits for ever, and what is shown becomes true.
* **WebSocket server.** Handlers look at a table, await, and act on what they saw;
  one worker serves all and may panic; clients leave at any time. Every server has
  an owner that will shut it down; nobody waits for an answer that nobody will
  give; a client finds its own transaction's server.
* **Registry and proxy lifecycle.** The monitor takes three locks one after the
  other; processes die without a word; several spawn a proxy at once. A process
  that beats in time is never dropped, the proxy never stops under it, and no
  proxy is left behind.
* **Pool, forwarding, requests.** Reports of requests and health checks reach the pool
  late and in any order; a request has a limited number of turns; answers are kept
  for ever. A working provider is reached, providers leave the pool for cause and
  return, an answer is that of the question, and what is kept may be repeated.
* **Cache.** Several processes and tasks replace one directory without a lock and
  may be stopped at any point. Limits hold, deletions last, a saved cache is lost
  only in a replacement.
* **Metrics.** An outcome is several atomic updates that interleave with others and
  with readers. Numbers that belong together agree, and the monitor catches up.

## 2. The modules

| Module | Models | Notes |
|---|---|---|
| `AnalysisOnce` | what `prepare` promises (`engine/src/core.rs:178-183`) | abstract specification: per transaction the set of analysts, and what is published |
| `Engine`, `EngineProofs` | `core.rs`, `rpc/server.rs`, `rpc/utils.rs` | a caller's position in `prepare` is `pc[c]`; the lock table is `in_flight`; `serving[p]` is what listens on a port |
| `EdbServer`, `EdbServerProofs` | `cmd/server.rs` | `INSTANCE Engine` with the worker as the only caller of `prepare` |
| `Preparation` | `forking.rs`, `tweak.rs`, `tweak_inspector.rs`, the call tracer's addresses, the stages of `core.rs` | code is a sequence of words; one action per stage, over any chain |
| `MCPreparation`, `PreparationProofs` | the whole of `prepare` | composes `Preparation` with `StepAnalysis`; the proofs are of both |
| `Recording` | `engine/src/inspector/`, `snapshot/mod.rs`, `snapshot/analysis.rs` except the source analysis | the EVM's callbacks drive all three inspectors; `evm` is the stack of frames the EVM really has; then `Merge` and `Analyze` |
| `SnapshotContents`, `RecordingProofs` | the inspectors' copies of storage, memory and stack | extends `Recording` by a machine; a value is the step that wrote it; the proofs are of both |
| `StepAnalysis` | `analyze_next_steps_for_source` | one action per way a turn of its two loops can take; which step comes next is open |
| `SourceAnalysis` | `analysis/`, `utils/visitor.rs`: the walk over a source file | a tree is a kind, a label and slots; the walk a fold over what the `Analyzer` keeps |
| `VariableHooks` | `instrumentation/codegen.rs`, `analysis/types.rs`: which variables are reported, as what they are decoded | operators on types |
| `CallText` | `common/src/types/sol_value.rs`, `engine/src/utils/abi.rs`, the resolver's texts | a text is a sequence of tokens; values are shown and read |
| `Instrumentation` | where in the text of a function its hooks go (`analysis/`), the edits (`instrumentation/`) | a source is a sequence of tokens; `Placed` is the compiler's tree, `Analyze` the analysis, `Instrument` the text with the edits |
| `InstrumentedRun` | the hook inspector's values; the machine | parses the text again (`Compiled`) and executes it |
| `SolValues`, `EngineContext`, `Evaluator` | `eval/`, `context/`, `rpc/methods/{storage,resolve,expr}.rs` | values with their widths; the context of a transaction; the evaluator and its handlers |
| `EvaluatorReference` | what the evaluator is held against | Solidity's operators and casts on integers, and the storage of the contract |
| `MCExamined`, `MCHookSession` | files, values; programs, expressions, a trace | composes the execution of a function with the questions about a transaction; `MCExamined` says what an analysis must find, of the tree and without a walk |
| `DebugRpc` | `rpc/methods/{navigation,breakpoint}.rs` | functions on a recording |
| `ManagerCore` | `tui/src/data/manager/core.rs` | two tiers of facts; `Take` and `Finish` are the background task |
| `ExecutionManager`, `ExecutionManagerProofs` | `tui/src/data/manager/execution.rs` | extends `ManagerCore` and `DebugRpc`; one action per public method |
| `TracePanel`, `CodePanel`, `DisplayPanel`, `TerminalPanel` | `tui/src/panels/` | each extends the one before: a panel is a record, a key an operator on it |
| `TuiApp` | `tui/src/{app,lib}.rs` | layouts, focus, the event loop; extends the panels |
| `EdbRegistry` | `rpc-proxy/src/registry.rs` | one action per lock the monitor takes |
| `ProxyLifecycle`, `ProxyProofs` | `edb/src/proxy.rs`, start and end of the proxy process | extends `EdbRegistry`; a restart is `Renew`; the proofs are of both and of `ProxyMonitor` |
| `ProviderManager` | `providers.rs` | actions only; composed by `RpcForward` |
| `RpcForward` | `forward_request` | extends `ProviderManager` |
| `RpcHandler`, `RpcHandlerProofs` | `handle_request`, the cache policy, the dispatch and the end of the server | extends `RpcForward`; the proofs are of all three |
| `CacheManager`, `CacheManagerProofs` | `cache.rs` | `memory` per process, one directory `dir`/`content` |
| `Metrics`, `ProxyMonitor` | `metrics.rs`; the monitor in `rpc-proxy/src/tui/` | one step per atomic update; `ProxyMonitor` extends `Metrics` |
| the other `MC` modules | | model values, sessions and symmetry for TLC |

How code becomes action: a step ends where other tasks can run and see its
effect, at an await, at the release of a lock, or between two system calls on
shared files. `Engine!Lock`, `BeginAnalysis`, `PickPort`, `Bind` and `Store` are the
points of `prepare` at which another caller may come between; the analysis
stages touch no shared state and are one step there that may fail, and actions of
their own in `Preparation`. A handler of the WebSocket server takes its mutex only
within a step. `CacheManager` splits a save into reading the disk, merging, removing
the old directory (which is not atomic and has a beginning and an end), and renaming.
In the interface the thread that draws and handles keys never waits: one key or one
draw is a step, and the background task's steps come between. A draw of all panels is
atomic for the background task, which could in fact finish between two panels.

Data is abstracted to what the properties distinguish. A transaction, a port, a
provider, a key are model values; a cache entry is its `accessed_at`; a stored time
of the registry is its age in heartbeat intervals; a failure counter stops one
above `max_failures`, since only that comparison reads it. Response times are left out,
because they only weigh a random choice that the model leaves open. In `Recording` a
snapshot is the position at which it was taken, and a contract is one of four kinds of
code that the inspectors tell apart. Code is a short sequence of words in `Preparation`, a
source a sequence of tokens in `Instrumentation`, where the statement `<<"set", x>>` stands
for any that assigns. The evaluator's words have four bits. In the interface a word of a
command is typed with one key, and what a command prints is one line.
`Recording`, `Preparation`, `Instrumentation` and the evaluator are about one
computation, not about concurrent ones: what varies is the transaction, the source and the
question. `Recording` uses of an entry with source only what `StepAnalysis` shows of it, that
a snapshot is linked to a later one of its entry or becomes a hole.

## 3. The runs

| Run | Instance | Checks |
|---|---|---|
| `Engine` | 3 callers, 2 transactions, 2 ports | `PublishedIsServed`; `NoLostServer`; `AnalysedOnce` (Engine implements `AnalysisOnce`); `PrepareEnds` |
| `EdbServer` | 3 connections, 2 transactions, 2 ports, panics unwind | `NothingStranded`; `ServedUntilAClose`; `CountsConnections` (the counts that decide when a server stops are those of the connections) |
| `ProxyLifecycle` | 2 processes, timeout and grace period of 3 intervals | `MembersStayRegistered`; `NoShutdownWhileRegistered`; `DeadAreRemoved`; `NoProxyLeftBehind` |
| `RpcHandler` | 2 providers (one flaky), 2 requests (one that one provider or neither serves), 2 error signatures, 4 retries, 2 equal errors, 1 block mined | `Failover`; `DemotedForCause`; `RepliesAreTheirs`; `RepliesAreCurrent` |
| `RpcForwardLive` | 2 flaky providers, 1 request that some may not serve, the periodic check, 2 retries, 2 equal errors | `RecoversAndAnswers`: failed providers recover, and requests are answered |
| `CacheManager` | 2 processes, one that saves and one that deletes, each started with a limit of 1 or 2, 2 keys, one of them in an old flat file, 2 clock values | `CapacityHeld`; `MissingOnlyInReplacement`; `DeletedStaysDeleted` |
| `Recording` | up to 3 calls of 4 kinds of code, 4 snapshots, one write between two of them that is not recorded | `FramesAgree`; `MergedInExecutionOrder`; `StepsLinkForward`; `SnapshotsHoldTheState` |
| `Preparation` | chains of 3 transactions, tokens and factories, builds of 5 kinds, a search range of 9 words; then 5 snapshots, a function, a free function, a modifier, up to 2 calls in a step | `RunsInstrumentedCode`; `EveryStepLinked`; `StepsNest` |
| `HookSession` | the functions of `MCHookSession` in two layouts, 2 turns of loops, 1 recursive call; then its expressions, bytes of 2 bits, words of 2 bytes; then 394 files, 5 versions of the compiler, 151 values and 196 calls | `SameProgram`; `HooksAreFollowed`; `SnapshotsShowValues`; `AgreesWithSolidity`; `AnswersAgree`; `AnalysisIsOfSource`; `ValuesComeBack` |
| `Tui` | recordings and sessions of `MCTui`, 1 condition, 1 breakpoint | `CachedCallsAreTrue`; `WaitsWhereItAsked`; `StopsAtBreakpoints`; `WaitEnds` |
| `TuiPanels` | 18 sessions of `MCTuiPanels`: 3 snapshots of 2 contracts, panels of 4 rows, 5 lines of output | `PanelsSettle`: panels catch up, and pending commands end |
| `ProxyMonitor` | 2 requests, 1 method, 1 provider, 2 records, 1 restart, 2 of the monitor's calls | `MetricsAgree`; `MonitorCatchesUp` |

Every module states a type invariant beside these (`TypeOK`, `HandlerTypeOK`, ...). Where a
component has a module of proofs, its type invariant is proved with the rest (section 4).

Why these bounds. Three callers of two transactions are the least with which one
analyses, one waits on the same lock and one works on another transaction; two
ports make the port race lose. Three connections let two share a transaction while
a third interferes through the worker's queue. Two processes are enough for every
race over the port and over the grace period, and three intervals separate "fresh",
"in time", "at the boundary" and "late". Four retries and two providers reach the
health check within a request, the cleared list of tried providers and unequal
error counts. Of two processes with limits 1 and 2 over one directory, the
smaller one finds more on disk than it may hold, evicts at every second `set` and has to merge beyond its limit; two clock values make entries differ in age or tie. Three calls
make a caller with two callees or a callee's callee, four snapshots put two before
and after a call or one in each; five snapshots let a call be made within a call and both
return at once or one after the other. Three transactions are a factory, a token it makes
or one of its own, and the one that is debugged. The programs put every statement with a body
into every other, twice where a body without braces ends another, in a layout with spaces
and one without; two turns make a loop repeat. With bytes of two bits
every cast and shift has values inside, at and beyond each of its boundaries. The files put every
declaration and statement into every place that takes one, with the kinds of expression where the
analysis looks at them; types nest twice, which every recursion on them needs. The values are of every type at its
boundaries and in every container, their strings hold whatever a text is cut at, and the calls
have an overload that comes first or later. In a session
of the panels the user has the few keys that work on one thing, in any order and
number; together the sessions have every key of every panel.

Bounds in the modules: `FailureBound` (the failure counter), `Timeout + 1` and
`Grace` (ages), `MaxTime` (the cache's clock), `MaxHead` (blocks), `MaxEntries` and
`MaxSnapshots` (the size of a recording), `MaxCalls` and `LastStep` (of a trace entry),
`MaxTransactions` (the chain), `MaxTurns` and `MaxCalls` (an execution), `MaxBreakpoints`,
`MaxInput`, `MaxTyped` (the user), `MaxRecords` and `MaxRestarts` (metrics). TLC reports a deadlock except where
the system does stop: connections that are all closed, edb processes that have
all exited, requests that have all been answered, a recording that is linked, an interface
that was left.

Fairness. tokio's mutex is first come first served and an analysis ends, so `Lock` has
strong and the rest of `prepare` weak fairness; listeners close after their signal. In
`ProxyLifecycle` the operating system runs spawned processes, the runtime polls the
monitor (strongly fair, since it waits for locks that registrations take), and time
passes; nothing makes a process start, register, beat or die. In `RpcForward` a
request's call ends by its timeout and the periodic check fires again and again;
nothing makes a provider break or recover. In the interface the loop draws and handles
events, and the background task takes requests and finishes them; an answer may be lost any
number of times, but not for ever. The monitor starts and finishes its updates and the proxy
serves their calls; none need be served twice.

### Where the code and its words differ

The models contain behaviours that a reader of the code's comments and documents might not
expect. No run is devoted to them; where a property would fail for one, its comment or the definition
it names makes the exception.

*Engine and WebSocket server.* The last connection decides under the mutex to shut the server
down and does so after releasing it (`edb/src/cmd/server.rs:279-306`); a client that reuses the
server in between is counted and loses it. `CountPrepared` resets the count to
one although another connection may have been counted (`server.rs:242-251`), and
`SendSuccessFails` leaves a count that nobody gives back (`server.rs:172-178`). `CountsConnections`
says that the counts are otherwise those of the connections, and follows these two in `recounted`. After a
panic that unwinds, `handles` names servers that died with the worker's runtime
(`WorkerPanics`).

*Proxy and registry.* An edb process never registers again: if its proxy ends and
another is started, its heartbeats are answered with an error that nobody reads
(`edb/src/proxy.rs:128-140`), and the new proxy shuts down while the process runs, although it
"automatically shuts down when no EDB instances are active" (README of rpc-proxy, line 348). A
monitor that saw no instance may start a grace period behind a fresh registration (`MonitorGrace`).
Whether a process lives is what `kill -0` says, and where that cannot be run, or the signal is not permitted, a live
process is taken for dead (`registry.rs:238-250`): it is removed for good, however timely its heartbeats.
`ProcessChecks` leaves open what is seen of every process, and `MembersStayRegistered` excepts those
once taken for dead.

*Requests and cache.* `Rechecked` forgets which
providers were tried, so that one may be asked twice (`rpc.rs:439`; README of rpc-proxy, line
609), and `LeaveLoop` may answer an error only one provider gave (line 610). Three alike errors are believed
although another provider is in order and would answer (`rpc.rs:551-559`), so that `Failover` asks for
fewer than that which may fail (`EnoughTurns`). One error that blames the request is believed at once, that of
a provider without the method too (`rpc.rs:526-534`; "Returns error only when multiple unique providers agree", README of
rpc-proxy, line 610), and `Failover` excepts such an answer. A reply from the cache bears the id of the request
that filled it, since the key has none (`rpc.rs:691-703`; `RepliesAreTheirs`). An answer whose text
looks like a rate limit demotes its provider, whatever it says (`rpc.rs:269`). A null for a
transaction that is not mined yet, and `eth_getLogs` and `eth_call` without a block, are kept for
ever, though only what is final should be (`rpc.rs:41`, `57`); these are the exceptions of `RepliesAreCurrent`. Two cache
writers both remove the directory; the second rename meets the first's new directory and fails,
and the clean-up of the failure removes that directory (`cache.rs:626-633`, `665-685`). The rename may also fail
by itself, for the system's reasons, when the old directory is gone already (`RenameFails`): until the next save nothing is
there, though the comment says "Either all split files appear together, or none appear". The directory is absent between `RemoveDirEnds` and `Rename`, a save that
overlaps a deletion restores what was deleted, a legacy `rpc.json` brings deleted
entries back at every load (`Legacy`) and counts them as the disk's, so that the
directory outgrows every limit although "If disk was larger: respect disk size (no growth)" (`cache.rs:384-505`, the
words at 463; `CapacityHeld` speaks of a directory without one). Files `rpc.json.N` of an older version, beside the
directory, are read again whenever it is absent (`cache.rs:705-708`, `Flat`). A process with a smaller limit than
the one before keeps the larger directory as it is, which `test_size_management_disk_larger` (`cache.rs:943`) wants too. A deletion overwrites what other processes saved with
what its own process holds (`Delete`), and a cache of zero items holds the last one set.

*Metrics and monitor.* `cache_hit_rate` reads its counters one after the other and may exceed 100 %;
`load_percentage` divides attempts by misses, which are counted later (`metrics.rs:144`). An error
of a cacheable method counts twice in `total_errors` (`rpc.rs:231`). `fetch_all_data` never
fails, so that the branch "Continue with stale data" (`tui/app.rs:200`) is never taken and a lost
proxy erases the display. After a restart, panels may mix two proxies.

*Preparation.* A token created by CREATE2 in an instrumented factory gets another address
(`hook_snapshot_inspector.rs:547-595`), and the frames of a contract created by an instrumented
factory look their steps up in the wrong analysis and have no snapshots
(`analysis/mod.rs:40-65`). Two contracts with the same code and arguments get the first one's hooks.
One contract whose creation is not found, or one failed recompilation, fails the whole preparation.
The fourth strategy for constructor arguments practically never succeeds. It looks for the end of a pattern in as
many instructions as `CONSTRUCTOR_ARG_SEARCH_RANGE` says, and panics where the code is shorter
(`tweak_inspector.rs:231-233`; `SearchPanics`, which code of the `terse` build meets); the preparation then
fails. In quick mode stale nonces make creations fail, and system
transactions are skipped, with their effects. `RunsInstrumentedCode` speaks of contracts that can
be replaced and replayed, prepared in full.

*Inspectors.* The call tracer's `step`, `log` and `selfdestruct` take the entry listed last for the
one in execution (`call_tracer.rs:85`, `251`, `269`). After a call returned, that is the callee's. A
creation that ends in an error is marked as a created contract (226-247). `update_stack` panics when an
instruction fails for want of operands (`opcode_snapshot_inspector.rs:280-296`; `Panic` in the
model). After a failed creation the stack shown has the address where the machine has 0 (585-590;
`misread`). A callee's first snapshots show the balances from before the value transfer (327). The
hook inspector reads KECCAK256's memory before it is expanded. In
`StepAnalysis` a function entered twice on top of the stack makes what is known of it invalid
(`Entered`), and the analysis goes on with a guess.

*Analysis and instrumentation.* A comment says that arrays are not recorded before Solidity 0.8 (`codegen.rs:56-58`);
the code reports those without user-defined types from 0.4.24 on. Edits merged at one position keep the priority of the first
(`modification.rs:78-94`), and steps are visited from the last to the first (`analysis/common.rs:319-321`). At a
function's first statement the text therefore reads: the updates of the parameters, the last one first, the
entry's hook, the statement's hook; the first snapshot knows the parameters (`SnapshotsShowValues`, whose second
mutant visits the steps in the order of the source). Where the body of a `for` has no braces the added bracket decides: the loop variable's
update follows the statement's hook, whose snapshot shows the value before. The view methods of state
variables are put behind their declarations, outside of every function (202-214); the text of the model is a function's, and
has none.
A do-while whose body ends in a bare `if` or loop has its hook inside the added braces. In a
layout without spaces a hook may come in front of a closing brace. A name declared in an
inner scope hides the outer one in the code, but the outer one wins among the locals shown.
All activations of a function share one table of values. Assignments in conditions and headers,
`x++`, `delete` and `push` are not reported; a nested tuple on the left is
`unreachable!`. Parameters of `returns` and `catch` clauses of a `try` are no variables of a step; modifier
invocations are walked after the steps, and arguments of base constructors with no step open. State
variables declared after a function are not visible to its steps. A length of an array that is the name of a constant
panics inside a struct (`types.rs:201`) and is not decoded elsewhere. `SnapshotsShowValues` and `AnalysisIsOfSource` leave
out what their comments list.

*Evaluator.* Arithmetic saturates, and at the width of a word, whatever the type (`evaluator.rs:693-715`): 2 - 3 is 0, and
200 + 100 is 300 in `uint8`, where the contract reverts. `AgreesWithSolidity` says so: beyond what Solidity
computes the answer is the exact number, or the nearest one a word holds, or an error where the divisor is zero. It
leaves out the lowest integer divided by -1, shifts, which keep the bits that leave a narrow
type, and unary operators. The exponent of a number literal is ignored (`1e18` is 1); narrow `<<` and `~` are not
cut to their width; `length` of an array that is a placeholder is 2; `edb_sload` answers 0
for a slot that is not cached, where `edb_getStorage` reads the fork; getters are not found at
opcode snapshots; `abi.rs:190` says "state variables first" and sorts functions first; a local
without a value falls through to the state variable of its name; an address literal is a number and does not
compare with an address; huge indices and offsets panic.

*Texts.* `encode_function_call` is called by its tests only. Bytes of a fixed size less than a word are
shown with their padding and are not read so (`abi.rs:462`); quotes are escaped but not unescaped; a
struct's parameter is called `tuple` in the interface, which is no type to `parse_argument_value`; what
follows the bracket that closes a cast is ignored, and numbers are not held against their size; a
string takes any text, so that its overload wins when it comes first; a lone quotation mark panics
(`abi.rs:445`), and so does shortening a string inside a character (`sol_value.rs:297`). An event's
inputs are paired with its body, which has only those that are not indexed (`resolve.rs:403`), so that an
event with an indexed parameter shows its values by the wrong names. `ValuesComeBack` leaves these out.

*Interface.* A draw with a pending command clears the input but not the cursor, so that
the next character typed panics (`terminal.rs:1881`, `1462`). Without the previous snapshot everything is
marked new (`display.rs:403`). F1 to F3 focus a panel that is hidden in the compact layout (`app.rs:783`).
The file selector stays on after the user went to opcodes. "Breakpoint added or already exists"
(`execution.rs:789`) is not true where its hits are awaited. Enter loses the output of a pending command, and
`step` of a huge number overflows. After a resize to one row the cursor of the code is off the screen.

## 4. The proofs

| Theorem | Module | States |
|---|---|---|
| `TypeCorrect` | `EngineProofs` | `Spec => []TypeOK` |
| `PublishedServers` | `EngineProofs` | `Spec => []PublishedIsServed` |
| `ServersAreKept` | `EngineProofs` | `Spec => []NoLostServer` |
| `AnalysisIsOnce` | `EngineProofs` | `Spec => AnalysedOnce`: Engine implements AnalysisOnce |
| `TypeCorrect` | `EdbServerProofs` | `Spec => []TypeOK` |
| `NobodyStranded` | `EdbServerProofs` | `Spec => []NothingStranded` |
| `ClientsAreServed` | `EdbServerProofs` | `Spec => []ServedUntilAClose` |
| `ConnectionsAreCounted` | `EdbServerProofs` | `Spec => []CountsConnections` |
| `CancelledInTime` | `ProxyProofs` | `Spec => []CancelledSinceCheck` |
| `NoShutdownUnderInstances` | `ProxyProofs` | `Spec => NoShutdownWhileRegistered`, of the registry alone |
| `MembersAreRegistered` | `ProxyProofs` | `LifecycleSpec => []MembersStayRegistered` |
| `NoShutdownUnderMembers` | `ProxyProofs` | `LifecycleSpec => NoShutdownWhileRegistered` |
| `TypeCorrect`, `LifecycleTypes` | `ProxyProofs` | the types of the registry, and of the processes around it |
| `NumbersAgree` | `ProxyProofs` | `MonitorSpec => []MetricsAgree` |
| `RequestsFailOver` | `RpcHandlerProofs` | `ForwardSpec => []Failover` |
| `NoDemotionWithoutCause` | `RpcHandlerProofs` | `ForwardSpec => DemotedForCause` |
| `HandlerForwards` | `RpcHandlerProofs` | `HandlerSpec => ForwardSpec`: the handler implements the forwarding |
| `HandlerFailsOver` | `RpcHandlerProofs` | `HandlerSpec => []Failover /\ DemotedForCause` |
| `RepliesToTheirQuestions` | `RpcHandlerProofs` | `HandlerSpec => []RepliesAreTheirs` |
| `RepliesOfTheirTime` | `RpcHandlerProofs` | `HandlerSpec => []RepliesAreCurrent` |
| `ForwardTypes`, `HandlerTypes`, `PoolKeepsSpareFailures` | `RpcHandlerProofs` | types, and that no provider is chosen that used up its failures |
| `TypeCorrect` | `CacheManagerProofs` | `Spec => []TypeOK` |
| `CapacityIsHeld` | `CacheManagerProofs` | `Spec => CapacityHeld` |
| `SavedIsThere` | `CacheManagerProofs` | `Spec => []MissingOnlyInReplacement` |
| `DeletedIsDeleted` | `CacheManagerProofs` | `Spec => []DeletedStaysDeleted` |
| `TypeCorrect` | `ExecutionManagerProofs` | `Spec => []ExecutionTypeOK` |
| `CallsAreTrue` | `ExecutionManagerProofs` | `Spec => []CachedCallsAreTrue` |
| `AnswersFindTheirUser` | `ExecutionManagerProofs` | `Spec => []WaitsWhereItAsked` |
| `NoHitIsPassed` | `ExecutionManagerProofs` | `Spec => StopsAtBreakpoints` |
| `StepAnalysisTypes` | `PreparationProofs` | `Spec => []TypeOK` |
| `StepAnalysisLinks` | `PreparationProofs` | `Spec => []EveryStepLinked` |
| `StepAnalysisNests` | `PreparationProofs` | `Spec => []StepsNest` |
| `PreparedRunsInstrumentedCode` | `PreparationProofs` | `PrepareSpec => []RunsInstrumentedCode` |
| `PreparedState` | `PreparationProofs` | `PrepareSpec => []CtxInv`: the forked state is the chain's, but for code instrumented |
| `ExtractedArgument` | `PreparationProofs` | `ExtractConstructorArgs` finds the constructor's argument, or none |
| `SpecFramesAgree` | `RecordingProofs` | `ContentsSpec => []FramesAgree` |
| `SpecMergedInExecutionOrder` | `RecordingProofs` | `ContentsSpec => []MergedInExecutionOrder` |
| `SpecStepsLinkForward` | `RecordingProofs` | `ContentsSpec => []StepsLinkForward` |
| `SpecSnapshotsHoldTheState` | `RecordingProofs` | `ContentsSpec => []SnapshotsHoldTheState` |

They hold for any callers, connections, transactions, ports, processes, keys, providers, requests,
timeouts, limits, recordings, sessions, functions and numbers of snapshots and calls, for chains of any length and any range in
which constructor arguments are looked for, and for transactions that call and write as much as they like. What they assume
of the constants is named beside them in the modules, and TLC evaluates it in every run: the values for
"none", "many" and "nobody" are not among the others, and functions and modifiers have different ids; the
grace period is positive, as the code requires before it starts the monitor; the providers, and what the
metrics count, are finitely many, as the program's tables are; a request that asks for the same
method with the same parameters is the same question; a
recording is not empty, is numbered from 0 and is linked to itself, as `GetSnapshotInfo` answers; what a session
knows at the start is about the recording; the old files are finite, and a process has a limit.

`Engine`. None of the three invariants is inductive alone. `PublishedIsServed` needs to
know that a caller about to store an address has a live server of its transaction on
it, and that no other caller and no table entry has that port; that two callers do
not store for one transaction follows from the lock. The inductive invariant
`IInv` therefore adds: a caller inside `prepare` has a transaction (`Targeted`); whoever is
past the lock holds it, and nobody else (`LockDiscipline`); a caller about to bind or to store has a
port (`PickedIsPort`); a caller that analyses finds its transaction unpublished
(`UnpublishedWhileAnalysing`); a caller about to store has a listener of its transaction
that was not told to stop (`StartedIsServing`); and what is told to stop is a listener
(`DrainingIsServing`). `InvStep` has one step per action. The refinement (`RefinesStep`)
maps each step to one of `AnalysisOnce` or to a stutter, with `IInv` before and after.

`EdbServer`. While the worker lives, `IInv` of `EngineProofs` holds with the worker as the only caller: its
proof is instantiated, since each step of the server is a step of Engine or none. Beside it stand
`QueueInv`, that each queued handler is in the worker's hands or at exactly one place of the channel, and
`SessionInv`, which relates the handlers to the engine: what `prepare` answered still stands when the worker
passes it on, unless a handler has shut the session down meanwhile (`AnswerStands`), and what is
published has an owner (`PublishedIsOwned`). The last is stronger than `NothingStranded`: a request owns a
server only once `prepare` has answered it. `CountsConnections` is inductive with the finiteness of the
connections that have a session (`CountHolds`), which starts with none and grows by one at a time, so that
nothing need be assumed of their number.

`EdbRegistry` and `ProxyLifecycle`. `CancelledSinceCheck` is inductive together with the types: an instance can
only appear in the window through a registration, which cancels the grace period
before it gives up the lock. `NoShutdownWhileRegistered` follows from it in the one step
that sends the signal. A step of the lifecycle is to the registry a step of its own, the start of a new
proxy, or nothing (`RegistryStep`), so both hold there too; `MembersStayRegistered` is strengthened to
`HeardInTime`, which speaks also of the process that is registering and of the age of its last heartbeat.

`Metrics` and `ProxyMonitor`. `MetricsAgree` compares sums over methods and providers while updates are under
way. For each quantity the invariant counts what was added and what the `record_*` calls under way are yet to add
(`Committed`): an update moves one from the second to the first, the start of a call adds to the quantities what keeps
them balanced (`Balanced`, `RecordingsBalance`), and at rest nothing is to come, which gives `CountersAgree`. That the table stays
within the totals rests on the order: in what is left of a call a total never comes after the method it counts
(`Ordered`), so that no table read exceeds totals read later, which only grow until the proxy restarts, and a restart
fails the calls being answered (`ReplyInv`). Sums are the community modules' folds over finite sets in an order that `CHOOSE`
gives; what the proof needs of them is proved first, by induction over subsets (`SubsetInduction`).

`RpcForward` and `RpcHandler`. `Failover` becomes inductive as `AloneInOrder`: while one provider that serves the
request stays in use, each turn of the loop goes to another that does not serve it and was not asked before, so that the turns
taken are the number of providers asked, no error was counted more often than that, and the loop does not
come to the point at which all were tried. The handler leaves the forwarding's variables to
the forwarding (`HandlerForwardsStep`), which gives the refinement, and all of the forwarding's properties with it.
`HandlerInv` follows one request from its response to the cache and to the reply: a response is what the chain was at a
block between the request's first and the present one, and what is cached of a block that exists is true of every later one.

`CacheManager`. The limits need `StagedHeld`, that what a task is about to write is within some process's, `OwnLimit`, that it
is within its own or no more than the task found, and finiteness of every table for the cardinalities; the two properties about writers need `OneAtATime`, that tasks which never
overlapped are one at most, and `DeletedIsGone`, which follows a deleted key through the copy that
a task has loaded and has not written yet.

`ExecutionManager`. `CachedCallsAreTrue` and `StopsAtBreakpoints` are about answers that arrive late.
`FactsTrue` says of every fact, in the manager's cache and in the background task's, that the server would say the same;
`RequestsLegal` that only what the server answers is ever asked; `HitsKnown` that an
enabled breakpoint is waited for until its hits are in the cache, so that a goto never looks for the
nearest hit among fewer than all. `StopsAtBreakpoints` is an action property: its proof has a step per
command, over lemmas on the least and the greatest hit between two snapshots.

`StepAnalysis`. The invariants say nothing of the stack, on which they depend. `IInv` adds
that only the bottom of the stack has no callsite and that the callsites above it rise
(`Shaped`), so that the call that ends is always the latest one open; that an open callsite is
not linked yet, and whatever was visited and is not linked is open; and that no
link leads further than the loop has come (`Reach`). `LinkNests` is the heart: a link from the latest
open callsite to where the loop is spans only linked snapshots, and no earlier link spans its origin.
Every action but `ReturnToCallsite`, when it stays in the inner loop, ends in `GoOnPreserves`.

`Preparation`. `RunsInstrumentedCode` compares two runs of one transaction, on the chain and on a fork of it in which
other transactions have put other code, and speaks of the end only. The inductive invariant `PrepInv`
follows what lies between. `WorldInv`: the states of the chain follow each other by its
transactions and never change code, so that an address has one transaction that created its code (`CreatedUnique`), which
`CreationTx` finds. `ForkInv`: a fork that has replayed its block up to a transaction is the state the chain had
there. `CtxInv`: the state to be debugged is that of the chain, with the code of the contracts
that were tweaked so far replaced by itself, instrumented, and what was replaced had run. `StageInv`: each contract with
source is still to be tweaked, was tweaked, or is left to the hooks because the transaction creates it.
`InsertedCode` is the step of `InsertCode`: the creation, run again with the recompiled code,
gives the same contract with the same arguments, since what is extracted from the creation code is the
constructor's own or too little for the creation to succeed (`ExtractedArgument`, for each build and over any
search range). `CapturedCall` is that of `Capture`: every address that has a hook is the one the transaction creates, so
that no creation can take the hook of another. TLC has checked `PrepInv` in the run's instance as well.

`Recording` and `SnapshotContents`. Each of the four properties has an inductive invariant about one stage.
`ChainInv` and `FramesInv`: the calls in execution are a chain of callers, and each inspector's stack is that
chain with the number of calls that returned to each frame; `FramesAgree` follows. `RecordInv` places what was
recorded: the list of the hook inspector has an item for every stretch of a frame, and the i-th item, with
the opcode snapshots of its frame, holds the numbers between two cuts (`Layout`), no two placeholders have
one frame (`Distinct`), and frames nest as calls do (`Nested`); so `Merge`, which flattens the list, puts the
numbers in order (`MergedAs`). `LinkInv` is about links in that order: `Nearest` says that a hole is linked to the first
later snapshot of the call itself or one that it returns to. `DataInv` relates the inspector's copies to the machine,
and `KeptInv` the copies for frames that wait for a call to the memory and the stack these frames will find again. Every step of
`SnapshotContents` is one of `Recording`, a stutter or edb's panic (`ContentsRecords`).

Two statements that TLC had found to hold in its instances were false, and failed in the proof. `CapacityHeld`
spoke of the directory also beside a legacy file, which no run had; and `Failover` promised an answer
whatever the numbers of retries, of alike errors and of broken providers are. Both now say under which
condition, and section 3 what the code does otherwise.

Model-checked only: liveness, which is beyond the prover, and so are properties whose operators are computed by recursion over
a tree, a text or a value (`SourceAnalysis`, `Instrumentation`, `InstrumentedRun`, `CallText`, the evaluator, whose
values also need the bits of words); and the panels, whose properties are liveness.

## 5. Not modelled

Parsing, other formatting and drawing (no state that a property here speaks of), the resolver's cache and
the watched expressions of the interface; the serialised form of values; command lines; downloads and compilation
(external services); the on-disk cache of the forked state; response times, timestamps and histories
of the proxy. What each modelled component leaves out is in the notes of PROJECT.json.
