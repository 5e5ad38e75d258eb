# TLA+ models of the Streamax runtime

These modules model the parts of the repository under `src/src/` that hold
state and change it step by step. TLC checks them. Every definition is
translated from the Rust source. `PROJECT.json` lists:

- the source lines each definition stands for (`map`);
- the runs and the properties each one checks;
- a mutant for every property of a passing run, showing that a plausible bug
  in the mapped code breaks it;
- the findings of the violation runs;
- the hazards of the code.

A definition whose code is called but defined nowhere in the repository is
taken from `spec.md` and marked `spec_modelled` in the map. These are
`ExecutionContext::new`, `has_permission`, `load_contract`,
`execute_contract` and `handle_message`.

## The system and its models

| Part | Source | Module | Instantiated by |
|---|---|---|---|
| Enhanced VM: instruction loop, nested contract calls, resources | `runtime/vm.rs`, `runtime/instructions.rs`, `runtime/mod.rs` | `Interpreter` | `MCRuntime` |
| Enhanced VM: actor mailboxes | `runtime/vm.rs` | `Mailbox` | `MCRuntime` |
| Bytecode VM | `vm/main.rs` | `BytecodeVM` | `MCRuntime` |
| Region bump arena | `core/memory.rs` | `Region` | `MCComponents` |
| Paged MemoryManager | `core/memory.rs` | `MemoryManager` | `MCComponents` |
| GasMeter and GasEstimator | `stdlib/core/gas.rs` | `GasMeter`, which refines `GasBudget` | `MCComponents` |
| Storage collections: Map, Set, Vec, Queue | `stdlib/collections/mod.rs` | `Collections`, which refines `CollectionViews` | `MCComponents` |
| ConcurrentModuleLoader and HotReloadManager | `core/module/concurrent.rs`, `hot_reload.rs`, `mod.rs` | `ConcurrentLoader` | `ConcurrentLoader` (its own cfgs), `MCRuntime` |
| Synchronous ModuleLoader | `core/module/loader.rs` | `ModuleLoader` | `MCRuntime` |
| Module caches | `core/module/cache.rs`, `cache_opt.rs` | `OptimizedCache`, which refines `ModuleCache` | `MCComponents` |
| Parallel build | `tools/build/parallel.rs` | `ParallelBuilder` | `MCParallelBuilder` |
| Package WorkspaceManager | `tools/package_manager/workspace.rs` | `Workspace` | `MCComponents` |
| Package Registry and Resolver | `tools/package_manager/mod.rs` | `PackageResolver` | `MCComponents` |
| Debugger over the VM | `tools/debugger/mod.rs` | `Debugger` | `MCComponents` |
| TheoremProver | `stdlib/verification/mod.rs` | `TheoremProver` | `MCComponents` |
| Security ConstraintSolver | `security/solver.rs` | `Solver` | `MCComponents` |
| Security ModelChecker | `security/model_checker.rs` | `ModelChecker` | `MCComponents` |
| Security SymbolicExecutor | `security/symbolic.rs` | `SymbolicExecutor` | `MCComponents` |
| BlockchainTestEnvironment | `testing/blockchain/mod.rs` | `Blockchain` | `MCComponents` |
| EventLog and EventFilter | `stdlib/core/events.rs` | `Events` | `MCComponents` |
| `math::sqrt` | `stdlib/core/math.rs` | `StdMath` | `MCComponents` |
| TypeChecker | `compiler/type_checker.rs` | `TypeChecker` | `MCTypeChecker`, `MCComponents` |
| Parser | `compiler/parser.rs` | `Parser` | `MCParser`, `MCComponents` |
| IR lowering (`IRBuilder`, `optimize`, `lower`) | `compiler/ir.rs`, `compiler/main.rs` | `IRBuilder` | `MCComponents` |
| Core TypeChecker (`check_expr`) | `core/types/mod.rs` | `CoreTypes` | `MCComponents` |
| Bridge: `BridgeProtocol::verify_message` | `stdlib/bridge/mod.rs` | `Bridge` | `MCComponents` |

How the parts interact:

- The host builds a `VM` with a program and a gas limit. It may then set the
  actor, acquire and release resources, send messages and call `execute`.
- `execute` checks gas, charges the instruction's cost and dispatches to
  `Instruction::execute`. `CallContract` goes through `VM::call_contract`.
  That method saves the caller's context and installs one whose limit is
  what the caller has left. It then runs the callee and restores the saved
  context.
- No instruction reaches the mailboxes (`SendMessage` falls into
  `_ => Ok(())`), so `Mailbox` is a module of its own.
- The `Debugger` drives the same VM one `step()` at a time.
- The module system loads code for the runtime. The hot-reload manager
  reloads it through the concurrent loader, which is why one module models
  both.
- The build, package manager, cache, security, verification, events, math,
  bridge, blockchain-harness and compiler components stand apart. They share no
  state with the VMs or with each other. The parser's output would be the
  type checker's input, but the model gives each its own inputs: the
  parser keeps no identifier text, so its programs cannot be type checked.
  `IRBuilder` lowers typed ASTs in the records `TypeChecker` reads, with
  the binary operator and the literal's value spelled out.

### Each module

The header of each module says how its state corresponds to the code. In
short:

- Every variable is a field of the code, or a local of a loop that runs
  across several steps, such as `process_messages`'s `for` position or
  `step_over`'s target depth.
- A few are ghost variables that only the properties read. Examples are
  `burned` in `Interpreter`, `shadow` in `MemoryManager`, and `dropped` in
  `OptimizedCache`.
- Every public method is one action, or one action per loop iteration when
  the method loops.
- Guards come from the code's checks and early returns. Error results are
  kept in the order the code returns them.
- Unsigned arithmetic keeps its width where it can overflow:
  - `usize` is 4 bits in `Region`;
  - `u64` is `GasWord` or `U64` in `Interpreter` and `GasMeter`;
  - `u8` storage words in `BytecodeVM`;
  - `i64` is `IntBits` wide.
- Where a debug build panics and a release build wraps, both outcomes are
  possible.
- A `HashMap` or `HashSet` iteration is a choice over every order.
- `ConcurrentLoader` models each `async fn` as steps between its `.await`s
  and lock acquisitions, interleaved over tasks.
- `ParallelBuilder` models the build task, the scheduler and each worker as
  processes with bounded channels.
- Pure recursive code is a RECURSIVE operator: `check_cycles`, the
  theorem prover's fold over proof steps, `execute_symbolic` with its
  forks, Newton's iteration in `sqrt`, every `parse_*` and `check_*` of
  the compiler. One call of the public method is one action.
- The IR builder's fields (the current contract's storage, the current
  function's locals, and the label, local and storage counters) are a
  record each `convert_*` operator takes and returns with its code. A
  label is the pair of its prefix and counter, which `format!` joins
  without ambiguity.
- The parser passes its state (the tokens left and the last value) from
  one `parse_*` operator to the next as a record, and `?` is an error
  that each operator passes on untouched.
- `Events` keeps in `selected` what the last call returned: the events of
  `filter` or `get_events`, and nothing after any other call.

The composition modules `MCRuntime` and `MCComponents`
each check several independent parts in one run. A variable `part`, chosen
in the first state, picks the part a behaviour exercises. The other parts'
variables keep their initial values, so the state spaces add rather than
multiply. Invariants are written `part = "x" => X!Inv`.

In `MCComponents`, each refinement property reads its mapping only in its
own part. In every other part that mapping is the abstract initial state,
and every step is a stuttering step.

## Runs

There are two pass runs and ten violation runs.

| Run | Module / cfg | Expect | What it shows |
|---|---|---|---|
| runtime | `MCRuntime` | pass | A nested call never gets more gas than its caller has left, and a context overdraws by less than one instruction. A resource moves only between an owner and `None`, and only its owner frees it. Every `call_function` of the bytecode VM returns. In the concurrent module loader, every semaphore permit is free or held by exactly one load in progress, however `load_module` returns, and every loader call, reloads included, returns, even with the permit contended. The synchronous loader inserts a module only after its dependencies. The mailboxes are explored; what they lose or reorder is left to reproductions. |
| components | `MCComponents` | pass | Twenty more parts, described after this table. |
| interpreter_nested_gas_charged | `MCRuntime_NestedGasCharged` | violation | A nested call's gas is dropped when the caller's context is restored. |
| interpreter_context_restored | `MCRuntime_ContextRestoredAfterCall` | violation | A failing nested call leaves the callee's context installed. |
| region_release_overflow | `MCComponents_RegionRelease` | violation | `allocate(usize::MAX)` wraps past the capacity check in a release build, and a later block overlaps. |
| bytecode_vm_return_value | `MCRuntime_ReturnValueFromCallee` | violation | A function that pushes nothing returns a value an earlier call left on the stack. |
| bytecode_vm_guard_held | `MCRuntime_GuardHeldInRegion` | violation | The reentrancy guard is dropped at the end of the `NOREENTRY_START` arm. |
| concurrent_loader_double_load | `ConcurrentLoader` / `ConcurrentLoader_DoubleLoad` | violation | With two permits, two loads of one module both insert it; the double check does not deduplicate. |
| loader_reload_stale | `ConcurrentLoader` / `ConcurrentLoader_Reload` | violation | `check_updates` reports `Reloaded` for a module built from the old source. |
| parallel_build_returns | `MCParallelBuilder_BuildReturns` | violation | `build` never returns, because it holds a sender of its own result channel. |
| workspace_removed_stays | `MCComponents_WorkspaceRemoved` | violation | Under the default `"*"` pattern, a removed member is loaded again. |
| debugger_gas | `MCComponents_DebuggerGas` | violation | `Debugger::step` executes past the gas limit. |

The components run checks these parts:

- Region: its blocks never overlap.
- MemoryManager: a read returns the last byte written at that address, and
  fails exactly on unmapped pages.
- GasMeter: it implements `GasBudget`, and the estimator saturates at
  `u64::MAX`.
- Storage collections: they implement independent maps, sets, stacks and
  FIFO queues (`CollectionViews`).
- WorkspaceManager: `load` accepts exactly the acyclic and resolvable member
  graphs.
- Resolver: its resolutions are consistent.
- Debugger: its type invariant; its gas check is the violation run `debugger_gas`.
- OptimizedModuleCache: its caches stay within capacity, and it implements
  `ModuleCache` as a cache that may forget entries.
- TheoremProver: the conclusion of every theorem `prove` stores follows
  from the axioms and the theorem's assumptions.
- ConstraintSolver: its type invariant. The iteration count stays within
  `max_iterations`, and decisions never outnumber iterations. Whether
  `solve` returns within its budget is the reproduction below.
- ModelChecker: once `build_state_space` returns, every state within
  `max_depth` is in the state space, and the states short of it were
  explored.
- SymbolicExecutor: `execute_function` returns exactly the branch outcome
  sequences that the depth allows.
- BlockchainTestEnvironment:
  - `deploy_contract` never returns the same address twice;
  - `get_current_block` is the newest block.
- `sqrt`: when it returns, it returns the integer square root.
- Events: a name-only filter selects what `get_events` returns.
- TypeChecker: a check that returns Ok leaves no function's parameters or
  locals in scope.
- Parser: an Ok parse prints back to its input.
- IRBuilder: every `Jump` and `JumpIf` of a lowered function names a label
  its body places exactly once, although `new_label`'s counter runs on
  across nested and successive `If`s and across functions.
- CoreTypes: on twelve expressions, one for each Ok and error return,
  `check_expr` accepts an expression without a shadowed parameter only
  with the type its value has under lexical scope
  (`TypeSoundWithoutShadowing`). Soundness in full, `TypeSound`, fails, and
  is the reproduction `MCComponents_CoreTypes.cfg` below.
- Bridge: the run explores `verify_message` but checks no property of it;
  its one property, `QuorumSigned`, fails, and is the reproduction
  `MCComponents_BridgeQuorum.cfg` below.

`PROJECT.json` says what each violation shows about the code, with the line
where it happens.

Some reproductions are kept beside the runs. Each one is named in a
hazard of `PROJECT.json`. TLC finds each property violated:

- `MCComponents_Evictions.cfg`: `CacheStats.evictions` drifts from the
  number of entries the LRU caches actually dropped, within three states.
- `MCComponents_SolverBudget.cfg`: `solve` goes on past `max_iterations`.
- `MCComponents_SqrtTotal.cfg`: `sqrt(255)` overflows on `x + 1`. In a
  debug build it panics.
- `MCComponents_BridgeQuorum.cfg`: `verify_message` accepts a message
  whose only signer, a validator of weight 1, is listed three times, at
  threshold 3. The loop adds a validator's weight once per signature.
- `MCComponents_Lowering.cfg`: `let x = 1; let x = x + 1; return x`
  lowers to code that returns 1. `find` on the function's locals takes the
  first `x`, while the type checker has rebound the name to the second.
  `LoweringPreservesResult` compares a small stack-machine reading of the
  IR with the source's meaning, for the statements and operators the
  builder lowers.
- `MCComponents_CoreTypes.cfg`: `(fn(x: Bool) -> fn(x: Int) -> Bool { x })(true)(5)`
  type checks as Bool and evaluates to the Int 5. `check_function` pushes
  the inner parameter after the outer one, and `lookup_variable` takes the
  first binding of `x`. `TypeSound` compares the checker's type with the
  type of the value a lexically scoped evaluation gives.
- `MCRuntime_MessageLost.cfg`: a message sent to an actor whose handler
  fails is popped and lost: `process_messages` pops before it calls
  `handle_message` and leaves by `?`. `NoMessageLost` states spec 4.6's
  dispatch to completion.
- `MCRuntime_UnloadDependedOn.cfg`: load `m1` and `m2`, add `m1` to `m2`'s
  dependencies, and `unload_module(m1)` returns `Err` with `m1` already
  removed. `unload_module` removes the entry before it looks for
  dependents (`UnloadKeepsDependedOn`).
- `MCRuntime_MailboxFIFO.cfg`: two messages sent to one actor are handed
  to `handle_message` newest first. `process_messages` drains each mailbox
  with `Vec::pop`, while spec 4.6 dequeues it FIFO; `HandledInSendOrder`
  states the FIFO order.
- `MCTypeChecker_Declared.cfg`: a call statement to a function defined
  nowhere type checks, because `check_statement` never looks at it.
- `MCParser_Progress.cfg`: a token before the first `contract` makes
  `parse` loop forever. `parse_contract` returns `Ok(None)` and consumes
  nothing.
- `MCParser_Grammar.cfg`: a custom type needs two identifiers, and
  `mut fn` is rejected, though the AST's grammar has both.

## Bounds

- **Interpreter:**
  - Two actors and one resource.
  - Three contracts: deployed and permitted, permitted only, and neither.
  - 2-bit integers, so `1 + 1` overflows.
  - A gas limit of 150, so the second `CallContract` is charged past the
    limit.
  - Seven programs that together reach every arm and error return.
- **Mailbox:** two actors and four messages. This allows two messages to one
  actor and a handler failure with messages still queued.
- **BytecodeVM:**
  - Two contracts whose code (listed in `MCRuntime`) reaches every opcode
    arm, a JUMP loop, a missing operand and the end of the code.
  - 17 units of gas and 8-bit words.
  - At most two frames and three stack entries.
- **Region:** capacity 3, a 4-bit `usize`, and sizes 0, 1, 2 and `usize::MAX`.
  The components run uses the debug build (`RegionBuild`), and
  `MCComponents_RegionRelease.cfg` the release build.
- **MemoryManager:** two pages of two bytes each, and the first address past
  them.
- **Collections:** one collection of each kind, one key, two items, and at
  most two elements.
- **Workspace:**
  - Five directories: a diamond closed into a cycle, a package needing the
    registry, and a directory without a manifest.
  - A package outside the root that needs the diamond's bottom.
  - One pattern added to the config in the components run
    (`WsMaxPatterns`), and two in `MCComponents_WorkspaceRemoved.cfg`. From an empty config, one added directory and the
    outside package already form the diamond without a cycle.
- **Resolver:** two names with two versions each. The dependencies meet the
  same name at another version.
- **Debugger:**
  - Two programs: one ends with a `Store` costing more than the limit, the
    other underflows and calls.
  - One watchpoint name.
  - The host stops at 24 units of gas.
- **OptimizedCache:**
  - Two of the four caches, two names and two values.
  - Capacities 1 and 2, enough for an LRU drop and an update at capacity.
  - One lookup and one eviction per behaviour.
- **ConcurrentLoader:**
  - Two modules and two tasks competing for one permit.
  - In the runtime run, one file modification, enough for `check_updates`
    to reload a module, and no refused source version: `ValidationError`
    leaves `load_module` by the same `Err` return as a deleted file's
    `NotFound`, which the run reaches. This keeps the run near two
    minutes.
  - In `ConcurrentLoader`'s own configurations, two modifications, the
    second refused by the validator, enough for a modification during a
    reload. The double-load configuration gives the semaphore two
    permits (the code has 32): with one, loads of one module are
    serialized and `LoadsDeduplicated` holds.
- **ModuleLoader:** a diamond whose one hook fails on load and another on
  unload, plus a module without a file.
- **Bridge:** validators of weight 1 and 2, a key no validator has, threshold
  3, a 2-bit weight sum (so weight 2 twice wraps), and up to three
  signatures. Three signatures are the fewest that reach the threshold with
  one validator of weight 1.
- **IRBuilder:** two programs and the optimization levels 0 and 2. The
  first has two contracts (so slots number on), three `If`s in one
  function, one nested and one with an else, a let in a branch, an
  assignment to storage and one to an index, a parameter, an `Or` and a
  `While` that lower to nothing, and custom, map and array types. Two
  successive `If`s are the fewest that tell a counter that moves from one
  that does not. The second program declares a name twice.
- **CoreTypes:** twelve expressions: two calls that check, a contract
  that checks and one whose method fails, one expression per error return
  of `check_call` and `check_function`, an argument and a callee that fail,
  and the shadowing call. Nesting depth three is the least at which a
  shadowed parameter is read.
- **ParallelBuilder:** three targets (one named twice) and two workers.
- **TheoremProver:**
  - Three atoms.
  - Proofs of at most two steps, enough to reach every check of `prove`.
- **ConstraintSolver:** two variables, three kinds of condition, and
  `max_iterations` of 1 and 4.
- **ModelChecker:**
  - Three states with a cycle and a dead end.
  - `max_depth` up to 3.
  - At most two calls of `verify`, so a search can start on a used state
    space.
- **SymbolicExecutor:** depth up to 3, and four functions with Jumps
  before and after a Return.
- **Blockchain:** two addresses, nonces up to 2, and three blocks.
- **Events:** two names, one topic and one indexed field; logs of two
  events.
- **sqrt:** every 8-bit argument in both builds.
- **TypeChecker:** `MCTypeChecker` holds one program that is accepted,
  and programs that each reach one error return of the checker.
- **Parser:** `MCParser` holds the contracts of the grammar, each base
  vector with one token deleted or replaced, and a vector for each path
  the grammar does not take.

Each bound is the smallest that reaches every branch of its code and the
interleaving a property is about. The mutants confirm that each property is
reachable under these bounds.

## Fairness

- **Mailbox:** its module states weak fairness on the steps of
  `process_messages`, a plain loop on the caller's thread. No checked
  property is about its progress, so `MCRuntime` leaves it out.
- **BytecodeVM:** weak fairness on the steps of `VM::execute`'s loop. The
  loop never blocks.
- **ConcurrentLoader:**
  - Weak fairness on each task's steps, because a tokio task that is ready
    is eventually polled.
  - Strong fairness on taking the semaphore, because tokio's semaphore is
    FIFO-fair.
- **ModuleLoader:** its module states weak fairness on its recursive
  load, which runs on the caller's thread; `MCRuntime` checks only the
  safety property `DepsLoadedFirst` of it and leaves the fairness out.
- **ParallelBuilder:** weak fairness on every process, as in the
  concurrent loader.
- **Everywhere else:** no fairness. The host may stop calling at any time.

In the composed runs, each fairness condition is stated for its own part's
steps.

## Not modelled

- **Compiler lexer and the rest of `Compiler::compile`:** the lexer is
  generated by `logos` and works on characters. The rest of `compile`
  reads and writes files and calls the code generators.
- **Security tooling:** `SecurityAnalyzer` and `FormalVerifier` return
  empty results. The model checker's successor function and property
  checks are stubs, so the model takes them as constants.
- **IDE and themes:** formatting and layout.
- **Testing harnesses other than the blockchain environment:** they call
  APIs that do not exist (`VM::new()?`, `vm.execute(&[u8])`).
- **Bridge chain stubs, crypto and the other math functions:** hashing,
  signatures and single library calls. The Bitcoin, Ethereum and TON
  bridges' functions return constants, and `verify_message` discards
  their value; only its weight loop and threshold test are modelled. `Event::set_data` is left out, because nothing
  reads an event's data.
- **Build system** (`tools/build/mod.rs`): stubs and network calls defined
  nowhere in the repository.
- **Package manager:** `Manifest` and `Lockfile` TOML I/O and the
  `PluginManager`.
- **VM fields nothing reads:** `check_permission`, `emit_event`, the VM
  storage, and `Value` variants other than Int and Bool.

`PROJECT.json`'s components list gives the reason for each part left out.
