------------------------------ MODULE MCComponents ------------------------------
(***************************************************************************)
(* The components that share no state with each other, checked in one    *)
(* run: the Region arena and paged MemoryManager, the GasMeter, the       *)
(* storage collections, the package WorkspaceManager and Resolver, the    *)
(* Debugger, the OptimizedModuleCache, the TheoremProver, the security     *)
(* ConstraintSolver, ModelChecker and SymbolicExecutor, the blockchain    *)
(* test environment, the EventLog, math::sqrt, the TypeChecker, the       *)
(* Parser, the IR lowering, the bridge's verify_message and the core      *)
(* effect-typed TypeChecker (CoreTypes).  A behaviour                     *)
(* exercises one of them (part, chosen at the start) while the others     *)
(* keep their initial state; each part's properties are checked over all  *)
(* of its own behaviours.                                                  *)
(*                                                                         *)
(* Workspace: a root with five directories: d0 without a Package.toml;    *)
(* d1, d2, d3 whose packages n1 -> {n2, n3}, n2 -> {n3} form a diamond,   *)
(* closed into a cycle by n3 -> n1; d4 whose package needs a registry      *)
(* package.  A directory outside the root holds another package named    *)
(* n2, needing n3.  add_member may bring the config to one pattern: from  *)
(* an empty config, d1 with the outside n2 is a diamond without a cycle;  *)
(* "*" of the default config loads every directory.  WsMaxPatterns is 1  *)
(* for the run; its reproduction allows two patterns, so that add_member  *)
(* can add d1 beside the default "*".                                      *)
(*                                                                         *)
(* Resolver: two package names with two versions each.  p 2 needs any q,  *)
(* q 2 needs p 1, so resolving p from the top meets p again at another     *)
(* version; a second q 2 without dependencies makes get_package choose    *)
(* between equal versions.  Three packages in the registry; every manifest *)
(* of at most one entry per name, in both HashMap orders.                 *)
(*                                                                         *)
(* OptimizedModuleCache of src/core/module/cache_opt.rs: the symbol and   *)
(* type caches, two names, two values, capacities 1 and 2, one lookup    *)
(* and one eviction per behaviour.                                        *)
(*                                                                         *)
(* TheoremProver: three atoms, and axioms among them, two implications    *)
(* and a ForAll; proofs of at most two steps, each an assumption, a       *)
(* ModusPonens over the first three known propositions or an unsupported  *)
(* justification, with or without an assumption, concluding b or c.      *)
(* That reaches every check of prove, a ModusPonens whose first entry is  *)
(* not an implication, indices past known_props, and a proof stored over  *)
(* one already there.                                                      *)
(*                                                                         *)
(* ConstraintSolver: two variables; a Concrete condition, Variable(x) and *)
(* a compound over x and y; max_iterations 1 and 4.                        *)
(*                                                                         *)
(* ModelChecker: three contract states, s0 -> s1, s2 and s1 -> s0, so    *)
(* the search meets a cycle and a state without successors; max_depth 0   *)
(* to 3; one property of each kind, the liveness one violated; the host    *)
(* calls verify at most twice (CheckerCalls), so a second search starts   *)
(* on a state space that holds the first one's states.                     *)
(*                                                                         *)
(* SymbolicExecutor: max_depth 0 to 3; functions with a Jump before and   *)
(* after a Return, with two Jumps, and without a Jump or a Return.        *)
(*                                                                         *)
(* BlockchainTestEnvironment: two addresses, one funded with 2 by        *)
(* setup_default_accounts; a gas limit of 1; set_balance to 0 or 1, so a  *)
(* deploy may fail with InsufficientFunds, and a deploy from the unfunded *)
(* address with AccountNotFound; nonces up to 2, three blocks and one     *)
(* second of clock.                                                        *)
(*                                                                         *)
(* Events: two names, one topic, one indexed key and value, a log of two  *)
(* events and one topic or field per event or filter.                     *)
(*                                                                         *)
(* sqrt: every 8-bit argument, in both builds; 255 + 1 overflows.         *)
(*                                                                         *)
(* TypeChecker and Parser: the programs of MCTypeChecker and the token    *)
(* vectors of MCParser.                                                    *)
(*                                                                         *)
(* Debugger: two programs, one that pushes, pops and ends with a Store     *)
(* costing 20 past a gas limit of 3, one that starts with a Pop of the    *)
(* empty stack and holds a Call and a Return; one watchpoint name.        *)
(***************************************************************************)
EXTENDS Integers, FiniteSets, TLC

CONSTANTS cm, cs, cv, cq, Closed, Unm,
          d0, d1, d2, d3, d4, out, missing, n1, n2, n3, n4, ext, p, q, w1,
          sy, ty, k1, k2, v1, v2, NoData, pa, pb, pcc, th1, vx, vy, s0, s1, s2, q1, q2, q3,
          ba1, ba2, ev1, ev2, tp1, tcNone, bk1, bk2, bk3,
          RegionBuild,  \* the build Region runs in: "debug" for the run, "release" for its reproduction
          WsMaxPatterns \* the member patterns add_member lets the workspace config reach

VARIABLES
  part,                                  \* which component this behaviour runs
  size, live, regionResult, mode,        \* Region
  pages, managerResult, lastOp, shadow,  \* MemoryManager
  remaining, limit, used, gasResult, estimate, \* GasMeter
  store, len, collResult,                     \* Collections
  disk, up, cfg, members, wsResult, removed,  \* WorkspaceManager
  registry, resResult,                        \* Registry and Resolver
  program, pc, stack, gasUsed, callStack, breakpoints, watchpoints,
  dstate, loop, target, dbgResult,   \* Debugger
  lru, cap, maxSize, hits, misses, evictions, cacheResult, dropped, \* OptimizedModuleCache
  axioms, theorems, tpResult,                 \* TheoremProver
  constraints, maxIter, svMode, assignment, unassigned, pick, trail,
  iterations, decisions, propagations, svResult, \* ConstraintSolver
  mcDepth, enabled, states, transitions, initial, queue, visited, explored,
  transExplored, maxDepthReached, mcMode, verified, results, counterexamples, \* ModelChecker
  seDepth, paths, fn,                         \* SymbolicExecutor
  accounts, blocks, currentBlock, timestamp, bcResult, deployed, \* BlockchainTestEnvironment
  log, event, filter, selected,               \* EventLog and EventFilter
  mathValue, mathRoot,                        \* math::sqrt
  tcVariables, tcFunctions, tcEvents, tcCurrent, tcPure, tcResult, tcProgram, \* TypeChecker
  pTokens, pContracts, pResult, pInput,       \* Parser
  brSigs, brVerdict,                          \* BridgeProtocol
  irAst, irOut,                               \* IRBuilder
  ctChecked, ctResult                         \* core TypeChecker

\* A 4-bit usize: 15 stands for usize::MAX.
MCSizes == {0, 1, 2, 15}

\* Two pages of two bytes, and the first address past them.
MCAddrs == 0..4

Rg == INSTANCE Region WITH Capacity <- 3, Sizes <- MCSizes, Word <- 16,
                           Build <- RegionBuild, MaxLive <- 3, result <- regionResult
M == INSTANCE MemoryManager WITH PageSize <- 2, MaxPages <- 2, Bytes <- {0, 1},
                                 Addrs <- MCAddrs, Unmapped <- Unm,
                                 result <- managerResult

\* The distinct values of gas.rs's costs module: ZERO, BASE, VERY_LOW, LOW,
\* MID, HIGH, EXT, SPECIAL.
MCAmounts == {0, 2, 3, 5, 8, 10, 20, 40}

\* Sizes up to and past the point where per_byte_cost * size passes u64::MAX
\* (u64 scaled to 8 bits).
MCDataSizes == {0, 1, 20, 64, 200}

G == INSTANCE GasMeter WITH Limit <- 100, Amounts <- MCAmounts, U64 <- 256,
       BaseCost <- 3, PerByte <- 4, DataSizes <- MCDataSizes, result <- gasResult

\* One collection of each kind, with the namespaces b"m", b"s", b"v" and
\* b"q"; one map key and two items.
MCKind == cm :> "map" @@ cs :> "set" @@ cv :> "vec" @@ cq :> "queue"
MCNs == cm :> <<109>> @@ cs :> <<115>> @@ cv :> <<118>> @@ cq :> <<113>>

C == INSTANCE Collections WITH Colls <- {cm, cs, cv, cq}, Kind <- MCKind,
       Ns <- MCNs, Keys <- {<<7>>}, Items <- {2, 3}, NoItem <- 0,
       MaxLen <- 2, result <- collResult

MCDirOrder == <<d0, d1, d2, d3, d4>>

MCManifest ==
  d1 :> [name |-> n1, deps |-> (n2 :> "version" @@ n3 :> "path")]
  @@ d2 :> [name |-> n2, deps |-> (n3 :> "path")]
  @@ d3 :> [name |-> n3, deps |-> (n1 :> "git")]
  @@ d4 :> [name |-> n4, deps |-> (ext :> "version")]
  @@ out :> [name |-> n2, deps |-> (n3 :> "path")]

W == INSTANCE Workspace WITH DirOrder <- MCDirOrder, Outside <- out,
       Missing <- missing, Manifest <- MCManifest, MaxPatterns <- WsMaxPatterns,
       result <- wsResult

Pkg(n, v, deps) == [name |-> n, version |-> v, deps |-> deps]

MCCatalogue ==
  { Pkg(p, 1, <<>>), Pkg(p, 2, << <<q, {1, 2}>> >>),
    Pkg(q, 1, <<>>), Pkg(q, 2, << <<p, {1}>> >>), Pkg(q, 2, <<>>) }

Entries(n) ==
  {[n |-> n, kind |-> "version", req |-> r] : r \in {{1}, {2}, {1, 2}}}
  \cup {[n |-> n, kind |-> "git", req |-> {}]}

MCManifests ==
  {<<>>} \cup {<<e>> : e \in Entries(p) \cup Entries(q)}
  \cup {<<e, f>> : e \in Entries(p), f \in Entries(q)}
  \cup {<<f, e>> : e \in Entries(p), f \in Entries(q)}

R == INSTANCE PackageResolver WITH Catalogue <- MCCatalogue,
       Manifests <- MCManifests, MaxPackages <- 3, result <- resResult

FirstProgram == <<"Push", "Sub", "Pop", "Store">>
MCPrograms == {FirstProgram, <<"Pop", "Push", "Call", "Return">>}

D == INSTANCE Debugger WITH Programs <- MCPrograms, GasLimit <- 3,
       WatchNames <- {w1}, MaxGas <- 24, result <- dbgResult

OC == INSTANCE OptimizedCache WITH
        Kinds <- {sy, ty}, SymbolsKind <- sy, Keys <- {k1, k2}, Vals <- {v1, v2},
        None <- NoData, Sizes <- {1, 2}, MaxCount <- 1, result <- cacheResult

Atom(x) == [tag |-> "Atomic", a |-> x]
Imp(l, r) == [tag |-> "Implies", l |-> l, r |-> r]
PA == Atom(pa)
PB == Atom(pb)
PC == Atom(pcc)
MCProps == {PA, PB, PC, Imp(PA, PB), Imp(PB, PC), [tag |-> "ForAll", x |-> "x", body |-> PB]}
Asm(pr) == [just |-> "Assumption", prop |-> pr]
MP(i, j) == [just |-> "ModusPonens", p1 |-> i, p2 |-> j]
MCSteps == {Asm(PA), Asm(PB), [just |-> "UniversalInstantiation"]} \cup {MP(i, j) : i, j \in 0..2}
MCProofs == {[assumptions |-> as, steps |-> s, conclusion |-> c] :
               as \in {{}, {PA}}, c \in {PB, PC},
               s \in {<<>>} \cup {<<x>> : x \in MCSteps} \cup {<<x, y>> : x, y \in MCSteps}}

TP == INSTANCE TheoremProver WITH Atoms <- {pa, pb, pcc}, Props <- MCProps,
        Proofs <- MCProofs, Names <- {th1}, MaxAxioms <- 2, result <- tpResult

MCConds == {[kind |-> "Concrete"], [kind |-> "Variable", v |-> vx],
            [kind |-> "Compound", vars |-> {vx, vy}]}

SV == INSTANCE Solver WITH Vars <- {vx, vy}, Conds <- MCConds, MaxIterations <- {1, 4},
        MaxConstraints <- 2, mode <- svMode, result <- svResult

MK == INSTANCE ModelChecker WITH CStates <- {s0, s1, s2}, InitState <- s0,
        Succ <- (s0 :> <<s1, s2>> @@ s1 :> <<s0>> @@ s2 :> <<>>), MaxDepths <- 0..3,
        Props <- ("Safety" :> <<q1>> @@ "Liveness" :> <<q2>> @@ "Fairness" :> <<q3>>),
        Violated <- {q2}, maxDepth <- mcDepth, mode <- mcMode

SE == INSTANCE SymbolicExecutor WITH
        Functions <- {<<"Other", "Jump", "Return">>, <<"Return", "Jump">>,
                      <<"Jump", "Jump", "Return">>, <<"Other">>},
        MaxDepths <- 0..3, maxDepth <- seDepth

BC == INSTANCE Blockchain WITH Addrs <- {ba1, ba2}, Default <- {ba1}, InitBalance <- 2,
        GasLimit <- 1, Balances <- {0, 1}, MaxNonce <- 2, MaxBlocks <- 3, MaxTime <- 1,
        result <- bcResult

EV == INSTANCE Events WITH EvNames <- {ev1, ev2}, Topics <- {tp1}, Keys <- {k1}, Vals <- {v1},
        MaxEvents <- 2, MaxParts <- 1

SM == INSTANCE StdMath WITH Width <- 8, Builds <- {"debug", "release"},
        value <- mathValue, root <- mathRoot

\* Bridge: validators bk1 (weight 1) and bk2 (weight 2) with threshold 3,
\* a key bk3 that no validator has, a 2-bit weight sum (bk2 twice wraps),
\* and messages of up to three signatures.
BR == INSTANCE Bridge WITH Keys <- {bk1, bk2, bk3}, Weight <- (bk1 :> 1 @@ bk2 :> 2),
        Threshold <- 3, WeightBits <- 2, Builds <- {"debug", "release"}, MaxSigs <- 3,
        sigs <- brSigs, verdict <- brVerdict
\* The programs of MCTypeChecker, checked by one TypeChecker the host may
\* replace by a new one.
TCP == INSTANCE MCTypeChecker WITH None <- tcNone, NoneVal <- tcNone, Programs <- {},
        variables <- tcVariables, functions <- tcFunctions, events <- tcEvents,
        currentFunction <- tcCurrent, isPure <- tcPure, result <- tcResult, program <- tcProgram
\* The token vectors of MCParser.
PP == INSTANCE MCParser WITH Inputs <- {}, tokens <- pTokens, contracts <- pContracts,
        result <- pResult, input <- pInput
PR == INSTANCE Parser WITH Inputs <- PP!MCInputs, tokens <- pTokens, contracts <- pContracts,
        result <- pResult, input <- pInput
TC == INSTANCE TypeChecker WITH None <- tcNone, Programs <- TCP!MCPrograms,
        variables <- tcVariables, functions <- tcFunctions, events <- tcEvents,
        currentFunction <- tcCurrent, isPure <- tcPure, result <- tcResult, program <- tcProgram

\* IRBuilder: two programs.  The first has two contracts (storage slots
\* numbered on from the first's), parameters, map, array and custom types,
\* a let, assignments to storage and to an index, three Ifs of which one
\* nests in another and one has an else, an Or and a While that lower to
\* nothing, and both returns.  The second declares one name twice.
IRNum(v) == [tag |-> "Number", v |-> v]
IRId(n) == [tag |-> "Id", name |-> n]
IRBin(op, l, r) == [tag |-> "Binary", op |-> op, l |-> l, r |-> r]
IRLet(n, v) == [tag |-> "Let", name |-> n, decl |-> tcNone, value |-> v]
IRAssign(t, v) == [tag |-> "Assign", target |-> t, value |-> v]
IRIf(c, th, el) == [tag |-> "If", cond |-> c, then |-> th, else |-> el]
IRRet(e) == [tag |-> "Return", e |-> e]
IRT(t) == [tag |-> t]
IRP(n, t) == [name |-> n, ty |-> t]
IRFn(n, ps, r, body) == [name |-> n, params |-> ps, ret |-> r, body |-> body, pure |-> FALSE]
IRContract(svs, fns) == [stateVars |-> svs, events |-> <<>>, functions |-> fns]
MCIRPrograms ==
  { << IRContract(<<IRP("total", IRT("U256")), IRP("seen", [tag |-> "Map", a |-> IRT("U256"), b |-> IRT("Bool")])>>,
        << IRFn("step", <<IRP("k", IRT("U256"))>>, IRT("U256"),
                << IRLet("x", IRNum(1)),
                   IRIf(IRBin("Lt", IRId("x"), IRId("total")),
                        <<IRAssign(IRId("total"), IRBin("Add", IRId("total"), IRId("x")))>>,
                        <<IRLet("y", IRBin("Or", IRId("x"), IRId("x"))),
                          [tag |-> "While", cond |-> IRId("x"), body |-> <<>>]>>),
                   IRIf(IRBin("Eq", IRId("x"), IRNum(1)),
                        <<IRIf(IRBin("Gt", IRId("k"), IRNum(0)), <<IRRet(IRId("x"))>>, tcNone)>>, tcNone),
                   IRRet(tcNone) >>),
           IRFn("peek", <<>>, [tag |-> "Custom", name |-> "u128"], <<IRRet(IRId("total"))>>) >>),
       IRContract(<<IRP("xs", [tag |-> "Array", a |-> IRT("U256")])>>,
        << IRFn("g", <<>>, tcNone,
                <<IRAssign([tag |-> "Index", e |-> IRId("xs"), i |-> IRNum(0)], IRNum(1)), IRRet(IRId("xs"))>>) >>) >>,
    << IRContract(<<>>, << IRFn("h", <<>>, IRT("U256"),
         <<IRLet("x", IRNum(1)), IRLet("x", IRBin("Add", IRId("x"), IRNum(1))), IRRet(IRId("x"))>>) >>) >> }

IR == INSTANCE IRBuilder WITH Programs <- MCIRPrograms, Levels <- {0, 2}, None <- tcNone

regionVars == <<size, live, regionResult, mode>>
managerVars == <<pages, managerResult, lastOp, shadow>>
gasVars == <<remaining, limit, used, gasResult, estimate>>
collVars == <<store, len, collResult>>
wsVars == <<disk, up, cfg, members, wsResult, removed>>
resVars == <<registry, resResult>>
dbgVars == <<program, pc, stack, gasUsed, callStack, breakpoints, watchpoints,
             dstate, loop, target, dbgResult>>
cacheVars == <<lru, cap, maxSize, hits, misses, evictions, cacheResult, dropped>>
tpVars == <<axioms, theorems, tpResult>>
svVars == <<constraints, maxIter, svMode, assignment, unassigned, pick, trail,
            iterations, decisions, propagations, svResult>>
mkVars == <<mcDepth, enabled, states, transitions, initial, queue, visited, explored,
            transExplored, maxDepthReached, mcMode, verified, results, counterexamples>>
seVars == <<seDepth, paths, fn>>
bcVars == <<accounts, blocks, currentBlock, timestamp, bcResult, deployed>>
evVars == <<log, event, filter, selected>>
smVars == <<mathValue, mathRoot>>
prVars == <<pTokens, pContracts, pResult, pInput>>
brVars == <<brSigs, brVerdict>>
\* core::types: types, then expressions.
CTInt == [tag |-> "Int", bits |-> 64, signed |-> TRUE]
CTBool == [tag |-> "Bool"]
CTUnit == [tag |-> "Unit"]
CTFnT(ps, r, efs) == [tag |-> "Function", params |-> ps, ret |-> r, effects |-> efs]
CTLit(l) == [tag |-> "Literal", lit |-> l]
CTVar(n) == [tag |-> "Variable", name |-> n]
CTFn(ps, r, efs, b) == [tag |-> "Function", params |-> ps, ret |-> r, effects |-> efs, body |-> b]
CTCall(f, as) == [tag |-> "Call", fn |-> f, args |-> as]
CTContract(n, fs, ms) == [tag |-> "Contract", name |-> n, fields |-> fs, methods |-> ms]
CTIntLit == CTLit([kind |-> "Int", bits |-> 64])
CTBoolLit == CTLit([kind |-> "Bool"])

\* fn(x: Int) -> Int { x }, a function taking it, and one whose inner
\* parameter x hides the outer x: fn(x: Bool) -> fn(Int) -> Bool
\* { fn(x: Int) -> Bool { x } }.
CTId == CTFn(<<<<"x", CTInt>>>>, CTInt, <<>>, CTVar("x"))
CTApply == CTFn(<<<<"f", CTFnT(<<CTInt>>, CTInt, <<>>)>>, <<"y", CTInt>>>>, CTInt, <<>>,
                CTCall(CTVar("f"), <<CTVar("y")>>))
CTShadow == CTFn(<<<<"x", CTBool>>>>, CTFnT(<<CTInt>>, CTBool, <<>>), <<>>,
                 CTFn(<<<<"x", CTInt>>>>, CTBool, <<>>, CTVar("x")))

\* One expression for each Ok and each error return of check_expr.
MCCoreExprs ==
  { CTCall(CTId, <<CTIntLit>>),
    CTCall(CTApply, <<CTId, CTIntLit>>),
    CTCall(CTCall(CTShadow, <<CTBoolLit>>), <<CTIntLit>>),
    CTCall(CTFn(<<>>, CTUnit, <<"WriteState">>, CTLit([kind |-> "Unit"])), <<>>), \* UnauthorizedEffect
    CTCall(CTBoolLit, <<>>),                                   \* NotAFunction
    CTCall(CTId, <<>>),                                        \* ArgumentCountMismatch
    CTCall(CTId, <<CTBoolLit>>),                               \* ArgumentTypeMismatch
    CTCall(CTId, <<CTVar("z")>>),                              \* an argument fails
    CTCall(CTVar("g"), <<>>),                                  \* the callee fails
    CTFn(<<<<"x", CTInt>>>>, CTBool, <<>>, CTVar("x")),        \* TypeMismatch
    CTContract("Token", <<<<"supply", [tag |-> "Refined", base |-> [tag |-> "Uint", bits |-> 256]]>>,
                         <<"owner", [tag |-> "Address"]>>>>,
               <<<<"id", CTId>>, <<"code", CTFn(<<>>, [tag |-> "Bytes", len |-> 2], <<>>,
                                               CTLit([kind |-> "Bytes", len |-> 2]))>>>>),
    CTContract("Broken", <<>>, <<<<"id", CTId>>, <<"bad", CTFn(<<>>, CTInt, <<>>, CTVar("x"))>>>>) }

CT == INSTANCE CoreTypes WITH Exprs <- MCCoreExprs, None <- tcNone,
        checked <- ctChecked, result <- ctResult

irVars == <<irAst, irOut>>
ctVars == <<ctChecked, ctResult>>
tcVars == <<tcVariables, tcFunctions, tcEvents, tcCurrent, tcPure, tcResult, tcProgram>>
allVars == <<part, regionVars, managerVars, gasVars, collVars, wsVars, resVars, dbgVars, cacheVars,
             tpVars, svVars, mkVars, seVars, bcVars, evVars, smVars, tcVars, prVars, brVars, irVars, ctVars>>

Init ==
  /\ part \in {"region", "manager", "gas", "collections", "workspace", "resolver", "debugger", "cache", "prover", "solver", "checker", "symbolic", "blockchain", "events", "math", "typechecker", "parser", "bridge", "ir", "coretypes"}
  /\ Rg!Init /\ M!Init /\ G!Init /\ C!Init /\ W!Init /\ R!Init /\ D!Init /\ OC!Init /\ TP!Init /\ SV!Init /\ MK!Init /\ SE!Init /\ BC!Init /\ EV!Init /\ SM!Init /\ TC!Init /\ PR!Init /\ BR!Init /\ IR!Init /\ CT!Init
  /\ part /= "workspace" => disk = "absent"
  /\ part /= "debugger" => program = FirstProgram
  /\ part /= "cache" => cap = [kd \in {sy, ty} |-> 1] /\ maxSize = 1
  /\ part /= "solver" => maxIter = 1
  /\ part /= "checker" => mcDepth = 0 /\ enabled = {}
  /\ part /= "symbolic" => seDepth = 0
  /\ part /= "events" => event.name = ev1
Next ==
  \/ part = "region" /\ Rg!Next /\ UNCHANGED <<part, managerVars, gasVars, collVars, wsVars, resVars, dbgVars, cacheVars, tpVars, svVars, mkVars, seVars, bcVars, evVars, smVars, tcVars, prVars, brVars, irVars, ctVars>>
  \/ part = "manager" /\ M!Next /\ UNCHANGED <<part, regionVars, gasVars, collVars, wsVars, resVars, dbgVars, cacheVars, tpVars, svVars, mkVars, seVars, bcVars, evVars, smVars, tcVars, prVars, brVars, irVars, ctVars>>
  \/ part = "gas" /\ G!Next /\ UNCHANGED <<part, regionVars, managerVars, collVars, wsVars, resVars, dbgVars, cacheVars, tpVars, svVars, mkVars, seVars, bcVars, evVars, smVars, tcVars, prVars, brVars, irVars, ctVars>>
  \/ part = "collections" /\ C!Next /\ UNCHANGED <<part, regionVars, managerVars, gasVars, wsVars, resVars, dbgVars, cacheVars, tpVars, svVars, mkVars, seVars, bcVars, evVars, smVars, tcVars, prVars, brVars, irVars, ctVars>>
  \/ part = "workspace" /\ W!Next /\ UNCHANGED <<part, regionVars, managerVars, gasVars, collVars, resVars, dbgVars, cacheVars, tpVars, svVars, mkVars, seVars, bcVars, evVars, smVars, tcVars, prVars, brVars, irVars, ctVars>>
  \/ part = "resolver" /\ R!Next /\ UNCHANGED <<part, regionVars, managerVars, gasVars, collVars, wsVars, dbgVars, cacheVars, tpVars, svVars, mkVars, seVars, bcVars, evVars, smVars, tcVars, prVars, brVars, irVars, ctVars>>
  \/ part = "debugger" /\ D!Next /\ UNCHANGED <<part, regionVars, managerVars, gasVars, collVars, wsVars, resVars, cacheVars, tpVars, svVars, mkVars, seVars, bcVars, evVars, smVars, tcVars, prVars, brVars, irVars, ctVars>>
  \/ part = "cache" /\ OC!Next /\ UNCHANGED <<part, regionVars, managerVars, gasVars, collVars, wsVars, resVars, dbgVars, tpVars, svVars, mkVars, seVars, bcVars, evVars, smVars, tcVars, prVars, brVars, irVars, ctVars>>
  \/ part = "prover" /\ TP!Next /\ UNCHANGED <<part, regionVars, managerVars, gasVars, collVars, wsVars, resVars, dbgVars, cacheVars, svVars, mkVars, seVars, bcVars, evVars, smVars, tcVars, prVars, brVars, irVars, ctVars>>
  \/ part = "solver" /\ SV!Next /\ UNCHANGED <<part, regionVars, managerVars, gasVars, collVars, wsVars, resVars, dbgVars, cacheVars, tpVars, mkVars, seVars, bcVars, evVars, smVars, tcVars, prVars, brVars, irVars, ctVars>>
  \/ part = "checker" /\ MK!Next /\ UNCHANGED <<part, regionVars, managerVars, gasVars, collVars, wsVars, resVars, dbgVars, cacheVars, tpVars, svVars, seVars, bcVars, evVars, smVars, tcVars, prVars, brVars, irVars, ctVars>>
  \/ part = "symbolic" /\ SE!Next /\ UNCHANGED <<part, regionVars, managerVars, gasVars, collVars, wsVars, resVars, dbgVars, cacheVars, tpVars, svVars, mkVars, bcVars, evVars, smVars, tcVars, prVars, brVars, irVars, ctVars>>
  \/ part = "blockchain" /\ BC!Next /\ UNCHANGED <<part, regionVars, managerVars, gasVars, collVars, wsVars, resVars, dbgVars, cacheVars, tpVars, svVars, mkVars, seVars, evVars, smVars, tcVars, prVars, brVars, irVars, ctVars>>
  \/ part = "events" /\ EV!Next /\ UNCHANGED <<part, regionVars, managerVars, gasVars, collVars, wsVars, resVars, dbgVars, cacheVars, tpVars, svVars, mkVars, seVars, bcVars, smVars, tcVars, prVars, brVars, irVars, ctVars>>
  \/ part = "math" /\ SM!Next /\ UNCHANGED <<part, regionVars, managerVars, gasVars, collVars, wsVars, resVars, dbgVars, cacheVars, tpVars, svVars, mkVars, seVars, bcVars, evVars, tcVars, prVars, brVars, irVars, ctVars>>
  \/ part = "typechecker" /\ TC!Next /\ UNCHANGED <<part, regionVars, managerVars, gasVars, collVars, wsVars, resVars, dbgVars, cacheVars, tpVars, svVars, mkVars, seVars, bcVars, evVars, smVars, prVars, brVars, irVars, ctVars>>
  \/ part = "parser" /\ PR!Next /\ UNCHANGED <<part, regionVars, managerVars, gasVars, collVars, wsVars, resVars, dbgVars, cacheVars, tpVars, svVars, mkVars, seVars, bcVars, evVars, smVars, tcVars, brVars, irVars, ctVars>>
  \/ part = "bridge" /\ BR!Next /\ UNCHANGED <<part, regionVars, managerVars, gasVars, collVars, wsVars, resVars, dbgVars, cacheVars, tpVars, svVars, mkVars, seVars, bcVars, evVars, smVars, tcVars, prVars, irVars, ctVars>>
  \/ part = "coretypes" /\ CT!Next /\ UNCHANGED <<part, regionVars, managerVars, gasVars, collVars, wsVars, resVars, dbgVars, cacheVars, tpVars, svVars, mkVars, seVars, bcVars, evVars, smVars, tcVars, prVars, brVars, irVars>>
  \/ part = "ir" /\ IR!Next /\ UNCHANGED <<part, regionVars, managerVars, gasVars, collVars, wsVars, resVars, dbgVars, cacheVars, tpVars, svVars, mkVars, seVars, bcVars, evVars, smVars, tcVars, prVars, brVars, ctVars>>
Spec == Init /\ [][Next]_allVars

\* The host calls ModelChecker::verify at most twice.
CheckerCalls == part /= "checker" \/ Cardinality(initial) <= 2

(* A part's variables keep their initial values in the other parts'        *)
(* behaviours, and that state is an initial state of the part's own, so    *)
(* each invariant below is checked in the behaviours of its own part.     *)

\* Region: no byte of a block the client holds is handed out again by
\* allocate (see Region!LiveBlocksDisjoint).  The components run checks it
\* in the debug build; MCComponents_RegionRelease.cfg in the release build,
\* where allocate's `offset + size` wraps past usize::MAX.
LiveBlocksDisjoint == part = "region" => Rg!LiveBlocksDisjoint

\* MemoryManager: at most MAX_PAGES slots, each a page of bytes or None.
ManagerTypeOK == part = "manager" => M!TypeOK

\* MemoryManager: read_memory returns the byte last written at that address
\* and fails exactly on unmapped pages (see MemoryManager!ReadSeesLastWrite).
ReadSeesLastWrite == part = "manager" => M!ReadSeesLastWrite

\* IRBuilder: every Jump and JumpIf of a lowered function names a label
\* placed exactly once in its body, though new_label's counter runs on
\* across Ifs and functions (see IRBuilder!LabelsResolve).
LabelsResolve == part = "ir" => IR!LabelsResolve

\* GasMeter::consume implements the abstract gas budget of spec 4.1 (see
\* GasMeter!ImplementsGasBudget).
ImplementsGasBudget == G!ImplementsGasBudget

\* GasEstimator::estimate_storage_cost is the exact cost capped at
\* u64::MAX (see GasMeter!EstimatesSaturate).
EstimatesSaturate == part = "gas" => G!EstimatesSaturate

\* Collections: storage holds byte strings and handle lengths stay bounded.
CollectionsTypeOK == part = "collections" => C!TypeOK

\* The refinement mappings of Collections and OptimizedCache, read from
\* the state only in their own part: elsewhere their variables hold their
\* initial values, whose image is the abstract initial state, and every
\* step of another part is a stuttering step of the abstract
\* specification, which the properties state first.
CollColls == {cm, cs, cv, cq}
CollInitView == [x \in CollColls |-> CASE MCKind[x] = "map" -> [k \in {<<7>>} |-> 0]
                                      [] MCKind[x] = "set" -> {}
                                      [] OTHER -> <<>>]
CollView == IF part = "collections" THEN [x \in CollColls |-> C!ViewOf(x)] ELSE CollInitView
CollAbstract == INSTANCE CollectionViews WITH Colls <- CollColls, Kind <- MCKind,
       Keys <- {<<7>>}, Items <- {2, 3}, NoItem <- 0, MaxLen <- 2, result <- collResult,
       view <- CollView

\* Map, Set, Vec and Queue over the shared storage behave as independent
\* maps, sets, stacks and FIFO queues (see
\* Collections!ImplementsCollectionViews).
ImplementsCollectionViews ==
  CollAbstract!Init /\ [][part /= "collections" \/ CollAbstract!Next]_<<CollView, collResult>>

\* Workspace: Workspace.toml and the config hold directories or "*", and
\* every member is the package its directory's manifest names.
WorkspaceTypeOK == part = "workspace" => W!TypeOK

\* Workspace: load returns Ok only for a member graph without a cycle or
\* an unresolvable registry dependency, and DependencyCycle only for one
\* with a cycle; check_cycles must backtrack its shared visited set (see
\* Workspace!LoadVerdictMatchesGraph).
LoadVerdictMatchesGraph == part = "workspace" => W!LoadVerdictMatchesGraph

\* Workspace: a member remove_member took out is not loaded again by a
\* later load (see Workspace!RemovedMemberStaysRemoved); violated with
\* WsMaxPatterns = 2 under MCComponents_WorkspaceRemoved.cfg.
RemovedMemberStaysRemoved == part = "workspace" => W!RemovedMemberStaysRemoved

\* Resolver: an Ok resolution picks one version per name from the
\* registry and satisfies every requirement of the manifest and of the
\* packages it picked (see PackageResolver!ResolutionConsistent).
ResolutionConsistent == part = "resolver" => R!ResolutionConsistent

\* Debugger: pc stays in the program, the stack depth never goes below
\* zero, breakpoints lie in the program.
DebuggerTypeOK == part = "debugger" => D!TypeOK

\* OptimizedModuleCache: each LruCache within its capacity, one entry per
\* name.
CacheTypeOK == part = "cache" => OC!TypeOK

\* OptimizedModuleCache behaves as the ModuleCache of cache.rs that may
\* forget entries (see OptimizedCache!ImplementsModuleCache).
CacheMaps == IF part = "cache" THEN [kd \in {sy, ty} |-> OC!View(lru[kd])]
             ELSE [kd \in {sy, ty} |-> [k \in {} |-> NoData]]
CacheAbstract == INSTANCE ModuleCache WITH Kinds <- {sy, ty}, Keys <- {k1, k2},
       Vals <- {v1, v2}, None <- NoData, result <- cacheResult, maps <- CacheMaps
ImplementsModuleCache ==
  CacheAbstract!Init /\ [][part /= "cache" \/ CacheAbstract!Next]_<<CacheMaps, cacheResult>>

\* TheoremProver: every theorem prove stored follows from the axioms and
\* its assumptions (see TheoremProver!TheoremsSound).
TheoremsSound == part = "prover" => TP!TheoremsSound

\* ConstraintSolver: solve's statistics stay within max_iterations.
SolverTypeOK == part = "solver" => SV!TypeOK

\* ModelChecker: once build_state_space returns, every contract state
\* within max_depth steps is stored and every one within fewer was
\* explored (see ModelChecker!ExploresWithinDepth).
ExploresWithinDepth == part = "checker" => MK!ExploresWithinDepth

\* SymbolicExecutor: execute_function returns a path for every combination
\* of branch outcomes within max_depth (see
\* SymbolicExecutor!ExploresEveryBranch).
ExploresEveryBranch == part = "symbolic" => SE!ExploresEveryBranch

\* BlockchainTestEnvironment: deploy_contract never returns an address twice
\* (see Blockchain!DeployedAddressesUnique).
DeployedAddressesUnique == part = "blockchain" => BC!DeployedAddressesUnique

\* BlockchainTestEnvironment: get_current_block is the newest block and
\* block numbers are positions (see Blockchain!CurrentBlockIsNewest).
CurrentBlockIsNewest == part = "blockchain" => BC!CurrentBlockIsNewest

\* EventFilter: applying a filter with only a name, or a name and wildcard
\* topics, selects what EventLog::get_events returns for that name, in
\* order (see Events!NameFilterAgreesWithGetEvents).
NameFilterAgreesWithGetEvents ==
  [][EV!Filter /\ EV!NameOnly(filter) => selected' = EV!GetEventsOf(log, filter.name)]_evVars
\* math::sqrt: whenever it returns, it returns the integer square root
\* (see StdMath!SqrtIsFloorRoot).
SqrtIsFloorRoot == part = "math" => SM!SqrtIsFloorRoot

\* TypeChecker: a check that returns Ok leaves no parameter or let of its
\* functions in variables, only the program's state variables added (see
\* TypeChecker!CheckRestoresScope).
CheckRestoresScope ==
  [][(tcProgram' /= tcNone /\ tcResult' = "Ok") =>
       tcVariables' = TC!StateVarsInserted(tcVariables, tcProgram')]_tcVars

\* Parser: a parse that returns Ok has read the whole input as the program
\* it returns (see Parser!ParseRoundTrips).
ParseRoundTrips == part = "parser" => PR!ParseRoundTrips

(* Reproductions, checked by their own cfgs and not by the components run. *)

\* ConstraintSolver: solve runs out of max_iterations only on a set with at
\* least as many variables (see Solver!SolvesWithinBudget).
SolvesWithinBudget == part = "solver" => SV!SolvesWithinBudget

\* math::sqrt returns for every argument (see StdMath!SqrtTotal).
SqrtTotal == part = "math" => SM!SqrtTotal

\* BridgeProtocol: verify_message accepts only messages signed by
\* validators of total weight at least the threshold, each counted once
\* (see Bridge!QuorumSigned).
QuorumSigned == part = "bridge" => BR!QuorumSigned

\* IRBuilder: a lowered function returns what its source returns, also
\* after a second let of a name (see IRBuilder!LoweringPreservesResult).
LoweringPreservesResult == part = "ir" => IR!LoweringPreservesResult

\* OptimizedModuleCache: CacheStats.evictions counts the entries the LRU
\* caches dropped (see OptimizedCache!EvictionsCounted).
EvictionsCounted == part = "cache" => OC!EvictionsCounted

\* Debugger: no instruction runs once gas_used has reached gas_limit (see
\* Debugger!NoExecutionWithoutGas; MCComponents_DebuggerGas.cfg).
NoExecutionWithoutGas == [][D!GasChargedWithGasLeft]_dbgVars

\* core::types TypeChecker: check_expr accepts an expression only with the
\* type its value has under lexical scope; a parameter that hides an outer
\* one is typed as the outer one (see CoreTypes!TypeSound;
\* MCComponents_CoreTypes.cfg).
TypeSound == part = "coretypes" => CT!TypeSound

\* core::types TypeChecker: without a parameter that hides an enclosing
\* one, check_expr accepts an expression only with the type its value has:
\* check_call's argument count, argument type and callee checks and
\* check_function's return type check leave no ill-typed call through (see
\* CoreTypes!TypeSoundWithoutShadowing).
TypeSoundWithoutShadowing == part = "coretypes" => CT!TypeSoundWithoutShadowing
=============================================================================
