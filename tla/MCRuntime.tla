----------------------------- MODULE MCRuntime -----------------------------
(***************************************************************************)
(* The three execution engines of the repository, checked in one run: the *)
(* enhanced VM's instruction loop and contract calls (Interpreter), its    *)
(* actor mailboxes (Mailbox), both of src/runtime/vm.rs, and the bytecode  *)
(* VM of src/vm/main.rs (BytecodeVM).  `part`, chosen in the first state, *)
(* picks the engine a behaviour exercises; they share no state, so their   *)
(* state spaces add.                                                       *)
(* The run also checks the two module loaders of src/core/module: the    *)
(* ConcurrentModuleLoader with its HotReloadManager (ConcurrentLoader) and *)
(* the synchronous ModuleLoader, as the parts "concurrent" and "sync".     *)
(* The Interpreter gets two actors, one resource, three contract          *)
(* addresses (deployed and permitted, permitted only, neither), 2-bit     *)
(* integers so that 1 + 1 overflows, and a gas limit of 150 so that the   *)
(* second CallContract of the first program is charged past the limit.    *)
(* The BytecodeVM gets two contracts whose code reaches every opcode.     *)
(* The violation runs check the Interpreter's and the BytecodeVM's        *)
(* reproductions on this module under Spec, each with one invariant.      *)
(***************************************************************************)
EXTENDS Integers, Sequences, TLC

CONSTANTS a1, a2, r1, c1, c2, c3, None, m1, m2, t1, t2, a, b, c, d, e

VARIABLES
  part,
  program, iStack, pc, ctx, iMode, iResult, owner, burned, budget,
  mailbox, sent, mbMode, mbResult, cur, todo, handled,
  contracts, bvStack, callStack, gasLeft, storage, guard, bvMode, calling,
  bvResult, region,
  modules, insts, files, now, permits, watched, fileTimes, task, reloaded, calls,
  syncModules, slStack, syncResult

iVars == <<program, iStack, pc, ctx, iMode, iResult, owner, burned, budget>>
mbVars == <<mailbox, sent, mbMode, mbResult, cur, todo, handled>>
bvVars == <<contracts, bvStack, callStack, gasLeft, storage, guard, bvMode, calling,
            bvResult, region>>
clVars == <<modules, insts, files, now, permits, watched, fileTimes, task, reloaded, calls>>
slVars == <<syncModules, slStack, syncResult>>
allVars == <<part, iVars, mbVars, bvVars, clVars, slVars>>

\* Interpreter: values as Interpreter builds them.
IntV(n) == [tag |-> "Int", v |-> n]
BoolV(x) == [tag |-> "Bool", v |-> x]
I1 == IntV(1)

\* Programs given to VM::new.  The first reaches every instruction kind the
\* handlers implement, overflow, a successful and an overdrawn nested call;
\* the others reach the remaining error returns.
MCPrograms ==
  { << [op |-> "Push", arg |-> I1], [op |-> "Push", arg |-> I1],
       [op |-> "Add", arg |-> 0], [op |-> "AcquireResource", arg |-> r1],
       [op |-> "CallContract", arg |-> c1], [op |-> "Pop", arg |-> 0],
       [op |-> "CallContract", arg |-> c1] >>,
    << [op |-> "Push", arg |-> BoolV(TRUE)], [op |-> "Push", arg |-> I1],
       [op |-> "Add", arg |-> 0] >>,
    << [op |-> "Push", arg |-> I1], [op |-> "Add", arg |-> 0] >>,
    << [op |-> "Pop", arg |-> 0], [op |-> "EmitEvent", arg |-> 0] >>,
    << [op |-> "EmitEvent", arg |-> 0], [op |-> "Add", arg |-> 0] >>,
    << [op |-> "AcquireResource", arg |-> r1], [op |-> "CallContract", arg |-> c2] >>,
    << [op |-> "CallContract", arg |-> c3] >> }

I == INSTANCE Interpreter WITH
       Programs <- MCPrograms, GasLimit <- 150, Actors <- {a1, a2}, DefaultActor <- a1,
       Resources <- {r1}, Contracts <- {c1, c2, c3}, Deployed <- {c1},
       Permitted <- {c1, c2}, IntBits <- 2, GasWord <- 1048576,
       stack <- iStack, mode <- iMode, result <- iResult

\* Mailbox: two actors and four messages, enough for two messages to one
\* mailbox while the other holds some too, and for a handler failure in the
\* middle of a drain.
MB == INSTANCE Mailbox WITH
        Actors <- {a1, a2}, MaxMsgs <- 4, mode <- mbMode, result <- mbResult

\* BytecodeVM: values as BytecodeVM builds them.
U(n) == [t |-> "U", v |-> n]
B(x) == [t |-> "B", b |-> x]
\* c1: store@0    PUSH 3; PUSH 6; ADD; SSTORE 0; RETURN   (3 + 6 wraps)
\*     guarded@8  NOREENTRY_START; SLOAD 0; NOREENTRY_END; RETURN
\*     spin@13    JUMPI 13; then the invalid opcode 0xFF
\*     tail@16    PUSH with its operand missing
\* c2: peek@0     SLOAD 1; RETURN               (slot 1 is never written)
\*     locals@3   PUSH 5; STORE 1; LOAD 1; LOAD 2; PUSH 7; SUB; POP; JUMP 19
\*     loop@17    JUMP 17
\*     at 19      SLOAD 0; RETURN               (reads the slot c1 writes)
\*     end@22     past the end of the code
MCCode ==
  c1 :> <<1, 3, 1, 6, 32, 65, 0, 50,  80, 64, 0, 81, 50,  49, 13, 255,  1>>
  @@ c2 :> <<64, 1, 50,  1, 5, 17, 1, 16, 1, 16, 2, 1, 7, 33, 2, 48, 19,
            48, 17,  64, 0, 50>>

Fn(off, np, ret) == [offset |-> off, params |-> np, returns |-> ret]

MCAbi ==
  c1 :> ("store" :> Fn(0, 0, FALSE) @@ "guarded" :> Fn(8, 0, TRUE)
         @@ "spin" :> Fn(13, 1, FALSE) @@ "tail" :> Fn(16, 0, FALSE))
  @@ c2 :> ("peek" :> Fn(0, 0, TRUE) @@ "locals" :> Fn(3, 0, FALSE)
            @@ "loop" :> Fn(17, 0, FALSE) @@ "end" :> Fn(22, 1, TRUE))

MCArgLists == {<<>>, <<B(TRUE)>>, <<B(FALSE)>>, <<U(0)>>}

BV == INSTANCE BytecodeVM WITH
        Contracts <- {c1, c2}, Code <- MCCode, Abi <- MCAbi, FillTable <- TRUE,
        ArgLists <- MCArgLists, GasInit <- 17, Word <- 8, MaxFrames <- 2, MaxStack <- 3,
        stack <- bvStack, mode <- bvMode, result <- bvResult

\* ConcurrentLoader: two modules and two tasks under one permit, so that a
\* load waits on the semaphore while the other holds it, and a reload,
\* a watch and an unload interleave with a load.  One file modification
\* (MaxTime 2) is enough for check_updates to reload a module; no source
\* version is refused here, since ValidationError leaves load_module by the
\* same Err return, releasing its permit, as a deleted file's NotFound,
\* which the run reaches (ConcurrentLoader_Reload.cfg refuses one).
CL == INSTANCE ConcurrentLoader WITH
        Ids <- {m1, m2}, Tasks <- {t1, t2}, Permits <- 1, Rejected <- {},
        MaxTime <- 2, MaxCalls <- 2

\* ModuleLoader: a diamond a -> b, c -> d; c's on_load fails, b's on_unload
\* fails, e has no file.
MCHookDeps == [x \in {a, b, c, d, e} |->
                 IF x = a THEN <<b, c>> ELSE IF x \in {b, c} THEN <<d>> ELSE <<>>]

SL == INSTANCE ModuleLoader WITH
        Ids <- {a, b, c, d, e}, OnDisk <- {a, b, c, d}, HookDeps <- MCHookDeps,
        LoadFails <- {c}, UnloadFails <- {b},
        modules <- syncModules, stack <- slStack, result <- syncResult

Init ==
  /\ part \in {"interpreter", "mailbox", "bytecode", "concurrent", "sync"}
  /\ I!Init /\ MB!Init /\ BV!Init /\ CL!Init /\ SL!Init
  \* the other parts leave the interpreter at one program
  /\ part /= "interpreter" => program = CHOOSE p \in MCPrograms : TRUE

OnlyI(A) == part = "interpreter" /\ A /\ UNCHANGED <<part, mbVars, bvVars, clVars, slVars>>
OnlyMB(A) == part = "mailbox" /\ A /\ UNCHANGED <<part, iVars, bvVars, clVars, slVars>>
OnlyBV(A) == part = "bytecode" /\ A /\ UNCHANGED <<part, iVars, mbVars, clVars, slVars>>
OnlyCL(A) == part = "concurrent" /\ A /\ UNCHANGED <<part, iVars, mbVars, bvVars, slVars>>
OnlySL(A) == part = "sync" /\ A /\ UNCHANGED <<part, iVars, mbVars, bvVars, clVars>>

Next ==
  \/ OnlyI(I!Next) \/ OnlyMB(MB!Next) \/ OnlyBV(BV!Next)
  \/ OnlyCL(CL!Next) \/ OnlySL(SL!Next)

\* The fairness the run's liveness properties rest on, each on the steps of
\* its own part: VM::execute's loop in the BytecodeVM runs on the caller's
\* thread until it returns, and ConcurrentLoader's own fairness: a started
\* load task keeps being polled, and tokio's semaphore is fair, so a task
\* waiting on a permit that is freed again and again gets one.  The
\* Interpreter's steps are host calls and get none; no property of the
\* run speaks of the Mailbox's or ModuleLoader's progress.
Spec ==
  /\ Init /\ [][Next]_allVars
  /\ WF_allVars(OnlyBV(BV!LoopStep))
  /\ \A t \in {t1, t2} : WF_allVars(OnlyCL(CL!Step(t))) /\ SF_allVars(OnlyCL(CL!Acquire(t)))

\* Interpreter: stack values, pc, the context and resource owners well formed.
InterpreterTypeOK == I!TypeOK

\* Interpreter: a nested call_contract is never granted more gas than its
\* caller has left (see Interpreter!NestedBudgetWithinRemaining).
NestedBudgetWithinRemaining == I!NestedBudgetWithinRemaining

\* Interpreter: the loop checks gas before charging, so gas_used passes
\* gas_limit by less than one instruction's cost (see
\* Interpreter!OverdraftBelowOneInstruction).
OverdraftBelowOneInstruction == I!OverdraftBelowOneInstruction

\* Interpreter: acquire_resource and release_resource never pass a resource
\* directly from one actor to another, and only its owner frees it (see
\* Interpreter!ResourceOwnershipDiscipline).
ResourceOwnershipDiscipline == I!ResourceOwnershipDiscipline

\* BytecodeVM: stack values, gas_left, frames and storage words well formed.
BytecodeTypeOK == BV!TypeOK

\* BytecodeVM: every call_function returns, even one that loops, because
\* gas_left is never refilled (see BytecodeVM!CallReturns).
CallReturns == BV!CallReturns

\* ConcurrentLoader: loaded modules, instances, files, permits and tasks
\* well formed.
LoaderTypeOK == CL!TypeOK

\* ConcurrentLoader: the semaphore's free permits plus the permits held by
\* tasks between acquire and release always make up the 32 (here 1) it was
\* created with, on every return path of load_module (see
\* ConcurrentLoader!PermitsAccounted).
PermitsAccounted == CL!PermitsAccounted

\* ConcurrentLoader: every load_module call returns, even when two tasks
\* contend for the permit (see ConcurrentLoader!LoadReturns).
LoadReturns == CL!LoadReturns

\* ModuleLoader: load_module never leaves a module loaded while a module it
\* depends on is not (see ModuleLoader!DepsLoadedFirst).
DepsLoadedFirst == SL!DepsLoadedFirst

-----------------------------------------------------------------------------
(* Properties the spec states and the engines do not keep, each checked   *)
(* by a violation run of its own.                                          *)

\* Interpreter: once execute has returned Ok, the root context has been
\* charged for the gas of every nested call (see Interpreter!NestedGasCharged).
NestedGasCharged == part = "interpreter" => I!NestedGasCharged

\* Interpreter: a failing nested call unwinds its own frame, leaving the VM
\* in a root context (see Interpreter!ContextRestoredAfterCall).
ContextRestoredAfterCall == part = "interpreter" => I!ContextRestoredAfterCall

\* Mailbox: each actor's messages are handled in the order they were sent
\* (see Mailbox!HandledInSendOrder).
HandledInSendOrder == part = "mailbox" => MB!HandledInSendOrder

\* Mailbox: a message popped for a handler that fails is lost (see
\* Mailbox!NoMessageLost).
NoMessageLost == part = "mailbox" => MB!NoMessageLost

\* ConcurrentLoader: unload_module keeps a module another loaded module
\* depends on (see ConcurrentLoader!UnloadKeepsDependedOn).
UnloadKeepsDependedOn == [][CL!DependedOnKept]_clVars

\* BytecodeVM: call_function returns a value the called function pushed
\* (see BytecodeVM!ReturnValueFromCallee).
ReturnValueFromCallee == part = "bytecode" => BV!ReturnValueFromCallee

\* BytecodeVM: between NOREENTRY_START and NOREENTRY_END the contract's
\* guard is held (see BytecodeVM!GuardHeldInRegion).
GuardHeldInRegion == part = "bytecode" => BV!GuardHeldInRegion
=============================================================================
