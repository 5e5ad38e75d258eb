----------------------------- MODULE BytecodeVM -----------------------------
(***************************************************************************)
(* The bytecode VM of src/vm/main.rs: deploy_contract, call_function and   *)
(* the byte-at-a-time interpreter loop VM::execute over the call stack.   *)
(*                                                                         *)
(* deploy_contract stores an empty function table, so as written every     *)
(* call_function fails with "Function not found" (FillTable = FALSE).  To  *)
(* check the interpreter at all, FillTable = TRUE deploys the table the    *)
(* compiler would supply (spec 6), given as the constant Abi.              *)
(*                                                                         *)
(* Values are U256(u64) and Bool; u64 is scaled to Word.  Storage is the   *)
(* shared HashMap<u32, Vec<u8>>; SSTORE writes to_le_bytes and SLOAD reads *)
(* the same eight bytes back, so a slot holds the number itself.           *)
(***************************************************************************)
EXTENDS Integers, Sequences, SequencesExt

CONSTANTS
  Contracts,  \* contract names the host deploys and calls
  Code,       \* Code[c]: the bytecode deployed under name c
  Abi,        \* Abi[c][f]: [offset, params, returns] of function f of c
  FillTable,  \* whether deploy_contract installs Abi[c]
  ArgLists,   \* argument vectors the host passes
  GasInit,    \* gas_left set by VM::new (1_000_000 in the code)
  Word,       \* 2^64, scaled
  MaxFrames,  \* the host stops calling once this many frames are stuck
  MaxStack,   \* ... or once the stack holds this many values
  None        \* Option::None

VARIABLES
  contracts,  \* self.contracts: name -> [code, functions]
  stack,      \* self.stack
  callStack,  \* self.call_stack: frames [contract, pc, base, locals]
  gasLeft,    \* self.gas_left, never reset
  storage,    \* *self.storage: key -> u64, one map for every contract
  guard,      \* self.reentrancy_guard is locked
  mode,       \* idle, running (inside call_function), panicked
  calling,    \* FunctionInfo of the call in progress, with the frame's base
  result,     \* what the last call_function returned
  region      \* ghost: frames inside NOREENTRY_START .. NOREENTRY_END

vars == <<contracts, stack, callStack, gasLeft, storage, guard, mode, calling,
          result, region>>

\* Opcodes of the match in VM::execute.
PUSH == 1       POP == 2      LOAD == 16    STORE == 17
ADD == 32       SUB == 33     JUMP == 48    JUMPI == 49   RETURN == 50
SLOAD == 64     SSTORE == 65  NOREENTRY_START == 80       NOREENTRY_END == 81

U(n) == [t |-> "U", v |-> n]
B(b) == [t |-> "B", b |-> b]
Values == [t : {"U"}, v : 0..(Word - 1)] \cup [t : {"B"}, b : BOOLEAN]

NoFunctions == [f \in {} |-> None]

\* Ok(ret) and Err(e) of call_function; `own` (a ghost) says whether a
\* returned value was pushed during this call.
Ok(r, own) == [err |-> "none", ret |-> r, own |-> own]
Err(e) == [err |-> e, ret |-> None, own |-> TRUE]

\* Option-returning Vec::pop: the popped value, or None.
PopVal(s) == IF s = <<>> THEN None ELSE Last(s)
PopRest(s) == IF s = <<>> THEN s ELSE Front(s)

\* VM::new
Init ==
  /\ contracts = [c \in {} |-> None]
  /\ stack = <<>>
  /\ callStack = <<>>
  /\ gasLeft = GasInit
  /\ storage = [k \in {} |-> 0]
  /\ guard = FALSE
  /\ mode = "idle"
  /\ calling = None
  /\ result = Ok(None, TRUE)
  /\ region = {}

Frozen == UNCHANGED region

\* deploy_contract(name, code, layout): insert, replacing any earlier one.
DeployContract(c) ==
  /\ mode = "idle"
  /\ contracts' = (c :> [code |-> Code[c],
                         functions |-> IF FillTable THEN Abi[c] ELSE NoFunctions])
                  @@ contracts
  /\ UNCHANGED <<stack, callStack, gasLeft, storage, guard, mode, calling, result>>
  /\ Frozen

\* call_function(contract, function, args): three checks, then push the
\* arguments and a frame and run execute.
CallFunction(c, f, args) ==
  /\ mode = "idle"
  /\ Len(callStack) < MaxFrames /\ Len(stack) + Len(args) <= MaxStack
  /\ CASE c \notin DOMAIN contracts ->
            result' = Err("ContractNotFound") /\ UNCHANGED <<stack, callStack, mode, calling>>
       [] f \notin DOMAIN contracts[c].functions ->
            result' = Err("FunctionNotFound") /\ UNCHANGED <<stack, callStack, mode, calling>>
       [] Len(args) /= contracts[c].functions[f].params ->
            result' = Err("WrongArgCount") /\ UNCHANGED <<stack, callStack, mode, calling>>
       [] OTHER ->
            LET fn == contracts[c].functions[f] IN
            /\ callStack' = Append(callStack,
                              [contract |-> c, pc |-> fn.offset,
                               base |-> Len(stack), locals |-> [i \in {} |-> None]])
            /\ stack' = stack \o args
            /\ mode' = "running"
            /\ calling' = [offset |-> fn.offset, params |-> fn.params,
                           returns |-> fn.returns, base |-> Len(stack)]
            /\ UNCHANGED result
  /\ UNCHANGED <<contracts, gasLeft, storage, guard>>
  /\ Frozen

-----------------------------------------------------------------------------
(* The loop of VM::execute.                                                *)

Top == callStack[Len(callStack)]
TopCode == contracts[Top.contract].code
Op == TopCode[Top.pc + 1]

\* code[frame.pc + 1]: the operand byte, read unchecked.
Operand == TopCode[Top.pc + 2]
HasOperand == Top.pc + 1 < Len(TopCode)

SetTop(fr) == callStack' = [callStack EXCEPT ![Len(callStack)] = fr]

\* Mutation: the step is not charged.
ChargeNothing == gasLeft' = gasLeft

\* gas_left.checked_sub(1): taken before the instruction runs.
Charge == gasLeft' = gasLeft - 1

\* An instruction is dispatched: the frame has code left and gas remains.
Dispatch(ops) ==
  /\ mode = "running"
  /\ callStack /= <<>>
  /\ Top.pc < Len(TopCode)
  /\ gasLeft > 0
  /\ Op \in ops
  /\ Charge

\* while let Some(frame) = last_mut() ends: the return value is popped from
\* the stack if the function declares one.
ExecuteDone ==
  /\ mode = "running"
  /\ callStack = <<>>
  /\ mode' = "idle"
  /\ result' = IF calling.returns
                THEN Ok(PopVal(stack), Len(stack) > calling.base)
                ELSE Ok(None, TRUE)
  /\ stack' = IF calling.returns THEN PopRest(stack) ELSE stack
  /\ UNCHANGED <<contracts, callStack, gasLeft, storage, guard, calling>>
  /\ Frozen

\* frame.pc >= code.len(): pop the frame and continue, charging nothing.
FrameEnd ==
  /\ mode = "running"
  /\ callStack /= <<>>
  /\ Top.pc >= Len(TopCode)
  /\ callStack' = Front(callStack)
  /\ region' = region \ {Len(callStack)}
  /\ UNCHANGED <<contracts, stack, gasLeft, storage, guard, mode, calling, result>>

\* checked_sub(1) fails: `?` returns Err with the frames left in place.
OutOfGas ==
  /\ mode = "running"
  /\ callStack /= <<>>
  /\ Top.pc < Len(TopCode)
  /\ gasLeft = 0
  /\ mode' = "idle"
  /\ result' = Err("OutOfGas")
  /\ UNCHANGED <<contracts, stack, callStack, gasLeft, storage, guard, calling>>
  /\ Frozen
\* What an arm that only moves pc and the stack leaves alone.
Plain == UNCHANGED <<contracts, storage, guard, mode, calling, result>>

Next1(fr) == [fr EXCEPT !.pc = @ + 1]
Next2(fr) == [fr EXCEPT !.pc = @ + 2]

\* An arm reading code[frame.pc + 1] past the end of the code: the index
\* panics.
OperandMissing ==
  /\ Dispatch({PUSH, LOAD, STORE, JUMP, JUMPI, SLOAD, SSTORE})
  /\ ~HasOperand
  /\ mode' = "panicked"
  /\ UNCHANGED <<contracts, stack, callStack, storage, guard, calling, result>>
  /\ Frozen

\* 0x01 PUSH: push U256(code[pc + 1]).
ExecPush ==
  /\ Dispatch({PUSH}) /\ HasOperand
  /\ stack' = Append(stack, U(Operand))
  /\ SetTop(Next2(Top))
  /\ Plain /\ Frozen

\* 0x02 POP: pop, ignoring an empty stack.
ExecPop ==
  /\ Dispatch({POP})
  /\ stack' = PopRest(stack)
  /\ SetTop(Next1(Top))
  /\ Plain /\ Frozen

\* 0x10 LOAD: push locals[index] if it is set.
ExecLoad ==
  /\ Dispatch({LOAD}) /\ HasOperand
  /\ stack' = IF Operand \in DOMAIN Top.locals
              THEN Append(stack, Top.locals[Operand]) ELSE stack
  /\ SetTop(Next2(Top))
  /\ Plain /\ Frozen

\* 0x11 STORE: pop into locals[index] if the stack was not empty.
ExecStore ==
  /\ Dispatch({STORE}) /\ HasOperand
  /\ LET v == PopVal(stack) IN
       /\ stack' = PopRest(stack)
       /\ SetTop(IF v = None THEN Next2(Top)
                 ELSE [Next2(Top) EXCEPT !.locals = (Operand :> v) @@ @])
  /\ Plain /\ Frozen

\* Mutation: the sum kept at full width.
AddUnwrapped(a, b) == a + b

\* u64::wrapping_add and wrapping_sub.
WrappingAdd(a, b) == (a + b) % Word
WrappingSub(a, b) == (a - b) % Word

\* 0x20 ADD, 0x21 SUB: both pops happen; the result is pushed only when
\* both values were U256.
ExecArith ==
  /\ Dispatch({ADD, SUB})
  /\ LET b == PopVal(stack)
         a == PopVal(PopRest(stack))
         rest == PopRest(PopRest(stack))
     IN  stack' = IF a /= None /\ b /= None /\ a.t = "U" /\ b.t = "U"
                  THEN Append(rest, U(IF Op = ADD THEN WrappingAdd(a.v, b.v)
                                      ELSE WrappingSub(a.v, b.v)))
                  ELSE rest
  /\ SetTop(Next1(Top))
  /\ Plain /\ Frozen

\* 0x30 JUMP: pc = code[pc + 1], unchecked.
ExecJump ==
  /\ Dispatch({JUMP}) /\ HasOperand
  /\ SetTop([Top EXCEPT !.pc = Operand])
  /\ UNCHANGED stack
  /\ Plain /\ Frozen

\* 0x31 JUMPI: pop; jump on Bool(true), step over on Bool(false), and on
\* anything else (or nothing) stay at this JUMPI.
ExecJumpi ==
  /\ Dispatch({JUMPI}) /\ HasOperand
  /\ LET c == PopVal(stack) IN
       /\ stack' = PopRest(stack)
       /\ IF c /= None /\ c.t = "B"
          THEN SetTop([Top EXCEPT !.pc = IF c.b THEN Operand ELSE @ + 2])
          ELSE UNCHANGED callStack
  /\ Plain /\ Frozen

\* 0x32 RETURN: pop the frame.
ExecReturn ==
  /\ Dispatch({RETURN})
  /\ callStack' = Front(callStack)
  /\ region' = region \ {Len(callStack)}
  /\ UNCHANGED stack
  /\ Plain

\* 0x40 SLOAD: push storage[key] if present.
ExecSload ==
  /\ Dispatch({SLOAD}) /\ HasOperand
  /\ stack' = IF Operand \in DOMAIN storage
              THEN Append(stack, U(storage[Operand])) ELSE stack
  /\ SetTop(Next2(Top))
  /\ Plain /\ Frozen

\* 0x41 SSTORE: pop; a U256 is stored under the key, in the one map shared
\* by every contract.
ExecSstore ==
  /\ Dispatch({SSTORE}) /\ HasOperand
  /\ LET v == PopVal(stack) IN
       /\ stack' = PopRest(stack)
       /\ IF v /= None /\ v.t = "U"
          THEN storage' = (Operand :> v.v) @@ storage
          ELSE UNCHANGED storage
  /\ SetTop(Next2(Top))
  /\ UNCHANGED <<contracts, guard, mode, calling, result, region>>

\* 0x50 NOREENTRY_START: try_lock; on success the guard is bound to `_guard`
\* and dropped at the end of the arm, so the lock is free again.
ExecNoReentryStart ==
  /\ Dispatch({NOREENTRY_START})
  /\ IF guard
     THEN mode' = "idle" /\ result' = Err("ReentrantCall") /\ UNCHANGED callStack
     ELSE SetTop(Next1(Top)) /\ UNCHANGED <<mode, result>>
  /\ region' = region \cup {Len(callStack)}
  /\ UNCHANGED <<contracts, stack, storage, guard, calling>>

\* 0x51 NOREENTRY_END: drop(try_lock()) takes and frees the free lock.
ExecNoReentryEnd ==
  /\ Dispatch({NOREENTRY_END})
  /\ SetTop(Next1(Top))
  /\ region' = region \ {Len(callStack)}
  /\ UNCHANGED stack
  /\ Plain

Opcodes == {PUSH, POP, LOAD, STORE, ADD, SUB, JUMP, JUMPI, RETURN, SLOAD,
            SSTORE, NOREENTRY_START, NOREENTRY_END}

\* `_ => return Err("Invalid opcode")`, frames left in place.
InvalidOpcode ==
  /\ Dispatch(0..255 \ Opcodes)
  /\ mode' = "idle"
  /\ result' = Err("InvalidOpcode")
  /\ UNCHANGED <<contracts, stack, callStack, storage, guard, calling>>
  /\ Frozen

\* A panic ends the process.
Halted == mode = "panicked" /\ UNCHANGED vars

LoopStep ==
  \/ ExecuteDone \/ FrameEnd \/ OutOfGas \/ OperandMissing
  \/ ExecPush \/ ExecPop \/ ExecLoad \/ ExecStore \/ ExecArith
  \/ ExecJump \/ ExecJumpi \/ ExecReturn \/ ExecSload \/ ExecSstore
  \/ ExecNoReentryStart \/ ExecNoReentryEnd \/ InvalidOpcode

Next ==
  \/ \E c \in Contracts : DeployContract(c)
  \/ \E c \in Contracts : \E f \in DOMAIN Abi[c] : \E a \in ArgLists :
       CallFunction(c, f, a)
  \/ LoopStep
  \/ Halted

\* execute runs on the caller's thread and never blocks: once running, it
\* keeps taking steps.
Spec == Init /\ [][Next]_vars /\ WF_vars(LoopStep)

-----------------------------------------------------------------------------
TypeOK ==
  /\ stack \in Seq(Values)
  /\ gasLeft \in 0..GasInit
  /\ mode \in {"idle", "running", "panicked"}
  /\ \A i \in 1..Len(callStack) : callStack[i].contract \in DOMAIN contracts
  /\ \A k \in DOMAIN storage : storage[k] \in 0..(Word - 1)

\* Every call_function returns: each turn of the loop either pops a frame or
\* charges one unit of the never-refilled gas_left, so even a JUMP loop or a
\* JUMPI that stays put ends in "Out of gas".
CallReturns == mode = "running" ~> mode /= "running"

(* Properties the spec states and the code does not keep; checked by the  *)
(* violation runs.                                                         *)

\* Spec 4.3: the value a call returns is one the called function pushed,
\* never one left on the stack by an earlier call.
ReturnValueFromCallee == result.ret /= None => result.own

\* Spec 4.5: between NOREENTRY_START and NOREENTRY_END the contract's guard
\* is held.
GuardHeldInRegion == region /= {} => guard
=============================================================================
