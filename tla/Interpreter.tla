---------------------------- MODULE Interpreter ----------------------------
(***************************************************************************)
(* The enhanced VM of src/runtime/vm.rs and the instruction handlers of    *)
(* src/runtime/instructions.rs: the fetch/charge/dispatch loop of          *)
(* VM::execute, nested contract calls through VM::call_contract, and the   *)
(* resource owner table.  The actor mailboxes of the same struct share no  *)
(* state with these and are in module Mailbox.                             *)
(*                                                                         *)
(* The VM is single threaded: the host calls one public method at a time   *)
(* (mode = "idle"), and execute runs its loop to completion                *)
(* (mode = "running") before the host regains control.  Pieces the        *)
(* repository calls but never defines (ExecutionContext::new,              *)
(* has_permission, is_resource_available, load_contract, execute_contract) *)
(* are taken from the spec and are abstract here.                          *)
(***************************************************************************)
EXTENDS Integers, Sequences, FiniteSets, SequencesExt

CONSTANTS
  Programs,      \* the Vec<Instruction>s VM::new may be given
  GasLimit,      \* the gas_limit given to VM::new
  Actors,        \* actor ids (model values)
  DefaultActor,  \* current_actor of a context built by ExecutionContext::new
  Resources,     \* resource ids present in vm.resources
  Contracts,     \* contract addresses a CallContract may name
  Deployed,      \* addresses load_contract finds
  Permitted,     \* addresses has_permission accepts
  IntBits,       \* width of Value::Int (i64 in the code)
  GasWord,       \* 2^width of the u64 gas counters
  None           \* Option::None for owners and callers

ASSUME DefaultActor \in Actors /\ None \notin Actors
ASSUME Deployed \subseteq Contracts /\ Permitted \subseteq Contracts
ASSUME GasLimit \in Nat /\ GasLimit < GasWord

VARIABLES
  program,   \* vm.program, immutable after VM::new
  stack,     \* vm.stack
  pc,        \* vm.pc
  ctx,       \* vm.context: gasLimit, gasUsed, caller, actor
  mode,      \* idle, running (inside execute), or panicked
  result,    \* what the last public method returned
  owner,     \* vm.resources[r].owner
  burned,    \* history: gas charged by every instruction, nested calls included
  budget     \* history: [granted, left] of the last nested call

vars == <<program, stack, pc, ctx, mode, result, owner, burned, budget>>

IntMin == -(2^(IntBits - 1))
IntMax == 2^(IntBits - 1) - 1
IntV(n) == [tag |-> "Int", v |-> n]
BoolV(b) == [tag |-> "Bool", v |-> b]
Values == {IntV(n) : n \in IntMin..IntMax} \cup {BoolV(b) : b \in BOOLEAN}

\* Instruction::gas_cost; every opcode not listed costs 1.
CostTable == [Push |-> 1, Pop |-> 1, Add |-> 1, Sub |-> 1, Mul |-> 5, Div |-> 5,
              CallContract |-> 100, CreateContract |-> 1000, EmitEvent |-> 100,
              Store |-> 20, Load |-> 20]
GasCost(op) == IF op \in DOMAIN CostTable THEN CostTable[op] ELSE 1
MaxCost == 1000

\* ExecutionContext::new(gas_limit)
NewContext(limit) == [gasLimit |-> limit, gasUsed |-> 0, caller |-> None,
                      actor |-> DefaultActor]

\* u64 subtraction as the release build computes it.
WrappingSub(a, b) == (a - b) % GasWord

-----------------------------------------------------------------------------
(* Host calls, made while no other public method runs.                     *)

\* VM::new(program, gas_limit) with the resources and actors in place.
Init ==
  /\ program \in Programs
  /\ stack = <<>>
  /\ pc = 0
  /\ ctx = NewContext(GasLimit)
  /\ mode = "idle"
  /\ result = "Ok"
  /\ owner = [r \in Resources |-> None]
  /\ burned = 0
  /\ budget = [granted |-> 0, left |-> 0]

\* The host names the principal: vm.context.current_actor = a.
SetCurrentActor(a) ==
  /\ mode = "idle"
  /\ ctx' = [ctx EXCEPT !.actor = a]
  /\ UNCHANGED <<stack, pc, mode, result, owner, burned, budget>>

\* VM::execute: enter the loop; pc, stack and context carry over from any
\* earlier call, nothing is reset.
Execute ==
  /\ mode = "idle"
  /\ mode' = "running"
  /\ UNCHANGED <<stack, pc, ctx, result, owner, burned, budget>>

\* VM::acquire_resource called by the host; the failing branches change
\* nothing.
AcquireResource(r) ==
  /\ mode = "idle"
  /\ owner[r] = None
  /\ owner' = [owner EXCEPT ![r] = ctx.actor]
  /\ result' = "Ok"
  /\ UNCHANGED <<stack, pc, ctx, mode, burned, budget>>

\* Mutation: release_resource without its owner check.
ReleaseResourceAnyone(r) ==
  /\ mode = "idle"
  /\ owner[r] /= None
  /\ owner' = [owner EXCEPT ![r] = None]
  /\ result' = "Ok"
  /\ UNCHANGED <<stack, pc, ctx, mode, burned, budget>>

\* VM::release_resource: only the current owner may release.
ReleaseResource(r) ==
  /\ mode = "idle"
  /\ owner[r] = ctx.actor
  /\ owner' = [owner EXCEPT ![r] = None]
  /\ result' = "Ok"
  /\ UNCHANGED <<stack, pc, ctx, mode, burned, budget>>

-----------------------------------------------------------------------------
(* The loop of VM::execute.                                                *)

Instr == program[pc + 1]

\* Mutation: the loop without its gas check.
FetchUnchecked ==
  /\ mode = "running"
  /\ pc < Len(program)

\* while self.pc < self.program.len(): check gas, then charge the cost.
Fetch ==
  /\ mode = "running"
  /\ pc < Len(program)
  /\ ctx.gasUsed < ctx.gasLimit

Charged == [ctx EXCEPT !.gasUsed = @ + GasCost(Instr.op)]

\* instruction.execute(self)? returned Ok: self.pc += 1.
Advance == pc' = pc + 1 /\ UNCHANGED <<mode, result>>

\* instruction.execute(self)? returned Err: leave the loop, pc unchanged.
Raise(err) == mode' = "idle" /\ result' = err /\ UNCHANGED pc

LoopEnd ==
  /\ mode = "running"
  /\ pc >= Len(program)
  /\ mode' = "idle"
  /\ result' = "Ok"
  /\ UNCHANGED <<stack, pc, ctx, owner, burned, budget>>

OutOfGas ==
  /\ mode = "running"
  /\ pc < Len(program)
  /\ ctx.gasUsed >= ctx.gasLimit
  /\ Raise("OutOfGas")
  /\ UNCHANGED <<stack, ctx, owner, burned, budget>>

\* Instruction::Push(value) => vm.push(value.clone())
ExecPush ==
  /\ Fetch /\ Instr.op = "Push"
  /\ stack' = Append(stack, Instr.arg)
  /\ ctx' = Charged /\ burned' = burned + GasCost("Push")
  /\ Advance
  /\ UNCHANGED <<owner, budget>>

\* Instruction::Pop => vm.pop()?  (StackUnderflow on an empty stack)
ExecPop ==
  /\ Fetch /\ Instr.op = "Pop"
  /\ ctx' = Charged /\ burned' = burned + GasCost("Pop")
  /\ IF stack = <<>> THEN Raise("StackUnderflow") /\ UNCHANGED stack
                     ELSE stack' = Front(stack) /\ Advance
  /\ UNCHANGED <<owner, budget>>

\* Mutation: the sum kept at full width.
WrapIntNone(n) == n

\* Two's-complement wrap of an IntBits-wide sum, as a release build computes
\* i64 `+`.
WrapInt(n) == ((n - IntMin) % (2^IntBits)) + IntMin

\* Instruction::Add: pop b, pop a, push a + b when both are Int.  The i64
\* `+` panics on overflow in a debug build and wraps in a release build.
ExecAdd ==
  /\ Fetch /\ Instr.op = "Add"
  /\ ctx' = Charged /\ burned' = burned + GasCost("Add")
  /\ CASE Len(stack) = 0 -> Raise("StackUnderflow") /\ UNCHANGED stack
       [] Len(stack) = 1 -> Raise("StackUnderflow") /\ stack' = <<>>
       [] OTHER ->
            LET b == Last(stack)
                a == Last(Front(stack))
                rest == Front(Front(stack))
                sum == a.v + b.v
            IN  IF a.tag /= "Int" \/ b.tag /= "Int"
                THEN Raise("TypeMismatch") /\ stack' = rest
                ELSE IF sum \in IntMin..IntMax
                THEN stack' = Append(rest, IntV(sum)) /\ Advance
                ELSE \/ stack' = Append(rest, IntV(WrapInt(sum))) /\ Advance
                     \/ mode' = "panicked" /\ result' = "Panic"
                        /\ UNCHANGED <<stack, pc>>
  /\ UNCHANGED <<owner, budget>>

\* Instruction::CallContract(addr) and VM::call_contract.  The loop has
\* already charged the cost; the handler re-checks gas and permission, then
\* call_contract saves the context, runs the callee in a fresh context with
\* gas_limit - gas_used, and restores the saved context on success.  The
\* `?` after load_contract and execute_contract returns early, leaving the
\* callee's context in place.  The callee runs as one step here: it uses
\* some gas of its budget and may acquire free resources as its actor.
\* Mutation: the handler without its gas re-check.
CallGasExhaustedNever(c) == FALSE

\* if vm.context.gas_used >= vm.context.gas_limit { return Err(OutOfGas) }
CallGasExhausted(c) == c.gasUsed >= c.gasLimit

ExecCallContract ==
  /\ Fetch /\ Instr.op = "CallContract"
  /\ LET charged == Charged
         granted == WrappingSub(charged.gasLimit, charged.gasUsed)
         callee == [NewContext(granted) EXCEPT !.caller = charged.actor]
     IN
     CASE CallGasExhausted(charged) ->
            /\ ctx' = charged /\ burned' = burned + GasCost("CallContract")
            /\ Raise("OutOfGas") /\ UNCHANGED <<owner, budget>>
       [] Instr.arg \notin Permitted ->
            /\ ctx' = charged /\ burned' = burned + GasCost("CallContract")
            /\ Raise("PermissionDenied") /\ UNCHANGED <<owner, budget>>
       [] Instr.arg \notin Deployed ->
            /\ ctx' = callee /\ burned' = burned + GasCost("CallContract")
            /\ budget' = [granted |-> granted,
                          left |-> charged.gasLimit - charged.gasUsed]
            /\ Raise("ContractNotFound") /\ UNCHANGED owner
       [] OTHER ->
            \E used \in {0, granted \div 2, granted},
               took \in SUBSET {r \in Resources : owner[r] = None},
               ok \in BOOLEAN :
              /\ owner' = [r \in Resources |->
                             IF r \in took THEN callee.actor ELSE owner[r]]
              /\ burned' = burned + GasCost("CallContract") + used
              /\ budget' = [granted |-> granted,
                            left |-> charged.gasLimit - charged.gasUsed]
              /\ IF ok THEN ctx' = charged /\ Advance
                 ELSE /\ ctx' = [callee EXCEPT !.gasUsed = used]
                      /\ Raise("CalleeFailed")
  /\ UNCHANGED <<stack>>

\* Instruction::AcquireResource(id): is_resource_available, then
\* VM::acquire_resource as the current actor.
ExecAcquireResource ==
  /\ Fetch /\ Instr.op = "AcquireResource"
  /\ ctx' = Charged /\ burned' = burned + GasCost("AcquireResource")
  /\ IF owner[Instr.arg] = None
     THEN owner' = [owner EXCEPT ![Instr.arg] = ctx.actor] /\ Advance
     ELSE Raise("ResourceUnavailable") /\ UNCHANGED owner
  /\ UNCHANGED <<stack, budget>>

\* `_ => Ok(())`: every other opcode is charged and otherwise does nothing.
Implemented == {"Push", "Pop", "Add", "CallContract", "AcquireResource"}
ExecOther ==
  /\ Fetch /\ Instr.op \notin Implemented
  /\ ctx' = Charged /\ burned' = burned + GasCost(Instr.op)
  /\ Advance
  /\ UNCHANGED <<stack, owner, budget>>

\* A panic ends the process; nothing runs after it.
Halted == mode = "panicked" /\ UNCHANGED vars

-----------------------------------------------------------------------------
Next ==
  /\ UNCHANGED program
  /\ \/ \E a \in Actors : SetCurrentActor(a)
     \/ Execute
     \/ \E r \in Resources : AcquireResource(r) \/ ReleaseResource(r)
     \/ LoopEnd
     \/ OutOfGas
     \/ ExecPush \/ ExecPop \/ ExecAdd \/ ExecCallContract
     \/ ExecAcquireResource \/ ExecOther
     \/ Halted

Spec == Init /\ [][Next]_vars

-----------------------------------------------------------------------------
(* Properties.                                                             *)

TypeOK ==
  /\ stack \in Seq(Values)
  /\ pc \in 0..Len(program)
  /\ ctx \in [gasLimit : 0..(GasWord - 1), gasUsed : Nat,
              caller : Actors \cup {None}, actor : Actors]
  /\ mode \in {"idle", "running", "panicked"}
  /\ owner \in [Resources -> Actors \cup {None}]

\* Instruction::CallContract re-checks gas after the loop has charged its
\* cost, so call_contract's gas_limit - gas_used never wraps: a nested call
\* is never granted more gas than its caller has left.
NestedBudgetWithinRemaining ==
  budget.granted <= IF budget.left > 0 THEN budget.left ELSE 0

\* The loop checks gas before charging, so a context overdraws its limit by
\* less than one instruction's cost, never more.
OverdraftBelowOneInstruction ==
  ctx.gasUsed < ctx.gasLimit + MaxCost

\* A resource never passes directly from one owner to another, and an owned
\* resource is freed only by its owner (acquire_resource checks
\* owner.is_some(), release_resource checks owner == current_actor).
ResourceOwnershipDiscipline ==
  [][\A r \in Resources :
       owner'[r] /= owner[r] =>
         \/ owner[r] = None
         \/ owner'[r] = None /\ owner[r] = ctx.actor]_owner

(* Properties the spec states and the code does not keep; checked by the  *)
(* violation runs.                                                         *)

\* Spec 4.1 and 4.3(6): a nested call's gas is merged into its caller, so
\* once execute has returned Ok the root context has been charged for every
\* unit of gas burned.
NestedGasCharged ==
  (mode = "idle" /\ ctx.caller = None) => ctx.gasUsed = burned

\* Spec 4.3(7) and 7: a failing nested call unwinds exactly its own frame,
\* so between host calls the VM is back in a root context.
ContextRestoredAfterCall == mode = "idle" => ctx.caller = None

=============================================================================
