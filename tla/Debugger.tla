------------------------------ MODULE Debugger ------------------------------
(***************************************************************************)
(* The Debugger of src/tools/debugger/mod.rs driving the VM of            *)
(* src/runtime/vm.rs.  The host calls one method at a time: run,          *)
(* step_over and step_out loop over step() until the debugger's state     *)
(* changes; step charges the instruction's gas_cost, runs its handler     *)
(* from src/runtime/instructions.rs, keeps the call stack on Call and     *)
(* Return, and advances pc.                                                *)
(*                                                                         *)
(* A loop is one action per iteration (loop names the method running).    *)
(* The stack is its depth: the programs push a constant and pop it.        *)
(* Frames are cloned from the top frame and nothing writes their locals,   *)
(* so a frame is abstract and a watchpoint's condition never sees a value; *)
(* a watchpoint is its name.                                               *)
(***************************************************************************)
EXTENDS Integers, Sequences

CONSTANTS
  Programs,    \* the Vec<Instruction>s of the VMs the debugger is given
  GasLimit,    \* vm.context.gas_limit
  WatchNames,  \* variable names a watchpoint may be set on
  MaxGas       \* the host stops calling once gas_used reaches MaxGas

VARIABLES
  program,      \* vm.program
  pc,           \* vm.pc
  stack,        \* the depth of vm.stack
  gasUsed,      \* vm.context.gas_used
  callStack,    \* self.call_stack
  breakpoints,  \* self.breakpoints
  watchpoints,  \* the names in self.watchpoints
  dstate,       \* self.state
  loop,         \* the method whose loop is running: idle, run, over, out
  target,       \* step_over's current_depth or step_out's target_depth
  result        \* what the last host call returned

vars == <<program, pc, stack, gasUsed, callStack, breakpoints, watchpoints,
          dstate, loop, target, result>>

Frame == "frame"

\* Instruction::gas_cost for the opcodes the programs use; `_ => 1`.
GasCost(op) == CASE op = "Store" -> 20 [] op = "Mul" -> 5 [] OTHER -> 1

\* Debugger::new(vm): the VM as VM::new(program, gas_limit) leaves it.
Init ==
  /\ program \in Programs
  /\ pc = 0 /\ stack = 0 /\ gasUsed = 0 /\ callStack = <<>>
  /\ breakpoints = {} /\ watchpoints = {}
  /\ dstate = "Paused" /\ loop = "idle" /\ target = 0
  /\ result = "Ok"

\* Instruction::execute: Push and Pop move the stack; Pop of an empty
\* stack is StackUnderflow; Call, Return and the others are `_ => Ok(())`.
StackAfter(op) == CASE op = "Push" -> stack + 1 [] op = "Pop" -> stack - 1 [] OTHER -> stack
\* Mutation: Pop without the stack.pop().ok_or(StackUnderflow) check.
UnderflowsNever(op) == FALSE

Underflows(op) == op = "Pop" /\ stack = 0

\* current_frame: the last frame, or Err(NoActiveFrame).
NoActiveFrame == callStack = <<>>

\* Debugger::step as [r, pc, stack, gas, cs]: r is "false" past the end of
\* the program, "true" after an instruction, or the error returned by `?`
\* (after gas_used was charged, before pc moves).
Step ==
  IF pc >= Len(program)
  THEN [r |-> "false", pc |-> pc, stack |-> stack, gas |-> gasUsed, cs |-> callStack]
  ELSE LET op == program[pc + 1]
           gas == gasUsed + GasCost(op)
       IN  CASE Underflows(op) ->
                  [r |-> "StackUnderflow", pc |-> pc, stack |-> stack, gas |-> gas, cs |-> callStack]
             [] op = "Call" /\ NoActiveFrame ->
                  [r |-> "NoActiveFrame", pc |-> pc, stack |-> stack, gas |-> gas, cs |-> callStack]
             [] OTHER ->
                  [r |-> "true", pc |-> pc + 1, stack |-> StackAfter(op), gas |-> gas,
                   cs |-> CASE op = "Call" -> Append(callStack, callStack[Len(callStack)])
                            [] op = "Return" /\ callStack /= <<>> -> SubSeq(callStack, 1, Len(callStack) - 1)
                            [] OTHER -> callStack]

Apply(s) == pc' = s.pc /\ stack' = s.stack /\ gasUsed' = s.gas /\ callStack' = s.cs

Idle == loop = "idle"

\* A host call that steps the VM; the host stops stepping at MaxGas.
Stepping == Idle /\ gasUsed < MaxGas

\* Returning from a host method.
Return(r) == loop' = "idle" /\ result' = r

-----------------------------------------------------------------------------
(* Host calls.                                                             *)

\* Debugger::step called by the host; the debugger's state is untouched.
HostStep ==
  /\ Stepping
  /\ Apply(Step) /\ result' = Step.r
  /\ UNCHANGED <<program, breakpoints, watchpoints, dstate, loop, target>>

\* run: state = Running, then the loop.
Run ==
  /\ Stepping
  /\ dstate' = "Running" /\ loop' = "run"
  /\ UNCHANGED <<program, pc, stack, gasUsed, callStack, breakpoints, watchpoints, target, result>>

\* step_over: current_depth = call_stack.len(), state = StepOver.
StepOver ==
  /\ Stepping
  /\ target' = Len(callStack) /\ dstate' = "StepOver" /\ loop' = "over"
  /\ UNCHANGED <<program, pc, stack, gasUsed, callStack, breakpoints, watchpoints, result>>

\* step_out: target_depth = call_stack.len().saturating_sub(1).
StepOut ==
  /\ Stepping
  /\ target' = IF callStack = <<>> THEN 0 ELSE Len(callStack) - 1
  /\ dstate' = "StepOut" /\ loop' = "out"
  /\ UNCHANGED <<program, pc, stack, gasUsed, callStack, breakpoints, watchpoints, result>>

SetBreakpoints(b) ==
  /\ Idle
  /\ breakpoints' = b /\ result' = "Ok"
  /\ UNCHANGED <<program, pc, stack, gasUsed, callStack, watchpoints, dstate, loop, target>>

\* add_breakpoint / remove_breakpoint: HashSet insert and remove.
AddBreakpoint(p) == SetBreakpoints(breakpoints \cup {p})
RemoveBreakpoint(p) == SetBreakpoints(breakpoints \ {p})

SetWatchpoints(w) ==
  /\ Idle
  /\ watchpoints' = w /\ result' = "Ok"
  /\ UNCHANGED <<program, pc, stack, gasUsed, callStack, breakpoints, dstate, loop, target>>

\* add_watchpoint / remove_watchpoint: HashMap insert and remove by name.
AddWatchpoint(n) == SetWatchpoints(watchpoints \cup {n})
RemoveWatchpoint(n) == SetWatchpoints(watchpoints \ {n})

-----------------------------------------------------------------------------
(* The loops.                                                              *)

\* self.breakpoints.contains(&self.vm.pc), after the step.
PausesAt(old, new) == new \in breakpoints

\* check_watchpoints: get_value(name)? needs current_frame(), so any
\* watchpoint fails with NoActiveFrame while the call stack is empty; a
\* frame's locals are empty, so with a frame no condition is met.
WatchpointsFail(cs) == watchpoints /= {} /\ cs = <<>>

\* One iteration of run's loop: step, then breakpoints, then watchpoints.
RunIter ==
  /\ loop = "run"
  /\ LET s == Step IN
     /\ Apply(s)
     /\ CASE s.r = "false" -> dstate' = "Terminated" /\ Return("Ok")
          [] s.r /= "true" -> Return(s.r) /\ UNCHANGED dstate
          [] PausesAt(pc, s.pc) -> dstate' = "Paused" /\ Return("Ok")
          [] WatchpointsFail(s.cs) -> Return("NoActiveFrame") /\ UNCHANGED dstate
          [] OTHER -> UNCHANGED <<loop, result, dstate>>
  /\ UNCHANGED <<program, breakpoints, watchpoints, target>>

\* One iteration of step_over's or step_out's loop: step, then pause once
\* the call stack is no deeper than the target.
DepthIter ==
  /\ loop \in {"over", "out"}
  /\ LET s == Step IN
     /\ Apply(s)
     /\ CASE s.r = "false" -> dstate' = "Terminated" /\ Return("Ok")
          [] s.r /= "true" -> Return(s.r) /\ UNCHANGED dstate
          [] Len(s.cs) <= target -> dstate' = "Paused" /\ Return("Ok")
          [] OTHER -> UNCHANGED <<loop, result, dstate>>
  /\ UNCHANGED <<program, breakpoints, watchpoints, target>>

Next ==
  \/ HostStep \/ Run \/ StepOver \/ StepOut
  \/ \E p \in 0..Len(program) : AddBreakpoint(p) \/ RemoveBreakpoint(p)
  \/ \E n \in WatchNames : AddWatchpoint(n) \/ RemoveWatchpoint(n)
  \/ RunIter \/ DepthIter

Spec == Init /\ [][Next]_vars

-----------------------------------------------------------------------------
TypeOK ==
  /\ pc \in 0..Len(program) /\ stack \in Nat /\ gasUsed \in Nat
  /\ callStack \in Seq({Frame})
  /\ breakpoints \subseteq 0..Len(program) /\ watchpoints \subseteq WatchNames
  /\ dstate \in {"Running", "Paused", "StepOver", "StepOut", "Terminated"}
  /\ loop \in {"idle", "run", "over", "out"}

\* Spec 3 and 8: gas_used never exceeds gas_limit and no instruction is
\* executed once gas is exhausted; VM::execute checks gas_used < gas_limit
\* before charging.  Every step that charges gas starts with gas left.
GasChargedWithGasLeft == gasUsed' > gasUsed => gasUsed < GasLimit
NoExecutionWithoutGas == [][GasChargedWithGasLeft]_vars
=============================================================================
