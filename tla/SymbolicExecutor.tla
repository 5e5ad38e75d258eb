--------------------------- MODULE SymbolicExecutor ---------------------------
(***************************************************************************)
(* SymbolicExecutor::execute_function of src/security/symbolic.rs.         *)
(* execute_symbolic runs a function's instructions in order from the      *)
(* first; a Jump pops its condition and forks: a clone with the condition *)
(* pushed on path_conditions and one with its negation, each one level    *)
(* deeper, each running the function again from its first instruction,    *)
(* after which the loop goes on; a Return records an ExecutionPath with   *)
(* the current path_conditions.  Nothing runs at max_depth.               *)
(*                                                                         *)
(* SymbolicState's stack and variables are stubs: pop always returns      *)
(* Concrete(Int(0)) and nothing fails, so every Jump's condition is the   *)
(* same value Cond, every other instruction continues, and a path is its  *)
(* sequence of conditions (return values and state changes are constant). *)
(* An instruction is "Jump", "Return" or "Other".                         *)
(***************************************************************************)
EXTENDS Integers, Sequences, SequencesExt

CONSTANTS
  Functions,  \* the instruction lists of the functions the host executes
  MaxDepths   \* max_depth values given to new

VARIABLES
  maxDepth,  \* self.max_depth
  paths,     \* what the last execute_function returned
  fn         \* ghost: the function it was given

vars == <<maxDepth, paths, fn>>

Cond == "cond"
NotCond == "not cond"

\* SymbolicExecutor::new(contract, max_depth)
Init == maxDepth \in MaxDepths /\ paths = <<>> /\ fn = <<>>

\* Mutation: the false branch is never explored.
RECURSIVE ExecuteSymbolicTrueOnly(_, _, _)
ExecuteSymbolicTrueOnly(f, conds, depth) ==
  IF depth >= maxDepth THEN <<>>
  ELSE FoldLeft(LAMBDA acc, ins :
                  CASE ins = "Jump" -> acc \o ExecuteSymbolicTrueOnly(f, Append(conds, Cond), depth + 1)
                    [] ins = "Return" -> Append(acc, conds)
                    [] OTHER -> acc,
                <<>>, f)

\* execute_symbolic for an executor with these path_conditions and this
\* execution_depth: the paths it pushes, in order.  fork_execution runs the
\* true clone to completion, then the false clone.
RECURSIVE ExecuteSymbolic(_, _, _)
ExecuteSymbolic(f, conds, depth) ==
  IF depth >= maxDepth THEN <<>>
  ELSE FoldLeft(LAMBDA acc, ins :
                  CASE ins = "Jump" -> acc \o ExecuteSymbolic(f, Append(conds, Cond), depth + 1)
                                           \o ExecuteSymbolic(f, Append(conds, NotCond), depth + 1)
                    [] ins = "Return" -> Append(acc, conds)
                    [] OTHER -> acc,
                <<>>, f)

\* execute_function: the executor's own path_conditions and depth are
\* untouched, since every fork works on a clone.
ExecuteFunction(f) ==
  /\ paths' = ExecuteSymbolic(f, <<>>, 0) /\ fn' = f
  /\ UNCHANGED maxDepth

Next == \E f \in Functions : ExecuteFunction(f)

Spec == Init /\ [][Next]_vars

-----------------------------------------------------------------------------
TypeOK == paths \in Seq(Seq({Cond, NotCond}))

\* The sequences of branch outcomes of at most n forks.
Outcomes(n) == UNION {[1..k -> {Cond, NotCond}] : k \in 0..n}

\* execute_function explores every combination of branch outcomes the depth
\* bound allows and no longer one: for a function that can return, the
\* path conditions it returns are exactly the outcome sequences of fewer
\* than max_depth forks (of none when it has no Jump); for one that cannot,
\* it returns no path.
ExploresEveryBranch ==
  LET forks == IF \E i \in 1..Len(fn) : fn[i] = "Jump" THEN maxDepth - 1 ELSE 0
  IN  ToSet(paths) = IF (\E i \in 1..Len(fn) : fn[i] = "Return") /\ maxDepth > 0
                     THEN Outcomes(forks) ELSE {}
=============================================================================
