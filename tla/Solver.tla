-------------------------------- MODULE Solver --------------------------------
(***************************************************************************)
(* The ConstraintSolver of src/security/solver.rs: add_constraint, and     *)
(* solve's loop, one action per iteration (mode is "solving" while it      *)
(* runs).  Each iteration checks is_complete, counts itself against        *)
(* max_iterations, propagates, decides a variable and reads the clock.     *)
(*                                                                         *)
(* A constraint is what the solver reads of its condition: Concrete,       *)
(* Variable(v), or a compound (BinaryOp, UnaryOp, FunctionCall, Ite) with  *)
(* the set of variables inside it.  evaluate_constraint never returns     *)
(* False (a Variable is True once assigned, else implies v = Bool(true);  *)
(* every other condition is True or Unknown with no implication), so       *)
(* propagate never returns Conflict and analyze_conflict and the          *)
(* UNSAT return are unreachable.  Every value assigned is Bool(true), so  *)
(* an assignment is the set of its variables.  The clock is a choice: the  *)
(* timeout check may fire after any iteration.                             *)
(***************************************************************************)
EXTENDS Integers, Sequences, SequencesExt

CONSTANTS
  Vars,            \* variable names
  Conds,           \* constraints the host passes to add_constraint
  MaxIterations,   \* solver_config.max_iterations values
  MaxConstraints   \* the host stops adding constraints at MaxConstraints

VARIABLES
  constraints,  \* self.constraints
  maxIter,      \* self.solver_config.max_iterations
  mode,         \* "idle" or "solving"
  assignment,   \* solve's assignment: the variables assigned
  unassigned,   \* solve's unassigned, collected when it starts
  pick,         \* what unassigned.iter().next() returns
  trail,        \* solve's trail: the variables in the order assigned
  iterations, decisions, propagations,  \* solve's statistics
  result        \* the last Solution: [satisfiable, model, core]

vars == <<constraints, maxIter, mode, assignment, unassigned, pick, trail,
          iterations, decisions, propagations, result>>

NoSolution == [satisfiable |-> FALSE, model |-> {}, core |-> FALSE]

\* ConstraintSolver::new(config)
Init ==
  /\ constraints = <<>> /\ maxIter \in MaxIterations /\ mode = "idle"
  /\ assignment = {} /\ unassigned = {} /\ pick = {} /\ trail = <<>>
  /\ iterations = 0 /\ decisions = 0 /\ propagations = 0
  /\ result = NoSolution

\* add_constraint: self.constraints.push(constraint)
AddConstraint(c) ==
  /\ mode = "idle" /\ Len(constraints) < MaxConstraints
  /\ constraints' = Append(constraints, c)
  /\ UNCHANGED <<maxIter, mode, assignment, unassigned, pick, trail,
                 iterations, decisions, propagations, result>>

\* collect_variables_from_symbolic over a condition.
VarsOf(c) == CASE c.kind = "Variable" -> {c.v} [] c.kind = "Compound" -> c.vars [] OTHER -> {}

\* collect_variables: the variables of every constraint.
CollectVariables == UNION {VarsOf(constraints[i]) : i \in 1..Len(constraints)}

\* is_complete: every collected variable assigned.
IsComplete(asg) == CollectVariables \subseteq asg

\* propagate: each pass over the constraints assigns the variable of every
\* unassigned Variable constraint, in constraint order; the second pass
\* finds nothing new.  The variables it assigns, in trail order.
Propagated(asg) ==
  FoldLeft(LAMBDA new, c : IF c.kind = "Variable" /\ c.v \notin asg /\ ~ \E i \in 1..Len(new) : new[i] = c.v
                           THEN Append(new, c.v) ELSE new,
           <<>>, constraints)

\* solve's setup: an empty assignment and trail, and the collected
\* variables as unassigned; the HashSet yields one of them first.
Solve ==
  /\ mode = "idle"
  /\ mode' = "solving"
  /\ assignment' = {} /\ trail' = <<>>
  /\ unassigned' = CollectVariables
  /\ pick' \in IF CollectVariables = {} THEN {{}} ELSE {{v} : v \in CollectVariables}
  /\ iterations' = 0 /\ decisions' = 0 /\ propagations' = 0
  /\ UNCHANGED <<constraints, maxIter, result>>

Return(sol) == mode' = "idle" /\ result' = sol

\* pick_branching_variable then decide_variable: the variable unassigned
\* yields first is assigned Bool(true) and pushed on the trail.
DecideVariable(asg) == asg \cup pick
DecideTrail(tr) == tr \o SetToSeq(pick)

\* Mutation: the loop runs without counting against max_iterations.
IterateUnbounded ==
  /\ mode = "solving" /\ ~ IsComplete(assignment)
  /\ iterations' = iterations + 1
  /\ LET new == Propagated(assignment)
         asg == DecideVariable(assignment \cup ToSet(new))
     IN /\ assignment' = asg
        /\ trail' = DecideTrail(trail \o new)
        /\ propagations' = propagations + Len(new)
        /\ decisions' = decisions + Cardinality(pick)
  /\ \/ Return(NoSolution)
     \/ UNCHANGED <<mode, result>>
  /\ UNCHANGED <<constraints, maxIter, unassigned, pick>>

\* One iteration of solve's while loop.  pick_branching_variable reads
\* unassigned, which nothing updates, so it yields the same variable every
\* time, and decide_variable inserts it and pushes it on the trail again.
Iterate ==
  /\ mode = "solving" /\ ~ IsComplete(assignment)
  /\ iterations' = iterations + 1
  /\ IF iterations + 1 >= maxIter
     THEN Return(NoSolution) /\ UNCHANGED <<assignment, trail, propagations, decisions>>
     ELSE /\ LET new == Propagated(assignment)
                 asg == DecideVariable(assignment \cup ToSet(new))
             IN /\ assignment' = asg
                /\ trail' = DecideTrail(trail \o new)
                /\ propagations' = propagations + Len(new)
                /\ decisions' = decisions + Cardinality(pick)
          \* the timeout check at the end of the iteration
          /\ \/ Return(NoSolution)
             \/ UNCHANGED <<mode, result>>
  /\ UNCHANGED <<constraints, maxIter, unassigned, pick>>

\* The loop ends with every variable assigned: satisfiable, the assignment
\* as the model.
Solved ==
  /\ mode = "solving" /\ IsComplete(assignment)
  /\ Return([satisfiable |-> TRUE, model |-> assignment, core |-> FALSE])
  /\ UNCHANGED <<constraints, maxIter, assignment, unassigned, pick, trail,
                 iterations, decisions, propagations>>

Next ==
  \/ \E c \in Conds : AddConstraint(c)
  \/ Solve \/ Iterate \/ Solved

Spec == Init /\ [][Next]_vars

-----------------------------------------------------------------------------
\* The statistics stay within max_iterations, and a model assigns only
\* variables the constraints name.
TypeOK ==
  /\ mode \in {"idle", "solving"}
  /\ assignment \subseteq Vars /\ pick \subseteq unassigned
  /\ iterations \in 0..maxIter /\ decisions <= iterations
  /\ result.model \subseteq Vars

\* Every constraint set solve is given is satisfiable by its own evaluation
\* (assigning every variable Bool(true) makes each constraint True or
\* Unknown), and each iteration can assign a variable, so solve runs out of
\* max_iterations only when there are at least as many variables.
SolvesWithinBudget ==
  (mode = "idle" /\ iterations = maxIter /\ ~ result.satisfiable)
    => maxIter <= Cardinality(CollectVariables)
=============================================================================
