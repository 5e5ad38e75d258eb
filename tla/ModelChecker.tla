----------------------------- MODULE ModelChecker -----------------------------
(***************************************************************************)
(* ModelChecker::verify of src/security/model_checker.rs: build_state_space *)
(* is a breadth-first search from the contract's initial state, bounded by *)
(* config.max_depth, that stores every successor in the StateSpace; then   *)
(* the safety, liveness and fairness properties the config enables are     *)
(* checked in that order and their results collected.                      *)
(*                                                                         *)
(* get_enabled_actions, compute_successor and the check_* methods are      *)
(* hooks whose bodies are still stubs (no action enabled, no property      *)
(* violated).  The model takes them as constants: Succ gives, for a        *)
(* contract state, the successors of its enabled actions in order, and     *)
(* Violated the properties whose check returns a trace.  The stubs are     *)
(* the instance where Succ is empty and Violated is {}.  One action is one *)
(* iteration of build_state_space's while loop; the three property loops  *)
(* run without interleaving and are one action.  The state_space is a      *)
(* field, so it keeps what an earlier verify stored.                       *)
(***************************************************************************)
EXTENDS Integers, Sequences, SequencesExt

CONSTANTS
  CStates,     \* contract states
  InitState,   \* contract.get_initial_state()
  Succ,        \* Succ[s]: the successor of each enabled action, in order
  MaxDepths,   \* config.max_depth values
  Props,       \* Props[k]: the property names of kind k, in order
  Violated     \* the properties whose check_* returns a counterexample

Kinds == <<"Safety", "Liveness", "Fairness">>

VARIABLES
  maxDepth, enabled,     \* config.max_depth, and the kinds config enables
  states, transitions, initial,  \* self.state_space
  queue, visited,        \* build_state_space's locals
  explored, transExplored, maxDepthReached,  \* statistics
  mode,                  \* "idle", or "building" while build_state_space runs
  verified, results, counterexamples   \* the VerificationResult

vars == <<maxDepth, enabled, states, transitions, initial, queue, visited, explored,
          transExplored, maxDepthReached, mode, verified, results, counterexamples>>

\* ModelChecker::new: StateSpace::new(), the config as given.
Init ==
  /\ maxDepth \in MaxDepths /\ enabled \in SUBSET {1, 2, 3}
  /\ states = <<>> /\ transitions = <<>> /\ initial = {}
  /\ queue = <<>> /\ visited = {}
  /\ explored = 0 /\ transExplored = 0 /\ maxDepthReached = 0
  /\ mode = "idle" /\ verified = TRUE /\ results = <<>> /\ counterexamples = 0

\* StateSpace::add_state: the index is states.len() before the push.
AddState(ss, s) == Append(ss, s)

\* verify: statistics zeroed, then build_state_space adds the initial state
\* and queues it at depth 0.
Verify ==
  /\ mode = "idle"
  /\ states' = AddState(states, InitState)
  /\ initial' = initial \cup {Len(states)}
  /\ queue' = << <<Len(states), 0>> >>
  /\ visited' = {} /\ explored' = 0 /\ transExplored' = 0 /\ maxDepthReached' = 0
  /\ mode' = "building"
  /\ UNCHANGED <<maxDepth, enabled, transitions, verified, results, counterexamples>>

\* The successors of the state at index i, each stored at a fresh index.
Expand(i, d) ==
  LET next == Succ[states[i + 1]]
      base == Len(states)
  IN  /\ states' = states \o next
      /\ transitions' = transitions \o [k \in 1..Len(next) |-> [from |-> i, to |-> base + k - 1]]
      /\ transExplored' = transExplored + Len(next)
      \* a fresh index is never in visited, so every successor is queued
      /\ queue' = Tail(queue) \o [k \in 1..Len(next) |-> <<base + k - 1, d + 1>>]

\* Mutation: a state is expanded only while its depth is below max_depth - 1.
BuildStepShallow ==
  /\ mode = "building" /\ queue /= <<>>
  /\ LET i == Head(queue)[1]
         d == Head(queue)[2]
     IN IF d + 1 >= maxDepth \/ i \in visited
        THEN /\ queue' = Tail(queue)
             /\ UNCHANGED <<states, transitions, visited, explored, transExplored, maxDepthReached>>
        ELSE /\ maxDepthReached' = IF d > maxDepthReached THEN d ELSE maxDepthReached
             /\ visited' = visited \cup {i} /\ explored' = explored + 1
             /\ Expand(i, d)
  /\ UNCHANGED <<maxDepth, enabled, initial, mode, verified, results, counterexamples>>

\* One iteration of build_state_space's while loop: a state at max_depth or
\* already visited is skipped (max_depth_reached is updated before the
\* visited check); any other is marked visited and expanded.
BuildStep ==
  /\ mode = "building" /\ queue /= <<>>
  /\ LET i == Head(queue)[1]
         d == Head(queue)[2]
     IN IF d >= maxDepth
        THEN /\ queue' = Tail(queue)
             /\ UNCHANGED <<states, transitions, visited, explored, transExplored, maxDepthReached>>
        ELSE /\ maxDepthReached' = IF d > maxDepthReached THEN d ELSE maxDepthReached
             /\ IF i \in visited
                THEN /\ queue' = Tail(queue)
                     /\ UNCHANGED <<states, transitions, visited, explored, transExplored>>
                ELSE /\ visited' = visited \cup {i} /\ explored' = explored + 1
                     /\ Expand(i, d)
  /\ UNCHANGED <<maxDepth, enabled, initial, mode, verified, results, counterexamples>>

\* The results of one property loop: verify_safety_properties and its kin.
ResultsOf(k) ==
  [j \in 1..Len(Props[Kinds[k]]) |->
     [name |-> Props[Kinds[k]][j], kind |-> Kinds[k],
      status |-> IF Props[Kinds[k]][j] \in Violated THEN "Violated" ELSE "Verified"]]

\* The loops of the kinds config enables, in verify's order.
Checked == FoldLeft(LAMBDA acc, k : IF k \in enabled THEN acc \o ResultsOf(k) ELSE acc,
                    <<>>, <<1, 2, 3>>)


\* result.verified: set to true, cleared by any loop that meets a violation.
VerdictOf(rs) == \A j \in 1..Len(rs) : rs[j].status /= "Violated"

\* build_state_space returned: the property loops push a result per
\* property and a counterexample per violation, and clear verified on one.
CheckProperties ==
  /\ mode = "building" /\ queue = <<>>
  /\ results' = Checked
  /\ verified' = VerdictOf(Checked)
  /\ counterexamples' = Cardinality({j \in 1..Len(Checked) : Checked[j].status = "Violated"})
  /\ mode' = "idle"
  /\ UNCHANGED <<maxDepth, enabled, states, transitions, initial, queue, visited, explored,
                 transExplored, maxDepthReached>>

Next == Verify \/ BuildStep \/ CheckProperties

Spec == Init /\ [][Next]_vars

-----------------------------------------------------------------------------
TypeOK ==
  /\ states \in Seq(CStates) /\ mode \in {"idle", "building"}
  /\ \A t \in ToSet(transitions) : t.from \in 0..Len(states) - 1 /\ t.to \in 0..Len(states) - 1
  /\ initial \subseteq 0..Len(states) - 1 /\ visited \subseteq 0..Len(states) - 1

\* The contract states reachable from InitState in at most k steps.
RECURSIVE Within(_)
Within(k) ==
  IF k < 0 THEN {}
  ELSE IF k = 0 THEN {InitState}
  ELSE Within(k - 1) \cup UNION {ToSet(Succ[s]) : s \in Within(k - 1)}

\* Once build_state_space returns, every contract state reachable in fewer
\* than max_depth steps was explored by this verify, and every state
\* reachable in max_depth steps is in the state space: the search neither
\* stops a level early nor misses a successor.
ExploresWithinDepth ==
  (mode = "building" /\ queue = <<>>) =>
    /\ \A s \in Within(maxDepth - 1) : \E i \in visited : states[i + 1] = s
    /\ \A s \in Within(maxDepth) : \E i \in Max(initial)..Len(states) - 1 : states[i + 1] = s

=============================================================================
