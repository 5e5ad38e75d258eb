----------------------------- MODULE TheoremProver -----------------------------
(***************************************************************************)
(* The TheoremProver of src/stdlib/verification/mod.rs: a list of axioms   *)
(* and a HashMap from names to proofs that prove accepted.  prove checks   *)
(* the steps of a proof in order against known_props (the axioms, then     *)
(* what each step added), then stores the proof if its conclusion is       *)
(* known.                                                                  *)
(*                                                                         *)
(* A Proposition is a record with a tag; a proof step is its justification *)
(* and, for an assumption, its proposition (a ModusPonens step pushes the   *)
(* consequent and never reads its own proposition).  Only a proof's        *)
(* assumptions and conclusion are kept once it is stored: nothing reads    *)
(* its steps again.                                                        *)
(***************************************************************************)
EXTENDS Integers, Sequences, SequencesExt

CONSTANTS
  Atoms,      \* the names of Proposition::Atomic
  Props,      \* propositions the host passes to add_axiom
  Proofs,     \* proofs the host passes to prove
  Names,      \* theorem names
  MaxAxioms   \* the host stops adding axioms at MaxAxioms

VARIABLES
  axioms,    \* self.axioms
  theorems,  \* self.theorems: name -> [assumptions, conclusion]
  result     \* what the last prove returned

vars == <<axioms, theorems, result>>

\* TheoremProver::new
Init ==
  /\ axioms = <<>>
  /\ theorems = [n \in {} |-> {}]
  /\ result = "Ok"

\* add_axiom: self.axioms.push(axiom)
AddAxiom(p) ==
  /\ Len(axioms) < MaxAxioms
  /\ axioms' = Append(axioms, p)
  /\ UNCHANGED <<theorems, result>>

\* Mutation: modus ponens without the `**a == *prop2` check.
CheckStepAnyAntecedent(assumptions, acc, st) ==
  IF acc.err /= "Ok" THEN acc
  ELSE CASE st.just = "Assumption" ->
              IF st.prop \in assumptions
              THEN [acc EXCEPT !.known = Append(@, st.prop)]
              ELSE [acc EXCEPT !.err = "InvalidAssumption"]
         [] st.just = "ModusPonens" ->
              LET k == acc.known IN
              IF st.p1 < Len(k) /\ st.p2 < Len(k) /\ k[st.p1 + 1].tag = "Implies"
              THEN [acc EXCEPT !.known = Append(@, k[st.p1 + 1].r)]
              ELSE acc
         [] OTHER -> [acc EXCEPT !.err = "UnsupportedJustification"]

\* One iteration of prove's loop over proof.steps: acc is known_props and
\* the error returned so far ("Ok" while none).  known_props.get(i) is the
\* entry at index i counted from 0; a ModusPonens whose indices are out of
\* range, or whose first proposition is not an Implies, adds nothing and
\* is not an error.
CheckStep(assumptions, acc, st) ==
  IF acc.err /= "Ok" THEN acc
  ELSE CASE st.just = "Assumption" ->
              IF st.prop \in assumptions
              THEN [acc EXCEPT !.known = Append(@, st.prop)]
              ELSE [acc EXCEPT !.err = "InvalidAssumption"]
         [] st.just = "ModusPonens" ->
              LET k == acc.known IN
              IF st.p1 < Len(k) /\ st.p2 < Len(k) /\ k[st.p1 + 1].tag = "Implies"
              THEN IF k[st.p1 + 1].l = k[st.p2 + 1]
                   THEN [acc EXCEPT !.known = Append(@, k[st.p1 + 1].r)]
                   ELSE [acc EXCEPT !.err = "InvalidModusPonens"]
              ELSE acc
         [] OTHER -> [acc EXCEPT !.err = "UnsupportedJustification"]

\* The loop: known_props starts as a clone of the axioms.
Checked(pf) ==
  FoldLeft(LAMBDA acc, st : CheckStep(pf.assumptions, acc, st),
           [known |-> axioms, err |-> "Ok"], pf.steps)

\* prove(name, proof): the steps' error, else the proof inserted under name
\* (replacing one already there) if its conclusion is in known_props.
Prove(name, pf) ==
  LET out == Checked(pf) IN
  /\ IF out.err /= "Ok"
     THEN result' = out.err /\ UNCHANGED theorems
     ELSE IF pf.conclusion \in ToSet(out.known)
          THEN /\ theorems' = (name :> [assumptions |-> pf.assumptions,
                                        conclusion |-> pf.conclusion]) @@ theorems
               /\ result' = "Ok"
          ELSE result' = "ConclusionNotProven" /\ UNCHANGED theorems
  /\ UNCHANGED axioms

Next ==
  \/ \E p \in Props : AddAxiom(p)
  \/ \E n \in Names, pf \in Proofs : Prove(n, pf)

Spec == Init /\ [][Next]_vars

-----------------------------------------------------------------------------
TypeOK ==
  /\ axioms \in Seq(Props)
  /\ DOMAIN theorems \subseteq Names
  /\ result \in {"Ok", "InvalidAssumption", "InvalidModusPonens",
                 "UnsupportedJustification", "ConclusionNotProven"}

\* The truth of a proposition under a valuation of the atoms; a quantifier
\* binds no atom, so it has the truth of its body.
RECURSIVE Holds(_, _)
Holds(p, val) ==
  CASE p.tag = "Atomic" -> val[p.a]
    [] p.tag = "And" -> Holds(p.l, val) /\ Holds(p.r, val)
    [] p.tag = "Or" -> Holds(p.l, val) \/ Holds(p.r, val)
    [] p.tag = "Implies" -> Holds(p.l, val) => Holds(p.r, val)
    [] OTHER -> Holds(p.body, val)

\* hyps entail c: every valuation making all of hyps true makes c true.
Entails(hyps, c) ==
  \A val \in [Atoms -> BOOLEAN] : (\A h \in hyps : Holds(h, val)) => Holds(c, val)

\* prove is sound: the conclusion of every theorem it stored follows from
\* the axioms and the theorem's assumptions.  This rests on each check of
\* prove's loop (an assumption must be listed, modus ponens must match the
\* antecedent) and on known_props being indexed as it was built.
TheoremsSound ==
  \A n \in DOMAIN theorems :
    Entails(ToSet(axioms) \cup theorems[n].assumptions, theorems[n].conclusion)
=============================================================================
