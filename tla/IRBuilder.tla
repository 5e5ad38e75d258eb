------------------------------- MODULE IRBuilder -------------------------------
(***************************************************************************)
(* The IR lowering of src/compiler/ir.rs: IRBuilder::build walks the typed *)
(* AST contract by contract, turns state variables into storage slots and  *)
(* function bodies into stack instructions, and `optimize` runs its two    *)
(* passes.  compiler/main.rs calls lower on the type checker's output and  *)
(* optimize when the level is above 0; a step of this module is that.      *)
(*                                                                         *)
(* The AST is the records of TypeChecker, with the binary operator named   *)
(* (Add ... Or) and a number literal carrying the value n.parse() gives.   *)
(* The builder's state (the current contract's storage, the current        *)
(* function's locals and the three counters) is a record threaded through  *)
(* the conversion operators, which return it with the code they produce.   *)
(* A label is the pair <<prefix, label_counter>>: format!("{}{}") of a     *)
(* prefix without digits and a number, and no prefix starts another, so   *)
(* two labels are equal exactly when their pairs are.                      *)
(***************************************************************************)
EXTENDS Integers, Sequences, SequencesExt, FiniteSets

CONSTANTS
  Programs,    \* typed ASTs given to lower
  Levels,      \* optimization levels
  None

VARIABLES
  irAst,       \* the program last lowered
  irOut        \* the ir::Program it was lowered to

vars == <<irAst, irOut>>

I(op, arg) == [op |-> op, arg |-> arg]
NoArg == 0

\* convert_type: the custom and result types become Void.
RECURSIVE ConvertType(_)
ConvertType(t) ==
  CASE t.tag \in {"U256", "Address", "Bool", "String"} -> t
    [] t.tag = "Array" -> [tag |-> "Array", a |-> ConvertType(t.a)]
    [] t.tag = "Map"   -> [tag |-> "Map", a |-> ConvertType(t.a), b |-> ConvertType(t.b)]
    [] OTHER           -> [tag |-> "Void"]

\* An identifier read or written: the first local of the current function
\* with that name, else the first storage slot of the current contract,
\* else no instruction at all.
Named(seq, n) == {i \in DOMAIN seq : seq[i].name = n}
First(s) == CHOOSE i \in s : \A j \in s : i <= j
ResolveName(b, n, localOp, slotOp) ==
  CASE Named(b.locals, n) /= {}  -> <<I(localOp, b.locals[First(Named(b.locals, n))].index)>>
    [] Named(b.storage, n) /= {} -> <<I(slotOp, b.storage[First(Named(b.storage, n))].slot)>>
    [] OTHER                     -> <<>>

\* The operators convert_expression lowers; any other drops the whole
\* expression, its operands' code included.
IROp == [o \in {"Add", "Sub", "Mul", "Div", "Eq", "Lt", "Gt", "LtEq", "GtEq"} |-> o]

RECURSIVE ConvertExpression(_, _)
ConvertExpression(b, e) ==
  CASE e.tag = "Number" -> <<I("Push", e.v)>>
    [] e.tag = "Id"     -> ResolveName(b, e.name, "Load", "SLoad")
    [] e.tag = "Binary" /\ e.op \in DOMAIN IROp ->
         ConvertExpression(b, e.l) \o ConvertExpression(b, e.r) \o <<I(IROp[e.op], NoArg)>>
    [] OTHER            -> <<>>

\* convert_assignment_target: only an identifier is a target.
ConvertAssignmentTarget(b, t) ==
  IF t.tag = "Id" THEN ResolveName(b, t.name, "Store", "SStore") ELSE <<>>

\* Mutation: new_label without its label_counter += 1.
NewLabelStale(n) == n

\* new_label: the label with the current counter, then the counter + 1.
NewLabel(n) == n + 1

\* Lowering a statement gives the builder after it and the code.
R(b, code) == [b |-> b, code |-> code]

\* let: the value's code, then a fresh local pushed at the END of the
\* function's locals, then Store into it.
LetLocal(b, s) ==
  [b EXCEPT !.local = @ + 1, !.locals = Append(@, [name |-> s.name, index |-> b.local])]

\* The three new_label calls of an If: then, else and endif.
LabelsDrawn(b) == [b EXCEPT !.label = NewLabel(NewLabel(NewLabel(@)))]

\* The code of one step followed by the result of the next.
Then(code, r) == R(r.b, code \o r.code)

RECURSIVE ConvertStatement(_, _), ConvertBlock(_, _), Continue(_, _), IfArms(_, _, _, _)

\* convert_block: each statement with the builder the one before left.
ConvertBlock(b, blk) == IF blk = <<>> THEN R(b, <<>>) ELSE Continue(ConvertStatement(b, Head(blk)), Tail(blk))
Continue(r, rest) == Then(r.code, ConvertBlock(r.b, rest))

ConvertElse(b, s) == IF s.else = None THEN R(b, <<>>) ELSE ConvertBlock(b, s.else)

\* The If arm: the labels are drawn first, then the condition, the else
\* block and the then block are lowered in that order.  No Label(else) is
\* ever emitted.
IfCode(n, cond, els, thn) ==
  LET end == <<"endif", NewLabel(NewLabel(n))>>
  IN  R(thn.b, cond \o <<I("JumpIf", <<"then", n>>)>> \o els
               \o <<I("Jump", end), I("Label", <<"then", n>>)>> \o thn.code \o <<I("Label", end)>>)
IfArms(n, cond, s, els) == IfCode(n, cond, els.code, ConvertBlock(els.b, s.then))

\* convert_statement: While, Emit, Ensure and call statements produce no
\* instruction.
ConvertStatement(b, s) ==
  CASE s.tag = "Let"    -> R(LetLocal(b, s), ConvertExpression(b, s.value) \o <<I("Store", b.local)>>)
    [] s.tag = "Assign" -> R(b, ConvertExpression(b, s.value) \o ConvertAssignmentTarget(b, s.target))
    [] s.tag = "Return" -> R(b, (IF s.e = None THEN <<>> ELSE ConvertExpression(b, s.e)) \o <<I("Return", NoArg)>>)
    [] s.tag = "If"     ->
         IfArms(b.label, ConvertExpression(b, s.cond), s, ConvertElse(LabelsDrawn(b), s))
    [] OTHER            -> R(b, <<>>)

\* One function of build: a Function with no locals, its body lowered with
\* the counters as the previous function left them.
FunctionIR(f, r) ==
  [ir |-> [name |-> f.name, params |-> [i \in DOMAIN f.params |-> [name |-> f.params[i].name, ty |-> ConvertType(f.params[i].ty)]],
           ret |-> IF f.ret = None THEN None ELSE ConvertType(f.ret),
           body |-> r.code, locals |-> r.b.locals, pure |-> f.pure],
   b |-> r.b]
ConvertFunction(b, f) == FunctionIR(f, ConvertBlock([b EXCEPT !.locals = <<>>], f.body))

\* The state variables of a contract take the next storage_counter slots.
StorageSlots(b, c) ==
  [b EXCEPT !.storage = [i \in DOMAIN c.stateVars |->
                           [name |-> c.stateVars[i].name, slot |-> b.slot + i - 1,
                            ty |-> ConvertType(c.stateVars[i].ty)]],
            !.slot = @ + Len(c.stateVars)]

\* The functions of a contract, each with the builder the one before left.
WithFunction(ir, acc) == [b |-> acc.b, fns |-> <<ir>> \o acc.fns]
RECURSIVE ConvertFunctions(_, _), NextFunctions(_, _)
ConvertFunctions(b, fs) ==
  IF fs = <<>> THEN [b |-> b, fns |-> <<>>]
  ELSE NextFunctions(ConvertFunction(b, Head(fs)), Tail(fs))
NextFunctions(r, rest) == WithFunction(r.ir, ConvertFunctions(r.b, rest))
ContractIR(acc) == [b |-> acc.b, ir |-> [storage |-> acc.b.storage, functions |-> acc.fns]]
ConvertContract(b, c) == ContractIR(ConvertFunctions(StorageSlots(b, c), c.functions))

\* IRBuilder::new().build(ast): all counters 0, never reset.
NewBuilder == [storage |-> <<>>, locals |-> <<>>, label |-> 0, local |-> 0, slot |-> 0]
RECURSIVE ConvertContracts(_, _), NextContracts(_, _)
ConvertContracts(b, cs) ==
  IF cs = <<>> THEN <<>>
  ELSE NextContracts(ConvertContract(b, Head(cs)), Tail(cs))
NextContracts(r, rest) == <<r.ir>> \o ConvertContracts(r.b, rest)
Build(p) == ConvertContracts(NewBuilder, p)

\* optimize: both passes return the program they are given.
ConstantFolding(ir) == ir
DeadCodeElimination(ir) == ir
Optimize(ir, level) ==
  LET folded == IF level >= 1 THEN ConstantFolding(ir) ELSE ir
  IN  IF level >= 2 THEN DeadCodeElimination(folded) ELSE folded

Init == irAst = None /\ irOut = None

\* Compiler::compile, steps 5 and 6: lower the type checker's output, then
\* optimize it when the level is above 0.
Lower(p, level) ==
  /\ irAst' = p
  /\ irOut' = IF level > 0 THEN Optimize(Build(p), level) ELSE Build(p)

Next == \E p \in Programs, level \in Levels : Lower(p, level)

Spec == Init /\ [][Next]_vars

-----------------------------------------------------------------------------
\* Positions of a body's instructions with the given op and label.
At(body, op, l) == {i \in DOMAIN body : body[i].op = op /\ body[i].arg = l}

\* Every Jump and JumpIf of a lowered function names a label its body
\* places exactly once: the counter new_label advances is shared by every
\* If of every function and never reset, so nested and successive Ifs get
\* distinct labels.
LabelsResolve ==
  irOut /= None =>
    \A f \in UNION {ToSet(c.functions) : c \in ToSet(irOut)} : \A i \in DOMAIN f.body :
      f.body[i].op \in {"Jump", "JumpIf"} => Cardinality(At(f.body, "Label", f.body[i].arg)) = 1

-----------------------------------------------------------------------------
(* What a lowered function computes, against what its source means, for   *)
(* the fragment convert_statement and convert_expression claim to lower:  *)
(* no parameters, number literals, identifiers and the operators of IROp, *)
(* let, assignment to a name, return and if.  Both sides compute with     *)
(* Apply, so only the lowering can make them differ.                      *)

Apply(op, x, y) ==
  CASE op = "Add" -> x + y [] op = "Sub" -> x - y [] op = "Mul" -> x * y
    [] op = "Lt" -> IF x < y THEN 1 ELSE 0 [] op = "Eq" -> IF x = y THEN 1 ELSE 0
    [] OTHER -> 0

RECURSIVE LowerableE(_), LowerableB(_)
LowerableE(e) ==
  \/ e.tag \in {"Number", "Id"}
  \/ e.tag = "Binary" /\ e.op \in DOMAIN IROp /\ LowerableE(e.l) /\ LowerableE(e.r)
LowerableB(blk) ==
  \A i \in DOMAIN blk :
    LET s == blk[i] IN
    CASE s.tag \in {"Let", "Assign"} -> LowerableE(s.value) /\ (s.tag = "Assign" => s.target.tag = "Id")
      [] s.tag = "Return" -> s.e /= None /\ LowerableE(s.e)
      [] s.tag = "If"     -> LowerableE(s.cond) /\ LowerableB(s.then) /\ (s.else /= None => LowerableB(s.else))
      [] OTHER            -> FALSE

\* The source's meaning, with the scoping TypeChecker gives a let: from the
\* let on, its name denotes the new variable (check_statement replaces the
\* name's entry in its variables).
RECURSIVE Eval(_, _), Run(_, _), RunFrom(_, _, _), AfterIf(_, _)
Eval(env, e) ==
  CASE e.tag = "Number" -> e.v
    [] e.tag = "Id"     -> env[e.name]
    [] OTHER            -> Apply(e.op, Eval(env, e.l), Eval(env, e.r))
Run(env, blk) == IF blk = <<>> THEN [env |-> env, ret |-> None] ELSE RunFrom(Head(blk), env, Tail(blk))
RunFrom(s, env, rest) ==
  CASE s.tag = "Let"    -> Run((s.name :> Eval(env, s.value)) @@ env, rest)
    [] s.tag = "Assign" -> Run([env EXCEPT ![s.target.name] = Eval(env, s.value)], rest)
    [] s.tag = "Return" -> [env |-> env, ret |-> Eval(env, s.e)]
    [] OTHER            -> AfterIf(IF Eval(env, s.cond) /= 0 THEN Run(env, s.then)
                                   ELSE IF s.else = None THEN Run(env, <<>>) ELSE Run(env, s.else), rest)
AfterIf(r, rest) == IF r.ret /= None THEN r ELSE Run(r.env, rest)

\* The IR's meaning: a stack machine over locals and storage that stops at
\* Return with the top of the stack, and at anything it cannot do with None.
LabelAt(body, l) == LET at == {i \in DOMAIN body : body[i] = I("Label", l)} IN IF at = {} THEN 0 ELSE First(at)
RECURSIVE Exec(_, _, _, _, _)
Exec(body, pc, stk, loc, sto) ==
  IF pc = 0 \/ pc > Len(body) THEN None ELSE
  LET x == body[pc] IN
  CASE x.op = "Push"  -> Exec(body, pc + 1, <<x.arg>> \o stk, loc, sto)
    [] x.op = "Label" -> Exec(body, pc + 1, stk, loc, sto)
    [] x.op = "Jump"  -> Exec(body, LabelAt(body, x.arg), stk, loc, sto)
    [] x.op = "Load" /\ x.arg \in DOMAIN loc -> Exec(body, pc + 1, <<loc[x.arg]>> \o stk, loc, sto)
    [] x.op = "SLoad" -> Exec(body, pc + 1, <<sto[x.arg]>> \o stk, loc, sto)
    [] stk = <<>>     -> None
    [] x.op = "Return" -> Head(stk)
    [] x.op = "Store" -> Exec(body, pc + 1, Tail(stk), (x.arg :> Head(stk)) @@ loc, sto)
    [] x.op = "SStore" -> Exec(body, pc + 1, Tail(stk), loc, [sto EXCEPT ![x.arg] = Head(stk)])
    [] x.op = "JumpIf" -> Exec(body, IF Head(stk) /= 0 THEN LabelAt(body, x.arg) ELSE pc + 1, Tail(stk), loc, sto)
    [] Len(stk) < 2   -> None
    [] OTHER          -> Exec(body, pc + 1, <<Apply(x.op, stk[2], stk[1])>> \o Tail(Tail(stk)), loc, sto)

\* A lowered function of the fragment above returns, from zeroed storage,
\* the value its source returns.  find on the locals takes the FIRST local
\* of a name, so after a second let of the name, reads still go to the
\* first one.
LoweringPreservesResult ==
  irOut /= None =>
    \A k \in DOMAIN irOut : \A j \in DOMAIN irOut[k].functions :
      LET src == irAst[k].functions[j]
          fn  == irOut[k].functions[j]
      IN  (src.params = <<>> /\ LowerableB(src.body)) =>
            Exec(fn.body, 1, <<>>, <<>>, [s \in {x.slot : x \in ToSet(irOut[k].storage)} |-> 0])
              = Run([n \in {v.name : v \in ToSet(irAst[k].stateVars)} |-> 0], src.body).ret
=============================================================================
