------------------------------ MODULE TypeChecker ------------------------------
(***************************************************************************)
(* The TypeChecker of src/compiler/type_checker.rs.  check(program) first *)
(* collects every contract's state variables, events and function          *)
(* signatures into the checker's maps, then checks each contract: the     *)
(* types it names, and each function's body with the parameters inserted  *)
(* into variables, which are restored when the function's check succeeds. *)
(* The checker is a value the host keeps: check may be called again on the *)
(* same TypeChecker, and the free function check uses a new one.          *)
(*                                                                         *)
(* The AST is records with a tag (ast.rs); names are strings.  A type is a *)
(* record too; types_match recurses structurally down to ==, so it is     *)
(* equality.  A result is Ok(type) or Fail(error kind).  Error messages   *)
(* are left out.                                                           *)
(***************************************************************************)
EXTENDS Integers, Sequences, SequencesExt

CONSTANTS
  Programs,   \* the programs the host checks
  None        \* Option::None

VARIABLES
  variables,        \* self.variables: name -> type
  functions,        \* self.functions: name -> [params, ret, pure]
  events,           \* self.events: name -> parameter types
  currentFunction,  \* self.current_function
  isPure,           \* self.is_pure_context
  result,           \* what the last check returned: "Ok" or an error kind
  program           \* ghost: the program of the last check

vars == <<variables, functions, events, currentFunction, isPure, result, program>>

T(tag) == [tag |-> tag]
U256 == T("U256")
Bool == T("Bool")
Ok(t) == [ok |-> TRUE, ty |-> t]
Fail(e) == [ok |-> FALSE, err |-> e]
Empty == [n \in {} |-> U256]

\* TypeChecker::new
Init ==
  /\ variables = Empty /\ functions = [n \in {} |-> None] /\ events = [n \in {} |-> <<>>]
  /\ currentFunction = None /\ isPure = FALSE /\ result = "Ok" /\ program = None

\* is_known_type
IsKnownType(name) == name \in {"Address", "u256", "bool", "string"}

\* types_match: Map, Array and Result recurse into their parameters and
\* every other pair is compared with ==, so two types match exactly when
\* they are equal.
TypesMatch(expected, found) == expected = found

\* check_type: "Ok" or "UndefinedType" for a Custom name is_known_type
\* does not know.
RECURSIVE CheckType(_)
CheckType(t) ==
  CASE t.tag \in {"Map", "Result"} -> IF CheckType(t.a) /= "Ok" THEN CheckType(t.a) ELSE CheckType(t.b)
    [] t.tag = "Array" -> CheckType(t.a)
    [] t.tag = "Custom" -> IF IsKnownType(t.name) THEN "Ok" ELSE "UndefinedType"
    [] OTHER -> "Ok"

\* check_binary_operation over the four classes of BinaryOp.
CheckBinary(op, l, r) ==
  CASE op = "Arith" -> IF l = U256 /\ r = U256 THEN Ok(U256) ELSE Fail("InvalidOperation")
    [] op = "Eq" -> IF TypesMatch(l, r) THEN Ok(Bool) ELSE Fail("TypeMismatch")
    [] op = "Cmp" -> IF l = U256 /\ r = U256 THEN Ok(Bool) ELSE Fail("InvalidOperation")
    [] op = "Logic" -> IF l = Bool /\ r = Bool THEN Ok(Bool) ELSE Fail("InvalidOperation")

\* check_unary_operation
CheckUnary(op, t) ==
  IF (op = "Not" /\ t = Bool) \/ (op = "Neg" /\ t = U256) THEN Ok(t) ELSE Fail("InvalidOperation")

\* check_member_access on the checked object: a Map's value type.
CheckMemberAccess(o) ==
  CASE ~o.ok -> o [] o.ty.tag = "Map" -> Ok(o.ty.b) [] OTHER -> Fail("InvalidOperation")

\* check_index_access on the checked array and index: a Map takes its key
\* type, an Array a u256.
CheckIndexAccess(a, i) ==
  CASE ~a.ok -> a
    [] ~i.ok -> i
    [] a.ty.tag = "Map" -> IF TypesMatch(a.ty.a, i.ty) THEN Ok(a.ty.b) ELSE Fail("TypeMismatch")
    [] a.ty.tag = "Array" -> IF i.ty = U256 THEN Ok(a.ty.a) ELSE Fail("TypeMismatch")
    [] OTHER -> Fail("InvalidOperation")

\* check_expression under the checker's variables vs and functions fs;
\* CheckArgs is the loop over (argument, parameter type) pairs shared by
\* check_function_call and Emit: the first failing argument, in order.
RECURSIVE CheckExpression(_, _, _), CheckArgs(_, _, _, _)
CheckArgs(vs, fs, args, ps) ==
  IF args = <<>> THEN Ok(None)
  ELSE LET a == CheckExpression(vs, fs, Head(args)) IN
       CASE ~a.ok -> a
         [] ~TypesMatch(Head(ps), a.ty) -> Fail("TypeMismatch")
         [] OTHER -> CheckArgs(vs, fs, Tail(args), Tail(ps))

CheckExpression(vs, fs, e) ==
  CASE e.tag = "Id" -> IF e.name \in DOMAIN vs THEN Ok(vs[e.name]) ELSE Fail("UndefinedVariable")
    [] e.tag = "Lit" -> Ok(e.ty)
    [] e.tag = "Binary" ->
         LET l == CheckExpression(vs, fs, e.l)
             r == CheckExpression(vs, fs, e.r)
         IN  IF ~l.ok THEN l ELSE IF ~r.ok THEN r ELSE CheckBinary(e.op, l.ty, r.ty)
    [] e.tag = "Unary" ->
         LET o == CheckExpression(vs, fs, e.e) IN IF ~o.ok THEN o ELSE CheckUnary(e.op, o.ty)
    [] e.tag = "Call" ->
         CASE e.fn.tag /= "Id" -> Fail("InvalidOperation")
           [] e.fn.name \notin DOMAIN fs -> Fail("UndefinedFunction")
           [] Len(e.args) /= Len(fs[e.fn.name].params) -> Fail("InvalidOperation")
           [] OTHER -> LET a == CheckArgs(vs, fs, e.args, fs[e.fn.name].params) IN
                       IF ~a.ok THEN a
                       ELSE Ok(IF fs[e.fn.name].ret = None THEN U256 ELSE fs[e.fn.name].ret)
    [] e.tag = "Member" -> CheckMemberAccess(CheckExpression(vs, fs, e.e))
    [] e.tag = "Index" -> CheckIndexAccess(CheckExpression(vs, fs, e.e), CheckExpression(vs, fs, e.i))

\* check_statement (and check_block, its loop) inside a function: st is the
\* variables and the error so far; ctx the signatures, events, current
\* function and purity it reads.  A Let inserts into the one variables map,
\* so a name a block declares stays visible after the block.
RECURSIVE CheckStatement(_, _, _), CheckBlock(_, _, _)
CheckBlock(st, blk, ctx) ==
  FoldLeft(LAMBDA acc, s : IF acc.err /= "Ok" THEN acc ELSE CheckStatement(acc, s, ctx), st, blk)

CheckStatement(st, s, ctx) ==
  LET X(e) == CheckExpression(st.vars, ctx.fs, e)
      Err(k) == [st EXCEPT !.err = k]
      Cond(c, then) == LET t == X(c) IN
                       CASE ~t.ok -> Err(t.err) [] t.ty /= Bool -> Err("TypeMismatch") [] OTHER -> then
  IN CASE s.tag = "Let" ->
            LET v == X(s.value) IN
            CASE ~v.ok -> Err(v.err)
              [] s.decl /= None /\ ~TypesMatch(s.decl, v.ty) -> Err("TypeMismatch")
              [] OTHER -> [st EXCEPT !.vars = (s.name :> v.ty) @@ @]
       [] s.tag = "Assign" ->
            LET t == X(s.target)
                v == X(s.value)
            IN  CASE ~t.ok -> Err(t.err) [] ~v.ok -> Err(v.err)
                  [] ~TypesMatch(t.ty, v.ty) -> Err("TypeMismatch") [] OTHER -> st
       [] s.tag = "If" ->
            Cond(s.cond, LET a == CheckBlock(st, s.then, ctx) IN
                         IF a.err /= "Ok" \/ s.else = None THEN a ELSE CheckBlock(a, s.else, ctx))
       [] s.tag = "While" -> Cond(s.cond, CheckBlock(st, s.body, ctx))
       [] s.tag = "Return" ->
            IF s.e = None THEN st
            ELSE LET v == X(s.e) IN
                 CASE ~v.ok -> Err(v.err)
                   [] ctx.cur \in DOMAIN ctx.fs /\ ctx.fs[ctx.cur].ret /= None
                        /\ ~TypesMatch(ctx.fs[ctx.cur].ret, v.ty) -> Err("TypeMismatch")
                   [] OTHER -> st
       [] s.tag = "Emit" ->
            CASE ctx.pure -> Err("StateModificationInPureFunction")
              [] s.event \notin DOMAIN ctx.evs -> Err("InvalidEventEmission")
              [] Len(s.args) /= Len(ctx.evs[s.event]) -> Err("InvalidEventEmission")
              [] OTHER -> LET a == CheckArgs(st.vars, ctx.fs, s.args, ctx.evs[s.event]) IN
                          IF a.ok THEN st ELSE Err(a.err)
       [] s.tag = "Ensure" -> Cond(s.cond, st)
       \* Statement::FunctionCall falls into `_ => {}`
       [] OTHER -> st

\* The parameter types of a parameter list.
Types(ps) == [i \in 1..Len(ps) |-> ps[i].ty]

\* The parameters inserted into variables, in order.  Below, chk is the
\* checker as one record: variables, functions, events, current function,
\* purity, and the error so far.
ParamScope(vs, f) == FoldLeft(LAMBDA acc, q : (q.name :> q.ty) @@ acc, vs, f.params)

\* Mutation: the outer scope is not restored after a function.
CheckFunctionNoRestore(chk, f) ==
  LET c1 == [chk EXCEPT !.cur = f.name, !.pure = f.pure]
      rt == IF f.ret = None THEN "Ok" ELSE CheckType(f.ret)
      body == CheckBlock([vars |-> ParamScope(chk.vars, f), err |-> "Ok"], f.body,
                         [fs |-> chk.fns, evs |-> chk.evs, cur |-> f.name, pure |-> f.pure])
  IN  CASE rt /= "Ok" -> [c1 EXCEPT !.vars = ParamScope(chk.vars, f), !.err = rt]
        [] OTHER -> [c1 EXCEPT !.vars = body.vars, !.err = body.err]

\* check_function: parameters inserted over the outer variables, the return
\* type checked, the body checked; only when both succeed are variables,
\* current_function and is_pure_context put back.  An error returns
\* through `?` with the function's scope still installed.
CheckFunction(chk, f) ==
  LET c1 == [chk EXCEPT !.cur = f.name, !.pure = f.pure]
      rt == IF f.ret = None THEN "Ok" ELSE CheckType(f.ret)
      body == CheckBlock([vars |-> ParamScope(chk.vars, f), err |-> "Ok"], f.body,
                         [fs |-> chk.fns, evs |-> chk.evs, cur |-> f.name, pure |-> f.pure])
  IN  CASE rt /= "Ok" -> [c1 EXCEPT !.vars = ParamScope(chk.vars, f), !.err = rt]
        [] body.err /= "Ok" -> [c1 EXCEPT !.vars = body.vars, !.err = body.err]
        [] OTHER -> [chk EXCEPT !.cur = None, !.pure = FALSE]

\* check_contract: the state variables' types, the events' parameter
\* types, then each function, stopping at the first error.
CheckContract(chk, c) ==
  LET tys == {v.ty : v \in ToSet(c.stateVars)} \cup UNION {ToSet(Types(ev.params)) : ev \in ToSet(c.events)}
  IN  IF \E t \in tys : CheckType(t) /= "Ok" THEN [chk EXCEPT !.err = "UndefinedType"]
      ELSE FoldLeft(LAMBDA acc, f : IF acc.err /= "Ok" THEN acc ELSE CheckFunction(acc, f),
                    chk, c.functions)

\* collect_declarations: a later name replaces an earlier one.
CollectDeclarations(chk, c) ==
  [chk EXCEPT
     !.vars = FoldLeft(LAMBDA acc, v : (v.name :> v.ty) @@ acc, @, c.stateVars),
     !.evs = FoldLeft(LAMBDA acc, ev : (ev.name :> Types(ev.params)) @@ acc, @, c.events),
     !.fns = FoldLeft(LAMBDA acc, f : (f.name :> [params |-> Types(f.params),
                                                 ret |-> f.ret, pure |-> f.pure]) @@ acc, @, c.functions)]

\* TypeChecker::check(&mut self, program): both passes over the contracts.
Check(p) ==
  LET chk0 == [vars |-> variables, fns |-> functions, evs |-> events,
               cur |-> currentFunction, pure |-> isPure, err |-> "Ok"]
      collected == FoldLeft(CollectDeclarations, chk0, p)
      out == FoldLeft(LAMBDA acc, c : IF acc.err /= "Ok" THEN acc ELSE CheckContract(acc, c),
                      collected, p)
  IN  /\ variables' = out.vars /\ functions' = out.fns /\ events' = out.evs
      /\ currentFunction' = out.cur /\ isPure' = out.pure
      /\ result' = out.err /\ program' = p

\* The host makes a new TypeChecker (as the free function check does).
New ==
  /\ variables' = Empty /\ functions' = [n \in {} |-> None] /\ events' = [n \in {} |-> <<>>]
  /\ currentFunction' = None /\ isPure' = FALSE /\ result' = "Ok" /\ program' = None

Next == New \/ \E p \in Programs : Check(p)

Spec == Init /\ [][Next]_vars

-----------------------------------------------------------------------------
\* The state variables of program p inserted into vs, as the first pass does.
StateVarsInserted(vs, p) ==
  FoldLeft(LAMBDA acc, c : FoldLeft(LAMBDA a, v : (v.name :> v.ty) @@ a, acc, c.stateVars), vs, p)

\* A check that returns Ok leaves no function's scope behind: variables is
\* what it was before the call with the program's state variables
\* inserted, none of the parameters or lets of its functions.  This rests
\* on check_function putting back the outer variables after every
\* function, whatever its body declared at any depth.
CheckRestoresScope ==
  [][(program' /= None /\ result' = "Ok") =>
       variables' = StateVarsInserted(variables, program')]_vars

\* The names an expression, a statement or a block reads: identifiers and
\* the names of called functions.
RECURSIVE ExprNames(_)
ExprNames(e) ==
  CASE e.tag = "Id" -> {e.name}
    [] e.tag = "Lit" -> {}
    [] e.tag = "Binary" -> ExprNames(e.l) \cup ExprNames(e.r)
    [] e.tag \in {"Unary", "Member"} -> ExprNames(e.e)
    [] e.tag = "Index" -> ExprNames(e.e) \cup ExprNames(e.i)
    [] e.tag = "Call" -> ExprNames(e.fn) \cup UNION {ExprNames(a) : a \in ToSet(e.args)}

RECURSIVE StmtNames(_)
BlockNames(b) == UNION {StmtNames(s) : s \in ToSet(b)}
StmtNames(s) ==
  CASE s.tag = "Let" -> ExprNames(s.value)
    [] s.tag = "Assign" -> ExprNames(s.target) \cup ExprNames(s.value)
    [] s.tag = "If" -> ExprNames(s.cond) \cup BlockNames(s.then)
                       \cup (IF s.else = None THEN {} ELSE BlockNames(s.else))
    [] s.tag = "While" -> ExprNames(s.cond) \cup BlockNames(s.body)
    [] s.tag = "Return" -> IF s.e = None THEN {} ELSE ExprNames(s.e)
    [] s.tag = "Emit" -> UNION {ExprNames(a) : a \in ToSet(s.args)}
    [] s.tag = "Ensure" -> ExprNames(s.cond)
    [] s.tag = "CallStmt" -> ExprNames(s.fn) \cup UNION {ExprNames(a) : a \in ToSet(s.args)}

\* The names a block declares with let, at any depth.
RECURSIVE LetNames(_)
LetNames(b) ==
  UNION {CASE s.tag = "Let" -> {s.name}
           [] s.tag = "If" -> LetNames(s.then) \cup (IF s.else = None THEN {} ELSE LetNames(s.else))
           [] s.tag = "While" -> LetNames(s.body)
           [] OTHER -> {} : s \in ToSet(b)}

Functions(p) == UNION {ToSet(c.functions) : c \in ToSet(p)}

\* The names program p declares: state variables, functions, parameters, lets.
Declared(p) ==
  UNION {{v.name : v \in ToSet(c.stateVars)} : c \in ToSet(p)}
  \cup {f.name : f \in Functions(p)}
  \cup UNION {{q.name : q \in ToSet(f.params)} \cup LetNames(f.body) : f \in Functions(p)}

\* check accepts a program only if every name it reads is declared by that
\* program.
AcceptsOnlyDeclared ==
  (program /= None /\ result = "Ok") =>
    UNION {BlockNames(f.body) : f \in Functions(program)} \subseteq Declared(program)
=============================================================================
