------------------------------- MODULE CoreTypes -------------------------------
(***************************************************************************)
(* The effect-typed TypeChecker of src/core/types/mod.rs.  check_expr is   *)
(* its one public method: a literal has its type, a variable the type     *)
(* lookup_variable finds, a function is checked in a copy of the context  *)
(* with its parameters pushed at the end, a call checks the callee, the   *)
(* argument count, each argument and the callee's effects, and a contract *)
(* checks its field types and its methods.  TypeChecker::new starts from  *)
(* an empty TypeContext, and the context is private, so every check       *)
(* starts from no variables and no effects.                               *)
(*                                                                         *)
(* A type is a record tagged with its variant.  Type derives no           *)
(* PartialEq (Dependent and Refined hold closures), so the `!=` of        *)
(* check_function and check_call is the structural equality a derived     *)
(* PartialEq would give.  Names, literal payloads and predicates are left *)
(* out: a literal is the variant and width check_literal reads.           *)
(***************************************************************************)
EXTENDS Integers, Sequences, SequencesExt, FiniteSets

CONSTANTS
  Exprs,       \* expressions the host passes to check_expr
  None

VARIABLES
  checked,     \* the expression of the last check_expr call
  result       \* what it returned: [ok, ty] or [ok, err]

vars == <<checked, result>>

Ok(t) == [ok |-> TRUE, ty |-> t]
Err(e) == [ok |-> FALSE, err |-> e]

FnType(params, ret, effects) ==
  [tag |-> "Function", params |-> params, ret |-> ret, effects |-> effects]
ParamTypes(params) == [i \in DOMAIN params |-> params[i][2]]

\* check_literal
CheckLiteral(l) ==
  CASE l.kind = "Int"   -> [tag |-> "Int", bits |-> l.bits, signed |-> TRUE]
    [] l.kind = "Uint"  -> [tag |-> "Uint", bits |-> l.bits]
    [] l.kind = "Bytes" -> [tag |-> "Bytes", len |-> l.len]
    [] OTHER            -> [tag |-> l.kind]

\* TypeContext::lookup_variable: `find` over the variables in the order
\* add_variable pushed them, so the first binding of a name wins.
Bound(ctx, n) == {i \in DOMAIN ctx.vars : ctx.vars[i][1] = n}
LookupVariable(ctx, n) ==
  LET is == Bound(ctx, n)
  IN  ctx.vars[CHOOSE i \in is : \A j \in is : i <= j][2]

\* check_variable
CheckVariable(ctx, n) ==
  IF Bound(ctx, n) = {} THEN Err("UndefinedVariable") ELSE Ok(LookupVariable(ctx, n))

\* TypeContext::check_effects: every required effect was added.
CheckEffects(ctx, required) == \A i \in DOMAIN required : required[i] \in ToSet(ctx.effects)

RECURSIVE CheckExpr(_, _), CheckFunction(_, _), CheckCall(_, _), CheckArgsUnchecked(_, _, _, _),
          CheckArgs(_, _, _, _), CheckContract(_, _), CheckMethods(_, _, _, _)

CheckExpr(ctx, e) ==
  CASE e.tag = "Literal"  -> Ok(CheckLiteral(e.lit))
    [] e.tag = "Variable" -> CheckVariable(ctx, e.name)
    [] e.tag = "Function" -> CheckFunction(ctx, e)
    [] e.tag = "Call"     -> CheckCall(ctx, e)
    [] e.tag = "Contract" -> CheckContract(ctx, e)

\* check_function: the body in a clone of the context with the parameters
\* added after the variables already there, then the declared return type.
CheckFunction(ctx, f) ==
  LET r == CheckExpr([ctx EXCEPT !.vars = @ \o f.params], f.body)
  IN  CASE ~r.ok          -> r
        [] r.ty /= f.ret  -> Err("TypeMismatch")
        [] OTHER          -> Ok(FnType(ParamTypes(f.params), f.ret, f.effects))

\* check_call: the callee, the argument count, then each argument in order
\* and last the callee's effects.
CheckCall(ctx, c) ==
  LET ft == CheckExpr(ctx, c.fn)
  IN  CASE ~ft.ok                           -> ft
        [] ft.ty.tag /= "Function"          -> Err("NotAFunction")
        [] Len(ft.ty.params) /= Len(c.args) -> Err("ArgumentCountMismatch")
        [] OTHER                            -> CheckArgs(ctx, ft.ty, c.args, 1)

\* Mutation: the arguments are checked but not compared with the
\* parameter types.
CheckArgsUnchecked(ctx, ft, args, i) ==
  IF i > Len(args)
  THEN IF CheckEffects(ctx, ft.effects) THEN Ok(ft.ret) ELSE Err("UnauthorizedEffect")
  ELSE LET a == CheckExpr(ctx, args[i])
       IN  IF ~a.ok THEN a ELSE CheckArgs(ctx, ft, args, i + 1)

CheckArgs(ctx, ft, args, i) ==
  IF i > Len(args)
  THEN IF CheckEffects(ctx, ft.effects) THEN Ok(ft.ret) ELSE Err("UnauthorizedEffect")
  ELSE LET a == CheckExpr(ctx, args[i])
       IN  CASE ~a.ok                 -> a
             [] a.ty /= ft.params[i]  -> Err("ArgumentTypeMismatch")
             [] OTHER                 -> CheckArgs(ctx, ft, args, i + 1)

\* check_contract: every field type, then every method as a function.
\* check_type only recurses into the bases and session states and returns
\* Ok for every type, so the fields always pass.
CheckContract(ctx, c) == CheckMethods(ctx, c, 1, <<>>)

CheckMethods(ctx, c, i, methods) ==
  IF i > Len(c.methods)
  THEN Ok([tag |-> "Contract", name |-> c.name, fields |-> c.fields, methods |-> methods])
  ELSE LET m == CheckFunction(ctx, c.methods[i][2])
       IN  IF ~m.ok THEN m
           ELSE CheckMethods(ctx, c, i + 1, Append(methods, <<c.methods[i][1], m.ty>>))

\* TypeChecker::new
NewContext == [vars |-> <<>>, effects |-> <<>>]

Init == checked = None /\ result = None

\* The host calls check_expr(e).
Check(e) ==
  /\ checked' = e
  /\ result' = CheckExpr(NewContext, e)

Next == \E e \in Exprs : Check(e)

Spec == Init /\ [][Next]_vars

-----------------------------------------------------------------------------
(***************************************************************************)
(* What the types mean: call-by-value evaluation with lexical scope, the   *)
(* scope check_function's comments promise ("Create new scope", "Add       *)
(* parameters to scope").  A function value is a closure over the         *)
(* environment it was made in, and a parameter hides an outer name of the *)
(* same name.                                                              *)
(***************************************************************************)
Stuck == [kind |-> "stuck"]

\* The environment of a call: the closure's, with each parameter bound to
\* its argument (a name listed twice takes the later argument).
BindAll(env, params, vals) ==
  [n \in DOMAIN env \cup {params[i][1] : i \in DOMAIN params} |->
     LET is == {i \in DOMAIN params : params[i][1] = n}
     IN  IF is = {} THEN env[n] ELSE vals[CHOOSE i \in is : \A j \in is : i >= j]]

RECURSIVE Eval(_, _), EvalArgs(_, _)
Eval(env, e) ==
  CASE e.tag = "Literal"  -> [kind |-> "lit", lit |-> e.lit]
    [] e.tag = "Variable" -> IF e.name \in DOMAIN env THEN env[e.name] ELSE Stuck
    [] e.tag = "Function" -> [kind |-> "closure", fn |-> e, env |-> env]
    [] e.tag = "Contract" ->
         [kind |-> "contract", name |-> e.name, fields |-> e.fields,
          methods |-> [i \in DOMAIN e.methods |->
                         <<e.methods[i][1], [kind |-> "closure", fn |-> e.methods[i][2], env |-> env]>>]]
    [] e.tag = "Call" ->
         LET f == Eval(env, e.fn)
             as == EvalArgs(env, e.args)
         IN  IF f.kind /= "closure" \/ Len(f.fn.params) /= Len(as) \/ \E i \in DOMAIN as : as[i] = Stuck
             THEN Stuck
             ELSE Eval(BindAll(f.env, f.fn.params, as), f.fn.body)

EvalArgs(env, args) == [i \in DOMAIN args |-> Eval(env, args[i])]

\* The type a value has.
RECURSIVE ValueType(_)
ValueType(v) ==
  CASE v.kind = "lit"     -> CheckLiteral(v.lit)
    [] v.kind = "closure" -> FnType(ParamTypes(v.fn.params), v.fn.ret, v.fn.effects)
    [] v.kind = "contract" ->
         [tag |-> "Contract", name |-> v.name, fields |-> v.fields,
          methods |-> [i \in DOMAIN v.methods |-> <<v.methods[i][1], ValueType(v.methods[i][2])>>]]
    [] OTHER -> [tag |-> "stuck"]

\* Some function of e binds a name already bound around it, or twice.
RECURSIVE Shadows(_, _)
Shadows(bound, e) ==
  CASE e.tag = "Function" ->
         LET ns == {e.params[i][1] : i \in DOMAIN e.params}
         IN  ns \cap bound /= {} \/ Cardinality(ns) < Len(e.params) \/ Shadows(bound \cup ns, e.body)
    [] e.tag = "Call"     -> Shadows(bound, e.fn) \/ \E i \in DOMAIN e.args : Shadows(bound, e.args[i])
    [] e.tag = "Contract" -> \E i \in DOMAIN e.methods : Shadows(bound, e.methods[i][2])
    [] OTHER              -> FALSE

\* check_expr accepts an expression only with the type its value has: an
\* accepted program never goes wrong and never yields a value of another
\* type.  A parameter that shadows an enclosing parameter breaks this,
\* because lookup_variable finds the enclosing binding first.
TypeSound ==
  result /= None /\ result.ok => ValueType(Eval(<<>>, checked)) = result.ty

\* Where no parameter hides another name, check_expr is sound: an accepted
\* expression evaluates, without going wrong, to a value of the type
\* check_expr gave it.  This is what check_call's callee, argument count
\* and argument type checks and check_function's return type check are
\* for; only the shadowing of TypeSound escapes them.
TypeSoundWithoutShadowing ==
  result /= None /\ result.ok /\ ~Shadows({}, checked) =>
    ValueType(Eval(<<>>, checked)) = result.ty

=============================================================================
