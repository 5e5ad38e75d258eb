---------------------------- MODULE MCTypeChecker ----------------------------
(***************************************************************************)
(* The TypeChecker on a handful of programs: one that uses every          *)
(* statement and expression form and type checks, one whose function      *)
(* fails after declaring a parameter, one that reads a state variable it  *)
(* does not declare, one that calls an undefined function as a           *)
(* statement, two contracts with a function of the same name, and one     *)
(* program for each error return.  The host may reuse the checker.        *)
(***************************************************************************)
EXTENDS TypeChecker

CONSTANTS NoneVal

\* Types
U == T("U256")
B == T("Bool")
Str == T("String")
MapUB == [tag |-> "Map", a |-> U, b |-> B]
ArrU == [tag |-> "Array", a |-> U]
Cust(n) == [tag |-> "Custom", name |-> n]
ResUB == [tag |-> "Result", a |-> U, b |-> Cust("bool")]

\* Expressions
Id(n) == [tag |-> "Id", name |-> n]
Lit(t) == [tag |-> "Lit", ty |-> t]
Bin(op, l, r) == [tag |-> "Binary", op |-> op, l |-> l, r |-> r]
Un(op, e) == [tag |-> "Unary", op |-> op, e |-> e]
CallE(f, args) == [tag |-> "Call", fn |-> f, args |-> args]
Mem(e) == [tag |-> "Member", e |-> e]
Idx(e, i) == [tag |-> "Index", e |-> e, i |-> i]

\* Statements
Let(n, d, v) == [tag |-> "Let", name |-> n, decl |-> d, value |-> v]
Assign(t, v) == [tag |-> "Assign", target |-> t, value |-> v]
If(c, th, el) == [tag |-> "If", cond |-> c, then |-> th, else |-> el]
While(c, b) == [tag |-> "While", cond |-> c, body |-> b]
Ret(e) == [tag |-> "Return", e |-> e]
Emit(ev, args) == [tag |-> "Emit", event |-> ev, args |-> args]
Ensure(c) == [tag |-> "Ensure", cond |-> c]
CallS(f, args) == [tag |-> "CallStmt", fn |-> f, args |-> args]

P(n, t) == [name |-> n, ty |-> t]
Fn(n, ps, r, body, pure) == [name |-> n, params |-> ps, ret |-> r, body |-> body, pure |-> pure]
Contract(svs, evs, fns) == [stateVars |-> svs, events |-> evs, functions |-> fns]

\* Uses every form and checks.
Good ==
  << Contract(<<P("bal", MapUB), P("n", U), P("xs", ArrU)>>, <<[name |-> "Tr", params |-> <<P("v", U)>>]>>,
       << Fn("get", <<P("k", U)>>, B,
             << Let("x", B, Idx(Id("bal"), Id("k"))),
                If(Bin("Eq", Id("x"), Lit(B)), <<Emit("Tr", <<Id("k")>>)>>,
                   <<Assign(Id("n"), Bin("Arith", Id("n"), Idx(Id("xs"), Lit(U))))>>),
                While(Bin("Cmp", Id("n"), Lit(U)), <<Ensure(Un("Not", Bin("Logic", Id("x"), Lit(B))))>>),
                Let("y", None, Mem(Id("bal"))),
                Ret(CallE(Id("get"), <<Id("k")>>)) >>, FALSE),
          Fn("neg", <<>>, ResUB, <<Ret(None), If(Lit(B), <<Let("z", U, Un("Neg", Lit(U)))>>, None)>>, TRUE) >>) >>

\* One contract with state n, event Tr(v), and function t(k) -> U.
Single(body, pure) ==
  << Contract(<<P("n", U)>>, <<[name |-> "Tr", params |-> <<P("v", U)>>]>>,
              <<Fn("t", <<P("k", U)>>, U, body, pure)>>) >>

\* The body of t for each error return, in check_statement's order.
BadBodies ==
  { <<Let("w", None, Id("nowhere"))>>,                      \* UndefinedVariable
    <<Let("w", B, Lit(U))>>,                                \* Let mismatch
    <<Assign(Id("n"), Lit(B))>>,                            \* Assignment mismatch
    <<If(Lit(U), <<>>, None)>>,                             \* If condition
    <<While(Lit(Str), <<>>)>>,                              \* While condition
    <<Ret(Lit(B))>>,                                        \* Return mismatch
    <<Emit("Nope", <<>>)>>,                                 \* undefined event
    <<Emit("Tr", <<>>)>>,                                   \* wrong number of arguments
    <<Emit("Tr", <<Lit(B)>>)>>,                             \* event argument type
    <<Ensure(Bin("Arith", Lit(U), Lit(B)))>>,               \* operand types
    <<Ensure(Bin("Eq", Lit(U), Lit(B)))>>,
    <<Ensure(Bin("Logic", Lit(U), Lit(U)))>>,
    <<Ensure(Un("Neg", Lit(B)))>>,
    <<Ensure(CallE(Lit(U), <<>>))>>,                        \* call of a non-identifier
    <<Ensure(CallE(Id("nowhere"), <<>>))>>,                 \* UndefinedFunction
    <<Ensure(CallE(Id("t"), <<>>))>>,                       \* arity
    <<Ensure(CallE(Id("t"), <<Lit(B)>>))>>,                 \* argument type
    <<Ensure(Mem(Id("n")))>>,                               \* member of a non-map
    <<Ensure(Idx(Id("n"), Lit(U)))>>,                       \* index of a non-map
    <<Ensure(Idx(Lit(ArrU), Lit(B)))>>,                     \* array index type
    <<Ensure(Idx(Lit(MapUB), Lit(B)))>> }                   \* map key type

MCPrograms ==
  {Good,
   Single(<<Emit("Tr", <<Id("k")>>)>>, TRUE),               \* emit in a pure function
   Single(<<Let("q", None, Id("k")), Ret(Id("missing"))>>, FALSE), \* fails with k and q in scope
   Single(<<Ret(Id("bal"))>>, FALSE),                       \* reads a state variable of Good
   Single(<<CallS(Id("nowhere"), <<>>)>>, FALSE),           \* a call statement
   << Contract(<<P("bad", Cust("u128"))>>, <<>>, <<>>) >>,   \* UndefinedType
   << Contract(<<>>, <<>>, <<Fn("f", <<>>, U, <<Ret(Lit(B))>>, FALSE)>>),
      Contract(<<>>, <<>>, <<Fn("f", <<>>, B, <<>>, FALSE)>>) >>}  \* same name twice
  \cup {Single(b, FALSE) : b \in BadBodies}
=============================================================================
