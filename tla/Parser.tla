-------------------------------- MODULE Parser --------------------------------
(***************************************************************************)
(* The Parser of src/compiler/parser.rs: a recursive descent over the     *)
(* token vector the lexer returns.  parse loops while a token is left,    *)
(* calling parse_contract, which returns Ok(None), consuming nothing, when *)
(* the next token is not `contract`.  Since that loop need not end, one   *)
(* iteration of it is one step here.                                       *)
(*                                                                         *)
(* A token is the name of its Token variant; an identifier's text is not  *)
(* kept (parse_identifier returns "identifier" for all of them).  The      *)
(* parser refers to parse_parameter and to the statement parsers, which   *)
(* the repository does not define: reaching one is the outcome Undefined.  *)
(* A parse result is a record: err ("Ok" or the ParseError), whether a    *)
(* value was returned (some), the value and the tokens left.              *)
(***************************************************************************)
EXTENDS Integers, Sequences, SequencesExt

CONSTANTS
  Inputs   \* the token vectors the host parses

VARIABLES
  tokens,     \* self.tokens: what is left of the input
  contracts,  \* program.contracts, as parse builds it
  result,     \* "Idle", "Running" while parse loops, then "Ok" or the error
  input       \* ghost: the vector given to Parser::new

vars == <<tokens, contracts, result, input>>

OkR(v, rest) == [err |-> "Ok", some |-> TRUE, val |-> v, rest |-> rest]
ErrR(e) == [err |-> e, some |-> FALSE, val |-> "none", rest |-> <<>>]
Undefined == ErrR("Undefined")

\* The parser's state between two calls: the tokens left in r.rest and the
\* value of the last call in r.val.  Each method below takes that state
\* and, as `?` does, passes an error on untouched.
Failed(r) == r.err /= "Ok"
SetVal(r, v) == IF Failed(r) THEN r ELSE [r EXCEPT !.val = v]

\* self.tokens.peek()
Peek(ts) == IF ts = <<>> THEN "None" ELSE Head(ts)

\* consume(expected): the next token is taken whether or not it matches.
Consume(r, t) ==
  CASE Failed(r) -> r
    [] r.rest = <<>> -> ErrR("UnexpectedEOF")
    [] Head(r.rest) = t -> [r EXCEPT !.rest = Tail(@)]
    [] OTHER -> ErrR("UnexpectedToken")

\* parse_identifier
ParseIdentifier(r) ==
  CASE Failed(r) -> r
    [] Peek(r.rest) = "Identifier" -> [r EXCEPT !.rest = Tail(@)]
    [] OTHER -> ErrR("UnexpectedToken")

\* parse_type: a type takes tokens.next(); Map and Result take two
\* parameter types (TypePair); an Identifier is followed by
\* parse_identifier.
RECURSIVE ParseType(_), TypePair(_, _)
ParseType(r) ==
  LET t == Peek(r.rest)
      next == [r EXCEPT !.rest = Tail(@)]
  IN  CASE Failed(r) -> r
        [] t \in {"Address", "U256"} -> SetVal(next, [tag |-> t])
        [] t \in {"Map", "Result"} -> TypePair(t, ParseType(Consume(next, "LAngle")))
        [] t = "Identifier" -> SetVal(ParseIdentifier(next), [tag |-> "Custom"])
        [] OTHER -> ErrR("UnexpectedToken")

\* ... , second type >, after the first type a.
TypePair(t, a) ==
  LET b == Consume(ParseType(Consume(a, "Comma")), "RAngle")
  IN  SetVal(b, [tag |-> t, a |-> a.val, b |-> b.val])

\* parse_state_var: state name : type ;
ParseStateVar(r) ==
  Consume(ParseType(Consume(ParseIdentifier(Consume(r, "State")), "Colon")), "Semicolon")

\* parse_event: event name ( ) ;  A parameter goes to parse_parameter.
ParseEvent(r) ==
  LET lp == Consume(ParseIdentifier(Consume(r, "Event")), "LParen")
  IN  CASE Failed(lp) -> lp
        [] Peek(lp.rest) /= "RParen" -> Undefined
        [] OTHER -> SetVal(Consume(Consume(lp, "RParen"), "Semicolon"), "event")

\* parse_block: { }  A statement goes to the statement parsers.
ParseBlock(r) ==
  LET lb == Consume(r, "LBrace")
  IN  CASE Failed(lb) -> lb
        [] Peek(lb.rest) /= "RBrace" -> Undefined
        [] OTHER -> SetVal(Consume(lb, "RBrace"), "block")

\* After the parameters' `)`: [-> type] block, then the Function.
FunctionRest(isPure, rp) ==
  LET rt == IF ~Failed(rp) /\ Peek(rp.rest) = "Arrow"
            THEN ParseType(Consume(rp, "Arrow")) ELSE SetVal(rp, [tag |-> "None"])
  IN  SetVal(ParseBlock(rt), [pure |-> isPure, ret |-> rt.val])

\* The parameter list, which parse_parameter would read.
FunctionParams(isPure, lp) ==
  CASE Failed(lp) -> lp
    [] Peek(lp.rest) /= "RParen" -> Undefined
    [] OTHER -> FunctionRest(isPure, Consume(lp, "RParen"))

\* Mutation: is_pure is left out of the Function, which defaults to false.
ParseFunctionPureLost(r) ==
  LET isPure == Peek(r.rest) = "Pure"
      f == Consume(IF isPure THEN Consume(r, "Pure") ELSE r, "Fn")
  IN  FunctionParams(FALSE, Consume(ParseIdentifier(f), "LParen"))

\* parse_function: [pure] fn name ( ) [-> type] block.
ParseFunction(r) ==
  LET isPure == Peek(r.rest) = "Pure"
      f == Consume(IF isPure THEN Consume(r, "Pure") ELSE r, "Fn")
  IN  FunctionParams(isPure, Consume(ParseIdentifier(f), "LParen"))

\* The member loop of parse_contract, up to the closing brace: state
\* variables, events and functions are pushed to their own vectors
\* (MemberPushed).
RECURSIVE ParseMembers(_, _), MemberPushed(_, _, _)
ParseMembers(r, c) ==
  LET t == Peek(r.rest) IN
  CASE Failed(r) -> r
    [] t = "RBrace" -> SetVal(r, c)
    [] t = "State" -> MemberPushed(ParseStateVar(r), c, "stateVars")
    [] t = "Event" -> MemberPushed(ParseEvent(r), c, "events")
    [] t \in {"Pure", "Mut", "Fn"} -> MemberPushed(ParseFunction(r), c, "functions")
    [] OTHER -> ErrR("UnexpectedToken")

MemberPushed(m, c, kind) ==
  IF Failed(m) THEN m ELSE ParseMembers(m, [c EXCEPT ![kind] = Append(@, m.val)])

NewContract == [stateVars |-> <<>>, events |-> <<>>, functions |-> <<>>]

\* parse_contract: Ok(None), nothing consumed, unless the next token is
\* `contract`; then contract name { members }.
ParseContract(ts) ==
  IF Peek(ts) /= "Contract" THEN [err |-> "Ok", some |-> FALSE, val |-> "none", rest |-> ts]
  ELSE Consume(ParseMembers(Consume(ParseIdentifier(Consume(OkR("none", ts), "Contract")), "LBrace"),
                            NewContract), "RBrace")

Init == tokens = <<>> /\ contracts = <<>> /\ result = "Idle" /\ input = <<>>

\* The free function parse: Parser::new(tokens), then Parser::parse.
Parse(in) ==
  /\ result /= "Running"
  /\ tokens' = in /\ contracts' = <<>> /\ result' = "Running" /\ input' = in

\* One iteration of parse's while loop, or its exit when no token is left.
Step ==
  /\ result = "Running"
  /\ IF tokens = <<>> THEN result' = "Ok" /\ UNCHANGED <<tokens, contracts, input>>
     ELSE \E r \in {ParseContract(tokens)} :
          /\ result' = IF r.err = "Ok" THEN "Running" ELSE r.err
          /\ tokens' = r.rest
          /\ contracts' = IF r.some THEN Append(contracts, r.val) ELSE contracts
          /\ UNCHANGED input

Next == (\E in \in Inputs : Parse(in)) \/ Step

Spec == Init /\ [][Next]_vars

-----------------------------------------------------------------------------
TypeOK ==
  /\ result \in {"Idle", "Running", "Ok", "UnexpectedToken", "UnexpectedEOF", "Undefined"}
  /\ Len(tokens) <= Len(input)

\* The tokens of a type, a function and a contract as the grammar of the
\* AST writes them: a Custom type is one identifier.
RECURSIVE PrintType(_)
PrintType(ty) ==
  CASE ty.tag \in {"Map", "Result"} ->
         <<ty.tag, "LAngle">> \o PrintType(ty.a) \o <<"Comma">> \o PrintType(ty.b) \o <<"RAngle">>
    [] ty.tag = "Custom" -> <<"Identifier">>
    [] OTHER -> <<ty.tag>>

PrintFunction(f) ==
  (IF f.pure THEN <<"Pure">> ELSE <<>>) \o <<"Fn", "Identifier", "LParen", "RParen">>
  \o (IF f.ret.tag = "None" THEN <<>> ELSE <<"Arrow">> \o PrintType(f.ret)) \o <<"LBrace", "RBrace">>

PrintContract(c) ==
  <<"Contract", "Identifier", "LBrace">>
  \o FlattenSeq([i \in 1..Len(c.stateVars) |->
                   <<"State", "Identifier", "Colon">> \o PrintType(c.stateVars[i]) \o <<"Semicolon">>])
  \o FlattenSeq([i \in 1..Len(c.events) |-> <<"Event", "Identifier", "LParen", "RParen", "Semicolon">>])
  \o FlattenSeq([i \in 1..Len(c.functions) |-> PrintFunction(c.functions[i])])
  \o <<"RBrace">>

\* A parse that returns Ok has read the whole input as the program it
\* returns: printing that program gives back the input, for inputs whose
\* members come in the order the contract stores them.  A token skipped,
\* a type read into the wrong slot, a lost pure flag or return type, or a
\* member pushed twice or not at all, breaks it.
ParseRoundTrips ==
  result = "Ok" => FlattenSeq([i \in 1..Len(contracts) |-> PrintContract(contracts[i])]) = input

\* Every call of parse returns: each iteration of its while loop either
\* ends it with an error or consumes at least one token, so the loop runs
\* at most once per token of the input.
ParseLoopProgresses ==
  (result = "Running" /\ tokens /= <<>>) =>
    LET r == ParseContract(tokens) IN r.err /= "Ok" \/ Len(r.rest) < Len(tokens)
====

