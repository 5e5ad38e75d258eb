------------------------------- MODULE MCParser -------------------------------
(***************************************************************************)
(* The Parser on token vectors of the grammar its functions follow, with  *)
(* one token of some of them deleted or replaced, and a few vectors that  *)
(* reach its other paths: `mut fn`, a parameter, a statement, a token     *)
(* before the first contract.                                              *)
(***************************************************************************)
EXTENDS Parser, FiniteSets

\* Types: u256, Address, Map and Result (nested once), and a Custom type
\* written as the one identifier the AST's grammar has.
U == <<"U256">>
A == <<"Address">>
Gen(tag, a, b) == <<tag, "LAngle">> \o a \o <<"Comma">> \o b \o <<"RAngle">>
MCTypes == {U, A, Gen("Map", U, A), Gen("Result", A, U), Gen("Map", U, Gen("Result", U, A))}
CustomType == <<"Identifier">>

SV(t) == <<"State", "Identifier", "Colon">> \o t \o <<"Semicolon">>
EV == <<"Event", "Identifier", "LParen", "RParen", "Semicolon">>
FN(pure, ret) ==
  (IF pure THEN <<"Pure">> ELSE <<>>) \o <<"Fn", "Identifier", "LParen", "RParen">>
  \o (IF ret = <<>> THEN <<>> ELSE <<"Arrow">> \o ret) \o <<"LBrace", "RBrace">>
Ct(ms) == <<"Contract", "Identifier", "LBrace">> \o ms \o <<"RBrace">>

\* One contract: state variables, then events, then functions, as the
\* contract stores them.
MCContracts ==
  {Ct(s \o e \o f) : s \in {<<>>} \cup {SV(t) : t \in MCTypes},
                     e \in {<<>>, EV},
                     f \in {<<>>} \cup {FN(p, r) : p \in BOOLEAN, r \in {<<>>, U, Gen("Map", U, A)}}}

Bases ==
  {Ct(<<>>) \o Ct(SV(U)), Ct(SV(Gen("Map", U, A)) \o FN(TRUE, U)), Ct(EV \o FN(FALSE, <<>>))}

Edits == {"Identifier", "RBrace", "Semicolon", "Comma"}

\* Each base with one token deleted or replaced.
Edited ==
  UNION {{RemoveAt(b, i) : i \in 1..Len(b)} \cup {ReplaceAt(b, i, t) : i \in 1..Len(b), t \in Edits} : b \in Bases}

CustomInput == Ct(SV(CustomType))
MutInput == Ct(<<"Mut", "Fn", "Identifier", "LParen", "RParen", "LBrace", "RBrace">>)

\* Paths the grammar above does not take.
Others ==
  { CustomInput, MutInput,
    Ct(<<"Fn", "Identifier", "LParen", "Identifier", "RParen", "LBrace", "RBrace">>), \* a parameter
    Ct(<<"Fn", "Identifier", "LParen", "RParen", "LBrace", "Return", "RBrace">>),     \* a statement
    <<"Fn">> \o Ct(<<>>),                                  \* a token before the contract
    Ct(<<>>) \o <<"Semicolon">> }                          \* a token after it

MCInputs == MCContracts \cup Bases \cup Edited \cup Others

\* parse accepts every token vector of the grammar of the AST, custom
\* types and `mut fn` included.
Grammar == MCContracts \cup Bases \cup {CustomInput, MutInput}
AcceptsGrammar == (result \notin {"Idle", "Running"} /\ input \in Grammar) => result = "Ok"
=============================================================================
