----------------------------- MODULE GasBudget -----------------------------
(***************************************************************************)
(* What a gas meter promises (spec 4.1): consume(amount) succeeds exactly  *)
(* when amount fits in what is left of the limit, and then adds amount to  *)
(* the gas spent; otherwise it fails with OutOfGas and spends nothing.     *)
(***************************************************************************)
EXTENDS Naturals

CONSTANTS
  Limit,    \* the budget
  Amounts   \* amounts a caller may ask to consume

VARIABLES
  spent,    \* gas consumed so far
  outcome   \* what the last consume returned

Init == spent = 0 /\ outcome = "Ok"

Consume(n) ==
  IF spent + n <= Limit
  THEN spent' = spent + n /\ outcome' = "Ok"
  ELSE outcome' = "OutOfGas" /\ UNCHANGED spent

Next == \E n \in Amounts : Consume(n)

Spec == Init /\ [][Next]_<<spent, outcome>>
=============================================================================
