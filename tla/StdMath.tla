-------------------------------- MODULE StdMath --------------------------------
(***************************************************************************)
(* sqrt of src/stdlib/core/math.rs: Newton's iteration on an unsigned     *)
(* integer, y = (x + 1) / 2 then y = (x + value / x) / 2 while y < x.     *)
(*                                                                         *)
(* u256 is Width bits wide.  An addition past 2^Width - 1 panics in a    *)
(* debug build and wraps in a release build; a division by zero panics in *)
(* both.  The host calls sqrt with a value and a build; the result is    *)
(* the returned root or Panic, a value no u256 has.                       *)
(***************************************************************************)
EXTENDS Integers

CONSTANTS
  Width,   \* bits of u256
  Builds   \* {"debug", "release"}

VARIABLES
  value,   \* the argument of the last call
  root     \* what it returned, or Panic

vars == <<value, root>>

MaxU == 2^Width - 1
Panic == -1

\* a + b in the build: the sum, wrapped in release, Panic past MaxU in debug.
AddU(a, b, build) ==
  IF a + b <= MaxU THEN a + b
  ELSE IF build = "debug" THEN Panic ELSE (a + b) % 2^Width

\* Mutation: the loop body runs once (`if` for `while`).
NewtonOnce(v, x, y, build) ==
  IF ~(y < x) THEN x
  ELSE IF y = 0 THEN Panic
  ELSE LET s == AddU(y, v \div y, build)
       IN  IF s = Panic THEN Panic ELSE y

\* The while loop from x and y: x = y; y = (x + value / x) / 2.
RECURSIVE Newton(_, _, _, _)
Newton(v, x, y, build) ==
  IF ~(y < x) THEN x
  ELSE IF y = 0 THEN Panic
  ELSE LET s == AddU(y, v \div y, build)
       IN  IF s = Panic THEN Panic ELSE Newton(v, y, s \div 2, build)

\* sqrt(value)
Sqrt(v, build) ==
  IF v = 0 THEN 0
  ELSE LET s == AddU(v, 1, build)
       IN  IF s = Panic THEN Panic ELSE Newton(v, v, s \div 2, build)

Init == value = 0 /\ root = 0

Call(v, build) == value' = v /\ root' = Sqrt(v, build)

Next == \E v \in 0..MaxU, b \in Builds : Call(v, b)

Spec == Init /\ [][Next]_vars

-----------------------------------------------------------------------------
\* The integer square root: the largest r with r * r <= v.
FloorRoot(v) == CHOOSE r \in 0..v : r * r <= v /\ (r + 1) * (r + 1) > v

\* Whenever sqrt returns, it returns the integer square root of its
\* argument: Newton's loop stops neither early nor one step late, and its
\* additions never wrap into a wrong root.  (Whether it returns at all is
\* a separate question: at u256::MAX it panics.)
SqrtIsFloorRoot == root /= Panic => root = FloorRoot(value)

\* sqrt returns for every argument.
SqrtTotal == root /= Panic
=============================================================================
