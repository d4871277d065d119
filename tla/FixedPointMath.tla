--------------------------- MODULE FixedPointMath ---------------------------
(***************************************************************************)
(* The two rounding primitives of libraries/FixedPointMathLib.sol, and the *)
(* basis points every rate of the protocol is written in.                  *)
(*                                                                         *)
(* The Solidity functions revert when the denominator is zero or the       *)
(* product does not fit 256 bits.  The callers' guards state the first     *)
(* case; the amounts of the models are far below the second.               *)
(***************************************************************************)
EXTENDS Integers

Bips == 10000

\* mulDivDown: x * y / d, rounded towards zero.
MulDivDown(x, y, d) == (x * y) \div d

\* mulDivUp: x * y / d, rounded up; the code divides (x * y - 1) and adds one.
MulDivUp(x, y, d) == IF x * y = 0 THEN 0 ELSE ((x * y - 1) \div d) + 1
=============================================================================
