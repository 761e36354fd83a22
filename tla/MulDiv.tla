------------------------------- MODULE MulDiv -------------------------------
(***************************************************************************)
(* OpenZeppelin's Math.mulDiv(a, b, d, rounding): the product is taken in  *)
(* full width, so that it never wraps, and divided by d, rounded down or   *)
(* up.                                                                     *)
(***************************************************************************)
EXTENDS Naturals

MulDivFloor(a, b, d) == (a * b) \div d
MulDivCeil(a, b, d)  == (a * b + d - 1) \div d
=============================================================================
