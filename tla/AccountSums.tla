---------------------------- MODULE AccountSums ----------------------------
(***************************************************************************)
(* Sums of natural numbers held by the members of a finite set: token      *)
(* balances, pending shares, claimable assets, bonded stakes.  The sum is  *)
(* the number of units held, each unit being a pair <<holder, index>>, so  *)
(* that facts about sums are facts about cardinalities (Arithmetic_proofs  *)
(* derives the ones the component proofs cite).                            *)
(***************************************************************************)
EXTENDS Naturals, FiniteSets

(* The units that the members of S hold under f, one pair per unit.        *)
UnitsOf(f, a) == {a} \X (1 .. f[a])
Units(f, S) == UNION {UnitsOf(f, a) : a \in S}

(* The total of f over S.                                                  *)
SumOver(f, S) == Cardinality(Units(f, S))
=============================================================================
