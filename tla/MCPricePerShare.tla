-------------------------- MODULE MCPricePerShare --------------------------
(* PricePerShare on small instances, for TLC.                              *)
EXTENDS PricePerShare, TLC

(* Strategies differ by name only.                                         *)
StrategySymmetry == Permutations(Strategies)
=============================================================================
