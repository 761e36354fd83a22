--------------------------- MODULE MCCrossChainAUM ---------------------------
(* CrossChainAUM on small instances, for TLC.                              *)
EXTENDS CrossChainAUM, TLC

(* A lenient configuration and a strict one.                               *)
Configuration(deviation, breaches) ==
  [maxStaleness |-> 2, minUpdateInterval |-> 1, deviationThreshold |-> deviation,
   perPositionDeviationThreshold |-> 7, consistencyToleranceBps |-> 500,
   maxConsecutiveDeviationBreaches |-> breaches]

MCConfigs == {Configuration(5, 2), Configuration(1, 1)}

(* Half of what is owned may be out, and 20 on a chain.                    *)
MCCapConfigs == {[maxCrossChainBps |-> 5000, perChainCap |-> [c \in Chains |-> 20]]}

(* Ids and chains differ by name only.                                     *)
IdSymmetry ==
  Permutations(ReservationIds) \cup Permutations(PositionIds) \cup Permutations(Chains)
=============================================================================
