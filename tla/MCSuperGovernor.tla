--------------------------- MODULE MCSuperGovernor ---------------------------
(* SuperGovernor on small instances, for TLC.                              *)
EXTENDS SuperGovernor, TLC

CONSTANTS h1

MCHooks == {h1}

MCChoices ==
  [key \in Keys |-> CASE key = "REVENUE_SHARE" -> {1, 3}
                      [] key = "minStaleness" -> {0, 2}
                      [] key \in Addresses -> {0, 1}
                      [] OTHER -> {0}]

MCInitial ==
  [key \in Keys |-> CASE key = "PERFORMANCE_FEE_SHARE" -> 1
                      [] key = "upkeepPaymentsEnabled" -> 1
                      [] key = "minStaleness" -> 1
                      [] OTHER -> 0]

FeedSymmetry == Permutations(Pairs) \cup Permutations(Providers) \cup Permutations(Feeds)
=============================================================================
