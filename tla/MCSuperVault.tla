---------------------------- MODULE MCSuperVault ----------------------------
(* SuperVault on small instances, for TLC.                                 *)
EXTENDS SuperVault, TLC

(* Users differ by name only.                                              *)
UserSymmetry == Permutations(Users)

(* Keeps the instance small: operators act only in histories with few      *)
(* shares, single requests and a price that may be read, and the price may *)
(* not be read only while it is the first one.                             *)
OperatorsOrVolume ==
  /\ gate' = "open" \/ pps' = PRECISION
  /\ \/ \A u \in Users : isOperator'[u] = {}
     \/ /\ SumOver(balance', Accounts) <= 2
        /\ \A u \in Users : anchor'[u].requests <= 1
        /\ gate' = "open"
=============================================================================
