------------------------- MODULE MCValidatorBonding -------------------------
(* ValidatorBonding on small instances, for TLC.                           *)
EXTENDS ValidatorBonding

(* Keeps the instance small: an approval waits only while there is no bond,  *)
(* and the time lock of the parameters is changed only in histories        *)
(* without a bond.                                                         *)
TimelockOrBonds ==
  /\ \A op \in Operators : approvals'[op] = NoApproval \/ bonds'[op].amount = 0
  /\ \/ \A op \in Operators : bonds'[op].status = "Unbonded" /\ approvals'[op] = approvals[op]
     \/ /\ parameterTimelock' = DEFAULT_PARAMETER_TIMELOCK
        /\ pending'["parameterTimelock"].value = 0
=============================================================================
