------------------------- MODULE MCStrategyManagers -------------------------
(* StrategyManagers on small instances, for TLC.                           *)
EXTENDS StrategyManagers, TLC

(* Two roots that share a leaf.                                            *)
MCLeavesOf == 1 :> {"swap"} @@ 2 :> {"swap", "lend"}

MCLeaves == {"swap", "lend"}

(* Accounts differ by name only.                                           *)
AccountSymmetry == Permutations(Accounts)

-----------------------------------------------------------------------------
(* Bound: what decides over hooks and what decides over managers and the   *)
(* other settings are explored one at a time.  Proposals of a hooks root   *)
(* belong to both.                                                         *)

HooksUntouched ==
  /\ bannedLeaves = {} /\ TRUE \notin {vetoed["global"], vetoed["strategy"]}
  /\ \A key \in RootKeys : settings[key] = InitialSettings[key]
  /\ pending["globalHooksRoot"].effectiveTime = 0

ManagersUntouched ==
  /\ tenure = 1 /\ feeRecipient = mainManager
  /\ secondaryManagers = {} /\ takeover = NoTakeover
  /\ withdrawal = NoWithdrawal /\ ~takeoversFrozen
  /\ \A key \in Keys \ RootKeys :
       pending[key] = NoProposal /\ settings[key] = InitialSettings[key]

OneAtATime == (HooksUntouched \/ ManagersUntouched)'
=============================================================================
