----------------------- MODULE StrategyManagers_proofs -----------------------
(***************************************************************************)
(* Type correctness of StrategyManagers, its invariants, and the time      *)
(* locks of its settings and of the main manager, for every set of         *)
(* accounts, roots and values, every time lock and any number of tenures.  *)
(***************************************************************************)
EXTENDS StrategyManagers, FiniteSetTheorems, TLAPS

(* What is not on display is not there at all: the steps that bring a      *)
(* proposal into force ask for its value only, so that without this a      *)
(* forgotten value with a cleared time could come into force at once.      *)
NothingHidden ==
  /\ \A key \in Keys : pending[key].effectiveTime = 0 => pending[key] = NoProposal
  /\ takeover.effectiveTime = 0 => takeover = NoTakeover

(* The inductive invariant.                                                *)
IInv ==
  /\ TypeOK
  /\ NothingHidden
  /\ ManagersDistinct
  /\ InheritsNothing

-----------------------------------------------------------------------------
(* Types.                                                                  *)

LEMMA ClearedTypes ==
  /\ NoProposal \in Proposals /\ NoProposal.effectiveTime = 0
  /\ NoTakeover \in Takeovers /\ NoTakeover.effectiveTime = 0
  /\ NoWithdrawal \in [effectiveTime : Nat, tenure : Nat]
  BY DEF NoProposal, NoTakeover, NoWithdrawal, Proposals, Takeovers

LEMMA InitialTypes == Init => TypeOK
<1> SUFFICES ASSUME Init PROVE TypeOK
  OBVIOUS
<1>1. settings \in [Keys -> Nat]
  BY DEF Init, InitialSettings
<1>2. /\ pending \in [Keys -> Proposals]
      /\ pending["feeConfig"].effectiveTime = 0
  BY ClearedTypes DEF Init, Keys
<1>3. hooksRootUpdateTimelock \in Nat
  BY ManagersAssumption DEF Init, ManagersAssumption
<1>4. vetoed \in [{"global", "strategy"} -> BOOLEAN]
  BY DEF Init
<1>5. takeover \in Takeovers /\ ~(takeover.effectiveTime > 0) /\ ~(pending["feeConfig"].effectiveTime > 0)
  BY <1>2, ClearedTypes DEF Init
<1>6. withdrawal \in [effectiveTime : Nat, tenure : Nat]
  BY ClearedTypes DEF Init
<1>7. takeoversFrozen \in BOOLEAN
  BY DEF Init
<1>8. /\ now \in Nat \ {0} /\ tenure \in Nat
      /\ mainManager \in Accounts /\ feeRecipient \in Accounts
      /\ secondaryManagers \subseteq Accounts /\ bannedLeaves \subseteq Leaves
  BY DEF Init
<1> QED BY <1>1, <1>2, <1>3, <1>4, <1>5, <1>6, <1>7, <1>8 DEF TypeOK

(* A proposal for any setting keeps the types, if it names a recipient     *)
(* where one is asked for.                                                 *)
LEMMA ProposeTypes ==
  ASSUME TypeOK, NEW key \in Keys, NEW value \in Nat, NEW recipient \in Accounts \cup {NoAccount},
         key = "feeConfig" => recipient \in Accounts,
         Propose(key, value, recipient)
  PROVE  TypeOK'
<1>1. DueAt(key) \in Nat /\ tenure \in Nat
  BY ManagersAssumption DEF TypeOK, DueAt, Delay, ManagersAssumption
<1> DEFINE proposal == [value |-> value, recipient |-> recipient,
                        effectiveTime |-> DueAt(key), tenure |-> tenure]
<1>2. proposal \in Proposals
  BY <1>1 DEF Proposals
<1>3. pending' = [pending EXCEPT ![key] = proposal]
  BY DEF Propose
<1>4. proposal.recipient = recipient
  OBVIOUS
<1> HIDE DEF proposal
<1>5. pending' \in [Keys -> Proposals]
  BY <1>2, <1>3 DEF TypeOK
<1>6. (pending["feeConfig"].effectiveTime > 0 => pending["feeConfig"].recipient \in Accounts)'
  <2>1. CASE key = "feeConfig"
    BY <1>3, <1>4, <2>1 DEF TypeOK
  <2>2. CASE key # "feeConfig"
    BY <1>3, <2>2 DEF TypeOK, Keys
  <2> QED BY <2>1, <2>2
<1> QED BY <1>5, <1>6 DEF Propose, TypeOK, managerVars, hookVars

LEMMA WithdrawTypes ==
  ASSUME TypeOK, NEW key \in Keys, Withdraw(key)
  PROVE  TypeOK'
<1>1. pending' \in [Keys -> Proposals]
  BY ClearedTypes DEF Withdraw, TypeOK
<1>2. (pending["feeConfig"].effectiveTime > 0 => pending["feeConfig"].recipient \in Accounts)'
  BY ClearedTypes DEF Withdraw, TypeOK, Keys
<1> QED BY <1>1, <1>2 DEF Withdraw, TypeOK, managerVars, hookVars

LEMMA EnactTypes ==
  ASSUME TypeOK, NEW key \in Keys, NEW recipient \in Accounts, Enact(key, recipient)
  PROVE  TypeOK'
<1>1. pending' \in [Keys -> Proposals]
  BY ClearedTypes DEF Enact, TypeOK
<1>2. (pending["feeConfig"].effectiveTime > 0 => pending["feeConfig"].recipient \in Accounts)'
  BY ClearedTypes DEF Enact, TypeOK, Keys
<1>3. settings' \in [Keys -> Nat]
  BY DEF Enact, TypeOK, Proposals
<1> QED BY <1>1, <1>2, <1>3 DEF Enact, TypeOK, managerVars, hookVars

LEMMA InstallTypes ==
  ASSUME TypeOK, NEW manager \in Accounts, NEW recipient \in Accounts, Install(manager, recipient)
  PROVE  TypeOK'
<1>1. pending' \in [Keys -> Proposals]
  BY ClearedTypes DEF Install, TypeOK
<1>2. (pending["feeConfig"].effectiveTime > 0 => pending["feeConfig"].recipient \in Accounts)'
  BY ClearedTypes DEF Install, TypeOK, Keys
<1> QED BY <1>1, <1>2, ClearedTypes DEF Install, TypeOK, SecondariesAfter, hookVars

-----------------------------------------------------------------------------
(* The steps of Next, by what they do to the proposals.  Every proof about *)
(* a step below is by these cases.                                         *)

Proposing ==
  \E key \in Keys, value \in Nat, recipient \in Accounts \cup {NoAccount} :
    /\ key = "feeConfig" => recipient \in Accounts
    /\ Propose(key, value, recipient)

Withdrawing == \E key \in Keys : pending[key].effectiveTime > 0 /\ Withdraw(key)

(* Whatever comes into force is there; that it is then on display follows  *)
(* from NothingHidden.                                                     *)
Enacting ==
  \E key \in Keys, recipient \in Accounts :
    /\ pending[key] # NoProposal
    /\ Enact(key, recipient)

Installing ==
  \E manager, recipient \in Accounts :
    /\ Install(manager, recipient)
    /\ \/ ~takeoversFrozen
       \/ takeover # NoTakeover /\ now >= takeover.effectiveTime /\ manager = takeover.manager

(* Steps that leave settings and their proposals alone.                    *)
ElseStep ==
  \/ \E manager \in Accounts : AddSecondaryManager(manager) \/ RemoveSecondaryManager(manager)
  \/ CancelChangePrimaryManager
  \/ ProposeWithdrawUpkeep
  \/ ExecuteWithdrawUpkeep
  \/ \E leaf \in Leaves, banned \in BOOLEAN : ChangeGlobalLeavesStatus(leaf, banned)
  \/ \E manager, recipient \in Accounts : ProposeChangePrimaryManager(manager, recipient)
  \/ FreezeManagerTakeover
  \/ \E root \in {"global", "strategy"}, veto \in BOOLEAN : SetVetoStatus(root, veto)
  \/ \E timelock \in HooksTimelocks : ChangeHooksRootUpdateTimelock(timelock)
  \/ Tick

LEMMA StepKinds ==
  ASSUME TypeOK, NothingHidden, Next
  PROVE  Proposing \/ Withdrawing \/ Enacting \/ Installing \/ ElseStep
<1>1. ASSUME NEW root \in Roots \cup {0},
             ProposeStrategyHooksRoot(root) \/ ProposeGlobalHooksRoot(root)
      PROVE  Proposing
  BY <1>1, ManagersAssumption
  DEF Proposing, ProposeStrategyHooksRoot, ProposeGlobalHooksRoot, Keys, RootKeys,
      ManagersAssumption
<1>2. ASSUME NEW interval \in Intervals, ProposeMinUpdateIntervalChange(interval)
      PROVE  Proposing
  BY <1>2, ManagersAssumption
  DEF Proposing, ProposeMinUpdateIntervalChange, Keys, ManagersAssumption
<1>3. ASSUME NEW fee \in Fees, NEW recipient \in Accounts,
             ProposeVaultFeeConfigUpdate(fee, recipient)
      PROVE  Proposing
  BY <1>3, ManagersAssumption
  DEF Proposing, ProposeVaultFeeConfigUpdate, Keys, ManagersAssumption
<1>4. ASSUME NEW threshold \in Expirations, ProposePPSExpiration(threshold)
      PROVE  Proposing
  BY <1>4, ManagersAssumption DEF Proposing, ProposePPSExpiration, Keys, ManagersAssumption
<1>5. CancelMinUpdateIntervalChange \/ CancelPPSExpirationProposalUpdate => Withdrawing
  BY DEF Withdrawing, CancelMinUpdateIntervalChange, CancelPPSExpirationProposalUpdate, Keys
<1>6. ExecuteStrategyHooksRootUpdate \/ ExecuteGlobalHooksRootUpdate \/ UpdatePPSExpiration
        => Enacting
  BY DEF Enacting, ExecuteStrategyHooksRootUpdate, ExecuteGlobalHooksRootUpdate,
         UpdatePPSExpiration, Keys, RootKeys, NoProposal, TypeOK
<1>7. ExecuteMinUpdateIntervalChange => Enacting
  BY DEF Enacting, ExecuteMinUpdateIntervalChange, Keys, NoProposal, TypeOK
<1>8. ASSUME ExecuteVaultFeeConfigUpdate
      PROVE  Enacting
  <2>1. "feeConfig" \in Keys
    BY DEF Keys
  <2>2. pending["feeConfig"] # NoProposal
    BY <1>8 DEF ExecuteVaultFeeConfigUpdate, NoProposal
  <2>3. pending["feeConfig"].recipient \in Accounts
    BY <1>8, <2>1 DEF ExecuteVaultFeeConfigUpdate, TypeOK, Proposals
  <2> QED BY <1>8, <2>1, <2>2, <2>3 DEF Enacting, ExecuteVaultFeeConfigUpdate
<1>9. ASSUME ExecuteChangePrimaryManager
      PROVE  Installing
  <2>1. takeover # NoTakeover
    BY <1>9 DEF ExecuteChangePrimaryManager, NoTakeover
  <2>2. takeover.effectiveTime > 0
    BY <2>1 DEF NothingHidden, TypeOK, Takeovers
  <2>3. takeover.manager \in Accounts /\ takeover.recipient \in Accounts
    BY <2>2 DEF TypeOK, Takeovers
  <2> QED BY <1>9, <2>1, <2>3 DEF ExecuteChangePrimaryManager, Installing
<1>10. ASSUME NEW manager \in Accounts, NEW recipient \in Accounts,
              ChangePrimaryManager(manager, recipient)
       PROVE  Installing
  BY <1>10 DEF Installing, ChangePrimaryManager
<1> QED
  BY <1>1, <1>2, <1>3, <1>4, <1>5, <1>6, <1>7, <1>8, <1>9, <1>10
  DEF Next, MainManagerStep, GovernanceStep, AnybodyStep, ElseStep

-----------------------------------------------------------------------------
(* Each part of the invariant is kept by every kind of step.               *)

LEMMA TypeStep ==
  ASSUME IInv, [Next]_vars
  PROVE  TypeOK'
<1> USE DEF IInv
<1>1. CASE UNCHANGED vars
  BY <1>1 DEF TypeOK, vars
<1>2. CASE Proposing
  BY <1>2, ProposeTypes DEF Proposing
<1>3. CASE Withdrawing
  BY <1>3, WithdrawTypes DEF Withdrawing
<1>4. CASE Enacting
  BY <1>4, EnactTypes DEF Enacting
<1>5. CASE Installing
  BY <1>5, InstallTypes DEF Installing
<1>6. CASE ElseStep
  <2>1. ASSUME NEW manager \in Accounts, AddSecondaryManager(manager)
        PROVE  TypeOK'
    BY <2>1 DEF AddSecondaryManager, TypeOK, settingVars, hookVars
  <2>2. ASSUME NEW manager \in Accounts, RemoveSecondaryManager(manager)
        PROVE  TypeOK'
    BY <2>2 DEF RemoveSecondaryManager, TypeOK, settingVars, hookVars
  <2>3. ASSUME CancelChangePrimaryManager
        PROVE  TypeOK'
    BY <2>3, ClearedTypes DEF CancelChangePrimaryManager, TypeOK, settingVars, hookVars
  <2>4. ASSUME ProposeWithdrawUpkeep
        PROVE  TypeOK'
    BY <2>4, ManagersAssumption
    DEF ProposeWithdrawUpkeep, TypeOK, managerVars, settingVars, hookVars, ManagersAssumption
  <2>5. ASSUME ExecuteWithdrawUpkeep
        PROVE  TypeOK'
    BY <2>5, ClearedTypes DEF ExecuteWithdrawUpkeep, TypeOK, managerVars, settingVars, hookVars
  <2>6. ASSUME NEW leaf \in Leaves, NEW banned \in BOOLEAN, ChangeGlobalLeavesStatus(leaf, banned)
        PROVE  TypeOK'
    BY <2>6 DEF ChangeGlobalLeavesStatus, TypeOK, managerVars, settingVars
  <2>7. ASSUME NEW manager \in Accounts, NEW recipient \in Accounts,
               ProposeChangePrimaryManager(manager, recipient)
        PROVE  TypeOK'
    <3>1. takeover' \in Takeovers
      BY <2>7, ManagersAssumption
      DEF ProposeChangePrimaryManager, TypeOK, Takeovers, ManagersAssumption
    <3>2. NoAccount \notin {takeover'.manager, takeover'.recipient}
      BY <2>7, ManagersAssumption DEF ProposeChangePrimaryManager, ManagersAssumption
    <3> QED BY <2>7, <3>1, <3>2 DEF ProposeChangePrimaryManager, TypeOK, settingVars, hookVars
  <2>8. ASSUME FreezeManagerTakeover
        PROVE  TypeOK'
    BY <2>8 DEF FreezeManagerTakeover, TypeOK, managerVars, settingVars, hookVars
  <2>9. ASSUME NEW root \in {"global", "strategy"}, NEW veto \in BOOLEAN, SetVetoStatus(root, veto)
        PROVE  TypeOK'
    BY <2>9 DEF SetVetoStatus, TypeOK, managerVars, settingVars
  <2>10. ASSUME NEW timelock \in HooksTimelocks, ChangeHooksRootUpdateTimelock(timelock)
         PROVE  TypeOK'
    BY <2>10, ManagersAssumption
    DEF ChangeHooksRootUpdateTimelock, TypeOK, managerVars, settingVars, ManagersAssumption
  <2>11. ASSUME Tick
         PROVE  TypeOK'
    BY <2>11 DEF Tick, TypeOK, managerVars, settingVars, hookVars
  <2> QED
    BY <1>6, <2>1, <2>2, <2>3, <2>4, <2>5, <2>6, <2>7, <2>8, <2>9, <2>10, <2>11 DEF ElseStep
<1> QED BY <1>1, <1>2, <1>3, <1>4, <1>5, <1>6, StepKinds

(* What the remaining steps may do to takeover, managers and withdrawal.   *)
LEMMA ElseEffect ==
  ASSUME IInv, ElseStep
  PROVE  /\ UNCHANGED <<mainManager, settings, pending, feeRecipient, tenure>>
         /\ \/ takeover' = takeover
            \/ takeover' = NoTakeover
            \/ \E manager, recipient \in Accounts :
                 /\ manager # mainManager
                 /\ takeover' = [manager |-> manager, recipient |-> recipient,
                                 effectiveTime |-> now + MANAGER_CHANGE_TIMELOCK,
                                 tenure |-> tenure]
         /\ \/ withdrawal' = withdrawal
            \/ withdrawal' = NoWithdrawal
            \/ withdrawal'.tenure = tenure
<1> USE DEF managerVars, settingVars, hookVars
<1>1. ASSUME NEW manager \in Accounts,
             AddSecondaryManager(manager) \/ RemoveSecondaryManager(manager)
      PROVE  UNCHANGED <<mainManager, settings, pending, feeRecipient, tenure, takeover, withdrawal>>
  BY <1>1 DEF AddSecondaryManager, RemoveSecondaryManager
<1>2. ASSUME CancelChangePrimaryManager
      PROVE  /\ takeover' = NoTakeover
             /\ UNCHANGED <<mainManager, settings, pending, feeRecipient, tenure, withdrawal>>
  BY <1>2 DEF CancelChangePrimaryManager
<1>3. ASSUME ProposeWithdrawUpkeep \/ ExecuteWithdrawUpkeep
      PROVE  /\ withdrawal' = NoWithdrawal \/ withdrawal'.tenure = tenure
             /\ UNCHANGED <<mainManager, settings, pending, feeRecipient, tenure, takeover>>
  BY <1>3 DEF ProposeWithdrawUpkeep, ExecuteWithdrawUpkeep
<1>4. ASSUME NEW leaf \in Leaves, NEW banned \in BOOLEAN, ChangeGlobalLeavesStatus(leaf, banned)
      PROVE  UNCHANGED <<mainManager, settings, pending, feeRecipient, tenure, takeover, withdrawal>>
  BY <1>4 DEF ChangeGlobalLeavesStatus
<1>5. ASSUME NEW manager \in Accounts, NEW recipient \in Accounts,
             ProposeChangePrimaryManager(manager, recipient)
      PROVE  /\ manager # mainManager
             /\ takeover' = [manager |-> manager, recipient |-> recipient,
                             effectiveTime |-> now + MANAGER_CHANGE_TIMELOCK, tenure |-> tenure]
             /\ UNCHANGED <<mainManager, settings, pending, feeRecipient, tenure, withdrawal>>
  BY <1>5 DEF ProposeChangePrimaryManager
<1>6. ASSUME \/ FreezeManagerTakeover
             \/ \E root \in {"global", "strategy"}, veto \in BOOLEAN : SetVetoStatus(root, veto)
             \/ \E timelock \in HooksTimelocks : ChangeHooksRootUpdateTimelock(timelock)
             \/ Tick
      PROVE  UNCHANGED <<mainManager, settings, pending, feeRecipient, tenure, takeover, withdrawal>>
  BY <1>6 DEF FreezeManagerTakeover, SetVetoStatus, ChangeHooksRootUpdateTimelock, Tick
<1> QED
  BY <1>1, <1>2, <1>3, <1>4, <1>5, <1>6 DEF ElseStep

(* The effects of a proposal for a setting, and of its end.                *)
LEMMA ProposeEffect ==
  ASSUME IInv, NEW key \in Keys, NEW value, NEW recipient, Propose(key, value, recipient)
  PROVE  /\ pending'[key].value = value /\ pending'[key].tenure = tenure
         /\ pending'[key].effectiveTime = now + Delay(key)
         /\ pending'[key].effectiveTime > 0
         /\ \A k \in Keys \ {key} : pending'[k] = pending[k]
         /\ UNCHANGED <<managerVars, settings, withdrawal, hookVars>>
<1>1. now + Delay(key) > 0
  BY ManagersAssumption DEF IInv, TypeOK, Delay, ManagersAssumption
<1> QED BY <1>1 DEF IInv, TypeOK, Propose, DueAt

LEMMA ClearEffect ==
  ASSUME IInv, NEW key \in Keys, NEW recipient, Withdraw(key) \/ Enact(key, recipient)
  PROVE  /\ pending'[key] = NoProposal
         /\ \A k \in Keys \ {key} : pending'[k] = pending[k] /\ settings'[k] = settings[k]
         /\ UNCHANGED <<managerVars, withdrawal, hookVars>>
  BY DEF IInv, TypeOK, Withdraw, Enact

LEMMA InstallEffect ==
  ASSUME NEW manager, NEW recipient, Install(manager, recipient)
  PROVE  /\ \A key \in Keys : pending'[key] = NoProposal \/ pending'[key] = pending[key]
         /\ \A key \in {"hooksRoot", "minUpdateInterval"} : pending'[key] = NoProposal
         /\ takeover' = NoTakeover /\ withdrawal' = NoWithdrawal
         /\ secondaryManagers' = {} /\ mainManager' = manager
         /\ UNCHANGED <<settings, hookVars>>
  BY DEF Install, Dropped, SecondariesAfter, Keys, RootKeys

LEMMA HiddenStep ==
  ASSUME IInv, [Next]_vars
  PROVE  NothingHidden'
<1> USE DEF IInv
<1>1. CASE UNCHANGED vars
  BY <1>1 DEF NothingHidden, vars
<1>2. CASE Proposing
  BY <1>2, ProposeEffect DEF Proposing, NothingHidden, managerVars
<1>3. CASE Withdrawing
  BY <1>3, ClearEffect DEF Withdrawing, NothingHidden, managerVars
<1>4. CASE Enacting
  BY <1>4, ClearEffect DEF Enacting, NothingHidden, managerVars
<1>5. CASE Installing
  BY <1>5, InstallEffect DEF Installing, NothingHidden
<1>6. CASE ElseStep
  BY <1>6, ElseEffect, ManagersAssumption DEF NothingHidden, TypeOK, ManagersAssumption
<1> QED BY <1>1, <1>2, <1>3, <1>4, <1>5, <1>6, StepKinds

LEMMA InheritsStep ==
  ASSUME IInv, [Next]_vars
  PROVE  InheritsNothing'
<1> USE DEF IInv
<1>1. CASE UNCHANGED vars
  BY <1>1 DEF InheritsNothing, vars
<1>2. CASE Proposing
  BY <1>2, ProposeEffect DEF Proposing, InheritsNothing, managerVars, Keys, RootKeys
<1>3. CASE Withdrawing
  BY <1>3, ClearEffect, ClearedTypes
  DEF Withdrawing, InheritsNothing, managerVars, Keys, RootKeys
<1>4. CASE Enacting
  BY <1>4, ClearEffect, ClearedTypes DEF Enacting, InheritsNothing, managerVars, Keys, RootKeys
<1>5. CASE Installing
  BY <1>5, InstallEffect, ClearedTypes DEF Installing, InheritsNothing, NoWithdrawal
<1>6. CASE ElseStep
  <2>1. UNCHANGED <<pending, tenure>>
    BY <1>6, ElseEffect
  <2>2. takeover'.effectiveTime > 0 => takeover'.tenure = tenure
    BY <1>6, ElseEffect, ClearedTypes DEF InheritsNothing
  <2>3. withdrawal'.effectiveTime > 0 => withdrawal'.tenure = tenure
    BY <1>6, ElseEffect DEF InheritsNothing, NoWithdrawal
  <2> QED BY <2>1, <2>2, <2>3 DEF InheritsNothing
<1> QED BY <1>1, <1>2, <1>3, <1>4, <1>5, <1>6, StepKinds

(* Secondary managers come one at a time, under the limit.                 *)
LEMMA ElseSecondaries ==
  ASSUME IInv, ElseStep
  PROVE  \/ secondaryManagers' = secondaryManagers
         \/ \E manager \in Accounts :
              /\ manager \notin secondaryManagers \cup {mainManager}
              /\ Cardinality(secondaryManagers) < MAX_SECONDARY_MANAGERS
              /\ secondaryManagers' = secondaryManagers \cup {manager}
         \/ \E manager \in secondaryManagers : secondaryManagers' = secondaryManagers \ {manager}
  BY DEF ElseStep, AddSecondaryManager, RemoveSecondaryManager, CancelChangePrimaryManager,
         ProposeWithdrawUpkeep, ExecuteWithdrawUpkeep, ChangeGlobalLeavesStatus,
         ProposeChangePrimaryManager, FreezeManagerTakeover, SetVetoStatus,
         ChangeHooksRootUpdateTimelock, Tick, managerVars

LEMMA DistinctStep ==
  ASSUME IInv, [Next]_vars
  PROVE  ManagersDistinct'
<1> USE DEF IInv
<1>1. CASE UNCHANGED vars
  BY <1>1 DEF ManagersDistinct, vars
<1>2. CASE Proposing \/ Withdrawing \/ Enacting
  <2>1. UNCHANGED managerVars
    BY <1>2 DEF Proposing, Propose, Withdrawing, Withdraw, Enacting, Enact
  <2> QED BY <2>1 DEF ManagersDistinct, managerVars
<1>3. CASE Installing
  <2>1. secondaryManagers' = {} /\ takeover' = NoTakeover
    BY <1>3, InstallEffect DEF Installing
  <2>2. Cardinality({}) <= MAX_SECONDARY_MANAGERS
    BY FS_EmptySet, ManagersAssumption DEF ManagersAssumption
  <2> QED BY <2>1, <2>2, ClearedTypes DEF ManagersDistinct
<1>4. CASE ElseStep
  <2>1. IsFiniteSet(secondaryManagers)
    BY FS_Subset, ManagersAssumption DEF TypeOK, ManagersAssumption
  <2>2. Cardinality(secondaryManagers) \in Nat
    BY <2>1, FS_CardinalityType
  <2>3. Cardinality(secondaryManagers') <= MAX_SECONDARY_MANAGERS
    <3>1. CASE secondaryManagers' = secondaryManagers
      BY <3>1 DEF ManagersDistinct
    <3>2. ASSUME NEW manager \in Accounts, manager \notin secondaryManagers,
                 Cardinality(secondaryManagers) < MAX_SECONDARY_MANAGERS,
                 secondaryManagers' = secondaryManagers \cup {manager}
          PROVE  Cardinality(secondaryManagers') <= MAX_SECONDARY_MANAGERS
      <4>1. Cardinality(secondaryManagers') = Cardinality(secondaryManagers) + 1
        BY <2>1, <3>2, FS_AddElement
      <4> QED BY <2>2, <3>2, <4>1, ManagersAssumption DEF ManagersAssumption
    <3>3. ASSUME NEW manager \in secondaryManagers,
                 secondaryManagers' = secondaryManagers \ {manager}
          PROVE  Cardinality(secondaryManagers') <= MAX_SECONDARY_MANAGERS
      <4>1. Cardinality(secondaryManagers') = Cardinality(secondaryManagers) - 1
        BY <2>1, <3>3, FS_RemoveElement
      <4> QED BY <2>2, <4>1, ManagersAssumption DEF ManagersDistinct, ManagersAssumption
    <3> QED BY <1>4, <3>1, <3>2, <3>3, ElseSecondaries
  <2>4. mainManager' \notin secondaryManagers'
    BY <1>4, ElseEffect, ElseSecondaries DEF ManagersDistinct
  <2>5. takeover'.effectiveTime > 0 => takeover'.manager # mainManager'
    BY <1>4, ElseEffect, ClearedTypes DEF ManagersDistinct
  <2> QED BY <2>3, <2>4, <2>5 DEF ManagersDistinct
<1> QED BY <1>1, <1>2, <1>3, <1>4, StepKinds

-----------------------------------------------------------------------------
(* The invariant, and what follows from it.                                *)

(* Every part of the invariant holds in every reachable state.             *)
THEOREM Invariance == Spec => []IInv
<1>1. Init => IInv
  <2> SUFFICES ASSUME Init PROVE IInv
    OBVIOUS
  <2>1. NothingHidden
    BY DEF Init, NothingHidden
  <2>2. ManagersDistinct
    BY ClearedTypes DEF Init, ManagersDistinct
  <2>3. InheritsNothing
    BY ClearedTypes DEF Init, InheritsNothing, NoWithdrawal, Keys, RootKeys
  <2> QED BY <2>1, <2>2, <2>3, InitialTypes DEF IInv
<1>2. IInv /\ [Next]_vars => IInv'
  BY TypeStep, HiddenStep, DistinctStep, InheritsStep DEF IInv
<1> QED BY <1>1, <1>2, PTL DEF Spec

(* Managers, settings and proposals keep their types for any accounts,     *)
(* values and time locks; in particular a takeover or a fee configuration  *)
(* never installs the zero address.                                        *)
THEOREM TypeCorrectness == Spec => []TypeOK
<1>1. IInv => TypeOK
  BY DEF IInv
<1> QED BY <1>1, Invariance, PTL

(* The main manager is never a secondary one, there are never more than    *)
(* MAX_SECONDARY_MANAGERS, and no takeover by the manager itself waits.    *)
THEOREM ManagersStayDistinct == Spec => []ManagersDistinct
<1>1. IInv => ManagersDistinct
  BY DEF IInv
<1> QED BY <1>1, Invariance, PTL

(* Nothing the aggregator keeps waiting for a strategy is of a former main *)
(* manager's time.                                                         *)
THEOREM NothingInherited == Spec => []InheritsNothing
<1>1. IInv => InheritsNothing
  BY DEF IInv
<1> QED BY <1>1, Invariance, PTL

-----------------------------------------------------------------------------
(* Time locks.                                                             *)

LEMMA SettingStep ==
  ASSUME IInv, [Next]_vars, NEW key \in Keys
  PROVE  SettingLock(key)!Step
<1> USE DEF IInv, SettingLock!Step, SettingLock!Next, SettingLock!Propose, SettingLock!Withdraw,
            SettingLock!Enact, SettingLock!OnDisplay
<1>1. CASE UNCHANGED vars
  BY <1>1 DEF vars
<1>2. CASE Proposing
  BY <1>2, ProposeEffect DEF Proposing
<1>3. CASE Withdrawing
  <2>1. PICK k \in Keys : Withdraw(k)
    BY <1>3 DEF Withdrawing
  <2>2. settings' = settings
    BY <2>1 DEF Withdraw
  <2> QED BY <2>1, <2>2, ClearEffect, ClearedTypes
<1>4. CASE Enacting
  <2>1. PICK k \in Keys, recipient \in Accounts : pending[k] # NoProposal /\ Enact(k, recipient)
    BY <1>4 DEF Enacting
  <2>2. CASE k = key
    <3>1. pending[key].effectiveTime > 0
      BY <2>1, <2>2 DEF NothingHidden, TypeOK, Proposals
    <3>2. now >= pending[key].effectiveTime /\ settings'[key] = pending[key].value
      BY <2>1, <2>2 DEF Enact, Matured, TypeOK
    <3>3. pending'[key].effectiveTime = 0
      BY <2>1, <2>2, ClearEffect, ClearedTypes
    <3> QED BY <3>1, <3>2, <3>3
  <2>3. CASE k # key
    BY <2>1, <2>3, ClearEffect
  <2> QED BY <2>2, <2>3
<1>5. CASE Installing
  <2>1. settings' = settings /\ (pending'[key] = NoProposal \/ pending'[key] = pending[key])
    BY <1>5, InstallEffect DEF Installing
  <2> QED BY <2>1, ClearedTypes
<1>6. CASE ElseStep
  BY <1>6, ElseEffect
<1> QED BY <1>1, <1>2, <1>3, <1>4, <1>5, <1>6, StepKinds

LEMMA ManagerStep ==
  ASSUME IInv, [Next]_vars
  PROVE  ManagerLock!Step
<1> USE DEF IInv, ManagerLock!Step, ManagerLock!Next, ManagerLock!Propose, ManagerLock!Withdraw,
            ManagerLock!Enact, ManagerLock!Overrule, ManagerLock!OnDisplay
<1>1. CASE UNCHANGED vars
  BY <1>1 DEF vars
<1>2. CASE Proposing \/ Withdrawing \/ Enacting
  BY <1>2 DEF Proposing, Propose, Withdrawing, Withdraw, Enacting, Enact, managerVars
<1>3. CASE Installing
  <2>1. takeover'.effectiveTime = 0
    BY <1>3, InstallEffect, ClearedTypes DEF Installing
  <2>2. CASE ~takeoversFrozen
    BY <2>1, <2>2
  <2>3. CASE /\ takeover # NoTakeover /\ now >= takeover.effectiveTime
             /\ mainManager' = takeover.manager
    <3>1. takeover.effectiveTime > 0
      BY <2>3 DEF NothingHidden, TypeOK, Takeovers
    <3> QED BY <2>1, <2>3, <3>1
  <2> QED BY <1>3, <2>2, <2>3, InstallEffect DEF Installing
<1>4. CASE ElseStep
  BY <1>4, ElseEffect, ClearedTypes
<1> QED BY <1>1, <1>2, <1>3, <1>4, StepKinds

(* Every setting and the main manager implement a time-locked parameter,   *)
(* for any time locks, however they change meanwhile.                      *)
THEOREM TimeLocksHold == Spec => ChangesTimelocked
<1>1. Init => ManagerLock!Init /\ \A key \in Keys : SettingLock(key)!Init
  BY ClearedTypes
  DEF Init, ManagerLock!Init, ManagerLock!OnDisplay, SettingLock!Init, SettingLock!OnDisplay
<1>2. IInv /\ [Next]_vars =>
        [ManagerLock!Step /\ \A key \in Keys : SettingLock(key)!Step]_vars
  BY SettingStep, ManagerStep
<1> QED BY <1>1, <1>2, Invariance, PTL DEF Spec, ChangesTimelocked

-----------------------------------------------------------------------------
(* Hooks.                                                                  *)

(* A leaf is below a root in force only if its root is not the zero root.  *)
LEMMA AllowedDependsOn ==
  ASSUME NEW leaf, UNCHANGED <<settings, bannedLeaves, vetoed>>
  PROVE  HookAllowed(leaf)' <=> HookAllowed(leaf)
  BY DEF HookAllowed, Below

LEMMA HookStep ==
  ASSUME IInv, [Next]_vars, NEW leaf \in Leaves, ~HookAllowed(leaf), HookAllowed(leaf)'
  PROVE  VetoLifted \/ BanLifted(leaf) \/ RootEnacted(leaf)
<1> USE DEF IInv
<1>1. ~ UNCHANGED <<settings, bannedLeaves, vetoed>>
  BY AllowedDependsOn
<1>2. ~ UNCHANGED vars
  BY <1>1 DEF vars
<1>3. ~Proposing /\ ~Withdrawing
  BY <1>1 DEF Proposing, Propose, Withdrawing, Withdraw, hookVars
<1>4. ~Installing
  BY <1>1 DEF Installing, Install, hookVars
<1>5. CASE Enacting
  <2>1. PICK key \in Keys, recipient \in Accounts : pending[key] # NoProposal /\ Enact(key, recipient)
    BY <1>5 DEF Enacting
  <2>2. UNCHANGED <<bannedLeaves, vetoed>> /\ settings' = [settings EXCEPT ![key] = pending[key].value]
    BY <2>1 DEF Enact, hookVars
  <2>3. pending[key].effectiveTime \in 1..now
    <3>1. pending[key].effectiveTime # 0
      BY <2>1 DEF NothingHidden
    <3>2. now >= pending[key].effectiveTime
      BY <2>1 DEF Enact, Matured
    <3> QED BY <3>1, <3>2 DEF TypeOK, Proposals
  <2>4. \A k \in Keys \ {key} : Below(k)' = Below(k)
    BY <2>2 DEF Below, TypeOK
  <2>5. leaf \in Below(key)' => leaf \in LeavesOf[pending[key].value]
    BY <2>2 DEF Below, TypeOK
  <2>6. /\ key \in RootKeys /\ leaf \in Below(key)'
        /\ key = "globalHooksRoot" => leaf \notin bannedLeaves
    BY <2>2, <2>4 DEF HookAllowed, Keys, RootKeys
  <2> QED BY <2>2, <2>3, <2>5, <2>6 DEF RootEnacted
<1>6. CASE ElseStep
  <2>1. settings' = settings
    BY <1>6, ElseEffect
  <2>2. \A k : Below(k)' = Below(k)
    BY <2>1 DEF Below
  <2>3. CASE \E l \in Leaves, banned \in BOOLEAN : ChangeGlobalLeavesStatus(l, banned)
    <3>1. PICK l \in Leaves, banned \in BOOLEAN : ChangeGlobalLeavesStatus(l, banned)
      BY <2>3
    <3>2. vetoed' = vetoed /\ bannedLeaves' = IF banned THEN bannedLeaves \cup {l} ELSE bannedLeaves \ {l}
      BY <3>1 DEF ChangeGlobalLeavesStatus
    <3>3. leaf \in bannedLeaves /\ leaf \notin bannedLeaves'
      BY <2>2, <3>2 DEF HookAllowed
    <3> QED BY <2>1, <3>2, <3>3 DEF BanLifted
  <2>4. CASE \E root \in {"global", "strategy"}, veto \in BOOLEAN : SetVetoStatus(root, veto)
    <3>1. PICK root \in {"global", "strategy"}, veto \in BOOLEAN : SetVetoStatus(root, veto)
      BY <2>4
    <3>2. bannedLeaves' = bannedLeaves /\ vetoed' = [vetoed EXCEPT ![root] = veto]
      BY <3>1 DEF SetVetoStatus
    <3>3. ~veto
      BY <3>2 DEF HookAllowed, TypeOK
    <3>4. vetoed[root]
      BY <2>1, <1>1, <3>2, <3>3 DEF TypeOK
    <3>5. vetoed' = [vetoed EXCEPT ![root] = FALSE]
      BY <3>2, <3>3
    <3> QED BY <2>1, <3>2, <3>4, <3>5 DEF VetoLifted, TypeOK
  <2>5. CASE \/ \E manager \in Accounts : AddSecondaryManager(manager) \/ RemoveSecondaryManager(manager)
             \/ CancelChangePrimaryManager \/ ProposeWithdrawUpkeep \/ ExecuteWithdrawUpkeep
             \/ \E manager, recipient \in Accounts : ProposeChangePrimaryManager(manager, recipient)
             \/ FreezeManagerTakeover \/ Tick
             \/ \E timelock \in HooksTimelocks : ChangeHooksRootUpdateTimelock(timelock)
    BY <1>1, <2>1, <2>5
    DEF AddSecondaryManager, RemoveSecondaryManager, CancelChangePrimaryManager,
        ProposeWithdrawUpkeep, ExecuteWithdrawUpkeep, ProposeChangePrimaryManager,
        FreezeManagerTakeover, Tick, ChangeHooksRootUpdateTimelock, hookVars
  <2> QED BY <1>6, <2>3, <2>4, <2>5 DEF ElseStep
<1> QED BY <1>2, <1>3, <1>4, <1>5, <1>6, StepKinds

(* What a strategy's hooks may do grows only by the guardian's, the        *)
(* manager's or a matured root's hand, for any roots and time locks.       *)
THEOREM HooksWiden == Spec => HooksWidenOnlyAnnounced
<1>1. IInv /\ [Next]_vars =>
        [\A leaf \in Leaves :
           ~HookAllowed(leaf) /\ HookAllowed(leaf)' =>
             VetoLifted \/ BanLifted(leaf) \/ RootEnacted(leaf)]_vars
  BY HookStep
<1> QED BY <1>1, Invariance, PTL DEF Spec, HooksWidenOnlyAnnounced
=============================================================================
