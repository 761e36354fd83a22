-------------------------- MODULE StrategyManagers --------------------------
(***************************************************************************)
(* Who manages a strategy, and what its managers and governance prepare    *)
(* for later: takeovers, roots of permitted hooks, the update interval,    *)
(* the fee configuration, the expiry of prices, and withdrawals of upkeep. *)
(* All of these wait behind time locks, while the manager may be replaced. *)
(*                                                                         *)
(* One strategy: strategies share only the global hooks root, its veto,    *)
(* the time lock of hooks roots and the freeze, which are SuperGovernor's. *)
(* Amounts of upkeep are in PricePerShare; a withdrawal here is only the   *)
(* request and whom it pays.  Every step is open to somebody at all times  *)
(* (to the main manager, to governance, or to anybody), so callers appear  *)
(* only where a step may have nobody to take it.                           *)
(***************************************************************************)
EXTENDS Naturals, FiniteSets

CONSTANTS
  Accounts,                 \* who may be a manager or receive fees
  NoAccount,                \* the zero address
  Leaves,                   \* permissible hook calls
  Roots,                    \* Merkle roots; 0 is the zero root
  LeavesOf,                 \* the leaves below each root
  Intervals,                \* update intervals below the maximal staleness
  Fees,                     \* fee configurations, apart from the recipient
  Expirations,              \* price expiries within the limits, none is 0
  HooksTimelocks,           \* what governance may choose as _hooksRootUpdateTimelock
  MAX_SECONDARY_MANAGERS,
  MANAGER_CHANGE_TIMELOCK,
  PARAMETER_CHANGE_TIMELOCK,
  PROPOSAL_TIMELOCK,
  UPKEEP_WITHDRAWAL_TIMELOCK,
  MaxTime,                  \* bound: the last point of time
  MaxTenures,               \* bound: changes of the main manager
  MaxPending                \* bound: proposals pending at the same time

ASSUME ManagersAssumption ==
  /\ IsFiniteSet(Accounts) /\ NoAccount \notin Accounts
  /\ Roots \subseteq Nat /\ 0 \notin Roots
  /\ LeavesOf \in [Roots -> SUBSET Leaves]
  /\ Intervals \subseteq Nat /\ Fees \subseteq Nat
  /\ Expirations \subseteq Nat \ {0} /\ HooksTimelocks \subseteq Nat
  /\ MAX_SECONDARY_MANAGERS \in Nat
  /\ MANAGER_CHANGE_TIMELOCK \in Nat /\ PARAMETER_CHANGE_TIMELOCK \in Nat
  /\ PROPOSAL_TIMELOCK \in Nat /\ UPKEEP_WITHDRAWAL_TIMELOCK \in Nat
  /\ MaxTime \in Nat /\ MaxTenures \in Nat /\ MaxPending \in Nat

VARIABLES
  now,                \* block.timestamp
  mainManager,
  secondaryManagers,
  takeover,           \* proposedManager with its recipient and time
  feeRecipient,       \* the recipient in the strategy's feeConfig
  settings,           \* the values in force behind the other time locks
  pending,            \* and what is proposed for each of them
  withdrawal,         \* the request to withdraw upkeep
  bannedLeaves,       \* leaves of the global root the manager has banned
  vetoed,             \* the guardian's vetoes: "global", "strategy"
  hooksRootUpdateTimelock,
  takeoversFrozen,    \* _managerTakeoversFrozen
  tenure              \* history: how many main managers there have been

vars == <<now, mainManager, secondaryManagers, takeover, feeRecipient, settings, pending,
          withdrawal, bannedLeaves, vetoed, hooksRootUpdateTimelock, takeoversFrozen, tenure>>

managerVars == <<mainManager, secondaryManagers, takeover, tenure>>
settingVars == <<settings, pending, feeRecipient>>
hookVars == <<bannedLeaves, vetoed, hooksRootUpdateTimelock>>

RootKeys == {"hooksRoot", "globalHooksRoot"}

Keys == RootKeys \cup {"minUpdateInterval", "feeConfig", "ppsExpiration"}

(* A proposal remembers in whose tenure it was made (history); only a      *)
(* takeover and a fee configuration name a recipient.                      *)
NoProposal == [value |-> 0, recipient |-> NoAccount, effectiveTime |-> 0, tenure |-> 0]
NoTakeover == [manager |-> NoAccount, recipient |-> NoAccount, effectiveTime |-> 0, tenure |-> 0]
NoWithdrawal == [effectiveTime |-> 0, tenure |-> 0]

Proposals ==
  [value : Nat, recipient : Accounts \cup {NoAccount}, effectiveTime : Nat, tenure : Nat]
Takeovers ==
  [manager : Accounts \cup {NoAccount}, recipient : Accounts \cup {NoAccount},
   effectiveTime : Nat, tenure : Nat]

TypeOK ==
  /\ now \in Nat \ {0}
  /\ mainManager \in Accounts
  /\ secondaryManagers \subseteq Accounts
  /\ takeover \in Takeovers
  /\ takeover.effectiveTime > 0 => NoAccount \notin {takeover.manager, takeover.recipient}
  /\ feeRecipient \in Accounts
  /\ settings \in [Keys -> Nat]
  /\ pending \in [Keys -> Proposals]
  /\ pending["feeConfig"].effectiveTime > 0 => pending["feeConfig"].recipient \in Accounts
  /\ withdrawal \in [effectiveTime : Nat, tenure : Nat]
  /\ bannedLeaves \subseteq Leaves
  /\ vetoed \in [{"global", "strategy"} -> BOOLEAN]
  /\ hooksRootUpdateTimelock \in Nat
  /\ takeoversFrozen \in BOOLEAN
  /\ tenure \in Nat

InitialSettings == [key \in Keys |-> IF key = "ppsExpiration" THEN 1 ELSE 0]

(* createVault, with no proposal of SuperGovernor pending.                 *)
Init ==
  /\ now = 1
  /\ mainManager \in Accounts
  /\ secondaryManagers \in SUBSET (Accounts \ {mainManager})
  /\ Cardinality(secondaryManagers) <= MAX_SECONDARY_MANAGERS
  /\ takeover = NoTakeover
  /\ feeRecipient \in Accounts
  /\ settings = InitialSettings
  /\ pending = [key \in Keys |-> NoProposal]
  /\ withdrawal = NoWithdrawal
  /\ bannedLeaves = {}
  /\ vetoed = [root \in {"global", "strategy"} |-> FALSE]
  /\ hooksRootUpdateTimelock \in HooksTimelocks
  /\ takeoversFrozen = FALSE
  /\ tenure = 1

-----------------------------------------------------------------------------
(* Proposals.                                                              *)

(* Bound: how many proposals are pending.                                  *)
PendingCount ==
  Cardinality({key \in Keys : pending[key].effectiveTime > 0})
    + (IF takeover.effectiveTime > 0 THEN 1 ELSE 0)
    + (IF withdrawal.effectiveTime > 0 THEN 1 ELSE 0)

(* The time lock of each setting.                                          *)
Delay(key) ==
  CASE key \in RootKeys          -> hooksRootUpdateTimelock
    [] key = "minUpdateInterval" -> PARAMETER_CHANGE_TIMELOCK
    [] OTHER                     -> PROPOSAL_TIMELOCK

(* Faulty variant: a proposal that replaces another is due with it.        *)
DueAt_Kept(key) ==
  IF pending[key].effectiveTime > 0 THEN pending[key].effectiveTime ELSE now + Delay(key)

DueAt(key) == now + Delay(key)

Propose(key, value, recipient) ==
  /\ pending[key].effectiveTime > 0 \/ PendingCount < MaxPending
  /\ pending' = [pending EXCEPT ![key] =
       [value |-> value, recipient |-> recipient,
        effectiveTime |-> DueAt(key), tenure |-> tenure]]
  /\ UNCHANGED <<now, managerVars, settings, feeRecipient, withdrawal, hookVars, takeoversFrozen>>

Withdraw(key) ==
  /\ pending' = [pending EXCEPT ![key] = NoProposal]
  /\ UNCHANGED <<now, managerVars, settings, feeRecipient, withdrawal, hookVars, takeoversFrozen>>

(* Faulty variant: the time lock is not looked at.                         *)
Matured_Unchecked(key) == TRUE

Matured(key) == now >= pending[key].effectiveTime

Enact(key, recipient) ==
  /\ Matured(key)
  /\ settings' = [settings EXCEPT ![key] = pending[key].value]
  /\ feeRecipient' = recipient
  /\ pending' = [pending EXCEPT ![key] = NoProposal]
  /\ UNCHANGED <<now, managerVars, withdrawal, hookVars, takeoversFrozen>>

(* The main manager, and for the global root the governor, may propose the *)
(* zero root: it takes the place of a proposal and can not be executed.    *)
ProposeStrategyHooksRoot(root) == Propose("hooksRoot", root, NoAccount)

ProposeGlobalHooksRoot(root) == Propose("globalHooksRoot", root, NoAccount)

ExecuteStrategyHooksRootUpdate ==
  /\ pending["hooksRoot"].value # 0
  /\ Enact("hooksRoot", feeRecipient)

ExecuteGlobalHooksRootUpdate ==
  /\ pending["globalHooksRoot"].value # 0
  /\ Enact("globalHooksRoot", feeRecipient)

ProposeMinUpdateIntervalChange(interval) == Propose("minUpdateInterval", interval, NoAccount)

ExecuteMinUpdateIntervalChange ==
  /\ pending["minUpdateInterval"].effectiveTime > 0
  /\ Enact("minUpdateInterval", feeRecipient)

CancelMinUpdateIntervalChange ==
  pending["minUpdateInterval"].effectiveTime > 0 /\ Withdraw("minUpdateInterval")

ProposeVaultFeeConfigUpdate(fee, recipient) == Propose("feeConfig", fee, recipient)

(* The high-water mark, which this step resets, is in PricePerShare.       *)
ExecuteVaultFeeConfigUpdate ==
  /\ pending["feeConfig"].recipient # NoAccount
  /\ Enact("feeConfig", pending["feeConfig"].recipient)

ProposePPSExpiration(threshold) == Propose("ppsExpiration", threshold, NoAccount)

UpdatePPSExpiration ==
  /\ pending["ppsExpiration"].value # 0
  /\ Enact("ppsExpiration", feeRecipient)

CancelPPSExpirationProposalUpdate ==
  pending["ppsExpiration"].effectiveTime > 0 /\ Withdraw("ppsExpiration")

-----------------------------------------------------------------------------
(* Managers.                                                               *)

AddSecondaryManager(manager) ==
  /\ manager \notin secondaryManagers \cup {mainManager}
  /\ Cardinality(secondaryManagers) < MAX_SECONDARY_MANAGERS
  /\ secondaryManagers' = secondaryManagers \cup {manager}
  /\ UNCHANGED <<now, mainManager, takeover, tenure, settingVars, withdrawal, hookVars,
                 takeoversFrozen>>

RemoveSecondaryManager(manager) ==
  /\ manager \in secondaryManagers
  /\ secondaryManagers' = secondaryManagers \ {manager}
  /\ UNCHANGED <<now, mainManager, takeover, tenure, settingVars, withdrawal, hookVars,
                 takeoversFrozen>>

(* Only a secondary manager may propose, itself or anybody else.           *)
ProposeChangePrimaryManager(manager, recipient) ==
  /\ secondaryManagers # {}
  /\ manager # mainManager
  /\ takeover.effectiveTime > 0 \/ PendingCount < MaxPending
  /\ takeover' = [manager |-> manager, recipient |-> recipient,
                  effectiveTime |-> now + MANAGER_CHANGE_TIMELOCK, tenure |-> tenure]
  /\ UNCHANGED <<now, mainManager, secondaryManagers, tenure, settingVars, withdrawal, hookVars,
                 takeoversFrozen>>

CancelChangePrimaryManager ==
  /\ takeover.manager # NoAccount
  /\ takeover' = NoTakeover
  /\ UNCHANGED <<now, mainManager, secondaryManagers, tenure, settingVars, withdrawal, hookVars,
                 takeoversFrozen>>

(* Faulty variant: the proposed update interval is forgotten.              *)
Dropped_RootOnly == {"hooksRoot"}

(* The proposals of the old manager that a takeover drops.                 *)
Dropped == {"hooksRoot", "minUpdateInterval"}

SecondariesAfter(manager) == {}

(* The new manager starts with its own recipient of fees, without          *)
(* secondary managers, and with no pending takeover or upkeep withdrawal.  *)
Install(manager, recipient) ==
  /\ tenure < MaxTenures
  /\ mainManager' = manager
  /\ feeRecipient' = recipient
  /\ secondaryManagers' = SecondariesAfter(manager)
  /\ takeover' = NoTakeover
  /\ pending' = [key \in Keys |-> IF key \in Dropped THEN NoProposal ELSE pending[key]]
  /\ withdrawal' = NoWithdrawal
  /\ tenure' = tenure + 1
  /\ UNCHANGED <<now, settings, hookVars, takeoversFrozen>>

ExecuteChangePrimaryManager ==
  /\ takeover.manager # NoAccount
  /\ now >= takeover.effectiveTime
  /\ Install(takeover.manager, takeover.recipient)

(* By governance, at once, unless takeovers are frozen for good.           *)
ChangePrimaryManager(manager, recipient) ==
  /\ ~takeoversFrozen
  /\ manager # mainManager
  /\ Install(manager, recipient)

FreezeManagerTakeover ==
  /\ ~takeoversFrozen
  /\ takeoversFrozen' = TRUE
  /\ UNCHANGED <<now, managerVars, settingVars, withdrawal, hookVars>>

-----------------------------------------------------------------------------
(* Upkeep withdrawals: the request, and the payment to the main manager.   *)

ProposeWithdrawUpkeep ==
  /\ withdrawal.effectiveTime > 0 \/ PendingCount < MaxPending
  /\ withdrawal' = [effectiveTime |-> now + UPKEEP_WITHDRAWAL_TIMELOCK, tenure |-> tenure]
  /\ UNCHANGED <<now, managerVars, settingVars, hookVars, takeoversFrozen>>

ExecuteWithdrawUpkeep ==
  /\ withdrawal.effectiveTime > 0
  /\ now >= withdrawal.effectiveTime
  /\ withdrawal' = NoWithdrawal
  /\ UNCHANGED <<now, managerVars, settingVars, hookVars, takeoversFrozen>>

-----------------------------------------------------------------------------
(* Hooks.                                                                  *)

ChangeGlobalLeavesStatus(leaf, banned) ==
  /\ bannedLeaves' = IF banned THEN bannedLeaves \cup {leaf} ELSE bannedLeaves \ {leaf}
  /\ UNCHANGED <<now, managerVars, settingVars, withdrawal, vetoed, hooksRootUpdateTimelock,
                 takeoversFrozen>>

(* setGlobalHooksRootVetoStatus and setStrategyHooksRootVetoStatus.        *)
SetVetoStatus(root, veto) ==
  /\ vetoed' = [vetoed EXCEPT ![root] = veto]
  /\ UNCHANGED <<now, managerVars, settingVars, withdrawal, bannedLeaves,
                 hooksRootUpdateTimelock, takeoversFrozen>>

(* Zero is allowed.                                                        *)
ChangeHooksRootUpdateTimelock(timelock) ==
  /\ hooksRootUpdateTimelock' = timelock
  /\ UNCHANGED <<now, managerVars, settingVars, withdrawal, bannedLeaves, vetoed,
                 takeoversFrozen>>

Below(key) == IF settings[key] = 0 THEN {} ELSE LeavesOf[settings[key]]

(* validateHook, for a leaf whose proofs are right: a veto of either root  *)
(* forbids everything, a ban holds for the global root only.               *)
HookAllowed(leaf) ==
  /\ ~vetoed["global"] /\ ~vetoed["strategy"]
  /\ \/ leaf \in Below("globalHooksRoot") \ bannedLeaves
     \/ leaf \in Below("hooksRoot")

-----------------------------------------------------------------------------
Tick ==
  /\ now < MaxTime
  /\ now' = now + 1
  /\ UNCHANGED <<managerVars, settingVars, withdrawal, hookVars, takeoversFrozen>>

MainManagerStep ==
  \/ \E root \in Roots \cup {0} : ProposeStrategyHooksRoot(root)
  \/ \E interval \in Intervals : ProposeMinUpdateIntervalChange(interval)
  \/ CancelMinUpdateIntervalChange
  \/ \E fee \in Fees, recipient \in Accounts : ProposeVaultFeeConfigUpdate(fee, recipient)
  \/ ExecuteVaultFeeConfigUpdate
  \/ \E threshold \in Expirations : ProposePPSExpiration(threshold)
  \/ UpdatePPSExpiration
  \/ CancelPPSExpirationProposalUpdate
  \/ \E manager \in Accounts : AddSecondaryManager(manager) \/ RemoveSecondaryManager(manager)
  \/ CancelChangePrimaryManager
  \/ ProposeWithdrawUpkeep
  \/ \E leaf \in Leaves, banned \in BOOLEAN : ChangeGlobalLeavesStatus(leaf, banned)

GovernanceStep ==
  \/ \E root \in Roots \cup {0} : ProposeGlobalHooksRoot(root)
  \/ \E manager, recipient \in Accounts : ChangePrimaryManager(manager, recipient)
  \/ FreezeManagerTakeover
  \/ \E root \in {"global", "strategy"}, veto \in BOOLEAN : SetVetoStatus(root, veto)
  \/ \E timelock \in HooksTimelocks : ChangeHooksRootUpdateTimelock(timelock)

AnybodyStep ==
  \/ ExecuteStrategyHooksRootUpdate
  \/ ExecuteGlobalHooksRootUpdate
  \/ ExecuteMinUpdateIntervalChange
  \/ ExecuteChangePrimaryManager
  \/ ExecuteWithdrawUpkeep

Next ==
  \/ MainManagerStep
  \/ \E manager, recipient \in Accounts : ProposeChangePrimaryManager(manager, recipient)
  \/ GovernanceStep
  \/ AnybodyStep
  \/ Tick

Spec == Init /\ [][Next]_vars

-----------------------------------------------------------------------------
(* Properties.                                                             *)

(* Main and secondary managers are different accounts, of whom there are   *)
(* at most MAX_SECONDARY_MANAGERS, and a pending takeover would always     *)
(* change the manager: a secondary manager that becomes the main one, by   *)
(* either way, does not stay what it was.                                  *)
ManagersDistinct ==
  /\ mainManager \notin secondaryManagers
  /\ Cardinality(secondaryManagers) <= MAX_SECONDARY_MANAGERS
  /\ takeover.effectiveTime > 0 => takeover.manager # mainManager

(* Whatever waits in the aggregator for a strategy was proposed under its  *)
(* present main manager: a change of the manager, agreed or by governance, *)
(* leaves no takeover, hooks root, update interval or upkeep withdrawal of *)
(* the time before, however they were combined and replaced.               *)
InheritsNothing ==
  /\ \A key \in {"hooksRoot", "minUpdateInterval"} :
       pending[key].effectiveTime > 0 => pending[key].tenure = tenure
  /\ takeover.effectiveTime > 0 => takeover.tenure = tenure
  /\ withdrawal.effectiveTime > 0 => withdrawal.tenure = tenure

SettingLock(key) == INSTANCE TimelockedParameter WITH
  delay <- Delay(key), overrulable <- FALSE, value <- settings[key],
  proposed <- pending[key].value, effectiveTime <- pending[key].effectiveTime

ManagerLock == INSTANCE TimelockedParameter WITH
  delay <- MANAGER_CHANGE_TIMELOCK, overrulable <- ~takeoversFrozen, value <- mainManager,
  proposed <- takeover.manager, effectiveTime <- takeover.effectiveTime

(* Each setting, and the main manager itself, is a time-locked parameter:  *)
(* it changes only to what was on display for the whole time lock of the   *)
(* moment of the proposal, although the time lock of hooks roots changes   *)
(* and proposals are replaced, cancelled and dropped.  Governance          *)
(* overrules the manager's, until it freezes takeovers.                    *)
ChangesTimelocked ==
  /\ ManagerLock!Init /\ \A key \in Keys : SettingLock(key)!Init
  /\ [][ManagerLock!Step /\ \A key \in Keys : SettingLock(key)!Step]_vars

VetoLifted ==
  /\ \E root \in DOMAIN vetoed : vetoed[root] /\ vetoed' = [vetoed EXCEPT ![root] = FALSE]
  /\ UNCHANGED <<settings, bannedLeaves>>

BanLifted(leaf) ==
  /\ leaf \in bannedLeaves
  /\ bannedLeaves' = bannedLeaves \ {leaf}
  /\ UNCHANGED <<settings, vetoed>>

RootEnacted(leaf) ==
  /\ \E key \in RootKeys :
       /\ pending[key].effectiveTime \in 1..now
       /\ settings' = [settings EXCEPT ![key] = pending[key].value]
       /\ leaf \in LeavesOf[pending[key].value]
       /\ key = "globalHooksRoot" => leaf \notin bannedLeaves
  /\ UNCHANGED <<bannedLeaves, vetoed>>

(* A hook call that was forbidden becomes allowed by one of three hands    *)
(* only: the guardian lifts a veto, the manager lifts its ban, or a root   *)
(* above it, on display until its time, comes into force while neither     *)
(* root is vetoed.  A new root lifts neither a veto nor a ban, and no      *)
(* change of managers widens anything.                                     *)
HooksWidenOnlyAnnounced ==
  [][\A leaf \in Leaves :
       ~HookAllowed(leaf) /\ HookAllowed(leaf)' =>
         VetoLifted \/ BanLifted(leaf) \/ RootEnacted(leaf)]_vars

(* "Clears ALL pending proposals and secondary managers" and "ensures      *)
(* clean slate for new manager" (changePrimaryManager): after a change of  *)
(* the main manager nothing is pending that the old one proposed.          *)
CleanSlate ==
  \A key \in Keys \ {"globalHooksRoot"} :
    pending[key].effectiveTime > 0 => pending[key].tenure = tenure

=============================================================================
