--------------------------- MODULE SuperGovernor ---------------------------
(***************************************************************************)
(* What SuperGovernor decides for the whole protocol: fees, the payment of *)
(* upkeep, the minimum of staleness limits, the active price oracle and    *)
(* the roots of SuperBank's hooks, each behind a time lock of seven days,  *)
(* and the registry of hooks.  It also holds the only key to SuperOracle,  *)
(* whose operations are those of PriceFeeds.                               *)
(*                                                                         *)
(* Proposals are made by the holders of roles and executed by anybody, so  *)
(* every step is open to somebody at all times.  The parts of the governor *)
(* that pass calls on to the aggregator are in StrategyManagers and        *)
(* PricePerShare.                                                          *)
(***************************************************************************)
EXTENDS PriceFeeds

CONSTANTS
  Hooks,
  Choices,            \* what may be proposed for each key
  Initial,            \* the values at deployment
  TIMELOCK,
  BPS_MAX,
  MaxTime,            \* bound: the last point of time
  MaxPending,         \* bound: proposals pending at the same time
  MaxChanges          \* bound: proposals executed and limits set

FeeTypes == {"REVENUE_SHARE", "PERFORMANCE_FEE_SHARE"}
Keys == FeeTypes \cup {"upkeepPaymentsEnabled", "minStaleness", "activePPSOracle"} \cup Hooks

(* Roots and addresses of oracles are numbers: 0 is the zero root and the  *)
(* zero address.                                                           *)
Addresses == {"activePPSOracle"} \cup Hooks

ASSUME GovernorAssumption ==
  /\ Hooks \cap (FeeTypes \cup {"upkeepPaymentsEnabled", "minStaleness", "activePPSOracle"}) = {}
  /\ Choices \in [Keys -> SUBSET Nat] /\ Initial \in [Keys -> Nat]
  /\ \A key \in Addresses : Initial[key] = 0
  /\ \A key \in FeeTypes : Initial[key] <= BPS_MAX
  /\ DefaultStaleness >= Initial["minStaleness"]
  /\ TIMELOCK \in Nat \ {0} /\ BPS_MAX \in Nat
  /\ MaxTime \in Nat /\ MaxPending \in Nat /\ MaxChanges \in Nat

VARIABLES
  settings,           \* the values in force
  pending,            \* and what is proposed for each
  registeredHooks,
  registeredAt,       \* history: when each hook was last registered
  changes             \* history: proposals executed and limits set

governorVars == <<settings, pending, registeredHooks, registeredAt>>
vars == <<now, feedVars, governorVars, changes>>

NoProposal == [value |-> 0, effectiveTime |-> 0]

TypeOK ==
  /\ FeedsTypeOK
  /\ settings \in [Keys -> Nat]
  /\ pending \in [Keys -> [value : Nat, effectiveTime : Nat]]
  /\ registeredHooks \subseteq Hooks
  /\ registeredAt \in [Hooks -> Nat]
  /\ changes \in Nat

Init ==
  /\ FeedsInit
  /\ settings = Initial
  /\ pending = [key \in Keys |-> NoProposal]
  /\ registeredHooks = {} /\ registeredAt = [hook \in Hooks |-> 0]
  /\ changes = 0

-----------------------------------------------------------------------------
(* Parameters behind the time lock.                                        *)

(* Bound: how many proposals are pending, the oracle's update and removal  *)
(* counting as one.                                                        *)
PendingCount ==
  Cardinality({key \in Keys : pending[key].effectiveTime > 0})
    + (IF pendingUpdate.timestamp + pendingRemoval.timestamp > 0 THEN 1 ELSE 0)

Acceptable(key, value) ==
  /\ key \in FeeTypes => value <= BPS_MAX
  /\ key \in Addresses => value # 0
  /\ key \in Hooks => key \in registeredHooks

(* proposeFee, proposeUpkeepPaymentsChange, proposeMinStaleness,           *)
(* proposeActivePPSOracle and proposeSuperBankHookMerkleRoot.  What was    *)
(* proposed before is replaced, whether it was due or not.                 *)
Propose(key, value) ==
  /\ Acceptable(key, value)
  /\ pending' = [pending EXCEPT ![key] = [value |-> value, effectiveTime |-> now + TIMELOCK]]
  /\ UNCHANGED <<settings, registeredHooks, registeredAt, changes, feedVars>>

(* No proposal: told from the value for addresses and roots, from the time *)
(* for the others.                                                         *)
NothingProposed(key) ==
  IF key \in Addresses THEN pending[key].value = 0 ELSE pending[key].effectiveTime = 0

(* Faulty variant: a hook's root may be executed once it was announced.    *)
IsDue_RootAnytime(key) ==
  ~NothingProposed(key) /\ (key \in Hooks \/ now >= pending[key].effectiveTime)

IsDue(key) == ~NothingProposed(key) /\ now >= pending[key].effectiveTime

(* executeFeeUpdate, executeUpkeepPaymentsChange,                          *)
(* executeMinStalenessChange, executeActivePPSOracleChange and             *)
(* executeSuperBankHookMerkleRootUpdate.                                   *)
Execute(key) ==
  /\ key \in Hooks => key \in registeredHooks
  /\ IsDue(key)
  /\ settings' = [settings EXCEPT ![key] = pending[key].value]
  /\ pending' = [pending EXCEPT ![key] = NoProposal]
  /\ changes' = changes + 1
  /\ UNCHANGED <<registeredHooks, registeredAt, feedVars>>

(* The first price oracle needs no time lock.  A proposal that was made    *)
(* before it stays.                                                        *)
SetActivePPSOracle(oracle) ==
  /\ oracle # 0 /\ settings["activePPSOracle"] = 0
  /\ settings' = [settings EXCEPT !["activePPSOracle"] = oracle]
  /\ UNCHANGED <<pending, registeredHooks, registeredAt, changes, feedVars>>

-----------------------------------------------------------------------------
(* Hooks.                                                                  *)

RegisterHook(hook) ==
  /\ hook \notin registeredHooks
  /\ registeredHooks' = registeredHooks \cup {hook}
  /\ registeredAt' = [registeredAt EXCEPT ![hook] = now]
  /\ UNCHANGED <<settings, pending, changes, feedVars>>

(* Faulty variant: only the root in force is cleared.                      *)
PendingWithout_Kept(hook) == pending

(* What is proposed when the hook's root data is deleted.                  *)
PendingWithout(hook) == [pending EXCEPT ![hook] = NoProposal]

(* The hook's root goes with it, in force or proposed.                     *)
UnregisterHook(hook) ==
  /\ hook \in registeredHooks
  /\ registeredHooks' = registeredHooks \ {hook}
  /\ settings' = [settings EXCEPT ![hook] = 0]
  /\ pending' = PendingWithout(hook)
  /\ UNCHANGED <<registeredAt, changes, feedVars>>

(* SuperBank.executeHooks gets past its checks, given a proof below the    *)
(* root.                                                                   *)
BankMayExecute(hook) == hook \in registeredHooks /\ settings[hook] # 0

-----------------------------------------------------------------------------
(* SuperOracle, through the governor.                                      *)

(* Faulty variant: the minimum is not asked for.                           *)
NotTooLow_Unchecked(limit) == limit \in Nat

(* MAX_STALENESS_TOO_LOW is not raised.                                    *)
NotTooLow(limit) == limit >= settings["minStaleness"]

Staleness ==
  /\ \/ \E limit \in Limits : NotTooLow(limit) /\ SetDefaultStaleness(limit)
     \/ \E limit \in Limits, feed \in Feeds : NotTooLow(limit) /\ SetFeedMaxStaleness(feed, limit)
  /\ changes' = changes + 1
  /\ UNCHANGED governorVars

QueueUpdate(update) == QueueOracleUpdate(update) /\ UNCHANGED <<governorVars, changes>>

QueueRemoval(providers) == QueueProviderRemoval(providers) /\ UNCHANGED <<governorVars, changes>>

ExecuteUpdate ==
  /\ ExecuteOracleUpdate
  /\ changes' = changes + 1
  /\ UNCHANGED governorVars

ExecuteRemoval ==
  /\ ExecuteProviderRemoval
  /\ changes' = changes + 1
  /\ UNCHANGED governorVars

CancelRemoval == CancelProviderRemoval /\ UNCHANGED <<governorVars, changes>>

-----------------------------------------------------------------------------
Proposing ==
  /\ \/ \E key \in Keys : \E value \in Choices[key] : Propose(key, value)
     \/ \E update \in Updates : QueueUpdate(update)
     \/ \E providers \in SUBSET Providers : QueueRemoval(providers)
  /\ PendingCount' <= MaxPending

Executing ==
  /\ changes < MaxChanges
  /\ (\E key \in Keys : Execute(key)) \/ ExecuteUpdate \/ ExecuteRemoval \/ Staleness

Deciding ==
  \/ \E oracle \in Choices["activePPSOracle"] : SetActivePPSOracle(oracle)
  \/ \E hook \in Hooks : RegisterHook(hook) \/ UnregisterHook(hook)
  \/ CancelRemoval

(* Bound: time ends.                                                       *)
Tick ==
  /\ now < MaxTime
  /\ now' = now + 1
  /\ UNCHANGED <<feedVars, governorVars, changes>>

Next == Tick \/ ((Proposing \/ Executing \/ Deciding) /\ UNCHANGED now)

Spec == Init /\ [][Next]_vars

-----------------------------------------------------------------------------
(* Properties.                                                             *)

ParameterLock(key) == INSTANCE TimelockedParameter WITH
  delay <- TIMELOCK, overrulable <- FALSE, value <- settings[key],
  proposed <- pending[key].value, effectiveTime <- pending[key].effectiveTime

SlotQueued(slot) == slot \in DOMAIN pendingUpdate.entries

FeedLock(slot) == INSTANCE TimelockedParameter WITH
  delay <- TIMELOCK_PERIOD, overrulable <- FALSE, value <- oracles[slot],
  proposed <- IF SlotQueued(slot) THEN pendingUpdate.entries[slot] ELSE NoFeed,
  effectiveTime <- IF SlotQueued(slot) THEN pendingUpdate.timestamp + TIMELOCK_PERIOD ELSE 0

(* The first price oracle is set without a time lock.                      *)
FirstOracleSet(key) ==
  key = "activePPSOracle" /\ settings[key] = 0 /\ UNCHANGED pending[key]

(* A hook's root is gone, in force and proposed, for the hook has left the *)
(* registry.                                                               *)
RootRemoved(key) ==
  /\ key \in registeredHooks \ registeredHooks'
  /\ settings'[key] = 0 /\ pending'[key] = NoProposal

(* Every parameter of the governor, every root of a hook and every feed of *)
(* the oracle is a time-locked parameter: it changes only to what was on   *)
(* display for the whole time lock since its last announcement, whatever   *)
(* is proposed again before or after it was due and whoever executes.      *)
(* Immediate are only the first price oracle and the loss of a root with   *)
(* its hook, which leaves nothing on display.                              *)
ParametersTimelocked ==
  /\ \A key \in Keys : ParameterLock(key)!Init
  /\ \A slot \in Slots : FeedLock(slot)!Init
  /\ [][/\ \A key \in Keys :
             ParameterLock(key)!Step \/ FirstOracleSet(key) \/ RootRemoved(key)
        /\ \A slot \in Slots : FeedLock(slot)!Step]_vars

(* SuperBank can execute a hook only when it has been registered for a     *)
(* whole time lock without a break: what was approved or proposed for it   *)
(* before it was last removed counts for nothing.                          *)
HooksWaitTheirTime ==
  \A hook \in Hooks : BankMayExecute(hook) => now >= registeredAt[hook] + TIMELOCK

(* The average over a pair asks every provider that quotes it once, and    *)
(* no other, after any updates and removals, so that no provider weighs    *)
(* twice and a removed one not at all; and it asks no more than it may.    *)
EachProviderCountsOnce ==
  /\ \A pair \in Pairs, provider \in Providers :
       Sampled(pair)[provider] = IF Quotes(pair, provider) THEN 1 ELSE 0
  /\ ActiveCount <= MAX_SAMPLE_PROVIDERS

(* A feed begins to quote only by an update, a week on display, that names *)
(* its provider: a removed provider does not come back by a cancelled or   *)
(* replaced announcement.  (It then comes back for all its pairs, also for *)
(* those the update does not name.)                                        *)
FeedsReturnAnnounced ==
  [][\A pair \in Pairs, provider \in Providers :
       ~Quotes(pair, provider) /\ Quotes(pair, provider)' =>
         /\ pendingUpdate.timestamp \in 1 .. now
         /\ now >= pendingUpdate.timestamp + TIMELOCK_PERIOD
         /\ provider \in ProvidersOf(pendingUpdate.entries)]_vars

(* No feed's limit is ever tightened below the minimum of that moment, be  *)
(* it by its own limit or by the default: governance's minimum protects    *)
(* the feeds with and without a limit of their own.                        *)
LimitsKeepMinimum ==
  [][\A feed \in Feeds :
       LimitOf(feed)' < LimitOf(feed) => LimitOf(feed)' >= settings["minStaleness"]]_vars
=============================================================================
