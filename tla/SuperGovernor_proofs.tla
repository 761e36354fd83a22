------------------------ MODULE SuperGovernor_proofs ------------------------
(***************************************************************************)
(* Proofs about SuperGovernor and the oracle it governs.  The inductive    *)
(* invariant says that the list of providers is the set of providers, and  *)
(* that a hook's root, in force or proposed, is younger than the hook's    *)
(* registration by a whole time lock.                                      *)
(***************************************************************************)
EXTENDS SuperGovernor, Arithmetic_proofs

(* Each provider that is set is in the list once, and no other is.         *)
ListIsSet ==
  /\ \A provider \in Providers :
       activeProviders[provider] = IF provider \in isProviderSet THEN 1 ELSE 0
  /\ Cardinality(isProviderSet) <= MAX_SAMPLE_PROVIDERS

(* Only what was queued is displayed.                                      *)
QueueSound == pendingUpdate.timestamp = 0 => pendingUpdate.entries = NoUpdate.entries

(* The two ways to tell that nothing is proposed agree.                    *)
SentinelsAgree ==
  \A key \in Addresses : pending[key].value = 0 <=> pending[key].effectiveTime = 0

HookSound(hook) ==
  /\ hook \notin registeredHooks => settings[hook] = 0 /\ pending[hook].value = 0
  /\ pending[hook].value # 0 => pending[hook].effectiveTime >= registeredAt[hook] + TIMELOCK
  /\ settings[hook] # 0 => now >= registeredAt[hook] + TIMELOCK
  /\ registeredAt[hook] <= now

HooksSound == \A hook \in Hooks : HookSound(hook)

IInv == TypeOK /\ ListIsSet /\ QueueSound /\ SentinelsAgree /\ HooksSound

-----------------------------------------------------------------------------
(* What the constants are.                                                 *)
LEMMA ConstantFacts ==
  /\ TIMELOCK \in Nat \ {0} /\ TIMELOCK_PERIOD \in Nat
  /\ Hooks \subseteq Addresses /\ Addresses \subseteq Keys /\ "activePPSOracle" \notin Hooks
  /\ "activePPSOracle" \in Addresses
  /\ \A key \in Keys : Choices[key] \subseteq Nat
  /\ Initial \in [Keys -> Nat] /\ \A key \in Addresses : Initial[key] = 0
  /\ Limits \subseteq Nat
  /\ NoUpdate \in [entries : AllUpdates, timestamp : {0}]
<1>1. NoUpdate \in [entries : AllUpdates, timestamp : {0}]
  <2>1. [slot \in {} |-> NoFeed] \in [{} -> Feeds]
    OBVIOUS
  <2>2. {} \in SUBSET Slots
    OBVIOUS
  <2>3. [slot \in {} |-> NoFeed] \in AllUpdates
    BY <2>1, <2>2 DEF AllUpdates
  <2>4. QED BY <2>3 DEF NoUpdate
<1>2. /\ TIMELOCK \in Nat \ {0} /\ TIMELOCK_PERIOD \in Nat /\ Limits \subseteq Nat
      /\ Initial \in [Keys -> Nat] /\ \A key \in Addresses : Initial[key] = 0
      /\ \A key \in Keys : Choices[key] \subseteq Nat
  BY GovernorAssumption, FeedsAssumption
<1>3. /\ Hooks \subseteq Addresses /\ Addresses \subseteq Keys /\ "activePPSOracle" \notin Hooks
      /\ "activePPSOracle" \in Addresses
  BY GovernorAssumption DEF Keys, Addresses
<1>4. QED BY <1>1, <1>2, <1>3

(* The list is as long as the set has members.                             *)
LEMMA ListLength ==
  ASSUME IInv
  PROVE  /\ ActiveCount = Cardinality(isProviderSet)
         /\ ActiveCount \in Nat /\ IsFiniteSet(isProviderSet)
<1>1. isProviderSet \in SUBSET Providers /\ IsFiniteSet(Providers)
  BY FeedsAssumption DEF IInv, TypeOK, FeedsTypeOK
<1>2. \A provider \in isProviderSet : activeProviders[provider] = 1
  BY <1>1 DEF IInv, ListIsSet
<1>3. \A provider \in Providers \ isProviderSet : activeProviders[provider] = 0
  BY <1>1 DEF IInv, ListIsSet
<1>4. SumOver(activeProviders, Providers) = Cardinality(isProviderSet) /\ Cardinality(isProviderSet) \in Nat
  BY <1>1, <1>2, <1>3, SumMembers
<1>5. IsFiniteSet(isProviderSet)
  BY <1>1, FS_Subset
<1>6. QED BY <1>4, <1>5 DEF ActiveCount

LEMMA InitInv == Init => IInv
<1> SUFFICES ASSUME Init PROVE IInv
  OBVIOUS
<1> USE DEF Init, FeedsInit
<1>1. PICK update \in Updates :
        /\ oracles = [slot \in Slots |-> IF slot \in DOMAIN update THEN update[slot] ELSE NoFeed]
        /\ isProviderSet = ProvidersOf(update)
        /\ Cardinality(isProviderSet) <= MAX_SAMPLE_PROVIDERS
        /\ feedMaxStaleness =
             [feed \in Feeds |-> IF \E slot \in DOMAIN update : update[slot] = feed
                                 THEN DefaultStaleness ELSE 0]
  OBVIOUS
<1>2. DOMAIN update \subseteq Slots /\ \A slot \in DOMAIN update : update[slot] \in Feeds
  BY DEF Updates, AllUpdates
<1>3. FeedsTypeOK
  <2>0. \A slot \in Slots : slot[2] \in Providers
    BY DEF Slots
  <2>1. isProviderSet \subseteq Providers
    <3> SUFFICES ASSUME NEW provider \in ProvidersOf(update)
                 PROVE  provider \in Providers
      BY <1>1
    <3>1. PICK slot \in DOMAIN update : provider = slot[2]
      BY DEF ProvidersOf
    <3>2. QED BY <1>2, <2>0, <3>1
  <2>2. oracles \in [Slots -> Feeds \cup {NoFeed}]
    BY <1>1, <1>2
  <2>3. pendingUpdate \in [entries : AllUpdates, timestamp : 0 .. now]
    BY ConstantFacts
  <2>4. feedMaxStaleness \in [Feeds -> Nat]
    BY <1>1, FeedsAssumption
  <2>5. QED BY <2>1, <2>2, <2>3, <2>4, FeedsAssumption DEF FeedsTypeOK, NoRemoval
<1>4. TypeOK
  BY <1>3, ConstantFacts DEF TypeOK, NoProposal
<1>5. ListIsSet
  BY <1>1 DEF ListIsSet
<1>6. QueueSound
  BY DEF QueueSound
<1>7. SentinelsAgree
  BY ConstantFacts DEF SentinelsAgree, NoProposal
<1>8. HooksSound
  BY ConstantFacts DEF HooksSound, HookSound, NoProposal
<1>9. QED BY <1>4, <1>5, <1>6, <1>7, <1>8 DEF IInv

-----------------------------------------------------------------------------
(* The parts of the invariant that only the oracle's or only the           *)
(* governor's variables matter to, so that each survives the other's       *)
(* steps.                                                                  *)
FeedsInv == FeedsTypeOK /\ ListIsSet /\ QueueSound

GovernorInv ==
  /\ settings \in [Keys -> Nat]
  /\ pending \in [Keys -> [value : Nat, effectiveTime : Nat]]
  /\ registeredHooks \subseteq Hooks
  /\ registeredAt \in [Hooks -> Nat]
  /\ SentinelsAgree /\ HooksSound

LEMMA Parts == IInv <=> FeedsInv /\ GovernorInv /\ changes \in Nat
BY DEF IInv, TypeOK, FeedsInv, GovernorInv

LEMMA FeedsUntouched ==
  ASSUME FeedsInv, UNCHANGED <<now, feedVars>>
  PROVE  FeedsInv'
BY DEF FeedsInv, FeedsTypeOK, ListIsSet, QueueSound, feedVars, providerVars, limitVars

LEMMA GovernorUntouched ==
  ASSUME GovernorInv, UNCHANGED <<now, governorVars>>
  PROVE  GovernorInv'
BY DEF GovernorInv, SentinelsAgree, HooksSound, HookSound, governorVars

-----------------------------------------------------------------------------
(* The steps of the oracle.                                                *)

LEMMA QueueUpdateStep ==
  ASSUME FeedsInv, NEW update \in Updates, QueueOracleUpdate(update), UNCHANGED now
  PROVE  FeedsInv'
<1>1. update \in AllUpdates /\ now \in Nat \ {0}
  BY DEF Updates, FeedsInv, FeedsTypeOK
<1>2. pendingUpdate' \in [entries : AllUpdates, timestamp : 0 .. now]
  BY <1>1 DEF QueueOracleUpdate
<1>3. FeedsTypeOK'
  BY <1>2 DEF FeedsInv, FeedsTypeOK, QueueOracleUpdate, providerVars, limitVars
<1>4. ListIsSet' /\ QueueSound'
  BY <1>1 DEF FeedsInv, ListIsSet, QueueSound, QueueOracleUpdate, providerVars
<1>5. QED BY <1>3, <1>4 DEF FeedsInv

LEMMA ExecuteUpdateStep ==
  ASSUME IInv, ExecuteOracleUpdate, UNCHANGED now
  PROVE  FeedsInv'
<1> DEFINE update == pendingUpdate.entries
<1>1. /\ DOMAIN update \subseteq Slots /\ \A slot \in DOMAIN update : update[slot] \in Feeds
      /\ isProviderSet \subseteq Providers /\ activeProviders \in [Providers -> Nat]
      /\ oracles \in [Slots -> Feeds \cup {NoFeed}]
  BY DEF IInv, TypeOK, FeedsTypeOK, AllUpdates
<1>2. Added(update) \subseteq Providers /\ Added(update) \cap isProviderSet = {}
  BY <1>1 DEF Added, ProvidersOf, Slots
<1>3. isProviderSet' = isProviderSet \cup Added(update)
  BY DEF ExecuteOracleUpdate, ConfigureOracles
<1>4. \A provider \in Providers :
        activeProviders'[provider] = IF provider \in isProviderSet' THEN 1 ELSE 0
  <2> SUFFICES ASSUME NEW provider \in Providers
               PROVE  activeProviders'[provider] = IF provider \in isProviderSet' THEN 1 ELSE 0
    OBVIOUS
  <2>1. activeProviders'[provider] = activeProviders[provider] + TimesAdded(update, provider)
    BY DEF ExecuteOracleUpdate, ConfigureOracles
  <2>2. activeProviders[provider] = IF provider \in isProviderSet THEN 1 ELSE 0
    BY DEF IInv, ListIsSet
  <2>3. TimesAdded(update, provider) = IF provider \in Added(update) THEN 1 ELSE 0
    BY DEF TimesAdded
  <2>4. QED BY <1>2, <1>3, <2>1, <2>2, <2>3
<1>5. Cardinality(isProviderSet') <= MAX_SAMPLE_PROVIDERS
  <2>1. CASE Added(update) = {}
    BY <1>3, <2>1 DEF IInv, ListIsSet
  <2>2. CASE Added(update) # {}
    <3>1. ActiveCount + Cardinality(Added(update)) <= MAX_SAMPLE_PROVIDERS
      BY <2>2 DEF ExecuteOracleUpdate, ConfigureOracles
    <3>2. IsFiniteSet(isProviderSet) /\ ActiveCount = Cardinality(isProviderSet)
      BY ListLength
    <3>3. IsFiniteSet(Added(update))
      BY <1>2, FeedsAssumption, FS_Subset
    <3>4. Cardinality(isProviderSet \cup Added(update))
            = Cardinality(isProviderSet) + Cardinality(Added(update))
              - Cardinality(isProviderSet \cap Added(update))
      BY <3>2, <3>3, FS_Union
    <3>5. isProviderSet \cap Added(update) = {}
      BY <1>2
    <3>6. Cardinality(isProviderSet \cap Added(update)) = 0
      BY <3>5, FS_EmptySet
    <3>7. Cardinality(isProviderSet) \in Nat /\ Cardinality(Added(update)) \in Nat
      BY <3>2, <3>3, FS_CardinalityType
    <3>8. QED BY <1>3, <3>1, <3>2, <3>4, <3>6, <3>7
  <2>3. QED BY <2>1, <2>2
<1>6. activeProviders' \in [Providers -> Nat]
  <2>1. \A provider \in Providers : activeProviders[provider] + TimesAdded(update, provider) \in Nat
    BY <1>1 DEF TimesAdded
  <2>2. QED BY <2>1 DEF ExecuteOracleUpdate, ConfigureOracles
<1>7. FeedsTypeOK'
  <2>1. oracles' \in [Slots -> Feeds \cup {NoFeed}]
    BY <1>1 DEF ExecuteOracleUpdate, ConfigureOracles
  <2>2. pendingUpdate' \in [entries : AllUpdates, timestamp : 0 .. now]
    BY ConstantFacts DEF ExecuteOracleUpdate, IInv, TypeOK, FeedsTypeOK
  <2>3. isProviderSet' \subseteq Providers
    BY <1>1, <1>2, <1>3
  <2>4. QED
    BY <1>6, <2>1, <2>2, <2>3 DEF ExecuteOracleUpdate, IInv, TypeOK, FeedsTypeOK, limitVars
<1>8. QueueSound'
  BY DEF QueueSound, ExecuteOracleUpdate
<1>9. QED BY <1>4, <1>5, <1>7, <1>8 DEF FeedsInv, ListIsSet

LEMMA QueueRemovalStep ==
  ASSUME FeedsInv, NEW providers \in SUBSET Providers, QueueProviderRemoval(providers), UNCHANGED now
  PROVE  FeedsInv'
<1>1. pendingRemoval' \in [providers : SUBSET Providers, timestamp : 0 .. now]
  BY DEF QueueProviderRemoval, FeedsInv, FeedsTypeOK
<1>2. QED
  BY <1>1
  DEF FeedsInv, FeedsTypeOK, ListIsSet, QueueSound, QueueProviderRemoval, providerVars, limitVars

LEMMA RemovalStep ==
  ASSUME IInv, ExecuteProviderRemoval, UNCHANGED now
  PROVE  FeedsInv'
<1> DEFINE removed == pendingRemoval.providers
<1>1. /\ isProviderSet \subseteq Providers /\ activeProviders \in [Providers -> Nat]
      /\ now \in Nat \ {0}
  BY DEF IInv, TypeOK, FeedsTypeOK
<1>2. isProviderSet' = isProviderSet \ removed
  BY DEF ExecuteProviderRemoval
<1>3. \A provider \in Providers :
        activeProviders'[provider] = IF provider \in isProviderSet' THEN 1 ELSE 0
  <2> SUFFICES ASSUME NEW provider \in Providers
               PROVE  activeProviders'[provider] = IF provider \in isProviderSet' THEN 1 ELSE 0
    OBVIOUS
  <2>1. activeProviders'[provider] =
          IF provider \in removed /\ activeProviders[provider] > 0
          THEN activeProviders[provider] - 1 ELSE activeProviders[provider]
    BY DEF ExecuteProviderRemoval
  <2>2. activeProviders[provider] = IF provider \in isProviderSet THEN 1 ELSE 0
    BY DEF IInv, ListIsSet
  <2>3. QED BY <1>2, <2>1, <2>2
<1>4. IsFiniteSet(isProviderSet)
  BY ListLength
<1>5. Cardinality(isProviderSet') <= MAX_SAMPLE_PROVIDERS
  <2>1. isProviderSet' \subseteq isProviderSet
    BY <1>2
  <2>2. /\ Cardinality(isProviderSet') <= Cardinality(isProviderSet)
        /\ Cardinality(isProviderSet) \in Nat
        /\ Cardinality(isProviderSet') \in Nat
    BY <1>4, <2>1, FS_Subset, FS_CardinalityType
  <2>3. QED BY <2>2, FeedsAssumption DEF IInv, ListIsSet
<1>6. activeProviders' \in [Providers -> Nat]
  <2>1. activeProviders' =
          [provider \in Providers |->
             IF provider \in removed /\ activeProviders[provider] > 0
             THEN activeProviders[provider] - 1 ELSE activeProviders[provider]]
    BY DEF ExecuteProviderRemoval
  <2>2. \A provider \in Providers :
          (IF provider \in removed /\ activeProviders[provider] > 0
           THEN activeProviders[provider] - 1 ELSE activeProviders[provider]) \in Nat
    BY <1>1
  <2>3. QED BY <2>1, <2>2
<1>7. pendingRemoval' \in [providers : SUBSET Providers, timestamp : 0 .. now]
  BY <1>1 DEF ExecuteProviderRemoval, NoRemoval
<1>8. FeedsTypeOK'
  BY <1>2, <1>6, <1>7 DEF ExecuteProviderRemoval, IInv, TypeOK, FeedsTypeOK, limitVars
<1>9. QueueSound'
  BY DEF IInv, QueueSound, ExecuteProviderRemoval
<1>10. QED BY <1>3, <1>5, <1>8, <1>9 DEF FeedsInv, ListIsSet

LEMMA CancelRemovalStep ==
  ASSUME FeedsInv, CancelProviderRemoval, UNCHANGED now
  PROVE  FeedsInv'
<1>1. pendingRemoval' \in [providers : SUBSET Providers, timestamp : 0 .. now]
  BY DEF CancelProviderRemoval, NoRemoval, FeedsInv, FeedsTypeOK
<1>2. QED
  BY <1>1
  DEF FeedsInv, FeedsTypeOK, ListIsSet, QueueSound, CancelProviderRemoval, providerVars, limitVars

LEMMA StalenessStep ==
  ASSUME FeedsInv, Staleness, UNCHANGED now
  PROVE  FeedsInv'
<1>1. defaultStaleness \in Nat /\ feedMaxStaleness \in [Feeds -> Nat] /\ Limits \subseteq Nat
  BY ConstantFacts DEF FeedsInv, FeedsTypeOK
<1>2. /\ defaultStaleness' \in Nat /\ feedMaxStaleness' \in [Feeds -> Nat]
      /\ UNCHANGED <<providerVars, pendingUpdate, pendingRemoval>>
  BY <1>1 DEF Staleness, SetDefaultStaleness, SetFeedMaxStaleness
<1>3. QED BY <1>2 DEF FeedsInv, FeedsTypeOK, ListIsSet, QueueSound, providerVars

-----------------------------------------------------------------------------
(* The steps of the governor.                                              *)

LEMMA ProposeStep ==
  ASSUME GovernorInv, now \in Nat, NEW key \in Keys, NEW value \in Choices[key],
         Propose(key, value), UNCHANGED now
  PROVE  GovernorInv'
<1> USE DEF GovernorInv
<1>1. value \in Nat /\ now + TIMELOCK \in Nat \ {0}
  BY ConstantFacts
<1>2. pending' = [pending EXCEPT ![key] = [value |-> value, effectiveTime |-> now + TIMELOCK]]
  BY DEF Propose
<1>3. pending' \in [Keys -> [value : Nat, effectiveTime : Nat]]
  BY <1>1, <1>2
<1>4. \A k \in Keys : k # key => pending'[k] = pending[k]
  BY <1>2
<1>5. pending'[key].value = value /\ pending'[key].effectiveTime = now + TIMELOCK
  BY <1>2
<1>6. SentinelsAgree'
  BY <1>1, <1>4, <1>5, ConstantFacts DEF SentinelsAgree, Propose, Acceptable
<1>7. ASSUME NEW hook \in Hooks
      PROVE  HookSound(hook)'
  <2>1. HookSound(hook) /\ registeredAt[hook] \in Nat
    BY DEF HooksSound
  <2>2. CASE hook = key
    <3>1. hook \in registeredHooks
      BY <2>2 DEF Propose, Acceptable
    <3>2. /\ pending'[hook].effectiveTime >= registeredAt[hook] + TIMELOCK
          /\ pending'[hook].value # 0
      BY <1>1, <1>5, <2>1, <2>2, ConstantFacts DEF HookSound, Propose, Acceptable
    <3>3. QED BY <2>1, <3>1, <3>2 DEF HookSound, Propose
  <2>3. CASE hook # key
    BY <1>4, <2>1, <2>3, ConstantFacts DEF HookSound, Propose
  <2>4. QED BY <2>2, <2>3
<1>8. QED BY <1>3, <1>6, <1>7 DEF HooksSound, Propose

LEMMA ExecuteStep ==
  ASSUME GovernorInv, now \in Nat, NEW key \in Keys, Execute(key), UNCHANGED now
  PROVE  GovernorInv'
<1> USE DEF GovernorInv
<1>1. /\ settings' = [settings EXCEPT ![key] = pending[key].value]
      /\ pending' = [pending EXCEPT ![key] = NoProposal]
      /\ UNCHANGED <<registeredHooks, registeredAt>>
  BY DEF Execute
<1>2. settings' \in [Keys -> Nat]
  BY <1>1
<1>3. pending' \in [Keys -> [value : Nat, effectiveTime : Nat]]
  BY <1>1 DEF NoProposal
<1>4. \A k \in Keys : k # key => pending'[k] = pending[k] /\ settings'[k] = settings[k]
  BY <1>1
<1>5. pending'[key] = NoProposal /\ settings'[key] = pending[key].value
  BY <1>1
<1>6. SentinelsAgree'
  BY <1>4, <1>5, ConstantFacts DEF SentinelsAgree, NoProposal
<1>7. ASSUME NEW hook \in Hooks
      PROVE  HookSound(hook)'
  <2>1. HookSound(hook) /\ registeredAt[hook] \in Nat /\ hook \in Keys /\ hook \in Addresses
    BY ConstantFacts DEF HooksSound
  <2>2. CASE hook = key
    <3>1. /\ hook \in registeredHooks
          /\ pending[hook].value # 0 /\ now >= pending[hook].effectiveTime
      BY <2>1, <2>2 DEF Execute, IsDue, NothingProposed
    <3>2. pending[hook].effectiveTime \in Nat
      BY <2>1
    <3>3. now >= registeredAt[hook] + TIMELOCK
      BY <2>1, <3>1, <3>2, ConstantFacts DEF HookSound
    <3>4. pending'[hook].value = 0
      BY <1>5, <2>2 DEF NoProposal
    <3>5. QED BY <1>1, <2>1, <3>1, <3>3, <3>4 DEF HookSound
  <2>3. CASE hook # key
    BY <1>1, <1>4, <2>1, <2>3 DEF HookSound
  <2>4. QED BY <2>2, <2>3
<1>8. QED BY <1>1, <1>2, <1>3, <1>6, <1>7 DEF HooksSound

LEMMA SetOracleStep ==
  ASSUME GovernorInv, NEW oracle \in Choices["activePPSOracle"],
         SetActivePPSOracle(oracle), UNCHANGED now
  PROVE  GovernorInv'
<1>1. oracle \in Nat
  BY ConstantFacts
<1>2. /\ settings' \in [Keys -> Nat]
      /\ \A hook \in Hooks : settings'[hook] = settings[hook]
      /\ UNCHANGED <<pending, registeredHooks, registeredAt>>
  BY <1>1, ConstantFacts DEF SetActivePPSOracle, GovernorInv
<1>3. QED BY <1>2 DEF GovernorInv, SentinelsAgree, HooksSound, HookSound

LEMMA RegisterStep ==
  ASSUME GovernorInv, now \in Nat, NEW hook \in Hooks, RegisterHook(hook), UNCHANGED now
  PROVE  GovernorInv'
<1> USE DEF GovernorInv
<1>1. /\ registeredHooks' = registeredHooks \cup {hook}
      /\ registeredAt' = [registeredAt EXCEPT ![hook] = now]
      /\ UNCHANGED <<settings, pending>>
  BY DEF RegisterHook
<1>2. registeredHooks' \subseteq Hooks /\ registeredAt' \in [Hooks -> Nat]
  BY <1>1
<1>3. ASSUME NEW h \in Hooks
      PROVE  HookSound(h)'
  <2>1. HookSound(h)
    BY DEF HooksSound
  <2>2. CASE h = hook
    BY <1>1, <2>1, <2>2 DEF HookSound, RegisterHook
  <2>3. CASE h # hook
    BY <1>1, <2>1, <2>3 DEF HookSound
  <2>4. QED BY <2>2, <2>3
<1>4. QED BY <1>1, <1>2, <1>3 DEF HooksSound, SentinelsAgree

LEMMA UnregisterStep ==
  ASSUME GovernorInv, NEW hook \in Hooks, UnregisterHook(hook), UNCHANGED now
  PROVE  GovernorInv'
<1> USE DEF GovernorInv
<1>1. /\ registeredHooks' = registeredHooks \ {hook}
      /\ settings' = [settings EXCEPT ![hook] = 0]
      /\ pending' = [pending EXCEPT ![hook] = NoProposal]
      /\ UNCHANGED registeredAt
  BY DEF UnregisterHook, PendingWithout
<1>2. hook \in Keys
  BY ConstantFacts
<1>3. /\ settings' \in [Keys -> Nat]
      /\ pending' \in [Keys -> [value : Nat, effectiveTime : Nat]]
  BY <1>1 DEF NoProposal
<1>4. SentinelsAgree'
  BY <1>1, ConstantFacts DEF SentinelsAgree, NoProposal
<1>5. ASSUME NEW h \in Hooks
      PROVE  HookSound(h)'
  <2>1. HookSound(h) /\ h \in Keys
    BY ConstantFacts DEF HooksSound
  <2>2. CASE h = hook
    BY <1>1, <1>2, <2>1, <2>2 DEF HookSound, NoProposal
  <2>3. CASE h # hook
    BY <1>1, <2>1, <2>3 DEF HookSound
  <2>4. QED BY <2>2, <2>3
<1>6. QED BY <1>1, <1>3, <1>4, <1>5 DEF HooksSound

LEMMA TickStep ==
  ASSUME IInv, Tick
  PROVE  IInv'
<1>1. now \in Nat \ {0} /\ now' = now + 1 /\ UNCHANGED <<feedVars, governorVars, changes>>
  BY DEF Tick, IInv, TypeOK, FeedsTypeOK
<1>2. /\ pendingUpdate \in [entries : AllUpdates, timestamp : 0 .. now']
      /\ pendingRemoval \in [providers : SUBSET Providers, timestamp : 0 .. now']
  <2>1. 0 .. now \subseteq 0 .. now'
    BY <1>1
  <2>2. QED BY <2>1 DEF IInv, TypeOK, FeedsTypeOK
<1>3. FeedsInv'
  BY <1>1, <1>2
  DEF IInv, TypeOK, FeedsInv, FeedsTypeOK, ListIsSet, QueueSound, feedVars, providerVars, limitVars
<1>4. ASSUME NEW hook \in Hooks
      PROVE  HookSound(hook)'
  <2>1. HookSound(hook) /\ registeredAt[hook] \in Nat
    BY DEF IInv, TypeOK, HooksSound
  <2>2. QED BY <1>1, <2>1, ConstantFacts DEF HookSound, governorVars
<1>5. GovernorInv' /\ changes' \in Nat
  BY <1>1, <1>4 DEF IInv, TypeOK, GovernorInv, SentinelsAgree, HooksSound, governorVars
<1>6. QED BY <1>3, <1>5, Parts DEF IInv, TypeOK, FeedsInv, GovernorInv

-----------------------------------------------------------------------------
(* Every step keeps both parts.                                            *)
LEMMA NextInv ==
  ASSUME IInv, [Next]_vars
  PROVE  IInv'
<1>1. FeedsInv /\ GovernorInv /\ changes \in Nat /\ now \in Nat
  BY Parts DEF FeedsInv, FeedsTypeOK
<1>2. CASE Tick
  BY <1>2, TickStep
<1>3. ASSUME FeedsInv', UNCHANGED <<now, governorVars>>, changes' \in Nat
      PROVE  IInv'
  BY <1>1, <1>3, GovernorUntouched DEF IInv, TypeOK, FeedsInv, GovernorInv
<1>4. ASSUME GovernorInv', UNCHANGED <<now, feedVars>>, changes' \in Nat
      PROVE  IInv'
  BY <1>1, <1>4, FeedsUntouched DEF IInv, TypeOK, FeedsInv, GovernorInv
<1>5. CASE Proposing /\ UNCHANGED now
  <2>1. ASSUME NEW key \in Keys, NEW value \in Choices[key], Propose(key, value)
        PROVE  IInv'
    BY <1>1, <1>4, <1>5, <2>1, ProposeStep DEF Propose
  <2>2. ASSUME NEW update \in Updates, QueueUpdate(update)
        PROVE  IInv'
    BY <1>1, <1>3, <1>5, <2>2, QueueUpdateStep DEF QueueUpdate
  <2>3. ASSUME NEW providers \in SUBSET Providers, QueueRemoval(providers)
        PROVE  IInv'
    BY <1>1, <1>3, <1>5, <2>3, QueueRemovalStep DEF QueueRemoval
  <2>4. QED BY <1>5, <2>1, <2>2, <2>3 DEF Proposing
<1>6. CASE Executing /\ UNCHANGED now
  <2>1. ASSUME NEW key \in Keys, Execute(key)
        PROVE  IInv'
    <3>1. GovernorInv'
      BY <1>1, <1>6, <2>1, ExecuteStep
    <3>2. UNCHANGED feedVars /\ changes' \in Nat
      BY <1>1, <2>1 DEF Execute
    <3>3. QED BY <1>4, <1>6, <3>1, <3>2
  <2>2. CASE ExecuteUpdate
    <3>1. FeedsInv'
      BY <1>6, <2>2, ExecuteUpdateStep DEF ExecuteUpdate
    <3>2. UNCHANGED governorVars /\ changes' \in Nat
      BY <1>1, <2>2 DEF ExecuteUpdate
    <3>3. QED BY <1>3, <1>6, <3>1, <3>2
  <2>3. CASE ExecuteRemoval
    <3>1. FeedsInv'
      BY <1>6, <2>3, RemovalStep DEF ExecuteRemoval
    <3>2. UNCHANGED governorVars /\ changes' \in Nat
      BY <1>1, <2>3 DEF ExecuteRemoval
    <3>3. QED BY <1>3, <1>6, <3>1, <3>2
  <2>4. CASE Staleness
    <3>1. FeedsInv'
      BY <1>1, <1>6, <2>4, StalenessStep
    <3>2. UNCHANGED governorVars /\ changes' \in Nat
      BY <1>1, <2>4 DEF Staleness
    <3>3. QED BY <1>3, <1>6, <3>1, <3>2
  <2>5. QED BY <1>6, <2>1, <2>2, <2>3, <2>4 DEF Executing
<1>7. CASE Deciding /\ UNCHANGED now
  <2>1. ASSUME NEW oracle \in Choices["activePPSOracle"], SetActivePPSOracle(oracle)
        PROVE  IInv'
    <3>1. GovernorInv'
      BY <1>1, <1>7, <2>1, SetOracleStep
    <3>2. QED BY <1>1, <1>4, <1>7, <2>1, <3>1 DEF SetActivePPSOracle
  <2>2. ASSUME NEW hook \in Hooks, RegisterHook(hook)
        PROVE  IInv'
    <3>1. GovernorInv'
      BY <1>1, <1>7, <2>2, RegisterStep
    <3>2. QED BY <1>1, <1>4, <1>7, <2>2, <3>1 DEF RegisterHook
  <2>3. ASSUME NEW hook \in Hooks, UnregisterHook(hook)
        PROVE  IInv'
    <3>1. GovernorInv'
      BY <1>1, <1>7, <2>3, UnregisterStep
    <3>2. QED BY <1>1, <1>4, <1>7, <2>3, <3>1 DEF UnregisterHook
  <2>4. CASE CancelRemoval
    <3>1. FeedsInv'
      BY <1>1, <1>7, <2>4, CancelRemovalStep DEF CancelRemoval
    <3>2. QED BY <1>1, <1>3, <1>7, <2>4, <3>1 DEF CancelRemoval
  <2>5. QED BY <1>7, <2>1, <2>2, <2>3, <2>4 DEF Deciding
<1>8. CASE UNCHANGED vars
  <2>1. UNCHANGED <<now, feedVars>> /\ UNCHANGED <<now, governorVars>> /\ UNCHANGED changes
    BY <1>8 DEF vars
  <2>2. FeedsInv'
    BY <1>1, <2>1, FeedsUntouched
  <2>3. QED BY <1>1, <1>3, <2>1, <2>2
<1>9. QED BY <1>2, <1>5, <1>6, <1>7, <1>8 DEF Next

(* The invariant holds in every behaviour.                                 *)
THEOREM Invariance == Spec => []IInv
<1>1. Init => IInv
  BY InitInv
<1>2. IInv /\ [Next]_vars => IInv'
  BY NextInv
<1>3. QED BY <1>1, <1>2, PTL DEF Spec

(* Every variable keeps to its range.                                      *)
THEOREM TypeCorrect == Spec => []TypeOK
<1>1. IInv => TypeOK
  BY DEF IInv
<1>2. QED BY <1>1, Invariance, PTL

(* SuperBank executes hooks that have been registered for the time lock.   *)
THEOREM HooksHaveWaited == Spec => []HooksWaitTheirTime
<1>1. IInv => HooksWaitTheirTime
  BY DEF IInv, HooksSound, HookSound, HooksWaitTheirTime, BankMayExecute
<1>2. QED BY <1>1, Invariance, PTL

(* Averages ask every provider once, and only providers that are set.      *)
THEOREM ProvidersCountOnce == Spec => []EachProviderCountsOnce
<1>1. IInv => EachProviderCountsOnce
  <2> SUFFICES ASSUME IInv PROVE EachProviderCountsOnce
    OBVIOUS
  <2>1. ActiveCount <= MAX_SAMPLE_PROVIDERS
    BY ListLength DEF IInv, ListIsSet
  <2>2. ASSUME NEW pair \in Pairs, NEW provider \in Providers
        PROVE  Sampled(pair)[provider] = IF Quotes(pair, provider) THEN 1 ELSE 0
    BY DEF IInv, ListIsSet, Sampled, Quotes
  <2>3. QED BY <2>1, <2>2 DEF EachProviderCountsOnce
<1>2. QED BY <1>1, Invariance, PTL

-----------------------------------------------------------------------------
(* The time locks.                                                         *)

(* What a step can do to the settings, to the oracle's feeds and to its    *)
(* providers.                                                              *)
LEMMA StepKinds ==
  ASSUME [Next]_vars
  PROVE  \/ UNCHANGED <<settings, pending, oracles, isProviderSet, pendingUpdate>>
         \/ \E key \in Keys : \E value \in Choices[key] : Propose(key, value)
         \/ \E key \in Keys : Execute(key)
         \/ \E oracle \in Choices["activePPSOracle"] : SetActivePPSOracle(oracle)
         \/ \E hook \in Hooks : UnregisterHook(hook)
         \/ \E update \in Updates : QueueUpdate(update) /\ UNCHANGED now
         \/ ExecuteUpdate
         \/ ExecuteRemoval
<1>1. CASE Tick \/ UNCHANGED vars
  BY <1>1 DEF Tick, vars, feedVars, providerVars, governorVars
<1>2. CASE Proposing /\ UNCHANGED now
  <2>1. ASSUME NEW providers \in SUBSET Providers, QueueRemoval(providers)
        PROVE  UNCHANGED <<settings, pending, oracles, isProviderSet, pendingUpdate>>
    BY <2>1 DEF QueueRemoval, QueueProviderRemoval, providerVars, governorVars
  <2>2. QED BY <1>2, <2>1 DEF Proposing
<1>3. CASE Executing
  <2>1. ASSUME Staleness
        PROVE  UNCHANGED <<settings, pending, oracles, isProviderSet, pendingUpdate>>
    BY <2>1 DEF Staleness, SetDefaultStaleness, SetFeedMaxStaleness, providerVars, governorVars
  <2>2. QED BY <1>3, <2>1 DEF Executing
<1>4. CASE Deciding
  <2>1. ASSUME NEW hook \in Hooks, RegisterHook(hook)
        PROVE  UNCHANGED <<settings, pending, oracles, isProviderSet, pendingUpdate>>
    BY <2>1 DEF RegisterHook, feedVars, providerVars
  <2>2. ASSUME CancelRemoval
        PROVE  UNCHANGED <<settings, pending, oracles, isProviderSet, pendingUpdate>>
    BY <2>2 DEF CancelRemoval, CancelProviderRemoval, providerVars, governorVars
  <2>3. QED BY <1>4, <2>1, <2>2 DEF Deciding
<1>5. QED BY <1>1, <1>2, <1>3, <1>4 DEF Next

(* A parameter or a root is proposed, enacted, dropped with its hook, or   *)
(* left alone; or it is the first oracle.                                  *)
LEMMA ParameterStep ==
  ASSUME IInv, [Next]_vars, NEW key \in Keys
  PROVE  ParameterLock(key)!Step \/ FirstOracleSet(key) \/ RootRemoved(key)
<1> USE DEF ParameterLock!Step, ParameterLock!Next, ParameterLock!Propose, ParameterLock!Withdraw,
            ParameterLock!Enact, ParameterLock!Overrule, ParameterLock!OnDisplay
<1>1. /\ settings \in [Keys -> Nat] /\ now \in Nat
      /\ pending \in [Keys -> [value : Nat, effectiveTime : Nat]]
  BY DEF IInv, TypeOK, FeedsTypeOK
<1>2. CASE UNCHANGED <<settings, pending>>
  BY <1>2
<1>3. ASSUME NEW k \in Keys, NEW value \in Choices[k], Propose(k, value)
      PROVE  ParameterLock(key)!Step
  <2>1. /\ pending' = [pending EXCEPT ![k] = [value |-> value, effectiveTime |-> now + TIMELOCK]]
        /\ UNCHANGED settings
    BY <1>3 DEF Propose
  <2>2. CASE k = key
    BY <1>1, <2>1, <2>2
  <2>3. CASE k # key
    BY <1>1, <2>1, <2>3
  <2>4. QED BY <2>2, <2>3
<1>4. ASSUME NEW k \in Keys, Execute(k)
      PROVE  ParameterLock(key)!Step
  <2>1. /\ settings' = [settings EXCEPT ![k] = pending[k].value]
        /\ pending' = [pending EXCEPT ![k] = NoProposal]
        /\ ~NothingProposed(k) /\ now >= pending[k].effectiveTime
    BY <1>4 DEF Execute, IsDue
  <2>2. pending[k].effectiveTime > 0
    BY <1>1, <2>1 DEF NothingProposed, IInv, SentinelsAgree
  <2>3. CASE k = key
    BY <1>1, <2>1, <2>2, <2>3 DEF NoProposal
  <2>4. CASE k # key
    BY <1>1, <2>1, <2>4
  <2>5. QED BY <2>3, <2>4
<1>5. ASSUME NEW oracle \in Choices["activePPSOracle"], SetActivePPSOracle(oracle)
      PROVE  ParameterLock(key)!Step \/ FirstOracleSet(key)
  <2>1. /\ settings["activePPSOracle"] = 0 /\ UNCHANGED pending
        /\ settings' = [settings EXCEPT !["activePPSOracle"] = oracle]
    BY <1>5 DEF SetActivePPSOracle
  <2>2. CASE key = "activePPSOracle"
    BY <1>1, <2>1, <2>2 DEF FirstOracleSet
  <2>3. CASE key # "activePPSOracle"
    BY <1>1, <2>1, <2>3
  <2>4. QED BY <2>2, <2>3
<1>6. ASSUME NEW hook \in Hooks, UnregisterHook(hook)
      PROVE  ParameterLock(key)!Step \/ RootRemoved(key)
  <2>1. /\ settings' = [settings EXCEPT ![hook] = 0]
        /\ pending' = [pending EXCEPT ![hook] = NoProposal]
        /\ hook \in registeredHooks /\ registeredHooks' = registeredHooks \ {hook}
    BY <1>6 DEF UnregisterHook, PendingWithout
  <2>2. CASE hook = key
    BY <1>1, <2>1, <2>2 DEF RootRemoved
  <2>3. CASE hook # key
    BY <1>1, <2>1, <2>3
  <2>4. QED BY <2>2, <2>3
<1>7. (ExecuteUpdate \/ ExecuteRemoval \/ \E update \in Updates : QueueUpdate(update))
        => UNCHANGED <<settings, pending>>
  BY DEF ExecuteUpdate, ExecuteRemoval, QueueUpdate, governorVars
<1>8. QED BY <1>2, <1>3, <1>4, <1>5, <1>6, <1>7, StepKinds

(* A feed is announced, installed when it was, or left alone.              *)
LEMMA FeedStep ==
  ASSUME IInv, [Next]_vars, NEW slot \in Slots
  PROVE  FeedLock(slot)!Step
<1> USE DEF FeedLock!Step, FeedLock!Next, FeedLock!Propose, FeedLock!Withdraw,
            FeedLock!Enact, FeedLock!OnDisplay, SlotQueued
<1>1. /\ now \in Nat \ {0} /\ TIMELOCK_PERIOD \in Nat
      /\ oracles \in [Slots -> Feeds \cup {NoFeed}]
      /\ pendingUpdate \in [entries : AllUpdates, timestamp : 0 .. now]
      /\ pendingUpdate.timestamp \in Nat
  BY ConstantFacts DEF IInv, TypeOK, FeedsTypeOK
<1>2. CASE UNCHANGED <<oracles, pendingUpdate>>
  BY <1>2
<1>3. ASSUME NEW update \in Updates, QueueUpdate(update), UNCHANGED now
      PROVE  FeedLock(slot)!Step
  <2>1. pendingUpdate' = [entries |-> update, timestamp |-> now] /\ UNCHANGED oracles
    BY <1>3 DEF QueueUpdate, QueueOracleUpdate, providerVars
  <2>2. pendingUpdate'.entries = update /\ pendingUpdate'.timestamp = now
    BY <2>1
  <2>3. CASE slot \in DOMAIN update
    BY <2>1, <2>2, <2>3
  <2>4. CASE slot \notin DOMAIN update
    BY <2>1, <2>2, <2>4
  <2>5. QED BY <2>3, <2>4
<1>4. CASE ExecuteUpdate
  <2>1. /\ pendingUpdate.timestamp # 0 /\ now >= pendingUpdate.timestamp + TIMELOCK_PERIOD
        /\ oracles' = [s \in Slots |-> IF s \in DOMAIN pendingUpdate.entries
                                       THEN pendingUpdate.entries[s] ELSE oracles[s]]
        /\ pendingUpdate' = NoUpdate
    BY <1>4 DEF ExecuteUpdate, ExecuteOracleUpdate, UpdateIsDue, ConfigureOracles
  <2>2. slot \notin DOMAIN pendingUpdate'.entries
    BY <2>1 DEF NoUpdate
  <2>3. CASE slot \in DOMAIN pendingUpdate.entries
    BY <1>1, <2>1, <2>2, <2>3
  <2>4. CASE slot \notin DOMAIN pendingUpdate.entries
    BY <2>1, <2>2, <2>4
  <2>5. QED BY <2>3, <2>4
<1>5. ExecuteRemoval => UNCHANGED <<oracles, pendingUpdate>>
  BY DEF ExecuteRemoval, ExecuteProviderRemoval
<1>6. ((\E key \in Keys : \E value \in Choices[key] : Propose(key, value))
         \/ (\E key \in Keys : Execute(key))
         \/ (\E oracle \in Choices["activePPSOracle"] : SetActivePPSOracle(oracle))
         \/ (\E hook \in Hooks : UnregisterHook(hook))) => UNCHANGED feedVars
  BY DEF Propose, Execute, SetActivePPSOracle, UnregisterHook
<1>7. UNCHANGED feedVars => UNCHANGED <<oracles, pendingUpdate>>
  BY DEF feedVars, providerVars
<1>8. QED BY <1>2, <1>3, <1>4, <1>5, <1>6, <1>7, StepKinds

(* Every parameter of the governor, every root and every feed of the       *)
(* oracle is a time-locked parameter, whatever the time locks and the      *)
(* choices; only the first oracle and the removal of a hook are immediate. *)
THEOREM TimeLocksHold == Spec => ParametersTimelocked
<1>1. Init => /\ \A key \in Keys : ParameterLock(key)!Init
              /\ \A slot \in Slots : FeedLock(slot)!Init
  BY DEF Init, FeedsInit, NoProposal, NoUpdate, ParameterLock!Init, ParameterLock!OnDisplay,
         FeedLock!Init, FeedLock!OnDisplay, SlotQueued
<1>2. IInv /\ [Next]_vars =>
        [/\ \A key \in Keys :
               ParameterLock(key)!Step \/ FirstOracleSet(key) \/ RootRemoved(key)
         /\ \A slot \in Slots : FeedLock(slot)!Step]_vars
  BY ParameterStep, FeedStep
<1>3. QED BY <1>1, <1>2, Invariance, PTL DEF Spec, ParametersTimelocked

-----------------------------------------------------------------------------
(* Feeds and their limits.                                                 *)

LEMMA ReturnStep ==
  ASSUME IInv, [Next]_vars, NEW pair \in Pairs, NEW provider \in Providers,
         ~Quotes(pair, provider), Quotes(pair, provider)'
  PROVE  /\ pendingUpdate.timestamp \in 1 .. now
         /\ now >= pendingUpdate.timestamp + TIMELOCK_PERIOD
         /\ provider \in ProvidersOf(pendingUpdate.entries)
<1>1. /\ now \in Nat \ {0} /\ pendingUpdate.timestamp \in 0 .. now
      /\ <<pair, provider>> \in Slots
  BY DEF IInv, TypeOK, FeedsTypeOK, Slots
<1>2. ~UNCHANGED <<oracles, isProviderSet>>
  BY DEF Quotes
<1>3. ((\E key \in Keys : \E value \in Choices[key] : Propose(key, value))
         \/ (\E key \in Keys : Execute(key))
         \/ (\E oracle \in Choices["activePPSOracle"] : SetActivePPSOracle(oracle))
         \/ (\E hook \in Hooks : UnregisterHook(hook))) => UNCHANGED feedVars
  BY DEF Propose, Execute, SetActivePPSOracle, UnregisterHook
<1>4. UNCHANGED feedVars => UNCHANGED <<oracles, isProviderSet>>
  BY DEF feedVars, providerVars
<1>5. (\E update \in Updates : QueueUpdate(update)) => UNCHANGED <<oracles, isProviderSet>>
  BY DEF QueueUpdate, QueueOracleUpdate, providerVars
<1>6. ~ExecuteRemoval
  BY DEF ExecuteRemoval, ExecuteProviderRemoval, Quotes
<1>7. ExecuteUpdate
  BY <1>2, <1>3, <1>4, <1>5, <1>6, StepKinds
<1>8. /\ pendingUpdate.timestamp # 0 /\ now >= pendingUpdate.timestamp + TIMELOCK_PERIOD
      /\ isProviderSet' = isProviderSet \cup Added(pendingUpdate.entries)
      /\ oracles' = [s \in Slots |-> IF s \in DOMAIN pendingUpdate.entries
                                     THEN pendingUpdate.entries[s] ELSE oracles[s]]
  BY <1>7 DEF ExecuteUpdate, ExecuteOracleUpdate, UpdateIsDue, ConfigureOracles
<1>9. provider \in ProvidersOf(pendingUpdate.entries)
  <2>1. CASE provider \in isProviderSet
    <3>1. <<pair, provider>> \in DOMAIN pendingUpdate.entries
      BY <1>1, <1>8, <2>1 DEF Quotes
    <3>2. QED BY <3>1 DEF ProvidersOf
  <2>2. CASE provider \notin isProviderSet
    BY <1>8, <2>2 DEF Quotes, Added
  <2>3. QED BY <2>1, <2>2
<1>10. QED BY <1>1, <1>8, <1>9

(* A feed begins to quote only by an announced update of its provider.     *)
THEOREM FeedsAnnounced == Spec => FeedsReturnAnnounced
<1>1. IInv /\ [Next]_vars =>
        [\A pair \in Pairs, provider \in Providers :
           ~Quotes(pair, provider) /\ Quotes(pair, provider)' =>
             /\ pendingUpdate.timestamp \in 1 .. now
             /\ now >= pendingUpdate.timestamp + TIMELOCK_PERIOD
             /\ provider \in ProvidersOf(pendingUpdate.entries)]_vars
  BY ReturnStep
<1>2. QED BY <1>1, Invariance, PTL DEF Spec, FeedsReturnAnnounced

LEMMA LimitStep ==
  ASSUME IInv, [Next]_vars, NEW feed \in Feeds, LimitOf(feed)' < LimitOf(feed)
  PROVE  LimitOf(feed)' >= settings["minStaleness"]
<1>1. /\ defaultStaleness \in Nat /\ feedMaxStaleness \in [Feeds -> Nat]
      /\ settings["minStaleness"] \in Nat /\ Limits \subseteq Nat
  BY ConstantFacts DEF IInv, TypeOK, FeedsTypeOK, Keys
<1>2. LimitOf(feed) \in Nat
  BY <1>1 DEF LimitOf
<1>3. ~UNCHANGED limitVars
  BY <1>2 DEF LimitOf, limitVars
<1>4. Staleness
  <2>1. ~Tick /\ ~UNCHANGED vars
    BY <1>3 DEF Tick, vars, feedVars
  <2>2. ~Proposing
    BY <1>3 DEF Proposing, Propose, QueueUpdate, QueueOracleUpdate, QueueRemoval,
                QueueProviderRemoval, feedVars
  <2>3. ~((\E key \in Keys : Execute(key)) \/ ExecuteUpdate \/ ExecuteRemoval)
    BY <1>3 DEF Execute, ExecuteUpdate, ExecuteOracleUpdate, ExecuteRemoval,
                ExecuteProviderRemoval, feedVars
  <2>4. ~Deciding
    BY <1>3 DEF Deciding, SetActivePPSOracle, RegisterHook, UnregisterHook, CancelRemoval,
                CancelProviderRemoval, feedVars
  <2>5. QED BY <2>1, <2>2, <2>3, <2>4 DEF Next, Executing
<1>5. ASSUME NEW limit \in Limits, NotTooLow(limit), SetDefaultStaleness(limit)
      PROVE  LimitOf(feed)' >= settings["minStaleness"]
  <2>1. defaultStaleness' = limit /\ feedMaxStaleness' = feedMaxStaleness /\ limit \in Nat
    BY <1>1, <1>5 DEF SetDefaultStaleness
  <2>2. limit >= settings["minStaleness"]
    BY <1>5 DEF NotTooLow
  <2>3. QED BY <1>1, <2>1, <2>2 DEF LimitOf
<1>6. ASSUME NEW limit \in Limits, NEW f \in Feeds, NotTooLow(limit), SetFeedMaxStaleness(f, limit)
      PROVE  LimitOf(feed)' >= settings["minStaleness"]
  <2>1. /\ limit \in Nat /\ limit <= defaultStaleness /\ defaultStaleness' = defaultStaleness
        /\ feedMaxStaleness' =
             [feedMaxStaleness EXCEPT ![f] = IF limit = 0 THEN defaultStaleness ELSE limit]
    BY <1>1, <1>6 DEF SetFeedMaxStaleness
  <2>2. limit >= settings["minStaleness"]
    BY <1>6 DEF NotTooLow
  <2>3. f = feed
    BY <1>1, <2>1 DEF LimitOf
  <2>4. feedMaxStaleness'[feed] = IF limit = 0 THEN defaultStaleness ELSE limit
    BY <1>1, <2>1, <2>3
  <2>5. QED BY <1>1, <2>1, <2>2, <2>4 DEF LimitOf
<1>7. QED BY <1>4, <1>5, <1>6 DEF Staleness

(* No limit is ever tightened below governance's minimum.                  *)
THEOREM LimitsAreSafe == Spec => LimitsKeepMinimum
<1>1. IInv /\ [Next]_vars =>
        [\A feed \in Feeds :
           LimitOf(feed)' < LimitOf(feed) => LimitOf(feed)' >= settings["minStaleness"]]_vars
  BY LimitStep
<1>2. QED BY <1>1, Invariance, PTL DEF Spec, LimitsKeepMinimum
=============================================================================
