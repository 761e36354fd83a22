----------------------------- MODULE PriceFeeds -----------------------------
(***************************************************************************)
(* SuperOracle: which feeds of which providers price a pair of assets.     *)
(* Updates wait a week, removals of providers an hour; only SuperGovernor  *)
(* may call, so the composition is in SuperGovernor.                       *)
(*                                                                         *)
(* The quotes themselves are reads of outside feeds.  What is here is what *)
(* they depend on: the feeds that take part in an average, how often each  *)
(* does, and the age up to which a feed is trusted.                        *)
(***************************************************************************)
EXTENDS Naturals, FiniteSets, AccountSums

CONSTANTS
  Pairs,                    \* pairs of a base and a quote
  Providers,
  Feeds,
  NoFeed,                   \* the zero address
  Limits,                   \* choices for the staleness limits
  DefaultStaleness,         \* defaultStaleness at deployment
  TIMELOCK_PERIOD,
  REMOVAL_TIMELOCK_PERIOD,
  MAX_SAMPLE_PROVIDERS,
  MAX_PROVIDER_REMOVALS,
  MaxEntries                \* bound: entries of one update

ASSUME FeedsAssumption ==
  /\ IsFiniteSet(Pairs) /\ IsFiniteSet(Providers)
  /\ NoFeed \notin Feeds
  /\ Limits \subseteq Nat /\ DefaultStaleness \in Nat
  /\ TIMELOCK_PERIOD \in Nat /\ REMOVAL_TIMELOCK_PERIOD \in Nat
  /\ MAX_SAMPLE_PROVIDERS \in Nat /\ MAX_PROVIDER_REMOVALS \in Nat /\ MaxEntries \in Nat

VARIABLES
  now,                \* block.timestamp
  oracles,            \* the feed of each pair and provider
  isProviderSet,      \* the providers for which it is true
  activeProviders,    \* how often each provider is in this list
  pendingUpdate,
  pendingRemoval,
  defaultStaleness,
  feedMaxStaleness    \* zero for a feed that has none of its own

limitVars == <<defaultStaleness, feedMaxStaleness>>
providerVars == <<oracles, isProviderSet, activeProviders>>
feedVars == <<providerVars, pendingUpdate, pendingRemoval, limitVars>>

Slots == Pairs \X Providers

(* An update names a feed for some slots.  Of two entries for one slot the *)
(* last one counts, so it is a function.                                   *)
AllUpdates == UNION {[S -> Feeds] : S \in SUBSET Slots}

(* Bound: entries of one update.                                           *)
Updates == {update \in AllUpdates : Cardinality(DOMAIN update) <= MaxEntries}

NoUpdate == [entries |-> [slot \in {} |-> NoFeed], timestamp |-> 0]
NoRemoval == [providers |-> {}, timestamp |-> 0]

FeedsTypeOK ==
  /\ now \in Nat \ {0}
  /\ oracles \in [Slots -> Feeds \cup {NoFeed}]
  /\ isProviderSet \subseteq Providers
  /\ activeProviders \in [Providers -> Nat]
  /\ pendingUpdate \in [entries : AllUpdates, timestamp : 0 .. now]
  /\ pendingRemoval \in [providers : SUBSET Providers, timestamp : 0 .. now]
  /\ defaultStaleness \in Nat
  /\ feedMaxStaleness \in [Feeds -> Nat]

-----------------------------------------------------------------------------
(* Updates.                                                                *)

ProvidersOf(update) == {slot[2] : slot \in DOMAIN update}

Added(update) == ProvidersOf(update) \ isProviderSet

ActiveCount == SumOver(activeProviders, Providers)

(* Faulty variant: whether a provider is new is decided before the loop,   *)
(* so that it is added for every entry.                                    *)
TimesAdded_EachEntry(update, provider) ==
  IF provider \in Added(update) THEN Cardinality({slot \in DOMAIN update : slot[2] = provider}) ELSE 0

TimesAdded(update, provider) == IF provider \in Added(update) THEN 1 ELSE 0

(* _configureOracles: a provider that is new joins the list, which may not *)
(* grow beyond its limit.                                                  *)
ConfigureOracles(update) ==
  /\ Added(update) = {} \/ ActiveCount + Cardinality(Added(update)) <= MAX_SAMPLE_PROVIDERS
  /\ oracles' = [slot \in Slots |-> IF slot \in DOMAIN update THEN update[slot] ELSE oracles[slot]]
  /\ isProviderSet' = isProviderSet \cup Added(update)
  /\ activeProviders' =
       [provider \in Providers |-> activeProviders[provider] + TimesAdded(update, provider)]

(* The constructor takes its feeds without a time lock.                    *)
FeedsInit ==
  /\ now = 1
  /\ \E update \in Updates :
       /\ oracles = [slot \in Slots |-> IF slot \in DOMAIN update THEN update[slot] ELSE NoFeed]
       /\ isProviderSet = ProvidersOf(update)
       /\ Cardinality(isProviderSet) <= MAX_SAMPLE_PROVIDERS
       /\ feedMaxStaleness =
            [feed \in Feeds |-> IF \E slot \in DOMAIN update : update[slot] = feed
                                THEN DefaultStaleness ELSE 0]
  /\ activeProviders = [provider \in Providers |-> IF provider \in isProviderSet THEN 1 ELSE 0]
  /\ pendingUpdate = NoUpdate /\ pendingRemoval = NoRemoval
  /\ defaultStaleness = DefaultStaleness

(* An update that is queued replaces the one that waits, with its time; an *)
(* empty one is accepted.                                                  *)
QueueOracleUpdate(update) ==
  /\ pendingUpdate' = [entries |-> update, timestamp |-> now]
  /\ UNCHANGED <<providerVars, pendingRemoval, limitVars>>

(* Faulty variant: an update is due as soon as it is queued.               *)
UpdateIsDue_Anytime == pendingUpdate.timestamp # 0

UpdateIsDue ==
  /\ pendingUpdate.timestamp # 0
  /\ now >= pendingUpdate.timestamp + TIMELOCK_PERIOD

ExecuteOracleUpdate ==
  /\ UpdateIsDue
  /\ ConfigureOracles(pendingUpdate.entries)
  /\ pendingUpdate' = NoUpdate
  /\ UNCHANGED <<pendingRemoval, limitVars>>

-----------------------------------------------------------------------------
(* Removals.  A name that is given twice, or of no provider, does nothing. *)

QueueProviderRemoval(providers) ==
  /\ pendingRemoval.timestamp = 0
  /\ providers # {} /\ Cardinality(providers) <= MAX_PROVIDER_REMOVALS
  /\ pendingRemoval' = [providers |-> providers, timestamp |-> now]
  /\ UNCHANGED <<providerVars, pendingUpdate, limitVars>>

(* Each name takes one entry off the list.  The feeds of the provider stay *)
(* where they are.                                                         *)
ExecuteProviderRemoval ==
  /\ pendingRemoval.timestamp # 0
  /\ now >= pendingRemoval.timestamp + REMOVAL_TIMELOCK_PERIOD
  /\ isProviderSet' = isProviderSet \ pendingRemoval.providers
  /\ activeProviders' =
       [provider \in Providers |->
          IF provider \in pendingRemoval.providers /\ activeProviders[provider] > 0
          THEN activeProviders[provider] - 1 ELSE activeProviders[provider]]
  /\ pendingRemoval' = NoRemoval
  /\ UNCHANGED <<oracles, pendingUpdate, limitVars>>

CancelProviderRemoval ==
  /\ pendingRemoval.timestamp # 0
  /\ pendingRemoval' = NoRemoval
  /\ UNCHANGED <<providerVars, pendingUpdate, limitVars>>

-----------------------------------------------------------------------------
(* How old an answer may be.                                               *)

SetDefaultStaleness(limit) ==
  /\ defaultStaleness' = limit
  /\ UNCHANGED <<providerVars, pendingUpdate, pendingRemoval, feedMaxStaleness>>

(* Zero stands for the default of the moment, which is stored.             *)
SetFeedMaxStaleness(feed, limit) ==
  /\ limit <= defaultStaleness
  /\ feedMaxStaleness' =
       [feedMaxStaleness EXCEPT ![feed] = IF limit = 0 THEN defaultStaleness ELSE limit]
  /\ UNCHANGED <<providerVars, pendingUpdate, pendingRemoval, defaultStaleness>>

(* The limit in _getQuoteFromOracle, on L1 and on L2.                      *)
LimitOf(feed) ==
  IF feedMaxStaleness[feed] = 0 \/ feedMaxStaleness[feed] > defaultStaleness
  THEN defaultStaleness ELSE feedMaxStaleness[feed]

-----------------------------------------------------------------------------
(* What quotes depend on.                                                  *)

(* The feeds that _getAverageQuote asks for a pair, provider by provider;  *)
(* totalCount is how many, and the list's limit is never what ends the     *)
(* loop early.                                                             *)
Sampled(pair) ==
  [provider \in Providers |->
     IF oracles[<<pair, provider>>] # NoFeed THEN activeProviders[provider] ELSE 0]

(* getQuoteFromProvider answers for this provider alone.                   *)
Quotes(pair, provider) ==
  provider \in isProviderSet /\ oracles[<<pair, provider>>] # NoFeed
=============================================================================
