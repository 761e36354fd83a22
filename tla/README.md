# Superform v2-periphery in TLA+

A model, in TLA+, of the contracts under `src/src/` of this repository: what they keep, how every call
changes it, what must hold of it whatever calls come in whatever order, and machine-checked proofs of the
most important of these facts. Definitions bear the names of the code. `PROJECT.json` lists, for each of
them, the source lines it stands for, the runs, and one faulty variant per property that the run refutes.

All contracts run on one chain: a transaction is atomic, and what is concurrent is the *order* of
transactions. Users, operators, managers, validators, keepers and governance send theirs independently,
a signed report may be submitted at any later moment by anybody, and every time lock can run out between two
calls. So an action of the model is a transaction (the whole handler, with every handler it calls in other
contracts), one that reverts is no step, and `Next` is any transaction of anybody.

## 1. Inventory

### Vault: `SuperVault`, `SuperVaultStrategy`, `SuperVaultEscrow`
*State.* Share balances; operator approvals and spent signature nonces; for every controller the record
`SuperVaultState` (pending shares, mean request price, claimable assets, mean withdraw price, slippage, flag
of a pending cancellation, shares to take back); idle assets of the strategy; shares and assets held by the
escrow; fee configuration and its proposal; high-water mark; yield sources.
*Operations.* `deposit`, `mint` (synchronous); `requestRedeem`, `cancelRedeemRequest`,
`fulfillCancelRedeemRequests`, `claimCancelRedeemRequest`, `fulfillRedeemRequests`, `withdraw`, `redeem`
(asynchronous); `setOperator`, `authorizeOperator`, `invalidateNonce`; `executeHooks`; fee and expiry
proposals; `skimPerformanceFee`, `resetHighWaterMark`.
*Hard.* One fulfilment burns and pays for a batch of controllers out of common pots; the price moves between
request and fulfilment; rounding in every conversion.
*Correct when* the escrow covers all pending and claimable amounts, a redemption follows its life cycle,
nobody but the holder lets shares go below the slippage floor, and rounding never favours who acts.

### Prices: `ECDSAPPSOracle`, `SuperVaultAggregator` (prices, upkeep, pauses)
*State.* For every strategy: price, timestamp, pause and stale flags, time of the last unpause, deviation
threshold, upkeep balance, proposed upkeep withdrawal, nonce; earned upkeep.
*Operations.* `updatePPS` -> `forwardPPS` (batches), `updatePPSAfterSkim`, `pauseStrategy`,
`unpauseStrategy`, `updateDeviationThreshold`, `depositUpkeep`, `proposeWithdrawUpkeep`,
`executeWithdrawUpkeep`, `claimUpkeep`.
*Hard.* Reports arrive late, early, never, out of order or again; a report is charged before it is judged;
a rejected one pauses the strategy; a skim moves the price between two reports.
*Correct when* a stale price comes back only through a report from after the unpause, steps are bounded by the
threshold, no report is charged twice, the upkeep tokens add up, and no fee is taken twice on one profit.

### Managers: `SuperVaultAggregator` (managers, hook roots, update interval)
*State.* Primary and secondary managers, proposed manager, fee recipient, hook roots, vetoes, banned leaves,
update interval, each with its proposal; the strategy's fee configuration and price expiry, likewise. *Operations.* `createVault`, add/remove/propose/cancel/execute of each,
`changePrimaryManager` by governance, `validateHook`.
*Hard.* Time locks of up to seven days across takeovers. *Correct when* no step prepared by an old manager
takes effect after a takeover, and no change takes effect unannounced.

### Governance: `SuperGovernor`
*State.* Address registry, validators and quorum, active price oracle, fees, upkeep payments, minimum
staleness, hook and oracle-provider lists, most with a proposal and its effective time.
*Operations.* Propose and execute each of them; register and remove hooks; queue, execute and cancel for
`SuperOracle`; pass calls on to the aggregator.
*Hard.* Anybody executes what is due, a proposal is silently replaced, two executes look for a value and not for
a time. *Correct when* a locked value changes only to what was on display for the whole time lock, and a hook's
root does not survive its removal.

### Bonds: `ValidatorBonding`
*State.* A record per operator (amount, beneficiary, status, pending exit with deadline), the registry of
operators, approvals for funders, three parameters with proposals.
*Operations.* `bond`, `bondFor`, `approveBondFor`, `revokeBondForApproval`, `addBond`, `requestUnbond`,
`executeUnbond`, `cancelUnbond`, `slash`, `updateDelegateKey`, propose/execute/cancel of each parameter.
*Hard.* Two parties manage one bond, slashes meet it in any phase, the minimum and the cooldown change.
*Correct when* bonds are backed, registry and status agree, cooldowns are waited out, an exit cannot
be held back by the operator and bears its share of slashes.

### Cross-chain: `CrossChainPositionRegistry`, `CrossChainAUMOracle`, `CrossChainPositionCapGuard`, `CrossChainHooksRootScreener`
*State.* Reservations of bridged amounts (Open, Consumed, Released, Settled), positions (Pending, Active,
WindingDown, Exited, Invalidated), counters of what is in flight and of what was seen beyond it, the latest
report, nonce, breach counter and breaker, configurations, caps.
*Operations.* `validateAllocation` with `recordBridgedOut` (the hook of a send); `registerPosition`,
`beginPositionExit`, `deregisterPosition` (registrar); `releaseExpiredReservation`, `invalidateExpiredPending`,
`reconcileUnderDeliveredPosition`, `forceAUMUpdate` (governance); `forwardAUM` (anybody, with signatures).
*Hard.* Late, lost and partial deliveries; reports signed for a set of positions that has changed since;
counters kept apart from the records they count. *Correct when* exposure is counted once from sending to
exit, what is validated is what is booked, and no send passes the caps.

### Feeds: `SuperOracleBase`, `SuperOracle`, `SuperOracleL2`
*State.* A feed for each pair and provider, the list of active providers and a flag of each, staleness limits, a
queued update (a week) and a queued removal (an hour). *Operations.* Queue and execute either, cancel a
removal, set limits; quotes are views. All are called by the governor.
*Hard.* Flag, list and feeds are kept apart, and a removed provider's feeds stay; the two time locks overlap.
*Correct when* an average asks each provider once, and nothing begins to quote unannounced.

### The rest
Morpho, gas and fixed-price oracles (reads of feeds); `Bank`, `SuperBank`, `SuperVaultExecutor`,
`SuperVaultBatchOperator` (forwarders with access control); `UP` token and
bridge adapters, `SuperBuilderCodeRegistry` (thin wrappers); `AssetMetadataLib` (a defensive read).

### How they interact
The vault calls its strategy for every entry and exit, the strategy moves shares and assets of the escrow and
reads price, pause and expiry from the aggregator; a skim writes the price back. The oracle verifies
signatures of the validators that the governor lists and forwards to the aggregator. The governor changes
managers and claims upkeep through the aggregator, and is the only caller of `SuperOracle`. `SuperBank` asks it for
a hook's registration and root. Hooks of the strategy call the cap guard and the registry.
Bonds are a system of their own: the validator list is kept by governance, which reads bonds off-chain.

## 2. Modules

| module | models | how |
|---|---|---|
| `SuperVault` | vault, strategy and escrow as one state machine | one action per external function; the price feed is an environment (`PriceFeedStep`), so are the gains and losses of hooks (`StrategyAssetsMove`) |
| `SuperVaultMath` | fee, share and price formulas, previews, `maxRedeem` | pure operators; `SuperVault` states what they must have in common as invariants, at the stored price and for all amounts and fees |
| `AsyncRedeem` | the abstract life cycle of a redemption (ERC-7540 with cancellation) | abstract specification; `SuperVault` refines it with `phase`, `locked`, `owed` computed from the records |
| `PricePerShare` | prices, nonces, upkeep, pauses and skims of all strategies | `UpdatePPS` is a whole batch through oracle and aggregator |
| `ValidatorBonding` | bonds and parameters | the three pairs of propose/execute functions are one pair with a key |
| `StrategyManagers` | who manages a strategy and everything that waits behind a time lock for it, in the aggregator and in the strategy | the five locked settings are one function of their names, one action per code function |
| `TimelockedParameter` | what a time lock promises: in force only after its whole delay on display | abstract specification; the settings and the main manager of `StrategyManagers`, and every parameter, root and feed of `SuperGovernor`, refine it |
| `PositionRegistry` | the registry of reservations and positions, with its counters | one action per entry point; a report is one step for all its entries, `values` being a function of the reported ids |
| `CrossChainAUM` | reports, breaker and caps around the registry | extends `PositionRegistry`; a send is the cap check and the record in one step |
| `PriceFeeds` | `SuperOracle`'s feeds, providers and limits | the list of providers is a bag: removals reorder it, and no order matters |
| `SuperGovernor` | the governor's locked parameters, hooks and SuperBank's check | extends `PriceFeeds`; the propose and execute functions are one pair with a key, each key with the guard of its own function |
| `MulDiv`, `AccountSums` | `Math.mulDiv` in both roundings; sums over accounts | shared; sums are cardinalities so that TLAPS can reason about them |
| `*_proofs` | theorems | extend their component and `TLAPS` |
| `MC*` | instances for TLC | symmetry and constraints |

Times, prices and amounts are naturals. The code's arithmetic is checked (0.8.30) on `uint256`: an overflow
reverts, is no step, and the amounts at which that happens are outside the bounds; the casts to `uint48`
use `SafeCast`. Subtractions are modelled as they stand and the type invariants prove that none is negative.

History variables, read by no action: `anchor` (requests behind a pending redemption), `charged` and
`skimmedAt`; the tenures that proposals of `StrategyManagers` carry; `registeredAt`, when a hook was last
registered. `changes` of `SuperGovernor` counts for a bound only.

### What each model assumes
- *Vault.* Asset and share tokens are plain ERC-20s. Hooks only change the idle assets of the strategy. Users,
  the escrow and the strategy's address are the possible holders and receivers. The entry fee is a constant.
- *Prices.* Strategies exist from the start. A report carries any price and any timestamp, past or future; a
  report with a spent nonce or too few signatures is skipped by the oracle, spends nothing and is no entry
  of the batch (`security_properties.md`'s overview speaks of invalid signatures burning nonces; the code's
  `catch` skips the entry). Whether a batch is exempt from payment is decided per batch, as in the code
  (payments off, or cost unknown). Update interval and performance fee are constants; there is one upkeep token.
- *Managers.* One strategy; of what strategies share (global hooks root, its veto, the time lock of roots, the
  freeze of takeovers) all changes are actions. A root is the set of leaves below it, and `HookAllowed` is
  `validateHook` for a leaf with the right proofs. Amounts of upkeep are in `PricePerShare`: whether there is
  any to withdraw is left open. A strategy can be created with any managers and recipient.
- *Bonds.* The staked token is a plain ERC-20. Delegate key and initiator are left out.
- *Cross-chain.* One strategy. Ids are fresh names. A quorum may sign anything: a report has any values, for any
  set of positions the oracle accepts, with any timestamp of the past, and may be submitted at any later time.
  Registrar and governance act at any time. What the other chain does is seen only in reports.
- *Governor.* Who holds which role is left open: any step may come at any time. An update of feeds is a function
  of the slots it names (of two entries for one slot the last one counts). A root is non-zero or zero; Merkle
  proofs below it are taken as given. The feeds' answers are left out: what is modelled is whom a quote asks.

## 3. Runs

Every passing run explores its instance completely. Between them they fire every disjunct of each `Next`.

| run | instance | shows |
|---|---|---|
| `vault_escrow` | 2 users who may appoint each other, 3 shares, prices 1 and 1.5, 2 requests each; operators act on at most 2 shares, the price is unreadable only at 1 | escrow covers shares and assets, refinement of `AsyncRedeem`, shares leave only by their holder's hand or at the floor |
| `vault_prices` | 1 user, entry fee, prices 0.75, 1 and 1.75, amounts to 3, 3 requests; formulas at the stored price for all fees | the request-price anchor, no dilution; both entry formulas agree, previews are exact, `maxRedeem` is claimable in every record |
| `pps_prices` | 1 strategy, prices 0 to 2 with 50 % steps, 6 points of time, 3 reports | recovery after pauses, bounded steps, skims and marks |
| `pps_upkeep` | 2 strategies in batches, 3 tokens, 2 reports each | upkeep adds up, one charge per nonce |
| `pps_rate_limit` | 1 strategy (violation) | finding 1 |
| `managers` | 3 accounts, 2 roots that share a leaf, 2 tenures, 2 proposals at a time, 4 points of time; hooks and managers explored one at a time | all managers' properties |
| `clean_slate` | the same (violation) | finding 3 |
| `bonding_bonds` | 1 operator, 2 other accounts, 5 tokens, minimum 2 then 3, cooldown 2 then 1, time lock 2 or 1, 4 points of time; approvals wait and time locks change only without a bond | all bond properties; exits come to their end |
| `bonding_unbonding` | 1 operator, minimum 4 (violation) | finding 2 |
| `cross_chain` | 2 sends of 10 to 2 chains, 3 positions, values 0 to 15, timeouts of 1, 4 points of time, 3 reports | all cross-chain properties |
| `cross_chain_capacity` | 2 sends, one place for positions (violation) | finding 4 |
| `governor` | 1 hook, 2 pairs, 2 providers, 1 feed, a list of at most 1, time locks of 2 and 1, 4 points of time, 1 proposal pending at a time that may be replaced, 2 executed | all governor's and feeds' properties |

*Why the bounds are enough.* Escrow errors need two controllers whose amounts share a pot, and rounding on one
of them: three shares at a price of 1.5 give both. The anchor's error grows per averaging, so three requests
show the bound is not a constant; a price below one, where a share buys less than one asset, is among its three. A price story that can go wrong is pause, unpause, old report, new report,
skim, with a timestamp between each: six points of time hold it, with an interval of 2 and staleness of 3
so that each window opens and shuts. A slash that splits unevenly needs a bond of 5 with a pending part of 1
to 5; requests, replaced requests and the cooldown before and after its change fit in four points of time. One
operator is enough where records of operators only share the token balance; two or more are what
the proof of `BondsBacked` covers.

For the managers, three accounts can be the main manager, a secondary one and the next main
one; two proposals at a time suffice for one to be replaced, cancelled or dropped while the other matures, and
time locks of 0, 1 and 2 mature in different orders. The instance is explored in two parts (`OneAtATime`, an
action constraint): what decides over hooks while the managers stay, and the managers and the other
settings, with proposals of roots, while vetoes, bans and roots in force stay. Their cross product is
covered by the proofs, which have no such bound.

For the cross-chain registry, two sends tell a counter per chain from the total; with three positions
a released reservation is filled late after its place was taken; a value of 15 against 10 is an over-delivery, 5
an under-delivery. Three reports are an observation, its confirmation and a breach between them. For the
governor, one pending proposal that may be replaced, with a removal beside it (the oracle's queue counts once),
shows what is replaced, matured or left over; two executed changes are an installation and a return, and a list of
one is full at once. All bounds fall away in the proofs.

*Fairness.* Nothing on the chain schedules anybody's transaction, so `Next` alone is specified, with one
exception: `FairSpec` of `ValidatorBonding`. Time goes on, and a beneficiary whose exit is due goes on asking for its
payment until it gets it, which is in its own interest and needs nobody's help. Under these two, weak, fairness
conditions `ExitsEnd` says that no exit stays pending: slashes, additions, a raised minimum and the operator's steps
do not strand it. No other progress is claimed: fulfilments, reports and releases are at the discretion of those who make
them. Elsewhere the possibility of progress is part of safety: `EscrowCoversAssets` keeps a claim from being
refused, `ReportIsBacked` keeps a stale report from blocking sends.

`Tick` and the caps make instances finite. Deadlock checking is off in `cross_chain` and `governor`, whose sends,
reports and changes are bounded, so that a history ends when time has run out; elsewhere a transaction is always
possible (a pause, a transfer, a proposal). `bonding_bonds` uses no symmetry, which liveness does not allow.

### Properties
*Vault:* `EscrowCoversShares`, `EscrowCoversAssets`, `AnchorTracksRequests`, `HoldersNotDiluted`,
`SharesLeaveOnlyByOwnHand`, `ImplementsAsyncRedeem`, `MintIsCheapestDeposit`, `PreviewsAreExact`, `MaxRedeemIsSafe`.
*Prices:* `RecoveryState`, `UpkeepBacked`, `ChargedOncePerNonce`, `SkimNotUndone`, `PriceStepsBounded`,
`HighWaterMarkSound`.
*Bonds:* `BondsBacked`, `RegistryMatchesStatus`, `CooldownRespected`, `BeneficiaryInControl`, `SlashProportional`,
`ChangesAnnounced`, `ExitsEnd`.
*Managers:* `InheritsNothing`, `ChangesTimelocked`, `HooksWidenOnlyAnnounced`.
*Cross-chain:* `ExposureExact`, `ReportIsBacked`, `LandingNeverBreaches`, `SendsWithinCap`,
`UncountedOnlyByReport`.
*Governor and feeds:* `ParametersTimelocked`, `HooksWaitTheirTime`, `EachProviderCountsOnce`,
`FeedsReturnAnnounced`, `LimitsKeepMinimum`.
The type invariants, `RecordsConsistent`, `RequestConsistent` and `ManagersDistinct` are parts of the inductive
invariants and proved; of the type invariants only that of `CrossChainAUM` is also a run's.
Each is stated in words above its definition. A few properties have a theorem and no run of their own: `EachSettledOnce`
and `LockedWhileUnderWay` (`AsyncRedeem`), `PositionsWithinLimit`, `OnlyLateFillsCrowd`, `OnlyRateLimitDelays`,
`EmptiedOnlyBySlash`.

### Findings
1. `pps_rate_limit`: `security/security_properties.md` says of the rate limit that it "allows immediate update
   after unpause (skip check if paused)". The code has no such exception: the first report after an unpause is
   passed over when it comes within the update interval of the last one before the pause. That nothing else delays it, neither
   a deviation nor the other entries of its batch, is proved (`OnlyRateLimitDelays`).
2. `bonding_unbonding`: a comment in `requestUnbond` says that a fresh request cannot find the record already
   `Unbonding`. It can: the residual of a slash is requested in full, more is bonded, and a further slash
   takes the small pending part whole. The record stays `Unbonding` with nothing pending until a new request. That only a
   slash leads there is proved (`EmptiedOnlyBySlash`).
3. `clean_slate`: `changePrimaryManager` is documented to clear "ALL pending proposals" for a "clean slate for
   new manager". It clears those kept by the aggregator; the strategy keeps two more, the fee configuration
   and the price expiry, which stay pending across the change. (Only the new primary manager can execute them.)
4. `cross_chain_capacity`: positions and open reservations are said to bound the number of future positions, so
   that a send is refused that could not be registered. A released reservation that is filled after all is
   registered without counting the open ones, and takes the place kept for another send. That only such a late fill does is
   proved (`OnlyLateFillsCrowd`), and that the live positions themselves never exceed their limit (`PositionsWithinLimit`).

Worth knowing, though no document says otherwise: the feeds of a removed provider stay, and when an update names
the provider for one pair, it quotes again for all pairs it ever had (`FeedsReturnAnnounced` says in which sense that is
announced). And `LandingNeverBreaches` needs its hypothesis `AllObservedReported`: after a forced report that writes
off an over-delivered observation, the next honest report breaches the bands.

## 4. Proofs

`tlapm` checks all of the following for every value of the constants allowed by the `ASSUME`s beside them.

*`SuperVault_proofs`.* `TypeCorrectness`, `RecordConsistency`, `SharesCovered`, `AssetsCovered`. The invariant `IInv`
is the conjunction of the four: a fulfilment subtracts from the escrow, which stays a natural number only
because the escrow covers everybody's pending shares, and a batch that clears pending shares destroys none
that were to be taken back only because records are consistent. A step that changes one record reduces to a
lemma about sums (`Arithmetic_proofs`); a batch is an update of all records by a function of each.
From it follow more. `RedemptionRefined`: each action is a step of `AsyncRedeem` or leaves it unchanged; consistent
records are what makes `PhaseOf` a function of the record. `AnchorsTrackRequests`: the weighted average, floored at every
request, loses less than one price unit each time. `NobodyIsDiluted`: what is minted is rounded down, what is paid for a
mint up, and a batch whose every member is paid at most its shares' worth is paid at most that in total
(`SumProportion`). `OnlyOwnHandTakesShares`: each action but the owner's own keeps held plus locked shares, a fulfilment
excepted, which takes all that was pending and pays its floor. `RedemptionsSettleOnce` and `SharesLockedMeanwhile` are what a
controller may rely on, read off the abstract steps.

The formulas are theorems for all amounts, fees and prices. `MintsAreCheapestDeposits`: the net of the quoted gross amount is at least the
price of the shares (`GrossUp`), and of one unit less it is not; both come from the bounds of `mulDiv` with the fee rounded up, so
no case of rounding is left out. `PreviewsExact` compares the previews' own code with the strategy's, zero shares and the
full fee included. `MaxRedeemSafe` is an invariant because a record's mean withdraw price may be any price that fulfilments left.

*`PricePerShare_proofs`.* `TypeCorrectness`, `PricesRecover`, `UpkeepIsBacked`, `SkimsStay`, `NoncesArePaidOnce`,
`PricesMoveInBounds`, `MarksAreSound`. Recovery needs
that timestamps never exceed `now` (part of `TypeOK`): an unpause is dated at `now` and so no stored report
is newer than it. The upkeep of a batch is the sum of its charges, each at most its balance. That a skim leaves a price above the old mark
is arithmetic: the fee is at most its share of the profit, whichever way it is rounded. `RecoveryWaitsForRateOnly` uses
the invariant once more: a stale price that is not paused is no newer than its unpause, so a report after it is in order.

*`ValidatorBonding_proofs`.* `TypeCorrectness`, `BondsAreBacked`, `RequestConsistency`, `RegistryCorrect`,
`SlashesAreProportional`, `CooldownIsRespected`, `BeneficiaryStaysInControl`, `ChangesAreAnnounced`,
`OnlySlashesEmptyExits`. The invariant puts together that bonds are backed, requests are part of their bond
and the registry follows the status; every step replaces one record, so `BondStepInv` shows once that a sound record and
the matching movement of tokens preserve it. Proportionality follows from the invariant (the pending part
never exceeds the bond) and the bounds on `mulDiv` with either rounding.

*`StrategyManagers_proofs`.* `TypeCorrectness`, `ManagersStayDistinct`, `NothingInherited`, `TimeLocksHold`,
`HooksWiden`. The invariant adds `NothingHidden` to the three state predicates: a proposal that is not
on display is not there at all. It is needed because some execute functions look at the proposed value and not
at the time: a value left behind with its time cleared could come into force at once. The
refinement of `TimelockedParameter` is proved step by step, by what a step does to proposals (it makes one, drops
one, enacts one, installs a manager, or leaves them alone).

*`PositionRegistry_proofs`, `CrossChainAUM_proofs`.* `RegistryCounts` is proved of the registry alone, open to any send
and any report: `RegistryInv` says that each record agrees with the records it names, and that each of the counters is
the sum over the records it counts. A report changes many records at once; the reservations it settles and the
pending positions it confirms are in bijection, which `SumMatched` turns into equal sums. From it follow
`TypeCorrect` (no decrement underflows), `ExposureIsExact`, `ReportsAreBacked`, `SendsKeepToCaps` and
`OnlyReportsUncount` of the composition. `RegistryImplemented` says that the composition is a refinement of the registry alone.
`PositionsFit` and `LateFillsCrowd` follow what each step does to the number of places taken.

`LandingsNeverBreach` is about a report in which positions keep their value, land with at most what was sent, or drain while
they wind down. The band of the total is widened by what is in flight and by what is winding down. What lands
was in flight, so the reservation of every position that lands must still have been counted (`AwaitedIsCounted`). And no
value on record may be missing from the report, or the total falls by it: a report must name the positions that were registered
before its time, so that one that has been observed must have been registered before the present. The latter is
`ObservedEarlier`, an invariant that this proof called for and that TLC confirmed before it was proved. What remains compares sums member by member (`SumBounded`).

*`SuperGovernor_proofs`.* `TypeCorrect`, `HooksHaveWaited`, `ProvidersCountOnce`, `TimeLocksHold`, `FeedsAnnounced`,
`LimitsAreSafe`. The invariant adds to the types that the list of providers is the set of those flagged
(`ListIsSet`), that what is queued has a time and the reverse (`QueueSound`, `SentinelsAgree`: some executes ask for a value,
some for a time), and that a hook's root, in force or proposed, belongs to a registered hook and was proposed
after it was registered (`HooksSound`). `TimeLocksHold` allows two immediate changes and no other: the first price oracle
(`FirstOracleSet`) and a root that goes with its hook, leaving neither a root nor a proposal (`RootRemoved`); a root
that is replaced or installed has waited, however long its hook has been registered.

*`Arithmetic_proofs`.* What rounding does; how sums change with one value, with two, with many, and how they split,
add, match, bound each other and keep a proportion. The last is an induction over a finite set, which is done by its minimal counterexample.

*Only model-checked:* `ExitsEnd`, which is liveness under fairness and out of the prover's reach. Every other property of a
passing run is a theorem. Nothing is assumed but the `ASSUME`s on constants and, with their proofs, the
facts on finite sets of the prover's library; what TLC refutes (section 3) is, of course, not proved.

## 5. Plan

Done: `SuperVault` with `AsyncRedeem`; `PricePerShare`; `ValidatorBonding`; `StrategyManagers` with
`TimelockedParameter`; `PositionRegistry` with `CrossChainAUM`; `PriceFeeds` with `SuperGovernor`. To follow:

1. Signed operator authorisations and their nonces in `SuperVault`.
2. A composition of `SuperVault` with `PricePerShare` in place of its environment.

## 6. Not modelled

- The Go files under `src/contract_bindings/`: bindings that abigen generates from the contracts' ABIs. They encode
  calls and decode answers, and none of them keeps a state or decides anything. What they
  bind to is modelled from its Solidity source, and the map of `PROJECT.json` names lines of that source.
- Signed operator authorisations and their nonces (`SuperVault`), the delegate key of a bond, the list of yield sources.
- The hook screener (a stateless check of call data), registrars and authorised hooks, limits per destination.
- The governor's address book, validator configuration, gas costs and roles: single assignments by one role. So is an
  exchange of the upkeep token under way.
- The arithmetic and deviation of quotes, the sequencer's uptime feeds of the L2 oracle, Morpho, gas and fixed-price
  oracles: reads of outside contracts.
- `SuperBank`'s distribution, `SuperVaultExecutor`, `SuperVaultBatchOperator`: forwarders without state between calls.
- ERC-20 metadata, events, views that only return storage, the `UP` token's bridge wrappers and the builder code
  registry; Merkle proofs and signature recovery beyond "valid or not".
