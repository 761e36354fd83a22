--------------------------- MODULE PricePerShare ---------------------------
(***************************************************************************)
(* The stored price of each strategy: reports of the validators that       *)
(* ECDSAPPSOracle forwards to SuperVaultAggregator, pauses, staleness, the *)
(* upkeep that pays for reports, and the performance fee that a strategy   *)
(* skims, which lowers the price and sets the high-water mark.             *)
(*                                                                         *)
(* A report is signed for the current nonce of its strategy and may arrive *)
(* at any later time, in any order, or never: an update picks any price    *)
(* and any timestamp.  An entry whose proof fails (an old nonce, too few   *)
(* signers) is skipped by the oracle and is not part of the update.        *)
(***************************************************************************)
EXTENDS SuperVaultMath, AccountSums

CONSTANTS
  Strategies,
  Prices,               \* prices in reports, 0 among them
  Thresholds,           \* deviation thresholds a manager may set
  DEVIATION_UNIT,       \* a relative deviation of 100 % (1e18)
  NoThreshold,          \* the threshold that turns the check off
  DefaultThreshold,     \* DEFAULT_DEVIATION_THRESHOLD
  MinUpdateInterval,    \* least time between the timestamps of two reports
  MaxStaleness,         \* a report older than this is ignored
  PPSExpiration,        \* a stored price older than this is not used
  SkimTimelock,         \* POST_UNPAUSE_SKIM_TIMELOCK
  WithdrawalTimelock,   \* UPKEEP_WITHDRAWAL_TIMELOCK
  UpkeepCost,           \* cost of a report, in the upkeep token
  PerformanceFeeBps,    \* the strategy's performance fee
  MaxPerformanceFee,    \* MAX_PERFORMANCE_FEE
  Supplies,             \* total supplies of shares at the time of a skim
  Start,                \* time at which the vaults were created
  MaxTime,              \* bound: the last point of time
  MaxUpkeep,            \* bound: upkeep tokens deposited
  MaxReports            \* bound: reports forwarded for each strategy

ASSUME PriceAssumption ==
  /\ IsFiniteSet(Strategies)
  /\ Prices \subseteq Nat /\ Supplies \subseteq Nat
  /\ Thresholds \subseteq Nat /\ DefaultThreshold \in Nat /\ NoThreshold \in Nat
  /\ DEVIATION_UNIT \in Nat \ {0}
  /\ MinUpdateInterval \in Nat /\ MaxStaleness \in Nat
  /\ MinUpdateInterval < MaxStaleness
  /\ PPSExpiration \in Nat /\ SkimTimelock \in Nat
  /\ WithdrawalTimelock \in Nat
  /\ UpkeepCost \in Nat \ {0}
  /\ MaxPerformanceFee \in 0 .. BPS_PRECISION
  /\ PerformanceFeeBps \in 0 .. MaxPerformanceFee
  /\ Start \in Nat \ {0} /\ Start >= SkimTimelock
  /\ MaxTime \in Nat /\ MaxUpkeep \in Nat /\ MaxReports \in Nat

VARIABLES
  now,               \* block.timestamp
  strategyData,      \* the aggregator's record of each strategy
  vaultHwmPps,       \* the high-water mark of each strategy
  upkeepBalance,     \* upkeep tokens credited to each strategy
  claimableUpkeep,   \* upkeep tokens earned
  upkeepTokens,      \* upkeep tokens the aggregator holds
  pendingUpkeepWithdrawals,  \* the withdrawal each main manager proposed
  noncePerStrategy,  \* the oracle's nonces
  charged,           \* history: upkeep ever charged to each strategy
  skimmedAt          \* history: time of each strategy's last skim

upkeepVars == <<upkeepBalance, claimableUpkeep, upkeepTokens, pendingUpkeepWithdrawals, charged>>

vars == <<now, strategyData, vaultHwmPps, noncePerStrategy, skimmedAt, upkeepVars>>

StrategyData ==
  [pps                  : Nat \ {0},
   lastUpdateTimestamp  : Nat,
   isPaused             : BOOLEAN,
   ppsStale             : BOOLEAN,
   lastUnpauseTimestamp : Nat,
   deviationThreshold   : Nat]

Withdrawal == [amount : Nat, effectiveTime : Nat]

(* No withdrawal is pending: effectiveTime is zero.                        *)
NoWithdrawal == [amount |-> 0, effectiveTime |-> 0]

(* The clock and the timestamps are in order: nothing stored is in the     *)
(* future.                                                                 *)
TypeOK ==
  /\ now \in Nat \ {0}
  /\ strategyData \in [Strategies -> StrategyData]
  /\ \A s \in Strategies : /\ strategyData[s].lastUpdateTimestamp <= now
                           /\ strategyData[s].lastUnpauseTimestamp <= now
  /\ vaultHwmPps \in [Strategies -> Nat \ {0}]
  /\ upkeepBalance \in [Strategies -> Nat]
  /\ claimableUpkeep \in Nat
  /\ upkeepTokens \in Nat
  /\ noncePerStrategy \in [Strategies -> Nat]
  /\ pendingUpkeepWithdrawals \in [Strategies -> Withdrawal]
  /\ charged \in [Strategies -> Nat]
  /\ skimmedAt \in [Strategies -> Nat]

(* createVault                                                             *)
Init ==
  /\ now = Start
  /\ strategyData = [s \in Strategies |->
       [pps |-> PRECISION, lastUpdateTimestamp |-> now, isPaused |-> FALSE,
        ppsStale |-> FALSE, lastUnpauseTimestamp |-> 0,
        deviationThreshold |-> DefaultThreshold]]
  /\ vaultHwmPps = [s \in Strategies |-> PRECISION]
  /\ upkeepBalance = [s \in Strategies |-> 0]
  /\ claimableUpkeep = 0
  /\ upkeepTokens = 0
  /\ noncePerStrategy = [s \in Strategies |-> 0]
  /\ pendingUpkeepWithdrawals = [s \in Strategies |-> NoWithdrawal]
  /\ charged = [s \in Strategies |-> 0]
  /\ skimmedAt = [s \in Strategies |-> 0]

-----------------------------------------------------------------------------
(* Reports.                                                                *)

(* forwardPPS passes over an entry from the future, for a paused strategy, *)
(* or too old.                                                             *)
Rejected(s, timestamp) ==
  timestamp > now \/ strategyData[s].isPaused \/ timestamp + MaxStaleness < now

(* Faulty variant: a report from before the unpause is taken.              *)
OutOfOrder_NoReanchor(s, timestamp) ==
  LET d == strategyData[s]
  IN  \/ timestamp <= d.lastUpdateTimestamp
      \/ timestamp < d.lastUpdateTimestamp + MinUpdateInterval

(* _forwardPPS passes over an entry that is not newer than the last update *)
(* or the last unpause, or too soon after the last update.                 *)
OutOfOrder(s, timestamp) ==
  LET d == strategyData[s]
  IN  \/ timestamp <= d.lastUpdateTimestamp
      \/ d.lastUnpauseTimestamp > 0 /\ timestamp <= d.lastUnpauseTimestamp
      \/ timestamp < d.lastUpdateTimestamp + MinUpdateInterval

Ignored(s, timestamp) == Rejected(s, timestamp) \/ OutOfOrder(s, timestamp)

AbsDiff(a, b) == IF a > b THEN a - b ELSE b - a

RelativeDeviation(pps, from) == MulDivFloor(AbsDiff(pps, from), DEVIATION_UNIT, from)

(* Faulty variant: the deviation is not checked at all once the price has  *)
(* ever been recovered.                                                    *)
Deviates_SkippedAfterUnpause(s, pps) ==
  LET d == strategyData[s]
  IN  /\ d.deviationThreshold # NoThreshold
      /\ d.lastUnpauseTimestamp = 0
      /\ RelativeDeviation(pps, d.pps) > d.deviationThreshold

(* The deviation check, which is off for a stale price.                    *)
Deviates(s, pps) ==
  LET d == strategyData[s]
  IN  /\ d.deviationThreshold # NoThreshold
      /\ ~d.ppsStale
      /\ RelativeDeviation(pps, d.pps) > d.deviationThreshold

(* Every entry is exempt while payments are off or the cost is unknown.    *)
Unpaid(s, exempt) == ~exempt /\ upkeepBalance[s] < UpkeepCost

(* What a strategy is charged: a report that is looked at is paid for,     *)
(* whether its price is then accepted or not.                              *)
Charge(s, report, exempt) ==
  IF Ignored(s, report.timestamp) \/ exempt \/ Unpaid(s, exempt)
  THEN 0 ELSE UpkeepCost

Accepted(s, report, exempt) ==
  /\ ~Ignored(s, report.timestamp)
  /\ ~Unpaid(s, exempt)
  /\ ~Deviates(s, report.pps)
  /\ report.pps # 0

(* The record of a strategy after its entry: an accepted price is stored   *)
(* and is fresh, a rejected one pauses the strategy.                       *)
Forwarded(s, report, exempt) ==
  CASE Accepted(s, report, exempt) ->
         [strategyData[s] EXCEPT !.pps = report.pps,
                                 !.lastUpdateTimestamp = report.timestamp,
                                 !.ppsStale = FALSE]
    [] Ignored(s, report.timestamp) -> strategyData[s]
    [] OTHER -> [strategyData[s] EXCEPT !.isPaused = TRUE, !.ppsStale = TRUE]

Charges(reports, exempt) ==
  [s \in Strategies |-> IF s \in DOMAIN reports THEN Charge(s, reports[s], exempt) ELSE 0]

(* Faulty variant: a nonce is spent only by a report that is stored.       *)
NextNonces_AcceptedOnly(reports, exempt) ==
  [s \in Strategies |-> IF s \in DOMAIN reports /\ Accepted(s, reports[s], exempt)
                        THEN noncePerStrategy[s] + 1 ELSE noncePerStrategy[s]]

(* Every entry that was forwarded spends the nonce of its strategy.        *)
NextNonces(reports, exempt) ==
  [s \in Strategies |-> IF s \in DOMAIN reports
                        THEN noncePerStrategy[s] + 1 ELSE noncePerStrategy[s]]

(* ECDSAPPSOracle.updatePPS with the entries whose proofs hold, which it   *)
(* forwards in one call of SuperVaultAggregator.forwardPPS; if that call   *)
(* reverts nothing changes, nonces included.                               *)
UpdatePPS(reports, exempt) ==
  LET charges == Charges(reports, exempt)
  IN  /\ DOMAIN reports # {}
      /\ \A s \in DOMAIN reports : noncePerStrategy[s] < MaxReports
      /\ strategyData' =
           [s \in Strategies |-> IF s \in DOMAIN reports
                                 THEN Forwarded(s, reports[s], exempt)
                                 ELSE strategyData[s]]
      /\ upkeepBalance' = [s \in Strategies |-> upkeepBalance[s] - charges[s]]
      /\ claimableUpkeep' = claimableUpkeep + SumOver(charges, Strategies)
      /\ charged' = [s \in Strategies |-> charged[s] + charges[s]]
      /\ noncePerStrategy' = NextNonces(reports, exempt)
      /\ UNCHANGED <<now, vaultHwmPps, upkeepTokens, pendingUpkeepWithdrawals, skimmedAt>>

-----------------------------------------------------------------------------
(* Pauses.                                                                 *)

PauseStrategy(s) ==
  /\ ~strategyData[s].isPaused
  /\ strategyData' = [strategyData EXCEPT ![s] =
       [strategyData[s] EXCEPT !.isPaused = TRUE, !.ppsStale = TRUE]]
  /\ UNCHANGED <<now, vaultHwmPps, upkeepVars, noncePerStrategy, skimmedAt>>

(* The price stays stale until a report made after the unpause arrives.    *)
UnpauseStrategy(s) ==
  /\ strategyData[s].isPaused
  /\ strategyData' = [strategyData EXCEPT ![s] =
       [strategyData[s] EXCEPT !.isPaused = FALSE, !.lastUnpauseTimestamp = now]]
  /\ UNCHANGED <<now, vaultHwmPps, upkeepVars, noncePerStrategy, skimmedAt>>

UpdateDeviationThreshold(s, threshold) ==
  /\ strategyData' = [strategyData EXCEPT ![s].deviationThreshold = threshold]
  /\ UNCHANGED <<now, vaultHwmPps, upkeepVars, noncePerStrategy, skimmedAt>>

-----------------------------------------------------------------------------
(* The performance fee.                                                    *)

(* _validateStrategyState                                                  *)
StrategyStateValid(s) ==
  /\ ~strategyData[s].isPaused
  /\ ~strategyData[s].ppsStale
  /\ now <= strategyData[s].lastUpdateTimestamp + PPSExpiration

(* Faulty variant: the fee is taken on the whole price.                    *)
SkimFee_WholePrice(pps, hwm, supply) ==
  MulDivCeil(MulDivFloor(pps, supply, PRECISION), PerformanceFeeBps, BPS_PRECISION)

(* The fee on the growth of all shares above the mark.                     *)
SkimFee(pps, hwm, supply) ==
  MulDivCeil(MulDivFloor(pps - hwm, supply, PRECISION), PerformanceFeeBps, BPS_PRECISION)

(* The price that is left when the fee has been paid out of the assets.    *)
PPSAfterFee(pps, fee, supply) == pps - MulDivFloor(fee, PRECISION, supply)

(* Faulty variant: the skim leaves the price's timestamp as it was.        *)
SkimTimestamp_Kept(s) == strategyData[s].lastUpdateTimestamp

(* updatePPSAfterSkim dates the new price at the time of the skim.         *)
SkimTimestamp(s) == now

(* skimPerformanceFee with updatePPSAfterSkim: the checks of both, and the *)
(* early returns, which change nothing.                                    *)
SkimPerformanceFee(s, supply) ==
  LET oldPPS == strategyData[s].pps
      fee    == SkimFee(oldPPS, vaultHwmPps[s], supply)
      newPPS == PPSAfterFee(oldPPS, fee, supply)
  IN  /\ StrategyStateValid(s)
      /\ now >= strategyData[s].lastUnpauseTimestamp + SkimTimelock
      /\ supply > 0
      /\ oldPPS > vaultHwmPps[s]
      /\ fee > 0
      /\ 0 < newPPS /\ newPPS < oldPPS
      /\ newPPS >= MulDivCeil(oldPPS, BPS_PRECISION - MaxPerformanceFee, BPS_PRECISION)
      /\ vaultHwmPps' = [vaultHwmPps EXCEPT ![s] = newPPS]
      /\ strategyData' = [strategyData EXCEPT ![s] =
           [strategyData[s] EXCEPT !.pps = newPPS, !.lastUpdateTimestamp = SkimTimestamp(s)]]
      /\ skimmedAt' = [skimmedAt EXCEPT ![s] = now]
      /\ UNCHANGED <<now, upkeepVars, noncePerStrategy>>

(* resetHighWaterMark by the governor, and executeVaultFeeConfigUpdate,    *)
(* which resets the mark together with the fee.                            *)
ResetHighWaterMark(s) ==
  /\ vaultHwmPps' = [vaultHwmPps EXCEPT ![s] = strategyData[s].pps]
  /\ UNCHANGED <<now, strategyData, upkeepVars, noncePerStrategy, skimmedAt>>

-----------------------------------------------------------------------------
(* Upkeep.                                                                 *)

DepositUpkeep(s, amount) ==
  /\ amount > 0 /\ upkeepTokens + amount <= MaxUpkeep
  /\ upkeepBalance' = [upkeepBalance EXCEPT ![s] = @ + amount]
  /\ upkeepTokens' = upkeepTokens + amount
  /\ UNCHANGED <<now, strategyData, vaultHwmPps, claimableUpkeep, pendingUpkeepWithdrawals,
                 noncePerStrategy, charged, skimmedAt>>

(* The main manager asks for the whole balance.                            *)
ProposeWithdrawUpkeep(s) ==
  /\ upkeepBalance[s] > 0
  /\ pendingUpkeepWithdrawals' = [pendingUpkeepWithdrawals EXCEPT ![s] =
       [amount |-> upkeepBalance[s], effectiveTime |-> now + WithdrawalTimelock]]
  /\ UNCHANGED <<now, strategyData, vaultHwmPps, upkeepBalance, claimableUpkeep, upkeepTokens,
                 noncePerStrategy, charged, skimmedAt>>

(* A change of the main manager, by any of its paths, drops the request.   *)
ChangePrimaryManager(s) ==
  /\ pendingUpkeepWithdrawals' = [pendingUpkeepWithdrawals EXCEPT ![s] = NoWithdrawal]
  /\ UNCHANGED <<now, strategyData, vaultHwmPps, upkeepBalance, claimableUpkeep, upkeepTokens,
                 noncePerStrategy, charged, skimmedAt>>

(* Faulty variant: pays what was asked for, although reports have been     *)
(* charged since.                                                          *)
WithdrawalAmount_AsProposed(s) == pendingUpkeepWithdrawals[s].amount

(* Reports may have been charged since the request.                        *)
WithdrawalAmount(s) ==
  IF upkeepBalance[s] < pendingUpkeepWithdrawals[s].amount
  THEN upkeepBalance[s] ELSE pendingUpkeepWithdrawals[s].amount

ExecuteWithdrawUpkeep(s) ==
  LET amount == WithdrawalAmount(s)
  IN  /\ pendingUpkeepWithdrawals[s].effectiveTime > 0
      /\ now >= pendingUpkeepWithdrawals[s].effectiveTime
      /\ amount > 0 /\ amount <= upkeepTokens
      /\ pendingUpkeepWithdrawals' = [pendingUpkeepWithdrawals EXCEPT ![s] = NoWithdrawal]
      /\ upkeepBalance' = [upkeepBalance EXCEPT ![s] = @ - amount]
      /\ upkeepTokens' = upkeepTokens - amount
      /\ UNCHANGED <<now, strategyData, vaultHwmPps, claimableUpkeep,
                     noncePerStrategy, charged, skimmedAt>>

(* claimUpkeep: the governor sends earned upkeep to the SuperBank.         *)
ClaimUpkeep(amount) ==
  /\ amount <= claimableUpkeep /\ amount <= upkeepTokens
  /\ claimableUpkeep' = claimableUpkeep - amount
  /\ upkeepTokens' = upkeepTokens - amount
  /\ UNCHANGED <<now, strategyData, vaultHwmPps, upkeepBalance, pendingUpkeepWithdrawals,
                 noncePerStrategy, charged, skimmedAt>>

-----------------------------------------------------------------------------
Tick ==
  /\ now < MaxTime
  /\ now' = now + 1
  /\ UNCHANGED <<strategyData, vaultHwmPps, upkeepVars, noncePerStrategy, skimmedAt>>

Reports == [pps : Prices, timestamp : Start .. MaxTime]

Next ==
  \/ \E S \in SUBSET Strategies : \E reports \in [S -> Reports], exempt \in BOOLEAN :
       UpdatePPS(reports, exempt)
  \/ \E s \in Strategies :
       \/ PauseStrategy(s)
       \/ UnpauseStrategy(s)
       \/ \E threshold \in Thresholds : UpdateDeviationThreshold(s, threshold)
       \/ \E supply \in Supplies : SkimPerformanceFee(s, supply)
       \/ ResetHighWaterMark(s)
       \/ \E amount \in 1 .. MaxUpkeep : DepositUpkeep(s, amount)
       \/ ProposeWithdrawUpkeep(s)
       \/ ExecuteWithdrawUpkeep(s)
       \/ ChangePrimaryManager(s)
  \/ \E amount \in 1 .. MaxUpkeep : ClaimUpkeep(amount)
  \/ Tick

Spec == Init /\ [][Next]_vars

-----------------------------------------------------------------------------
(* Properties.                                                             *)

(* A record's pause, staleness and timestamps agree.                       *)
Recovers(d) ==
  /\ d.isPaused => d.ppsStale
  /\ ~d.isPaused => (d.ppsStale <=> /\ d.lastUnpauseTimestamp > 0
                                   /\ d.lastUpdateTimestamp <= d.lastUnpauseTimestamp)

(* A strategy that was paused, by a manager or by a rejected report, is    *)
(* paused with a stale price, and after the unpause the price is usable    *)
(* again only once a report made after the unpause has been stored: no     *)
(* report from before or during the pause, however late it arrives, and no *)
(* skim brings a price back (the re-anchor of _forwardPPS, pauseStrategy,  *)
(* unpauseStrategy, updatePPSAfterSkim).                                   *)
RecoveryState == \A s \in Strategies : Recovers(strategyData[s])

(* The upkeep tokens in the aggregator are exactly the strategies' unspent *)
(* deposits and the upkeep that was earned and not yet claimed, through    *)
(* charges, withdrawals that reports overtake, and claims.                 *)
UpkeepBacked == upkeepTokens = SumOver(upkeepBalance, Strategies) + claimableUpkeep

(* A set of signatures is valid for one nonce.  A strategy never pays for  *)
(* more reports than it spent nonces, so no signed report is charged for   *)
(* twice, accepted or not (_forwardValidEntries, _forwardPPS).             *)
ChargedOncePerNonce ==
  \A s \in Strategies : charged[s] <= UpkeepCost * noncePerStrategy[s]

(* The price that a skim lowered is not replaced by one that was measured  *)
(* before the skim: the assets it counts include the fee that has left, so *)
(* holders would be shown, and managers could skim again, a gain that was  *)
(* paid out already (updatePPSAfterSkim moves lastUpdateTimestamp).        *)
SkimNotUndone ==
  \A s \in Strategies : strategyData[s].lastUpdateTimestamp >= skimmedAt[s]

(* The price of s moves only in a report or in a skim, never while s is    *)
(* paused.  A fresh price moves at most by the threshold in a report; by a *)
(* skim any price falls, at most by the largest performance fee.  The      *)
(* timestamp never moves back.                                             *)
PriceStep(s) ==
  LET d        == strategyData[s]
      reported == noncePerStrategy'[s] # noncePerStrategy[s]
      pps      == strategyData'[s].pps
  IN  /\ strategyData'[s].lastUpdateTimestamp >= d.lastUpdateTimestamp
      /\ pps # d.pps =>
           /\ ~d.isPaused
           /\ reported =>
                \/ d.ppsStale
                \/ d.deviationThreshold = NoThreshold
                \/ AbsDiff(pps, d.pps) * DEVIATION_UNIT < (d.deviationThreshold + 1) * d.pps
           /\ ~reported =>
                /\ pps < d.pps
                /\ pps * BPS_PRECISION >= d.pps * (BPS_PRECISION - MaxPerformanceFee)

PriceStepsBounded == [][\A s \in Strategies : PriceStep(s)]_vars

(* The high-water mark moves only to the price of the moment.  Together    *)
(* with a fall of the price (a skim) it never moves down: what is left to  *)
(* the holders after the fee is at least the old mark, for all roundings   *)
(* of profit, fee and price; and the price it is taken on was measured     *)
(* after the last unpause and waited out the time lock                     *)
(* (skimPerformanceFee, resetHighWaterMark).                               *)
MarkStep(s) ==
  LET d == strategyData[s]
  IN  vaultHwmPps'[s] # vaultHwmPps[s] =>
        /\ vaultHwmPps'[s] = strategyData'[s].pps
        /\ strategyData'[s].pps # d.pps =>
             /\ vaultHwmPps'[s] > vaultHwmPps[s]
             /\ now >= d.lastUnpauseTimestamp + SkimTimelock
             /\ d.lastUnpauseTimestamp > 0 => d.lastUpdateTimestamp > d.lastUnpauseTimestamp

HighWaterMarkSound == [][\A s \in Strategies : MarkStep(s)]_vars

(* What security_properties.md says of the rate limit: "Allows immediate   *)
(* update after unpause (skip check if paused)".  A report in time, of a   *)
(* strategy that was unpaused and has no fresh price since, is stored.     *)
UpdateAfterUnpause(s, report) ==
  LET d == strategyData[s]
  IN  (/\ UpdatePPS([x \in {s} |-> report], TRUE)
       /\ ~d.isPaused /\ d.ppsStale
       /\ report.pps > 0
       /\ d.lastUnpauseTimestamp < report.timestamp /\ report.timestamp <= now
       /\ now <= report.timestamp + MaxStaleness)
      => ~strategyData'[s].ppsStale

ImmediateUpdateAfterUnpause ==
  [][\A s \in Strategies, report \in Reports : UpdateAfterUnpause(s, report)]_vars

(* The rate limit is all that may delay it: a paid report in time, made    *)
(* after the unpause and not too soon after the last price, is stored      *)
(* whatever the deviation and whatever else its batch holds.               *)
Recovered(s, report, exempt) ==
  LET d == strategyData[s]
  IN  /\ ~d.isPaused /\ d.ppsStale
      /\ report.pps > 0 /\ ~Unpaid(s, exempt)
      /\ d.lastUnpauseTimestamp < report.timestamp /\ report.timestamp <= now
      /\ now <= report.timestamp + MaxStaleness
      /\ report.timestamp >= d.lastUpdateTimestamp + MinUpdateInterval
      => /\ strategyData'[s].pps = report.pps /\ strategyData'[s].lastUpdateTimestamp = report.timestamp
         /\ ~strategyData'[s].ppsStale /\ ~strategyData'[s].isPaused

OnlyRateLimitDelays ==
  [][\A S \in SUBSET Strategies : \A reports \in [S -> Reports], exempt \in BOOLEAN :
       UpdatePPS(reports, exempt) => \A s \in S : Recovered(s, reports[s], exempt)]_vars
=============================================================================
