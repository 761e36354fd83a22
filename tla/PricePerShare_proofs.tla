------------------------ MODULE PricePerShare_proofs ------------------------
(***************************************************************************)
(* Type correctness of PricePerShare, the recovery of prices after a       *)
(* pause, the backing of upkeep, the order of skims and reports, and what  *)
(* bounds charges, prices and high-water marks, for every set of           *)
(* strategies and every value of the constants.                            *)
(***************************************************************************)
EXTENDS PricePerShare, Arithmetic_proofs

LEMMA ConstantFacts ==
  /\ PRECISION \in Nat \ {0} /\ BPS_PRECISION \in Nat \ {0}
  /\ IsFiniteSet(Strategies)
  /\ Prices \subseteq Nat /\ Supplies \subseteq Nat /\ Thresholds \subseteq Nat
  /\ DefaultThreshold \in Nat /\ MaxStaleness \in Nat /\ MinUpdateInterval \in Nat
  /\ UpkeepCost \in Nat \ {0} /\ PerformanceFeeBps \in Nat
  /\ Start \in Nat \ {0} /\ MaxTime \in Nat /\ MaxUpkeep \in Nat
  /\ WithdrawalTimelock \in Nat
<1>1. PerformanceFeeBps \in Nat
  <2>1. MaxPerformanceFee \in Nat /\ PerformanceFeeBps \in 0 .. MaxPerformanceFee
    BY PriceAssumption, PrecisionAssumption
  <2>2. QED BY <2>1
<1>2. QED BY <1>1, PrecisionAssumption, PriceAssumption

(* The inductive invariant.  The types say that nothing stored is in the   *)
(* future: without that a skim, which dates the price at the present,      *)
(* could move a timestamp back behind the last unpause.                    *)
IInv ==
  /\ TypeOK
  /\ RecoveryState
  /\ UpkeepBacked
  /\ SkimNotUndone

(* What the invariant says of one record.                                  *)
Sound(d, time, skimmed) ==
  /\ d \in StrategyData
  /\ d.lastUpdateTimestamp <= time /\ d.lastUnpauseTimestamp <= time
  /\ Recovers(d)
  /\ d.lastUpdateTimestamp >= skimmed

LEMMA RecordsSound ==
  ASSUME IInv
  PROVE  \A s \in Strategies : Sound(strategyData[s], now, skimmedAt[s])
  BY DEF IInv, TypeOK, RecoveryState, SkimNotUndone, Sound

(* The invariant from its parts: the records, and the rest of the types.   *)
LEMMA InvFromParts ==
  ASSUME TypeOK',
         \A s \in Strategies : Recovers(strategyData'[s]),
         \A s \in Strategies : strategyData'[s].lastUpdateTimestamp >= skimmedAt'[s],
         upkeepTokens' = SumOver(upkeepBalance', Strategies) + claimableUpkeep'
  PROVE  IInv'
  BY DEF IInv, RecoveryState, UpkeepBacked, SkimNotUndone

(* A step that changes records only, each into a sound one.                *)
LEMMA RecordStepInv ==
  ASSUME IInv, UNCHANGED <<now, upkeepVars>>,
         vaultHwmPps' \in [Strategies -> Nat \ {0}],
         noncePerStrategy' \in [Strategies -> Nat],
         skimmedAt' \in [Strategies -> Nat],
         DOMAIN strategyData' = Strategies,
         strategyData' = [s \in Strategies |-> strategyData'[s]],
         \A s \in Strategies : Sound(strategyData'[s], now, skimmedAt'[s])
  PROVE  IInv'
<1>1. strategyData' \in [Strategies -> StrategyData]
  BY DEF Sound
<1>2. TypeOK'
  BY <1>1 DEF IInv, TypeOK, Sound, upkeepVars
<1>3. upkeepTokens' = SumOver(upkeepBalance', Strategies) + claimableUpkeep'
  BY DEF IInv, UpkeepBacked, upkeepVars
<1>4. QED BY <1>2, <1>3, InvFromParts DEF Sound

(* A step that leaves every record alone.                                  *)
LEMMA UpkeepStepInv ==
  ASSUME IInv, UNCHANGED <<now, strategyData, vaultHwmPps, noncePerStrategy, skimmedAt>>,
         upkeepBalance' \in [Strategies -> Nat],
         claimableUpkeep' \in Nat, upkeepTokens' \in Nat,
         pendingUpkeepWithdrawals' \in [Strategies -> Withdrawal],
         charged' \in [Strategies -> Nat],
         upkeepTokens' = SumOver(upkeepBalance', Strategies) + claimableUpkeep'
  PROVE  IInv'
<1>1. TypeOK'
  BY DEF IInv, TypeOK
<1>2. QED BY <1>1, InvFromParts DEF IInv, RecoveryState, SkimNotUndone

(* A balance that changes for one strategy changes the sum by as much.     *)
LEMMA BalanceUpdate ==
  ASSUME NEW f \in [Strategies -> Nat], NEW s \in Strategies, NEW n \in Nat
  PROVE  /\ SumOver([f EXCEPT ![s] = n], Strategies) = SumOver(f, Strategies) - f[s] + n
         /\ SumOver(f, Strategies) \in Nat
         /\ f[s] <= SumOver(f, Strategies)
<1> DEFINE g == [f EXCEPT ![s] = n]
<1>1. /\ \A r \in Strategies : f[r] \in Nat /\ g[r] \in Nat
      /\ \A r \in Strategies \ {s} : g[r] = f[r]
      /\ g[s] = n
  OBVIOUS
<1> HIDE DEF g
<1>2. SumOver(g, Strategies) = SumOver(f, Strategies) - f[s] + g[s]
  BY <1>1, ConstantFacts, SumUpdate
<1>3. SumOver(f, Strategies) \in Nat /\ f[s] <= SumOver(f, Strategies)
  BY <1>1, ConstantFacts, SumType, SumMember
<1>4. QED BY <1>1, <1>2, <1>3 DEF g

-----------------------------------------------------------------------------
(* Reports.                                                                *)

LEMMA ChargeType ==
  ASSUME TypeOK, NEW s \in Strategies, NEW report \in Reports, NEW exempt \in BOOLEAN
  PROVE  Charge(s, report, exempt) \in 0 .. upkeepBalance[s]
<1>1. upkeepBalance[s] \in Nat /\ UpkeepCost \in Nat
  BY ConstantFacts DEF TypeOK
<1>2. QED BY <1>1 DEF Charge, Unpaid

LEMMA ForwardedSound ==
  ASSUME IInv, NEW s \in Strategies, NEW report \in Reports, NEW exempt \in BOOLEAN
  PROVE  Sound(Forwarded(s, report, exempt), now, skimmedAt[s])
<1>1. Sound(strategyData[s], now, skimmedAt[s])
  BY RecordsSound
<1>2. /\ now \in Nat /\ skimmedAt[s] \in Nat
      /\ report.pps \in Nat /\ report.timestamp \in Nat
  <2>1. report.pps \in Prices /\ report.timestamp \in Start .. MaxTime
    BY DEF Reports
  <2>2. report.pps \in Nat /\ report.timestamp \in Nat
    <3>1. Prices \subseteq Nat /\ Start \in Nat /\ MaxTime \in Nat
      BY ConstantFacts
    <3>2. \A n \in Start .. MaxTime : n \in Nat
      BY <3>1
    <3>3. QED BY <2>1, <3>1, <3>2
  <2>3. QED BY <2>2 DEF IInv, TypeOK
<1>3. CASE Accepted(s, report, exempt)
  <2> DEFINE d == [strategyData[s] EXCEPT !.pps = report.pps,
                                          !.lastUpdateTimestamp = report.timestamp,
                                          !.ppsStale = FALSE]
  <2>1. Forwarded(s, report, exempt) = d
    BY <1>3 DEF Forwarded, Accepted
  <2>2. /\ report.timestamp <= now /\ ~strategyData[s].isPaused /\ report.pps # 0
        /\ report.timestamp > strategyData[s].lastUpdateTimestamp
        /\ ~(/\ strategyData[s].lastUnpauseTimestamp > 0
             /\ report.timestamp <= strategyData[s].lastUnpauseTimestamp)
    BY <1>1, <1>2, <1>3 DEF Accepted, Ignored, Rejected, OutOfOrder, Sound, StrategyData
  <2>3. /\ d \in StrategyData /\ d.lastUpdateTimestamp = report.timestamp
        /\ d.lastUnpauseTimestamp = strategyData[s].lastUnpauseTimestamp
        /\ d.isPaused = strategyData[s].isPaused /\ d.ppsStale = FALSE
    BY <1>1, <1>2, <2>2 DEF Sound, StrategyData
  <2> HIDE DEF d
  <2>4. strategyData[s].lastUpdateTimestamp >= skimmedAt[s]
        /\ strategyData[s].lastUpdateTimestamp \in Nat
        /\ strategyData[s].lastUnpauseTimestamp \in Nat
        /\ strategyData[s].lastUnpauseTimestamp <= now
    BY <1>1 DEF Sound, StrategyData
  <2>5. Sound(d, now, skimmedAt[s])
    BY <1>2, <2>2, <2>3, <2>4 DEF Sound, Recovers
  <2>6. QED BY <2>1, <2>5
<1>4. CASE ~Accepted(s, report, exempt) /\ Ignored(s, report.timestamp)
  BY <1>1, <1>4 DEF Forwarded
<1>5. CASE ~Accepted(s, report, exempt) /\ ~Ignored(s, report.timestamp)
  <2>1. Forwarded(s, report, exempt) =
          [strategyData[s] EXCEPT !.isPaused = TRUE, !.ppsStale = TRUE]
    BY <1>5 DEF Forwarded
  <2>2. QED BY <1>1, <2>1 DEF Sound, StrategyData, Recovers
<1>6. QED BY <1>3, <1>4, <1>5

LEMMA UpdatePPSInv ==
  ASSUME IInv, NEW S \in SUBSET Strategies, NEW reports \in [S -> Reports],
         NEW exempt \in BOOLEAN, UpdatePPS(reports, exempt)
  PROVE  IInv'
<1> DEFINE c == Charges(reports, exempt)
<1>1. \A s \in Strategies : c[s] \in 0 .. upkeepBalance[s]
  <2> SUFFICES ASSUME NEW s \in Strategies
               PROVE  c[s] \in 0 .. upkeepBalance[s]
    OBVIOUS
  <2>1. CASE s \in S
    <3>1. reports[s] \in Reports
      BY <2>1
    <3>2. Charge(s, reports[s], exempt) \in 0 .. upkeepBalance[s]
      BY <3>1, ChargeType DEF IInv
    <3>3. QED BY <2>1, <3>2 DEF Charges
  <2>2. CASE s \notin S
    BY <2>2 DEF Charges, IInv, TypeOK
  <2>3. QED BY <2>1, <2>2
<1>2. /\ upkeepBalance' = [s \in Strategies |-> upkeepBalance[s] - c[s]]
      /\ claimableUpkeep' = claimableUpkeep + SumOver(c, Strategies)
      /\ charged' = [s \in Strategies |-> charged[s] + c[s]]
  BY DEF UpdatePPS
<1> HIDE DEF c
<1>3. \A s \in Strategies : upkeepBalance[s] \in Nat /\ charged[s] \in Nat
  BY DEF IInv, TypeOK
<1>4. \A s \in Strategies : c[s] \in Nat /\ upkeepBalance[s] - c[s] \in Nat
                             /\ charged[s] + c[s] \in Nat
  BY <1>1, <1>3
<1>5. upkeepBalance' \in [Strategies -> Nat] /\ charged' \in [Strategies -> Nat]
  BY <1>2, <1>4
<1>6. SumOver(upkeepBalance, Strategies) =
        SumOver(upkeepBalance', Strategies) + SumOver(c, Strategies)
  <2>1. \A s \in Strategies : /\ upkeepBalance'[s] \in Nat /\ c[s] \in Nat
                              /\ upkeepBalance[s] = upkeepBalance'[s] + c[s]
    BY <1>1, <1>2, <1>3, <1>4
  <2>2. QED BY <2>1, ConstantFacts, SumAdd
<1>7. SumOver(c, Strategies) \in Nat /\ SumOver(upkeepBalance', Strategies) \in Nat
  <2>1. \A s \in Strategies : c[s] \in Nat /\ upkeepBalance'[s] \in Nat
    BY <1>4, <1>5
  <2>2. QED BY <2>1, ConstantFacts, SumType
<1>8. upkeepTokens' = SumOver(upkeepBalance', Strategies) + claimableUpkeep'
  BY <1>2, <1>6, <1>7 DEF IInv, TypeOK, UpkeepBacked, UpdatePPS
<1>9. \A s \in Strategies : Sound(strategyData'[s], now, skimmedAt[s])
  <2> SUFFICES ASSUME NEW s \in Strategies
               PROVE  Sound(strategyData'[s], now, skimmedAt[s])
    OBVIOUS
  <2>1. CASE s \in S
    <3>1. reports[s] \in Reports
      BY <2>1
    <3>2. strategyData'[s] = Forwarded(s, reports[s], exempt)
      BY <2>1 DEF UpdatePPS
    <3>3. QED BY <3>1, <3>2, ForwardedSound
  <2>2. CASE s \notin S
    <3>1. strategyData'[s] = strategyData[s]
      BY <2>2 DEF UpdatePPS
    <3>2. QED BY <3>1, RecordsSound
  <2>3. QED BY <2>1, <2>2
<1>10. strategyData' \in [Strategies -> StrategyData]
  BY <1>9 DEF UpdatePPS, Sound
<1>11. noncePerStrategy' \in [Strategies -> Nat]
  BY DEF UpdatePPS, NextNonces, IInv, TypeOK
<1>12. claimableUpkeep' \in Nat
  BY <1>2, <1>7 DEF IInv, TypeOK
<1>13. UNCHANGED <<now, vaultHwmPps, upkeepTokens, pendingUpkeepWithdrawals, skimmedAt>>
  BY DEF UpdatePPS
<1>14. TypeOK'
  BY <1>5, <1>9, <1>10, <1>11, <1>12, <1>13 DEF IInv, TypeOK, Sound
<1>15. QED BY <1>8, <1>9, <1>13, <1>14, InvFromParts DEF Sound

-----------------------------------------------------------------------------
(* Pauses, thresholds, skims and marks.                                    *)

(* One record is replaced by a sound one.                                  *)
LEMMA OneRecordInv ==
  ASSUME IInv, UNCHANGED <<now, upkeepVars, noncePerStrategy>>,
         vaultHwmPps' \in [Strategies -> Nat \ {0}],
         NEW s \in Strategies, NEW d,
         strategyData' = [strategyData EXCEPT ![s] = d],
         skimmedAt' \in [Strategies -> Nat],
         \A r \in Strategies \ {s} : skimmedAt'[r] = skimmedAt[r],
         Sound(d, now, skimmedAt'[s])
  PROVE  IInv'
<1>1. strategyData \in [Strategies -> StrategyData]
  BY DEF IInv, TypeOK
<1>2. strategyData'[s] = d /\ \A r \in Strategies \ {s} : strategyData'[r] = strategyData[r]
  BY <1>1
<1>3. \A r \in Strategies : Sound(strategyData'[r], now, skimmedAt'[r])
  BY <1>2, RecordsSound
<1>4. strategyData' = [r \in Strategies |-> strategyData'[r]] /\ DOMAIN strategyData' = Strategies
  BY <1>1
<1>5. noncePerStrategy' \in [Strategies -> Nat]
  BY DEF IInv, TypeOK
<1>6. UNCHANGED <<now, upkeepVars>>
  OBVIOUS
<1>7. QED BY <1>3, <1>4, <1>5, <1>6, RecordStepInv

LEMMA PauseStrategyInv ==
  ASSUME IInv, NEW s \in Strategies, PauseStrategy(s)
  PROVE  IInv'
<1> DEFINE d == [strategyData[s] EXCEPT !.isPaused = TRUE, !.ppsStale = TRUE]
<1>1. Sound(d, now, skimmedAt[s])
  BY RecordsSound DEF Sound, StrategyData, Recovers
<1>2. strategyData' = [strategyData EXCEPT ![s] = d]
      /\ UNCHANGED <<now, upkeepVars, noncePerStrategy>> /\ UNCHANGED <<vaultHwmPps, skimmedAt>>
  BY DEF PauseStrategy
<1> HIDE DEF d
<1>3. QED BY <1>1, <1>2, OneRecordInv DEF IInv, TypeOK

LEMMA UnpauseStrategyInv ==
  ASSUME IInv, NEW s \in Strategies, UnpauseStrategy(s)
  PROVE  IInv'
<1> DEFINE d == [strategyData[s] EXCEPT !.isPaused = FALSE, !.lastUnpauseTimestamp = now]
<1>1. now \in Nat \ {0} /\ Sound(strategyData[s], now, skimmedAt[s]) /\ strategyData[s].isPaused
  BY RecordsSound DEF IInv, TypeOK, UnpauseStrategy
<1>2. Sound(d, now, skimmedAt[s])
  <2>1. /\ d \in StrategyData /\ d.lastUpdateTimestamp = strategyData[s].lastUpdateTimestamp
        /\ d.lastUnpauseTimestamp = now
        /\ d.isPaused = FALSE /\ d.ppsStale = strategyData[s].ppsStale
    BY <1>1 DEF Sound, StrategyData
  <2>2. /\ strategyData[s].ppsStale
        /\ strategyData[s].lastUpdateTimestamp \in Nat
        /\ strategyData[s].lastUpdateTimestamp <= now
        /\ strategyData[s].lastUpdateTimestamp >= skimmedAt[s]
    BY <1>1 DEF Sound, StrategyData, Recovers
  <2> HIDE DEF d
  <2>3. Recovers(d)
    BY <1>1, <2>1, <2>2 DEF Recovers
  <2>4. QED BY <1>1, <2>1, <2>2, <2>3 DEF Sound
<1>3. strategyData' = [strategyData EXCEPT ![s] = d]
      /\ UNCHANGED <<now, upkeepVars, noncePerStrategy>> /\ UNCHANGED <<vaultHwmPps, skimmedAt>>
  BY DEF UnpauseStrategy
<1> HIDE DEF d
<1>4. QED BY <1>2, <1>3, OneRecordInv DEF IInv, TypeOK

LEMMA UpdateDeviationThresholdInv ==
  ASSUME IInv, NEW s \in Strategies, NEW threshold \in Thresholds,
         UpdateDeviationThreshold(s, threshold)
  PROVE  IInv'
<1> DEFINE d == [strategyData[s] EXCEPT !.deviationThreshold = threshold]
<1>1. threshold \in Nat /\ Sound(strategyData[s], now, skimmedAt[s])
  BY RecordsSound, ConstantFacts
<1>2. Sound(d, now, skimmedAt[s])
  BY <1>1 DEF Sound, StrategyData, Recovers
<1>3. strategyData' = [strategyData EXCEPT ![s] = d]
      /\ UNCHANGED <<now, upkeepVars, noncePerStrategy>> /\ UNCHANGED <<vaultHwmPps, skimmedAt>>
  BY DEF UpdateDeviationThreshold
<1> HIDE DEF d
<1>4. QED BY <1>2, <1>3, OneRecordInv DEF IInv, TypeOK

(* The fee and the price after it are amounts.                             *)
LEMMA PPSAfterFeeType ==
  ASSUME NEW pps \in Nat, NEW hwm \in Nat, NEW supply \in Nat \ {0}, pps > hwm,
         NEW fee, fee = SkimFee(pps, hwm, supply), PPSAfterFee(pps, fee, supply) > 0
  PROVE  PPSAfterFee(pps, fee, supply) \in Nat \ {0}
<1>1. pps - hwm \in Nat
  OBVIOUS
<1>2. MulDivFloor(pps - hwm, supply, PRECISION) \in Nat
  BY <1>1, ConstantFacts, MulDivType
<1>3. fee \in Nat
  BY <1>2, ConstantFacts, MulDivType DEF SkimFee
<1>4. MulDivFloor(fee, PRECISION, supply) \in Nat
  BY <1>3, ConstantFacts, MulDivType
<1>5. QED BY <1>4 DEF PPSAfterFee

LEMMA SkimPerformanceFeeInv ==
  ASSUME IInv, NEW s \in Strategies, NEW supply \in Supplies, SkimPerformanceFee(s, supply)
  PROVE  IInv'
<1> DEFINE oldPPS == strategyData[s].pps
           fee    == SkimFee(oldPPS, vaultHwmPps[s], supply)
           newPPS == PPSAfterFee(oldPPS, fee, supply)
           d      == [strategyData[s] EXCEPT !.pps = newPPS, !.lastUpdateTimestamp = now]
<1>1. /\ now \in Nat \ {0} /\ Sound(strategyData[s], now, skimmedAt[s])
      /\ vaultHwmPps \in [Strategies -> Nat \ {0}] /\ skimmedAt \in [Strategies -> Nat]
  BY RecordsSound DEF IInv, TypeOK
<1>2. ~strategyData[s].isPaused /\ ~strategyData[s].ppsStale
  BY DEF SkimPerformanceFee, StrategyStateValid
<1>3. newPPS \in Nat \ {0}
  <2>1. oldPPS \in Nat /\ vaultHwmPps[s] \in Nat
    BY <1>1 DEF Sound, StrategyData
  <2>2. supply \in Nat /\ supply > 0 /\ oldPPS > vaultHwmPps[s] /\ newPPS > 0
    BY ConstantFacts DEF SkimPerformanceFee
  <2>3. supply \in Nat \ {0}
    BY <2>2
  <2> HIDE DEF oldPPS
  <2>4. QED BY <2>1, <2>2, <2>3, PPSAfterFeeType
<1>4. /\ strategyData' = [strategyData EXCEPT ![s] = d]
      /\ vaultHwmPps' = [vaultHwmPps EXCEPT ![s] = newPPS]
      /\ skimmedAt' = [skimmedAt EXCEPT ![s] = now]
      /\ UNCHANGED <<now, upkeepVars, noncePerStrategy>>
  BY DEF SkimPerformanceFee, SkimTimestamp
<1> HIDE DEF newPPS, fee, oldPPS
<1>5. Sound(d, now, now)
  <2>1. /\ d \in StrategyData /\ d.lastUpdateTimestamp = now
        /\ d.lastUnpauseTimestamp = strategyData[s].lastUnpauseTimestamp
        /\ d.isPaused = FALSE /\ d.ppsStale = FALSE
    BY <1>1, <1>2, <1>3 DEF Sound, StrategyData
  <2>2. /\ strategyData[s].lastUnpauseTimestamp \in Nat
        /\ strategyData[s].lastUpdateTimestamp \in Nat
        /\ strategyData[s].lastUnpauseTimestamp <= now
        /\ strategyData[s].lastUpdateTimestamp <= now
        /\ ~(/\ strategyData[s].lastUnpauseTimestamp > 0
             /\ strategyData[s].lastUpdateTimestamp <= strategyData[s].lastUnpauseTimestamp)
    BY <1>1, <1>2 DEF Sound, StrategyData, Recovers
  <2> HIDE DEF d
  <2>3. QED BY <1>1, <2>1, <2>2 DEF Sound, Recovers
<1> HIDE DEF d
<1>6. /\ skimmedAt'[s] = now /\ skimmedAt' \in [Strategies -> Nat]
      /\ \A r \in Strategies \ {s} : skimmedAt'[r] = skimmedAt[r]
      /\ vaultHwmPps' \in [Strategies -> Nat \ {0}]
  BY <1>1, <1>3, <1>4
<1>7. QED BY <1>4, <1>5, <1>6, OneRecordInv

LEMMA ResetHighWaterMarkInv ==
  ASSUME IInv, NEW s \in Strategies, ResetHighWaterMark(s)
  PROVE  IInv'
<1>1. strategyData[s].pps \in Nat \ {0}
  BY DEF IInv, TypeOK, StrategyData
<1>2. vaultHwmPps' \in [Strategies -> Nat \ {0}]
  BY <1>1 DEF ResetHighWaterMark, IInv, TypeOK
<1>3. UNCHANGED <<now, strategyData, noncePerStrategy, skimmedAt>> /\ UNCHANGED <<now, upkeepVars>>
  BY DEF ResetHighWaterMark
<1>4. TypeOK'
  BY <1>2, <1>3 DEF IInv, TypeOK, upkeepVars
<1>5. QED BY <1>3, <1>4, InvFromParts
          DEF IInv, RecoveryState, SkimNotUndone, UpkeepBacked, upkeepVars

-----------------------------------------------------------------------------
(* Upkeep.                                                                 *)

LEMMA DepositUpkeepInv ==
  ASSUME IInv, NEW s \in Strategies, NEW amount \in 1 .. MaxUpkeep, DepositUpkeep(s, amount)
  PROVE  IInv'
<1>1. /\ amount \in Nat /\ upkeepBalance \in [Strategies -> Nat]
      /\ claimableUpkeep \in Nat /\ upkeepTokens \in Nat
      /\ pendingUpkeepWithdrawals \in [Strategies -> Withdrawal]
      /\ charged \in [Strategies -> Nat]
      /\ upkeepTokens = SumOver(upkeepBalance, Strategies) + claimableUpkeep
  BY ConstantFacts DEF IInv, TypeOK, UpkeepBacked
<1> DEFINE n == upkeepBalance[s] + amount
<1>2. n \in Nat
  BY <1>1
<1>3. /\ upkeepBalance' = [upkeepBalance EXCEPT ![s] = n]
      /\ upkeepTokens' = upkeepTokens + amount
      /\ UNCHANGED <<claimableUpkeep, pendingUpkeepWithdrawals, charged>>
      /\ UNCHANGED <<now, strategyData, vaultHwmPps, noncePerStrategy, skimmedAt>>
  BY DEF DepositUpkeep
<1>4. /\ SumOver(upkeepBalance, Strategies) \in Nat
      /\ \A m \in Nat : SumOver([upkeepBalance EXCEPT ![s] = m], Strategies)
                          = SumOver(upkeepBalance, Strategies) - upkeepBalance[s] + m
  BY <1>1, BalanceUpdate
<1>5. SumOver(upkeepBalance', Strategies) = SumOver(upkeepBalance, Strategies) + amount
  <2>1. n = upkeepBalance[s] + amount /\ upkeepBalance[s] \in Nat
    BY <1>1
  <2> HIDE DEF n
  <2>2. SumOver(upkeepBalance', Strategies) =
          SumOver(upkeepBalance, Strategies) - upkeepBalance[s] + n
    BY <1>2, <1>3, <1>4
  <2>3. QED BY <1>1, <1>4, <2>1, <2>2
<1>6. upkeepBalance' \in [Strategies -> Nat]
  BY <1>1, <1>2, <1>3
<1> HIDE DEF n
<1>7. upkeepTokens' = SumOver(upkeepBalance', Strategies) + claimableUpkeep'
      /\ upkeepTokens' \in Nat
  BY <1>1, <1>3, <1>4, <1>5
<1>8. QED BY <1>1, <1>3, <1>6, <1>7, UpkeepStepInv

LEMMA ProposeWithdrawUpkeepInv ==
  ASSUME IInv, NEW s \in Strategies, ProposeWithdrawUpkeep(s)
  PROVE  IInv'
<1> DEFINE w == [amount |-> upkeepBalance[s], effectiveTime |-> now + WithdrawalTimelock]
<1>1. w \in Withdrawal
  BY ConstantFacts DEF IInv, TypeOK, Withdrawal
<1>2. /\ pendingUpkeepWithdrawals' = [pendingUpkeepWithdrawals EXCEPT ![s] = w]
      /\ UNCHANGED <<upkeepBalance, claimableUpkeep, upkeepTokens, charged>>
      /\ UNCHANGED <<now, strategyData, vaultHwmPps, noncePerStrategy, skimmedAt>>
  BY DEF ProposeWithdrawUpkeep
<1> HIDE DEF w
<1>3. QED BY <1>1, <1>2, UpkeepStepInv DEF IInv, TypeOK, UpkeepBacked

LEMMA ChangePrimaryManagerInv ==
  ASSUME IInv, NEW s \in Strategies, ChangePrimaryManager(s)
  PROVE  IInv'
<1>1. NoWithdrawal \in Withdrawal
  BY DEF NoWithdrawal, Withdrawal
<1>2. /\ pendingUpkeepWithdrawals' = [pendingUpkeepWithdrawals EXCEPT ![s] = NoWithdrawal]
      /\ UNCHANGED <<upkeepBalance, claimableUpkeep, upkeepTokens, charged>>
      /\ UNCHANGED <<now, strategyData, vaultHwmPps, noncePerStrategy, skimmedAt>>
  BY DEF ChangePrimaryManager
<1>3. QED BY <1>1, <1>2, UpkeepStepInv DEF IInv, TypeOK, UpkeepBacked

LEMMA ExecuteWithdrawUpkeepInv ==
  ASSUME IInv, NEW s \in Strategies, ExecuteWithdrawUpkeep(s)
  PROVE  IInv'
<1> DEFINE amount == WithdrawalAmount(s)
           n      == upkeepBalance[s] - amount
<1>1. /\ upkeepBalance \in [Strategies -> Nat] /\ upkeepBalance[s] \in Nat
      /\ pendingUpkeepWithdrawals \in [Strategies -> Withdrawal]
      /\ claimableUpkeep \in Nat /\ upkeepTokens \in Nat /\ charged \in [Strategies -> Nat]
      /\ upkeepTokens = SumOver(upkeepBalance, Strategies) + claimableUpkeep
  BY DEF IInv, TypeOK, UpkeepBacked
<1>2. amount \in Nat /\ n \in Nat
  <2>1. pendingUpkeepWithdrawals[s].amount \in Nat
    BY <1>1 DEF Withdrawal
  <2>2. QED BY <1>1, <2>1 DEF WithdrawalAmount
<1>3. /\ upkeepBalance' = [upkeepBalance EXCEPT ![s] = n]
      /\ upkeepTokens' = upkeepTokens - amount
      /\ pendingUpkeepWithdrawals' = [pendingUpkeepWithdrawals EXCEPT ![s] = NoWithdrawal]
      /\ UNCHANGED <<claimableUpkeep, charged>>
      /\ UNCHANGED <<now, strategyData, vaultHwmPps, noncePerStrategy, skimmedAt>>
  BY DEF ExecuteWithdrawUpkeep
<1>4. /\ SumOver(upkeepBalance, Strategies) \in Nat
      /\ upkeepBalance[s] <= SumOver(upkeepBalance, Strategies)
      /\ \A m \in Nat : SumOver([upkeepBalance EXCEPT ![s] = m], Strategies)
                          = SumOver(upkeepBalance, Strategies) - upkeepBalance[s] + m
  BY <1>1, BalanceUpdate
<1>5. upkeepBalance' \in [Strategies -> Nat]
  BY <1>1, <1>2, <1>3
<1> HIDE DEF amount
<1>6. SumOver(upkeepBalance', Strategies) = SumOver(upkeepBalance, Strategies) - amount
  <2>1. n = upkeepBalance[s] - amount
    BY <1>1
  <2> HIDE DEF n
  <2>2. SumOver(upkeepBalance', Strategies) =
          SumOver(upkeepBalance, Strategies) - upkeepBalance[s] + n
    BY <1>2, <1>3, <1>4
  <2>3. QED BY <1>1, <1>2, <1>4, <2>1, <2>2
<1>7. upkeepTokens' = SumOver(upkeepBalance', Strategies) + claimableUpkeep'
      /\ upkeepTokens' \in Nat
  BY <1>1, <1>2, <1>3, <1>4, <1>6
<1>8. pendingUpkeepWithdrawals' \in [Strategies -> Withdrawal]
  BY <1>1, <1>3 DEF NoWithdrawal, Withdrawal
<1>9. QED BY <1>1, <1>3, <1>5, <1>7, <1>8, UpkeepStepInv

LEMMA ClaimUpkeepInv ==
  ASSUME IInv, NEW amount \in 1 .. MaxUpkeep, ClaimUpkeep(amount)
  PROVE  IInv'
<1>1. /\ upkeepBalance \in [Strategies -> Nat] /\ amount \in Nat
      /\ pendingUpkeepWithdrawals \in [Strategies -> Withdrawal]
      /\ claimableUpkeep \in Nat /\ upkeepTokens \in Nat /\ charged \in [Strategies -> Nat]
      /\ upkeepTokens = SumOver(upkeepBalance, Strategies) + claimableUpkeep
  BY ConstantFacts DEF IInv, TypeOK, UpkeepBacked
<1>2. /\ amount <= claimableUpkeep /\ amount <= upkeepTokens
      /\ claimableUpkeep' = claimableUpkeep - amount
      /\ upkeepTokens' = upkeepTokens - amount
      /\ UNCHANGED <<upkeepBalance, pendingUpkeepWithdrawals, charged>>
      /\ UNCHANGED <<now, strategyData, vaultHwmPps, noncePerStrategy, skimmedAt>>
  BY DEF ClaimUpkeep
<1>3. SumOver(upkeepBalance, Strategies) \in Nat
  BY <1>1, ConstantFacts, SumType
<1>4. upkeepTokens' = SumOver(upkeepBalance', Strategies) + claimableUpkeep'
      /\ upkeepTokens' \in Nat /\ claimableUpkeep' \in Nat
  BY <1>1, <1>2, <1>3
<1>5. QED BY <1>1, <1>2, <1>4, UpkeepStepInv

LEMMA TickInv ==
  ASSUME IInv, Tick
  PROVE  IInv'
<1>1. /\ now \in Nat \ {0} /\ now' = now + 1
      /\ UNCHANGED <<strategyData, vaultHwmPps, noncePerStrategy, skimmedAt>>
      /\ UNCHANGED upkeepVars
  BY DEF Tick, IInv, TypeOK
<1>2. \A s \in Strategies : /\ strategyData[s] \in StrategyData
                            /\ strategyData[s].lastUpdateTimestamp <= now
                            /\ strategyData[s].lastUnpauseTimestamp <= now
  BY DEF IInv, TypeOK
<1>3. \A s \in Strategies : /\ strategyData[s].lastUpdateTimestamp <= now'
                            /\ strategyData[s].lastUnpauseTimestamp <= now'
  BY <1>1, <1>2 DEF StrategyData
<1>4. now' \in Nat \ {0}
  BY <1>1
<1>5. TypeOK'
  BY <1>1, <1>3, <1>4 DEF IInv, TypeOK, upkeepVars
<1>6. QED BY <1>1, <1>5, InvFromParts
          DEF IInv, RecoveryState, SkimNotUndone, UpkeepBacked, upkeepVars

-----------------------------------------------------------------------------
LEMMA InitInv == Init => IInv
<1> SUFFICES ASSUME Init PROVE IInv
  OBVIOUS
<1>1. SumOver(upkeepBalance, Strategies) = 0
  <2>1. \A s \in Strategies : upkeepBalance[s] = 0
    BY DEF Init
  <2>2. QED BY <2>1, SumZero
<1>2. TypeOK
  BY ConstantFacts DEF Init, TypeOK, StrategyData, Withdrawal, NoWithdrawal
<1>3. RecoveryState /\ SkimNotUndone
  BY ConstantFacts DEF Init, RecoveryState, Recovers, SkimNotUndone
<1>4. UpkeepBacked
  BY <1>1 DEF Init, UpkeepBacked
<1>5. QED BY <1>2, <1>3, <1>4 DEF IInv

LEMMA NextInv == IInv /\ [Next]_vars => IInv'
<1>1. IInv /\ Next => IInv'
  BY UpdatePPSInv, PauseStrategyInv, UnpauseStrategyInv, UpdateDeviationThresholdInv,
     SkimPerformanceFeeInv, ResetHighWaterMarkInv, DepositUpkeepInv,
     ProposeWithdrawUpkeepInv, ExecuteWithdrawUpkeepInv, ChangePrimaryManagerInv,
     ClaimUpkeepInv, TickInv
     DEF Next
<1>2. IInv /\ UNCHANGED vars => IInv'
  BY DEF vars, upkeepVars, IInv, TypeOK, RecoveryState, UpkeepBacked, SkimNotUndone
<1>3. QED BY <1>1, <1>2

(* Every reachable state satisfies the inductive invariant.                *)
THEOREM Invariance == Spec => []IInv
  BY InitInv, NextInv, PTL DEF Spec

(* Records, balances and nonces keep their types, and nothing stored is    *)
(* dated in the future.                                                    *)
THEOREM TypeCorrectness == Spec => []TypeOK
<1>1. IInv => TypeOK
  BY DEF IInv
<1>2. QED BY <1>1, Invariance, PTL

(* No report from before an unpause, and no skim, makes a price usable     *)
(* again.                                                                  *)
THEOREM PricesRecover == Spec => []RecoveryState
<1>1. IInv => RecoveryState
  BY DEF IInv
<1>2. QED BY <1>1, Invariance, PTL

(* The aggregator holds exactly the unspent and the unclaimed upkeep.      *)
THEOREM UpkeepIsBacked == Spec => []UpkeepBacked
<1>1. IInv => UpkeepBacked
  BY DEF IInv
<1>2. QED BY <1>1, Invariance, PTL

(* A price measured before a skim never replaces the skimmed one.          *)
THEOREM SkimsStay == Spec => []SkimNotUndone
<1>1. IInv => SkimNotUndone
  BY DEF IInv
<1>2. QED BY <1>1, Invariance, PTL

-----------------------------------------------------------------------------
(* Reports are paid for once.                                              *)

(* A step charges a strategy at most the cost of one report, and nothing   *)
(* unless the strategy's nonce moves on.                                   *)
LEMMA ChargedStep ==
  ASSUME IInv, [Next]_vars, NEW s \in Strategies
  PROVE  \/ charged'[s] = charged[s] /\ noncePerStrategy'[s] \in
              {noncePerStrategy[s], noncePerStrategy[s] + 1}
         \/ charged'[s] = charged[s] + UpkeepCost
            /\ noncePerStrategy'[s] = noncePerStrategy[s] + 1
<1>1. charged[s] \in Nat /\ noncePerStrategy[s] \in Nat /\ UpkeepCost \in Nat
  BY ConstantFacts DEF IInv, TypeOK
<1>2. CASE UNCHANGED <<charged, noncePerStrategy>>
  BY <1>2
<1>3. ASSUME NEW S \in SUBSET Strategies, NEW reports \in [S -> Reports],
             NEW exempt \in BOOLEAN, UpdatePPS(reports, exempt)
      PROVE  \/ charged'[s] = charged[s] /\ noncePerStrategy'[s] \in
                  {noncePerStrategy[s], noncePerStrategy[s] + 1}
             \/ charged'[s] = charged[s] + UpkeepCost
                /\ noncePerStrategy'[s] = noncePerStrategy[s] + 1
  <2>1. charged'[s] = charged[s] + Charges(reports, exempt)[s]
    BY <1>3 DEF UpdatePPS
  <2>2. CASE s \in S
    <3>1. Charges(reports, exempt)[s] = Charge(s, reports[s], exempt)
      BY <2>2 DEF Charges
    <3>2. Charge(s, reports[s], exempt) \in {0, UpkeepCost}
      BY DEF Charge
    <3>3. noncePerStrategy'[s] = noncePerStrategy[s] + 1
      BY <1>3, <2>2 DEF UpdatePPS, NextNonces
    <3>4. QED BY <1>1, <2>1, <3>1, <3>2, <3>3
  <2>3. CASE s \notin S
    <3>1. Charges(reports, exempt)[s] = 0
      BY <2>3 DEF Charges
    <3>2. noncePerStrategy'[s] = noncePerStrategy[s]
      BY <1>3, <2>3 DEF UpdatePPS, NextNonces
    <3>3. QED BY <1>1, <2>1, <3>1, <3>2
  <2>4. QED BY <2>2, <2>3
<1>4. QED
  BY <1>2, <1>3 DEF Next, vars, upkeepVars, PauseStrategy, UnpauseStrategy,
     UpdateDeviationThreshold, SkimPerformanceFee, ResetHighWaterMark, DepositUpkeep,
     ProposeWithdrawUpkeep, ExecuteWithdrawUpkeep, ChangePrimaryManager, ClaimUpkeep, Tick

(* No strategy is charged more than the cost of a report for each nonce it *)
(* has spent.                                                              *)
THEOREM NoncesArePaidOnce == Spec => []ChargedOncePerNonce
<1>1. Init => ChargedOncePerNonce
  BY ConstantFacts DEF Init, ChargedOncePerNonce
<1>2. IInv /\ ChargedOncePerNonce /\ [Next]_vars => ChargedOncePerNonce'
  <2> SUFFICES ASSUME IInv, ChargedOncePerNonce, [Next]_vars, NEW s \in Strategies
               PROVE  charged'[s] <= UpkeepCost * noncePerStrategy'[s]
    BY DEF ChargedOncePerNonce
  <2> DEFINE n == noncePerStrategy[s]
  <2>1. charged[s] \in Nat /\ n \in Nat /\ UpkeepCost \in Nat
    BY ConstantFacts DEF IInv, TypeOK
  <2>2. charged[s] <= UpkeepCost * n
    BY DEF ChargedOncePerNonce
  <2>3. UpkeepCost * n \in Nat /\ UpkeepCost * (n + 1) = UpkeepCost * n + UpkeepCost
    BY <2>1, ProductNat, Z3
  <2>4. QED BY <2>1, <2>2, <2>3, ChargedStep
<1>3. QED BY <1>1, <1>2, Invariance, PTL DEF Spec

-----------------------------------------------------------------------------
(* What a step may do to a price and to a mark.                            *)

(* A step leaves record and mark of s alone or is one of these.            *)
PriceSteps(s) ==
  \/ /\ strategyData'[s].pps = strategyData[s].pps
     /\ strategyData'[s].lastUpdateTimestamp = strategyData[s].lastUpdateTimestamp
     /\ vaultHwmPps'[s] \in {vaultHwmPps[s], strategyData[s].pps}
  \/ /\ \E report \in Reports, exempt \in BOOLEAN :
          /\ Accepted(s, report, exempt)
          /\ strategyData'[s].pps = report.pps
          /\ strategyData'[s].lastUpdateTimestamp = report.timestamp
     /\ noncePerStrategy'[s] = noncePerStrategy[s] + 1
     /\ vaultHwmPps'[s] = vaultHwmPps[s]
  \/ \E supply \in Supplies : SkimPerformanceFee(s, supply)

LEMMA StepsOfPrice ==
  ASSUME IInv, [Next]_vars, NEW s \in Strategies
  PROVE  PriceSteps(s)
<1>1. /\ strategyData \in [Strategies -> StrategyData] /\ strategyData[s] \in StrategyData
      /\ vaultHwmPps \in [Strategies -> Nat \ {0}]
  BY DEF IInv, TypeOK
<1>2. CASE UNCHANGED <<strategyData, vaultHwmPps>>
  BY <1>2 DEF PriceSteps
<1>3. ASSUME NEW S \in SUBSET Strategies, NEW reports \in [S -> Reports],
             NEW exempt \in BOOLEAN, UpdatePPS(reports, exempt)
      PROVE  PriceSteps(s)
  <2>1. vaultHwmPps' = vaultHwmPps
    BY <1>3 DEF UpdatePPS
  <2>2. CASE s \notin S
    <3>1. strategyData'[s] = strategyData[s]
      BY <1>3, <2>2 DEF UpdatePPS
    <3>2. QED BY <2>1, <3>1 DEF PriceSteps
  <2>3. CASE s \in S
    <3>1. /\ reports[s] \in Reports
          /\ strategyData'[s] = Forwarded(s, reports[s], exempt)
          /\ noncePerStrategy'[s] = noncePerStrategy[s] + 1
      BY <1>3, <2>3 DEF UpdatePPS, NextNonces
    <3>2. CASE Accepted(s, reports[s], exempt)
      <4>1. /\ strategyData'[s].pps = reports[s].pps
            /\ strategyData'[s].lastUpdateTimestamp = reports[s].timestamp
        BY <1>1, <3>1, <3>2 DEF Forwarded, Accepted, StrategyData
      <4>2. QED BY <2>1, <3>1, <3>2, <4>1 DEF PriceSteps
    <3>3. CASE ~Accepted(s, reports[s], exempt)
      <4>1. \/ strategyData'[s] = strategyData[s]
            \/ strategyData'[s] = [strategyData[s] EXCEPT !.isPaused = TRUE, !.ppsStale = TRUE]
        BY <3>1, <3>3 DEF Forwarded
      <4>2. /\ strategyData'[s].pps = strategyData[s].pps
            /\ strategyData'[s].lastUpdateTimestamp = strategyData[s].lastUpdateTimestamp
        BY <1>1, <4>1 DEF StrategyData
      <4>3. QED BY <2>1, <4>2 DEF PriceSteps
    <3>4. QED BY <3>2, <3>3
  <2>4. QED BY <2>2, <2>3
<1>4. ASSUME NEW r \in Strategies, PauseStrategy(r) \/ UnpauseStrategy(r)
      PROVE  PriceSteps(s)
  <2>1. /\ strategyData'[s].pps = strategyData[s].pps
        /\ strategyData'[s].lastUpdateTimestamp = strategyData[s].lastUpdateTimestamp
        /\ vaultHwmPps' = vaultHwmPps
    <3>1. CASE PauseStrategy(r)
      BY <1>1, <3>1 DEF PauseStrategy, StrategyData
    <3>2. CASE UnpauseStrategy(r)
      BY <1>1, <3>2 DEF UnpauseStrategy, StrategyData
    <3>3. QED BY <1>4, <3>1, <3>2
  <2>2. QED BY <2>1 DEF PriceSteps
<1>5. ASSUME NEW r \in Strategies, NEW threshold, UpdateDeviationThreshold(r, threshold)
      PROVE  PriceSteps(s)
  <2>1. /\ strategyData'[s].pps = strategyData[s].pps
        /\ strategyData'[s].lastUpdateTimestamp = strategyData[s].lastUpdateTimestamp
        /\ vaultHwmPps' = vaultHwmPps
    BY <1>1, <1>5 DEF UpdateDeviationThreshold, StrategyData
  <2>2. QED BY <2>1 DEF PriceSteps
<1>6. ASSUME NEW r \in Strategies, NEW supply \in Supplies, SkimPerformanceFee(r, supply)
      PROVE  PriceSteps(s)
  <2>1. CASE r = s
    BY <1>6, <2>1 DEF PriceSteps
  <2>2. CASE r # s
    <3>1. strategyData'[s] = strategyData[s] /\ vaultHwmPps'[s] = vaultHwmPps[s]
      BY <1>1, <1>6, <2>2 DEF SkimPerformanceFee
    <3>2. QED BY <3>1 DEF PriceSteps
  <2>3. QED BY <2>1, <2>2
<1>7. ASSUME NEW r \in Strategies, ResetHighWaterMark(r)
      PROVE  PriceSteps(s)
  <2>1. /\ strategyData' = strategyData
        /\ vaultHwmPps'[s] \in {vaultHwmPps[s], strategyData[s].pps}
    BY <1>1, <1>7 DEF ResetHighWaterMark
  <2>2. QED BY <2>1 DEF PriceSteps
<1>8. QED
  BY <1>2, <1>3, <1>4, <1>5, <1>6, <1>7 DEF Next, vars, DepositUpkeep, ProposeWithdrawUpkeep,
     ExecuteWithdrawUpkeep, ChangePrimaryManager, ClaimUpkeep, Tick

(* A price that is within the threshold moves by less than one unit of the *)
(* relative deviation above it.                                            *)
LEMMA DeviationBound ==
  ASSUME NEW pps \in Nat, NEW from \in Nat \ {0}, NEW threshold \in Nat,
         RelativeDeviation(pps, from) <= threshold
  PROVE  AbsDiff(pps, from) * DEVIATION_UNIT < (threshold + 1) * from
<1> DEFINE diff == AbsDiff(pps, from)
           q    == RelativeDeviation(pps, from)
<1>1. diff \in Nat /\ DEVIATION_UNIT \in Nat
  BY PriceAssumption, PrecisionAssumption DEF AbsDiff
<1>2. q = MulDivFloor(diff, DEVIATION_UNIT, from)
  BY DEF RelativeDeviation
<1>3. q <= threshold
  OBVIOUS
<1> HIDE DEF diff, q
<1>4. q \in Nat /\ diff * DEVIATION_UNIT < from * q + from
  BY <1>1, <1>2, MulDivType, MulDivBounds
<1>5. from * q <= from * threshold /\ (threshold + 1) * from = from * threshold + from
  BY <1>3, <1>4, Z3
<1>6. diff * DEVIATION_UNIT \in Nat /\ from * q \in Nat /\ from * threshold \in Nat
  BY <1>1, <1>4, ProductNat
<1>7. diff * DEVIATION_UNIT < (threshold + 1) * from
  BY <1>4, <1>5, <1>6
<1>8. QED BY <1>7 DEF diff

(* The fee of a skim leaves the old mark to the holders.                   *)
LEMMA SkimKeepsMark ==
  ASSUME NEW pps \in Nat, NEW hwm \in Nat, NEW supply \in Nat \ {0}, pps > hwm
  PROVE  LET fee == SkimFee(pps, hwm, supply)
         IN  PPSAfterFee(pps, fee, supply) >= hwm
<1> DEFINE g      == pps - hwm
           profit == MulDivFloor(g, supply, PRECISION)
           fee    == SkimFee(pps, hwm, supply)
           drop   == MulDivFloor(fee, PRECISION, supply)
<1>1. g \in Nat /\ pps = g + hwm
  OBVIOUS
<1>2. /\ PRECISION \in Nat \ {0} /\ BPS_PRECISION \in Nat \ {0}
      /\ PerformanceFeeBps \in Nat /\ PerformanceFeeBps <= BPS_PRECISION
  BY PriceAssumption, PrecisionAssumption
<1>3. fee = MulDivCeil(profit, PerformanceFeeBps, BPS_PRECISION)
  BY DEF SkimFee
<1>4. PPSAfterFee(pps, fee, supply) = pps - drop
  BY DEF PPSAfterFee
<1>5. profit = MulDivFloor(g, supply, PRECISION) /\ drop = MulDivFloor(fee, PRECISION, supply)
  OBVIOUS
<1> HIDE DEF g, profit, fee, drop
<1>6. profit \in Nat /\ PRECISION * profit <= g * supply
  BY <1>1, <1>2, <1>5, MulDivType, MulDivBounds
<1>7. fee \in Nat /\ BPS_PRECISION * fee < profit * PerformanceFeeBps + BPS_PRECISION
  BY <1>2, <1>3, <1>6, MulDivType, MulDivBounds
<1>8. fee <= profit
  <2>1. profit * PerformanceFeeBps <= BPS_PRECISION * profit
    BY <1>2, <1>6, Z3
  <2>2. BPS_PRECISION * fee < BPS_PRECISION * profit + BPS_PRECISION
    <3>1. /\ BPS_PRECISION * fee \in Nat /\ BPS_PRECISION * profit \in Nat
          /\ profit * PerformanceFeeBps \in Nat
      BY <1>2, <1>6, <1>7, ProductNat
    <3>2. QED BY <1>2, <1>7, <2>1, <3>1
  <2>3. \A b \in Nat \ {0} : \A x, y \in Nat : b * x < b * y + b => x <= y
    BY Z3
  <2>4. QED BY <1>2, <1>6, <1>7, <2>2, <2>3
<1>9. drop \in Nat /\ supply * drop <= fee * PRECISION
  BY <1>2, <1>5, <1>7, MulDivType, MulDivBounds
<1>10. drop <= g
  <2>1. fee * PRECISION <= PRECISION * profit
    BY <1>2, <1>6, <1>7, <1>8, Z3
  <2>2. supply * drop <= g * supply
    <3>1. /\ supply * drop \in Nat /\ fee * PRECISION \in Nat /\ PRECISION * profit \in Nat
          /\ g * supply \in Nat
      BY <1>1, <1>2, <1>6, <1>7, <1>9, ProductNat
    <3>2. QED BY <1>6, <1>9, <2>1, <3>1
  <2>3. \A b \in Nat \ {0} : \A x, y \in Nat : b * x <= y * b => x <= y
    BY Z3
  <2>4. QED BY <1>1, <1>9, <2>2, <2>3
<1>11. pps - drop >= hwm
  BY <1>1, <1>9, <1>10
<1>12. QED BY <1>4, <1>11 DEF fee

(* What a skim does to the record and the mark of its strategy.            *)
LEMMA SkimOfRecord ==
  ASSUME IInv, NEW s \in Strategies, NEW supply \in Supplies, SkimPerformanceFee(s, supply)
  PROVE  LET old == strategyData[s].pps
             new == strategyData'[s].pps
         IN  /\ new = vaultHwmPps'[s] /\ new \in Nat
             /\ new < old
             /\ new * BPS_PRECISION >= old * (BPS_PRECISION - MaxPerformanceFee)
             /\ new >= vaultHwmPps[s]
             /\ strategyData'[s].lastUpdateTimestamp = now
<1> DEFINE old   == strategyData[s].pps
           hwm   == vaultHwmPps[s]
           fee   == SkimFee(old, hwm, supply)
           price == PPSAfterFee(old, fee, supply)
           rest  == BPS_PRECISION - MaxPerformanceFee
           least == MulDivCeil(old, rest, BPS_PRECISION)
<1>1. /\ strategyData \in [Strategies -> StrategyData] /\ strategyData[s] \in StrategyData
      /\ old \in Nat /\ hwm \in Nat /\ vaultHwmPps \in [Strategies -> Nat \ {0}]
  BY DEF IInv, TypeOK, StrategyData
<1>2. supply \in Nat \ {0} /\ old > hwm /\ 0 < price /\ price < old /\ price >= least
  BY ConstantFacts DEF SkimPerformanceFee
<1>3. /\ strategyData'[s].pps = price /\ strategyData'[s].lastUpdateTimestamp = now
      /\ vaultHwmPps'[s] = price
  BY <1>1 DEF SkimPerformanceFee, SkimTimestamp, StrategyData
<1>4. rest \in Nat /\ BPS_PRECISION \in Nat \ {0}
  BY PriceAssumption, PrecisionAssumption
<1>5. least = MulDivCeil(old, rest, BPS_PRECISION) /\ rest = BPS_PRECISION - MaxPerformanceFee
  OBVIOUS
<1>6. price \in Nat /\ price >= hwm
  <2>1. fee = SkimFee(old, hwm, supply) /\ price = PPSAfterFee(old, fee, supply)
    OBVIOUS
  <2> HIDE DEF old, hwm, fee, price
  <2>2. price \in Nat
    BY <1>1, <1>2, <2>1, PPSAfterFeeType
  <2>3. price >= hwm
    BY <1>1, <1>2, <2>1, SkimKeepsMark
  <2>4. QED BY <2>2, <2>3
<1> HIDE DEF old, hwm, fee, price, rest, least
<1>7. least \in Nat /\ BPS_PRECISION * least >= old * rest
  BY <1>1, <1>4, <1>5, MulDivType, MulDivBounds
<1>8. price * BPS_PRECISION >= old * rest
  <2>1. price * BPS_PRECISION >= BPS_PRECISION * least
    BY <1>2, <1>4, <1>6, <1>7, Z3
  <2>2. price * BPS_PRECISION \in Nat /\ BPS_PRECISION * least \in Nat /\ old * rest \in Nat
    BY <1>1, <1>4, <1>6, <1>7, ProductNat
  <2>3. QED BY <1>7, <2>1, <2>2
<1>9. QED BY <1>2, <1>3, <1>5, <1>6, <1>8 DEF old, hwm

(* A price moves only in a report or a skim of a strategy that is not      *)
(* paused, by no more than the threshold or the fee allows, and its        *)
(* timestamp never moves back.                                             *)
THEOREM PricesMoveInBounds == Spec => PriceStepsBounded
<1>1. ASSUME IInv, [Next]_vars, NEW s \in Strategies
      PROVE  PriceStep(s)
  <2> DEFINE d == strategyData[s]
  <2>1. /\ d \in StrategyData /\ d.pps \in Nat \ {0} /\ d.lastUpdateTimestamp \in Nat
        /\ d.deviationThreshold \in Nat /\ d.lastUpdateTimestamp <= now
        /\ noncePerStrategy[s] \in Nat /\ now \in Nat
    BY <1>1 DEF IInv, TypeOK, StrategyData
  <2>2. CASE /\ strategyData'[s].pps = d.pps
             /\ strategyData'[s].lastUpdateTimestamp = d.lastUpdateTimestamp
    BY <2>1, <2>2 DEF PriceStep
  <2>3. ASSUME NEW report \in Reports, NEW exempt \in BOOLEAN, Accepted(s, report, exempt),
               strategyData'[s].pps = report.pps,
               strategyData'[s].lastUpdateTimestamp = report.timestamp,
               noncePerStrategy'[s] = noncePerStrategy[s] + 1
        PROVE  PriceStep(s)
    <3>1. report.pps \in Nat /\ report.timestamp \in Nat
      <4>1. Prices \subseteq Nat /\ Start .. MaxTime \subseteq Nat
        BY ConstantFacts
      <4>2. report.pps \in Prices /\ report.timestamp \in Start .. MaxTime
        BY DEF Reports
      <4>3. QED BY <4>1, <4>2
    <3>2. report.timestamp > d.lastUpdateTimestamp /\ ~d.isPaused
      BY <2>1, <2>3, <3>1 DEF Accepted, Ignored, Rejected, OutOfOrder
    <3>3. \/ d.ppsStale
          \/ d.deviationThreshold = NoThreshold
          \/ RelativeDeviation(report.pps, d.pps) <= d.deviationThreshold
      <4>1. AbsDiff(report.pps, d.pps) \in Nat /\ DEVIATION_UNIT \in Nat
        BY <2>1, <3>1, PriceAssumption, PrecisionAssumption DEF AbsDiff
      <4>2. RelativeDeviation(report.pps, d.pps) \in Nat
        BY <2>1, <4>1, MulDivType DEF RelativeDeviation
      <4>3. QED BY <2>1, <2>3, <4>2 DEF Accepted, Deviates
    <3>4. \/ d.ppsStale
          \/ d.deviationThreshold = NoThreshold
          \/ AbsDiff(report.pps, d.pps) * DEVIATION_UNIT < (d.deviationThreshold + 1) * d.pps
      BY <2>1, <3>1, <3>3, DeviationBound
    <3>5. noncePerStrategy'[s] # noncePerStrategy[s]
      BY <2>1, <2>3
    <3>6. QED BY <2>1, <2>3, <3>1, <3>2, <3>4, <3>5 DEF PriceStep
  <2>4. ASSUME NEW supply \in Supplies, SkimPerformanceFee(s, supply)
        PROVE  PriceStep(s)
    <3>1. ~d.isPaused /\ noncePerStrategy' = noncePerStrategy
      BY <2>4 DEF SkimPerformanceFee, StrategyStateValid
    <3>2. QED BY <1>1, <2>1, <2>4, <3>1, SkimOfRecord DEF PriceStep
  <2>5. QED BY <1>1, <2>2, <2>3, <2>4, StepsOfPrice DEF PriceSteps
<1>2. IInv /\ [Next]_vars => \A s \in Strategies : PriceStep(s)
  BY <1>1
<1>3. QED BY <1>2, Invariance, PTL DEF Spec, PriceStepsBounded

(* No skim lowers the mark, for all roundings of profit, fee and price,    *)
(* and none is taken on a price from before an unpause.                    *)
THEOREM MarksAreSound == Spec => HighWaterMarkSound
<1>1. ASSUME IInv, [Next]_vars, NEW s \in Strategies
      PROVE  MarkStep(s)
  <2> DEFINE d == strategyData[s]
  <2>1. CASE /\ strategyData'[s].pps = d.pps
             /\ vaultHwmPps'[s] \in {vaultHwmPps[s], d.pps}
    BY <2>1 DEF MarkStep
  <2>2. CASE vaultHwmPps'[s] = vaultHwmPps[s]
    BY <2>2 DEF MarkStep
  <2>3. ASSUME NEW supply \in Supplies, SkimPerformanceFee(s, supply)
        PROVE  MarkStep(s)
    <3>1. /\ vaultHwmPps'[s] = strategyData'[s].pps /\ vaultHwmPps'[s] \in Nat
          /\ vaultHwmPps'[s] >= vaultHwmPps[s]
      BY <1>1, <2>3, SkimOfRecord
    <3>2. vaultHwmPps[s] \in Nat /\ d \in StrategyData /\ Recovers(d)
      BY <1>1 DEF IInv, TypeOK, RecoveryState
    <3>3. /\ now >= d.lastUnpauseTimestamp + SkimTimelock
          /\ ~d.isPaused /\ ~d.ppsStale
      BY <2>3 DEF SkimPerformanceFee, StrategyStateValid
    <3>4. d.lastUnpauseTimestamp > 0 => d.lastUpdateTimestamp > d.lastUnpauseTimestamp
      BY <3>2, <3>3 DEF Recovers, StrategyData
    <3>5. QED BY <3>1, <3>2, <3>3, <3>4 DEF MarkStep
  <2>4. QED BY <1>1, <2>1, <2>2, <2>3, StepsOfPrice DEF PriceSteps
<1>2. IInv /\ [Next]_vars => \A s \in Strategies : MarkStep(s)
  BY <1>1
<1>3. QED BY <1>2, Invariance, PTL DEF Spec, HighWaterMarkSound

(* After an unpause a paid report of the time since then is stored unless  *)
(* it comes too soon after the last price: no deviation, and no other      *)
(* entry of the batch, keeps the price stale.                              *)
THEOREM RecoveryWaitsForRateOnly == Spec => OnlyRateLimitDelays
<1>1. ASSUME IInv, NEW S \in SUBSET Strategies, NEW reports \in [S -> Reports],
             NEW exempt \in BOOLEAN, UpdatePPS(reports, exempt), NEW s \in S
      PROVE  Recovered(s, reports[s], exempt)
  <2> DEFINE d == strategyData[s]
             report == reports[s]
  <2> SUFFICES ASSUME ~d.isPaused, d.ppsStale, report.pps > 0, ~Unpaid(s, exempt),
                      d.lastUnpauseTimestamp < report.timestamp, report.timestamp <= now,
                      now <= report.timestamp + MaxStaleness,
                      report.timestamp >= d.lastUpdateTimestamp + MinUpdateInterval
               PROVE  /\ strategyData'[s].pps = report.pps
                      /\ strategyData'[s].lastUpdateTimestamp = report.timestamp
                      /\ ~strategyData'[s].ppsStale /\ ~strategyData'[s].isPaused
    BY DEF Recovered
  <2>1. /\ s \in Strategies /\ s \in DOMAIN reports /\ report \in Reports
        /\ report.pps \in Nat /\ report.timestamp \in Nat
    <3>1. s \in Strategies /\ s \in DOMAIN reports /\ report \in Reports
      BY <1>1
    <3>2. report.pps \in Prices /\ report.timestamp \in Start .. MaxTime
      BY <3>1 DEF Reports
    <3>3. QED BY <3>1, <3>2, ConstantFacts
  <2>2. /\ d \in StrategyData /\ Recovers(d) /\ d.lastUpdateTimestamp \in Nat
        /\ d.lastUnpauseTimestamp \in Nat /\ now \in Nat
    BY <1>1, <2>1 DEF IInv, TypeOK, RecoveryState, StrategyData
  <2>3. d.lastUpdateTimestamp <= d.lastUnpauseTimestamp
    BY <2>2 DEF Recovers
  <2>4. ~Rejected(s, report.timestamp)
    BY <2>1, <2>2, ConstantFacts DEF Rejected
  <2>5. ~OutOfOrder(s, report.timestamp)
    BY <2>1, <2>2, <2>3, ConstantFacts DEF OutOfOrder
  <2>6. ~Deviates(s, report.pps)
    BY DEF Deviates
  <2>7. Accepted(s, report, exempt)
    BY <2>1, <2>4, <2>5, <2>6 DEF Accepted, Ignored
  <2>8. strategyData'[s] = [d EXCEPT !.pps = report.pps,
                                     !.lastUpdateTimestamp = report.timestamp,
                                     !.ppsStale = FALSE]
    <3>1. strategyData'[s] = Forwarded(s, report, exempt)
      BY <1>1, <2>1 DEF UpdatePPS
    <3>2. ~Ignored(s, report.timestamp)
      BY <2>7 DEF Accepted
    <3>3. QED BY <2>7, <3>1, <3>2 DEF Forwarded
  <2>9. QED BY <2>2, <2>8 DEF StrategyData
<1>2. IInv => [\A S \in SUBSET Strategies : \A reports \in [S -> Reports], exempt \in BOOLEAN :
                 UpdatePPS(reports, exempt) =>
                   \A s \in S : Recovered(s, reports[s], exempt)]_vars
  BY <1>1
<1>3. QED BY <1>2, Invariance, PTL DEF OnlyRateLimitDelays
=============================================================================
