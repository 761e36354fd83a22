---------------------------- MODULE CrossChainAUM ----------------------------
(***************************************************************************)
(* CrossChainAUMOracle and CrossChainPositionCapGuard around the position  *)
(* registry: validators sign reports of what a strategy owns, on the hub   *)
(* and in every position; a send to another chain is allowed against the   *)
(* latest report and the exposure that the registry counts.                *)
(*                                                                         *)
(* Whoever sends a transaction for the hub may choose its moment, and a    *)
(* quorum may sign whatever it likes: any report may be submitted that     *)
(* carries a timestamp of the past.  Nothing about positions is taken for  *)
(* granted between the signing of a report and its submission.             *)
(***************************************************************************)
EXTENDS PositionRegistry

CONSTANTS
  WAD,              \* 1e18: the unit of deviation thresholds
  HubValues,        \* what the strategy may be reported to own on the hub
  ImpliedValues,    \* what the vault's totalAssets may be, 0 when no price is fresh
  Configs,          \* configurations that setAUMOracleConfig accepts
  CapConfigs,       \* configurations of the caps
  MaxReports        \* bound: reports submitted

ASSUME AUMAssumption ==
  /\ WAD \in Nat \ {0}
  /\ HubValues \subseteq Nat /\ ImpliedValues \subseteq Nat
  /\ Configs \subseteq
       [maxStaleness : Nat \ {0}, minUpdateInterval : Nat \ {0}, deviationThreshold : 1 .. WAD,
        perPositionDeviationThreshold : 1 .. WAD, consistencyToleranceBps : Nat,
        maxConsecutiveDeviationBreaches : Nat \ {0}]
  /\ CapConfigs \subseteq [maxCrossChainBps : 0 .. BPS_PRECISION, perChainCap : [Chains -> Nat]]
  /\ MaxReports \in Nat

VARIABLES
  config,               \* _configs of the strategy
  caps,                 \* _caps of the strategy; 0 for a chain or destination not allowed
  latestReport,
  noncePerStrategy,
  consecutiveBreaches,
  aumBreakerTripped,
  lastCommitAt,
  reportBootstrapped

reportVars == <<latestReport, consecutiveBreaches, aumBreakerTripped, lastCommitAt, reportBootstrapped>>
vars == <<registryVars, config, caps, noncePerStrategy, reportVars>>

TypeOK ==
  /\ RegistryTypeOK
  /\ config \in Configs /\ caps \in CapConfigs
  /\ latestReport \in [hubAssets : Nat, totalCrossChainAssets : Nat, timestamp : Nat]
  /\ noncePerStrategy \in Nat /\ consecutiveBreaches \in Nat
  /\ aumBreakerTripped \in BOOLEAN /\ reportBootstrapped \in BOOLEAN
  /\ lastCommitAt \in Nat

Init ==
  /\ RegistryInit
  /\ config \in Configs /\ caps \in CapConfigs
  /\ latestReport = [hubAssets |-> 0, totalCrossChainAssets |-> 0, timestamp |-> 0]
  /\ noncePerStrategy = 0 /\ consecutiveBreaches = 0 /\ lastCommitAt = 0
  /\ aumBreakerTripped = FALSE /\ reportBootstrapped = FALSE

-----------------------------------------------------------------------------
(* Which positions a report is about.                                      *)

(* _positionRequired.                                                      *)
PositionRequired(p, timestamp) ==
  \/ positions[p].status \in Booked
  \/ positions[p].status = "Pending" /\ positions[p].registeredAt < timestamp

(* _validateReportSet: everything required and, for what ended between the *)
(* signing and the submission, terminal positions.                         *)
ValidReportSet(ids, timestamp) ==
  /\ Cardinality(ids) <= MAX_POSITIONS_PER_STRATEGY
  /\ \A p \in ids : PositionRequired(p, timestamp) \/ positions[p].status \in Terminal
  /\ \A p \in strategyPositions : PositionRequired(p, timestamp) => p \in ids

(* _candidateTotal.                                                        *)
CandidateTotal(values) ==
  SumOver(values, {p \in DOMAIN values : positions[p].status \notin Terminal})

(* What the registry books.                                                *)
CommittedTotal(values) ==
  SumOver([p \in DOMAIN values |-> AcceptedValue(p, values[p])], DOMAIN values)

-----------------------------------------------------------------------------
(* The bands a report must keep to.                                        *)

Grown(base, threshold) == base + MulDivFloor(base, threshold, WAD)
Shrunk(base, threshold) == base - MulDivFloor(base, threshold, WAD)
Minus(a, b) == IF a > b THEN a - b ELSE 0
AbsDiff(a, b) == IF a > b THEN a - b ELSE b - a

(* _anchorAdjustments.                                                     *)
Drained(values) ==
  SumOver(ValueOf, {p \in DOMAIN values : positions[p].status = "WindingDown" /\ values[p] = 0})

Overlap(values) ==
  SumOver([p \in PositionIds |-> IF positions[p].value < positions[p].amount
                                   THEN positions[p].value ELSE positions[p].amount],
          {p \in DOMAIN values : positions[p].status = "Pending" /\ positions[p].value > 0})

(* Faulty variant: what is in flight does not widen the anchor.            *)
InFlight_Ignored(values) == 0

(* Reservations whose value no report has booked yet.                      *)
InFlight(values) == Minus(bridgedOut, Overlap(values))

(* _publishedTotalBreach; a hub that was empty has no band of its own.     *)
PublishedTotalBreach(values, hubAssets) ==
  /\ latestReport.hubAssets > 0
  /\ hubAssets + CandidateTotal(values)
       > Grown(latestReport.hubAssets + latestReport.totalCrossChainAssets + InFlight(values),
               config.deviationThreshold)

(* Only the first report may fill an empty hub without a price to back it. *)
UnbackedHub(hubAssets, implied) ==
  latestReport.hubAssets = 0 /\ reportBootstrapped /\ hubAssets > 0 /\ implied = 0

(* _aggregateBreach.                                                       *)
AggregateBreach(values) ==
  LET total == CandidateTotal(values)
      cache == latestReport.totalCrossChainAssets
  IN  \/ total > Grown(cache + InFlight(values), config.deviationThreshold)
      \/ total < Shrunk(Minus(cache, Drained(values)), config.deviationThreshold)

(* _perPositionBreach: an exit may drain its position at once.             *)
PerPositionBreach(values) ==
  \E p \in DOMAIN values :
    /\ positions[p].status \in Live /\ positions[p].value > 0
    /\ MulDivFloor(AbsDiff(values[p], positions[p].value), WAD, positions[p].value)
         > config.perPositionDeviationThreshold
    /\ ~(values[p] = 0 /\ positions[p].status = "WindingDown")

(* _consistencyBreach.                                                     *)
ConsistencyBreach(totalAssets, implied) ==
  /\ implied # 0
  /\ MulDivFloor(AbsDiff(totalAssets, implied), BPS_PRECISION, implied)
       > config.consistencyToleranceBps

-----------------------------------------------------------------------------
(* Reports.                                                                *)

(* _verifyAndConsume: the nonce is used up unless the call reverts.        *)
VerifyAndConsume(timestamp) ==
  /\ timestamp <= now /\ timestamp > latestReport.timestamp
  /\ timestamp - latestReport.timestamp >= config.minUpdateInterval
  /\ now - timestamp <= config.maxStaleness
  /\ lastCommitAt # 0 => now >= lastCommitAt + config.minUpdateInterval
  /\ noncePerStrategy' = noncePerStrategy + 1

(* _syncAndCommit; reverts if the registry books something else than what  *)
(* has been validated.                                                     *)
SyncAndCommit(values, hubAssets, timestamp) ==
  /\ CommittedTotal(values) = CandidateTotal(values)
  /\ SyncPositionsFromReport(values)
  /\ latestReport' = [hubAssets |-> hubAssets, totalCrossChainAssets |-> CommittedTotal(values),
                      timestamp |-> timestamp]
  /\ lastCommitAt' = now
  /\ reportBootstrapped' = TRUE
  /\ consecutiveBreaches' = 0
  /\ aumBreakerTripped' = FALSE

(* _recordDeviationBreach.                                                 *)
RecordDeviationBreach ==
  /\ consecutiveBreaches' = consecutiveBreaches + 1
  /\ aumBreakerTripped' = \/ aumBreakerTripped
                          \/ consecutiveBreaches' >= config.maxConsecutiveDeviationBreaches
  /\ UNCHANGED <<registryVars, latestReport, lastCommitAt, reportBootstrapped>>

IgnoreReport == UNCHANGED <<registryVars, reportVars>>

(* forwardAUM.                                                             *)
ForwardAUM(values, hubAssets, timestamp, implied) ==
  LET deviates == \/ UnbackedHub(hubAssets, implied)
                  \/ AggregateBreach(values)
                  \/ PerPositionBreach(values)
      inconsistent == ConsistencyBreach(hubAssets + CandidateTotal(values), implied)
  IN  /\ VerifyAndConsume(timestamp)
      /\ ValidReportSet(DOMAIN values, timestamp)
      /\ \/ PublishedTotalBreach(values, hubAssets) /\ IgnoreReport
         \/ ~PublishedTotalBreach(values, hubAssets) /\ deviates /\ RecordDeviationBreach
         \/ /\ ~PublishedTotalBreach(values, hubAssets) /\ ~deviates
            /\ \/ inconsistent /\ IgnoreReport
               \/ ~inconsistent /\ SyncAndCommit(values, hubAssets, timestamp)
      /\ UNCHANGED <<config, caps>>

(* forceAUMUpdate: no band but the price's, which must be there.           *)
ForceAUMUpdate(values, hubAssets, timestamp, implied) ==
  LET inconsistent == ConsistencyBreach(hubAssets + CandidateTotal(values), implied)
  IN  /\ VerifyAndConsume(timestamp)
      /\ ValidReportSet(DOMAIN values, timestamp)
      /\ implied # 0
      /\ \/ inconsistent /\ IgnoreReport
         \/ ~inconsistent /\ SyncAndCommit(values, hubAssets, timestamp)
      /\ UNCHANGED <<config, caps>>

(* setAUMOracleConfig.                                                     *)
SetAUMOracleConfig(new) ==
  /\ config' = new
  /\ UNCHANGED <<registryVars, caps, noncePerStrategy, reportVars>>

-----------------------------------------------------------------------------
(* Sends.                                                                  *)

(* isAUMFresh.                                                             *)
IsAUMFresh ==
  /\ latestReport.timestamp # 0
  /\ ~aumBreakerTripped
  /\ now - latestReport.timestamp <= config.maxStaleness

TotalAUM == latestReport.hubAssets + latestReport.totalCrossChainAssets

(* The desync check of validateAllocation.                                 *)
SnapshotMatched == EffectiveCrossChainExposure >= latestReport.totalCrossChainAssets

(* validateAllocation.                                                     *)
ValidateAllocation(chain, amount) ==
  /\ IsAUMFresh
  /\ TotalAUM # 0
  /\ SnapshotMatched
  /\ (EffectiveCrossChainExposure + amount) * BPS_PRECISION <= TotalAUM * caps.maxCrossChainBps
  /\ EffectiveChainExposure(chain) + amount <= caps.perChainCap[chain]

(* The cap hook of a bridge: validation and record in one transaction.     *)
Send(r, chain, amount) ==
  /\ ValidateAllocation(chain, amount)
  /\ RecordBridgedOut(r, chain, amount)
  /\ UNCHANGED <<config, caps, noncePerStrategy, reportVars>>

(* setCapConfig and setApprovedDestination.                                *)
SetCaps(new) ==
  /\ caps' = new
  /\ UNCHANGED <<registryVars, config, noncePerStrategy, reportVars>>

-----------------------------------------------------------------------------
(* Registrar and governance act on the registry alone.                     *)
Elsewhere == UNCHANGED <<config, caps, noncePerStrategy, reportVars>>

Report ==
  \E ids \in SUBSET PositionIds, timestamp \in 1 .. now :
    /\ noncePerStrategy < MaxReports
    /\ ValidReportSet(ids, timestamp)
    /\ \E values \in [ids -> Values], hub \in HubValues, implied \in ImpliedValues :
         \/ ForwardAUM(values, hub, timestamp, implied)
         \/ ForceAUMUpdate(values, hub, timestamp, implied)

Next ==
  \/ \E r \in ReservationIds, c \in Chains, a \in Amounts : Send(r, c, a)
  \/ Report
  \/ (RegistrarStep \/ GovernanceStep \/ Tick) /\ Elsewhere
  \/ \E new \in Configs : SetAUMOracleConfig(new)
  \/ \E new \in CapConfigs : SetCaps(new)

Spec == Init /\ [][Next]_vars

-----------------------------------------------------------------------------
(* Properties.                                                             *)

(* The capital of a position: what was sent until a report confirms it, or *)
(* what has been seen when that is more; then what is reported.            *)
CapitalOf ==
  [p \in PositionIds |->
     IF positions[p].status = "Pending" /\ positions[p].value < positions[p].amount
       THEN positions[p].amount ELSE positions[p].value]

OpenOn(chains) ==
  {r \in ReservationIds : reservations[r].status = "Open" /\ reservations[r].chain \in chains}

(* Counted though their position is booked: governance has reconciled it   *)
(* and no report has been committed since.                                 *)
ReconciledOn(chains) ==
  {r \in ReservationIds :
     /\ reservations[r].status = "Consumed" /\ reservations[r].chain \in chains
     /\ positions[reservations[r].position].status \in Booked}

CapitalOut(chains) ==
  SumOver(CapitalOf, {p \in strategyPositions : positions[p].chain \in chains})
    + SumOver(AmountOf, OpenOn(chains))

(* The exposure the caps are measured with is the capital that is out, on  *)
(* every chain and in total, whatever was released, filled late, under- or *)
(* over-delivered or reported meanwhile; only a reconciled position counts *)
(* twice, until a report books it.                                         *)
ExposureExact ==
  /\ EffectiveCrossChainExposure = CapitalOut(Chains) + SumOver(AmountOf, ReconciledOn(Chains))
  /\ \A c \in Chains :
       EffectiveChainExposure(c) = CapitalOut({c}) + SumOver(AmountOf, ReconciledOn({c}))

(* The desync check of validateAllocation never fails: what the latest     *)
(* report has committed is still out, or has been confirmed as returned,   *)
(* whatever has happened to the positions since.                           *)
ReportIsBacked ==
  /\ latestReport.totalCrossChainAssets <= CapitalOut(Chains)
  /\ SnapshotMatched

(* A report of what has not changed, of drained exits and of transfers     *)
(* that landed with what was sent or less.                                 *)
Unsurprising(values) ==
  \A p \in DOMAIN values :
    \/ values[p] = positions[p].value
    \/ positions[p].status = "Pending" /\ positions[p].value = 0 /\ values[p] <= positions[p].amount
    \/ positions[p].status = "WindingDown" /\ values[p] = 0

(* Every observed value is part of the latest report: a forced report has  *)
(* not written off an observation that the registry keeps.                 *)
AllObservedReported == latestReport.totalCrossChainAssets = SumOver(ValueOf, strategyPositions)

(* A landing never trips the breaker: such a report, with no more on the   *)
(* hub than before, keeps to the bands whatever has happened to the        *)
(* positions since the last one (the claim of _aggregateBreach's comment). *)
LandingNeverBreaches ==
  \A ids \in SUBSET PositionIds :
    ValidReportSet(ids, now) /\ AllObservedReported =>
      \A values \in [ids -> Values] :
        Unsurprising(values) =>
          /\ ~AggregateBreach(values) /\ ~PerPositionBreach(values)
          /\ ~PublishedTotalBreach(values, latestReport.hubAssets)

(* A send leaves no more capital out, on its chain and in total, than the  *)
(* caps allow against a total that a quorum has reported at most           *)
(* maxStaleness ago, and never while the breaker is tripped.               *)
SendsWithinCap ==
  [][\A r \in ReservationIds, c \in Chains :
       reservations[r].status = "None" /\ reservations'[r].status = "Open" /\ reservations'[r].chain = c =>
         /\ ~aumBreakerTripped
         /\ now - latestReport.timestamp <= config.maxStaleness
         /\ CapitalOut(Chains)' * BPS_PRECISION <= TotalAUM * caps.maxCrossChainBps
         /\ CapitalOut({c})' <= caps.perChainCap[c]]_vars

(* Neither time nor the registrar takes capital off the book: it leaves    *)
(* with a committed report, or by governance's decision about a transfer   *)
(* that has been out for longer than the timeout and of which no report    *)
(* has seen anything.                                                      *)
UncountedOnlyByReport ==
  [][EffectiveCrossChainExposure' < EffectiveCrossChainExposure =>
       \/ latestReport' # latestReport
       \/ \E r \in ReservationIds :
            /\ reservations'[r].status = "Released"
            /\ \/ reservations[r].status = "Open" /\ now > reservations[r].createdAt + RESERVATION_TIMEOUT
               \/ /\ reservations[r].status = "Consumed"
                  /\ positions[reservations[r].position].value = 0]_vars

(* recordBridgedOut refuses "a send that provably could never be           *)
(* registered" because positions and open reservations "upper-bound the    *)
(* strategy's future position count" (its storage comment): so there is a  *)
(* place for every open reservation.  A released reservation that is       *)
(* registered late takes such a place.                                     *)
SendsStayRegisterable ==
  Cardinality(strategyPositions) + openReservationCount <= MAX_POSITIONS_PER_STRATEGY
=============================================================================
