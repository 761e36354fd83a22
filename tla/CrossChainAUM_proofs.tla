-------------------------- MODULE CrossChainAUM_proofs --------------------------
(***************************************************************************)
(* The exposure that the caps are measured with is the capital that is     *)
(* out, for every set of ids, chains, amounts and values and for any       *)
(* limits, timeouts, caps and oracle configurations.                       *)
(***************************************************************************)
EXTENDS CrossChainAUM, PositionRegistry_proofs

LEMMA AUMConstants ==
  /\ WAD \in Nat \ {0} /\ HubValues \subseteq Nat
  /\ \A k \in CapConfigs :
       k.maxCrossChainBps \in Nat /\ \A c \in Chains : k.perChainCap[c] \in Nat
<1>1. ASSUME NEW k \in CapConfigs
      PROVE  k.maxCrossChainBps \in Nat /\ \A c \in Chains : k.perChainCap[c] \in Nat
  <2>1. k \in [maxCrossChainBps : 0 .. BPS_PRECISION, perChainCap : [Chains -> Nat]]
    BY AUMAssumption
  <2>2. k.maxCrossChainBps \in 0 .. BPS_PRECISION /\ k.perChainCap \in [Chains -> Nat]
    BY <2>1
  <2>3. 0 .. BPS_PRECISION \subseteq Nat
    BY DEF BPS_PRECISION
  <2>4. QED BY <2>2, <2>3
<1>2. QED BY <1>1, AUMAssumption

OracleTypeOK ==
  /\ config \in Configs /\ caps \in CapConfigs
  /\ latestReport \in [hubAssets : Nat, totalCrossChainAssets : Nat, timestamp : Nat]
  /\ noncePerStrategy \in Nat /\ consecutiveBreaches \in Nat
  /\ aumBreakerTripped \in BOOLEAN /\ reportBootstrapped \in BOOLEAN
  /\ lastCommitAt \in Nat

(* What the latest report has booked is still on the books.                *)
Backed == latestReport.totalCrossChainAssets <= SumOver(ValueOf, strategyPositions)

-----------------------------------------------------------------------------
(* The exposure is the capital.                                            *)

LiveOn(chains) == {p \in strategyPositions : positions[p].chain \in chains}
PendingOn(chains) == {p \in LiveOn(chains) : positions[p].status = "Pending"}
SentFor == [p \in PositionIds |-> positions[p].amount]
CountedOn(chains) ==
  {r \in ReservationIds : reservations[r].status \in {"Open", "Consumed"} /\ reservations[r].chain \in chains}
AwaitedOn(chains) ==
  {r \in ReservationIds :
     /\ reservations[r].status = "Consumed" /\ reservations[r].chain \in chains
     /\ positions[reservations[r].position].status = "Pending"}

LEMMA RegistryFunctions ==
  ASSUME RegistryInv
  PROVE  /\ \A r \in ReservationIds : AmountOf[r] = reservations[r].amount /\ AmountOf[r] \in Nat
         /\ \A p \in PositionIds :
              /\ ValueOf[p] = positions[p].value /\ ValueOf[p] \in Nat
              /\ SentFor[p] = positions[p].amount /\ SentFor[p] \in Nat
              /\ CapitalOf[p] = (IF positions[p].status = "Pending"
                                    /\ positions[p].value < positions[p].amount
                                   THEN positions[p].amount ELSE positions[p].value)
              /\ CapitalOf[p] \in Nat /\ ValueOf[p] <= CapitalOf[p]
         /\ IsFiniteSet(strategyPositions) /\ strategyPositions \subseteq PositionIds
         /\ \A p \in strategyPositions : positions[p].chain \in Chains
<1>1. /\ reservations \in [ReservationIds -> Reservations]
      /\ positions \in [PositionIds -> Positions] /\ strategyPositions \subseteq PositionIds
  BY InvTypes
<1>2. \A r \in ReservationIds : AmountOf[r] = reservations[r].amount /\ AmountOf[r] \in Nat
  BY <1>1 DEF AmountOf, Reservations
<1>3. ASSUME NEW p \in PositionIds
      PROVE  /\ ValueOf[p] = positions[p].value /\ ValueOf[p] \in Nat
             /\ SentFor[p] = positions[p].amount /\ SentFor[p] \in Nat
             /\ CapitalOf[p] = (IF positions[p].status = "Pending"
                                   /\ positions[p].value < positions[p].amount
                                  THEN positions[p].amount ELSE positions[p].value)
             /\ CapitalOf[p] \in Nat /\ ValueOf[p] <= CapitalOf[p]
  <2>1. positions[p].value \in Nat /\ positions[p].amount \in Nat
    BY <1>1 DEF Positions
  <2>2. QED BY <2>1 DEF ValueOf, SentFor, CapitalOf
<1>4. IsFiniteSet(strategyPositions)
  BY <1>1, RegistryConstants, FS_Subset
<1>5. \A p \in strategyPositions : positions[p].chain \in Chains
  BY InvRecords DEF PositionAgrees, Live, Booked
<1>6. QED BY <1>1, <1>2, <1>3, <1>4, <1>5

(* Pending positions and the reservations that await their confirmation    *)
(* match one to one.                                                       *)
LEMMA AwaitedMatched ==
  ASSUME RegistryInv, NEW chains
  PROVE  SumOver(SentFor, PendingOn(chains)) = SumOver(AmountOf, AwaitedOn(chains))
<1> DEFINE S == PendingOn(chains)
           T == AwaitedOn(chains)
           h == [p \in S |-> positions[p].reservation]
<1>1. /\ strategyPositions = {p \in PositionIds : positions[p].status \in Live}
      /\ \A r \in ReservationIds : ReservationAgrees(r, reservations, positions)
      /\ \A p \in PositionIds : PositionAgrees(p, reservations, positions)
  BY InvRecords
<1>2. ASSUME NEW p \in S
      PROVE  /\ h[p] \in T /\ reservations[h[p]].position = p
             /\ SentFor[p] = AmountOf[h[p]] /\ SentFor[p] \in Nat
  <2>1. p \in PositionIds /\ positions[p].status = "Pending" /\ positions[p].chain \in chains
    BY <1>1 DEF PendingOn, LiveOn
  <2>2. /\ h[p] = positions[p].reservation /\ h[p] \in ReservationIds
        /\ reservations[h[p]].status = "Consumed" /\ reservations[h[p]].position = p
        /\ positions[p].chain = reservations[h[p]].chain
        /\ positions[p].amount = reservations[h[p]].amount
    BY <1>1, <2>1 DEF PositionAgrees
  <2>3. QED BY <2>1, <2>2, RegistryFunctions DEF AwaitedOn
<1>3. ASSUME NEW r \in T
      PROVE  \E p \in S : h[p] = r
  <2> DEFINE p == reservations[r].position
  <2>1. /\ r \in ReservationIds /\ reservations[r].status = "Consumed"
        /\ reservations[r].chain \in chains /\ positions[p].status = "Pending"
    BY DEF AwaitedOn
  <2>2. p \in PositionIds /\ positions[p].reservation = r
    BY <1>1, <2>1 DEF ReservationAgrees
  <2>3. positions[p].chain \in chains
    BY <1>1, <2>1, <2>2 DEF PositionAgrees
  <2>4. p \in S
    BY <1>1, <2>1, <2>2, <2>3 DEF PendingOn, LiveOn, Live
  <2>5. QED BY <2>2, <2>4
<1>4. h \in Bijection(S, T)
  <2>1. h \in [S -> T]
    BY <1>2
  <2>2. \A a, b \in S : h[a] = h[b] => a = b
    BY <1>2
  <2>3. \A t \in T : \E a \in S : h[a] = t
    BY <1>3
  <2> HIDE DEF S, T, h
  <2>4. QED BY <2>1, <2>2, <2>3 DEF Bijection, Injection, Surjection, IsInjective
<1>5. IsFiniteSet(S)
  <2>1. S \subseteq strategyPositions
    BY DEF PendingOn, LiveOn
  <2>2. QED BY <2>1, RegistryFunctions, FS_Subset
<1>6. \A a \in S : SentFor[a] \in Nat
  BY <1>2
<1>7. \A a \in S : SentFor[a] = AmountOf[h[a]]
  BY <1>2
<1> HIDE DEF S, T, h
<1>8. SumOver(SentFor, S) = SumOver(AmountOf, T)
  BY <1>4, <1>5, <1>6, <1>7, SumMatched
<1>9. QED BY <1>8 DEF S, T

(* The counted reservations: open, awaited, or reconciled.                 *)
LEMMA CountedSplit ==
  ASSUME RegistryInv, NEW chains
  PROVE  /\ SumOver(CountedIn(reservations, chains), ReservationIds)
              = SumOver(AmountOf, OpenOn(chains)) + SumOver(AmountOf, AwaitedOn(chains))
                  + SumOver(AmountOf, ReconciledOn(chains))
         /\ SumOver(AmountOf, OpenOn(chains)) \in Nat /\ SumOver(AmountOf, AwaitedOn(chains)) \in Nat
         /\ SumOver(AmountOf, ReconciledOn(chains)) \in Nat
<1> DEFINE f == CountedIn(reservations, chains)
           C == CountedOn(chains)
<1>1. /\ C \subseteq ReservationIds
      /\ \A r \in C : f[r] = AmountOf[r]
      /\ \A r \in ReservationIds \ C : f[r] = 0
  BY RegistryFunctions DEF CountedOn, CountedIn
<1>2. \A r \in ReservationIds : f[r] \in Nat
  BY InvTypes, CountedType
<1>3. \A r \in ReservationIds : AmountOf[r] \in Nat
  BY RegistryFunctions
<1>4. /\ OpenOn(chains) \subseteq C
      /\ AwaitedOn(chains) \subseteq C \ OpenOn(chains)
      /\ ReconciledOn(chains) = (C \ OpenOn(chains)) \ AwaitedOn(chains)
  <2>1. \A r \in ReservationIds : reservations[r].status = "Consumed" =>
          positions[reservations[r].position].status \in Live
    BY InvRecords DEF ReservationAgrees
  <2>2. QED BY <2>1 DEF OpenOn, AwaitedOn, ReconciledOn, CountedOn, Live, Booked
<1> HIDE DEF f, C
<1>5. /\ SumOver(f, ReservationIds) = SumOver(f, C) + SumOver(f, ReservationIds \ C)
      /\ SumOver(f, C) \in Nat
  <2>1. C \subseteq ReservationIds /\ IsFiniteSet(ReservationIds)
    BY <1>1, RegistryConstants
  <2>2. SumOver(f, ReservationIds) = SumOver(f, C) + SumOver(f, ReservationIds \ C)
    BY <1>2, <2>1, SumSubset
  <2>3. SumOver(f, C) \in Nat
    BY <1>2, <2>1, SumSubset
  <2>4. QED BY <2>2, <2>3
<1>6. SumOver(f, ReservationIds \ C) = 0
  BY <1>1, SumZero
<1>7. SumOver(f, C) = SumOver(AmountOf, C)
  BY <1>1, SumSame
<1>8. IsFiniteSet(C) /\ IsFiniteSet(C \ OpenOn(chains))
  BY <1>1, RegistryConstants, FS_Subset
<1>9. /\ SumOver(AmountOf, C) = SumOver(AmountOf, OpenOn(chains)) + SumOver(AmountOf, C \ OpenOn(chains))
      /\ SumOver(AmountOf, OpenOn(chains)) \in Nat
  BY <1>1, <1>3, <1>4, <1>8, SumSubset
<1>10. /\ SumOver(AmountOf, C \ OpenOn(chains))
            = SumOver(AmountOf, AwaitedOn(chains)) + SumOver(AmountOf, ReconciledOn(chains))
       /\ SumOver(AmountOf, AwaitedOn(chains)) \in Nat
       /\ SumOver(AmountOf, ReconciledOn(chains)) \in Nat
  <2> DEFINE D == C \ OpenOn(chains)
             A == AwaitedOn(chains)
  <2>1. A \subseteq D /\ IsFiniteSet(D) /\ \A r \in D : AmountOf[r] \in Nat
    BY <1>1, <1>3, <1>4, <1>8
  <2> HIDE DEF D, A
  <2>2. /\ SumOver(AmountOf, D) = SumOver(AmountOf, A) + SumOver(AmountOf, D \ A)
        /\ SumOver(AmountOf, A) \in Nat /\ SumOver(AmountOf, D \ A) \in Nat
    BY <2>1, SumSubset
  <2>3. QED BY <1>4, <2>2 DEF D, A
<1>11. SumOver(f, ReservationIds)
         = SumOver(AmountOf, OpenOn(chains)) + SumOver(AmountOf, AwaitedOn(chains))
             + SumOver(AmountOf, ReconciledOn(chains))
  BY <1>5, <1>6, <1>7, <1>9, <1>10
<1>12. QED BY <1>9, <1>10, <1>11 DEF f

(* The capital of live positions: what is booked, and what was sent for or *)
(* has been seen of the pending ones.                                      *)
LEMMA CapitalSplit ==
  ASSUME RegistryInv, NEW chains
  PROVE  /\ SumOver(CapitalOf, LiveOn(chains))
              = SumOver(ValueOf, BookedOn(chains)) + SumOver(SentFor, PendingOn(chains))
                  + SumOver(ExcessIn(positions, chains), PositionIds)
         /\ SumOver(ValueOf, BookedOn(chains)) \in Nat /\ SumOver(SentFor, PendingOn(chains)) \in Nat
         /\ SumOver(ExcessIn(positions, chains), PositionIds) \in Nat
<1> DEFINE L == LiveOn(chains)
           P == PendingOn(chains)
           g == ExcessIn(positions, chains)
<1>1. strategyPositions = {p \in PositionIds : positions[p].status \in Live}
  BY InvRecords
<1>2. P \subseteq L /\ L \subseteq PositionIds /\ P \subseteq PositionIds /\ BookedOn(chains) = L \ P
  BY <1>1 DEF LiveOn, PendingOn, BookedOn, Live, Booked
<1>3. IsFiniteSet(L) /\ IsFiniteSet(P)
  BY <1>2, RegistryConstants, FS_Subset
<1>4. \A p \in PositionIds : g[p] \in Nat /\ CapitalOf[p] \in Nat /\ SentFor[p] \in Nat
  BY InvTypes, ExcessType, RegistryFunctions
<1>5. \A p \in L \ P : CapitalOf[p] = ValueOf[p]
  BY <1>2, RegistryFunctions DEF PendingOn, LiveOn
<1>6. \A p \in P : CapitalOf[p] = SentFor[p] + g[p]
  <2>1. TAKE p \in P
  <2>2. /\ positions[p].status = "Pending" /\ positions[p].chain \in chains /\ p \in PositionIds
        /\ positions[p].value \in Nat /\ positions[p].amount \in Nat
    BY <1>2, InvTypes DEF PendingOn, LiveOn, Positions
  <2>3. g[p] = (IF positions[p].value > positions[p].amount
                  THEN positions[p].value - positions[p].amount ELSE 0)
    BY <2>2 DEF ExcessIn
  <2>4. /\ CapitalOf[p] = (IF positions[p].value < positions[p].amount
                             THEN positions[p].amount ELSE positions[p].value)
        /\ SentFor[p] = positions[p].amount
    BY <2>2, RegistryFunctions
  <2> HIDE DEF g
  <2>5. QED BY <2>2, <2>3, <2>4
<1>7. \A p \in PositionIds \ P : g[p] = 0
  BY <1>1 DEF ExcessIn, PendingOn, LiveOn, Live
<1> HIDE DEF L, P, g
<1>8. /\ SumOver(CapitalOf, L) = SumOver(CapitalOf, P) + SumOver(CapitalOf, L \ P)
      /\ SumOver(CapitalOf, L \ P) \in Nat
  <2>1. P \subseteq L /\ IsFiniteSet(L) /\ \A p \in L : CapitalOf[p] \in Nat
    BY <1>2, <1>3, <1>4
  <2>2. SumOver(CapitalOf, L) = SumOver(CapitalOf, P) + SumOver(CapitalOf, L \ P)
    BY <2>1, SumSubset
  <2>3. SumOver(CapitalOf, L \ P) \in Nat
    BY <2>1, SumSubset
  <2>4. QED BY <2>2, <2>3
<1>9. SumOver(CapitalOf, L \ P) = SumOver(ValueOf, L \ P)
  BY <1>5, SumSame
<1>10. SumOver(CapitalOf, P) = SumOver(SentFor, P) + SumOver(g, P)
  <2>1. \A p \in P : SentFor[p] \in Nat /\ g[p] \in Nat /\ CapitalOf[p] = SentFor[p] + g[p]
    BY <1>2, <1>4, <1>6
  <2>2. QED BY <1>3, <2>1, SumAdd
<1>11. SumOver(SentFor, P) \in Nat
  BY <1>2, <1>3, <1>4, SumType
<1>12. /\ SumOver(g, PositionIds) = SumOver(g, P) + SumOver(g, PositionIds \ P)
       /\ SumOver(g, P) \in Nat
  <2>1. P \subseteq PositionIds /\ \A p \in PositionIds : g[p] \in Nat
    BY <1>2, <1>4
  <2>2. IsFiniteSet(PositionIds)
    BY RegistryConstants
  <2>3. SumOver(g, PositionIds) = SumOver(g, P) + SumOver(g, PositionIds \ P)
    BY <2>1, <2>2, SumSubset
  <2>4. SumOver(g, P) \in Nat
    BY <2>1, <2>2, SumSubset
  <2>5. QED BY <2>3, <2>4
<1>13. SumOver(g, PositionIds \ P) = 0
  BY <1>7, SumZero
<1>14. /\ SumOver(CapitalOf, L) = SumOver(ValueOf, L \ P) + SumOver(SentFor, P) + SumOver(g, PositionIds)
       /\ SumOver(g, PositionIds) \in Nat /\ SumOver(ValueOf, L \ P) \in Nat
  BY <1>8, <1>9, <1>10, <1>11, <1>12, <1>13
<1>15. QED BY <1>2, <1>11, <1>14 DEF L, P, g

(* So does the sum of the registry's three counters.                       *)
LEMMA ExposureOn ==
  ASSUME RegistryInv, NEW chains
  PROVE  /\ SumOver(ValueOf, BookedOn(chains))
              + SumOver(CountedIn(reservations, chains), ReservationIds)
              + SumOver(ExcessIn(positions, chains), PositionIds)
              = CapitalOut(chains) + SumOver(AmountOf, ReconciledOn(chains))
         /\ CapitalOut(chains) \in Nat /\ SumOver(AmountOf, ReconciledOn(chains)) \in Nat
<1>1. CapitalOut(chains) = SumOver(CapitalOf, LiveOn(chains)) + SumOver(AmountOf, OpenOn(chains))
  BY DEF CapitalOut, LiveOn
<1>2. SumOver(SentFor, PendingOn(chains)) = SumOver(AmountOf, AwaitedOn(chains))
  BY AwaitedMatched
<1>3. /\ SumOver(CountedIn(reservations, chains), ReservationIds)
           = SumOver(AmountOf, OpenOn(chains)) + SumOver(AmountOf, AwaitedOn(chains))
               + SumOver(AmountOf, ReconciledOn(chains))
      /\ SumOver(AmountOf, OpenOn(chains)) \in Nat /\ SumOver(AmountOf, AwaitedOn(chains)) \in Nat
      /\ SumOver(AmountOf, ReconciledOn(chains)) \in Nat
  BY CountedSplit
<1>4. /\ SumOver(CapitalOf, LiveOn(chains))
           = SumOver(ValueOf, BookedOn(chains)) + SumOver(SentFor, PendingOn(chains))
               + SumOver(ExcessIn(positions, chains), PositionIds)
      /\ SumOver(ValueOf, BookedOn(chains)) \in Nat /\ SumOver(SentFor, PendingOn(chains)) \in Nat
      /\ SumOver(ExcessIn(positions, chains), PositionIds) \in Nat
  BY CapitalSplit
<1>5. QED BY <1>1, <1>2, <1>3, <1>4

LEMMA ExposureIsCapital ==
  ASSUME RegistryInv
  PROVE  /\ ExposureExact
         /\ CapitalOut(Chains) \in Nat /\ SumOver(AmountOf, ReconciledOn(Chains)) \in Nat
         /\ \A c \in Chains : CapitalOut({c}) \in Nat /\ SumOver(AmountOf, ReconciledOn({c})) \in Nat
<1>1. EffectiveCrossChainExposure =
        SumOver(ValueOf, BookedOn(Chains)) + SumOver(CountedIn(reservations, Chains), ReservationIds)
          + SumOver(ExcessIn(positions, Chains), PositionIds)
  BY InvCounts DEF EffectiveCrossChainExposure, CrossChainAUM, CountsFor, ExcessFor
<1>2. ASSUME NEW c \in Chains
      PROVE  EffectiveChainExposure(c) =
        SumOver(ValueOf, BookedOn({c})) + SumOver(CountedIn(reservations, {c}), ReservationIds)
          + SumOver(ExcessIn(positions, {c}), PositionIds)
  BY InvCounts DEF EffectiveChainExposure, ChainExposure, CountsFor, ExcessFor
<1>3. ASSUME NEW chains
      PROVE  /\ SumOver(ValueOf, BookedOn(chains))
                  + SumOver(CountedIn(reservations, chains), ReservationIds)
                  + SumOver(ExcessIn(positions, chains), PositionIds)
                  = CapitalOut(chains) + SumOver(AmountOf, ReconciledOn(chains))
             /\ CapitalOut(chains) \in Nat /\ SumOver(AmountOf, ReconciledOn(chains)) \in Nat
  BY ExposureOn
<1>4. ExposureExact
  BY <1>1, <1>2, <1>3 DEF ExposureExact
<1>5. QED BY <1>3, <1>4

-----------------------------------------------------------------------------
(* The steps of the oracle and of the cap guard are steps of the registry. *)

(* A submitted report is ignored, counted as a breach, or committed.       *)
LEMMA ReportCases ==
  ASSUME Report
  PROVE  /\ UNCHANGED <<config, caps>> /\ noncePerStrategy' = noncePerStrategy + 1
         /\ \/ IgnoreReport
            \/ RecordDeviationBreach
            \/ \E ids \in SUBSET PositionIds, timestamp \in 1 .. now :
                 /\ ValidReportSet(ids, timestamp)
                 /\ \E values \in [ids -> Values], hub \in HubValues :
                      timestamp > latestReport.timestamp /\ SyncAndCommit(values, hub, timestamp)
<1>1. PICK ids \in SUBSET PositionIds, timestamp \in 1 .. now :
        /\ ValidReportSet(ids, timestamp)
        /\ \E values \in [ids -> Values], hub \in HubValues, implied \in ImpliedValues :
             \/ ForwardAUM(values, hub, timestamp, implied)
             \/ ForceAUMUpdate(values, hub, timestamp, implied)
  BY DEF Report
<1>2. PICK values \in [ids -> Values], hub \in HubValues, implied \in ImpliedValues :
        \/ ForwardAUM(values, hub, timestamp, implied)
        \/ ForceAUMUpdate(values, hub, timestamp, implied)
  BY <1>1
<1>3. /\ UNCHANGED <<config, caps>>
      /\ timestamp > latestReport.timestamp /\ noncePerStrategy' = noncePerStrategy + 1
  BY <1>2 DEF ForwardAUM, ForceAUMUpdate, VerifyAndConsume
<1>4. IgnoreReport \/ RecordDeviationBreach \/ SyncAndCommit(values, hub, timestamp)
  BY <1>2 DEF ForwardAUM, ForceAUMUpdate
<1>5. QED BY <1>1, <1>3, <1>4

LEMMA NextIsRegistryStep ==
  ASSUME [Next]_vars
  PROVE  [RegistryNext]_registryVars
<1>1. CASE \E r \in ReservationIds, c \in Chains, a \in Amounts : Send(r, c, a)
  BY <1>1 DEF Send, RegistryNext
<1>2. CASE Report
  <2>1. CASE IgnoreReport
    BY <2>1 DEF IgnoreReport
  <2>2. CASE RecordDeviationBreach
    BY <2>2 DEF RecordDeviationBreach
  <2>3. CASE \E ids \in SUBSET PositionIds, timestamp \in 1 .. now :
               \E values \in [ids -> Values], hub \in HubValues :
                 timestamp > latestReport.timestamp /\ SyncAndCommit(values, hub, timestamp)
    BY <2>3 DEF SyncAndCommit, RegistryNext
  <2>4. QED BY <1>2, <2>1, <2>2, <2>3, ReportCases
<1>3. CASE (RegistrarStep \/ GovernanceStep \/ Tick) /\ Elsewhere
  BY <1>3 DEF RegistryNext
<1>4. CASE \E new \in Configs : SetAUMOracleConfig(new)
  BY <1>4 DEF SetAUMOracleConfig
<1>5. CASE \E new \in CapConfigs : SetCaps(new)
  BY <1>5 DEF SetCaps
<1>6. CASE UNCHANGED vars
  BY <1>6 DEF vars
<1>7. QED BY <1>1, <1>2, <1>3, <1>4, <1>5, <1>6 DEF Next

(* What is booked of a report is part of what the live positions are worth *)
(* after it.                                                               *)
LEMMA CommittedIsHeld ==
  ASSUME RegistryInv, NEW ids \in SUBSET PositionIds, NEW values \in [ids -> Values],
         SyncPositionsFromReport(values)
  PROVE  /\ CommittedTotal(values) \in Nat
         /\ CommittedTotal(values) <= SumOver(ValueOf', strategyPositions')
<1> DEFINE f == [p \in DOMAIN values |-> AcceptedValue(p, values[p])]
           g == ValueOf'
           L == strategyPositions
           T == ids \cap L
<1>1. /\ DOMAIN values = ids /\ \A p \in ids : values[p] \in Nat
      /\ strategyPositions' = L
      /\ L = {p \in PositionIds : positions[p].status \in Live}
  BY RegistryConstants, InvRecords DEF SyncPositionsFromReport
<1>2. /\ positions' \in [PositionIds -> Positions]
      /\ \A p \in ids : Books(p, values[p]) => positions'[p].value = values[p]
  BY SyncedPositions
<1>3. \A p \in PositionIds : g[p] = positions'[p].value /\ g[p] \in Nat
  BY <1>2 DEF ValueOf, Positions
<1>4. \A p \in ids : f[p] = (IF Books(p, values[p]) THEN values[p] ELSE 0)
  BY <1>1 DEF AcceptedValue
<1>5. \A p \in ids : f[p] \in Nat
  BY <1>1, <1>4
<1>6. \A p \in ids \ T : f[p] = 0
  BY <1>1, <1>4 DEF Books, Live, Booked
<1>7. \A p \in T : f[p] <= g[p]
  BY <1>1, <1>2, <1>3, <1>4
<1>8. CommittedTotal(values) = SumOver(f, ids)
  BY <1>1 DEF CommittedTotal
<1>9. /\ T \subseteq ids /\ T \subseteq L /\ L \subseteq PositionIds
      /\ IsFiniteSet(ids) /\ IsFiniteSet(T) /\ IsFiniteSet(L)
  BY <1>1, RegistryConstants, FS_Subset
<1>10. (\A p \in T : f[p] \in Nat) /\ (\A p \in T : g[p] \in Nat) /\ \A p \in L : g[p] \in Nat
  BY <1>3, <1>5, <1>9
<1> HIDE DEF f, g, L, T
<1>11. SumOver(f, ids) = SumOver(f, T) + SumOver(f, ids \ T)
  BY <1>5, <1>9, SumSubset
<1>12. SumOver(f, ids \ T) = 0
  BY <1>6, SumZero
<1>13. SumOver(f, T) <= SumOver(g, T)
  BY <1>7, <1>9, <1>10, SumMonotone
<1>14. SumOver(g, L) = SumOver(g, T) + SumOver(g, L \ T)
  BY <1>9, <1>10, SumSubset
<1>15. SumOver(g, T) \in Nat /\ SumOver(f, T) \in Nat
  BY <1>9, <1>10, SumType
<1>16. SumOver(g, L \ T) \in Nat
  BY <1>9, <1>10, SumSubset
<1>17. SumOver(f, ids) \in Nat /\ SumOver(f, ids) <= SumOver(g, L)
  BY <1>11, <1>12, <1>13, <1>14, <1>15, <1>16
<1>18. SumOver(g, L) = SumOver(ValueOf', strategyPositions')
  BY <1>1 DEF g, L
<1>19. QED BY <1>8, <1>17, <1>18

(* Nothing but a report changes what a position is worth, and only drained *)
(* and unseen positions leave the live set.                                *)
LEMMA ValuesKept ==
  ASSUME RegistryInv,
         positions' \in [PositionIds -> Positions], strategyPositions' \subseteq PositionIds,
         \A p \in strategyPositions :
           \/ positions[p].value = 0
           \/ p \in strategyPositions' /\ positions'[p].value = positions[p].value
  PROVE  SumOver(ValueOf, strategyPositions) <= SumOver(ValueOf', strategyPositions')
<1> DEFINE f == ValueOf
           g == ValueOf'
           L == strategyPositions
           M == strategyPositions'
           T == {p \in L : positions[p].value # 0}
<1>1. \A p \in PositionIds : f[p] = positions[p].value /\ f[p] \in Nat
  BY RegistryFunctions
<1>2. \A p \in PositionIds : g[p] = positions'[p].value /\ g[p] \in Nat
  BY DEF ValueOf, Positions
<1>3. L \subseteq PositionIds /\ T \subseteq L /\ T \subseteq M /\ M \subseteq PositionIds
  BY InvTypes
<1>4. IsFiniteSet(L) /\ IsFiniteSet(M)
  BY <1>3, RegistryConstants, FS_Subset
<1>5. (\A p \in T : f[p] = g[p]) /\ \A p \in L \ T : f[p] = 0
  BY <1>1, <1>2, <1>3
<1>6. (\A p \in L : f[p] \in Nat) /\ \A p \in M : g[p] \in Nat
  BY <1>1, <1>2, <1>3
<1> HIDE DEF f, g, L, M, T
<1>7. SumOver(f, L) = SumOver(f, T) + SumOver(f, L \ T)
  BY <1>3, <1>4, <1>6, SumSubset
<1>8. SumOver(f, L \ T) = 0
  BY <1>5, SumZero
<1>9. SumOver(f, T) = SumOver(g, T)
  BY <1>5, SumSame
<1>10. SumOver(g, M) = SumOver(g, T) + SumOver(g, M \ T)
  BY <1>3, <1>4, <1>6, SumSubset
<1>11. SumOver(g, T) \in Nat
  BY <1>3, <1>4, <1>6, SumSubset
<1>12. SumOver(g, M \ T) \in Nat
  BY <1>3, <1>4, <1>6, SumSubset
<1>13. SumOver(f, L) <= SumOver(g, M)
  BY <1>7, <1>8, <1>9, <1>10, <1>11, <1>12
<1>14. QED BY <1>13 DEF f, g, L, M

(* One lemma for every step that books no report.                          *)
LEMMA OtherStepsKeepValues ==
  ASSUME RegistryInv, RegistryInv',
         \/ \E r \in ReservationIds, c \in Chains, a \in Amounts : RecordBridgedOut(r, c, a)
         \/ RegistrarStep \/ GovernanceStep \/ Tick
         \/ UNCHANGED registryVars
  PROVE  SumOver(ValueOf, strategyPositions) <= SumOver(ValueOf', strategyPositions')
<1>1. /\ positions \in [PositionIds -> Positions]
      /\ strategyPositions = {p \in PositionIds : positions[p].status \in Live}
  BY InvTypes, InvRecords
<1>2. positions' \in [PositionIds -> Positions] /\ strategyPositions' \subseteq PositionIds
  BY DEF RegistryInv, RegistryTypeOK
<1>3. SUFFICES ASSUME NEW o \in strategyPositions
               PROVE  \/ positions[o].value = 0
                      \/ o \in strategyPositions' /\ positions'[o].value = positions[o].value
  BY <1>2, ValuesKept
<1>4. CASE \E r \in ReservationIds, c \in Chains, a \in Amounts : RecordBridgedOut(r, c, a)
  BY <1>4 DEF RecordBridgedOut
<1>5. ASSUME NEW r \in ReservationIds, NEW p \in PositionIds, RegisterPosition(r, p)
      PROVE  o \in strategyPositions' /\ positions'[o].value = positions[o].value
  BY <1>1, <1>5 DEF RegisterPosition, Live, Booked
<1>6. ASSUME NEW p \in PositionIds, BeginPositionExit(p)
      PROVE  o \in strategyPositions' /\ positions'[o].value = positions[o].value
  <2>1. positions' = [positions EXCEPT ![p].status = "WindingDown"]
    BY <1>6 DEF BeginPositionExit
  <2>2. QED BY <1>1, <1>6, <2>1, StatusChange DEF BeginPositionExit
<1>7. ASSUME NEW p \in PositionIds, DeregisterPosition(p)
      PROVE  \/ positions[o].value = 0
             \/ o \in strategyPositions' /\ positions'[o].value = positions[o].value
  BY <1>1, <1>7 DEF DeregisterPosition, IsDrained
<1>8. ASSUME NEW p \in PositionIds, InvalidateExpiredPending(p)
      PROVE  \/ positions[o].value = 0
             \/ o \in strategyPositions' /\ positions'[o].value = positions[o].value
  BY <1>1, <1>8 DEF InvalidateExpiredPending, IsInvalid, HasExpired
<1>9. ASSUME NEW p \in PositionIds, ReconcileUnderDeliveredPosition(p)
      PROVE  o \in strategyPositions' /\ positions'[o].value = positions[o].value
  <2>1. positions' = [positions EXCEPT ![p].status = "Active"]
    BY <1>9 DEF ReconcileUnderDeliveredPosition
  <2>2. QED BY <1>1, <1>9, <2>1, StatusChange DEF ReconcileUnderDeliveredPosition
<1>10. ASSUME NEW r \in ReservationIds, ReleaseExpiredReservation(r)
       PROVE  o \in strategyPositions' /\ positions'[o].value = positions[o].value
  BY <1>10 DEF ReleaseExpiredReservation
<1>11. CASE Tick
  BY <1>11 DEF Tick
<1>12. CASE UNCHANGED registryVars
  BY <1>12 DEF registryVars
<1>13. QED BY <1>4, <1>5, <1>6, <1>7, <1>8, <1>9, <1>10, <1>11, <1>12
           DEF RegistrarStep, GovernanceStep

-----------------------------------------------------------------------------
(* The invariant.                                                          *)

AUMInv == RegistryInv /\ OracleTypeOK /\ Backed

LEMMA InitAUMInv == Init => AUMInv
<1> SUFFICES ASSUME Init PROVE AUMInv
  OBVIOUS
<1>1. RegistryInv
  BY RegistryInitInv DEF Init
<1>2. OracleTypeOK
  BY DEF Init, OracleTypeOK
<1>3. Backed
  <2>1. strategyPositions = {} /\ latestReport.totalCrossChainAssets = 0
    BY DEF Init, RegistryInit
  <2>2. QED BY <2>1, SumEmpty DEF Backed
<1>4. QED BY <1>1, <1>2, <1>3 DEF AUMInv

LEMMA NextAUMInv == AUMInv /\ [Next]_vars => AUMInv'
<1> SUFFICES ASSUME AUMInv, [Next]_vars PROVE AUMInv'
  OBVIOUS
<1>1. RegistryInv /\ OracleTypeOK /\ Backed
  BY DEF AUMInv
<1>2. RegistryInv'
  BY <1>1, NextIsRegistryStep, RegistryNextInv
<1>3. ASSUME UNCHANGED <<config, noncePerStrategy>>, caps' \in CapConfigs, UNCHANGED reportVars
      PROVE  OracleTypeOK'
  BY <1>1, <1>3 DEF OracleTypeOK, reportVars
<1>4. ASSUME SumOver(ValueOf, strategyPositions) <= SumOver(ValueOf', strategyPositions'),
             UNCHANGED latestReport
      PROVE  Backed'
  <2>1. /\ SumOver(ValueOf, strategyPositions) \in Nat
        /\ latestReport.totalCrossChainAssets \in Nat
    BY <1>1, RegistryFunctions, SumType DEF OracleTypeOK
  <2>2. SumOver(ValueOf', strategyPositions') \in Nat
    <3>1. /\ positions' \in [PositionIds -> Positions] /\ strategyPositions' \subseteq PositionIds
      BY <1>2 DEF RegistryInv, RegistryTypeOK
    <3>2. \A p \in strategyPositions' : ValueOf'[p] \in Nat
      BY <3>1 DEF ValueOf, Positions
    <3>3. IsFiniteSet(strategyPositions')
      BY <3>1, RegistryConstants, FS_Subset
    <3>4. QED BY <3>2, <3>3, SumType
  <2>3. QED BY <1>1, <1>4, <2>1, <2>2 DEF Backed
<1>5. CASE \E r \in ReservationIds, c \in Chains, a \in Amounts : Send(r, c, a)
  <2>1. /\ \E r \in ReservationIds, c \in Chains, a \in Amounts : RecordBridgedOut(r, c, a)
        /\ UNCHANGED <<config, caps, noncePerStrategy>> /\ UNCHANGED reportVars
    BY <1>5 DEF Send
  <2>2. OracleTypeOK'
    BY <1>1, <1>3, <2>1 DEF OracleTypeOK
  <2>3. Backed'
    BY <1>1, <1>2, <1>4, <2>1, OtherStepsKeepValues DEF reportVars
  <2>4. QED BY <1>2, <2>2, <2>3 DEF AUMInv
<1>6. CASE Report
  <2>1. UNCHANGED <<config, caps>> /\ noncePerStrategy' = noncePerStrategy + 1
    BY <1>6, ReportCases
  <2>2. CASE IgnoreReport
    <3>1. OracleTypeOK'
      BY <1>1, <2>1, <2>2 DEF IgnoreReport, OracleTypeOK, reportVars
    <3>2. Backed'
      BY <1>1, <1>2, <1>4, <2>2, OtherStepsKeepValues DEF IgnoreReport, reportVars
    <3>3. QED BY <1>2, <3>1, <3>2 DEF AUMInv
  <2>3. CASE RecordDeviationBreach
    <3>1. OracleTypeOK'
      BY <1>1, <2>1, <2>3 DEF RecordDeviationBreach, OracleTypeOK
    <3>2. Backed'
      BY <1>1, <1>2, <1>4, <2>3, OtherStepsKeepValues DEF RecordDeviationBreach
    <3>3. QED BY <1>2, <3>1, <3>2 DEF AUMInv
  <2>4. ASSUME NEW ids \in SUBSET PositionIds, NEW timestamp \in 1 .. now,
               NEW values \in [ids -> Values], NEW hub \in HubValues,
               SyncAndCommit(values, hub, timestamp)
        PROVE  AUMInv'
    <3>1. /\ SyncPositionsFromReport(values)
          /\ latestReport' = [hubAssets |-> hub, totalCrossChainAssets |-> CommittedTotal(values),
                              timestamp |-> timestamp]
          /\ lastCommitAt' = now /\ reportBootstrapped' = TRUE
          /\ consecutiveBreaches' = 0 /\ aumBreakerTripped' = FALSE
      BY <2>4 DEF SyncAndCommit
    <3>2. /\ CommittedTotal(values) \in Nat
          /\ CommittedTotal(values) <= SumOver(ValueOf', strategyPositions')
      BY <1>1, <3>1, CommittedIsHeld
    <3>3. now \in Nat /\ timestamp \in Nat /\ hub \in Nat
      BY <1>1, InvTypes, AUMConstants
    <3>4. OracleTypeOK'
      <4>1. latestReport' \in [hubAssets : Nat, totalCrossChainAssets : Nat, timestamp : Nat]
        BY <3>1, <3>2, <3>3
      <4>2. aumBreakerTripped' \in BOOLEAN /\ reportBootstrapped' \in BOOLEAN
        BY <3>1
      <4>3. lastCommitAt' \in Nat /\ noncePerStrategy' \in Nat /\ consecutiveBreaches' \in Nat
        BY <1>1, <2>1, <3>1, <3>3 DEF OracleTypeOK
      <4>4. QED BY <1>1, <2>1, <4>1, <4>2, <4>3 DEF OracleTypeOK
    <3>5. Backed'
      BY <3>1, <3>2 DEF Backed
    <3>6. QED BY <1>2, <3>4, <3>5 DEF AUMInv
  <2>5. QED BY <1>6, <2>2, <2>3, <2>4, ReportCases
<1>7. CASE (RegistrarStep \/ GovernanceStep \/ Tick) /\ Elsewhere
  <2>1. OracleTypeOK'
    BY <1>1, <1>3, <1>7 DEF Elsewhere, OracleTypeOK
  <2>2. Backed'
    BY <1>1, <1>2, <1>4, <1>7, OtherStepsKeepValues DEF Elsewhere, reportVars
  <2>3. QED BY <1>2, <2>1, <2>2 DEF AUMInv
<1>8. CASE \E new \in Configs : SetAUMOracleConfig(new)
  <2>1. OracleTypeOK'
    BY <1>1, <1>8 DEF SetAUMOracleConfig, OracleTypeOK, reportVars
  <2>2. Backed'
    BY <1>1, <1>2, <1>4, <1>8, OtherStepsKeepValues DEF SetAUMOracleConfig, reportVars
  <2>3. QED BY <1>2, <2>1, <2>2 DEF AUMInv
<1>9. CASE \E new \in CapConfigs : SetCaps(new)
  <2>1. OracleTypeOK'
    BY <1>1, <1>3, <1>9 DEF SetCaps
  <2>2. Backed'
    BY <1>1, <1>2, <1>4, <1>9, OtherStepsKeepValues DEF SetCaps, reportVars
  <2>3. QED BY <1>2, <2>1, <2>2 DEF AUMInv
<1>10. CASE UNCHANGED vars
  <2>1. OracleTypeOK'
    BY <1>1, <1>10 DEF vars, OracleTypeOK, reportVars
  <2>2. Backed'
    BY <1>1, <1>2, <1>4, <1>10, OtherStepsKeepValues DEF vars, reportVars
  <2>3. QED BY <1>2, <2>1, <2>2 DEF AUMInv
<1>11. QED BY <1>5, <1>6, <1>7, <1>8, <1>9, <1>10 DEF Next

LEMMA AlwaysAUMInv == Spec => []AUMInv
BY InitAUMInv, NextAUMInv, PTL DEF Spec

-----------------------------------------------------------------------------
(* Theorems.                                                               *)

(* Every record and counter of the registry and of the oracle has its      *)
(* type: in particular no counter is ever taken below zero, where the      *)
(* code's subtraction would revert.                                        *)
THEOREM TypeCorrect == Spec => []TypeOK
<1>1. AUMInv => TypeOK
  BY DEF AUMInv, RegistryInv, OracleTypeOK, TypeOK
<1>2. QED BY <1>1, AlwaysAUMInv, PTL

(* The exposure that validateAllocation measures is the capital that is    *)
(* out, in total and on every chain; only what governance has reconciled   *)
(* is counted twice, until a report books it.                              *)
THEOREM ExposureIsExact == Spec => []ExposureExact
<1>1. AUMInv => ExposureExact
  BY ExposureIsCapital DEF AUMInv
<1>2. QED BY <1>1, AlwaysAUMInv, PTL

(* What the latest report has committed is still out, so that the desync   *)
(* check of validateAllocation never refuses a send.                       *)
THEOREM ReportsAreBacked == Spec => []ReportIsBacked
<1>1. AUMInv => ReportIsBacked
  <2>1. SUFFICES ASSUME AUMInv PROVE ReportIsBacked
    OBVIOUS
  <2>2. RegistryInv /\ OracleTypeOK /\ Backed
    BY <2>1 DEF AUMInv
  <2>3. /\ IsFiniteSet(strategyPositions)
        /\ {p \in strategyPositions : positions[p].chain \in Chains} = strategyPositions
        /\ \A p \in strategyPositions :
             ValueOf[p] \in Nat /\ CapitalOf[p] \in Nat /\ ValueOf[p] <= CapitalOf[p]
    <3>1. IsFiniteSet(strategyPositions) /\ strategyPositions \subseteq PositionIds
      BY <2>2, RegistryFunctions
    <3>2. \A p \in strategyPositions : positions[p].chain \in Chains
      BY <2>2, RegistryFunctions
    <3>3. \A p \in PositionIds :
            ValueOf[p] \in Nat /\ CapitalOf[p] \in Nat /\ ValueOf[p] <= CapitalOf[p]
      BY <2>2, RegistryFunctions
    <3>4. QED BY <3>1, <3>2, <3>3
  <2>4. SumOver(ValueOf, strategyPositions) <= SumOver(CapitalOf, strategyPositions)
    BY <2>3, SumMonotone
  <2>5. /\ SumOver(ValueOf, strategyPositions) \in Nat
        /\ SumOver(CapitalOf, strategyPositions) \in Nat
    BY <2>3, SumType
  <2>6. SumOver(AmountOf, OpenOn(Chains)) \in Nat
    BY <2>2, CountedSplit
  <2>7. CapitalOut(Chains) = SumOver(CapitalOf, strategyPositions) + SumOver(AmountOf, OpenOn(Chains))
    BY <2>3 DEF CapitalOut
  <2>8. latestReport.totalCrossChainAssets \in Nat
    BY <2>2 DEF OracleTypeOK
  <2>9. latestReport.totalCrossChainAssets <= CapitalOut(Chains)
    BY <2>2, <2>4, <2>5, <2>6, <2>7, <2>8 DEF Backed
  <2>10. /\ EffectiveCrossChainExposure = CapitalOut(Chains) + SumOver(AmountOf, ReconciledOn(Chains))
         /\ CapitalOut(Chains) \in Nat /\ SumOver(AmountOf, ReconciledOn(Chains)) \in Nat
    BY <2>2, ExposureIsCapital DEF ExposureExact
  <2>11. QED BY <2>8, <2>9, <2>10 DEF ReportIsBacked, SnapshotMatched
<1>2. QED BY <1>1, AlwaysAUMInv, PTL

-----------------------------------------------------------------------------
(* What a step does to the exposure.                                       *)

(* The booked value, while the booked positions are worth the same.        *)
LEMMA BookedSame ==
  ASSUME NEW chains, BookedOn(chains)' = BookedOn(chains),
         \A p \in BookedOn(chains) : ValueOf'[p] = ValueOf[p]
  PROVE  SumOver(ValueOf, BookedOn(chains))' = SumOver(ValueOf, BookedOn(chains))
BY SumSame

LEMMA BookedUntouched ==
  ASSUME UNCHANGED <<positions, strategyPositions>>
  PROVE  CrossChainAUM' = CrossChainAUM /\ \A c \in Chains : ChainExposure(c)' = ChainExposure(c)
BY DEF CrossChainAUM, ChainExposure, BookedOn, ValueOf

LEMMA ExposureType ==
  ASSUME RegistryInv
  PROVE  /\ CrossChainAUM \in Nat /\ bridgedOut \in Nat /\ pendingObservedExcess \in Nat
         /\ \A c \in Chains : /\ ChainExposure(c) \in Nat /\ bridgedOutByChain[c] \in Nat
                              /\ pendingObservedExcessByChain[c] \in Nat
<1>1. \A chains : SumOver(ValueOf, BookedOn(chains)) \in Nat
  BY CapitalSplit
<1>2. QED BY <1>1, InvTypes DEF CrossChainAUM, ChainExposure

(* A send adds its amount, in total and on its chain.                      *)
LEMMA SendAdds ==
  ASSUME RegistryInv, NEW r \in ReservationIds, NEW c \in Chains, NEW a \in Amounts,
         RecordBridgedOut(r, c, a)
  PROVE  /\ EffectiveCrossChainExposure' = EffectiveCrossChainExposure + a
         /\ EffectiveChainExposure(c)' = EffectiveChainExposure(c) + a
         /\ EffectiveCrossChainExposure \in Nat /\ EffectiveChainExposure(c) \in Nat
<1>1. /\ bridgedOut' = bridgedOut + a
      /\ bridgedOutByChain' = [bridgedOutByChain EXCEPT ![c] = @ + a]
      /\ UNCHANGED <<positions, strategyPositions>>
      /\ UNCHANGED <<pendingObservedExcess, pendingObservedExcessByChain>>
  BY DEF RecordBridgedOut, CountReservation, excessVars
<1>2. CrossChainAUM' = CrossChainAUM /\ ChainExposure(c)' = ChainExposure(c)
  BY <1>1, BookedUntouched
<1>3. bridgedOutByChain'[c] = bridgedOutByChain[c] + a
  BY <1>1, InvTypes
<1>4. a \in Nat
  BY RegistryConstants
<1>5. /\ CrossChainAUM \in Nat /\ bridgedOut \in Nat /\ pendingObservedExcess \in Nat
      /\ ChainExposure(c) \in Nat /\ bridgedOutByChain[c] \in Nat
      /\ pendingObservedExcessByChain[c] \in Nat
  BY ExposureType
<1>6. QED BY <1>1, <1>2, <1>3, <1>4, <1>5 DEF EffectiveCrossChainExposure, EffectiveChainExposure

(* Nothing but a send opens a reservation.                                 *)
LEMMA OnlySendsOpen ==
  ASSUME RegistryInv, [Next]_vars, NEW r \in ReservationIds,
         reservations[r].status = "None", reservations'[r].status = "Open"
  PROVE  \E c \in Chains, a \in Amounts : Send(r, c, a)
<1>1. reservations \in [ReservationIds -> Reservations]
  BY InvTypes
<1>2. reservations' # reservations
  OBVIOUS
<1>3. CASE \E o \in ReservationIds, c \in Chains, a \in Amounts : Send(o, c, a)
  BY <1>1, <1>3 DEF Send, RecordBridgedOut
<1>4. CASE Report
  <2>1. ~IgnoreReport /\ ~RecordDeviationBreach
    BY <1>2 DEF IgnoreReport, RecordDeviationBreach, registryVars
  <2>2. PICK ids \in SUBSET PositionIds, timestamp \in 1 .. now :
          \E values \in [ids -> Values], hub \in HubValues : SyncAndCommit(values, hub, timestamp)
    BY <1>4, <2>1, ReportCases
  <2>3. PICK values \in [ids -> Values] : SyncPositionsFromReport(values)
    BY <2>2 DEF SyncAndCommit
  <2>4. reservations'[r] = reservations[r] \/ reservations'[r].status = "Settled"
    BY <2>3, SettledBySync
  <2>5. QED BY <2>4
<1>5. ASSUME NEW o \in ReservationIds, NEW p \in PositionIds, RegisterPosition(o, p) PROVE FALSE
  <2>1. reservations' = [reservations EXCEPT ![o].status = "Consumed", ![o].position = p]
    BY <1>5 DEF RegisterPosition
  <2>2. QED BY <1>1, <2>1 DEF Reservations
<1>6. ASSUME NEW p \in PositionIds, BeginPositionExit(p) \/ DeregisterPosition(p) PROVE FALSE
  BY <1>2, <1>6 DEF BeginPositionExit, DeregisterPosition
<1>7. ASSUME NEW o \in ReservationIds, ReleaseExpiredReservation(o) PROVE FALSE
  <2>1. reservations' = [reservations EXCEPT ![o].status = "Released"]
    BY <1>7 DEF ReleaseExpiredReservation
  <2>2. QED BY <1>1, <2>1 DEF Reservations
<1>8. ASSUME NEW p \in PositionIds, InvalidateExpiredPending(p) PROVE FALSE
  <2>1. reservations' = [reservations EXCEPT ![positions[p].reservation].status = "Released"]
    BY <1>8 DEF InvalidateExpiredPending
  <2>2. QED BY <1>1, <2>1 DEF Reservations
<1>9. ASSUME NEW p \in PositionIds, ReconcileUnderDeliveredPosition(p) PROVE FALSE
  BY <1>2, <1>9 DEF ReconcileUnderDeliveredPosition
<1>10. ASSUME \/ Tick \/ UNCHANGED vars \/ \E new \in Configs : SetAUMOracleConfig(new)
              \/ \E new \in CapConfigs : SetCaps(new)
       PROVE  FALSE
  BY <1>2, <1>10 DEF Tick, vars, SetAUMOracleConfig, SetCaps, registryVars
<1>11. QED BY <1>3, <1>4, <1>5, <1>6, <1>7, <1>8, <1>9, <1>10
           DEF Next, RegistrarStep, GovernanceStep

(* The sums that ExposureExact equates are numbers.                        *)
CapitalTyped ==
  /\ CapitalOut(Chains) \in Nat /\ SumOver(AmountOf, ReconciledOn(Chains)) \in Nat
  /\ \A c \in Chains : CapitalOut({c}) \in Nat /\ SumOver(AmountOf, ReconciledOn({c})) \in Nat

(* However many sends are under way, whatever has been released, filled    *)
(* late or not yet reported: a send leaves no more capital out than the    *)
(* caps allow against the latest report.                                   *)
THEOREM SendsKeepToCaps == Spec => SendsWithinCap
<1> DEFINE Sent(r, c) ==
      reservations[r].status = "None" /\ reservations'[r].status = "Open" /\ reservations'[r].chain = c
           Within(c) ==
      /\ ~aumBreakerTripped
      /\ now - latestReport.timestamp <= config.maxStaleness
      /\ CapitalOut(Chains)' * BPS_PRECISION <= TotalAUM * caps.maxCrossChainBps
      /\ CapitalOut({c})' <= caps.perChainCap[c]
<1>1. AUMInv => ExposureExact /\ CapitalTyped
  BY ExposureIsCapital DEF AUMInv, CapitalTyped
<1>2. ASSUME AUMInv, [Next]_vars, (ExposureExact /\ CapitalTyped)',
             NEW r \in ReservationIds, NEW c \in Chains, Sent(r, c)
      PROVE  Within(c)
  <2>1. RegistryInv /\ OracleTypeOK
    BY <1>2 DEF AUMInv
  <2>2. PICK chain \in Chains, a \in Amounts : Send(r, chain, a)
    BY <1>2, <2>1, OnlySendsOpen
  <2>3. RecordBridgedOut(r, chain, a) /\ ValidateAllocation(chain, a)
    BY <2>2 DEF Send
  <2>4. chain = c
    <3>1. reservations' = [reservations EXCEPT ![r] =
            [status |-> "Open", chain |-> chain, amount |-> a, createdAt |-> now, position |-> NoId]]
      BY <2>3 DEF RecordBridgedOut
    <3>2. QED BY <1>2, <2>1, <3>1, InvTypes
  <2>5. /\ EffectiveCrossChainExposure' = EffectiveCrossChainExposure + a
        /\ EffectiveChainExposure(c)' = EffectiveChainExposure(c) + a
        /\ EffectiveCrossChainExposure \in Nat /\ EffectiveChainExposure(c) \in Nat
    BY <2>1, <2>3, <2>4, SendAdds
  <2>6. /\ EffectiveCrossChainExposure' = CapitalOut(Chains)' + SumOver(AmountOf, ReconciledOn(Chains))'
        /\ CapitalOut(Chains)' \in Nat /\ SumOver(AmountOf, ReconciledOn(Chains))' \in Nat
    BY <1>2 DEF ExposureExact, CapitalTyped
  <2>7. /\ EffectiveChainExposure(c)' = CapitalOut({c})' + SumOver(AmountOf, ReconciledOn({c}))'
        /\ CapitalOut({c})' \in Nat /\ SumOver(AmountOf, ReconciledOn({c}))' \in Nat
    BY <1>2 DEF ExposureExact, CapitalTyped
  <2>8. /\ ~aumBreakerTripped
        /\ now - latestReport.timestamp <= config.maxStaleness
        /\ (EffectiveCrossChainExposure + a) * BPS_PRECISION <= TotalAUM * caps.maxCrossChainBps
        /\ EffectiveChainExposure(c) + a <= caps.perChainCap[c]
    BY <2>3, <2>4 DEF ValidateAllocation, IsAUMFresh
  <2> DEFINE limit == TotalAUM * caps.maxCrossChainBps
  <2>9. limit \in Nat /\ caps.perChainCap[c] \in Nat
    <3>1. TotalAUM \in Nat
      BY <2>1 DEF TotalAUM, OracleTypeOK
    <3>2. caps.maxCrossChainBps \in Nat /\ caps.perChainCap[c] \in Nat
      BY <2>1, AUMConstants DEF OracleTypeOK
    <3>3. QED BY <3>1, <3>2, ProductNat
  <2>10. a \in Nat
    BY RegistryConstants
  <2> HIDE DEF limit
  <2>11. CapitalOut(Chains)' <= EffectiveCrossChainExposure + a
    BY <2>5, <2>6, <2>10
  <2>12. CapitalOut({c})' <= caps.perChainCap[c]
    BY <2>5, <2>7, <2>8, <2>9, <2>10
  <2>13. (EffectiveCrossChainExposure + a) * BPS_PRECISION <= limit
    BY <2>8 DEF limit
  <2>14. CapitalOut(Chains)' * BPS_PRECISION <= limit
    BY <2>5, <2>6, <2>9, <2>10, <2>11, <2>13 DEF BPS_PRECISION
  <2>15. QED BY <2>8, <2>12, <2>14 DEF limit
<1>3. ASSUME AUMInv, [Next]_vars, (ExposureExact /\ CapitalTyped)'
      PROVE  [\A r \in ReservationIds, c \in Chains : Sent(r, c) => Within(c)]_vars
  BY <1>2, <1>3
<1>4. QED BY <1>1, <1>3, AlwaysAUMInv, PTL DEF Spec, SendsWithinCap

(* What each step of the registrar does to the exposure.                   *)
LEMMA RegistrarKeepsExposure ==
  ASSUME RegistryInv, RegistrarStep
  PROVE  EffectiveCrossChainExposure' >= EffectiveCrossChainExposure
<1>1. /\ positions \in [PositionIds -> Positions]
      /\ strategyPositions = {p \in PositionIds : positions[p].status \in Live}
      /\ \A p \in PositionIds : PositionAgrees(p, reservations, positions)
  BY InvTypes, InvRecords
<1>2. CrossChainAUM \in Nat /\ bridgedOut \in Nat /\ pendingObservedExcess \in Nat
  BY ExposureType
<1>3. ASSUME CrossChainAUM' = CrossChainAUM, bridgedOut' \in Nat, bridgedOut' >= bridgedOut,
             pendingObservedExcess' = pendingObservedExcess
      PROVE  EffectiveCrossChainExposure' >= EffectiveCrossChainExposure
  <2>1. EffectiveCrossChainExposure' = CrossChainAUM + bridgedOut' + pendingObservedExcess
    BY <1>3 DEF EffectiveCrossChainExposure
  <2>2. EffectiveCrossChainExposure = CrossChainAUM + bridgedOut + pendingObservedExcess
    BY DEF EffectiveCrossChainExposure
  <2>3. \A a, b, c, d \in Nat : d >= b => a + d + c >= a + b + c
    OBVIOUS
  <2>4. CrossChainAUM + bridgedOut' + pendingObservedExcess
          >= CrossChainAUM + bridgedOut + pendingObservedExcess
    BY <1>2, <1>3, <2>3
  <2>5. QED BY <2>1, <2>2, <2>4
<1>4. ASSUME NEW r \in ReservationIds, NEW p \in PositionIds, RegisterPosition(r, p)
      PROVE  CrossChainAUM' = CrossChainAUM /\ bridgedOut' \in Nat /\ bridgedOut' >= bridgedOut
               /\ pendingObservedExcess' = pendingObservedExcess
  <2>1. /\ positions[p].status = "None" /\ p \notin strategyPositions
        /\ \A o \in PositionIds \ {p} : positions'[o] = positions[o]
        /\ positions'[p].status = "Pending"
        /\ strategyPositions' = strategyPositions \cup {p}
    BY <1>1, <1>4 DEF RegisterPosition, Live, Booked
  <2>2. BookedOn(Chains)' = BookedOn(Chains)
    BY <1>1, <2>1 DEF BookedOn, Booked
  <2>3. \A o \in BookedOn(Chains) : ValueOf'[o] = ValueOf[o]
    BY <1>1, <2>1 DEF BookedOn, ValueOf
  <2>4. CrossChainAUM' = CrossChainAUM
    BY <2>2, <2>3, BookedSame DEF CrossChainAUM
  <2>5. reservations[r].amount \in Nat
    BY InvTypes DEF Reservations
  <2>6. bridgedOut' = bridgedOut \/ bridgedOut' = bridgedOut + reservations[r].amount
    BY <1>4 DEF RegisterPosition, CountReservation, countVars
  <2>7. pendingObservedExcess' = pendingObservedExcess
    BY <1>4 DEF RegisterPosition, excessVars
  <2>8. QED BY <1>2, <2>4, <2>5, <2>6, <2>7
<1>5. ASSUME NEW p \in PositionIds, BeginPositionExit(p)
      PROVE  CrossChainAUM' = CrossChainAUM /\ bridgedOut' \in Nat /\ bridgedOut' >= bridgedOut
               /\ pendingObservedExcess' = pendingObservedExcess
  <2>1. /\ positions' = [positions EXCEPT ![p].status = "WindingDown"]
        /\ positions[p].status = "Active" /\ strategyPositions' = strategyPositions
        /\ bridgedOut' = bridgedOut /\ pendingObservedExcess' = pendingObservedExcess
    BY <1>5 DEF BeginPositionExit, countVars, excessVars
  <2>2. /\ positions'[p].status = "WindingDown" /\ positions'[p].value = positions[p].value
        /\ positions'[p].chain = positions[p].chain
        /\ \A o \in PositionIds \ {p} : positions'[o] = positions[o]
    BY <2>1, StatusChange
  <2>3. BookedOn(Chains)' = BookedOn(Chains)
    BY <1>1, <2>1, <2>2 DEF BookedOn, Booked
  <2>4. \A o \in BookedOn(Chains) : ValueOf'[o] = ValueOf[o]
    BY <1>1, <2>1, <2>2 DEF BookedOn, ValueOf
  <2>5. CrossChainAUM' = CrossChainAUM
    BY <2>3, <2>4, BookedSame DEF CrossChainAUM
  <2>6. QED BY <1>2, <2>1, <2>5
<1>6. ASSUME NEW p \in PositionIds, DeregisterPosition(p)
      PROVE  CrossChainAUM' = CrossChainAUM /\ bridgedOut' \in Nat /\ bridgedOut' >= bridgedOut
               /\ pendingObservedExcess' = pendingObservedExcess
  <2> DEFINE L == BookedOn(Chains)
             f == ValueOf
             g == ValueOf'
  <2>1. /\ positions[p].status = "WindingDown" /\ positions[p].value = 0
        /\ strategyPositions' = strategyPositions \ {p}
        /\ bridgedOut' = bridgedOut /\ pendingObservedExcess' = pendingObservedExcess
        /\ positions' = [positions EXCEPT ![p].status = "Exited"]
    BY <1>6 DEF DeregisterPosition, IsDrained, countVars, excessVars
  <2>2. \A o \in PositionIds \ {p} : positions'[o] = positions[o]
    BY <2>1, StatusChange
  <2>3. p \in L /\ L \subseteq PositionIds
    BY <1>1, <2>1 DEF BookedOn, Live, Booked, PositionAgrees
  <2>4. L' = L \ {p}
    BY <1>1, <2>1, <2>2 DEF BookedOn
  <2>5. \A o \in PositionIds : f[o] \in Nat /\ f[o] = positions[o].value
    BY RegistryFunctions
  <2>6. \A o \in L \ {p} : f[o] = g[o]
    BY <1>1, <2>2, <2>3 DEF ValueOf
  <2>7. IsFiniteSet(L)
    BY <2>3, RegistryConstants, FS_Subset
  <2>8. CrossChainAUM = SumOver(f, L) /\ CrossChainAUM' = SumOver(g, L \ {p})
    BY <2>4 DEF CrossChainAUM
  <2> HIDE DEF L, f, g
  <2>9. SumOver(f, L \ {p}) = SumOver(g, L \ {p})
    BY <2>6, SumSame
  <2>10. \A o \in L : f[o] \in Nat
    BY <2>3, <2>5
  <2>11. SumOver(f, L) = f[p] + SumOver(f, L \ {p}) /\ SumOver(f, L \ {p}) \in Nat
    BY <2>3, <2>7, <2>10, SumSplit
  <2>12. f[p] = 0
    BY <2>1, <2>5
  <2>13. QED BY <1>2, <2>1, <2>8, <2>9, <2>11, <2>12
<1>7. QED BY <1>3, <1>4, <1>5, <1>6 DEF RegistrarStep

(* A reconciled position is booked with no less than the excess it had.    *)
LEMMA ReconcileKeepsExposure ==
  ASSUME RegistryInv, NEW p \in PositionIds, ReconcileUnderDeliveredPosition(p)
  PROVE  EffectiveCrossChainExposure' >= EffectiveCrossChainExposure
<1> DEFINE L == BookedOn(Chains)
           M == L \cup {p}
           f == ValueOf
           g == ValueOf'
           old == [q \in {p} |-> Excess(q, positions[q].value)]
           new == [q \in {p} |-> 0]
<1>1. /\ positions \in [PositionIds -> Positions]
      /\ strategyPositions = {o \in PositionIds : positions[o].status \in Live}
      /\ PositionAgrees(p, reservations, positions)
  BY InvTypes, InvRecords
<1>2. CrossChainAUM \in Nat /\ bridgedOut \in Nat /\ pendingObservedExcess \in Nat
  BY ExposureType
<1>3. /\ positions[p].status = "Pending" /\ SetPendingExcess({p}, new)
      /\ positions' = [positions EXCEPT ![p].status = "Active"]
      /\ strategyPositions' = strategyPositions /\ bridgedOut' = bridgedOut
  BY DEF ReconcileUnderDeliveredPosition, HasExpired, countVars
<1>4. /\ positions'[p].status = "Active" /\ positions'[p].value = positions[p].value
      /\ positions'[p].chain = positions[p].chain
      /\ positions' \in [PositionIds -> Positions]
      /\ \A o \in PositionIds \ {p} : positions'[o] = positions[o]
  BY <1>3, StatusChange
<1>5. positions[p].chain \in Chains /\ positions[p].value \in Nat /\ positions[p].amount \in Nat
  BY <1>1, <1>3 DEF PositionAgrees, Positions
<1>6. p \notin L /\ L \subseteq PositionIds /\ M \subseteq PositionIds
  BY <1>1, <1>3 DEF BookedOn, Booked
<1>7. L' = M
  BY <1>1, <1>3, <1>4, <1>5 DEF BookedOn, Live, Booked
<1>8. \A o \in PositionIds : f[o] \in Nat /\ f[o] = positions[o].value
  BY RegistryFunctions
<1>9. \A o \in PositionIds : g[o] = f[o]
  BY <1>4, <1>8 DEF ValueOf
<1>10. old[p] = Excess(p, positions[p].value) /\ new[p] = 0
  OBVIOUS
<1>11. old[p] \in Nat /\ old[p] <= positions[p].value
  BY <1>5, <1>10 DEF Excess
<1>12. pendingObservedExcess' = pendingObservedExcess - SumOver(old, {p}) + SumOver(new, {p})
  BY <1>3 DEF SetPendingExcess
<1>13. CrossChainAUM = SumOver(f, L) /\ CrossChainAUM' = SumOver(g, M)
  BY <1>7 DEF CrossChainAUM
<1>14. IsFiniteSet(M) /\ M \ {p} = L
  BY <1>6, RegistryConstants, FS_Subset
<1> HIDE DEF L, f, g, old, new
<1>15. SumOver(old, {p}) = old[p] /\ SumOver(new, {p}) = 0
  BY <1>10, <1>11, SumSingleton
<1>16. SumOver(g, M) = g[p] + SumOver(g, M \ {p})
  <2>1. p \in M /\ \A o \in M : g[o] \in Nat
    BY <1>6, <1>8, <1>9
  <2>2. QED BY <1>14, <2>1, SumSplit
<1>17. SumOver(g, L) = SumOver(f, L)
  BY <1>6, <1>9, SumSame
<1>18. CrossChainAUM' = CrossChainAUM + positions[p].value
  BY <1>2, <1>5, <1>8, <1>9, <1>13, <1>14, <1>16, <1>17
<1>19. pendingObservedExcess' = pendingObservedExcess - old[p]
  BY <1>2, <1>11, <1>12, <1>15
<1>20. QED BY <1>2, <1>3, <1>5, <1>11, <1>18, <1>19 DEF EffectiveCrossChainExposure

(* The exposure never shrinks but by a committed report, or by the release *)
(* of a transfer of which no report has seen anything within its timeout.  *)
THEOREM OnlyReportsUncount == Spec => UncountedOnlyByReport
<1> DEFINE Unseen ==
      \E r \in ReservationIds :
        /\ reservations'[r].status = "Released"
        /\ \/ reservations[r].status = "Open" /\ now > reservations[r].createdAt + RESERVATION_TIMEOUT
           \/ /\ reservations[r].status = "Consumed"
              /\ positions[reservations[r].position].value = 0
           E == EffectiveCrossChainExposure
<1>1. ASSUME AUMInv, [Next]_vars, (E \in Nat)'
      PROVE  E' < E => latestReport' # latestReport \/ Unseen
  <2>1. RegistryInv /\ OracleTypeOK
    BY <1>1 DEF AUMInv
  <2>2. E \in Nat /\ E' \in Nat
    BY <1>1, <2>1, ExposureType DEF EffectiveCrossChainExposure
  <2>3. SUFFICES \/ E' >= E \/ latestReport' # latestReport \/ Unseen
    BY <1>1, <2>2
  <2>4. ASSUME UNCHANGED registryVars PROVE E' >= E
    BY <2>2, <2>4, BookedUntouched DEF registryVars, EffectiveCrossChainExposure
  <2>5. CASE \E r \in ReservationIds, c \in Chains, a \in Amounts : Send(r, c, a)
    <3>1. PICK r \in ReservationIds, c \in Chains, a \in Amounts : RecordBridgedOut(r, c, a)
      BY <2>5 DEF Send
    <3>2. E' = E + a /\ a \in Nat
      BY <2>1, <3>1, SendAdds, RegistryConstants
    <3>3. QED BY <2>2, <3>2
  <2>6. CASE Report
    <3>1. CASE IgnoreReport \/ RecordDeviationBreach
      BY <2>4, <3>1 DEF IgnoreReport, RecordDeviationBreach
    <3>2. ASSUME NEW ids \in SUBSET PositionIds, NEW timestamp \in 1 .. now,
                 NEW values \in [ids -> Values], NEW hub \in HubValues,
                 timestamp > latestReport.timestamp, SyncAndCommit(values, hub, timestamp)
          PROVE  latestReport' # latestReport
      <4>1. latestReport'.timestamp = timestamp
        BY <3>2 DEF SyncAndCommit
      <4>2. timestamp \in Nat /\ latestReport.timestamp \in Nat
        BY <2>1, InvTypes DEF OracleTypeOK
      <4>3. QED BY <3>2, <4>1, <4>2
    <3>3. QED BY <2>6, <3>1, <3>2, ReportCases
  <2>7. CASE RegistrarStep
    BY <2>1, <2>7, RegistrarKeepsExposure
  <2>8. ASSUME NEW r \in ReservationIds, ReleaseExpiredReservation(r) PROVE Unseen
    <3>1. /\ reservations[r].status = "Open"
          /\ now > reservations[r].createdAt + RESERVATION_TIMEOUT
          /\ reservations' = [reservations EXCEPT ![r].status = "Released"]
      BY <2>8 DEF ReleaseExpiredReservation
    <3>2. reservations'[r].status = "Released"
      BY <2>1, <3>1, InvTypes DEF Reservations
    <3>3. QED BY <3>1, <3>2
  <2>9. ASSUME NEW p \in PositionIds, InvalidateExpiredPending(p) PROVE Unseen
    <3> DEFINE r == positions[p].reservation
    <3>1. /\ positions[p].status = "Pending" /\ positions[p].value = 0
          /\ reservations' = [reservations EXCEPT ![r].status = "Released"]
      BY <2>9 DEF InvalidateExpiredPending, IsInvalid, HasExpired
    <3>2. /\ r \in ReservationIds /\ reservations[r].status = "Consumed"
          /\ reservations[r].position = p
      BY <2>1, <3>1, InvRecords DEF PositionAgrees
    <3>3. reservations'[r].status = "Released"
      BY <2>1, <3>1, <3>2, InvTypes DEF Reservations
    <3>4. QED BY <3>1, <3>2, <3>3
  <2>10. ASSUME NEW p \in PositionIds, ReconcileUnderDeliveredPosition(p) PROVE E' >= E
    BY <2>1, <2>10, ReconcileKeepsExposure
  <2>11. CASE Tick
    BY <2>2, <2>11, BookedUntouched DEF Tick, countVars, excessVars, EffectiveCrossChainExposure
  <2>12. CASE \/ \E new \in Configs : SetAUMOracleConfig(new)
              \/ \E new \in CapConfigs : SetCaps(new)
              \/ UNCHANGED vars
    BY <2>4, <2>12 DEF SetAUMOracleConfig, SetCaps, vars
  <2>13. QED BY <1>1, <2>5, <2>6, <2>7, <2>8, <2>9, <2>10, <2>11, <2>12 DEF Next, GovernanceStep
<1>2. ASSUME AUMInv, [Next]_vars, (E \in Nat)'
      PROVE  [E' < E => latestReport' # latestReport \/ Unseen]_vars
  BY <1>1, <1>2
<1>3. AUMInv => E \in Nat
  BY ExposureType DEF AUMInv, EffectiveCrossChainExposure
<1>4. QED BY <1>2, <1>3, AlwaysAUMInv, PTL DEF Spec, UncountedOnlyByReport

-----------------------------------------------------------------------------
(* A landing keeps to the bands.                                           *)

(* What a report has seen of a pending position was reported after the     *)
(* position had been registered: a report about the present covers it.     *)
ObservedEarlier ==
  \A p \in PositionIds :
    positions[p].status = "Pending" /\ positions[p].value > 0 => positions[p].registeredAt < now

LEMMA ObservedStep == AUMInv /\ ObservedEarlier /\ [Next]_vars => ObservedEarlier'
<1> SUFFICES ASSUME AUMInv, ObservedEarlier, [Next]_vars,
                    NEW p \in PositionIds, positions'[p].status = "Pending", positions'[p].value > 0
             PROVE  positions'[p].registeredAt < now'
  BY DEF ObservedEarlier
<1> DEFINE Kept == /\ positions[p].status = "Pending" /\ positions[p].value > 0
                   /\ positions'[p].registeredAt = positions[p].registeredAt
<1>1. RegistryInv
  BY DEF AUMInv
<1>2. /\ positions \in [PositionIds -> Positions] /\ now \in Nat
      /\ positions[p].registeredAt \in Nat
  BY <1>1, InvTypes DEF Positions
<1>3. ASSUME Kept, now' = now \/ now' = now + 1
      PROVE  positions'[p].registeredAt < now'
  <2>1. positions[p].registeredAt < now
    BY <1>3 DEF ObservedEarlier
  <2>2. QED BY <1>2, <1>3, <2>1
<1>4. ASSUME UNCHANGED positions PROVE Kept
  BY <1>4
<1>5. ASSUME NEW q \in PositionIds, NEW s \in {"Active", "WindingDown", "Exited", "Invalidated"},
             positions' = [positions EXCEPT ![q].status = s]
      PROVE  Kept
  <2>1. positions'[q].status = s /\ \A o \in PositionIds \ {q} : positions'[o] = positions[o]
    BY <1>1, <1>5, StatusChange
  <2>2. p # q
    BY <2>1
  <2>3. QED BY <2>1, <2>2
<1>6. CASE \E r \in ReservationIds, c \in Chains, a \in Amounts : Send(r, c, a)
  BY <1>3, <1>4, <1>6 DEF Send, RecordBridgedOut
<1>7. CASE Report
  <2>1. CASE IgnoreReport \/ RecordDeviationBreach
    BY <1>3, <1>4, <2>1 DEF IgnoreReport, RecordDeviationBreach, registryVars
  <2>2. ASSUME NEW ids \in SUBSET PositionIds, NEW timestamp \in 1 .. now,
               ValidReportSet(ids, timestamp), NEW values \in [ids -> Values], NEW hub \in HubValues,
               SyncAndCommit(values, hub, timestamp)
        PROVE  positions'[p].registeredAt < now'
    <3>1. SyncPositionsFromReport(values)
      BY <2>2 DEF SyncAndCommit
    <3>2. now' = now
      BY <3>1 DEF SyncPositionsFromReport
    <3>3. /\ positions'[p].registeredAt = positions[p].registeredAt
          /\ p \in ids /\ Books(p, values[p]) =>
               positions'[p].status = (IF Confirms(p, values[p]) THEN "Active" ELSE positions[p].status)
          /\ ~(p \in ids /\ Books(p, values[p])) => positions'[p] = positions[p]
      BY <1>1, <3>1, SyncedPositions
    <3>4. CASE p \in ids /\ Books(p, values[p])
      <4>1. positions[p].status = "Pending"
        BY <3>3, <3>4
      <4>2. positions[p].registeredAt < timestamp
        BY <2>2, <3>4, <4>1 DEF ValidReportSet, PositionRequired, Booked, Terminal
      <4>3. timestamp \in Nat /\ timestamp <= now
        BY <1>2
      <4>4. QED BY <1>2, <3>2, <3>3, <4>2, <4>3
    <3>5. CASE ~(p \in ids /\ Books(p, values[p]))
      BY <1>3, <3>2, <3>3, <3>5
    <3>6. QED BY <3>4, <3>5
  <2>3. QED BY <1>7, <2>1, <2>2, ReportCases
<1>8. CASE RegistrarStep
  <2>1. ASSUME NEW r \in ReservationIds, NEW q \in PositionIds, RegisterPosition(r, q)
        PROVE  positions'[p].registeredAt < now'
    <3>1. /\ now' = now
          /\ positions' = [positions EXCEPT ![q] =
               [status |-> "Pending", reservation |-> r, chain |-> reservations[r].chain,
                amount |-> reservations[r].amount, value |-> 0, registeredAt |-> now]]
      BY <2>1 DEF RegisterPosition
    <3>2. p # q
      BY <1>2, <3>1
    <3>3. positions'[p] = positions[p]
      BY <1>2, <3>1, <3>2
    <3>4. QED BY <1>3, <3>1, <3>3
  <2>2. ASSUME NEW q \in PositionIds, BeginPositionExit(q) \/ DeregisterPosition(q)
        PROVE  positions'[p].registeredAt < now'
    BY <1>3, <1>5, <2>2 DEF BeginPositionExit, DeregisterPosition
  <2>3. QED BY <1>8, <2>1, <2>2 DEF RegistrarStep
<1>9. CASE GovernanceStep
  <2>1. ASSUME NEW r \in ReservationIds, ReleaseExpiredReservation(r)
        PROVE  positions'[p].registeredAt < now'
    BY <1>3, <1>4, <2>1 DEF ReleaseExpiredReservation
  <2>2. ASSUME NEW q \in PositionIds,
               InvalidateExpiredPending(q) \/ ReconcileUnderDeliveredPosition(q)
        PROVE  positions'[p].registeredAt < now'
    BY <1>3, <1>5, <2>2 DEF InvalidateExpiredPending, ReconcileUnderDeliveredPosition
  <2>3. QED BY <1>9, <2>1, <2>2 DEF GovernanceStep
<1>10. CASE Tick
  BY <1>3, <1>4, <1>10 DEF Tick
<1>11. CASE \/ \E new \in Configs : SetAUMOracleConfig(new)
            \/ \E new \in CapConfigs : SetCaps(new)
            \/ UNCHANGED vars
  BY <1>3, <1>4, <1>11 DEF SetAUMOracleConfig, SetCaps, vars, registryVars
<1>12. QED BY <1>6, <1>7, <1>8, <1>9, <1>10, <1>11 DEF Next

LEMMA AlwaysObservedEarlier == Spec => []ObservedEarlier
<1>1. Init => ObservedEarlier
  BY DEF Init, RegistryInit, ObservedEarlier, NoPosition
<1>2. QED BY <1>1, ObservedStep, AlwaysAUMInv, PTL DEF Spec

(* The positions a report of the values counts.                            *)
Candidates(values) == {p \in DOMAIN values : positions[p].status \notin Terminal}

(* A report about the present leaves out only what has not been seen yet.  *)
LEMMA CandidatesHoldAll ==
  ASSUME RegistryInv, ObservedEarlier, NEW ids \in SUBSET PositionIds, NEW values \in [ids -> Values],
         ValidReportSet(ids, now)
  PROVE  /\ Candidates(values) \subseteq strategyPositions
         /\ \A p \in Candidates(values) : p \in ids /\ positions[p].status \in Live
         /\ \A p \in ids : positions[p].status \in Live => p \in Candidates(values)
         /\ \A p \in strategyPositions \ Candidates(values) : ValueOf[p] = 0
<1>1. strategyPositions = {p \in PositionIds : positions[p].status \in Live} /\ DOMAIN values = ids
  BY InvRecords
<1>2. \A p \in ids : positions[p].status \in Live \cup Terminal
  BY DEF ValidReportSet, PositionRequired, Live
<1>3. \A s \in Live : s \notin Terminal
  BY DEF Live, Booked, Terminal
<1>4. ASSUME NEW p \in strategyPositions, p \notin Candidates(values) PROVE ValueOf[p] = 0
  <2>1. p \in PositionIds /\ positions[p].status \in Live /\ p \notin ids
    BY <1>1, <1>3, <1>4 DEF Candidates
  <2>2. ~PositionRequired(p, now)
    BY <2>1, <1>4 DEF ValidReportSet
  <2>3. positions[p].status = "Pending" /\ ~(positions[p].registeredAt < now)
    BY <2>1, <2>2 DEF PositionRequired, Live, Booked
  <2>4. ~(positions[p].value > 0)
    BY <2>1, <2>3 DEF ObservedEarlier
  <2>5. ValueOf[p] = positions[p].value /\ ValueOf[p] \in Nat
    BY <2>1, RegistryFunctions
  <2>6. QED BY <2>4, <2>5
<1>5. QED BY <1>1, <1>2, <1>3, <1>4 DEF Candidates

(* What a landing may add to a position's value, the part of a reservation *)
(* that a report has seen already, and what an exit has drained.           *)
Landing == [p \in PositionIds |->
  IF positions[p].status = "Pending" /\ positions[p].value = 0 THEN positions[p].amount ELSE 0]
Seen == [p \in PositionIds |->
  IF positions[p].status = "Pending" /\ positions[p].value > 0
    THEN IF positions[p].value < positions[p].amount THEN positions[p].value ELSE positions[p].amount
    ELSE 0]
DrainedBy(values) == [p \in PositionIds |->
  IF positions[p].status = "WindingDown" /\ values[p] = 0 THEN positions[p].value ELSE 0]
Awaited == [p \in PositionIds |-> IF positions[p].status = "Pending" THEN positions[p].amount ELSE 0]

LEMMA LandingFunctions ==
  ASSUME RegistryInv, NEW values
  PROVE  /\ \A p \in PositionIds : Landing[p] \in Nat /\ Seen[p] \in Nat /\ Awaited[p] \in Nat
         /\ \A p \in PositionIds : DrainedBy(values)[p] \in Nat
         /\ \A p \in PositionIds : Landing[p] + Seen[p] <= Awaited[p]
<1>1. \A p \in PositionIds : positions[p].value \in Nat /\ positions[p].amount \in Nat
  BY InvTypes DEF Positions
<1>2. \A p \in PositionIds : Landing[p] \in Nat /\ Seen[p] \in Nat /\ Awaited[p] \in Nat
  BY <1>1 DEF Landing, Seen, Awaited
<1>3. \A p \in PositionIds : DrainedBy(values)[p] \in Nat
  BY <1>1 DEF DrainedBy
<1>4. \A p \in PositionIds : Landing[p] + Seen[p] <= Awaited[p]
  BY <1>1 DEF Landing, Seen, Awaited
<1>5. QED BY <1>2, <1>3, <1>4

(* Every pending position has its reservation counted.                     *)
LEMMA AwaitedIsCounted ==
  ASSUME RegistryInv
  PROVE  /\ SumOver(Awaited, strategyPositions) <= bridgedOut
         /\ SumOver(Awaited, strategyPositions) \in Nat /\ bridgedOut \in Nat
<1> DEFINE P == PendingOn(Chains)
           S == strategyPositions
<1>1. P \subseteq S /\ S \subseteq PositionIds /\ IsFiniteSet(S)
  BY RegistryFunctions DEF PendingOn, LiveOn
<1>2. \A p \in P : positions[p].status = "Pending"
  BY DEF PendingOn
<1>3. \A p \in S \ P : positions[p].status # "Pending"
  BY RegistryFunctions DEF PendingOn, LiveOn
<1>4. \A p \in P : SentFor[p] \in Nat
  BY <1>1, RegistryFunctions
<1>5. \A p \in P : Awaited[p] = SentFor[p]
  BY <1>1, <1>2 DEF Awaited, SentFor
<1>6. \A p \in S \ P : Awaited[p] = 0
  BY <1>1, <1>3 DEF Awaited
<1> HIDE DEF P, S
<1>7. SumOver(SentFor, P) = SumOver(Awaited, S) /\ SumOver(Awaited, S) \in Nat
  BY <1>1, <1>4, <1>5, <1>6, SumChosen
<1>8. SumOver(SentFor, P) = SumOver(AmountOf, AwaitedOn(Chains))
  BY AwaitedMatched DEF P
<1>9. /\ SumOver(CountedIn(reservations, Chains), ReservationIds)
           = SumOver(AmountOf, OpenOn(Chains)) + SumOver(AmountOf, AwaitedOn(Chains))
               + SumOver(AmountOf, ReconciledOn(Chains))
      /\ SumOver(AmountOf, OpenOn(Chains)) \in Nat /\ SumOver(AmountOf, AwaitedOn(Chains)) \in Nat
      /\ SumOver(AmountOf, ReconciledOn(Chains)) \in Nat
  BY CountedSplit
<1>10. bridgedOut = SumOver(CountedIn(reservations, Chains), ReservationIds) /\ bridgedOut \in Nat
  BY InvCounts DEF CountsFor
<1>11. QED BY <1>7, <1>8, <1>9, <1>10 DEF S

(* The totals of an unsurprising report, against what was reported last.   *)
LEMMA LandingTotals ==
  ASSUME RegistryInv, ObservedEarlier, NEW ids \in SUBSET PositionIds, NEW values \in [ids -> Values],
         ValidReportSet(ids, now), Unsurprising(values),
         NEW cache, cache = SumOver(ValueOf, strategyPositions)
  PROVE  /\ cache \in Nat /\ CandidateTotal(values) \in Nat /\ Drained(values) \in Nat
         /\ InFlight(values) \in Nat
         /\ CandidateTotal(values) <= cache + InFlight(values)
         /\ cache <= CandidateTotal(values) + Drained(values)
<1> DEFINE D == Candidates(values)
           S == strategyPositions
           W == {p \in DOMAIN values : positions[p].status = "WindingDown" /\ values[p] = 0}
           O == {p \in DOMAIN values : positions[p].status = "Pending" /\ positions[p].value > 0}
           lesser == [p \in PositionIds |-> IF positions[p].value < positions[p].amount
                                              THEN positions[p].value ELSE positions[p].amount]
           drained == DrainedBy(values)
<1>1. DOMAIN values = ids /\ \A p \in ids : values[p] \in Nat
  BY RegistryConstants
<1>2. /\ D \subseteq S /\ S \subseteq PositionIds /\ D \subseteq PositionIds
      /\ IsFiniteSet(S) /\ IsFiniteSet(D)
  <2>1. D \subseteq S /\ S \subseteq PositionIds /\ IsFiniteSet(S)
    BY CandidatesHoldAll, RegistryFunctions
  <2> HIDE DEF D, S
  <2>2. QED BY <2>1, FS_Subset
<1>3. \A p \in S \ D : ValueOf[p] = 0
  BY CandidatesHoldAll
<1>4. \A p \in PositionIds : ValueOf[p] = positions[p].value /\ ValueOf[p] \in Nat
  BY RegistryFunctions
<1>5. \A p \in D : p \in ids /\ positions[p].status \in Live
  BY CandidatesHoldAll
<1>6. CandidateTotal(values) = SumOver(values, D)
  BY DEF CandidateTotal, Candidates
<1>7. W \subseteq D /\ O \subseteq D
  <2>1. \A p \in ids : positions[p].status \in Live => p \in D
    BY CandidatesHoldAll
  <2>2. QED BY <1>1, <2>1 DEF Live, Booked
<1>8. \A p \in D : Landing[p] \in Nat /\ Seen[p] \in Nat /\ Awaited[p] \in Nat
  BY <1>2, LandingFunctions
<1>9. \A p \in D : drained[p] \in Nat
  BY <1>2, LandingFunctions
<1>10. \A p \in D : values[p] \in Nat /\ ValueOf[p] \in Nat
  BY <1>1, <1>2, <1>4, <1>5
<1>11. \A p \in D : values[p] <= ValueOf[p] + Landing[p] /\ ValueOf[p] <= values[p] + drained[p]
  <2>1. TAKE p \in D
  <2>2. p \in PositionIds /\ p \in ids /\ values[p] \in Nat /\ ValueOf[p] \in Nat
        /\ ValueOf[p] = positions[p].value
    BY <1>2, <1>4, <1>5, <1>10
  <2>3. Landing[p] \in Nat /\ drained[p] \in Nat
    BY <1>8, <1>9
  <2>4. \/ values[p] = positions[p].value
        \/ /\ positions[p].status = "Pending" /\ positions[p].value = 0
           /\ values[p] <= positions[p].amount
        \/ positions[p].status = "WindingDown" /\ values[p] = 0
    BY <1>1, <2>2 DEF Unsurprising
  <2>5. positions[p].status = "Pending" /\ positions[p].value = 0 => Landing[p] = positions[p].amount
    BY <2>2 DEF Landing
  <2>6. positions[p].status = "WindingDown" /\ values[p] = 0 => drained[p] = positions[p].value
    BY <2>2 DEF DrainedBy
  <2> HIDE DEF drained
  <2>7. CASE values[p] = positions[p].value
    BY <2>2, <2>3, <2>7
  <2>8. CASE /\ positions[p].status = "Pending" /\ positions[p].value = 0
             /\ values[p] <= positions[p].amount
    BY <2>2, <2>3, <2>5, <2>8
  <2>9. CASE positions[p].status = "WindingDown" /\ values[p] = 0
    BY <2>2, <2>3, <2>6, <2>9
  <2>10. QED BY <2>4, <2>7, <2>8, <2>9
<1>12. Drained(values) = SumOver(ValueOf, W) /\ Overlap(values) = SumOver(lesser, O)
  BY DEF Drained, Overlap
<1>13. /\ \A p \in W : ValueOf[p] \in Nat
       /\ \A p \in W : drained[p] = ValueOf[p]
       /\ \A p \in D \ W : drained[p] = 0
  BY <1>1, <1>2, <1>4, <1>5, <1>7 DEF DrainedBy
<1>14. /\ \A p \in O : lesser[p] \in Nat
       /\ \A p \in O : Seen[p] = lesser[p]
       /\ \A p \in D \ O : Seen[p] = 0
  <2>1. \A p \in PositionIds : positions[p].value \in Nat /\ positions[p].amount \in Nat
    BY InvTypes DEF Positions
  <2>2. QED BY <1>1, <1>2, <1>5, <1>7, <2>1 DEF Seen
<1> HIDE DEF D, S, W, O, lesser, drained
<1>15. Drained(values) = SumOver(drained, D)
  BY <1>2, <1>7, <1>12, <1>13, SumChosen
<1>16. Overlap(values) = SumOver(Seen, D)
  BY <1>2, <1>7, <1>12, <1>14, SumChosen
<1>17. cache = SumOver(ValueOf, D) /\ cache \in Nat
  <2>1. \A p \in D : ValueOf[p] \in Nat
    BY <1>10
  <2>2. SumOver(ValueOf, D) = SumOver(ValueOf, S) /\ SumOver(ValueOf, S) \in Nat
    BY <1>2, <1>3, <2>1, SumChosen
  <2>3. QED BY <2>2 DEF S
<1>18. /\ SumOver(values, D) <= SumOver(ValueOf, D) + SumOver(Landing, D)
       /\ SumOver(values, D) \in Nat /\ SumOver(Landing, D) \in Nat
  <2>1. \A p \in D : values[p] \in Nat
    BY <1>10
  <2>2. \A p \in D : ValueOf[p] \in Nat
    BY <1>10
  <2>3. \A p \in D : Landing[p] \in Nat
    BY <1>8
  <2>4. \A p \in D : values[p] <= ValueOf[p] + Landing[p]
    BY <1>11
  <2>5. IsFiniteSet(D)
    BY <1>2
  <2>6. SumOver(values, D) <= SumOver(ValueOf, D) + SumOver(Landing, D)
    BY <2>1, <2>2, <2>3, <2>4, <2>5, SumBounded
  <2>7. SumOver(values, D) \in Nat /\ SumOver(Landing, D) \in Nat
    BY <2>1, <2>3, <2>5, SumType
  <2>8. QED BY <2>6, <2>7
<1>19. /\ SumOver(ValueOf, D) <= SumOver(values, D) + SumOver(drained, D)
       /\ SumOver(drained, D) \in Nat
  <2>1. \A p \in D : values[p] \in Nat
    BY <1>10
  <2>2. \A p \in D : ValueOf[p] \in Nat
    BY <1>10
  <2>3. \A p \in D : drained[p] \in Nat
    BY <1>9
  <2>4. \A p \in D : ValueOf[p] <= values[p] + drained[p]
    BY <1>11
  <2>5. IsFiniteSet(D)
    BY <1>2
  <2>6. SumOver(ValueOf, D) <= SumOver(values, D) + SumOver(drained, D)
    BY <2>1, <2>2, <2>3, <2>4, <2>5, SumBounded
  <2>7. SumOver(drained, D) \in Nat
    BY <2>3, <2>5, SumType
  <2>8. QED BY <2>6, <2>7
<1>20. SumOver(Landing, D) + SumOver(Seen, D) <= bridgedOut /\ SumOver(Seen, D) \in Nat
       /\ bridgedOut \in Nat
  <2> DEFINE both == [p \in D |-> Landing[p] + Seen[p]]
  <2>1. \A p \in D : Landing[p] \in Nat /\ Seen[p] \in Nat /\ both[p] = Landing[p] + Seen[p]
    BY <1>8
  <2>2. \A p \in D : both[p] \in Nat
    BY <2>1
  <2>3. \A p \in D : Awaited[p] \in Nat
    BY <1>8
  <2>4. \A p \in D : both[p] <= Awaited[p]
    BY <1>2, LandingFunctions
  <2>5. IsFiniteSet(D)
    BY <1>2
  <2> HIDE DEF both
  <2>6. SumOver(both, D) = SumOver(Landing, D) + SumOver(Seen, D)
    BY <2>1, <2>5, SumAdd
  <2>7. SumOver(both, D) <= SumOver(Awaited, D)
    BY <2>2, <2>3, <2>4, <2>5, SumMonotone
  <2>8. SumOver(Awaited, D) \in Nat /\ SumOver(Seen, D) \in Nat /\ SumOver(both, D) \in Nat
    <3>1. SumOver(Awaited, D) \in Nat
      BY <2>3, <2>5, SumType
    <3>2. SumOver(both, D) \in Nat
      BY <2>2, <2>5, SumType
    <3>3. \A p \in D : Seen[p] \in Nat
      BY <2>1
    <3>4. SumOver(Seen, D) \in Nat
      BY <2>5, <3>3, SumType
    <3>5. QED BY <3>1, <3>2, <3>4
  <2>9. SumOver(Awaited, D) <= SumOver(Awaited, S)
    <3>1. \A p \in S : Awaited[p] \in Nat
      BY <1>2, LandingFunctions
    <3>2. SumOver(Awaited, S) = SumOver(Awaited, D) + SumOver(Awaited, S \ D)
      BY <1>2, <3>1, SumSubset
    <3>3. SumOver(Awaited, S \ D) \in Nat
      BY <1>2, <3>1, SumSubset
    <3>4. QED BY <2>8, <3>2, <3>3
  <2>10. SumOver(Awaited, S) <= bridgedOut /\ SumOver(Awaited, S) \in Nat /\ bridgedOut \in Nat
    BY AwaitedIsCounted DEF S
  <2>11. SumOver(both, D) <= bridgedOut
    BY <2>7, <2>8, <2>9, <2>10
  <2>12. QED BY <2>6, <2>8, <2>10, <2>11
<1>21. InFlight(values) \in Nat /\ SumOver(Landing, D) <= InFlight(values)
  BY <1>16, <1>18, <1>20 DEF InFlight, Minus
<1>22. QED BY <1>6, <1>15, <1>17, <1>18, <1>19, <1>21

(* A band around a base contains it.                                       *)
LEMMA BandHolds ==
  ASSUME NEW base \in Nat, NEW threshold \in Nat
  PROVE  /\ Grown(base, threshold) \in Nat /\ Grown(base, threshold) >= base
         /\ Shrunk(base, threshold) \in Int /\ Shrunk(base, threshold) <= base
<1>1. MulDivFloor(base, threshold, WAD) \in Nat
  BY AUMConstants, MulDivType
<1>2. QED BY <1>1 DEF Grown, Shrunk

LEMMA ConfigTypes ==
  ASSUME OracleTypeOK
  PROVE  /\ config.deviationThreshold \in Nat
         /\ config.perPositionDeviationThreshold \in Nat \ {0}
         /\ latestReport.hubAssets \in Nat /\ latestReport.totalCrossChainAssets \in Nat
<1>1. config \in [maxStaleness : Nat \ {0}, minUpdateInterval : Nat \ {0},
                  deviationThreshold : 1 .. WAD, perPositionDeviationThreshold : 1 .. WAD,
                  consistencyToleranceBps : Nat, maxConsecutiveDeviationBreaches : Nat \ {0}]
  BY AUMAssumption DEF OracleTypeOK
<1>2. config.deviationThreshold \in 1 .. WAD /\ config.perPositionDeviationThreshold \in 1 .. WAD
  BY <1>1
<1>3. QED BY <1>2, AUMConstants DEF OracleTypeOK

(* No position that has a value is reported to deviate from it.            *)
LEMMA LandingKeepsPositions ==
  ASSUME RegistryInv, OracleTypeOK, NEW ids \in SUBSET PositionIds, NEW values \in [ids -> Values],
         Unsurprising(values)
  PROVE  ~PerPositionBreach(values)
<1>1. SUFFICES ASSUME NEW p \in ids, positions[p].value > 0,
                      MulDivFloor(AbsDiff(values[p], positions[p].value), WAD, positions[p].value)
                        > config.perPositionDeviationThreshold,
                      ~(values[p] = 0 /\ positions[p].status = "WindingDown")
               PROVE  FALSE
  BY DEF PerPositionBreach
<1>2. positions[p].value \in Nat \ {0}
  BY <1>1, InvTypes DEF Positions
<1>3. values[p] = positions[p].value
  BY <1>1, <1>2 DEF Unsurprising
<1>4. AbsDiff(values[p], positions[p].value) = 0
  BY <1>2, <1>3 DEF AbsDiff
<1>5. MulDivFloor(0, WAD, positions[p].value) = 0
  <2>1. WAD \in Nat \ {0}
    BY AUMConstants
  <2>2. 0 * WAD = 0
    BY <2>1
  <2>3. ASSUME NEW d \in Nat \ {0} PROVE 0 \div d = 0
    BY <2>3, Z3
  <2>4. QED BY <1>2, <2>2, <2>3 DEF MulDivFloor
<1>6. QED BY <1>1, <1>4, <1>5, ConfigTypes

(* A report about the present of what has not changed, of drained exits    *)
(* and of transfers that landed with what was sent or less keeps to every  *)
(* band: a landing never trips the breaker.                                *)
THEOREM LandingsNeverBreach == Spec => []LandingNeverBreaches
<1>1. ASSUME AUMInv, ObservedEarlier, NEW ids \in SUBSET PositionIds, ValidReportSet(ids, now),
             AllObservedReported, NEW values \in [ids -> Values], Unsurprising(values)
      PROVE  /\ ~AggregateBreach(values) /\ ~PerPositionBreach(values)
             /\ ~PublishedTotalBreach(values, latestReport.hubAssets)
  <2> DEFINE cache == latestReport.totalCrossChainAssets
             hub == latestReport.hubAssets
             total == CandidateTotal(values)
             threshold == config.deviationThreshold
  <2>1. RegistryInv /\ OracleTypeOK
    BY <1>1 DEF AUMInv
  <2>2. cache = SumOver(ValueOf, strategyPositions)
    BY <1>1 DEF AllObservedReported
  <2>3. /\ cache \in Nat /\ total \in Nat /\ Drained(values) \in Nat /\ InFlight(values) \in Nat
        /\ total <= cache + InFlight(values) /\ cache <= total + Drained(values)
    BY <1>1, <2>1, <2>2, LandingTotals
  <2>4. threshold \in Nat /\ hub \in Nat
    BY <2>1, ConfigTypes
  <2>5. ~PerPositionBreach(values)
    BY <1>1, <2>1, LandingKeepsPositions
  <2> HIDE DEF cache, hub, total, threshold
  <2>6. ~(total > Grown(cache + InFlight(values), threshold))
    <3>1. cache + InFlight(values) \in Nat
      BY <2>3
    <3>2. /\ Grown(cache + InFlight(values), threshold) \in Nat
          /\ Grown(cache + InFlight(values), threshold) >= cache + InFlight(values)
      BY <2>4, <3>1, BandHolds
    <3>3. QED BY <2>3, <3>1, <3>2
  <2>7. ~(total < Shrunk(Minus(cache, Drained(values)), threshold))
    <3>1. Minus(cache, Drained(values)) \in Nat /\ Minus(cache, Drained(values)) <= total
      BY <2>3 DEF Minus
    <3>2. /\ Shrunk(Minus(cache, Drained(values)), threshold) \in Int
          /\ Shrunk(Minus(cache, Drained(values)), threshold) <= Minus(cache, Drained(values))
      BY <2>4, <3>1, BandHolds
    <3>3. QED BY <2>3, <3>1, <3>2
  <2>8. ~(hub + total > Grown(hub + cache + InFlight(values), threshold))
    <3>1. hub + cache + InFlight(values) \in Nat
      BY <2>3, <2>4
    <3>2. /\ Grown(hub + cache + InFlight(values), threshold) \in Nat
          /\ Grown(hub + cache + InFlight(values), threshold) >= hub + cache + InFlight(values)
      BY <2>4, <3>1, BandHolds
    <3>3. QED BY <2>3, <2>4, <3>1, <3>2
  <2>9. ~AggregateBreach(values)
    BY <2>6, <2>7 DEF AggregateBreach, cache, total, threshold
  <2>10. ~PublishedTotalBreach(values, latestReport.hubAssets)
    BY <2>8 DEF PublishedTotalBreach, cache, hub, total, threshold
  <2>11. QED BY <2>5, <2>9, <2>10
<1>2. AUMInv /\ ObservedEarlier => LandingNeverBreaches
  <2>1. SUFFICES ASSUME AUMInv, ObservedEarlier, NEW ids \in SUBSET PositionIds,
                        ValidReportSet(ids, now), AllObservedReported,
                        NEW values \in [ids -> Values], Unsurprising(values)
                 PROVE  /\ ~AggregateBreach(values) /\ ~PerPositionBreach(values)
                        /\ ~PublishedTotalBreach(values, latestReport.hubAssets)
    BY DEF LandingNeverBreaches
  <2>2. QED BY <1>1, <2>1
<1>3. QED BY <1>2, AlwaysAUMInv, AlwaysObservedEarlier, PTL

-----------------------------------------------------------------------------
(* The registry under the oracle and the caps.                             *)

(* The registry never does under the oracle and the cap hook what it could *)
(* not do alone: whatever holds of the registry for any sends and reports  *)
(* holds of the composition.                                               *)
THEOREM RegistryImplemented == Spec => RegistrySpec
<1>1. Init => RegistryInit
  BY DEF Init
<1>2. [Next]_vars => [RegistryNext]_registryVars
  BY NextIsRegistryStep
<1>3. QED BY <1>1, <1>2, PTL DEF Spec, RegistrySpec
=============================================================================
