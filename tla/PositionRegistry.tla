-------------------------- MODULE PositionRegistry --------------------------
(***************************************************************************)
(* CrossChainPositionRegistry: what a strategy has sent to other chains.   *)
(* A send leaves a reservation; once the transfer has been filled, the     *)
(* registrar binds the reservation to a position; signed reports confirm   *)
(* the position and keep its value.  From first to last the capital must   *)
(* be part of the exposure that the caps are measured with.                *)
(*                                                                         *)
(* One strategy: every mapping is keyed by strategy, and every entry point *)
(* refuses an id of another one.  A destination is its chain: the vault on *)
(* that chain decides only which declared kind the registrar must give.    *)
(***************************************************************************)
EXTENDS AccountSums, MulDiv

CONSTANTS
  ReservationIds,
  PositionIds,
  Chains,
  Amounts,                       \* what a send may be worth
  Values,                        \* what a position may be reported to be worth
  MAX_POSITIONS_PER_STRATEGY,    \* 64
  RESERVATION_TIMEOUT,
  POSITION_CONFIRMATION_TIMEOUT,
  MaxTime                        \* bound: the last point of time

(* Ids are hashes with a salt: fresh whenever one is made.  No id is the   *)
(* position of a reservation that has none yet, and the like.              *)
NoId == "no id"

ASSUME RegistryAssumption ==
  /\ IsFiniteSet(ReservationIds) /\ IsFiniteSet(PositionIds)
  /\ NoId \notin ReservationIds \cup PositionIds \cup Chains
  /\ Amounts \subseteq Nat \ {0} /\ Values \subseteq Nat
  /\ MAX_POSITIONS_PER_STRATEGY \in Nat
  /\ RESERVATION_TIMEOUT \in Nat /\ POSITION_CONFIRMATION_TIMEOUT \in Nat
  /\ MaxTime \in Nat

MIN_CONFIRMATION_BPS == 9000
MAX_CONFIRMATION_BPS == 11000
BPS_PRECISION == 10000

VARIABLES
  now,                    \* block.timestamp
  reservations,
  positions,
  strategyPositions,      \* the live positions
  bridgedOut,             \* total and by chain of the counted reservations
  bridgedOutByChain,
  openReservationCount,
  pendingObservedExcess,  \* total and by chain of what was seen beyond them
  pendingObservedExcessByChain

countVars == <<bridgedOut, bridgedOutByChain>>
excessVars == <<pendingObservedExcess, pendingObservedExcessByChain>>
registryVars ==
  <<now, reservations, positions, strategyPositions, bridgedOut, bridgedOutByChain,
    openReservationCount, pendingObservedExcess, pendingObservedExcessByChain>>

(* What the registry keeps of a reservation and of a position.             *)
Reservations ==
  [status : {"None", "Open", "Consumed", "Released", "Settled"}, chain : Chains \cup {NoId},
   amount : Nat, createdAt : Nat, position : PositionIds \cup {NoId}]

Positions ==
  [status : {"None", "Pending", "Active", "WindingDown", "Exited", "Invalidated"},
   reservation : ReservationIds \cup {NoId}, chain : Chains \cup {NoId}, amount : Nat,
   value : Nat, registeredAt : Nat]

RegistryTypeOK ==
  /\ now \in Nat
  /\ reservations \in [ReservationIds -> Reservations]
  /\ positions \in [PositionIds -> Positions]
  /\ strategyPositions \subseteq PositionIds
  /\ bridgedOut \in Nat /\ bridgedOutByChain \in [Chains -> Nat]
  /\ openReservationCount \in Nat
  /\ pendingObservedExcess \in Nat /\ pendingObservedExcessByChain \in [Chains -> Nat]

NoReservation ==
  [status |-> "None", chain |-> NoId, amount |-> 0, createdAt |-> 0, position |-> NoId]
NoPosition ==
  [status |-> "None", reservation |-> NoId, chain |-> NoId, amount |-> 0, value |-> 0,
   registeredAt |-> 0]

RegistryInit ==
  /\ now = 1
  /\ reservations = [r \in ReservationIds |-> NoReservation]
  /\ positions = [p \in PositionIds |-> NoPosition]
  /\ strategyPositions = {}
  /\ bridgedOut = 0 /\ bridgedOutByChain = [c \in Chains |-> 0]
  /\ openReservationCount = 0
  /\ pendingObservedExcess = 0 /\ pendingObservedExcessByChain = [c \in Chains |-> 0]

-----------------------------------------------------------------------------
(* What positions and reservations are worth.                              *)

Booked == {"Active", "WindingDown"}
Terminal == {"Exited", "Invalidated"}
Live == {"Pending"} \cup Booked

AmountOf == [r \in ReservationIds |-> reservations[r].amount]
ValueOf == [p \in PositionIds |-> positions[p].value]

(* positionValue of the positions that count, on the given chains.         *)
BookedOn(chains) ==
  {p \in strategyPositions : positions[p].status \in Booked /\ positions[p].chain \in chains}

(* getCrossChainAUM, getChainExposure.                                     *)
CrossChainAUM == SumOver(ValueOf, BookedOn(Chains))
ChainExposure(c) == SumOver(ValueOf, BookedOn({c}))

(* Faulty variant: what was seen beyond the reservations is left out.      *)
EffectiveCrossChainExposure_Unseen == CrossChainAUM + bridgedOut

EffectiveCrossChainExposure == CrossChainAUM + bridgedOut + pendingObservedExcess

EffectiveChainExposure(c) ==
  ChainExposure(c) + bridgedOutByChain[c] + pendingObservedExcessByChain[c]

-----------------------------------------------------------------------------
(* The counters.                                                           *)

(* _countReservation.                                                      *)
CountReservation(chain, amount) ==
  /\ bridgedOut' = bridgedOut + amount
  /\ bridgedOutByChain' = [bridgedOutByChain EXCEPT ![chain] = @ + amount]

(* Faulty variant: given back twice, by the settlement and the release.    *)
UncountReservations_Twice(rs) ==
  /\ bridgedOut' = bridgedOut - 2 * SumOver(AmountOf, rs)
  /\ UNCHANGED bridgedOutByChain

(* Faulty variant: the chain keeps what the total gives back.              *)
UncountReservations_TotalOnly(rs) ==
  bridgedOut' = bridgedOut - SumOver(AmountOf, rs) /\ UNCHANGED bridgedOutByChain

(* _uncountReservation of each of the given reservations.                  *)
UncountReservations(rs) ==
  /\ bridgedOut' = bridgedOut - SumOver(AmountOf, rs)
  /\ bridgedOutByChain' = [c \in Chains |-> bridgedOutByChain[c]
                             - SumOver(AmountOf, {r \in rs : reservations[r].chain = c})]

(* The part of an observed value that exceeds the reservation.             *)
Excess(p, value) ==
  IF value > positions[p].amount THEN value - positions[p].amount ELSE 0

(* _setPendingExcess of each of the given positions, whose excess so far   *)
(* is that of the value on record.                                         *)
SetPendingExcess(ps, newExcess) ==
  LET oldExcess == [p \in ps |-> Excess(p, positions[p].value)]
      Delta(count, qs) == count - SumOver(oldExcess, qs) + SumOver(newExcess, qs)
  IN  /\ pendingObservedExcess' = Delta(pendingObservedExcess, ps)
      /\ pendingObservedExcessByChain' = [c \in Chains |->
           Delta(pendingObservedExcessByChain[c], {p \in ps : positions[p].chain = c})]

-----------------------------------------------------------------------------
(* The cap hook and the registrar.                                         *)

(* recordBridgedOut.                                                       *)
RecordBridgedOut(r, chain, amount) ==
  /\ reservations[r].status = "None"
  /\ Cardinality(strategyPositions) + openReservationCount < MAX_POSITIONS_PER_STRATEGY
  /\ reservations' = [reservations EXCEPT ![r] =
       [status |-> "Open", chain |-> chain, amount |-> amount, createdAt |-> now,
        position |-> NoId]]
  /\ CountReservation(chain, amount)
  /\ openReservationCount' = openReservationCount + 1
  /\ UNCHANGED <<now, positions, strategyPositions, excessVars>>

(* registerPosition: a reservation that was released, because its transfer *)
(* seemed lost, is counted again.                                          *)
RegisterPosition(r, p) ==
  /\ Cardinality(strategyPositions) < MAX_POSITIONS_PER_STRATEGY
  /\ positions[p].status = "None"
  /\ \/ /\ reservations[r].status = "Open"
        /\ openReservationCount' = openReservationCount - 1
        /\ UNCHANGED countVars
     \/ /\ reservations[r].status = "Released"
        /\ CountReservation(reservations[r].chain, reservations[r].amount)
        /\ UNCHANGED openReservationCount
  /\ reservations' = [reservations EXCEPT ![r].status = "Consumed", ![r].position = p]
  /\ positions' = [positions EXCEPT ![p] =
       [status |-> "Pending", reservation |-> r, chain |-> reservations[r].chain,
        amount |-> reservations[r].amount, value |-> 0, registeredAt |-> now]]
  /\ strategyPositions' = strategyPositions \cup {p}
  /\ UNCHANGED <<now, excessVars>>

(* beginPositionExit.                                                      *)
BeginPositionExit(p) ==
  /\ positions[p].status = "Active"
  /\ positions' = [positions EXCEPT ![p].status = "WindingDown"]
  /\ UNCHANGED <<now, reservations, strategyPositions, countVars, openReservationCount, excessVars>>

(* Faulty variant: drained on the registrar's word.                        *)
IsDrained_Promised(p) == positions[p].status = "WindingDown"

IsDrained(p) == positions[p].status = "WindingDown" /\ positions[p].value = 0

(* deregisterPosition.                                                     *)
DeregisterPosition(p) ==
  /\ IsDrained(p)
  /\ positions' = [positions EXCEPT ![p].status = "Exited"]
  /\ strategyPositions' = strategyPositions \ {p}
  /\ UNCHANGED <<now, reservations, countVars, openReservationCount, excessVars>>

-----------------------------------------------------------------------------
(* Governance decides about what did not confirm in time.                  *)

(* releaseExpiredReservation.                                              *)
ReleaseExpiredReservation(r) ==
  /\ reservations[r].status = "Open"
  /\ now > reservations[r].createdAt + RESERVATION_TIMEOUT
  /\ reservations' = [reservations EXCEPT ![r].status = "Released"]
  /\ UncountReservations({r})
  /\ openReservationCount' = openReservationCount - 1
  /\ UNCHANGED <<now, positions, strategyPositions, excessVars>>

HasExpired(p) ==
  /\ positions[p].status = "Pending"
  /\ now > positions[p].registeredAt + POSITION_CONFIRMATION_TIMEOUT

(* Faulty variant: time alone decides, whatever has been observed.         *)
IsInvalid_Expired(p) == HasExpired(p)

IsInvalid(p) == HasExpired(p) /\ positions[p].value = 0

(* invalidateExpiredPending.                                               *)
InvalidateExpiredPending(p) ==
  /\ IsInvalid(p)
  /\ positions' = [positions EXCEPT ![p].status = "Invalidated"]
  /\ reservations' = [reservations EXCEPT ![positions[p].reservation].status = "Released"]
  /\ UncountReservations({positions[p].reservation})
  /\ strategyPositions' = strategyPositions \ {p}
  /\ UNCHANGED <<now, openReservationCount, excessVars>>

(* reconcileUnderDeliveredPosition: the reservation stays counted until a  *)
(* report has booked the position.                                         *)
ReconcileUnderDeliveredPosition(p) ==
  /\ HasExpired(p) /\ positions[p].value # 0
  /\ SetPendingExcess({p}, [q \in {p} |-> 0])
  /\ positions' = [positions EXCEPT ![p].status = "Active"]
  /\ UNCHANGED <<now, reservations, strategyPositions, countVars, openReservationCount>>

-----------------------------------------------------------------------------
(* syncPositionFromReport, for every entry of a report: values is a        *)
(* function from the reported ids to what they are worth.                  *)

(* A first report confirms if it is about what was sent.                   *)
Confirms(p, value) ==
  /\ positions[p].status = "Pending"
  /\ value > 0
  /\ value >= MulDivFloor(positions[p].amount, MIN_CONFIRMATION_BPS, BPS_PRECISION)
  /\ value <= MulDivFloor(positions[p].amount, MAX_CONFIRMATION_BPS, BPS_PRECISION)

(* A pending position stays as it is on a report of zero, a terminal or    *)
(* unknown one whatever is reported.                                       *)
Books(p, value) ==
  \/ positions[p].status \in Booked
  \/ positions[p].status = "Pending" /\ value > 0

AcceptedValue(p, value) == IF Books(p, value) THEN value ELSE 0

(* Booked for the first time: the reservation has done its duty.           *)
Settles(p, value) ==
  /\ positions[p].status \in Booked \/ Confirms(p, value)
  /\ reservations[positions[p].reservation].status = "Consumed"

SettledBy(values) ==
  {positions[p].reservation : p \in {q \in DOMAIN values : Settles(q, values[q])}}

SyncPositionsFromReport(values) ==
  LET observed == {p \in DOMAIN values : positions[p].status = "Pending" /\ values[p] > 0}
      settled == SettledBy(values)
  IN  /\ SetPendingExcess(observed, [p \in observed |->
           IF Confirms(p, values[p]) THEN 0 ELSE Excess(p, values[p])])
      /\ UncountReservations(settled)
      /\ reservations' = [r \in ReservationIds |->
           IF r \in settled THEN [reservations[r] EXCEPT !.status = "Settled"]
                            ELSE reservations[r]]
      /\ positions' = [p \in PositionIds |->
           IF p \in DOMAIN values /\ Books(p, values[p])
             THEN [positions[p] EXCEPT !.value = values[p],
                     !.status = IF Confirms(p, values[p]) THEN "Active" ELSE @]
             ELSE positions[p]]
      /\ UNCHANGED <<now, strategyPositions, openReservationCount>>

Tick ==
  /\ now < MaxTime
  /\ now' = now + 1
  /\ UNCHANGED <<reservations, positions, strategyPositions, countVars, openReservationCount,
                 excessVars>>

-----------------------------------------------------------------------------
(* The registrar's steps, governance's, and the registry by itself: open   *)
(* to any send of the hook and to any report of the oracle.                *)
RegistrarStep ==
  \/ \E r \in ReservationIds, p \in PositionIds : RegisterPosition(r, p)
  \/ \E p \in PositionIds : BeginPositionExit(p) \/ DeregisterPosition(p)

GovernanceStep ==
  \/ \E r \in ReservationIds : ReleaseExpiredReservation(r)
  \/ \E p \in PositionIds : InvalidateExpiredPending(p) \/ ReconcileUnderDeliveredPosition(p)

RegistryNext ==
  \/ RegistrarStep \/ GovernanceStep \/ Tick
  \/ \E r \in ReservationIds, c \in Chains, a \in Amounts : RecordBridgedOut(r, c, a)
  \/ \E ids \in SUBSET PositionIds : \E values \in [ids -> Values] : SyncPositionsFromReport(values)

RegistrySpec == RegistryInit /\ [][RegistryNext]_registryVars

-----------------------------------------------------------------------------
(* The limit of positions.                                                 *)

(* What takes a place of the limit, or will.                               *)
PlacesTaken == Cardinality(strategyPositions) + openReservationCount

(* A transfer that governance has given up is filled after all.            *)
LateFill(r) == reservations[r].status = "Released" /\ reservations'[r].status = "Consumed"

(* No sequence of sends, registrations and reports makes the live set      *)
(* larger than its limit (registerPosition refuses it).                    *)
PositionsWithinLimit == Cardinality(strategyPositions) <= MAX_POSITIONS_PER_STRATEGY

(* Nothing but a late fill takes a place beyond the limit: while there is  *)
(* none, recordBridgedOut keeps a place for every transfer under way.      *)
OnlyLateFillsCrowd ==
  [][PlacesTaken' > PlacesTaken /\ PlacesTaken' > MAX_POSITIONS_PER_STRATEGY =>
       \E r \in ReservationIds : LateFill(r)]_registryVars
=============================================================================
