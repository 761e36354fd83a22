------------------------ MODULE PositionRegistry_proofs ------------------------
(***************************************************************************)
(* The counters of the position registry are the sums over its records,    *)
(* and positions and reservations always agree, for every set of ids,      *)
(* chains, amounts and values, and for any limits and timeouts.            *)
(***************************************************************************)
EXTENDS PositionRegistry, Arithmetic_proofs

(* What the reservations R count for on the given chains, and what the     *)
(* pending positions P have shown beyond theirs.                           *)
CountedIn(R, chains) ==
  [r \in ReservationIds |->
     IF R[r].status \in {"Open", "Consumed"} /\ R[r].chain \in chains THEN R[r].amount ELSE 0]

ExcessIn(P, chains) ==
  [p \in PositionIds |->
     IF P[p].status = "Pending" /\ P[p].chain \in chains /\ P[p].value > P[p].amount
       THEN P[p].value - P[p].amount ELSE 0]

OpenIn(R) == {r \in ReservationIds : R[r].status = "Open"}

(* A position holds the reservation it was registered for, and is held by  *)
(* it until the reservation is released.                                   *)
ReservationAgrees(r, R, P) ==
  /\ R[r].status # "None" => R[r].chain \in Chains
  /\ R[r].status = "Consumed" =>
       /\ R[r].position \in PositionIds
       /\ P[R[r].position].status \in Live
       /\ P[R[r].position].reservation = r

PositionAgrees(p, R, P) ==
  LET r == P[p].reservation
  IN  /\ P[p].status # "None" =>
           /\ r \in ReservationIds /\ R[r].status # "None"
           /\ P[p].chain \in Chains /\ P[p].chain = R[r].chain /\ P[p].amount = R[r].amount
      /\ P[p].status = "Pending" => R[r].status = "Consumed" /\ R[r].position = p
      /\ P[p].status \in Booked =>
           /\ R[r].status \in {"Consumed", "Settled"} /\ R[r].position = p
           /\ R[r].status = "Consumed" => P[p].value > 0

RecordsAgree ==
  /\ strategyPositions = {p \in PositionIds : positions[p].status \in Live}
  /\ \A r \in ReservationIds : ReservationAgrees(r, reservations, positions)
  /\ \A p \in PositionIds : PositionAgrees(p, reservations, positions)

(* The counters, which the registry keeps step by step, are sums over its  *)
(* records.                                                                *)
ReservationsCounted ==
  /\ bridgedOut = SumOver(CountedIn(reservations, Chains), ReservationIds)
  /\ \A c \in Chains :
       bridgedOutByChain[c] = SumOver(CountedIn(reservations, {c}), ReservationIds)

ExcessCounted ==
  /\ pendingObservedExcess = SumOver(ExcessIn(positions, Chains), PositionIds)
  /\ \A c \in Chains :
       pendingObservedExcessByChain[c] = SumOver(ExcessIn(positions, {c}), PositionIds)

OpenCounted == openReservationCount = Cardinality(OpenIn(reservations))

RegistryInv ==
  RegistryTypeOK /\ RecordsAgree /\ ReservationsCounted /\ ExcessCounted /\ OpenCounted

LEMMA RegistryConstants ==
  /\ IsFiniteSet(ReservationIds) /\ IsFiniteSet(PositionIds)
  /\ NoId \notin ReservationIds /\ NoId \notin PositionIds /\ NoId \notin Chains
  /\ Amounts \subseteq Nat \ {0} /\ Values \subseteq Nat
  BY RegistryAssumption

-----------------------------------------------------------------------------
(* Sums over reservations.                                                 *)

LEMMA CountedType ==
  ASSUME NEW R \in [ReservationIds -> Reservations], NEW chains
  PROVE  /\ \A r \in ReservationIds : CountedIn(R, chains)[r] \in Nat
         /\ SumOver(CountedIn(R, chains), ReservationIds) \in Nat
<1>1. \A r \in ReservationIds : CountedIn(R, chains)[r] \in Nat
  BY DEF CountedIn, Reservations
<1>2. QED BY <1>1, RegistryConstants, SumType

(* What counts depends on the chain, the amount and the status only.       *)
LEMMA CountedSame ==
  ASSUME NEW R \in [ReservationIds -> Reservations], NEW Q \in [ReservationIds -> Reservations],
         \A r \in ReservationIds :
           /\ Q[r].chain = R[r].chain /\ Q[r].amount = R[r].amount
           /\ Q[r].status \in {"Open", "Consumed"} <=> R[r].status \in {"Open", "Consumed"},
         NEW chains
  PROVE  SumOver(CountedIn(Q, chains), ReservationIds) = SumOver(CountedIn(R, chains), ReservationIds)
<1>1. \A r \in ReservationIds : CountedIn(Q, chains)[r] = CountedIn(R, chains)[r]
  BY DEF CountedIn
<1>2. QED BY <1>1, SumSame

(* One reservation begins to count.                                        *)
LEMMA CountedMore ==
  ASSUME NEW R \in [ReservationIds -> Reservations], NEW Q \in [ReservationIds -> Reservations],
         NEW r \in ReservationIds,
         R[r].status \notin {"Open", "Consumed"}, Q[r].status \in {"Open", "Consumed"},
         \A o \in ReservationIds \ {r} : Q[o] = R[o],
         NEW chains
  PROVE  SumOver(CountedIn(Q, chains), ReservationIds)
           = SumOver(CountedIn(R, chains), ReservationIds)
               + (IF Q[r].chain \in chains THEN Q[r].amount ELSE 0)
<1> DEFINE f == CountedIn(R, chains)
           g == CountedIn(Q, chains)
<1>1. /\ f[r] = 0 /\ g[r] = (IF Q[r].chain \in chains THEN Q[r].amount ELSE 0)
      /\ \A o \in ReservationIds \ {r} : g[o] = f[o]
  BY DEF CountedIn
<1>2. \A o \in ReservationIds : f[o] \in Nat
  BY CountedType
<1>3. \A o \in ReservationIds : g[o] \in Nat
  BY CountedType
<1>4. SumOver(f, ReservationIds) \in Nat
  BY CountedType
<1> HIDE DEF f, g
<1>5. SumOver(g, ReservationIds) = SumOver(f, ReservationIds) - f[r] + g[r]
  BY <1>1, <1>2, <1>3, RegistryConstants, SumUpdate
<1>6. SumOver(g, ReservationIds) = SumOver(f, ReservationIds) + g[r]
  BY <1>1, <1>3, <1>4, <1>5
<1>7. QED BY <1>1, <1>6 DEF f, g

(* The reservations rs cease to count.                                     *)
LEMMA CountedLess ==
  ASSUME NEW R \in [ReservationIds -> Reservations], NEW Q \in [ReservationIds -> Reservations],
         NEW rs \in SUBSET ReservationIds,
         \A r \in rs : /\ R[r].status \in {"Open", "Consumed"}
                       /\ Q[r].status \notin {"Open", "Consumed"},
         \A r \in ReservationIds \ rs : Q[r] = R[r],
         NEW amount, \A r \in rs : amount[r] = R[r].amount,
         NEW chains, NEW T \in SUBSET rs, \A r \in rs : r \in T <=> R[r].chain \in chains
  PROVE  /\ SumOver(CountedIn(Q, chains), ReservationIds)
              = SumOver(CountedIn(R, chains), ReservationIds) - SumOver(amount, T)
         /\ SumOver(amount, T) \in Nat
<1> DEFINE f == CountedIn(R, chains)
           g == CountedIn(Q, chains)
           zero == [r \in T |-> 0]
<1>1. /\ \A r \in T : f[r] = amount[r] /\ g[r] = 0
      /\ \A r \in ReservationIds \ T : g[r] = f[r]
      /\ T \subseteq ReservationIds
  BY DEF CountedIn
<1>2. \A o \in ReservationIds : f[o] \in Nat
  BY CountedType
<1>3. \A o \in ReservationIds : g[o] \in Nat
  BY CountedType
<1>4. \A r \in T : amount[r] = f[r] /\ zero[r] = g[r]
  BY <1>1
<1>5. \A r \in ReservationIds \ T : g[r] = f[r]
  BY <1>1
<1>6. T \subseteq ReservationIds
  BY <1>1
<1>7. SumOver(zero, T) = 0
  BY SumZero
<1> HIDE DEF f, g, zero
<1>8. SumOver(g, ReservationIds) =
           SumOver(f, ReservationIds) - SumOver(amount, T) + SumOver(zero, T)
  BY <1>2, <1>3, <1>4, <1>5, <1>6, RegistryConstants, SumReplaced
<1>9. SumOver(f, ReservationIds) \in Nat /\ SumOver(amount, T) \in Nat
  <2>1. \A a \in T : amount[a] \in Nat
    BY <1>2, <1>4, <1>6
  <2>2. IsFiniteSet(T)
    BY <1>6, RegistryConstants, FS_Subset
  <2>3. QED BY <1>2, <2>1, <2>2, RegistryConstants, SumType
<1>10. SumOver(g, ReservationIds) = SumOver(f, ReservationIds) - SumOver(amount, T)
  BY <1>7, <1>9, <1>8
<1>11. QED BY <1>9, <1>10 DEF f, g

-----------------------------------------------------------------------------
(* Sums over pending positions.                                            *)

LEMMA ExcessType ==
  ASSUME NEW P \in [PositionIds -> Positions], NEW chains
  PROVE  /\ \A p \in PositionIds : ExcessIn(P, chains)[p] \in Nat
         /\ SumOver(ExcessIn(P, chains), PositionIds) \in Nat
<1>1. \A p \in PositionIds : ExcessIn(P, chains)[p] \in Nat
  BY DEF ExcessIn, Positions
<1>2. QED BY <1>1, RegistryConstants, SumType

(* A position matters only while it is pending with more than was sent.    *)
LEMMA ExcessSame ==
  ASSUME NEW P \in [PositionIds -> Positions], NEW Q \in [PositionIds -> Positions],
         \A p \in PositionIds :
           \/ Q[p] = P[p]
           \/ /\ P[p].status = "Pending" => P[p].value = 0
              /\ Q[p].status = "Pending" => Q[p].value = 0,
         NEW chains
  PROVE  SumOver(ExcessIn(Q, chains), PositionIds) = SumOver(ExcessIn(P, chains), PositionIds)
<1>1. \A p \in PositionIds : ExcessIn(Q, chains)[p] = ExcessIn(P, chains)[p]
  BY DEF ExcessIn, Positions
<1>2. QED BY <1>1, SumSame

-----------------------------------------------------------------------------
(* The counters after a step.                                              *)

LEMMA InvTypes ==
  ASSUME RegistryInv
  PROVE  /\ now \in Nat
         /\ reservations \in [ReservationIds -> Reservations]
         /\ positions \in [PositionIds -> Positions]
         /\ strategyPositions \subseteq PositionIds
         /\ bridgedOut \in Nat /\ bridgedOutByChain \in [Chains -> Nat]
         /\ openReservationCount \in Nat
         /\ pendingObservedExcess \in Nat /\ pendingObservedExcessByChain \in [Chains -> Nat]
  BY DEF RegistryInv, RegistryTypeOK

(* The sums that the counters are to be, for given records.                *)
CountsFor(total, byChain, R) ==
  /\ total \in Nat /\ byChain \in [Chains -> Nat]
  /\ total = SumOver(CountedIn(R, Chains), ReservationIds)
  /\ \A c \in Chains : byChain[c] = SumOver(CountedIn(R, {c}), ReservationIds)

ExcessFor(total, byChain, P) ==
  /\ total \in Nat /\ byChain \in [Chains -> Nat]
  /\ total = SumOver(ExcessIn(P, Chains), PositionIds)
  /\ \A c \in Chains : byChain[c] = SumOver(ExcessIn(P, {c}), PositionIds)

LEMMA InvCounts ==
  ASSUME RegistryInv
  PROVE  /\ CountsFor(bridgedOut, bridgedOutByChain, reservations)
         /\ ExcessFor(pendingObservedExcess, pendingObservedExcessByChain, positions)
  BY DEF RegistryInv, RegistryTypeOK, ReservationsCounted, ExcessCounted, CountsFor, ExcessFor

(* The parts that a step lemma below has to show.                          *)
LEMMA InvFromParts ==
  ASSUME now' \in Nat,
         reservations' \in [ReservationIds -> Reservations],
         positions' \in [PositionIds -> Positions],
         strategyPositions' = {p \in PositionIds : positions'[p].status \in Live},
         \A r \in ReservationIds : ReservationAgrees(r, reservations', positions'),
         \A p \in PositionIds : PositionAgrees(p, reservations', positions'),
         CountsFor(bridgedOut', bridgedOutByChain', reservations'),
         ExcessFor(pendingObservedExcess', pendingObservedExcessByChain', positions'),
         openReservationCount' \in Nat,
         openReservationCount' = Cardinality(OpenIn(reservations'))
  PROVE  RegistryInv'
<1>1. RegistryTypeOK'
  BY DEF RegistryTypeOK, CountsFor, ExcessFor
<1>2. RecordsAgree'
  BY DEF RecordsAgree
<1>3. ReservationsCounted' /\ ExcessCounted'
  BY DEF ReservationsCounted, ExcessCounted, CountsFor, ExcessFor
<1>4. OpenCounted'
  BY DEF OpenCounted
<1>5. QED BY <1>1, <1>2, <1>3, <1>4 DEF RegistryInv

LEMMA CountsKept ==
  ASSUME RegistryInv, UNCHANGED countVars,
         NEW Q \in [ReservationIds -> Reservations],
         \A r \in ReservationIds :
           /\ Q[r].chain = reservations[r].chain /\ Q[r].amount = reservations[r].amount
           /\ Q[r].status \in {"Open", "Consumed"}
                <=> reservations[r].status \in {"Open", "Consumed"}
  PROVE  CountsFor(bridgedOut', bridgedOutByChain', Q)
<1>1. CountsFor(bridgedOut, bridgedOutByChain, reservations)
  BY InvCounts
<1>2. reservations \in [ReservationIds -> Reservations]
  BY InvTypes
<1>3. \A chains : SumOver(CountedIn(Q, chains), ReservationIds)
                    = SumOver(CountedIn(reservations, chains), ReservationIds)
  BY <1>2, CountedSame
<1>4. QED BY <1>1, <1>3 DEF CountsFor, countVars

(* CountReservation is right about a reservation that has not counted.     *)
LEMMA CountsMore ==
  ASSUME RegistryInv, NEW r \in ReservationIds, NEW chain \in Chains, NEW amount \in Nat,
         CountReservation(chain, amount),
         NEW Q \in [ReservationIds -> Reservations],
         reservations[r].status \notin {"Open", "Consumed"},
         Q[r].status \in {"Open", "Consumed"}, Q[r].chain = chain, Q[r].amount = amount,
         \A o \in ReservationIds \ {r} : Q[o] = reservations[o]
  PROVE  CountsFor(bridgedOut', bridgedOutByChain', Q)
<1>1. CountsFor(bridgedOut, bridgedOutByChain, reservations)
  BY InvCounts
<1>2. reservations \in [ReservationIds -> Reservations]
  BY InvTypes
<1>3. \A chains : SumOver(CountedIn(Q, chains), ReservationIds)
                    = SumOver(CountedIn(reservations, chains), ReservationIds)
                        + (IF chain \in chains THEN amount ELSE 0)
  BY <1>2, CountedMore
<1>4. bridgedOut \in Nat /\ bridgedOutByChain \in [Chains -> Nat]
  BY <1>1 DEF CountsFor
<1>5. /\ bridgedOut' = bridgedOut + amount
      /\ bridgedOutByChain' = [bridgedOutByChain EXCEPT ![chain] = @ + amount]
  BY DEF CountReservation
<1>6. bridgedOut' \in Nat /\ bridgedOutByChain' \in [Chains -> Nat]
  BY <1>4, <1>5
<1>7. bridgedOut' = SumOver(CountedIn(Q, Chains), ReservationIds)
  BY <1>1, <1>3, <1>5 DEF CountsFor
<1>8. ASSUME NEW c \in Chains
      PROVE  bridgedOutByChain'[c] = SumOver(CountedIn(Q, {c}), ReservationIds)
  <2>1. bridgedOutByChain[c] = SumOver(CountedIn(reservations, {c}), ReservationIds)
    BY <1>1 DEF CountsFor
  <2>2. bridgedOutByChain'[c] = bridgedOutByChain[c] + (IF chain \in {c} THEN amount ELSE 0)
    BY <1>4, <1>5
  <2>3. QED BY <1>3, <2>1, <2>2
<1>9. QED BY <1>6, <1>7, <1>8 DEF CountsFor

(* UncountReservations is right about reservations that count no longer.   *)
LEMMA CountsLess ==
  ASSUME RegistryInv, NEW rs \in SUBSET ReservationIds, UncountReservations(rs),
         NEW Q \in [ReservationIds -> Reservations],
         \A r \in rs : /\ reservations[r].status \in {"Open", "Consumed"}
                       /\ Q[r].status \notin {"Open", "Consumed"},
         \A r \in ReservationIds \ rs : Q[r] = reservations[r]
  PROVE  CountsFor(bridgedOut', bridgedOutByChain', Q)
<1> DEFINE On(chains) == {r \in rs : reservations[r].chain \in chains}
<1>1. CountsFor(bridgedOut, bridgedOutByChain, reservations)
  BY InvCounts
<1>2. /\ reservations \in [ReservationIds -> Reservations]
      /\ \A r \in ReservationIds : ReservationAgrees(r, reservations, positions)
  BY InvTypes DEF RegistryInv, RecordsAgree
<1>3. \A r \in rs : AmountOf[r] = reservations[r].amount
  BY DEF AmountOf
<1>4. \A chains :
        /\ SumOver(CountedIn(Q, chains), ReservationIds)
             = SumOver(CountedIn(reservations, chains), ReservationIds) - SumOver(AmountOf, On(chains))
        /\ SumOver(AmountOf, On(chains)) \in Nat
  <2>1. TAKE chains
  <2>2. ASSUME NEW T \in SUBSET rs, \A r \in rs : r \in T <=> reservations[r].chain \in chains
        PROVE  /\ SumOver(CountedIn(Q, chains), ReservationIds)
                    = SumOver(CountedIn(reservations, chains), ReservationIds) - SumOver(AmountOf, T)
               /\ SumOver(AmountOf, T) \in Nat
    BY <1>2, <1>3, <2>2, CountedLess
  <2>3. QED BY <2>2
<1>5. \A chains : SumOver(CountedIn(Q, chains), ReservationIds) \in Nat
  BY CountedType
<1>6. On(Chains) = rs
  BY <1>2 DEF ReservationAgrees
<1>7. \A c \in Chains : On({c}) = {r \in rs : reservations[r].chain = c}
  OBVIOUS
<1>8. /\ bridgedOut' = bridgedOut - SumOver(AmountOf, On(Chains))
      /\ bridgedOutByChain' = [c \in Chains |-> bridgedOutByChain[c] - SumOver(AmountOf, On({c}))]
  BY <1>6, <1>7 DEF UncountReservations
<1> HIDE DEF On
<1>9. bridgedOut' = SumOver(CountedIn(Q, Chains), ReservationIds)
  BY <1>1, <1>4, <1>8 DEF CountsFor
<1>10. \A c \in Chains : bridgedOutByChain'[c] = SumOver(CountedIn(Q, {c}), ReservationIds)
  BY <1>1, <1>4, <1>8 DEF CountsFor
<1>11. QED BY <1>5, <1>8, <1>9, <1>10 DEF CountsFor

LEMMA ExcessKept ==
  ASSUME RegistryInv, UNCHANGED excessVars,
         NEW Q \in [PositionIds -> Positions],
         \A p \in PositionIds :
           \/ Q[p] = positions[p]
           \/ /\ positions[p].status = "Pending" => positions[p].value = 0
              /\ Q[p].status = "Pending" => Q[p].value = 0
  PROVE  ExcessFor(pendingObservedExcess', pendingObservedExcessByChain', Q)
<1>1. ExcessFor(pendingObservedExcess, pendingObservedExcessByChain, positions)
  BY InvCounts
<1>2. positions \in [PositionIds -> Positions]
  BY InvTypes
<1>3. \A chains : SumOver(ExcessIn(Q, chains), PositionIds)
                    = SumOver(ExcessIn(positions, chains), PositionIds)
  BY <1>2, ExcessSame
<1>4. QED BY <1>1, <1>3 DEF ExcessFor, excessVars

(* SetPendingExcess is right about pending positions.                      *)
LEMMA ExcessSet ==
  ASSUME RegistryInv, NEW ps \in SUBSET PositionIds, NEW new, SetPendingExcess(ps, new),
         NEW Q \in [PositionIds -> Positions],
         \A p \in ps : positions[p].status = "Pending" /\ Q[p].chain = positions[p].chain,
         \A p \in ps : new[p] = (IF Q[p].status = "Pending" /\ Q[p].value > Q[p].amount
                                   THEN Q[p].value - Q[p].amount ELSE 0),
         \A p \in PositionIds \ ps :
           Q[p] = positions[p] \/ (positions[p].status # "Pending" /\ Q[p].status # "Pending")
  PROVE  ExcessFor(pendingObservedExcess', pendingObservedExcessByChain', Q)
<1> DEFINE On(chains) == {p \in ps : positions[p].chain \in chains}
           old == [p \in ps |-> Excess(p, positions[p].value)]
<1>1. ExcessFor(pendingObservedExcess, pendingObservedExcessByChain, positions)
  BY InvCounts
<1>2. /\ positions \in [PositionIds -> Positions]
      /\ \A p \in PositionIds : PositionAgrees(p, reservations, positions)
  BY InvTypes DEF RegistryInv, RecordsAgree
<1>3. /\ On(Chains) = ps
      /\ \A c \in Chains : On({c}) = {p \in ps : positions[p].chain = c}
  BY <1>2 DEF PositionAgrees
<1>4. /\ pendingObservedExcess' =
           pendingObservedExcess - SumOver(old, On(Chains)) + SumOver(new, On(Chains))
      /\ pendingObservedExcessByChain' = [c \in Chains |->
           pendingObservedExcessByChain[c] - SumOver(old, On({c})) + SumOver(new, On({c}))]
  BY <1>3 DEF SetPendingExcess
<1>5. \A p \in ps : old[p] = (IF positions[p].value > positions[p].amount
                              THEN positions[p].value - positions[p].amount ELSE 0)
  BY DEF Excess
<1> HIDE DEF old
<1>6. \A chains : SumOver(ExcessIn(Q, chains), PositionIds)
                    = SumOver(ExcessIn(positions, chains), PositionIds)
                        - SumOver(old, On(chains)) + SumOver(new, On(chains))
  <2>1. TAKE chains
  <2> DEFINE f == ExcessIn(positions, chains)
             g == ExcessIn(Q, chains)
             T == On(chains)
  <2>2. \A p \in PositionIds : f[p] \in Nat
    BY <1>2, ExcessType
  <2>3. \A p \in PositionIds : g[p] \in Nat
    BY ExcessType
  <2>4. \A p \in T : old[p] = f[p] /\ new[p] = g[p]
    BY <1>5 DEF ExcessIn
  <2>5. \A p \in PositionIds \ T : g[p] = f[p]
    BY DEF ExcessIn
  <2>6. T \subseteq PositionIds
    OBVIOUS
  <2> HIDE DEF f, g, T
  <2>7. SumOver(g, PositionIds) = SumOver(f, PositionIds) - SumOver(old, T) + SumOver(new, T)
    BY <2>2, <2>3, <2>4, <2>5, <2>6, RegistryConstants, SumReplaced
  <2>8. QED BY <2>7 DEF f, g, T
<1>7. \A chains : SumOver(ExcessIn(Q, chains), PositionIds) \in Nat
  BY ExcessType
<1> HIDE DEF On
<1>8. pendingObservedExcess' = SumOver(ExcessIn(Q, Chains), PositionIds)
  BY <1>1, <1>4, <1>6 DEF ExcessFor
<1>9. \A c \in Chains :
        pendingObservedExcessByChain'[c] = SumOver(ExcessIn(Q, {c}), PositionIds)
  BY <1>1, <1>4, <1>6 DEF ExcessFor
<1>10. QED BY <1>4, <1>7, <1>8, <1>9 DEF ExcessFor

-----------------------------------------------------------------------------
(* Open reservations.                                                      *)

LEMMA OpenFinite ==
  ASSUME NEW R
  PROVE  IsFiniteSet(OpenIn(R)) /\ Cardinality(OpenIn(R)) \in Nat
  BY RegistryConstants, FS_Subset, FS_CardinalityType DEF OpenIn

LEMMA OpenKept ==
  ASSUME RegistryInv, openReservationCount' = openReservationCount,
         NEW Q, \A o \in ReservationIds : Q[o].status = "Open" <=> reservations[o].status = "Open"
  PROVE  openReservationCount' \in Nat /\ openReservationCount' = Cardinality(OpenIn(Q))
<1>1. OpenIn(Q) = OpenIn(reservations)
  BY DEF OpenIn
<1>2. QED BY <1>1, OpenFinite DEF RegistryInv, OpenCounted

LEMMA OpenMore ==
  ASSUME RegistryInv, openReservationCount' = openReservationCount + 1,
         NEW r \in ReservationIds, reservations[r].status # "Open",
         NEW Q, Q[r].status = "Open",
         \A o \in ReservationIds \ {r} : Q[o].status = reservations[o].status
  PROVE  openReservationCount' \in Nat /\ openReservationCount' = Cardinality(OpenIn(Q))
<1>1. OpenIn(Q) = OpenIn(reservations) \cup {r} /\ r \notin OpenIn(reservations)
  BY DEF OpenIn
<1>2. Cardinality(OpenIn(Q)) = Cardinality(OpenIn(reservations)) + 1
  BY <1>1, OpenFinite, FS_AddElement
<1>3. QED BY <1>2, OpenFinite DEF RegistryInv, OpenCounted

LEMMA OpenLess ==
  ASSUME RegistryInv, openReservationCount' = openReservationCount - 1,
         NEW r \in ReservationIds, reservations[r].status = "Open",
         NEW Q, Q[r].status # "Open",
         \A o \in ReservationIds \ {r} : Q[o].status = reservations[o].status
  PROVE  openReservationCount' \in Nat /\ openReservationCount' = Cardinality(OpenIn(Q))
<1>1. OpenIn(Q) = OpenIn(reservations) \ {r} /\ r \in OpenIn(reservations)
  BY DEF OpenIn
<1>2. Cardinality(OpenIn(Q)) = Cardinality(OpenIn(reservations)) - 1
  BY <1>1, OpenFinite, FS_RemoveElement
<1>3. Cardinality(OpenIn(Q)) \in Nat
  BY OpenFinite
<1>4. QED BY <1>2, <1>3 DEF RegistryInv, OpenCounted

-----------------------------------------------------------------------------
(* The steps.                                                              *)

(* What the invariant says of one reservation and one position.            *)
LEMMA InvRecords ==
  ASSUME RegistryInv
  PROVE  /\ strategyPositions = {p \in PositionIds : positions[p].status \in Live}
         /\ \A r \in ReservationIds : reservations[r] \in Reservations
         /\ \A p \in PositionIds : positions[p] \in Positions
         /\ \A r \in ReservationIds : ReservationAgrees(r, reservations, positions)
         /\ \A p \in PositionIds : PositionAgrees(p, reservations, positions)
  BY DEF RegistryInv, RegistryTypeOK, RecordsAgree

LEMMA RecordBridgedOutInv ==
  ASSUME RegistryInv, NEW r \in ReservationIds, NEW c \in Chains, NEW a \in Amounts,
         RecordBridgedOut(r, c, a)
  PROVE  RegistryInv'
<1> DEFINE new == [status |-> "Open", chain |-> c, amount |-> a, createdAt |-> now,
                   position |-> NoId]
<1>1. /\ reservations' = [reservations EXCEPT ![r] = new]
      /\ reservations[r].status = "None" /\ a \in Nat /\ c \in Chains
      /\ CountReservation(c, a)
      /\ openReservationCount' = openReservationCount + 1
      /\ UNCHANGED <<now, positions, strategyPositions>> /\ UNCHANGED excessVars
  BY RegistryConstants DEF RecordBridgedOut
<1>2. new \in Reservations
  BY <1>1, InvTypes DEF Reservations
<1>3. /\ reservations' \in [ReservationIds -> Reservations]
      /\ reservations'[r] = new
      /\ \A o \in ReservationIds \ {r} : reservations'[o] = reservations[o]
  BY <1>1, <1>2, InvTypes
<1>4. new.status = "Open" /\ new.chain = c /\ new.amount = a
  OBVIOUS
<1> HIDE DEF new
<1>5. \A o \in ReservationIds : ReservationAgrees(o, reservations', positions')
  BY <1>1, <1>3, <1>4, InvRecords DEF ReservationAgrees
<1>6. \A p \in PositionIds : PositionAgrees(p, reservations', positions')
  <2>1. SUFFICES ASSUME NEW p \in PositionIds
                 PROVE  PositionAgrees(p, reservations', positions)
    BY <1>1
  <2>2. PositionAgrees(p, reservations, positions)
    BY InvRecords
  <2>3. CASE positions[p].status = "None"
    BY <2>3 DEF PositionAgrees, Booked
  <2>4. CASE positions[p].status # "None"
    <3>1. /\ positions[p].reservation \in ReservationIds
          /\ positions[p].reservation # r
      BY <1>1, <2>2, <2>4 DEF PositionAgrees
    <3>2. reservations'[positions[p].reservation] = reservations[positions[p].reservation]
      BY <1>3, <3>1
    <3>3. QED BY <2>2, <3>2, <3>1 DEF PositionAgrees
  <2>5. QED BY <2>3, <2>4
<1>7. CountsFor(bridgedOut', bridgedOutByChain', reservations')
  BY <1>1, <1>3, <1>4, CountsMore
<1>8. ExcessFor(pendingObservedExcess', pendingObservedExcessByChain', positions')
  BY <1>1, InvTypes, ExcessKept
<1>9. openReservationCount' \in Nat /\ openReservationCount' = Cardinality(OpenIn(reservations'))
  BY <1>1, <1>3, <1>4, OpenMore
<1>10. /\ now' \in Nat /\ positions' \in [PositionIds -> Positions]
       /\ strategyPositions' = {p \in PositionIds : positions'[p].status \in Live}
  BY <1>1, InvTypes, InvRecords
<1>11. QED BY <1>3, <1>5, <1>6, <1>7, <1>8, <1>9, <1>10, InvFromParts

LEMMA RegisterPositionInv ==
  ASSUME RegistryInv, NEW r \in ReservationIds, NEW p \in PositionIds, RegisterPosition(r, p)
  PROVE  RegistryInv'
<1> DEFINE new == [status |-> "Pending", reservation |-> r, chain |-> reservations[r].chain,
                   amount |-> reservations[r].amount, value |-> 0, registeredAt |-> now]
           bound == [reservations[r] EXCEPT !.status = "Consumed", !.position = p]
<1>1. /\ positions[p].status = "None"
      /\ reservations[r].status \in {"Open", "Released"}
      /\ reservations' = [reservations EXCEPT ![r] = bound]
      /\ positions' = [positions EXCEPT ![p] = new]
      /\ strategyPositions' = strategyPositions \cup {p}
      /\ UNCHANGED now /\ UNCHANGED excessVars
  BY InvTypes DEF RegisterPosition
<1>2. /\ reservations[r] \in Reservations /\ reservations[r].chain \in Chains
      /\ reservations[r].amount \in Nat /\ now \in Nat
  BY <1>1, InvRecords, InvTypes DEF ReservationAgrees, Reservations
<1>3. new \in Positions /\ bound \in Reservations
  BY <1>2 DEF Positions, Reservations
<1>4. /\ new.status = "Pending" /\ new.reservation = r /\ new.chain = reservations[r].chain
      /\ new.amount = reservations[r].amount /\ new.value = 0
      /\ bound.status = "Consumed" /\ bound.position = p /\ bound.chain = reservations[r].chain
      /\ bound.amount = reservations[r].amount
  BY <1>2 DEF Reservations
<1>5. /\ reservations' \in [ReservationIds -> Reservations]
      /\ reservations'[r] = bound
      /\ \A o \in ReservationIds \ {r} : reservations'[o] = reservations[o]
      /\ positions' \in [PositionIds -> Positions]
      /\ positions'[p] = new
      /\ \A o \in PositionIds \ {p} : positions'[o] = positions[o]
  BY <1>1, <1>3, InvTypes
<1> HIDE DEF new, bound
<1>6. strategyPositions' = {o \in PositionIds : positions'[o].status \in Live}
  BY <1>1, <1>4, <1>5, InvRecords DEF Live
<1>7. \A o \in ReservationIds : ReservationAgrees(o, reservations', positions')
  <2>1. SUFFICES ASSUME NEW o \in ReservationIds
                 PROVE  ReservationAgrees(o, reservations', positions')
    OBVIOUS
  <2>2. CASE o = r
    BY <1>2, <1>4, <1>5, <2>2 DEF ReservationAgrees, Live
  <2>3. CASE o # r
    <3>1. reservations'[o] = reservations[o] /\ ReservationAgrees(o, reservations, positions)
      BY <1>5, <2>3, InvRecords
    <3>2. reservations[o].status = "Consumed" => reservations[o].position # p
      BY <1>1, <3>1 DEF ReservationAgrees, Live, Booked
    <3>3. QED BY <1>5, <3>1, <3>2 DEF ReservationAgrees
  <2>4. QED BY <2>2, <2>3
<1>8. \A o \in PositionIds : PositionAgrees(o, reservations', positions')
  <2>1. SUFFICES ASSUME NEW o \in PositionIds
                 PROVE  PositionAgrees(o, reservations', positions')
    OBVIOUS
  <2>2. CASE o = p
    BY <1>2, <1>4, <1>5, <2>2 DEF PositionAgrees, Booked
  <2>3. CASE o # p
    <3>1. positions'[o] = positions[o] /\ PositionAgrees(o, reservations, positions)
      BY <1>5, <2>3, InvRecords
    <3>2. CASE positions[o].reservation = r
      BY <1>1, <1>4, <1>5, <3>1, <3>2 DEF PositionAgrees, Booked
    <3>3. CASE positions[o].reservation # r
      BY <1>5, <3>1, <3>3 DEF PositionAgrees, Booked
    <3>4. QED BY <3>2, <3>3
  <2>4. QED BY <2>2, <2>3
<1>9. /\ CountsFor(bridgedOut', bridgedOutByChain', reservations')
      /\ openReservationCount' \in Nat
      /\ openReservationCount' = Cardinality(OpenIn(reservations'))
  <2>1. CASE reservations[r].status = "Open"
    <3>1. openReservationCount' = openReservationCount - 1 /\ UNCHANGED countVars
      BY <2>1 DEF RegisterPosition
    <3>2. CountsFor(bridgedOut', bridgedOutByChain', reservations')
      BY <1>4, <1>5, <2>1, <3>1, CountsKept
    <3>3. /\ openReservationCount' \in Nat
          /\ openReservationCount' = Cardinality(OpenIn(reservations'))
      BY <1>4, <1>5, <2>1, <3>1, OpenLess
    <3>4. QED BY <3>2, <3>3
  <2>2. CASE reservations[r].status = "Released"
    <3>1. /\ CountReservation(reservations[r].chain, reservations[r].amount)
          /\ openReservationCount' = openReservationCount
      BY <2>2 DEF RegisterPosition
    <3>2. CountsFor(bridgedOut', bridgedOutByChain', reservations')
      BY <1>2, <1>4, <1>5, <2>2, <3>1, CountsMore
    <3>3. /\ openReservationCount' \in Nat
          /\ openReservationCount' = Cardinality(OpenIn(reservations'))
      BY <1>4, <1>5, <2>2, <3>1, OpenKept
    <3>4. QED BY <3>2, <3>3
  <2>3. QED BY <1>1, <2>1, <2>2
<1>10. ExcessFor(pendingObservedExcess', pendingObservedExcessByChain', positions')
  BY <1>1, <1>4, <1>5, ExcessKept
<1>11. now' \in Nat
  BY <1>1, <1>2
<1>12. QED BY <1>5, <1>6, <1>7, <1>8, <1>9, <1>10, <1>11, InvFromParts

(* One position takes another status.                                      *)
LEMMA StatusChange ==
  ASSUME RegistryInv, NEW p \in PositionIds, NEW s,
         s \in {"Active", "WindingDown", "Exited", "Invalidated"},
         positions' = [positions EXCEPT ![p].status = s]
  PROVE  /\ positions' \in [PositionIds -> Positions]
         /\ positions'[p].status = s /\ positions'[p].value = positions[p].value
         /\ positions'[p].reservation = positions[p].reservation
         /\ positions'[p].chain = positions[p].chain /\ positions'[p].amount = positions[p].amount
         /\ \A o \in PositionIds \ {p} : positions'[o] = positions[o]
<1> DEFINE new == [positions[p] EXCEPT !.status = s]
<1>1. positions \in [PositionIds -> Positions] /\ positions[p] \in Positions
  BY InvTypes
<1>2. /\ new \in Positions /\ new.status = s /\ new.value = positions[p].value
      /\ new.reservation = positions[p].reservation /\ new.chain = positions[p].chain
      /\ new.amount = positions[p].amount
  BY <1>1 DEF Positions
<1>3. positions' = [positions EXCEPT ![p] = new]
  OBVIOUS
<1> HIDE DEF new
<1>4. QED BY <1>1, <1>2, <1>3

LEMMA BeginPositionExitInv ==
  ASSUME RegistryInv, NEW p \in PositionIds, BeginPositionExit(p)
  PROVE  RegistryInv'
<1>1. /\ positions[p].status = "Active"
      /\ positions' = [positions EXCEPT ![p].status = "WindingDown"]
      /\ UNCHANGED <<now, reservations, strategyPositions, openReservationCount>>
      /\ UNCHANGED countVars /\ UNCHANGED excessVars
  BY DEF BeginPositionExit
<1>2. /\ positions' \in [PositionIds -> Positions]
      /\ positions'[p].status = "WindingDown" /\ positions'[p].value = positions[p].value
      /\ positions'[p].reservation = positions[p].reservation
      /\ positions'[p].chain = positions[p].chain /\ positions'[p].amount = positions[p].amount
      /\ \A o \in PositionIds \ {p} : positions'[o] = positions[o]
  BY <1>1, StatusChange
<1>3. strategyPositions' = {o \in PositionIds : positions'[o].status \in Live}
  BY <1>1, <1>2, InvRecords DEF Live, Booked
<1>4. \A o \in ReservationIds : ReservationAgrees(o, reservations', positions')
  BY <1>1, <1>2, InvRecords DEF ReservationAgrees, Live, Booked
<1>5. \A o \in PositionIds : PositionAgrees(o, reservations', positions')
  BY <1>1, <1>2, InvRecords DEF PositionAgrees, Booked
<1>6. CountsFor(bridgedOut', bridgedOutByChain', reservations')
  BY <1>1, InvTypes, CountsKept
<1>7. ExcessFor(pendingObservedExcess', pendingObservedExcessByChain', positions')
  BY <1>1, <1>2, ExcessKept
<1>8. openReservationCount' \in Nat /\ openReservationCount' = Cardinality(OpenIn(reservations'))
  BY <1>1, OpenKept
<1>9. now' \in Nat /\ reservations' \in [ReservationIds -> Reservations]
  BY <1>1, InvTypes
<1>10. QED BY <1>2, <1>3, <1>4, <1>5, <1>6, <1>7, <1>8, <1>9, InvFromParts

(* A drained position has no reservation that still counts: it has been    *)
(* booked, and whatever is booked at zero has been settled.                *)
LEMMA DeregisterPositionInv ==
  ASSUME RegistryInv, NEW p \in PositionIds, DeregisterPosition(p)
  PROVE  RegistryInv'
<1>1. /\ positions[p].status = "WindingDown" /\ positions[p].value = 0
      /\ positions' = [positions EXCEPT ![p].status = "Exited"]
      /\ strategyPositions' = strategyPositions \ {p}
      /\ UNCHANGED <<now, reservations, openReservationCount>>
      /\ UNCHANGED countVars /\ UNCHANGED excessVars
  BY DEF DeregisterPosition, IsDrained
<1>2. /\ positions' \in [PositionIds -> Positions]
      /\ positions'[p].status = "Exited" /\ positions'[p].value = positions[p].value
      /\ positions'[p].reservation = positions[p].reservation
      /\ positions'[p].chain = positions[p].chain /\ positions'[p].amount = positions[p].amount
      /\ \A o \in PositionIds \ {p} : positions'[o] = positions[o]
  BY <1>1, StatusChange
<1>3. strategyPositions' = {o \in PositionIds : positions'[o].status \in Live}
  BY <1>1, <1>2, InvRecords DEF Live, Booked
<1>4. reservations[positions[p].reservation].status = "Settled"
  BY <1>1, InvRecords DEF PositionAgrees, Booked
<1>5. \A o \in ReservationIds : ReservationAgrees(o, reservations', positions')
  BY <1>1, <1>2, <1>4, InvRecords DEF ReservationAgrees, Live, Booked
<1>6. \A o \in PositionIds : PositionAgrees(o, reservations', positions')
  BY <1>1, <1>2, InvRecords DEF PositionAgrees, Booked
<1>7. CountsFor(bridgedOut', bridgedOutByChain', reservations')
  BY <1>1, InvTypes, CountsKept
<1>8. ExcessFor(pendingObservedExcess', pendingObservedExcessByChain', positions')
  BY <1>1, <1>2, ExcessKept
<1>9. openReservationCount' \in Nat /\ openReservationCount' = Cardinality(OpenIn(reservations'))
  BY <1>1, OpenKept
<1>10. now' \in Nat /\ reservations' \in [ReservationIds -> Reservations]
  BY <1>1, InvTypes
<1>11. QED BY <1>2, <1>3, <1>5, <1>6, <1>7, <1>8, <1>9, <1>10, InvFromParts

(* One reservation is released.                                            *)
LEMMA Released ==
  ASSUME RegistryInv, NEW r \in ReservationIds,
         reservations' = [reservations EXCEPT ![r].status = "Released"]
  PROVE  /\ reservations' \in [ReservationIds -> Reservations]
         /\ reservations'[r].status = "Released"
         /\ reservations'[r].chain = reservations[r].chain
         /\ reservations'[r].amount = reservations[r].amount
         /\ \A o \in ReservationIds \ {r} : reservations'[o] = reservations[o]
<1> DEFINE new == [reservations[r] EXCEPT !.status = "Released"]
<1>1. reservations \in [ReservationIds -> Reservations] /\ reservations[r] \in Reservations
  BY InvTypes
<1>2. /\ new \in Reservations /\ new.status = "Released"
      /\ new.chain = reservations[r].chain /\ new.amount = reservations[r].amount
  BY <1>1 DEF Reservations
<1>3. reservations' = [reservations EXCEPT ![r] = new]
  OBVIOUS
<1> HIDE DEF new
<1>4. QED BY <1>1, <1>2, <1>3

LEMMA ReleaseExpiredReservationInv ==
  ASSUME RegistryInv, NEW r \in ReservationIds, ReleaseExpiredReservation(r)
  PROVE  RegistryInv'
<1>1. /\ reservations[r].status = "Open"
      /\ reservations' = [reservations EXCEPT ![r].status = "Released"]
      /\ UncountReservations({r})
      /\ openReservationCount' = openReservationCount - 1
      /\ UNCHANGED <<now, positions, strategyPositions>> /\ UNCHANGED excessVars
  BY DEF ReleaseExpiredReservation
<1>2. /\ reservations' \in [ReservationIds -> Reservations]
      /\ reservations'[r].status = "Released"
      /\ reservations'[r].chain = reservations[r].chain
      /\ reservations'[r].amount = reservations[r].amount
      /\ \A o \in ReservationIds \ {r} : reservations'[o] = reservations[o]
  BY <1>1, Released
<1>3. \A o \in ReservationIds : ReservationAgrees(o, reservations', positions')
  BY <1>1, <1>2, InvRecords DEF ReservationAgrees
<1>4. \A p \in PositionIds : PositionAgrees(p, reservations', positions')
  <2>1. SUFFICES ASSUME NEW p \in PositionIds
                 PROVE  PositionAgrees(p, reservations', positions)
    BY <1>1
  <2>2. PositionAgrees(p, reservations, positions)
    BY InvRecords
  <2>3. CASE positions[p].reservation = r
    BY <1>1, <1>2, <2>2, <2>3 DEF PositionAgrees, Booked
  <2>4. CASE positions[p].reservation # r
    BY <1>2, <2>2, <2>4 DEF PositionAgrees, Booked
  <2>5. QED BY <2>3, <2>4
<1>5. CountsFor(bridgedOut', bridgedOutByChain', reservations')
  <2>1. \A o \in {r} : /\ reservations[o].status \in {"Open", "Consumed"}
                       /\ reservations'[o].status \notin {"Open", "Consumed"}
    BY <1>1, <1>2
  <2>2. {r} \in SUBSET ReservationIds
    OBVIOUS
  <2>3. QED BY <1>1, <1>2, <2>1, <2>2, CountsLess
<1>6. ExcessFor(pendingObservedExcess', pendingObservedExcessByChain', positions')
  BY <1>1, InvTypes, ExcessKept
<1>7. openReservationCount' \in Nat /\ openReservationCount' = Cardinality(OpenIn(reservations'))
  BY <1>1, <1>2, OpenLess
<1>8. /\ now' \in Nat /\ positions' \in [PositionIds -> Positions]
      /\ strategyPositions' = {p \in PositionIds : positions'[p].status \in Live}
  BY <1>1, InvTypes, InvRecords
<1>9. QED BY <1>2, <1>3, <1>4, <1>5, <1>6, <1>7, <1>8, InvFromParts

(* Nothing has been seen of an invalidated position: it takes no excess    *)
(* with it.                                                                *)
LEMMA InvalidateExpiredPendingInv ==
  ASSUME RegistryInv, NEW p \in PositionIds, InvalidateExpiredPending(p)
  PROVE  RegistryInv'
<1> DEFINE r == positions[p].reservation
<1>1. /\ positions[p].status = "Pending" /\ positions[p].value = 0
      /\ positions' = [positions EXCEPT ![p].status = "Invalidated"]
      /\ reservations' = [reservations EXCEPT ![r].status = "Released"]
      /\ UncountReservations({r})
      /\ strategyPositions' = strategyPositions \ {p}
      /\ UNCHANGED <<now, openReservationCount>> /\ UNCHANGED excessVars
  BY DEF InvalidateExpiredPending, IsInvalid, HasExpired
<1>2. /\ r \in ReservationIds /\ reservations[r].status = "Consumed"
      /\ reservations[r].position = p
  BY <1>1, InvRecords DEF PositionAgrees
<1> HIDE DEF r
<1>3. /\ reservations' \in [ReservationIds -> Reservations]
      /\ reservations'[r].status = "Released"
      /\ reservations'[r].chain = reservations[r].chain
      /\ reservations'[r].amount = reservations[r].amount
      /\ \A o \in ReservationIds \ {r} : reservations'[o] = reservations[o]
  BY <1>1, <1>2, Released
<1>4. /\ positions' \in [PositionIds -> Positions]
      /\ positions'[p].status = "Invalidated" /\ positions'[p].value = positions[p].value
      /\ positions'[p].reservation = r
      /\ positions'[p].chain = positions[p].chain /\ positions'[p].amount = positions[p].amount
      /\ \A o \in PositionIds \ {p} : positions'[o] = positions[o]
  BY <1>1, StatusChange DEF r
<1>5. strategyPositions' = {o \in PositionIds : positions'[o].status \in Live}
  BY <1>1, <1>4, InvRecords DEF Live, Booked
<1>6. \A o \in ReservationIds : ReservationAgrees(o, reservations', positions')
  <2>1. SUFFICES ASSUME NEW o \in ReservationIds
                 PROVE  ReservationAgrees(o, reservations', positions')
    OBVIOUS
  <2>2. ReservationAgrees(o, reservations, positions) /\ positions[p].reservation = r
    BY InvRecords DEF r
  <2>3. CASE o = r
    BY <1>2, <1>3, <2>2, <2>3 DEF ReservationAgrees
  <2>4. CASE o # r
    BY <1>3, <1>4, <2>2, <2>4 DEF ReservationAgrees
  <2>5. QED BY <2>3, <2>4
<1>7. \A o \in PositionIds : PositionAgrees(o, reservations', positions')
  <2>1. SUFFICES ASSUME NEW o \in PositionIds
                 PROVE  PositionAgrees(o, reservations', positions')
    OBVIOUS
  <2>2. PositionAgrees(o, reservations, positions)
    BY InvRecords
  <2>3. CASE o = p
    BY <1>1, <1>2, <1>3, <1>4, <2>2, <2>3 DEF PositionAgrees, Booked, r
  <2>4. CASE o # p
    <3>1. positions'[o] = positions[o]
      BY <1>4, <2>4
    <3>2. CASE positions[o].reservation = r
      BY <1>2, <1>3, <2>2, <2>4, <3>1, <3>2 DEF PositionAgrees, Booked
    <3>3. CASE positions[o].reservation # r
      BY <1>3, <2>2, <3>1, <3>3 DEF PositionAgrees, Booked
    <3>4. QED BY <3>2, <3>3
  <2>5. QED BY <2>3, <2>4
<1>8. CountsFor(bridgedOut', bridgedOutByChain', reservations')
  <2>1. \A o \in {r} : /\ reservations[o].status \in {"Open", "Consumed"}
                       /\ reservations'[o].status \notin {"Open", "Consumed"}
    BY <1>2, <1>3
  <2>2. {r} \in SUBSET ReservationIds
    BY <1>2
  <2>3. QED BY <1>1, <1>2, <1>3, <2>1, <2>2, CountsLess
<1>9. ExcessFor(pendingObservedExcess', pendingObservedExcessByChain', positions')
  BY <1>1, <1>4, ExcessKept
<1>10. openReservationCount' \in Nat /\ openReservationCount' = Cardinality(OpenIn(reservations'))
  BY <1>1, <1>2, <1>3, OpenKept
<1>11. now' \in Nat
  BY <1>1, InvTypes
<1>12. QED BY <1>3, <1>4, <1>5, <1>6, <1>7, <1>8, <1>9, <1>10, <1>11, InvFromParts

LEMMA ReconcileInv ==
  ASSUME RegistryInv, NEW p \in PositionIds, ReconcileUnderDeliveredPosition(p)
  PROVE  RegistryInv'
<1>1. /\ positions[p].status = "Pending" /\ positions[p].value # 0
      /\ SetPendingExcess({p}, [q \in {p} |-> 0])
      /\ positions' = [positions EXCEPT ![p].status = "Active"]
      /\ UNCHANGED <<now, reservations, strategyPositions, openReservationCount>>
      /\ UNCHANGED countVars
  BY DEF ReconcileUnderDeliveredPosition, HasExpired
<1>2. /\ positions' \in [PositionIds -> Positions]
      /\ positions'[p].status = "Active" /\ positions'[p].value = positions[p].value
      /\ positions'[p].reservation = positions[p].reservation
      /\ positions'[p].chain = positions[p].chain /\ positions'[p].amount = positions[p].amount
      /\ \A o \in PositionIds \ {p} : positions'[o] = positions[o]
  BY <1>1, StatusChange
<1>3. strategyPositions' = {o \in PositionIds : positions'[o].status \in Live}
  BY <1>1, <1>2, InvRecords DEF Live, Booked
<1>4. \A o \in ReservationIds : ReservationAgrees(o, reservations', positions')
  BY <1>1, <1>2, InvRecords DEF ReservationAgrees, Live, Booked
<1>5. \A o \in PositionIds : PositionAgrees(o, reservations', positions')
  <2>1. positions[p].value \in Nat
    BY InvRecords DEF Positions
  <2>2. QED BY <1>1, <1>2, <2>1, InvRecords DEF PositionAgrees, Booked
<1>6. CountsFor(bridgedOut', bridgedOutByChain', reservations')
  BY <1>1, InvTypes, CountsKept
<1>7. ExcessFor(pendingObservedExcess', pendingObservedExcessByChain', positions')
  <2> DEFINE zero == [q \in {p} |-> 0]
  <2>1. zero[p] = 0 /\ SetPendingExcess({p}, zero)
    BY <1>1
  <2> HIDE DEF zero
  <2>2. \A o \in {p} : positions[o].status = "Pending" /\ positions'[o].chain = positions[o].chain
    BY <1>1, <1>2
  <2>3. \A o \in {p} : zero[o] =
          (IF positions'[o].status = "Pending" /\ positions'[o].value > positions'[o].amount
             THEN positions'[o].value - positions'[o].amount ELSE 0)
    BY <1>2, <2>1
  <2>4. {p} \in SUBSET PositionIds
    OBVIOUS
  <2>5. QED BY <1>2, <2>1, <2>2, <2>3, <2>4, ExcessSet
<1>8. openReservationCount' \in Nat /\ openReservationCount' = Cardinality(OpenIn(reservations'))
  BY <1>1, OpenKept
<1>9. now' \in Nat /\ reservations' \in [ReservationIds -> Reservations]
  BY <1>1, InvTypes
<1>10. QED BY <1>2, <1>3, <1>4, <1>5, <1>6, <1>7, <1>8, <1>9, InvFromParts

-----------------------------------------------------------------------------
(* A report: what a position becomes, and what a reservation becomes.      *)

LEMMA SyncedPositions ==
  ASSUME RegistryInv, NEW ids \in SUBSET PositionIds, NEW values \in [ids -> Values],
         SyncPositionsFromReport(values)
  PROVE  /\ positions' \in [PositionIds -> Positions]
         /\ \A p \in PositionIds :
              /\ positions'[p].reservation = positions[p].reservation
              /\ positions'[p].chain = positions[p].chain
              /\ positions'[p].amount = positions[p].amount
              /\ positions'[p].registeredAt = positions[p].registeredAt
              /\ p \in ids /\ Books(p, values[p]) =>
                   /\ positions'[p].value = values[p]
                   /\ positions'[p].status =
                        (IF Confirms(p, values[p]) THEN "Active" ELSE positions[p].status)
              /\ ~(p \in ids /\ Books(p, values[p])) => positions'[p] = positions[p]
<1> DEFINE new(p) == [positions[p] EXCEPT !.value = values[p],
                        !.status = IF Confirms(p, values[p]) THEN "Active" ELSE @]
<1>1. positions \in [PositionIds -> Positions] /\ DOMAIN values = ids
  BY InvTypes
<1>2. positions' = [p \in PositionIds |->
                      IF p \in ids /\ Books(p, values[p]) THEN new(p) ELSE positions[p]]
  BY <1>1 DEF SyncPositionsFromReport
<1>3. ASSUME NEW p \in ids
      PROVE  /\ new(p) \in Positions /\ new(p).value = values[p]
             /\ new(p).status = (IF Confirms(p, values[p]) THEN "Active" ELSE positions[p].status)
             /\ new(p).reservation = positions[p].reservation
             /\ new(p).chain = positions[p].chain /\ new(p).amount = positions[p].amount
             /\ new(p).registeredAt = positions[p].registeredAt
  <2>1. values[p] \in Nat
    BY RegistryConstants
  <2>2. positions[p] \in Positions
    BY <1>1
  <2>3. QED BY <2>1, <2>2 DEF Positions
<1> HIDE DEF new
<1>4. QED BY <1>1, <1>2, <1>3

(* A position that a report books and that is not pending afterwards.      *)
LEMMA SettledBySync ==
  ASSUME RegistryInv, NEW ids \in SUBSET PositionIds, NEW values \in [ids -> Values],
         SyncPositionsFromReport(values)
  PROVE  /\ SettledBy(values) \in SUBSET ReservationIds
         /\ \A r \in SettledBy(values) :
              /\ reservations[r].status = "Consumed"
              /\ reservations[r].position \in ids
              /\ Settles(reservations[r].position, values[reservations[r].position])
              /\ positions[reservations[r].position].reservation = r
         /\ \A p \in ids : Settles(p, values[p]) =>
              /\ positions[p].reservation \in SettledBy(values)
              /\ Books(p, values[p])
         /\ reservations' \in [ReservationIds -> Reservations]
         /\ \A r \in ReservationIds :
              /\ reservations'[r].chain = reservations[r].chain
              /\ reservations'[r].amount = reservations[r].amount
              /\ reservations'[r].position = reservations[r].position
         /\ \A r \in SettledBy(values) : reservations'[r].status = "Settled"
         /\ \A r \in ReservationIds \ SettledBy(values) : reservations'[r] = reservations[r]
<1>1. /\ reservations \in [ReservationIds -> Reservations] /\ DOMAIN values = ids
      /\ \A p \in PositionIds : PositionAgrees(p, reservations, positions)
  BY InvTypes, InvRecords
<1>2. \A r : r \in SettledBy(values) <=>
               \E p \in ids : Settles(p, values[p]) /\ positions[p].reservation = r
  BY <1>1 DEF SettledBy
<1>3. ASSUME NEW p \in ids, Settles(p, values[p])
      PROVE  /\ positions[p].reservation \in ReservationIds /\ Books(p, values[p])
             /\ reservations[positions[p].reservation].status = "Consumed"
             /\ reservations[positions[p].reservation].position = p
  BY <1>1, <1>3 DEF Settles, Books, Confirms, Booked, PositionAgrees
<1>4. /\ SettledBy(values) \in SUBSET ReservationIds
      /\ \A r \in SettledBy(values) :
           /\ reservations[r].status = "Consumed" /\ reservations[r].position \in ids
           /\ Settles(reservations[r].position, values[reservations[r].position])
           /\ positions[reservations[r].position].reservation = r
      /\ \A p \in ids : Settles(p, values[p]) =>
           positions[p].reservation \in SettledBy(values) /\ Books(p, values[p])
  BY <1>2, <1>3
<1>5. reservations' = [r \in ReservationIds |->
        IF r \in SettledBy(values) THEN [reservations[r] EXCEPT !.status = "Settled"]
                                   ELSE reservations[r]]
  BY DEF SyncPositionsFromReport
<1>6. ASSUME NEW r \in ReservationIds
      PROVE  LET new == [reservations[r] EXCEPT !.status = "Settled"]
             IN  /\ new \in Reservations /\ new.status = "Settled"
                 /\ new.chain = reservations[r].chain /\ new.amount = reservations[r].amount
                 /\ new.position = reservations[r].position
  BY <1>1 DEF Reservations
<1>7. QED BY <1>1, <1>4, <1>5, <1>6

LEMMA SyncInv ==
  ASSUME RegistryInv, NEW ids \in SUBSET PositionIds, NEW values \in [ids -> Values],
         SyncPositionsFromReport(values)
  PROVE  RegistryInv'
<1> DEFINE rs == SettledBy(values)
<1>1. /\ UncountReservations(rs)
      /\ UNCHANGED <<now, strategyPositions, openReservationCount>>
      /\ DOMAIN values = ids /\ \A p \in ids : values[p] \in Nat
  BY RegistryConstants DEF SyncPositionsFromReport
<1>2. /\ positions' \in [PositionIds -> Positions]
      /\ \A p \in PositionIds :
           /\ positions'[p].reservation = positions[p].reservation
           /\ positions'[p].chain = positions[p].chain
           /\ positions'[p].amount = positions[p].amount
           /\ p \in ids /\ Books(p, values[p]) =>
                /\ positions'[p].value = values[p]
                /\ positions'[p].status =
                     (IF Confirms(p, values[p]) THEN "Active" ELSE positions[p].status)
           /\ ~(p \in ids /\ Books(p, values[p])) => positions'[p] = positions[p]
  BY SyncedPositions
<1>3. /\ rs \in SUBSET ReservationIds
      /\ \A r \in rs :
           /\ reservations[r].status = "Consumed" /\ reservations[r].position \in ids
           /\ Settles(reservations[r].position, values[reservations[r].position])
           /\ positions[reservations[r].position].reservation = r
      /\ \A p \in ids : Settles(p, values[p]) =>
           positions[p].reservation \in rs /\ Books(p, values[p])
  <2>1. rs \in SUBSET ReservationIds
    BY SettledBySync
  <2>2. ASSUME NEW r \in rs
        PROVE  /\ reservations[r].status = "Consumed" /\ reservations[r].position \in ids
               /\ Settles(reservations[r].position, values[reservations[r].position])
               /\ positions[reservations[r].position].reservation = r
    <3>1. reservations[r].status = "Consumed" /\ reservations[r].position \in ids
      BY SettledBySync
    <3>2. Settles(reservations[r].position, values[reservations[r].position])
      BY SettledBySync, Zenon
    <3>3. positions[reservations[r].position].reservation = r
      BY SettledBySync
    <3>4. QED BY <3>1, <3>2, <3>3
  <2>3. ASSUME NEW p \in ids, Settles(p, values[p])
        PROVE  positions[p].reservation \in rs /\ Books(p, values[p])
    BY <2>3, SettledBySync
  <2> HIDE DEF rs
  <2>4. QED BY <2>1, <2>2, <2>3
<1>4. /\ reservations' \in [ReservationIds -> Reservations]
      /\ \A r \in ReservationIds :
           /\ reservations'[r].chain = reservations[r].chain
           /\ reservations'[r].amount = reservations[r].amount
           /\ reservations'[r].position = reservations[r].position
      /\ \A r \in rs : reservations'[r].status = "Settled"
      /\ \A r \in ReservationIds \ rs : reservations'[r] = reservations[r]
  BY SettledBySync
<1> HIDE DEF rs
<1>5. \A p \in PositionIds : positions'[p].status # positions[p].status =>
        /\ positions[p].status = "Pending" /\ positions'[p].status = "Active"
        /\ p \in ids /\ Confirms(p, values[p])
  BY <1>2 DEF Confirms
<1>6. strategyPositions' = {o \in PositionIds : positions'[o].status \in Live}
  BY <1>1, <1>5, InvRecords DEF Live, Booked
<1>7. ASSUME NEW r \in ReservationIds
      PROVE  ReservationAgrees(r, reservations', positions')
  <2>1. ReservationAgrees(r, reservations, positions)
    BY InvRecords
  <2>2. CASE r \in rs
    BY <1>3, <1>4, <2>1, <2>2 DEF ReservationAgrees
  <2>3. CASE r \notin rs
    BY <1>2, <1>4, <1>5, <2>1, <2>3 DEF ReservationAgrees, Live, Booked
  <2>4. QED BY <2>2, <2>3
<1>8. ASSUME NEW p \in PositionIds
      PROVE  PositionAgrees(p, reservations', positions')
  <2> DEFINE r == positions[p].reservation
  <2>1. PositionAgrees(p, reservations, positions) /\ positions'[p].reservation = r
    BY <1>2, InvRecords
  <2>2. positions'[p].status # "None" =>
          /\ r \in ReservationIds /\ reservations'[r].status # "None"
          /\ positions'[p].chain \in Chains /\ positions'[p].chain = reservations'[r].chain
          /\ positions'[p].amount = reservations'[r].amount
    <3>1. positions'[p].status # "None" => positions[p].status # "None"
      BY <1>5
    <3>2. QED BY <1>2, <1>4, <2>1, <3>1 DEF PositionAgrees
  <2>3. positions'[p].status = "Pending" =>
          reservations'[r].status = "Consumed" /\ reservations'[r].position = p
    <3>1. SUFFICES ASSUME positions'[p].status = "Pending"
                   PROVE  reservations'[r].status = "Consumed" /\ reservations'[r].position = p
      OBVIOUS
    <3>2. positions[p].status = "Pending"
      BY <1>5, <3>1
    <3>3. /\ r \in ReservationIds /\ reservations[r].status = "Consumed"
          /\ reservations[r].position = p
      BY <2>1, <3>2 DEF PositionAgrees
    <3>4. ASSUME p \in ids PROVE ~Confirms(p, values[p])
      BY <1>2, <3>1, <3>2, <3>4 DEF Books, Confirms
    <3>5. r \notin rs
      BY <1>3, <3>2, <3>3, <3>4 DEF Settles, Booked
    <3>6. QED BY <1>4, <3>3, <3>5
  <2>4. positions'[p].status \in Booked =>
          /\ reservations'[r].status \in {"Consumed", "Settled"} /\ reservations'[r].position = p
          /\ reservations'[r].status = "Consumed" => positions'[p].value > 0
    <3>1. SUFFICES ASSUME positions'[p].status \in Booked
                   PROVE  /\ reservations'[r].status \in {"Consumed", "Settled"}
                          /\ reservations'[r].position = p
                          /\ reservations'[r].status = "Consumed" => positions'[p].value > 0
      OBVIOUS
    <3>2. positions[p].status \in Booked \cup {"Pending"}
      BY <1>5, <3>1
    <3>3. /\ r \in ReservationIds /\ reservations[r].status \in {"Consumed", "Settled"}
          /\ reservations[r].position = p
      BY <2>1, <3>2 DEF PositionAgrees, Booked
    <3>4. /\ reservations'[r].status \in {"Consumed", "Settled"}
          /\ reservations'[r].position = p
      BY <1>4, <3>3
    <3>5. ASSUME reservations'[r].status = "Consumed" PROVE positions'[p].value > 0
      <4>1. r \notin rs /\ reservations[r].status = "Consumed"
        BY <1>4, <3>3, <3>5
      <4>2. p \in ids => ~Settles(p, values[p])
        BY <1>3, <4>1
      <4>3. ~(p \in ids /\ positions[p].status \in Booked)
        BY <4>1, <4>2 DEF Settles
      <4>4. ~(p \in ids /\ Confirms(p, values[p]))
        BY <4>1, <4>2 DEF Settles
      <4>5. positions'[p].status = positions[p].status
        BY <1>5, <4>4
      <4>6. positions[p].status \in Booked /\ p \notin ids
        BY <3>1, <4>3, <4>5
      <4>7. positions'[p] = positions[p] /\ positions[p].value > 0
        BY <1>2, <2>1, <4>1, <4>6 DEF PositionAgrees
      <4>8. QED BY <4>7
    <3>6. QED BY <3>4, <3>5
  <2> HIDE DEF r
  <2>5. QED BY <2>1, <2>2, <2>3, <2>4 DEF PositionAgrees
<1>9. CountsFor(bridgedOut', bridgedOutByChain', reservations')
  <2>1. \A o \in rs : /\ reservations[o].status \in {"Open", "Consumed"}
                      /\ reservations'[o].status \notin {"Open", "Consumed"}
    BY <1>3, <1>4
  <2>2. QED BY <1>1, <1>3, <1>4, <2>1, CountsLess
<1>10. ExcessFor(pendingObservedExcess', pendingObservedExcessByChain', positions')
  <2> DEFINE ps == {p \in ids : positions[p].status = "Pending" /\ values[p] > 0}
             new == [p \in ps |-> IF Confirms(p, values[p]) THEN 0 ELSE Excess(p, values[p])]
  <2>1. SetPendingExcess(ps, new)
    BY <1>1 DEF SyncPositionsFromReport
  <2>2. ps \in SUBSET PositionIds
    OBVIOUS
  <2>3. \A p \in ps : positions[p].status = "Pending" /\ positions'[p].chain = positions[p].chain
    BY <1>2
  <2>4. \A p \in ps : new[p] =
          (IF positions'[p].status = "Pending" /\ positions'[p].value > positions'[p].amount
             THEN positions'[p].value - positions'[p].amount ELSE 0)
    <3>1. TAKE p \in ps
    <3>2. /\ positions[p].status = "Pending" /\ positions'[p].value = values[p]
          /\ positions'[p].amount = positions[p].amount
          /\ positions'[p].status = (IF Confirms(p, values[p]) THEN "Active" ELSE "Pending")
      BY <1>2 DEF Books
    <3>3. new[p] = (IF Confirms(p, values[p]) THEN 0
                    ELSE IF values[p] > positions[p].amount THEN values[p] - positions[p].amount
                    ELSE 0)
      BY DEF Excess
    <3> HIDE DEF new, ps
    <3>4. QED BY <3>2, <3>3
  <2>5. \A p \in PositionIds \ ps :
          positions'[p] = positions[p] \/ (positions[p].status # "Pending" /\ positions'[p].status # "Pending")
    <3>1. TAKE p \in PositionIds \ ps
    <3>2. CASE positions[p].status # "Pending"
      BY <1>5, <3>2
    <3>3. CASE positions[p].status = "Pending"
      BY <1>2, <3>3 DEF Books, Booked
    <3>4. QED BY <3>2, <3>3
  <2> HIDE DEF ps, new
  <2>6. QED BY <1>2, <2>1, <2>2, <2>3, <2>4, <2>5, ExcessSet
<1>11. openReservationCount' \in Nat /\ openReservationCount' = Cardinality(OpenIn(reservations'))
  BY <1>1, <1>3, <1>4, OpenKept
<1>12. now' \in Nat
  BY <1>1, InvTypes
<1>13. QED BY <1>2, <1>4, <1>6, <1>7, <1>8, <1>9, <1>10, <1>11, <1>12, InvFromParts

-----------------------------------------------------------------------------
(* The invariant.                                                          *)

LEMMA RegistryInitInv == RegistryInit => RegistryInv
<1> SUFFICES ASSUME RegistryInit PROVE RegistryInv
  OBVIOUS
<1>1. /\ now = 1 /\ strategyPositions = {} /\ bridgedOut = 0 /\ openReservationCount = 0
      /\ bridgedOutByChain = [c \in Chains |-> 0]
      /\ pendingObservedExcess = 0 /\ pendingObservedExcessByChain = [c \in Chains |-> 0]
      /\ \A r \in ReservationIds : reservations[r].status = "None"
      /\ \A p \in PositionIds : positions[p].status = "None"
  BY DEF RegistryInit, NoReservation, NoPosition
<1>2. RegistryTypeOK
  <2>1. NoReservation \in Reservations /\ NoPosition \in Positions
    BY DEF NoReservation, NoPosition, Reservations, Positions
  <2>2. QED BY <1>1, <2>1 DEF RegistryInit, RegistryTypeOK
<1>3. RecordsAgree
  BY <1>1 DEF RecordsAgree, ReservationAgrees, PositionAgrees, Live, Booked
<1>4. ReservationsCounted
  <2>1. \A chains : SumOver(CountedIn(reservations, chains), ReservationIds) = 0
    <3>1. TAKE chains
    <3>2. \A r \in ReservationIds : CountedIn(reservations, chains)[r] = 0
      BY <1>1 DEF CountedIn
    <3>3. QED BY <3>2, SumZero
  <2>2. QED BY <1>1, <2>1 DEF ReservationsCounted
<1>5. ExcessCounted
  <2>1. \A chains : SumOver(ExcessIn(positions, chains), PositionIds) = 0
    <3>1. TAKE chains
    <3>2. \A p \in PositionIds : ExcessIn(positions, chains)[p] = 0
      BY <1>1 DEF ExcessIn
    <3>3. QED BY <3>2, SumZero
  <2>2. QED BY <1>1, <2>1 DEF ExcessCounted
<1>6. OpenCounted
  <2>1. OpenIn(reservations) = {}
    BY <1>1 DEF OpenIn
  <2>2. QED BY <1>1, <2>1, FS_EmptySet DEF OpenCounted
<1>7. QED BY <1>2, <1>3, <1>4, <1>5, <1>6 DEF RegistryInv

(* Whatever leaves the records and the counters alone, the clock running   *)
(* or not.                                                                 *)
LEMMA RecordsKeptInv ==
  ASSUME RegistryInv, now' \in Nat,
         UNCHANGED <<reservations, positions, strategyPositions, openReservationCount>>,
         UNCHANGED countVars, UNCHANGED excessVars
  PROVE  RegistryInv'
BY DEF RegistryInv, RegistryTypeOK, RecordsAgree, ReservationsCounted, ExcessCounted, OpenCounted,
       countVars, excessVars

LEMMA RegistryNextInv == RegistryInv /\ [RegistryNext]_registryVars => RegistryInv'
<1> SUFFICES ASSUME RegistryInv, [RegistryNext]_registryVars PROVE RegistryInv'
  OBVIOUS
<1>1. ASSUME NEW r \in ReservationIds, NEW p \in PositionIds, RegisterPosition(r, p)
      PROVE  RegistryInv'
  BY <1>1, RegisterPositionInv
<1>2. ASSUME NEW p \in PositionIds, BeginPositionExit(p) PROVE RegistryInv'
  BY <1>2, BeginPositionExitInv
<1>3. ASSUME NEW p \in PositionIds, DeregisterPosition(p) PROVE RegistryInv'
  BY <1>3, DeregisterPositionInv
<1>4. ASSUME NEW r \in ReservationIds, ReleaseExpiredReservation(r) PROVE RegistryInv'
  BY <1>4, ReleaseExpiredReservationInv
<1>5. ASSUME NEW p \in PositionIds, InvalidateExpiredPending(p) PROVE RegistryInv'
  BY <1>5, InvalidateExpiredPendingInv
<1>6. ASSUME NEW p \in PositionIds, ReconcileUnderDeliveredPosition(p) PROVE RegistryInv'
  BY <1>6, ReconcileInv
<1>7. ASSUME Tick PROVE RegistryInv'
  BY <1>7, InvTypes, RecordsKeptInv DEF Tick
<1>8. ASSUME NEW r \in ReservationIds, NEW c \in Chains, NEW a \in Amounts, RecordBridgedOut(r, c, a)
      PROVE  RegistryInv'
  BY <1>8, RecordBridgedOutInv
<1>9. ASSUME NEW ids \in SUBSET PositionIds, NEW values \in [ids -> Values],
             SyncPositionsFromReport(values)
      PROVE  RegistryInv'
  BY <1>9, SyncInv
<1>10. ASSUME UNCHANGED registryVars PROVE RegistryInv'
  BY <1>10, InvTypes, RecordsKeptInv DEF registryVars, countVars, excessVars
<1>11. QED BY <1>1, <1>2, <1>3, <1>4, <1>5, <1>6, <1>7, <1>8, <1>9, <1>10
           DEF RegistryNext, RegistrarStep, GovernanceStep

(* Whatever the cap hook sends and whatever the oracle reports, each       *)
(* counter of the registry is the sum over the records it stands for, in   *)
(* total and on every chain, the live set holds the live positions, and a  *)
(* reservation counts until its position has been booked.                  *)
THEOREM RegistryCounts == RegistrySpec => []RegistryInv
BY RegistryInitInv, RegistryNextInv, PTL DEF RegistrySpec

-----------------------------------------------------------------------------
(* The limit of positions.                                                 *)

LEMMA PlacesType ==
  ASSUME RegistryInv
  PROVE  /\ IsFiniteSet(strategyPositions) /\ Cardinality(strategyPositions) \in Nat
         /\ openReservationCount \in Nat /\ MAX_POSITIONS_PER_STRATEGY \in Nat
<1>1. IsFiniteSet(strategyPositions)
  BY InvTypes, RegistryConstants, FS_Subset
<1>2. QED BY <1>1, InvTypes, RegistryAssumption, FS_CardinalityType

(* What each step does to the number of live positions and to the number   *)
(* of open reservations: the two grow together only by a send below the    *)
(* limit, and by a late fill.                                              *)
LEMMA PlacesStep ==
  ASSUME RegistryInv, [RegistryNext]_registryVars, openReservationCount' \in Nat
  PROVE  LET n == Cardinality(strategyPositions)
             m == Cardinality(strategyPositions')
             o == openReservationCount
             q == openReservationCount'
             max == MAX_POSITIONS_PER_STRATEGY
         IN  /\ m \in Nat
             /\ m <= n \/ (m <= n + 1 /\ n < max)
             /\ m + q <= n + o \/ (m + q = n + o + 1 /\ n + o < max)
                \/ \E r \in ReservationIds : LateFill(r)
<1> PICK n, m, o, q, max : /\ n = Cardinality(strategyPositions)
                           /\ m = Cardinality(strategyPositions')
                           /\ o = openReservationCount /\ q = openReservationCount'
                           /\ max = MAX_POSITIONS_PER_STRATEGY
  OBVIOUS
<1>1. n \in Nat /\ o \in Nat /\ q \in Nat /\ max \in Nat
  BY PlacesType
<1>2. IsFiniteSet(strategyPositions)
  BY PlacesType
<1> DEFINE Late == \E r \in ReservationIds : LateFill(r)
           Live1 == m <= n \/ (m <= n + 1 /\ n < max)
           Fits == m + q <= n + o \/ (m + q = n + o + 1 /\ n + o < max)
           Goal == m \in Nat /\ Live1 /\ (Fits \/ Late)
<1> SUFFICES Goal
  OBVIOUS
<1>3. ASSUME m = n, q \in {o, o - 1} PROVE Goal
  <2>1. m \in Nat /\ Live1
    BY <1>1, <1>3
  <2>2. Fits
    BY <1>1, <1>3
  <2>3. QED BY <2>1, <2>2
<1>4. ASSUME NEW p, strategyPositions' = strategyPositions \ {p}, q = o PROVE Goal
  <2>1. strategyPositions \ {p} \subseteq strategyPositions
    OBVIOUS
  <2>2. /\ Cardinality(strategyPositions \ {p}) <= Cardinality(strategyPositions)
        /\ IsFiniteSet(strategyPositions \ {p})
    BY <1>2, <2>1, FS_Subset
  <2>3. Cardinality(strategyPositions \ {p}) \in Nat
    BY <2>2, FS_CardinalityType
  <2>4. m \in Nat /\ m <= n
    BY <1>4, <2>2, <2>3
  <2>5. Live1 /\ Fits
    BY <1>1, <1>4, <2>4
  <2>6. QED BY <2>4, <2>5
<1>5. ASSUME NEW r \in ReservationIds, NEW p \in PositionIds, RegisterPosition(r, p) PROVE Goal
  <2>1. strategyPositions' = strategyPositions \cup {p} /\ n < max
    BY <1>5 DEF RegisterPosition
  <2>2. m = n \/ m = n + 1
    <3>1. \/ Cardinality(strategyPositions \cup {p}) = Cardinality(strategyPositions)
          \/ Cardinality(strategyPositions \cup {p}) = Cardinality(strategyPositions) + 1
      BY <1>2, FS_AddElement
    <3>2. QED BY <2>1, <3>1
  <2>3. m \in Nat /\ Live1
    BY <1>1, <2>1, <2>2
  <2>4. CASE reservations[r].status = "Open"
    <3>1. q = o - 1
      BY <1>5, <2>4 DEF RegisterPosition
    <3>2. Fits
      BY <1>1, <2>2, <3>1
    <3>3. QED BY <2>3, <3>2
  <2>5. CASE reservations[r].status = "Released"
    <3>1. reservations' = [reservations EXCEPT ![r].status = "Consumed", ![r].position = p]
      BY <1>5 DEF RegisterPosition
    <3>2. reservations \in [ReservationIds -> Reservations]
      BY InvTypes
    <3>3. reservations'[r].status = "Consumed"
      BY <3>1, <3>2 DEF Reservations
    <3>4. Late
      BY <2>5, <3>3 DEF LateFill
    <3>5. QED BY <2>3, <3>4
  <2>6. QED BY <1>5, <2>4, <2>5 DEF RegisterPosition
<1>6. ASSUME NEW r \in ReservationIds, NEW c \in Chains, NEW a \in Amounts, RecordBridgedOut(r, c, a)
      PROVE  Goal
  <2>1. m = n /\ q = o + 1 /\ n + o < max
    BY <1>6 DEF RecordBridgedOut
  <2>2. m \in Nat /\ Live1
    BY <1>1, <2>1
  <2>3. Fits
    BY <1>1, <2>1
  <2>4. QED BY <2>2, <2>3
<1>7. CASE RegistrarStep
  <2>1. ASSUME NEW p \in PositionIds, BeginPositionExit(p) PROVE Goal
    <3>1. m = n /\ q = o
      BY <2>1 DEF BeginPositionExit
    <3>2. QED BY <1>3, <3>1
  <2>2. ASSUME NEW p \in PositionIds, DeregisterPosition(p) PROVE Goal
    <3>1. strategyPositions' = strategyPositions \ {p} /\ q = o
      BY <2>2 DEF DeregisterPosition
    <3>2. QED BY <1>4, <3>1
  <2>3. QED BY <1>5, <1>7, <2>1, <2>2 DEF RegistrarStep
<1>8. CASE GovernanceStep
  <2>1. ASSUME NEW r \in ReservationIds, ReleaseExpiredReservation(r) PROVE Goal
    <3>1. m = n /\ q = o - 1
      BY <2>1 DEF ReleaseExpiredReservation
    <3>2. QED BY <1>3, <3>1
  <2>2. ASSUME NEW p \in PositionIds, InvalidateExpiredPending(p) PROVE Goal
    <3>1. strategyPositions' = strategyPositions \ {p} /\ q = o
      BY <2>2 DEF InvalidateExpiredPending
    <3>2. QED BY <1>4, <3>1
  <2>3. ASSUME NEW p \in PositionIds, ReconcileUnderDeliveredPosition(p) PROVE Goal
    <3>1. m = n /\ q = o
      BY <2>3 DEF ReconcileUnderDeliveredPosition
    <3>2. QED BY <1>3, <3>1
  <2>4. QED BY <1>8, <2>1, <2>2, <2>3 DEF GovernanceStep
<1>9. CASE Tick \/ UNCHANGED registryVars
  <2>1. m = n /\ q = o
    BY <1>9 DEF Tick, registryVars
  <2>2. QED BY <1>3, <2>1
<1>10. ASSUME NEW ids \in SUBSET PositionIds, NEW values \in [ids -> Values],
              SyncPositionsFromReport(values)
       PROVE  Goal
  <2>1. m = n /\ q = o
    BY <1>10 DEF SyncPositionsFromReport
  <2>2. QED BY <1>3, <2>1
<1> HIDE DEF Goal
<1>11. CASE \E r \in ReservationIds, c \in Chains, a \in Amounts : RecordBridgedOut(r, c, a)
  BY <1>6, <1>11
<1>12. CASE \E ids \in SUBSET PositionIds :
              \E values \in [ids -> Values] : SyncPositionsFromReport(values)
  BY <1>10, <1>12
<1>13. QED
  BY <1>7, <1>8, <1>9, <1>11, <1>12 DEF RegistryNext

(* No sequence of sends, registrations, reports and exits makes the set of *)
(* live positions, over which every report loops, larger than its limit.   *)
THEOREM PositionsFit == RegistrySpec => []PositionsWithinLimit
<1>1. RegistryInit => PositionsWithinLimit
  BY RegistryAssumption, FS_EmptySet DEF RegistryInit, PositionsWithinLimit
<1>2. ASSUME RegistryInv, RegistryInv', PositionsWithinLimit, [RegistryNext]_registryVars
      PROVE  PositionsWithinLimit'
  <2>1. openReservationCount' \in Nat
    BY <1>2 DEF RegistryInv, RegistryTypeOK
  <2>2. /\ Cardinality(strategyPositions') \in Nat
        /\ \/ Cardinality(strategyPositions') <= Cardinality(strategyPositions)
           \/ /\ Cardinality(strategyPositions') <= Cardinality(strategyPositions) + 1
              /\ Cardinality(strategyPositions) < MAX_POSITIONS_PER_STRATEGY
    BY <1>2, <2>1, PlacesStep
  <2>3. QED BY <1>2, <2>2, PlacesType DEF PositionsWithinLimit
<1>3. QED BY <1>1, <1>2, RegistryCounts, PTL DEF RegistrySpec

(* Positions and open reservations together take more places than the      *)
(* limit has only by late fills, of transfers that had been given up.      *)
THEOREM LateFillsCrowd == RegistrySpec => OnlyLateFillsCrowd
<1> DEFINE Kept == PlacesTaken' > PlacesTaken /\ PlacesTaken' > MAX_POSITIONS_PER_STRATEGY =>
                     \E r \in ReservationIds : LateFill(r)
<1>1. ASSUME RegistryInv, RegistryInv', [RegistryNext]_registryVars PROVE [Kept]_registryVars
  <2>1. openReservationCount' \in Nat
    BY <1>1 DEF RegistryInv, RegistryTypeOK
  <2>2. /\ Cardinality(strategyPositions') \in Nat
        /\ \/ PlacesTaken' <= PlacesTaken
           \/ PlacesTaken' = PlacesTaken + 1 /\ PlacesTaken < MAX_POSITIONS_PER_STRATEGY
           \/ \E r \in ReservationIds : LateFill(r)
    BY <1>1, <2>1, PlacesStep DEF PlacesTaken
  <2>3. PlacesTaken \in Nat /\ PlacesTaken' \in Nat /\ MAX_POSITIONS_PER_STRATEGY \in Nat
    BY <1>1, <2>1, <2>2, PlacesType DEF PlacesTaken
  <2>4. Kept
    BY <2>2, <2>3
  <2>5. QED BY <2>4
<1>2. QED BY <1>1, RegistryCounts, PTL DEF RegistrySpec, OnlyLateFillsCrowd
=============================================================================
