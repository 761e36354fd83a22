----------------------- MODULE ValidatorBonding_proofs -----------------------
(***************************************************************************)
(* Type correctness of ValidatorBonding, the backing of bonds, the         *)
(* consistency of requests and of the registry, and what slashes, exits,   *)
(* beneficiaries and changes of parameters may do, for every set of        *)
(* operators and every value of the parameters.                            *)
(***************************************************************************)
EXTENDS ValidatorBonding, Arithmetic_proofs

(* The inductive invariant.  A request is within its bond only because a   *)
(* slash takes its share rounded up, and a new bond starts without one     *)
(* only because a record without tokens has none.                          *)
IInv ==
  /\ TypeOK
  /\ BondsBacked
  /\ RequestConsistent
  /\ RegistryMatchesStatus

(* What the invariant says of one record and its place in the registry.    *)
SoundBond(bond, member) ==
  /\ bond \in BondRecord
  /\ bond.amount > 0 => bond.beneficiary \in Accounts
  /\ bond.unbondingAmount <= bond.amount
  /\ bond.unbondingDeadline > 0 <=> bond.unbondingAmount > 0
  /\ member <=> bond.status # "Unbonded"
  /\ member => bond.amount > 0

LEMMA BondsSound ==
  ASSUME IInv, NEW op \in Operators
  PROVE  SoundBond(bonds[op], op \in operators)
  BY DEF IInv, TypeOK, RequestConsistent, RegistryMatchesStatus, SoundBond

(* The parameters are positive.                                            *)
LEMMA ParameterTypes ==
  ASSUME IInv
  PROVE  /\ minimumBond \in Nat \ {0} /\ unbondingPeriod \in Nat \ {0}
         /\ parameterTimelock \in Nat \ {0} /\ now \in Nat \ {0} /\ tokens \in Nat
  BY DEF IInv, TypeOK, minimumBond, unbondingPeriod, parameterTimelock, ParameterKeys

(* A bond that changes its amount changes the sum of the bonds by as much. *)
LEMMA BondSum ==
  ASSUME NEW f \in [Operators -> BondRecord], NEW op \in Operators, NEW r \in BondRecord
  PROVE  LET before == [o \in Operators |-> f[o].amount]
             after  == [o \in Operators |-> [f EXCEPT ![op] = r][o].amount]
         IN  /\ SumOver(after, Operators) = SumOver(before, Operators) - f[op].amount + r.amount
             /\ SumOver(before, Operators) \in Nat
             /\ f[op].amount <= SumOver(before, Operators)
<1> DEFINE before == [o \in Operators |-> f[o].amount]
           after  == [o \in Operators |-> [f EXCEPT ![op] = r][o].amount]
<1>1. /\ \A o \in Operators : before[o] \in Nat /\ after[o] \in Nat
      /\ \A o \in Operators \ {op} : after[o] = before[o]
      /\ before[op] = f[op].amount /\ after[op] = r.amount
  BY DEF BondRecord
<1> HIDE DEF before, after
<1>2. IsFiniteSet(Operators)
  BY BondingAssumption
<1>3. SumOver(after, Operators) = SumOver(before, Operators) - before[op] + after[op]
  <2>1. \A o \in Operators : before[o] \in Nat
    BY <1>1
  <2>2. \A o \in Operators : after[o] \in Nat
    BY <1>1
  <2>3. \A o \in Operators \ {op} : after[o] = before[o]
    BY <1>1
  <2>4. QED BY <1>2, <2>1, <2>2, <2>3, SumUpdate
<1>4. SumOver(before, Operators) \in Nat /\ before[op] <= SumOver(before, Operators)
  BY <1>1, <1>2, SumType, SumMember
<1>5. QED BY <1>1, <1>3, <1>4 DEF before, after

(* No bond is more than what the contract holds.                           *)
LEMMA BondHeld ==
  ASSUME IInv, NEW op \in Operators
  PROVE  bonds[op].amount \in Nat /\ bonds[op].amount <= tokens
<1>1. bonds \in [Operators -> BondRecord] /\ bonds[op] \in BondRecord
  BY DEF IInv, TypeOK
<1>2. bonds[op].amount <= SumOver(BondAmounts, Operators)
  BY <1>1, BondSum DEF BondAmounts
<1>3. QED BY <1>1, <1>2 DEF IInv, BondsBacked, BondRecord

(* One record is replaced by a sound one and the tokens move with it.      *)
LEMMA BondStepInv ==
  ASSUME IInv, NEW op \in Operators, NEW r, NEW member \in BOOLEAN,
         SetBond(op, r, member), SoundBond(r, member),
         tokens' \in Nat, tokens' = tokens - bonds[op].amount + r.amount,
         approvals' \in [Operators -> Approval],
         UNCHANGED <<now, parameters, pending>>
  PROVE  IInv'
<1>1. bonds \in [Operators -> BondRecord] /\ operators \subseteq Operators
  BY DEF IInv, TypeOK
<1>2. r \in BondRecord
  BY DEF SoundBond
<1>3. /\ bonds' = [bonds EXCEPT ![op] = r]
      /\ bonds'[op] = r /\ \A o \in Operators \ {op} : bonds'[o] = bonds[o]
      /\ bonds' \in [Operators -> BondRecord]
  BY <1>1, <1>2 DEF SetBond
<1>4. /\ op \in operators' <=> member
      /\ \A o \in Operators \ {op} : o \in operators' <=> o \in operators
      /\ operators' \subseteq Operators
  BY <1>1 DEF SetBond
<1>5. \A o \in Operators : SoundBond(bonds'[o], o \in operators')
  <2> SUFFICES ASSUME NEW o \in Operators
               PROVE  SoundBond(bonds'[o], o \in operators')
    OBVIOUS
  <2>1. CASE o = op
    BY <1>3, <1>4, <2>1 DEF SoundBond
  <2>2. CASE o # op
    BY <1>3, <1>4, <2>2, BondsSound DEF SoundBond
  <2>3. QED BY <2>1, <2>2
<1>6. TypeOK'
  BY <1>3, <1>4, <1>5 DEF IInv, TypeOK, SoundBond
<1>7. BondsBacked'
  <2>1. /\ SumOver(BondAmounts', Operators) =
             SumOver(BondAmounts, Operators) - bonds[op].amount + r.amount
    BY <1>1, <1>2, <1>3, BondSum DEF BondAmounts
  <2>2. QED BY <2>1 DEF IInv, BondsBacked
<1>8. RequestConsistent' /\ RegistryMatchesStatus'
  BY <1>5 DEF RequestConsistent, RegistryMatchesStatus, SoundBond
<1>9. QED BY <1>6, <1>7, <1>8 DEF IInv

(* A step that touches neither bonds, registry nor tokens.                 *)
LEMMA OtherStepInv ==
  ASSUME IInv, UNCHANGED <<bonds, operators, tokens>>,
         now' \in Nat \ {0}, approvals' \in [Operators -> Approval],
         parameters' \in [ParameterKeys -> Nat \ {0}],
         pending' \in [ParameterKeys -> [value : Nat, effectiveTime : Nat]],
         \A key \in ParameterKeys : pending'[key].effectiveTime > 0 => pending'[key].value > 0
  PROVE  IInv'
<1>1. TypeOK'
  BY DEF IInv, TypeOK
<1>2. QED BY <1>1 DEF IInv, BondsBacked, BondAmounts, RequestConsistent, RegistryMatchesStatus

-----------------------------------------------------------------------------
(* Bonding.                                                                *)

LEMMA BondingInv ==
  ASSUME IInv, NEW op \in Operators, NEW amount \in Amounts, NEW beneficiary \in Accounts,
         Bonding(op, amount, beneficiary), approvals' \in [Operators -> Approval]
  PROVE  IInv'
<1> DEFINE r == [bonds[op] EXCEPT !.amount = amount, !.beneficiary = beneficiary,
                                  !.status = "Bonded", !.unbondingDeadline = 0]
<1>1. SoundBond(bonds[op], op \in operators) /\ bonds[op].amount = 0
  BY BondsSound DEF Bonding, MayBond
<1>2. amount \in Nat \ {0}
  BY BondingAssumption DEF Amounts
<1>3. SoundBond(r, TRUE)
  <2>1. bonds[op] \in BondRecord /\ bonds[op].unbondingAmount = 0
    BY <1>1 DEF SoundBond, BondRecord
  <2>2. /\ r \in BondRecord /\ r.amount = amount /\ r.beneficiary = beneficiary
        /\ r.status = "Bonded" /\ r.unbondingAmount = 0 /\ r.unbondingDeadline = 0
    BY <1>2, <2>1 DEF BondRecord
  <2> HIDE DEF r
  <2>3. QED BY <1>2, <2>2 DEF SoundBond
<1>4. /\ SetBond(op, r, TRUE) /\ tokens' = tokens + amount /\ r.amount = amount
      /\ UNCHANGED <<now, parameters, pending>>
  BY <1>1 DEF Bonding, Receive, SoundBond, BondRecord
<1> HIDE DEF r
<1>5. tokens' = tokens - bonds[op].amount + r.amount /\ tokens' \in Nat
  BY <1>1, <1>2, <1>4, ParameterTypes
<1>6. QED BY <1>3, <1>4, <1>5, BondStepInv

LEMMA ApprovalType ==
  ASSUME IInv, NEW op \in Operators, NEW a \in Approval
  PROVE  [approvals EXCEPT ![op] = a] \in [Operators -> Approval]
  BY DEF IInv, TypeOK

LEMMA NoApprovalType == NoApproval \in Approval
  BY DEF NoApproval, Approval

LEMMA BondInv ==
  ASSUME IInv, NEW op \in Operators, NEW amount \in Amounts, NEW beneficiary \in Accounts,
         Bond(op, amount, beneficiary) \/ \E bonder \in Accounts :
                                            BondFor(bonder, op, amount, beneficiary)
  PROVE  IInv'
<1>1. Bonding(op, amount, beneficiary)
  BY DEF Bond, BondFor
<1>2. approvals' \in [Operators -> Approval]
  BY ApprovalType, NoApprovalType DEF Bond, BondFor, IInv, TypeOK
<1>3. QED BY <1>1, <1>2, BondingInv

LEMMA ApprovalStepInv ==
  ASSUME IInv, NEW op \in Operators,
         RevokeBondForApproval(op) \/ \E bonder, beneficiary \in Accounts :
                                        ApproveBondFor(op, bonder, beneficiary)
  PROVE  IInv'
<1>1. approvals' \in [Operators -> Approval]
  <2>1. CASE RevokeBondForApproval(op)
    BY <2>1, ApprovalType, NoApprovalType DEF RevokeBondForApproval
  <2>2. ASSUME NEW bonder \in Accounts, NEW beneficiary \in Accounts,
               ApproveBondFor(op, bonder, beneficiary)
        PROVE  approvals' \in [Operators -> Approval]
    <3>1. [bonder |-> bonder, beneficiary |-> beneficiary] \in Approval
      BY DEF Approval
    <3>2. QED BY <2>2, <3>1, ApprovalType DEF ApproveBondFor
  <2>3. QED BY <2>1, <2>2
<1>2. UNCHANGED <<bonds, operators, tokens>> /\ UNCHANGED <<now, parameters, pending>>
  BY DEF RevokeBondForApproval, ApproveBondFor
<1>3. QED BY <1>1, <1>2, OtherStepInv DEF IInv, TypeOK

LEMMA AddBondInv ==
  ASSUME IInv, NEW caller, NEW op \in Operators, NEW amount \in Amounts,
         AddBond(caller, op, amount)
  PROVE  IInv'
<1> DEFINE bond    == bonds[op]
           revived == HasResidual(op) /\ bond.amount + amount >= minimumBond
           status  == IF revived THEN "Bonded" ELSE bond.status
           total   == bond.amount + amount
           r       == [bond EXCEPT !.amount = total, !.status = status]
           member  == op \in operators \/ revived
<1>1. /\ SoundBond(bond, op \in operators)
      /\ bond.status \in {"Bonded", "Unbonding"} \/ HasResidual(op)
  BY BondsSound DEF AddBond
<1>2. amount \in Nat \ {0} /\ bond \in BondRecord /\ bond.amount \in Nat /\ total \in Nat
  BY <1>1, BondingAssumption DEF Amounts, SoundBond, BondRecord
<1>3. /\ SetBond(op, r, member) /\ tokens' = tokens + amount
      /\ UNCHANGED <<now, approvals, parameters, pending>>
  BY DEF AddBond, Receive
<1>4. status \in {"Unbonded", "Bonded", "Unbonding"} /\ (member <=> status # "Unbonded")
  BY <1>1, <1>2 DEF SoundBond, BondRecord, HasResidual
<1>5. bond.amount > 0 /\ bond.beneficiary \in Accounts
  BY <1>1, <1>2 DEF SoundBond, HasResidual
<1>6. SoundBond(r, member)
  <2>1. /\ r \in BondRecord /\ r.amount = total /\ r.status = status
        /\ r.beneficiary = bond.beneficiary /\ r.unbondingAmount = bond.unbondingAmount
        /\ r.unbondingDeadline = bond.unbondingDeadline
    BY <1>2, <1>4 DEF BondRecord
  <2>2. /\ bond.unbondingAmount \in Nat /\ bond.unbondingAmount <= bond.amount
        /\ bond.unbondingDeadline > 0 <=> bond.unbondingAmount > 0
    BY <1>1, <1>2 DEF SoundBond, BondRecord
  <2>3. total = bond.amount + amount
    OBVIOUS
  <2> HIDE DEF r, total, status, member
  <2>4. QED BY <1>2, <1>4, <1>5, <2>1, <2>2, <2>3 DEF SoundBond
<1>7. tokens' = tokens - bonds[op].amount + r.amount /\ tokens' \in Nat
  <2>1. r.amount = bond.amount + amount
    BY <1>2 DEF BondRecord
  <2> HIDE DEF r
  <2>2. QED BY <1>2, <1>3, <2>1, ParameterTypes
<1>8. approvals' \in [Operators -> Approval] /\ member \in BOOLEAN
  BY <1>3 DEF IInv, TypeOK
<1> HIDE DEF r, member
<1>9. QED BY <1>3, <1>6, <1>7, <1>8, BondStepInv

-----------------------------------------------------------------------------
(* Exits.                                                                  *)

LEMMA RequestUnbondInv ==
  ASSUME IInv, NEW caller, NEW op \in Operators, NEW amount \in Amounts,
         RequestUnbond(caller, op, amount)
  PROVE  IInv'
<1> DEFINE bond   == bonds[op]
           status == CASE amount = bond.amount -> "Unbonding"
                       [] amount # bond.amount /\ bond.status = "Unbonding" -> "Bonded"
                       [] OTHER -> bond.status
           r      == [bond EXCEPT !.unbondingAmount = amount,
                                  !.unbondingDeadline = Deadline(op), !.status = status]
           member == Registered(op, amount)
<1>1. /\ SoundBond(bond, op \in operators) /\ amount <= bond.amount
      /\ bond.status \in {"Bonded", "Unbonding"} \/ HasResidual(op)
  BY BondsSound DEF RequestUnbond
<1>2. amount \in Nat \ {0} /\ bond \in BondRecord /\ bond.amount \in Nat
  BY <1>1, BondingAssumption DEF Amounts, SoundBond, BondRecord
<1>3. Deadline(op) \in Nat \ {0}
  BY ParameterTypes DEF Deadline
<1>4. /\ SetBond(op, r, member) /\ tokens' = tokens
      /\ UNCHANGED <<now, approvals, parameters, pending>>
  BY DEF RequestUnbond
<1>5. status \in {"Unbonded", "Bonded", "Unbonding"} /\ (member <=> status # "Unbonded")
  <2>1. CASE amount = bond.amount
    BY <2>1 DEF Registered
  <2>2. CASE amount # bond.amount
    BY <1>1, <1>2, <2>2 DEF SoundBond, BondRecord, Registered
  <2>3. QED BY <2>1, <2>2
<1>6. bond.amount > 0 /\ bond.beneficiary \in Accounts
  BY <1>1, <1>2 DEF SoundBond
<1>7. /\ r \in BondRecord /\ r.amount = bond.amount /\ r.status = status
      /\ r.beneficiary = bond.beneficiary /\ r.unbondingAmount = amount
      /\ r.unbondingDeadline = Deadline(op)
  <2> HIDE DEF status
  <2>1. QED BY <1>2, <1>3, <1>5 DEF BondRecord
<1>8. member \in BOOLEAN
  BY DEF Registered
<1> HIDE DEF r, member, status
<1>9. SoundBond(r, member)
  BY <1>1, <1>2, <1>3, <1>5, <1>6, <1>7 DEF SoundBond
<1>10. tokens' = tokens - bonds[op].amount + r.amount /\ tokens' \in Nat
  BY <1>2, <1>4, <1>7, ParameterTypes
<1>11. approvals' \in [Operators -> Approval]
  BY <1>4 DEF IInv, TypeOK
<1>12. QED BY <1>4, <1>8, <1>9, <1>10, <1>11, BondStepInv

LEMMA ExecuteUnbondInv ==
  ASSUME IInv, NEW caller, NEW op \in Operators, ExecuteUnbond(caller, op)
  PROVE  IInv'
<1> DEFINE bond   == bonds[op]
           rest   == bond.amount - bond.unbondingAmount
           r      == [bond EXCEPT !.amount = rest, !.status = StatusAfterExit(rest),
                                  !.unbondingAmount = 0, !.unbondingDeadline = 0]
           member == rest >= minimumBond
<1>1. SoundBond(bond, op \in operators) /\ bond.unbondingAmount > 0
  BY BondsSound DEF ExecuteUnbond
<1>2. /\ bond \in BondRecord /\ bond.amount \in Nat /\ bond.unbondingAmount \in Nat
      /\ rest \in Nat /\ bond.amount > 0 /\ bond.beneficiary \in Accounts
  BY <1>1 DEF SoundBond, BondRecord
<1>3. /\ SetBond(op, r, member) /\ tokens' = tokens - bond.unbondingAmount
      /\ UNCHANGED <<now, approvals, parameters, pending>>
  BY DEF ExecuteUnbond
<1>4. /\ r \in BondRecord /\ r.amount = rest /\ r.beneficiary = bond.beneficiary
      /\ r.status = StatusAfterExit(rest) /\ r.unbondingAmount = 0 /\ r.unbondingDeadline = 0
  BY <1>2 DEF BondRecord, StatusAfterExit
<1>5. rest = bond.amount - bond.unbondingAmount /\ member = (rest >= minimumBond)
  OBVIOUS
<1> HIDE DEF r, member, rest
<1>6. SoundBond(r, member)
  <2>1. r.amount > 0 => r.beneficiary \in Accounts
    BY <1>2, <1>4
  <2>2. member <=> r.status # "Unbonded"
    BY <1>4, <1>5 DEF StatusAfterExit
  <2>3. member => r.amount > 0
    <3>1. minimumBond \in Nat \ {0}
      BY ParameterTypes
    <3>2. rest \in Nat
      BY <1>2
    <3>3. rest >= minimumBond => rest > 0
      BY <3>1, <3>2
    <3>4. QED BY <1>4, <1>5, <3>3
  <2>4. r.unbondingAmount <= r.amount /\ (r.unbondingDeadline > 0 <=> r.unbondingAmount > 0)
    BY <1>2, <1>4
  <2>5. QED BY <1>4, <2>1, <2>2, <2>3, <2>4 DEF SoundBond
<1>7. tokens' = tokens - bonds[op].amount + r.amount /\ tokens' \in Nat
  <2>1. bond.amount <= tokens /\ tokens \in Nat
    BY BondHeld, ParameterTypes
  <2>2. QED BY <1>2, <1>3, <1>4, <1>5, <2>1
<1>8. approvals' \in [Operators -> Approval] /\ member \in BOOLEAN
  BY <1>3, <1>5 DEF IInv, TypeOK
<1>9. QED BY <1>3, <1>6, <1>7, <1>8, BondStepInv

LEMMA CancelUnbondInv ==
  ASSUME IInv, NEW caller, NEW op \in Operators, CancelUnbond(caller, op)
  PROVE  IInv'
<1> DEFINE bond      == bonds[op]
           unbonding == bond.status = "Unbonding"
           status    == IF unbonding THEN "Bonded" ELSE bond.status
           r         == [bond EXCEPT !.status = status,
                                     !.unbondingAmount = 0, !.unbondingDeadline = 0]
           member    == op \in operators \/ unbonding
<1>1. SoundBond(bond, op \in operators)
  BY BondsSound
<1>2. bond \in BondRecord /\ bond.amount \in Nat
  BY <1>1 DEF SoundBond, BondRecord
<1>3. /\ SetBond(op, r, member) /\ tokens' = tokens
      /\ UNCHANGED <<now, approvals, parameters, pending>>
  BY DEF CancelUnbond
<1>4. /\ status \in {"Unbonded", "Bonded", "Unbonding"}
      /\ member <=> status # "Unbonded"
      /\ member => op \in operators
  BY <1>1, <1>2 DEF SoundBond, BondRecord
<1>5. /\ r \in BondRecord /\ r.amount = bond.amount /\ r.beneficiary = bond.beneficiary
      /\ r.status = status /\ r.unbondingAmount = 0 /\ r.unbondingDeadline = 0
  <2> HIDE DEF status
  <2>1. QED BY <1>2, <1>4 DEF BondRecord
<1>6. member \in BOOLEAN
  OBVIOUS
<1> HIDE DEF r, member, status
<1>7. SoundBond(r, member)
  BY <1>1, <1>2, <1>4, <1>5 DEF SoundBond
<1>8. tokens' = tokens - bonds[op].amount + r.amount /\ tokens' \in Nat
  BY <1>2, <1>3, <1>5, ParameterTypes
<1>9. approvals' \in [Operators -> Approval]
  BY <1>3 DEF IInv, TypeOK
<1>10. QED BY <1>3, <1>6, <1>7, <1>8, <1>9, BondStepInv

-----------------------------------------------------------------------------
(* Slashes.                                                                *)

(* The share a slash of s takes from u pending of a: at most u, and what   *)
(* stays pending is no greater a share of the rest than u is of a.         *)
LEMMA ShareOfSlash ==
  ASSUME NEW bond \in BondRecord, NEW s \in Nat, bond.amount > 0, s <= bond.amount,
         bond.unbondingAmount <= bond.amount
  PROVE  LET a == bond.amount
             u == bond.unbondingAmount
             share == SlashFromUnbonding(bond, s)
         IN  /\ share \in 0 .. u
             /\ (u - share) * a <= u * (a - s)
             /\ u - share <= a - s
<1> DEFINE a == bond.amount
           u == bond.unbondingAmount
           c == MulDivCeil(s, u, a)
           share == SlashFromUnbonding(bond, s)
<1>1. a \in Nat \ {0} /\ u \in Nat /\ s \in Nat /\ s <= a /\ u <= a
  BY DEF BondRecord
<1>2. c \in Nat /\ a * c >= s * u
  BY <1>1, MulDivType, MulDivBounds
<1>3. share = IF c > u THEN u ELSE c
  BY DEF SlashFromUnbonding
<1> HIDE DEF a, u, c, share
<1>4. share \in 0 .. u
  BY <1>1, <1>2, <1>3
<1>5. (u - share) * a <= u * (a - s)
  <2>1. CASE c > u
    <3>1. u - share = 0
      BY <1>1, <1>3, <2>1
    <3>2. u * (a - s) >= 0
      BY <1>1, ProductNat
    <3>3. QED BY <1>1, <3>1, <3>2
  <2>2. CASE ~(c > u)
    <3>1. share = c /\ a * c >= s * u
      BY <1>2, <1>3, <2>2
    <3>2. (u - c) * a = u * a - a * c /\ u * (a - s) = u * a - s * u
      BY <1>1, <1>2, Z3
    <3>3. u * a \in Nat /\ a * c \in Nat /\ s * u \in Nat
      BY <1>1, <1>2, ProductNat
    <3>4. QED BY <3>1, <3>2, <3>3
  <2>3. QED BY <2>1, <2>2
<1>6. u - share <= a - s
  <2>1. u * (a - s) <= a * (a - s)
    BY <1>1, Z3
  <2>2. (u - share) * a <= (a - s) * a
    <3>1. a * (a - s) = (a - s) * a
      BY <1>1, Z3
    <3>2. u - share \in Nat /\ a - s \in Nat
      BY <1>1, <1>4
    <3>3. (u - share) * a \in Nat /\ u * (a - s) \in Nat /\ (a - s) * a \in Nat
      BY <1>1, <3>2, ProductNat
    <3>4. QED BY <1>5, <2>1, <3>1, <3>3
  <2>3. u - share \in Nat /\ a - s \in Nat
    BY <1>1, <1>4
  <2>4. \A x, y \in Nat : x * a <= y * a => x <= y
    BY <1>1, Z3
  <2>5. QED BY <2>2, <2>3, <2>4
<1>7. QED BY <1>4, <1>5, <1>6 DEF a, u, share

LEMMA SlashInv ==
  ASSUME IInv, NEW op \in Operators, NEW amount \in Amounts, Slash(op, amount)
  PROVE  IInv'
<1> DEFINE bond      == bonds[op]
           slashed   == Slashed(op, amount)
           rest      == bond.amount - slashed
           below     == rest < minimumBond
           unbonding == IF below THEN 0
                        ELSE bond.unbondingAmount - SlashFromUnbonding(bond, slashed)
           status    == IF below THEN "Unbonded" ELSE bond.status
           deadline  == DeadlineAfterSlash(bond, rest, unbonding)
           r         == [bond EXCEPT !.amount = rest, !.status = status,
                                     !.unbondingAmount = unbonding,
                                     !.unbondingDeadline = deadline]
           member    == op \in operators /\ ~below
<1>1. SoundBond(bond, op \in operators) /\ bond.amount > 0
  BY BondsSound DEF Slash
<1>2. /\ bond \in BondRecord /\ bond.amount \in Nat /\ bond.unbondingAmount \in Nat
      /\ bond.unbondingDeadline \in Nat /\ bond.beneficiary \in Accounts
      /\ bond.unbondingAmount <= bond.amount
      /\ bond.unbondingDeadline > 0 <=> bond.unbondingAmount > 0
      /\ bond.status \in {"Unbonded", "Bonded", "Unbonding"}
      /\ op \in operators <=> bond.status # "Unbonded"
  BY <1>1 DEF SoundBond, BondRecord
<1>3. slashed \in Nat /\ slashed <= bond.amount /\ rest \in Nat
  <2>1. amount \in Nat
    BY BondingAssumption DEF Amounts
  <2>2. QED BY <1>2, <2>1 DEF Slashed
<1>4. /\ SetBond(op, r, member) /\ tokens' = tokens - slashed
      /\ UNCHANGED <<now, approvals, parameters, pending>>
  BY DEF Slash
<1>5. /\ rest = bond.amount - slashed /\ (below <=> rest < minimumBond)
      /\ minimumBond \in Nat \ {0}
  BY ParameterTypes
<1>6. /\ unbonding \in Nat /\ unbonding <= rest
      /\ bond.unbondingAmount = 0 => unbonding = 0
  <2> DEFINE share == SlashFromUnbonding(bond, slashed)
  <2>1. share \in 0 .. bond.unbondingAmount /\ bond.unbondingAmount - share <= rest
    BY <1>1, <1>2, <1>3, ShareOfSlash
  <2>2. unbonding = IF below THEN 0 ELSE bond.unbondingAmount - share
    OBVIOUS
  <2> HIDE DEF share, unbonding, rest, slashed
  <2>3. QED BY <1>2, <1>3, <2>1, <2>2
<1>7. deadline \in Nat /\ (deadline > 0 <=> unbonding > 0)
  <2>1. deadline = IF bond.unbondingAmount > 0 /\ unbonding = 0 THEN 0
                   ELSE bond.unbondingDeadline
    BY DEF DeadlineAfterSlash
  <2> HIDE DEF deadline, unbonding
  <2>2. QED BY <1>2, <1>6, <2>1
<1>8. status \in {"Unbonded", "Bonded", "Unbonding"} /\ (member <=> status # "Unbonded")
  <2> HIDE DEF below
  <2>1. QED BY <1>2
<1>9. member => rest > 0
  BY <1>3, <1>5
<1>10. member \in BOOLEAN
  OBVIOUS
<1> HIDE DEF unbonding, status, deadline, member, slashed, rest
<1>11. /\ r \in BondRecord /\ r.amount = rest /\ r.beneficiary = bond.beneficiary
       /\ r.status = status /\ r.unbondingAmount = unbonding /\ r.unbondingDeadline = deadline
  BY <1>2, <1>3, <1>6, <1>7, <1>8 DEF BondRecord
<1> HIDE DEF r
<1>12. SoundBond(r, member)
  BY <1>2, <1>6, <1>7, <1>8, <1>9, <1>11 DEF SoundBond
<1>13. tokens' = tokens - bonds[op].amount + r.amount /\ tokens' \in Nat
  <2>1. bond.amount <= tokens /\ tokens \in Nat
    BY BondHeld, ParameterTypes
  <2>2. QED BY <1>2, <1>3, <1>4, <1>5, <1>11, <2>1
<1>14. approvals' \in [Operators -> Approval]
  BY <1>4 DEF IInv, TypeOK
<1>15. QED BY <1>4, <1>10, <1>12, <1>13, <1>14, BondStepInv

-----------------------------------------------------------------------------
(* Parameters and time.                                                    *)

LEMMA ParameterStepInv ==
  ASSUME IInv, NEW key \in ParameterKeys,
         \/ \E value \in ProposedValues(key) : ProposeChange(key, value)
         \/ ExecuteChange(key)
         \/ CancelProposedChange(key)
  PROVE  IInv'
<1> DEFINE Change == [value : Nat, effectiveTime : Nat]
<1>1. /\ parameters \in [ParameterKeys -> Nat \ {0}] /\ pending \in [ParameterKeys -> Change]
      /\ \A k \in ParameterKeys : pending[k].effectiveTime > 0 => pending[k].value > 0
      /\ now \in Nat \ {0} /\ approvals \in [Operators -> Approval]
  BY DEF IInv, TypeOK
<1>2. NoChange \in Change /\ NoChange.effectiveTime = 0
  BY DEF NoChange
<1>3. ASSUME NEW value \in ProposedValues(key), ProposeChange(key, value)
      PROVE  IInv'
  <2> DEFINE c == [value |-> value, effectiveTime |-> EffectiveTime(key)]
  <2>1. value \in Nat \ {0}
    BY BondingAssumption DEF ProposedValues
  <2>2. c \in Change /\ c.value > 0
    BY <2>1, ParameterTypes DEF EffectiveTime
  <2>3. /\ pending' = [pending EXCEPT ![key] = c]
        /\ UNCHANGED <<bonds, operators, tokens>> /\ UNCHANGED <<now, approvals, parameters>>
    BY <1>3 DEF ProposeChange
  <2> HIDE DEF c
  <2>4. /\ pending' \in [ParameterKeys -> Change]
        /\ \A k \in ParameterKeys : pending'[k].effectiveTime > 0 => pending'[k].value > 0
    BY <1>1, <2>2, <2>3
  <2>5. QED BY <1>1, <2>3, <2>4, OtherStepInv
<1>4. CASE ExecuteChange(key)
  <2>1. /\ pending' = [pending EXCEPT ![key] = NoChange]
        /\ parameters' = [parameters EXCEPT ![key] = pending[key].value]
        /\ pending[key].effectiveTime > 0
        /\ UNCHANGED <<bonds, operators, tokens>> /\ UNCHANGED <<now, approvals>>
    BY <1>4 DEF ExecuteChange
  <2>2. pending[key].value \in Nat \ {0}
    BY <1>1, <2>1
  <2>3. /\ pending' \in [ParameterKeys -> Change]
        /\ \A k \in ParameterKeys : pending'[k].effectiveTime > 0 => pending'[k].value > 0
    BY <1>1, <1>2, <2>1
  <2>4. parameters' \in [ParameterKeys -> Nat \ {0}]
    BY <1>1, <2>1, <2>2
  <2>5. QED BY <1>1, <2>1, <2>3, <2>4, OtherStepInv
<1>5. CASE CancelProposedChange(key)
  <2>1. /\ pending' = [pending EXCEPT ![key] = NoChange]
        /\ UNCHANGED <<bonds, operators, tokens>> /\ UNCHANGED <<now, approvals, parameters>>
    BY <1>5 DEF CancelProposedChange
  <2>2. /\ pending' \in [ParameterKeys -> Change]
        /\ \A k \in ParameterKeys : pending'[k].effectiveTime > 0 => pending'[k].value > 0
    BY <1>1, <1>2, <2>1
  <2>3. QED BY <1>1, <2>1, <2>2, OtherStepInv
<1>6. QED BY <1>3, <1>4, <1>5

LEMMA TickInv ==
  ASSUME IInv, Tick
  PROVE  IInv'
  BY OtherStepInv DEF Tick, IInv, TypeOK

LEMMA InitInv == Init => IInv
<1> SUFFICES ASSUME Init PROVE IInv
  OBVIOUS
<1>1. TypeOK
  <2>1. NoBond \in BondRecord /\ NoBond.amount = 0 /\ NoApproval \in Approval
    BY NoApprovalType DEF NoBond, BondRecord
  <2>2. parameters \in [ParameterKeys -> Nat \ {0}]
    BY BondingAssumption DEF Init
  <2>3. pending \in [ParameterKeys -> [value : Nat, effectiveTime : Nat]]
        /\ \A key \in ParameterKeys : pending[key].effectiveTime = 0
    BY DEF Init, NoChange
  <2>4. QED BY <2>1, <2>2, <2>3 DEF Init, TypeOK
<1>2. BondsBacked
  <2>1. \A op \in Operators : BondAmounts[op] = 0
    BY DEF Init, BondAmounts, NoBond
  <2>2. QED BY <2>1, SumZero DEF Init, BondsBacked
<1>3. RequestConsistent /\ RegistryMatchesStatus
  BY DEF Init, NoBond, RequestConsistent, RegistryMatchesStatus
<1>4. QED BY <1>1, <1>2, <1>3 DEF IInv

LEMMA NextInv == IInv /\ [Next]_vars => IInv'
<1>1. ASSUME IInv, NEW op \in Operators, OperatorStep(op)
      PROVE  IInv'
  BY <1>1, BondInv, ApprovalStepInv DEF OperatorStep
<1>2. ASSUME IInv, NEW op \in Operators, NEW caller \in Accounts, CallerStep(caller, op)
      PROVE  IInv'
  BY <1>2, BondInv, AddBondInv, RequestUnbondInv, ExecuteUnbondInv, CancelUnbondInv
     DEF CallerStep
<1>3. ASSUME IInv, GovernanceStep
      PROVE  IInv'
  BY <1>3, SlashInv, ParameterStepInv DEF GovernanceStep
<1>4. IInv /\ UNCHANGED vars => IInv'
  BY DEF vars, IInv, TypeOK, BondsBacked, BondAmounts, RequestConsistent, RegistryMatchesStatus
<1>5. QED BY <1>1, <1>2, <1>3, <1>4, TickInv DEF Next

(* Every reachable state satisfies the inductive invariant.                *)
THEOREM Invariance == Spec => []IInv
  BY InitInv, NextInv, PTL DEF Spec

(* Records, registry and parameters keep their types; no subtraction of an *)
(* exit or a slash underflows.                                             *)
THEOREM TypeCorrectness == Spec => []TypeOK
<1>1. IInv => TypeOK
  BY DEF IInv
<1>2. QED BY <1>1, Invariance, PTL

(* The contract holds exactly the bonds of all operators.                  *)
THEOREM BondsAreBacked == Spec => []BondsBacked
<1>1. IInv => BondsBacked
  BY DEF IInv
<1>2. QED BY <1>1, Invariance, PTL

(* A pending exit is part of its bond and has a deadline; nothing else     *)
(* has one.                                                                *)
THEOREM RequestConsistency == Spec => []RequestConsistent
<1>1. IInv => RequestConsistent
  BY DEF IInv
<1>2. QED BY <1>1, Invariance, PTL

(* The registry lists exactly the operators that are not Unbonded.         *)
THEOREM RegistryCorrect == Spec => []RegistryMatchesStatus
<1>1. IInv => RegistryMatchesStatus
  BY DEF IInv
<1>2. QED BY <1>1, Invariance, PTL

(* What a slash does to the record it takes from.                          *)
LEMMA SlashIsProportional ==
  ASSUME IInv, NEW op \in Operators, NEW amount \in Amounts, Slash(op, amount)
  PROVE  bonds'[op].unbondingAmount * bonds[op].amount
           <= bonds[op].unbondingAmount * bonds'[op].amount
<1> DEFINE bond      == bonds[op]
           slashed   == Slashed(op, amount)
           rest      == bond.amount - slashed
           share     == SlashFromUnbonding(bond, slashed)
           unbonding == IF rest < minimumBond THEN 0 ELSE bond.unbondingAmount - share
<1>1. /\ bond \in BondRecord /\ bond.amount > 0 /\ bond.unbondingAmount <= bond.amount
      /\ bond.amount \in Nat /\ bond.unbondingAmount \in Nat
  BY BondsSound DEF Slash, SoundBond, BondRecord
<1>2. slashed \in Nat /\ slashed <= bond.amount /\ rest \in Nat
  <2>1. amount \in Nat
    BY BondingAssumption DEF Amounts
  <2>2. QED BY <1>1, <2>1 DEF Slashed
<1>3. bonds'[op].unbondingAmount = unbonding /\ bonds'[op].amount = rest
  BY <1>1 DEF Slash, SetBond, IInv, TypeOK, BondRecord
<1>4. (bond.unbondingAmount - share) * bond.amount <= bond.unbondingAmount * rest
  BY <1>1, <1>2, ShareOfSlash
<1>5. unbonding = 0 \/ unbonding = bond.unbondingAmount - share
  OBVIOUS
<1>6. bond.unbondingAmount * rest >= 0 /\ 0 * bond.amount = 0
  BY <1>1, <1>2, ProductNat
<1> HIDE DEF unbonding, rest, share, slashed
<1>7. QED BY <1>3, <1>4, <1>5, <1>6

(* No slash favours an exit under way: of what is left, the pending part   *)
(* is no greater a share than before.                                      *)
THEOREM SlashesAreProportional == Spec => SlashProportional
<1>1. ASSUME IInv, NEW op \in Operators
      PROVE  SlashStep(op)
  BY <1>1, SlashIsProportional DEF SlashStep
<1>2. IInv => [\A op \in Operators : SlashStep(op)]_vars
  BY <1>1
<1>3. QED BY <1>2, Invariance, PTL DEF SlashProportional

-----------------------------------------------------------------------------
(* What a step may do to one record.                                       *)

(* A step leaves the record of op alone or is one of the steps of op.      *)
RecordSteps(op) ==
  \/ bonds'[op] = bonds[op]
  \/ \E amount \in Amounts, beneficiary \in Accounts : Bonding(op, amount, beneficiary)
  \/ \E caller \in Accounts, amount \in Amounts : AddBond(caller, op, amount)
  \/ \E caller \in Accounts, amount \in Amounts : RequestUnbond(caller, op, amount)
  \/ \E caller \in Accounts : ExecuteUnbond(caller, op)
  \/ \E caller \in Accounts : CancelUnbond(caller, op)
  \/ \E amount \in Amounts : Slash(op, amount)

LEMMA StepsOfRecord ==
  ASSUME IInv, [Next]_vars, NEW op \in Operators
  PROVE  RecordSteps(op)
<1>1. bonds \in [Operators -> BondRecord]
  BY DEF IInv, TypeOK
<1>2. CASE bonds' = bonds
  BY <1>2 DEF RecordSteps
<1>3. ASSUME NEW o \in Operators, NEW r, NEW member, SetBond(o, r, member), o # op
      PROVE  RecordSteps(op)
  BY <1>1, <1>3 DEF SetBond, RecordSteps
<1>4. ASSUME NEW o \in Operators, OperatorStep(o)
      PROVE  RecordSteps(op)
  <2>1. ASSUME NEW amount \in Amounts, NEW beneficiary \in Accounts, Bond(o, amount, beneficiary)
        PROVE  RecordSteps(op)
    <3>1. Bonding(o, amount, beneficiary)
      BY <2>1 DEF Bond
    <3>2. QED BY <3>1, <1>3 DEF RecordSteps, Bonding
  <2>2. QED BY <1>2, <1>4, <2>1 DEF OperatorStep, ApproveBondFor, RevokeBondForApproval
<1>5. ASSUME NEW o \in Operators, NEW caller \in Accounts, CallerStep(caller, o)
      PROVE  RecordSteps(op)
  <2>1. CASE o = op
    BY <1>5, <2>1 DEF CallerStep, RecordSteps, BondFor
  <2>2. CASE o # op
    BY <1>3, <1>5, <2>2 DEF CallerStep, BondFor, Bonding, AddBond, RequestUnbond,
                            ExecuteUnbond, CancelUnbond
  <2>3. QED BY <2>1, <2>2
<1>6. ASSUME GovernanceStep
      PROVE  RecordSteps(op)
  <2>1. ASSUME NEW o \in Operators, NEW amount \in Amounts, Slash(o, amount)
        PROVE  RecordSteps(op)
    BY <2>1, <1>3 DEF RecordSteps, Slash
  <2>2. QED BY <1>2, <1>6, <2>1 DEF GovernanceStep, ProposeChange, ExecuteChange,
                                    CancelProposedChange
<1>7. QED BY <1>2, <1>4, <1>5, <1>6 DEF Next, Tick, vars

(* Steps of the record of op.                                              *)
LEMMA CooldownOfRecord ==
  ASSUME IInv, NEW op \in Operators, RecordSteps(op)
  PROVE  CooldownStep(op)
<1>1. /\ bonds[op] \in BondRecord /\ bonds[op].amount \in Nat
      /\ bonds[op].unbondingAmount \in Nat /\ bonds[op].unbondingDeadline \in Nat
      /\ bonds[op].unbondingAmount <= bonds[op].amount
      /\ bonds \in [Operators -> BondRecord]
      /\ \A amount \in Amounts : amount \in Nat \ {0}
  BY BondsSound, BondingAssumption DEF SoundBond, BondRecord, Amounts, IInv, TypeOK
<1>2. CASE bonds'[op] = bonds[op]
  BY <1>1, <1>2 DEF CooldownStep
<1>3. ASSUME NEW amount \in Amounts, NEW beneficiary \in Accounts,
             Bonding(op, amount, beneficiary)
      PROVE  CooldownStep(op)
  <2>1. /\ bonds[op].amount = 0 /\ bonds'[op].amount = amount
        /\ bonds'[op].unbondingAmount = bonds[op].unbondingAmount
        /\ bonds'[op].unbondingDeadline = 0
    BY <1>1, <1>3 DEF Bonding, MayBond, SetBond, BondRecord
  <2>2. QED BY <1>1, <2>1 DEF CooldownStep
<1>4. ASSUME NEW caller, NEW amount \in Amounts, AddBond(caller, op, amount)
      PROVE  CooldownStep(op)
  <2>1. /\ bonds'[op].amount = bonds[op].amount + amount
        /\ bonds'[op].unbondingAmount = bonds[op].unbondingAmount
        /\ bonds'[op].unbondingDeadline = bonds[op].unbondingDeadline
    BY <1>1, <1>4 DEF AddBond, SetBond, BondRecord
  <2>2. QED BY <1>1, <2>1 DEF CooldownStep
<1>5. ASSUME NEW caller, NEW amount \in Amounts, RequestUnbond(caller, op, amount)
      PROVE  CooldownStep(op)
  <2>1. /\ bonds'[op].amount = bonds[op].amount
        /\ bonds'[op].unbondingDeadline = now + unbondingPeriod
    BY <1>1, <1>5 DEF RequestUnbond, Deadline, SetBond, BondRecord
  <2>2. QED BY <1>1, <2>1 DEF CooldownStep
<1>6. ASSUME NEW caller, ExecuteUnbond(caller, op)
      PROVE  CooldownStep(op)
  <2>1. /\ bonds'[op].amount = bonds[op].amount - bonds[op].unbondingAmount
        /\ bonds'[op].unbondingAmount = 0 /\ bonds'[op].unbondingDeadline = 0
        /\ now >= bonds[op].unbondingDeadline
    BY <1>1, <1>6 DEF ExecuteUnbond, SetBond, BondRecord
  <2>2. QED BY <1>1, <2>1 DEF CooldownStep
<1>7. ASSUME NEW caller, CancelUnbond(caller, op)
      PROVE  CooldownStep(op)
  <2>1. /\ bonds'[op].amount = bonds[op].amount
        /\ bonds'[op].unbondingAmount = 0 /\ bonds'[op].unbondingDeadline = 0
    BY <1>1, <1>7 DEF CancelUnbond, SetBond, BondRecord
  <2>2. QED BY <1>1, <2>1 DEF CooldownStep
<1>8. ASSUME NEW amount \in Amounts, Slash(op, amount)
      PROVE  CooldownStep(op)
  <2> DEFINE slashed   == Slashed(op, amount)
             share     == SlashFromUnbonding(bonds[op], slashed)
  <2>1. slashed \in Nat /\ slashed <= bonds[op].amount /\ bonds[op].amount > 0
    BY <1>1, <1>8 DEF Slashed, Slash
  <2>2. share \in 0 .. bonds[op].unbondingAmount
    BY <1>1, <2>1, ShareOfSlash
  <2>3. \/ bonds'[op].unbondingAmount = 0
        \/ bonds'[op].unbondingAmount = bonds[op].unbondingAmount - share
    BY <1>1, <1>8 DEF Slash, SetBond, BondRecord
  <2>4. bonds'[op].unbondingDeadline \in {0, bonds[op].unbondingDeadline}
    BY <1>1, <1>8 DEF Slash, SetBond, BondRecord, DeadlineAfterSlash
  <2> HIDE DEF share, slashed
  <2>5. ~(bonds'[op].unbondingAmount > bonds[op].unbondingAmount)
    BY <1>1, <2>2, <2>3
  <2>6. QED BY <1>8, <2>4, <2>5 DEF CooldownStep
<1>9. QED BY <1>2, <1>3, <1>4, <1>5, <1>6, <1>7, <1>8 DEF RecordSteps

(* No tokens leave by an exit before the cooldown they were asked for      *)
(* under has passed.                                                       *)
THEOREM CooldownIsRespected == Spec => CooldownRespected
<1>1. IInv /\ [Next]_vars => \A op \in Operators : CooldownStep(op)
  BY StepsOfRecord, CooldownOfRecord
<1>2. QED BY <1>1, Invariance, PTL DEF Spec, CooldownRespected

(* Only a new bond, of a record that holds nothing, names a beneficiary.   *)
LEMMA BeneficiaryKept ==
  ASSUME IInv, NEW op \in Operators, RecordSteps(op), bonds[op].amount > 0
  PROVE  bonds'[op].beneficiary = bonds[op].beneficiary
<1>1. bonds \in [Operators -> BondRecord] /\ bonds[op].amount \in Nat
  BY DEF IInv, TypeOK, BondRecord
<1>2. ~MayBond(op)
  BY <1>1 DEF MayBond
<1>3. ASSUME NEW amount \in Amounts, NEW beneficiary \in Accounts
      PROVE  ~Bonding(op, amount, beneficiary)
  BY <1>2 DEF Bonding
<1>4. ASSUME NEW caller \in Accounts, NEW amount \in Amounts, AddBond(caller, op, amount)
      PROVE  bonds'[op].beneficiary = bonds[op].beneficiary
  BY <1>1, <1>4 DEF AddBond, SetBond, BondRecord
<1>5. ASSUME NEW caller \in Accounts, NEW amount \in Amounts, RequestUnbond(caller, op, amount)
      PROVE  bonds'[op].beneficiary = bonds[op].beneficiary
  BY <1>1, <1>5 DEF RequestUnbond, SetBond, BondRecord
<1>6. ASSUME NEW caller \in Accounts, ExecuteUnbond(caller, op) \/ CancelUnbond(caller, op)
      PROVE  bonds'[op].beneficiary = bonds[op].beneficiary
  BY <1>1, <1>6 DEF ExecuteUnbond, CancelUnbond, SetBond, BondRecord
<1>7. ASSUME NEW amount \in Amounts, Slash(op, amount)
      PROVE  bonds'[op].beneficiary = bonds[op].beneficiary
  BY <1>1, <1>7 DEF Slash, SetBond, BondRecord
<1>8. QED BY <1>3, <1>4, <1>5, <1>6, <1>7 DEF RecordSteps

(* What another account than the beneficiary may do to a pending exit:     *)
(* execute it, which takes it from the bond, or add to the bond.           *)
LEMMA OthersReplaceNothing ==
  ASSUME IInv, NEW op \in Operators, NEW caller \in Accounts, CallerStep(caller, op),
         caller # bonds[op].beneficiary, bonds[op].unbondingAmount > 0
  PROVE  \/ bonds'[op].amount < bonds[op].amount
         \/ /\ bonds'[op].unbondingAmount = bonds[op].unbondingAmount
            /\ bonds'[op].unbondingDeadline = bonds[op].unbondingDeadline
<1>1. /\ bonds \in [Operators -> BondRecord] /\ bonds[op] \in BondRecord
      /\ bonds[op].amount \in Nat /\ bonds[op].unbondingAmount \in Nat
      /\ bonds[op].unbondingAmount <= bonds[op].amount
  BY BondsSound DEF SoundBond, IInv, TypeOK, BondRecord
<1>2. ASSUME NEW amount \in Amounts, NEW beneficiary \in Accounts
      PROVE  ~BondFor(caller, op, amount, beneficiary)
  <2>1. ~MayBond(op)
    BY <1>1 DEF MayBond
  <2>2. QED BY <2>1 DEF BondFor, Bonding
<1>3. \A amount \in Amounts : ~RequestUnbond(caller, op, amount)
  BY DEF RequestUnbond, MayRequest
<1>4. ~CancelUnbond(caller, op)
  BY DEF CancelUnbond
<1>5. ASSUME NEW amount \in Amounts, AddBond(caller, op, amount)
      PROVE  /\ bonds'[op].unbondingAmount = bonds[op].unbondingAmount
             /\ bonds'[op].unbondingDeadline = bonds[op].unbondingDeadline
  BY <1>1, <1>5 DEF AddBond, SetBond, BondRecord
<1>6. ASSUME ExecuteUnbond(caller, op)
      PROVE  bonds'[op].amount < bonds[op].amount
  <2>1. bonds'[op].amount = bonds[op].amount - bonds[op].unbondingAmount
    BY <1>1, <1>6 DEF ExecuteUnbond, SetBond, BondRecord
  <2>2. QED BY <1>1, <2>1
<1>7. QED BY <1>2, <1>3, <1>4, <1>5, <1>6 DEF CallerStep

(* The beneficiary of a bond stays, and nobody else cancels, replaces or   *)
(* delays its pending exit.                                                *)
THEOREM BeneficiaryStaysInControl == Spec => BeneficiaryInControl
<1>1. ASSUME IInv, [Next]_vars, NEW op \in Operators
      PROVE  BeneficiaryStep(op)
  <2>1. bonds[op].amount > 0 => bonds'[op].beneficiary = bonds[op].beneficiary
    BY <1>1, StepsOfRecord, BeneficiaryKept
  <2>2. bonds[op].amount \in Nat
    BY <1>1 DEF IInv, TypeOK, BondRecord
  <2>3. bonds'[op].amount \in Nat
    BY <1>1, NextInv DEF IInv, TypeOK, BondRecord
  <2>4. QED BY <1>1, <2>1, <2>2, <2>3, OthersReplaceNothing DEF BeneficiaryStep
<1>2. IInv /\ [Next]_vars => \A op \in Operators : BeneficiaryStep(op)
  BY <1>1
<1>3. QED BY <1>2, Invariance, PTL DEF Spec, BeneficiaryInControl

-----------------------------------------------------------------------------
(* Changes of parameters.                                                  *)

LEMMA ChangeOfParameter ==
  ASSUME IInv, NEW k \in ParameterKeys, NEW key \in ParameterKeys,
         \/ \E value \in ProposedValues(k) : ProposeChange(k, value)
         \/ ExecuteChange(k)
         \/ CancelProposedChange(k)
  PROVE  ChangeStep(key)
<1> DEFINE Change == [value : Nat, effectiveTime : Nat]
<1>1. /\ parameters \in [ParameterKeys -> Nat \ {0}] /\ pending \in [ParameterKeys -> Change]
      /\ now \in Nat \ {0}
  BY DEF IInv, TypeOK
<1>2. NoChange.value = 0 /\ NoChange.effectiveTime = 0
  BY DEF NoChange
<1>3. ASSUME NEW value \in ProposedValues(k), ProposeChange(k, value)
      PROVE  ChangeStep(key)
  <2> DEFINE c == [value |-> value, effectiveTime |-> EffectiveTime(k)]
  <2>1. value \in Nat \ {0}
    BY BondingAssumption DEF ProposedValues
  <2>2. c.value = value /\ c.effectiveTime = now + parameterTimelock
    BY DEF EffectiveTime
  <2>3. pending' = [pending EXCEPT ![k] = c] /\ parameters' = parameters
    BY <1>3 DEF ProposeChange
  <2> HIDE DEF c
  <2>4. pending'[key] = IF key = k THEN c ELSE pending[key]
    BY <1>1, <2>3
  <2>5. QED BY <2>1, <2>2, <2>3, <2>4 DEF ChangeStep
<1>4. CASE ExecuteChange(k)
  <2>1. /\ pending'[key] = IF key = k THEN NoChange ELSE pending[key]
        /\ parameters'[key] = IF key = k THEN pending[key].value ELSE parameters[key]
        /\ pending[k].effectiveTime > 0 /\ now >= pending[k].effectiveTime
    BY <1>1, <1>4 DEF ExecuteChange
  <2>2. pending[k].effectiveTime \in 1 .. now
    BY <1>1, <2>1
  <2>3. QED BY <1>2, <2>1, <2>2 DEF ChangeStep
<1>5. CASE CancelProposedChange(k)
  <2>1. /\ pending'[key] = IF key = k THEN NoChange ELSE pending[key]
        /\ parameters' = parameters
    BY <1>1, <1>5 DEF CancelProposedChange
  <2>2. QED BY <1>2, <2>1 DEF ChangeStep
<1>6. QED BY <1>3, <1>4, <1>5

(* A parameter changes only to a value that was proposed a whole time      *)
(* lock before.                                                            *)
THEOREM ChangesAreAnnounced == Spec => ChangesAnnounced
<1>1. ASSUME IInv, [Next]_vars, NEW key \in ParameterKeys
      PROVE  ChangeStep(key)
  <2>1. CASE UNCHANGED <<parameters, pending>>
    BY <2>1 DEF ChangeStep
  <2>2. ASSUME NEW op \in Operators, OperatorStep(op)
        PROVE  UNCHANGED <<parameters, pending>>
    BY <2>2 DEF OperatorStep, Bond, Bonding, ApproveBondFor, RevokeBondForApproval
  <2>3. ASSUME NEW op \in Operators, NEW caller \in Accounts, CallerStep(caller, op)
        PROVE  UNCHANGED <<parameters, pending>>
    BY <2>3 DEF CallerStep, BondFor, Bonding, AddBond, RequestUnbond, ExecuteUnbond, CancelUnbond
  <2>4. ASSUME NEW op \in Operators, NEW amount \in Amounts, Slash(op, amount)
        PROVE  UNCHANGED <<parameters, pending>>
    BY <2>4 DEF Slash
  <2>5. QED BY <1>1, <2>1, <2>2, <2>3, <2>4, ChangeOfParameter
               DEF Next, GovernanceStep, Tick, vars
<1>2. IInv /\ [Next]_vars => \A key \in ParameterKeys : ChangeStep(key)
  BY <1>1
<1>3. QED BY <1>2, Invariance, PTL DEF Spec, ChangesAnnounced
-----------------------------------------------------------------------------
(* Exits of which nothing is left.                                         *)

(* A slash takes no more from a pending exit than it takes in all.         *)
LEMMA ShareWithinSlash ==
  ASSUME NEW bond \in BondRecord, NEW s \in Nat, bond.amount > 0, s <= bond.amount,
         bond.unbondingAmount <= bond.amount
  PROVE  SlashFromUnbonding(bond, s) <= s
<1> DEFINE a == bond.amount
           u == bond.unbondingAmount
           c == MulDivCeil(s, u, a)
<1>1. a \in Nat \ {0} /\ u \in Nat /\ s \in Nat /\ s <= a /\ u <= a
  BY DEF BondRecord
<1>2. c \in Nat /\ a * c < s * u + a
  BY <1>1, MulDivType, MulDivBounds
<1>3. SlashFromUnbonding(bond, s) = IF c > u THEN u ELSE c
  BY DEF SlashFromUnbonding
<1> HIDE DEF a, u, c
<1>4. s * u <= s * a
  BY <1>1, Z3
<1>5. a * (s + 1) = s * a + a
  BY <1>1, Z3
<1>6. a * c < a * (s + 1)
  <2>1. a * c \in Nat /\ s * u \in Nat /\ s * a \in Nat
    BY <1>1, <1>2, ProductNat
  <2>2. QED BY <1>1, <1>2, <1>4, <1>5, <2>1
<1>7. \A x, y \in Nat : a * x < a * y => x < y
  BY <1>1, Z3
<1>8. c < s + 1
  BY <1>1, <1>2, <1>6, <1>7
<1>9. QED BY <1>1, <1>2, <1>3, <1>8

LEMMA EmptiedBySlash ==
  ASSUME IInv, NEW op \in Operators, RecordSteps(op)
  PROVE  EmptiedStep(op)
<1> SUFFICES ASSUME bonds'[op].status = "Unbonding", bonds'[op].unbondingAmount = 0,
                    ~EmptyExit(bonds[op])
             PROVE  /\ \E amount \in Amounts : Slash(op, amount)
                    /\ bonds[op].unbondingAmount \in 1 .. (bonds[op].amount - bonds'[op].amount)
  BY DEF EmptiedStep, EmptyExit
<1>1. /\ bonds[op] \in BondRecord /\ bonds[op].amount \in Nat
      /\ bonds[op].unbondingAmount \in Nat /\ bonds[op].unbondingAmount <= bonds[op].amount
      /\ bonds \in [Operators -> BondRecord]
      /\ \A amount \in Amounts : amount \in Nat \ {0}
  BY BondsSound, BondingAssumption DEF SoundBond, BondRecord, Amounts, IInv, TypeOK
<1>2. bonds[op].status = "Unbonding" => bonds[op].unbondingAmount > 0
  BY <1>1 DEF EmptyExit
<1>3. bonds'[op] # bonds[op]
  BY DEF EmptyExit
<1>4. ASSUME NEW amount \in Amounts, NEW beneficiary \in Accounts,
             Bonding(op, amount, beneficiary)
      PROVE  FALSE
  BY <1>1, <1>4 DEF Bonding, SetBond, BondRecord
<1>5. ASSUME NEW caller, NEW amount \in Amounts, AddBond(caller, op, amount)
      PROVE  FALSE
  <2>1. /\ bonds'[op].status \in {"Bonded", bonds[op].status}
        /\ bonds'[op].unbondingAmount = bonds[op].unbondingAmount
    BY <1>1, <1>5 DEF AddBond, SetBond, BondRecord
  <2>2. QED BY <1>1, <1>2, <2>1
<1>6. ASSUME NEW caller, NEW amount \in Amounts, RequestUnbond(caller, op, amount)
      PROVE  FALSE
  <2>1. bonds'[op].unbondingAmount = amount
    BY <1>1, <1>6 DEF RequestUnbond, SetBond, BondRecord
  <2>2. QED BY <1>1, <2>1
<1>7. ASSUME NEW caller, ExecuteUnbond(caller, op)
      PROVE  FALSE
  BY <1>1, <1>7 DEF ExecuteUnbond, SetBond, BondRecord, StatusAfterExit
<1>8. ASSUME NEW caller, CancelUnbond(caller, op)
      PROVE  FALSE
  BY <1>1, <1>8 DEF CancelUnbond, SetBond, BondRecord
<1>9. ASSUME NEW amount \in Amounts, Slash(op, amount)
      PROVE  bonds[op].unbondingAmount \in 1 .. (bonds[op].amount - bonds'[op].amount)
  <2> DEFINE slashed == Slashed(op, amount)
             share   == SlashFromUnbonding(bonds[op], slashed)
  <2>1. slashed \in Nat /\ slashed <= bonds[op].amount /\ bonds[op].amount > 0
    BY <1>1, <1>9 DEF Slashed, Slash
  <2>2. share \in 0 .. bonds[op].unbondingAmount
    BY <1>1, <2>1, ShareOfSlash
  <2>3. share <= slashed
    BY <1>1, <2>1, ShareWithinSlash
  <2>4. bonds'[op].amount = bonds[op].amount - slashed
    BY <1>1, <1>9 DEF Slash, SetBond, BondRecord
  <2>5. /\ bonds'[op].status = bonds[op].status
        /\ bonds'[op].unbondingAmount = bonds[op].unbondingAmount - share
    BY <1>1, <1>9 DEF Slash, SetBond, BondRecord
  <2> HIDE DEF share, slashed
  <2>6. bonds[op].unbondingAmount > 0
    BY <1>2, <2>5
  <2>7. bonds[op].unbondingAmount = share
    BY <1>1, <2>2, <2>5
  <2>8. QED BY <1>1, <2>1, <2>3, <2>4, <2>6, <2>7
<1>10. QED BY <1>3, <1>4, <1>5, <1>6, <1>7, <1>8, <1>9 DEF RecordSteps

(* A record is Unbonding with nothing pending only after a slash that took *)
(* all that was pending: no sequence of the calls of operators, funders    *)
(* and beneficiaries leads there.                                          *)
THEOREM OnlySlashesEmptyExits == Spec => EmptiedOnlyBySlash
<1>1. IInv /\ [Next]_vars => \A op \in Operators : EmptiedStep(op)
  BY StepsOfRecord, EmptiedBySlash
<1>2. QED BY <1>1, Invariance, PTL DEF Spec, EmptiedOnlyBySlash
=============================================================================
