-------------------------- MODULE ValidatorBonding --------------------------
(***************************************************************************)
(* Bonds of validators: bonding, by the operator or by a funder that it    *)
(* approved, additions, exits after a cooldown, slashes in every phase,    *)
(* and the parameters that governance changes behind a time lock.          *)
(*                                                                         *)
(* Left out: the delegate key, which nothing but the approval's match      *)
(* reads and which is treated there as the beneficiary is, and the         *)
(* initiator of a request, which is set and cleared with its deadline.     *)
(***************************************************************************)
EXTENDS MulDiv, AccountSums

CONSTANTS
  Operators,
  Others,                      \* accounts that are no operators
  InitialMinimumBond,
  InitialUnbondingPeriod,
  DEFAULT_PARAMETER_TIMELOCK,
  ProposedMinimumBonds,        \* what governance may propose, within the
  ProposedUnbondingPeriods,    \*   limits of the contract
  ProposedParameterTimelocks,
  MaxBond,                     \* bound: tokens in the contract
  MaxTime                      \* bound: the last point of time

ASSUME BondingAssumption ==
  /\ IsFiniteSet(Operators) /\ Operators \cap Others = {}
  /\ InitialMinimumBond \in Nat \ {0} /\ ProposedMinimumBonds \subseteq Nat \ {0}
  /\ InitialUnbondingPeriod \in Nat \ {0} /\ ProposedUnbondingPeriods \subseteq Nat \ {0}
  /\ DEFAULT_PARAMETER_TIMELOCK \in Nat \ {0}
  /\ ProposedParameterTimelocks \subseteq Nat \ {0}
  /\ MaxBond \in Nat /\ MaxTime \in Nat

Accounts == Operators \cup Others

CONSTANT NoAccount             \* the zero address

ASSUME NoAccountAssumption == NoAccount \notin Accounts

VARIABLES
  now,             \* block.timestamp
  bonds,           \* the record of each operator
  operators,       \* the registry of operators
  approvals,       \* the funder and the terms each operator agreed to
  tokens,          \* staked tokens the contract holds
  parameters,      \* minimumBond, unbondingPeriod and parameterTimelock
  pending          \* the proposed change of each of them

vars == <<now, bonds, operators, approvals, tokens, parameters, pending>>

ParameterKeys == {"minimumBond", "unbondingPeriod", "parameterTimelock"}

minimumBond == parameters["minimumBond"]
unbondingPeriod == parameters["unbondingPeriod"]
parameterTimelock == parameters["parameterTimelock"]

BondRecord ==
  [amount            : Nat,
   beneficiary       : Accounts \cup {NoAccount},
   status            : {"Unbonded", "Bonded", "Unbonding"},
   unbondingAmount   : Nat,
   unbondingDeadline : Nat]

NoBond == [amount |-> 0, beneficiary |-> NoAccount, status |-> "Unbonded",
           unbondingAmount |-> 0, unbondingDeadline |-> 0]

Approval == [bonder : Accounts \cup {NoAccount}, beneficiary : Accounts \cup {NoAccount}]

NoApproval == [bonder |-> NoAccount, beneficiary |-> NoAccount]

(* effectiveTime is zero when no change is proposed.                       *)
NoChange == [value |-> 0, effectiveTime |-> 0]

TypeOK ==
  /\ now \in Nat \ {0}
  /\ bonds \in [Operators -> BondRecord]
  /\ \A op \in Operators : bonds[op].amount > 0 => bonds[op].beneficiary \in Accounts
  /\ operators \subseteq Operators
  /\ approvals \in [Operators -> Approval]
  /\ tokens \in Nat
  /\ parameters \in [ParameterKeys -> Nat \ {0}]
  /\ pending \in [ParameterKeys -> [value : Nat, effectiveTime : Nat]]
  /\ \A key \in ParameterKeys : pending[key].effectiveTime > 0 => pending[key].value > 0

Init ==
  /\ now = 1
  /\ bonds = [op \in Operators |-> NoBond]
  /\ operators = {}
  /\ approvals = [op \in Operators |-> NoApproval]
  /\ tokens = 0
  /\ parameters = [key \in ParameterKeys |->
       CASE key = "minimumBond"     -> InitialMinimumBond
         [] key = "unbondingPeriod" -> InitialUnbondingPeriod
         [] OTHER                   -> DEFAULT_PARAMETER_TIMELOCK]
  /\ pending = [key \in ParameterKeys |-> NoChange]

MayManage(caller, op) == caller \in {op, bonds[op].beneficiary}

(* The contract takes in `amount' tokens of the caller.                    *)
Receive(amount) == tokens + amount <= MaxBond /\ tokens' = tokens + amount

(* The records of op and the registry after a step of op: the registry     *)
(* holds op exactly when `member' says so.                                 *)
SetBond(op, record, member) ==
  /\ bonds' = [bonds EXCEPT ![op] = record]
  /\ operators' = IF member THEN operators \cup {op} ELSE operators \ {op}

-----------------------------------------------------------------------------
(* Bonding.                                                                *)

(* Faulty variant: a bond that a slash left below the minimum is bonded    *)
(* over.                                                                   *)
MayBond_OverResidual(op) == bonds[op].status = "Unbonded"

(* An operator that has left, with nothing remaining.                      *)
MayBond(op) == bonds[op].status = "Unbonded" /\ bonds[op].amount = 0

(* _bondFor.  Only the pending amount is carried over from an old record.  *)
Bonding(op, amount, beneficiary) ==
  /\ amount >= minimumBond
  /\ MayBond(op)
  /\ SetBond(op, [bonds[op] EXCEPT !.amount = amount, !.beneficiary = beneficiary,
                                   !.status = "Bonded", !.unbondingDeadline = 0], TRUE)
  /\ Receive(amount)
  /\ UNCHANGED <<now, parameters, pending>>

Bond(op, amount, beneficiary) ==
  Bonding(op, amount, beneficiary) /\ UNCHANGED approvals

(* A funder bonds on the terms it names, which must be those the operator  *)
(* approved, and uses the approval up.                                     *)
BondFor(bonder, op, amount, beneficiary) ==
  /\ approvals[op] = [bonder |-> bonder, beneficiary |-> beneficiary]
  /\ approvals' = [approvals EXCEPT ![op] = NoApproval]
  /\ Bonding(op, amount, beneficiary)

ApproveBondFor(op, bonder, beneficiary) ==
  /\ approvals' = [approvals EXCEPT ![op] = [bonder |-> bonder, beneficiary |-> beneficiary]]
  /\ UNCHANGED <<now, bonds, operators, tokens, parameters, pending>>

RevokeBondForApproval(op) ==
  /\ approvals' = [approvals EXCEPT ![op] = NoApproval]
  /\ UNCHANGED <<now, bonds, operators, tokens, parameters, pending>>

(* What is left of a bond that has been slashed below the minimum, or      *)
(* whose exit left less than the minimum.                                  *)
HasResidual(op) == bonds[op].status = "Unbonded" /\ bonds[op].amount > 0

(* A residual bond becomes active when it reaches the minimum again.       *)
AddBond(caller, op, amount) ==
  LET bond    == bonds[op]
      revived == HasResidual(op) /\ bond.amount + amount >= minimumBond
  IN  /\ MayManage(caller, op)
      /\ bond.status \in {"Bonded", "Unbonding"} \/ HasResidual(op)
      /\ SetBond(op, [bond EXCEPT !.amount = bond.amount + amount,
                                  !.status = IF revived THEN "Bonded" ELSE bond.status],
                 op \in operators \/ revived)
      /\ Receive(amount)
      /\ UNCHANGED <<now, approvals, parameters, pending>>

-----------------------------------------------------------------------------
(* Exits.                                                                  *)

(* Faulty variant: the operator too may replace a pending request.         *)
MayRequest_Anyone(caller, op) == MayManage(caller, op)

(* Only the beneficiary may replace a pending request.                     *)
MayRequest(caller, op) ==
  /\ MayManage(caller, op)
  /\ bonds[op].unbondingAmount > 0 => caller = bonds[op].beneficiary

(* Faulty variant: a request that replaces another keeps its deadline.     *)
Deadline_Kept(op) ==
  IF bonds[op].unbondingDeadline > 0 THEN bonds[op].unbondingDeadline ELSE now + unbondingPeriod

Deadline(op) == now + unbondingPeriod

(* Faulty variant: a full request of a residual bond is not registered.    *)
Registered_NotReadded(op, amount) == op \in operators

(* A record that is on its way out is in the registry again.               *)
Registered(op, amount) == op \in operators \/ amount = bonds[op].amount

RequestUnbond(caller, op, amount) ==
  LET bond == bonds[op]
  IN  /\ MayRequest(caller, op)
      /\ bond.status \in {"Bonded", "Unbonding"} \/ HasResidual(op)
      /\ amount <= bond.amount
      /\ ~HasResidual(op) /\ amount < bond.amount => bond.amount - amount >= minimumBond
      /\ SetBond(op, [bond EXCEPT !.unbondingAmount = amount,
                                  !.unbondingDeadline = Deadline(op),
                                  !.status = CASE amount = bond.amount -> "Unbonding"
                                               [] amount # bond.amount /\ bond.status = "Unbonding"
                                                    -> "Bonded"
                                               [] OTHER -> bond.status],
                 Registered(op, amount))
      /\ UNCHANGED <<now, approvals, tokens, parameters, pending>>

(* The status of a bond of which `rest' remains after an exit.             *)
StatusAfterExit(rest) == IF rest >= minimumBond THEN "Bonded" ELSE "Unbonded"

(* Faulty variant: exits of a part of the bond are not paid.               *)
ExecuteUnbond_WholeOnly(caller, op) ==
  LET bond == bonds[op]
  IN  /\ MayManage(caller, op)
      /\ bond.unbondingAmount > 0 /\ bond.status = "Unbonding"
      /\ now >= bond.unbondingDeadline
      /\ SetBond(op, [bond EXCEPT !.amount = @ - bond.unbondingAmount, !.status = "Unbonded",
                                  !.unbondingAmount = 0, !.unbondingDeadline = 0], FALSE)
      /\ tokens' = tokens - bond.unbondingAmount
      /\ UNCHANGED <<now, approvals, parameters, pending>>

(* Pays the beneficiary; the minimum is the one of this moment.            *)
ExecuteUnbond(caller, op) ==
  LET bond == bonds[op]
      rest == bond.amount - bond.unbondingAmount
  IN  /\ MayManage(caller, op)
      /\ bond.unbondingAmount > 0
      /\ now >= bond.unbondingDeadline
      /\ SetBond(op, [bond EXCEPT !.amount = rest, !.status = StatusAfterExit(rest),
                                  !.unbondingAmount = 0, !.unbondingDeadline = 0],
                 rest >= minimumBond)
      /\ tokens' = tokens - bond.unbondingAmount
      /\ UNCHANGED <<now, approvals, parameters, pending>>

CancelUnbond(caller, op) ==
  LET bond      == bonds[op]
      unbonding == bond.status = "Unbonding"
  IN  /\ bond.unbondingAmount > 0
      /\ caller = bond.beneficiary
      /\ SetBond(op, [bond EXCEPT !.status = IF unbonding THEN "Bonded" ELSE bond.status,
                                  !.unbondingAmount = 0, !.unbondingDeadline = 0],
                 op \in operators \/ unbonding)
      /\ UNCHANGED <<now, approvals, tokens, parameters, pending>>

-----------------------------------------------------------------------------
(* Slashes.                                                                *)

(* Faulty variant: the share of the pending exit is rounded down.          *)
SlashFromUnbonding_Floor(bond, slashed) ==
  MulDivFloor(slashed, bond.unbondingAmount, bond.amount)

(* A slash takes from the pending exit in proportion, rounded up.          *)
SlashFromUnbonding(bond, slashed) ==
  LET share == MulDivCeil(slashed, bond.unbondingAmount, bond.amount)
  IN  IF share > bond.unbondingAmount THEN bond.unbondingAmount ELSE share

(* No request is left without its deadline being cleared.                  *)
DeadlineAfterSlash(bond, rest, unbonding) ==
  IF bond.unbondingAmount > 0 /\ unbonding = 0 THEN 0 ELSE bond.unbondingDeadline

Slashed(op, amount) == IF amount > bonds[op].amount THEN bonds[op].amount ELSE amount

(* A slash below the minimum ends the bond and cancels its exit.           *)
Slash(op, amount) ==
  LET bond      == bonds[op]
      slashed   == Slashed(op, amount)
      rest      == bond.amount - slashed
      below     == rest < minimumBond
      unbonding == IF below THEN 0
                   ELSE bond.unbondingAmount - SlashFromUnbonding(bond, slashed)
  IN  /\ bond.amount > 0
      /\ SetBond(op, [bond EXCEPT !.amount = rest,
                                  !.status = IF below THEN "Unbonded" ELSE bond.status,
                                  !.unbondingAmount = unbonding,
                                  !.unbondingDeadline = DeadlineAfterSlash(bond, rest, unbonding)],
                 op \in operators /\ ~below)
      /\ tokens' = tokens - slashed
      /\ UNCHANGED <<now, approvals, parameters, pending>>

-----------------------------------------------------------------------------
(* Parameters.  Each of the three has its own propose and execute function *)
(* of the same text; a proposal may replace one that is pending.           *)

ProposedValues(key) ==
  CASE key = "minimumBond"     -> ProposedMinimumBonds
    [] key = "unbondingPeriod" -> ProposedUnbondingPeriods
    [] OTHER                   -> ProposedParameterTimelocks

(* Faulty variant: a proposal that replaces another keeps its clock.       *)
EffectiveTime_Kept(key) ==
  IF pending[key].effectiveTime > 0 THEN pending[key].effectiveTime ELSE now + parameterTimelock

EffectiveTime(key) == now + parameterTimelock

ProposeChange(key, value) ==
  /\ pending' = [pending EXCEPT ![key] =
       [value |-> value, effectiveTime |-> EffectiveTime(key)]]
  /\ UNCHANGED <<now, bonds, operators, approvals, tokens, parameters>>

ExecuteChange(key) ==
  /\ pending[key].effectiveTime > 0
  /\ now >= pending[key].effectiveTime
  /\ parameters' = [parameters EXCEPT ![key] = pending[key].value]
  /\ pending' = [pending EXCEPT ![key] = NoChange]
  /\ UNCHANGED <<now, bonds, operators, approvals, tokens>>

CancelProposedChange(key) ==
  /\ pending[key].effectiveTime > 0
  /\ pending' = [pending EXCEPT ![key] = NoChange]
  /\ UNCHANGED <<now, bonds, operators, approvals, tokens, parameters>>

Tick ==
  /\ now < MaxTime
  /\ now' = now + 1
  /\ UNCHANGED <<bonds, operators, approvals, tokens, parameters, pending>>

-----------------------------------------------------------------------------
Amounts == 1 .. MaxBond

OperatorStep(op) ==
  \/ \E amount \in Amounts, beneficiary \in Accounts : Bond(op, amount, beneficiary)
  \/ \E bonder, beneficiary \in Accounts : ApproveBondFor(op, bonder, beneficiary)
  \/ RevokeBondForApproval(op)

CallerStep(caller, op) ==
  \/ \E amount \in Amounts, beneficiary \in Accounts : BondFor(caller, op, amount, beneficiary)
  \/ \E amount \in Amounts : AddBond(caller, op, amount)
  \/ \E amount \in Amounts : RequestUnbond(caller, op, amount)
  \/ ExecuteUnbond(caller, op)
  \/ CancelUnbond(caller, op)

GovernanceStep ==
  \/ \E op \in Operators, amount \in Amounts : Slash(op, amount)
  \/ \E key \in ParameterKeys :
       \/ \E value \in ProposedValues(key) : ProposeChange(key, value)
       \/ ExecuteChange(key)
       \/ CancelProposedChange(key)

Next ==
  \/ \E op \in Operators : OperatorStep(op) \/ \E caller \in Accounts : CallerStep(caller, op)
  \/ GovernanceStep
  \/ Tick

Spec == Init /\ [][Next]_vars

(* Time goes on, and a beneficiary whose exit is due goes on asking for    *)
(* its payment; nobody else is expected to do anything.                    *)
FairSpec ==
  /\ Spec
  /\ WF_vars(Tick)
  /\ \A op \in Operators : WF_vars(ExecuteUnbond(bonds[op].beneficiary, op))

-----------------------------------------------------------------------------
(* Properties.                                                             *)

BondAmounts == [op \in Operators |-> bonds[op].amount]

(* The contract holds exactly the bonds: every exit and every slash, in    *)
(* any phase, takes from the record what it pays out (executeUnbond,       *)
(* slash).                                                                 *)
BondsBacked == tokens = SumOver(BondAmounts, Operators)

(* A pending exit is a part of the bond, and there is a deadline exactly   *)
(* while one is pending: no earlier tenure, slash or replaced request      *)
(* leaves a deadline behind (slash, requestUnbond, _bondFor).              *)
RequestConsistent ==
  \A op \in Operators :
    /\ bonds[op].unbondingAmount <= bonds[op].amount
    /\ bonds[op].unbondingDeadline > 0 <=> bonds[op].unbondingAmount > 0

(* The registry lists an operator exactly when it is not Unbonded, and     *)
(* then it has tokens at stake, through slashes, residual bonds and their  *)
(* revival (slash, addBond, requestUnbond, cancelUnbond).                  *)
RegistryMatchesStatus ==
  \A op \in Operators :
    /\ op \in operators <=> bonds[op].status # "Unbonded"
    /\ op \in operators => bonds[op].amount > 0

(* No tokens leave by an exit before the whole cooldown has passed since   *)
(* they were asked for: whenever more becomes pending the clock starts     *)
(* anew, no deadline is brought forward, and a bond that shrinks by what   *)
(* was pending has reached its deadline, unless it was slashed             *)
(* (requestUnbond, executeUnbond, addBond).                                *)
CooldownStep(op) ==
  LET old == bonds[op]
      new == bonds'[op]
  IN  /\ new.unbondingAmount > old.unbondingAmount =>
           new.unbondingDeadline = now + unbondingPeriod
      /\ new.unbondingDeadline \notin {0, old.unbondingDeadline} =>
           new.unbondingDeadline = now + unbondingPeriod
      /\ new.amount < old.amount =>
           \/ \E amount \in Amounts : Slash(op, amount)
           \/ /\ old.unbondingAmount = old.amount - new.amount
              /\ now >= old.unbondingDeadline

CooldownRespected == [][\A op \in Operators : CooldownStep(op)]_vars

(* The beneficiary of a bond that holds tokens never changes, and no other *)
(* account has a step that cancels, replaces or delays its pending exit,   *)
(* which ends otherwise only by being paid out or by a slash               *)
(* (requestUnbond, cancelUnbond, _bondFor).                                *)
BeneficiaryStep(op) ==
  LET old == bonds[op]
      new == bonds'[op]
      replaced == /\ old.unbondingAmount > 0
                  /\ <<new.unbondingAmount, new.unbondingDeadline>>
                       # <<old.unbondingAmount, old.unbondingDeadline>>
                  /\ new.amount >= old.amount
  IN  old.amount > 0 =>
        /\ new.beneficiary = old.beneficiary
        /\ replaced => \A caller \in Accounts \ {old.beneficiary} : ~CallerStep(caller, op)

BeneficiaryInControl == [][\A op \in Operators : BeneficiaryStep(op)]_vars

(* An exit under way bears its share of every slash: of what is left after *)
(* the slash, the pending part is no greater a share than it was before.   *)
SlashStep(op) ==
  LET old == bonds[op]
      new == bonds'[op]
  IN  (new.amount < old.amount /\ \E amount \in Amounts : Slash(op, amount))
        => new.unbondingAmount * old.amount <= old.unbondingAmount * new.amount

SlashProportional == [][\A op \in Operators : SlashStep(op)]_vars

(* A parameter takes a new value only if exactly this value was proposed   *)
(* and its time has come, and each proposal, one that replaces another     *)
(* too, waits the whole time lock of the moment it is made.                *)
ChangeStep(key) ==
  LET new == pending'[key]
  IN  /\ parameters'[key] # parameters[key] =>
           /\ pending[key].effectiveTime \in 1 .. now
           /\ parameters'[key] = pending[key].value
      /\ new # pending[key] =>
           new.effectiveTime = (IF new.value = 0 THEN 0 ELSE now + parameterTimelock)

ChangesAnnounced == [][\A key \in ParameterKeys : ChangeStep(key)]_vars

(* Every exit that falls due within the time modelled comes to its end: it *)
(* is paid, or the beneficiary takes it back, or slashes take all of it.   *)
(* No slash, addition, change of the minimum or of the cooldown, and no    *)
(* step of the operator, leaves it pending for good (executeUnbond).       *)
ExitRuns(op) == bonds[op].unbondingAmount > 0 /\ bonds[op].unbondingDeadline <= MaxTime

ExitsEnd == \A op \in Operators : ExitRuns(op) ~> ~ExitRuns(op)

(* The comment in requestUnbond: "a fresh request cannot find the record   *)
(* already Unbonding".                                                     *)
UnbondingHasRequest ==
  \A op \in Operators : bonds[op].status = "Unbonding" => bonds[op].unbondingAmount > 0

(* The record of an exit of which nothing is pending any more.             *)
EmptyExit(bond) == bond.status = "Unbonding" /\ bond.unbondingAmount = 0

(* What the comment leaves out is one case only: no request, addition,     *)
(* cancellation, payment or new bond leaves an empty exit behind, but a    *)
(* slash that takes all that was pending and no less than it (slash).      *)
EmptiedStep(op) ==
  EmptyExit(bonds'[op]) /\ ~EmptyExit(bonds[op]) =>
    /\ \E amount \in Amounts : Slash(op, amount)
    /\ bonds[op].unbondingAmount \in 1 .. (bonds[op].amount - bonds'[op].amount)

EmptiedOnlyBySlash == [][\A op \in Operators : EmptiedStep(op)]_vars
=============================================================================
