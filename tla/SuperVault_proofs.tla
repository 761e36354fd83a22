------------------------- MODULE SuperVault_proofs -------------------------
(***************************************************************************)
(* Type correctness of SuperVault and its escrow invariants, its           *)
(* refinement of AsyncRedeem, the meaning of the anchor, what the quotes,  *)
(* previews and limits answer at every price and fee, and what keeps       *)
(* each holder's shares and their backing, for every set of users and      *)
(* every value of the bounds.                                              *)
(***************************************************************************)
EXTENDS SuperVault, Arithmetic_proofs

(* What every fact below takes for granted about the constants.            *)
LEMMA ConstantFacts ==
  /\ PRECISION \in Nat \ {0} /\ BPS_PRECISION \in Nat \ {0}
  /\ IsFiniteSet(Users) /\ IsFiniteSet(Accounts)
  /\ Users \subseteq Accounts /\ Escrow \in Accounts /\ Escrow \notin Users
  /\ ManagementFeeBps \in 0 .. BPS_PRECISION
  /\ DefaultSlippageBps \in 0 .. BPS_PRECISION
  /\ SlippageChoices \subseteq 0 .. BPS_PRECISION
  /\ PPSValues \subseteq Nat \ {0} /\ PRECISION \in PPSValues
  /\ MaxShares \in Nat /\ MaxAssets \in Nat
<1>1. IsFiniteSet(Accounts)
  BY VaultAssumption, FS_AddElement DEF Accounts
<1>2. QED BY <1>1, PrecisionAssumption, VaultAssumption DEF Accounts

(* The inductive invariant: the escrow covers shares only because a        *)
(* record with claimable shares has none pending (a fulfilment clears the  *)
(* claimable ones), and nothing can be said of the sums without the types. *)
IInv ==
  /\ TypeOK
  /\ RecordsConsistent
  /\ EscrowCoversShares
  /\ EscrowCoversAssets

-----------------------------------------------------------------------------
(* Amounts.                                                                *)

(* The weighted average of two positive prices is a positive price.        *)
LEMMA AveragePositive ==
  ASSUME NEW p \in Nat \ {0}, NEW v \in Nat \ {0}, NEW n \in Nat \ {0}, NEW q \in Nat \ {0}
  PROVE  (p * v + n * q) \div (p + n) \in Nat \ {0}
<1>1. p * v + n * q \in Nat /\ p + n \in Nat \ {0}
  BY ProductNat
<1>2. p * v >= p /\ n * q >= n
  BY Z3
<1>3. p * v + n * q >= p + n
  BY <1>1, <1>2, ProductNat
<1>4. QED BY <1>1, <1>3, DivFacts, DivPositive

LEMMA AverageRequestType ==
  ASSUME TypeOK, RecordsConsistent, NEW c \in Users, NEW n \in Nat \ {0}
  PROVE  AverageRequestPPS(superVaultState[c], n) \in Nat \ {0}
<1>1. pps \in Nat \ {0}
  BY ConstantFacts DEF TypeOK
<1>2. superVaultState[c] \in VaultStates
  BY DEF TypeOK
<1>3. CASE superVaultState[c].pendingRedeemRequest > 0
  <2>1. /\ superVaultState[c].pendingRedeemRequest \in Nat \ {0}
        /\ superVaultState[c].averageRequestPPS \in Nat \ {0}
    BY <1>2, <1>3 DEF VaultStates, RecordsConsistent, RecordConsistent
  <2>2. QED BY <1>1, <1>3, <2>1, AveragePositive DEF AverageRequestPPS
<1>4. CASE ~(superVaultState[c].pendingRedeemRequest > 0)
  BY <1>1, <1>4 DEF AverageRequestPPS
<1>5. QED BY <1>3, <1>4

LEMMA AverageWithdrawType ==
  ASSUME NEW m \in Nat, NEW w \in Nat, NEW n \in Nat, NEW a \in Nat
  PROVE  CalculateAverageWithdrawPrice(m, w, n, a) \in Nat
<1>1. PRECISION \in Nat \ {0}
  BY ConstantFacts
<1>2. CASE m > 0 /\ w > 0
  <2>1. MulDivFloor(m, PRECISION, w) \in Nat
    BY <1>1, <1>2, MulDivType
  <2>2. CASE MulDivFloor(m, PRECISION, w) + n > 0
    <3>1. MulDivFloor(m, PRECISION, w) + n \in Nat \ {0} /\ m + a \in Nat
      BY <2>1, <2>2
    <3>2. MulDivFloor(m + a, PRECISION, MulDivFloor(m, PRECISION, w) + n) \in Nat
      BY <1>1, <3>1, MulDivType
    <3>3. QED BY <1>2, <2>2, <3>2 DEF CalculateAverageWithdrawPrice
  <2>3. CASE ~(MulDivFloor(m, PRECISION, w) + n > 0)
    BY <1>2, <2>3 DEF CalculateAverageWithdrawPrice
  <2>4. QED BY <2>2, <2>3
<1>3. CASE ~(m > 0 /\ w > 0)
  <2>1. CASE n > 0
    <3>1. MulDivFloor(0 + a, PRECISION, 0 + n) \in Nat
      BY <1>1, <2>1, MulDivType
    <3>2. QED BY <1>3, <2>1, <3>1 DEF CalculateAverageWithdrawPrice
  <2>2. CASE ~(n > 0)
    BY <1>3, <2>2 DEF CalculateAverageWithdrawPrice
  <2>3. QED BY <2>1, <2>2
<1>4. QED BY <1>2, <1>3

LEMMA DepositTypes ==
  ASSUME NEW a \in Nat, a - DepositFee(a, ManagementFeeBps) > 0, pps \in Nat \ {0}
  PROVE  /\ a - DepositFee(a, ManagementFeeBps) \in Nat
         /\ DepositShares(a, ManagementFeeBps, pps) \in Nat
<1>1. DepositFee(a, ManagementFeeBps) \in Nat
  BY ConstantFacts, MulDivType DEF DepositFee
<1>2. a - DepositFee(a, ManagementFeeBps) \in Nat
  BY <1>1
<1>3. QED BY <1>2, ConstantFacts, MulDivType DEF DepositShares

(* A transfer the sender can afford keeps balances natural numbers.        *)
LEMMA MoveType ==
  ASSUME balance \in [Accounts -> Nat], NEW a \in Accounts, NEW b \in Accounts,
         NEW n \in Nat, balance[a] >= n
  PROVE  /\ Move(a, b, n) \in [Accounts -> Nat]
         /\ a # b => /\ Move(a, b, n)[a] = balance[a] - n
                     /\ Move(a, b, n)[b] = balance[b] + n
         /\ \A c \in Accounts \ {a, b} : Move(a, b, n)[c] = balance[c]
         /\ a = b => Move(a, b, n) = balance
  BY DEF Move

-----------------------------------------------------------------------------
(* Type correctness.                                                       *)

LEMMA InitType == Init => TypeOK
<1>1. NoRequest \in VaultStates
  BY ConstantFacts DEF NoRequest, VaultStates
<1>2. QED BY <1>1, ConstantFacts DEF Init, TypeOK, NoAnchor, Gates

LEMMA FulfilledType ==
  ASSUME NEW s \in VaultStates, NEW a \in Nat
  PROVE  Fulfilled(s, a) \in VaultStates
<1>1. CalculateAverageWithdrawPrice(s.maxWithdraw, s.averageWithdrawPrice,
                                    s.pendingRedeemRequest, a) \in Nat
  BY AverageWithdrawType DEF VaultStates
<1>2. QED BY <1>1 DEF VaultStates, Fulfilled

LEMMA PendingSetType ==
  ASSUME NEW s \in VaultStates, NEW v \in Nat, NEW m \in Nat
  PROVE  [s EXCEPT !.averageRequestPPS = v, !.pendingRedeemRequest = m] \in VaultStates
  BY DEF VaultStates

LEMMA RequestedType ==
  ASSUME NEW s \in VaultStates, NEW v \in Nat, NEW n \in Nat
  PROVE  [s EXCEPT !.averageRequestPPS = v,
                   !.pendingRedeemRequest = s.pendingRedeemRequest + n] \in VaultStates
<1>1. s.pendingRedeemRequest + n \in Nat
  BY DEF VaultStates
<1>2. QED BY <1>1, PendingSetType

LEMMA FulfillCancelType ==
  ASSUME NEW s \in VaultStates
  PROVE  FulfillCancel(s) \in VaultStates
<1>1. CASE s.pendingCancelRedeemRequest
  <2>1. FulfillCancel(s) =
          [pendingRedeemRequest |-> 0,
           averageRequestPPS |-> 0,
           maxWithdraw |-> s.maxWithdraw,
           averageWithdrawPrice |-> s.averageWithdrawPrice,
           redeemSlippageBps |-> s.redeemSlippageBps,
           pendingCancelRedeemRequest |-> s.pendingCancelRedeemRequest,
           claimableCancelRedeemRequest |->
             s.claimableCancelRedeemRequest + s.pendingRedeemRequest]
    BY <1>1 DEF VaultStates, FulfillCancel
  <2>2. QED BY <2>1 DEF VaultStates
<1>2. CASE ~s.pendingCancelRedeemRequest
  BY <1>2 DEF FulfillCancel
<1>3. QED BY <1>1, <1>2

(* Only the averages need more than the types: a request averages prices   *)
(* that RecordsConsistent keeps positive.                                  *)
LEMMA UserStepType == TypeOK /\ RecordsConsistent /\ UserStep => TypeOK'
<1> SUFFICES ASSUME TypeOK, RecordsConsistent, UserStep
             PROVE  TypeOK'
  OBVIOUS
<1> USE ConstantFacts
<1>1. ASSUME NEW r \in Accounts, NEW n \in 1 .. MaxAssets, Deposit(r, n)
      PROVE  TypeOK'
  <2>1. pps \in Nat \ {0} /\ n \in Nat
    BY DEF TypeOK
  <2>2. /\ n - DepositFee(n, ManagementFeeBps) \in Nat
        /\ DepositShares(n, ManagementFeeBps, pps) \in Nat
    BY <1>1, <2>1, DepositTypes DEF Deposit
  <2>3. /\ balance' = [balance EXCEPT ![r] = @ + DepositShares(n, ManagementFeeBps, pps)]
        /\ strategyAssets' = strategyAssets + (n - DepositFee(n, ManagementFeeBps))
        /\ UNCHANGED <<isOperator, superVaultState, escrowAssets, pps, gate, anchor>>
    BY <1>1 DEF Deposit
  <2>4. balance' \in [Accounts -> Nat] /\ strategyAssets' \in Nat
    BY <2>2, <2>3 DEF TypeOK
  <2>5. QED BY <2>3, <2>4 DEF TypeOK
<1>2. ASSUME NEW r \in Accounts, NEW n \in 1 .. MaxShares, Mint(r, n)
      PROVE  TypeOK'
  <2>1. pps \in Nat \ {0} /\ n \in Nat
    BY DEF TypeOK
  <2>2. QuoteMintNet(n, pps) \in Nat
    BY <2>1, MulDivType DEF QuoteMintNet
  <2>3. QED BY <1>2, <2>1, <2>2 DEF Mint, TypeOK
<1>3. ASSUME NEW u \in Users, NEW c \in Users, NEW n \in 1 .. MaxShares, RequestRedeem(u, c, n)
      PROVE  TypeOK'
  <2>1. n \in Nat \ {0} /\ pps \in Nat \ {0}
    BY DEF TypeOK
  <2>2. AverageRequestPPS(superVaultState[c], n) \in Nat
    BY <2>1, AverageRequestType
  <2>3. Move(c, Escrow, n) \in [Accounts -> Nat]
    BY <1>3, <2>1, MoveType DEF RequestRedeem, TypeOK
  <2>4. superVaultState' \in [Users -> VaultStates]
    <3> DEFINE s == superVaultState[c]
    <3> DEFINE t == [s EXCEPT !.averageRequestPPS = AverageRequestPPS(s, n),
                              !.pendingRedeemRequest = s.pendingRedeemRequest + n]
    <3>1. s \in VaultStates
      BY DEF TypeOK
    <3>2. t \in VaultStates
      BY <2>1, <2>2, <3>1, RequestedType
    <3>3. superVaultState' = [superVaultState EXCEPT ![c] = t]
      BY <1>3 DEF RequestRedeem
    <3> HIDE DEF t
    <3>4. QED BY <3>2, <3>3 DEF TypeOK
  <2>5. anchor' \in [Users -> [value : Nat, requests : Nat]]
    <3>1. n * pps \in Nat
      BY <2>1, ProductNat
    <3>2. QED BY <1>3, <3>1 DEF RequestRedeem, TypeOK
  <2>6. QED BY <1>3, <2>3, <2>4, <2>5 DEF RequestRedeem, TypeOK
<1>4. ASSUME NEW u \in Users, NEW c \in Users, CancelRedeemRequest(u, c)
      PROVE  TypeOK'
  BY <1>4 DEF CancelRedeemRequest, TypeOK, VaultStates
<1>5. ASSUME NEW u \in Users, NEW c \in Users, NEW r \in Accounts,
             ClaimCancelRedeemRequest(u, c, r)
      PROVE  TypeOK'
  <2> DEFINE n == ClaimableCancel(superVaultState[c])
  <2>1. n \in Nat
    BY DEF TypeOK, VaultStates, ClaimableCancel
  <2>2. Move(Escrow, r, n) \in [Accounts -> Nat]
    BY <1>5, <2>1, MoveType DEF ClaimCancelRedeemRequest, TypeOK
  <2>3. superVaultState' \in [Users -> VaultStates]
    BY <1>5 DEF ClaimCancelRedeemRequest, TypeOK, VaultStates
  <2>4. QED BY <1>5, <2>2, <2>3 DEF ClaimCancelRedeemRequest, TypeOK
<1>6. ASSUME NEW c \in Users, NEW a, a \in Int, NEW r \in Users \cup {Escrow, Strategy},
             Claim(c, a, r)
      PROVE  TypeOK'
  <2>1. superVaultState' \in [Users -> VaultStates]
    BY <1>6 DEF Claim, TypeOK, VaultStates
  <2>2. escrowAssets' \in Nat /\ strategyAssets' \in Nat
    BY <1>6 DEF Claim, TypeOK
  <2>3. QED BY <1>6, <2>1, <2>2 DEF Claim, TypeOK
<1>7. ASSUME NEW u \in Users, NEW c \in Users, NEW n \in 1 .. MaxAssets,
             NEW r \in Users \cup {Escrow, Strategy}, Withdraw(u, c, n, r)
      PROVE  TypeOK'
  BY <1>6, <1>7 DEF Withdraw
<1>8. ASSUME NEW u \in Users, NEW c \in Users, NEW n \in 1 .. MaxShares,
             NEW r \in Users \cup {Escrow, Strategy}, Redeem(u, c, n, r)
      PROVE  TypeOK'
  <2>1. superVaultState[c].averageWithdrawPrice \in Nat /\ n \in Nat
    BY DEF TypeOK, VaultStates
  <2>2. RedeemAssets(n, superVaultState[c].averageWithdrawPrice) \in Nat
    BY <2>1, MulDivType DEF RedeemAssets
  <2>3. QED BY <1>6, <1>8, <2>2 DEF Redeem
<1>9. ASSUME NEW c \in Users, NEW u \in Operators, NEW b \in BOOLEAN, SetOperator(c, u, b)
      PROVE  TypeOK'
  BY <1>9, VaultAssumption DEF SetOperator, TypeOK
<1>10. ASSUME NEW c \in Users, NEW b \in SlippageChoices, SetRedeemSlippage(c, b)
       PROVE  TypeOK'
  BY <1>10 DEF SetRedeemSlippage, TypeOK, VaultStates
<1>11. ASSUME NEW u \in Users, NEW to \in Accounts, NEW n \in 1 .. MaxShares,
              Transfer(u, to, n)
       PROVE  TypeOK'
  <2>1. Move(u, to, n) \in [Accounts -> Nat]
    BY <1>11, MoveType DEF Transfer, TypeOK
  <2>2. QED BY <1>11, <2>1 DEF Transfer, TypeOK
<1>12. QED
  BY <1>1, <1>2, <1>3, <1>4, <1>5, <1>7, <1>8, <1>9, <1>10, <1>11 DEF UserStep

LEMMA ManagerStepType == TypeOK /\ ManagerStep => TypeOK'
<1> SUFFICES ASSUME TypeOK, ManagerStep
             PROVE  TypeOK'
  OBVIOUS
<1> USE ConstantFacts
<1>1. ASSUME NEW S \in SUBSET Users, FulfillCancelRedeemRequests(S)
      PROVE  TypeOK'
  <2>1. superVaultState' \in [Users -> VaultStates]
    BY <1>1, FulfillCancelType DEF FulfillCancelRedeemRequests, TypeOK
  <2>2. QED BY <1>1, <2>1 DEF FulfillCancelRedeemRequests, TypeOK, NoAnchor
<1>2. ASSUME NEW S \in SUBSET Users, NEW out \in [S -> 0 .. MaxAssets],
             FulfillRedeemRequests(S, out)
      PROVE  TypeOK'
  <2>1. superVaultState' \in [Users -> VaultStates]
    <3>1. \A c \in S : out[c] \in Nat
      OBVIOUS
    <3>2. \A c \in S : Fulfilled(superVaultState[c], out[c]) \in VaultStates
      BY <3>1, FulfilledType DEF TypeOK
    <3>3. QED BY <1>2, <3>2 DEF FulfillRedeemRequests, TypeOK
  <2>2. SumOver(PendingShares, S) \in Nat /\ SumOver(out, S) \in Nat
    <3>1. IsFiniteSet(S)
      BY FS_Subset
    <3>2. \A c \in S : PendingShares[c] \in Nat /\ out[c] \in Nat
      BY DEF PendingShares, TypeOK, VaultStates
    <3>3. QED BY <3>1, <3>2, SumType
  <2>3. balance' \in [Accounts -> Nat]
    BY <1>2, <2>2 DEF FulfillRedeemRequests, TypeOK
  <2>4. strategyAssets' \in Nat /\ escrowAssets' \in Nat
    BY <1>2, <2>2 DEF FulfillRedeemRequests, TypeOK
  <2>5. anchor' \in [Users -> [value : Nat, requests : Nat]]
    BY <1>2 DEF FulfillRedeemRequests, TypeOK, NoAnchor
  <2>6. QED BY <1>2, <2>1, <2>3, <2>4, <2>5 DEF FulfillRedeemRequests, TypeOK
<1>3. QED BY <1>1, <1>2 DEF ManagerStep

LEMMA EnvironmentStepType == TypeOK /\ EnvironmentStep => TypeOK'
  BY ConstantFacts DEF EnvironmentStep, PriceFeedStep, StrategyAssetsMove, TypeOK

-----------------------------------------------------------------------------
(* What a step has to show to keep the escrow's two invariants.            *)

LEMMA LockedType ==
  ASSUME TypeOK
  PROVE  /\ LockedShares \in [Users -> Nat] /\ ClaimableAssets \in [Users -> Nat]
         /\ SumOver(LockedShares, Users) \in Nat
         /\ SumOver(ClaimableAssets, Users) \in Nat
<1>1. LockedShares \in [Users -> Nat] /\ ClaimableAssets \in [Users -> Nat]
  BY DEF TypeOK, VaultStates, LockedShares, ClaimableAssets
<1>2. QED BY <1>1, SumType, ConstantFacts

LEMMA LockedTypeNext ==
  ASSUME TypeOK'
  PROVE  LockedShares' \in [Users -> Nat] /\ ClaimableAssets' \in [Users -> Nat]
  BY DEF TypeOK, VaultStates, LockedShares, ClaimableAssets

LEMMA UserSumUpdate ==
  ASSUME NEW f \in [Users -> Nat], NEW g \in [Users -> Nat], NEW c \in Users,
         \A d \in Users \ {c} : g[d] = f[d]
  PROVE  SumOver(g, Users) = SumOver(f, Users) - f[c] + g[c]
<1>1. /\ \A d \in Users : f[d] \in Nat
      /\ \A d \in Users : g[d] \in Nat
  OBVIOUS
<1>2. IsFiniteSet(Users)
  BY ConstantFacts
<1>3. QED BY <1>1, <1>2, SumUpdate

(* No controller's locked shares change and the escrow loses none.         *)
LEMMA SharesStillCovered ==
  ASSUME TypeOK, TypeOK', EscrowCoversShares,
         \A c \in Users : LockedShares'[c] = LockedShares[c],
         balance'[Escrow] >= balance[Escrow]
  PROVE  EscrowCoversShares'
<1>1. SumOver(LockedShares', Users) = SumOver(LockedShares, Users)
  BY SumSame
<1>2. SumOver(LockedShares, Users) \in Nat /\ balance[Escrow] \in Nat /\ balance'[Escrow] \in Nat
  BY LockedType, ConstantFacts DEF TypeOK
<1>3. QED BY <1>1, <1>2 DEF EscrowCoversShares

(* One controller's locked shares and the escrow's move by the same amount.*)
LEMMA SharesMoveTogether ==
  ASSUME TypeOK, TypeOK', EscrowCoversShares, NEW c \in Users,
         \A d \in Users \ {c} : LockedShares'[d] = LockedShares[d],
         balance'[Escrow] - balance[Escrow] >= LockedShares'[c] - LockedShares[c]
  PROVE  EscrowCoversShares'
<1>1. /\ LockedShares \in [Users -> Nat] /\ LockedShares' \in [Users -> Nat]
      /\ SumOver(LockedShares, Users) \in Nat
  BY LockedType, LockedTypeNext
<1>2. SumOver(LockedShares', Users)
        = SumOver(LockedShares, Users) - LockedShares[c] + LockedShares'[c]
  BY <1>1, UserSumUpdate
<1>3. balance[Escrow] \in Nat /\ balance'[Escrow] \in Nat
  BY ConstantFacts DEF TypeOK
<1>4. LockedShares[c] \in Nat /\ LockedShares'[c] \in Nat
  BY <1>1
<1>5. QED BY <1>1, <1>2, <1>3, <1>4 DEF EscrowCoversShares

LEMMA AssetsStillCovered ==
  ASSUME TypeOK, TypeOK', EscrowCoversAssets,
         \A c \in Users : ClaimableAssets'[c] = ClaimableAssets[c],
         escrowAssets' = escrowAssets
  PROVE  EscrowCoversAssets'
<1>1. SumOver(ClaimableAssets', Users) = SumOver(ClaimableAssets, Users)
  BY SumSame
<1>2. QED BY <1>1 DEF EscrowCoversAssets

LEMMA AssetsMoveTogether ==
  ASSUME TypeOK, TypeOK', EscrowCoversAssets, NEW c \in Users,
         \A d \in Users \ {c} : ClaimableAssets'[d] = ClaimableAssets[d],
         escrowAssets' - escrowAssets >= ClaimableAssets'[c] - ClaimableAssets[c]
  PROVE  EscrowCoversAssets'
<1>1. /\ ClaimableAssets \in [Users -> Nat] /\ ClaimableAssets' \in [Users -> Nat]
      /\ SumOver(ClaimableAssets, Users) \in Nat
  BY LockedType, LockedTypeNext
<1>2. SumOver(ClaimableAssets', Users)
        = SumOver(ClaimableAssets, Users) - ClaimableAssets[c] + ClaimableAssets'[c]
  BY <1>1, UserSumUpdate
<1>3. escrowAssets \in Nat /\ escrowAssets' \in Nat
  BY DEF TypeOK
<1>4. ClaimableAssets[c] \in Nat /\ ClaimableAssets'[c] \in Nat
  BY <1>1
<1>5. QED BY <1>1, <1>2, <1>3, <1>4 DEF EscrowCoversAssets

(* A step that leaves the users' records alone.                            *)
LEMMA RecordsUntouched ==
  ASSUME IInv, TypeOK', superVaultState' = superVaultState,
         balance'[Escrow] >= balance[Escrow], escrowAssets' = escrowAssets
  PROVE  IInv'
<1>1. RecordsConsistent'
  BY DEF IInv, RecordsConsistent
<1>2. \A c \in Users : /\ LockedShares'[c] = LockedShares[c]
                       /\ ClaimableAssets'[c] = ClaimableAssets[c]
  BY DEF LockedShares, ClaimableAssets
<1>3. EscrowCoversShares'
  BY <1>2, SharesStillCovered DEF IInv
<1>4. EscrowCoversAssets'
  BY <1>2, AssetsStillCovered DEF IInv
<1>5. QED BY <1>1, <1>3, <1>4 DEF IInv

-----------------------------------------------------------------------------
(* The inductive invariant, action by action.                              *)

LEMMA RequestRedeemInv ==
  ASSUME IInv, TypeOK', NEW u \in Users, NEW c \in Users, NEW n \in Nat \ {0},
         RequestRedeem(u, c, n)
  PROVE  IInv'
<1> DEFINE s == superVaultState[c]
<1> DEFINE v == AverageRequestPPS(s, n)
<1> DEFINE m == s.pendingRedeemRequest + n
<1> USE ConstantFacts
<1>1. s \in VaultStates /\ balance[Escrow] \in Nat /\ c # Escrow
  BY DEF IInv, TypeOK
<1>2. v \in Nat \ {0}
  BY AverageRequestType DEF IInv
<1>3. m \in Nat \ {0}
  BY <1>1 DEF VaultStates
<1>4. superVaultState' = [superVaultState EXCEPT ![c] =
        [s EXCEPT !.averageRequestPPS = v, !.pendingRedeemRequest = m]]
  BY DEF RequestRedeem
<1>5. /\ ~s.pendingCancelRedeemRequest
      /\ balance' = Move(c, Escrow, n) /\ escrowAssets' = escrowAssets
      /\ balance[c] >= n
  BY DEF RequestRedeem
<1>6. s.claimableCancelRedeemRequest = 0
  BY <1>1, <1>5 DEF IInv, RecordsConsistent, RecordConsistent, VaultStates
<1>7. balance'[Escrow] = balance[Escrow] + n
  BY <1>1, <1>5, MoveType DEF IInv, TypeOK
<1>8. /\ superVaultState'[c].pendingRedeemRequest = m
      /\ superVaultState'[c].averageRequestPPS = v
      /\ superVaultState'[c].claimableCancelRedeemRequest = 0
      /\ ~superVaultState'[c].pendingCancelRedeemRequest
      /\ superVaultState'[c].maxWithdraw = s.maxWithdraw
      /\ \A d \in Users \ {c} : superVaultState'[d] = superVaultState[d]
  <2> HIDE DEF m, v
  <2>1. QED BY <1>1, <1>4, <1>5, <1>6 DEF IInv, TypeOK, VaultStates
<1>9. RecordsConsistent'
  <2> HIDE DEF m, v, s
  <2>1. RecordConsistent(superVaultState[c])'
    BY <1>2, <1>3, <1>8 DEF RecordConsistent
  <2>2. \A d \in Users \ {c} : RecordConsistent(superVaultState[d])'
    BY <1>8 DEF IInv, RecordsConsistent, RecordConsistent
  <2>3. QED BY <2>1, <2>2 DEF RecordsConsistent
<1>10. EscrowCoversShares'
  <2>1. \A d \in Users \ {c} : LockedShares'[d] = LockedShares[d]
    BY <1>8 DEF LockedShares
  <2>2. LockedShares'[c] = LockedShares[c] + n
    BY <1>1, <1>6, <1>8 DEF LockedShares, VaultStates
  <2>3. LockedShares[c] \in Nat
    BY LockedType DEF IInv
  <2>4. balance'[Escrow] - balance[Escrow] >= LockedShares'[c] - LockedShares[c]
    BY <1>1, <1>7, <2>2, <2>3
  <2>5. QED BY <2>1, <2>4, SharesMoveTogether DEF IInv
<1>11. EscrowCoversAssets'
  <2>1. \A d \in Users : ClaimableAssets'[d] = ClaimableAssets[d]
    BY <1>8 DEF ClaimableAssets
  <2>2. QED BY <1>5, <2>1, AssetsStillCovered DEF IInv
<1>12. QED BY <1>9, <1>10, <1>11 DEF IInv

LEMMA CancelRedeemRequestInv ==
  ASSUME IInv, TypeOK', NEW u \in Users, NEW c \in Users, CancelRedeemRequest(u, c)
  PROVE  IInv'
<1> DEFINE s == superVaultState[c]
<1>1. /\ superVaultState'[c].pendingRedeemRequest = s.pendingRedeemRequest
      /\ superVaultState'[c].averageRequestPPS = s.averageRequestPPS
      /\ superVaultState'[c].claimableCancelRedeemRequest = s.claimableCancelRedeemRequest
      /\ superVaultState'[c].pendingCancelRedeemRequest
      /\ superVaultState'[c].maxWithdraw = s.maxWithdraw
      /\ \A d \in Users \ {c} : superVaultState'[d] = superVaultState[d]
      /\ s.pendingRedeemRequest \in Nat \ {0}
      /\ s.claimableCancelRedeemRequest \in Nat
  BY DEF CancelRedeemRequest, IInv, TypeOK, VaultStates
<1>2. RecordsConsistent'
  <2>1. ~s.pendingCancelRedeemRequest
    BY DEF CancelRedeemRequest
  <2>2. s.claimableCancelRedeemRequest = 0
    BY <1>1, <2>1 DEF IInv, RecordsConsistent, RecordConsistent
  <2>3. RecordConsistent(superVaultState[c])'
    BY <1>1, <2>2 DEF IInv, RecordsConsistent, RecordConsistent
  <2>4. \A d \in Users \ {c} : RecordConsistent(superVaultState[d])'
    BY <1>1 DEF IInv, RecordsConsistent, RecordConsistent
  <2>5. QED BY <2>3, <2>4 DEF RecordsConsistent
<1>3. EscrowCoversShares'
  <2>1. \A d \in Users : LockedShares'[d] = LockedShares[d]
    BY <1>1 DEF LockedShares
  <2>2. balance'[Escrow] >= balance[Escrow]
    BY ConstantFacts DEF CancelRedeemRequest, IInv, TypeOK
  <2>3. QED BY <2>1, <2>2, SharesStillCovered DEF IInv
<1>4. EscrowCoversAssets'
  <2>1. \A d \in Users : ClaimableAssets'[d] = ClaimableAssets[d]
    BY <1>1 DEF ClaimableAssets
  <2>2. QED BY <2>1, AssetsStillCovered DEF IInv, CancelRedeemRequest
<1>5. QED BY <1>2, <1>3, <1>4 DEF IInv

LEMMA ClaimCancelInv ==
  ASSUME IInv, TypeOK', NEW u \in Users, NEW c \in Users, NEW r \in Accounts,
         ClaimCancelRedeemRequest(u, c, r)
  PROVE  IInv'
<1> DEFINE s == superVaultState[c]
<1> DEFINE n == s.claimableCancelRedeemRequest
<1> USE ConstantFacts
<1>1. s \in VaultStates /\ balance[Escrow] \in Nat /\ n \in Nat \ {0}
  BY DEF ClaimCancelRedeemRequest, IInv, TypeOK, VaultStates
<1>2. /\ balance[Escrow] >= n /\ balance' = Move(Escrow, r, n)
      /\ escrowAssets' = escrowAssets
  BY DEF ClaimCancelRedeemRequest, ClaimableCancel
<1>3. balance'[Escrow] >= balance[Escrow] - n
  <2>1. balance \in [Accounts -> Nat] /\ n \in Nat
    BY <1>1 DEF IInv, TypeOK
  <2>2. CASE r = Escrow
    BY <1>1, <1>2, <2>2 DEF Move
  <2>3. CASE r # Escrow
    <3> HIDE DEF n
    <3>1. Move(Escrow, r, n)[Escrow] = balance[Escrow] - n
      BY <1>2, <2>1, <2>3, MoveType
    <3>2. QED BY <1>1, <1>2, <3>1
  <2>4. QED BY <2>2, <2>3
<1>4. s.pendingRedeemRequest = 0 /\ s.averageRequestPPS = 0
  BY <1>1 DEF IInv, RecordsConsistent, RecordConsistent, VaultStates
<1>5. /\ superVaultState'[c].pendingRedeemRequest = 0
      /\ superVaultState'[c].averageRequestPPS = 0
      /\ superVaultState'[c].claimableCancelRedeemRequest = 0
      /\ ~superVaultState'[c].pendingCancelRedeemRequest
      /\ superVaultState'[c].maxWithdraw = s.maxWithdraw
      /\ \A d \in Users \ {c} : superVaultState'[d] = superVaultState[d]
  BY <1>1, <1>4 DEF ClaimCancelRedeemRequest, IInv, TypeOK, VaultStates
<1>6. RecordsConsistent'
  <2>1. RecordConsistent(superVaultState[c])'
    BY <1>5 DEF RecordConsistent
  <2>2. \A d \in Users \ {c} : RecordConsistent(superVaultState[d])'
    BY <1>5 DEF IInv, RecordsConsistent, RecordConsistent
  <2>3. QED BY <2>1, <2>2 DEF RecordsConsistent
<1>7. EscrowCoversShares'
  <2>1. \A d \in Users \ {c} : LockedShares'[d] = LockedShares[d]
    BY <1>5 DEF LockedShares
  <2>2. LockedShares[c] = n /\ LockedShares'[c] = 0
    BY <1>1, <1>4, <1>5 DEF LockedShares
  <2>3. balance'[Escrow] \in Nat
    BY DEF TypeOK
  <2>4. balance'[Escrow] - balance[Escrow] >= LockedShares'[c] - LockedShares[c]
    BY <1>1, <1>3, <2>2, <2>3
  <2>5. QED BY <2>1, <2>4, SharesMoveTogether DEF IInv
<1>8. EscrowCoversAssets'
  <2>1. \A d \in Users : ClaimableAssets'[d] = ClaimableAssets[d]
    BY <1>5 DEF ClaimableAssets
  <2>2. QED BY <1>2, <2>1, AssetsStillCovered DEF IInv
<1>9. QED BY <1>6, <1>7, <1>8 DEF IInv

LEMMA ClaimInv ==
  ASSUME IInv, TypeOK', NEW c \in Users, NEW a \in Nat,
         NEW r \in Users \cup {Escrow, Strategy}, Claim(c, a, r)
  PROVE  IInv'
<1> DEFINE s == superVaultState[c]
<1>1. /\ superVaultState'[c].pendingRedeemRequest = s.pendingRedeemRequest
      /\ superVaultState'[c].averageRequestPPS = s.averageRequestPPS
      /\ superVaultState'[c].claimableCancelRedeemRequest = s.claimableCancelRedeemRequest
      /\ superVaultState'[c].pendingCancelRedeemRequest = s.pendingCancelRedeemRequest
      /\ superVaultState'[c].maxWithdraw = s.maxWithdraw - a
      /\ \A d \in Users \ {c} : superVaultState'[d] = superVaultState[d]
  BY DEF Claim, IInv, TypeOK, VaultStates
<1>2. RecordsConsistent'
  <2>1. RecordConsistent(superVaultState[c])'
    BY <1>1 DEF IInv, RecordsConsistent, RecordConsistent
  <2>2. \A d \in Users \ {c} : RecordConsistent(superVaultState[d])'
    BY <1>1 DEF IInv, RecordsConsistent, RecordConsistent
  <2>3. QED BY <2>1, <2>2 DEF RecordsConsistent
<1>3. EscrowCoversShares'
  <2>1. \A d \in Users : LockedShares'[d] = LockedShares[d]
    BY <1>1 DEF LockedShares
  <2>2. balance'[Escrow] >= balance[Escrow]
    BY ConstantFacts DEF Claim, IInv, TypeOK
  <2>3. QED BY <2>1, <2>2, SharesStillCovered DEF IInv
<1>4. EscrowCoversAssets'
  <2>1. \A d \in Users \ {c} : ClaimableAssets'[d] = ClaimableAssets[d]
    BY <1>1 DEF ClaimableAssets
  <2>2. ClaimableAssets[c] = s.maxWithdraw /\ ClaimableAssets'[c] = s.maxWithdraw - a
    BY <1>1 DEF ClaimableAssets
  <2>3. s.maxWithdraw \in Nat
    BY DEF IInv, TypeOK, VaultStates
  <2>4. escrowAssets \in Nat /\ escrowAssets' >= escrowAssets - a /\ escrowAssets' \in Nat
    BY DEF Claim, IInv, TypeOK
  <2>5. escrowAssets' - escrowAssets >= ClaimableAssets'[c] - ClaimableAssets[c]
    BY <2>2, <2>3, <2>4
  <2>6. QED BY <2>1, <2>5, AssetsMoveTogether DEF IInv
<1>5. QED BY <1>2, <1>3, <1>4 DEF IInv

LEMMA SlippageInv ==
  ASSUME IInv, TypeOK', NEW c \in Users, NEW b, SetRedeemSlippage(c, b)
  PROVE  IInv'
<1>1. \A d \in Users :
        /\ superVaultState'[d].pendingRedeemRequest = superVaultState[d].pendingRedeemRequest
        /\ superVaultState'[d].averageRequestPPS = superVaultState[d].averageRequestPPS
        /\ superVaultState'[d].claimableCancelRedeemRequest
             = superVaultState[d].claimableCancelRedeemRequest
        /\ superVaultState'[d].pendingCancelRedeemRequest
             = superVaultState[d].pendingCancelRedeemRequest
        /\ superVaultState'[d].maxWithdraw = superVaultState[d].maxWithdraw
  BY DEF SetRedeemSlippage, IInv, TypeOK, VaultStates
<1>2. RecordsConsistent'
  BY <1>1 DEF IInv, RecordsConsistent, RecordConsistent
<1>3. EscrowCoversShares'
  <2>1. \A d \in Users : LockedShares'[d] = LockedShares[d]
    BY <1>1 DEF LockedShares
  <2>2. balance'[Escrow] >= balance[Escrow]
    BY ConstantFacts DEF SetRedeemSlippage, IInv, TypeOK
  <2>3. QED BY <2>1, <2>2, SharesStillCovered DEF IInv
<1>4. EscrowCoversAssets'
  <2>1. \A d \in Users : ClaimableAssets'[d] = ClaimableAssets[d]
    BY <1>1 DEF ClaimableAssets
  <2>2. QED BY <2>1, AssetsStillCovered DEF IInv, SetRedeemSlippage
<1>5. QED BY <1>2, <1>3, <1>4 DEF IInv

LEMMA FulfillCancelInv ==
  ASSUME IInv, TypeOK', NEW S \in SUBSET Users, FulfillCancelRedeemRequests(S)
  PROVE  IInv'
<1>1. \A c \in Users : superVaultState[c] \in VaultStates
  BY DEF IInv, TypeOK
<1>2. \A c \in Users :
        \/ superVaultState'[c] = superVaultState[c]
        \/ /\ superVaultState[c].pendingCancelRedeemRequest
           /\ superVaultState'[c] = FulfillCancel(superVaultState[c])
  BY DEF FulfillCancelRedeemRequests, FulfillCancel
<1>3. ASSUME NEW s \in VaultStates, RecordConsistent(s), s.pendingCancelRedeemRequest
      PROVE  LET t == FulfillCancel(s)
             IN  /\ RecordConsistent(t)
                 /\ t.pendingRedeemRequest + t.claimableCancelRedeemRequest
                      = s.pendingRedeemRequest + s.claimableCancelRedeemRequest
                 /\ t.maxWithdraw = s.maxWithdraw
  <2> DEFINE t == FulfillCancel(s)
  <2>1. /\ t.pendingRedeemRequest = 0
        /\ t.averageRequestPPS = 0
        /\ t.claimableCancelRedeemRequest
             = s.claimableCancelRedeemRequest + s.pendingRedeemRequest
        /\ t.pendingCancelRedeemRequest
        /\ t.maxWithdraw = s.maxWithdraw
    BY <1>3 DEF FulfillCancel, VaultStates
  <2>2. s.claimableCancelRedeemRequest \in Nat /\ s.pendingRedeemRequest \in Nat
    BY DEF VaultStates
  <2> HIDE DEF t
  <2>3. t.pendingRedeemRequest + t.claimableCancelRedeemRequest
          = s.pendingRedeemRequest + s.claimableCancelRedeemRequest
    BY <2>1, <2>2
  <2>4. RecordConsistent(t)
    BY <1>3, <2>1, <2>2 DEF RecordConsistent
  <2>5. QED BY <2>1, <2>3, <2>4 DEF t
<1>4. \A c \in Users :
        /\ RecordConsistent(superVaultState[c])'
        /\ LockedShares'[c] = LockedShares[c]
        /\ ClaimableAssets'[c] = ClaimableAssets[c]
  <2>1. TAKE c \in Users
  <2>2. CASE superVaultState'[c] = superVaultState[c]
    BY <2>2 DEF IInv, RecordsConsistent, RecordConsistent, LockedShares, ClaimableAssets
  <2>3. CASE /\ superVaultState[c].pendingCancelRedeemRequest
             /\ superVaultState'[c] = FulfillCancel(superVaultState[c])
    <3>1. superVaultState[c] \in VaultStates /\ RecordConsistent(superVaultState[c])
      BY <1>1 DEF IInv, RecordsConsistent
    <3>2. /\ RecordConsistent(superVaultState'[c])
          /\ superVaultState'[c].pendingRedeemRequest
               + superVaultState'[c].claimableCancelRedeemRequest
             = superVaultState[c].pendingRedeemRequest
               + superVaultState[c].claimableCancelRedeemRequest
          /\ superVaultState'[c].maxWithdraw = superVaultState[c].maxWithdraw
      BY <1>3, <2>3, <3>1
    <3>3. QED BY <3>2 DEF LockedShares, ClaimableAssets
  <2>4. QED BY <1>2, <2>2, <2>3
<1>5. RecordsConsistent'
  BY <1>4 DEF RecordsConsistent
<1>6. balance'[Escrow] >= balance[Escrow] /\ escrowAssets' = escrowAssets
  BY ConstantFacts DEF FulfillCancelRedeemRequests, IInv, TypeOK
<1>7. EscrowCoversShares'
  BY <1>4, <1>6, SharesStillCovered DEF IInv
<1>8. EscrowCoversAssets'
  BY <1>4, <1>6, AssetsStillCovered DEF IInv
<1>9. QED BY <1>5, <1>7, <1>8 DEF IInv

(* A function that gives up, over the members of a set, the values of      *)
(* another one loses exactly their sum.                                    *)
LEMMA BatchSum ==
  ASSUME NEW f \in [Users -> Nat], NEW h \in [Users -> Nat], NEW S \in SUBSET Users,
         NEW g, \A c \in S : g[c] \in Nat /\ h[c] = f[c] + g[c],
         \A c \in Users \ S : h[c] = f[c]
  PROVE  SumOver(h, Users) = SumOver(f, Users) + SumOver(g, S)
<1> DEFINE k == [c \in Users |-> IF c \in S THEN g[c] ELSE 0]
<1>1. /\ IsFiniteSet(Users) /\ \A c \in Users : k[c] \in Nat
  BY ConstantFacts
<1>2. \A c \in Users : f[c] \in Nat /\ k[c] \in Nat /\ h[c] = f[c] + k[c]
  OBVIOUS
<1>3. (\A c \in S : k[c] = g[c]) /\ \A c \in Users \ S : k[c] = 0
  OBVIOUS
<1> HIDE DEF k
<1>4. SumOver(h, Users) = SumOver(f, Users) + SumOver(k, Users)
  BY <1>1, <1>2, SumAdd
<1>5. /\ SumOver(k, Users) = SumOver(k, S) + SumOver(k, Users \ S)
      /\ SumOver(k, S) \in Nat /\ SumOver(k, Users \ S) \in Nat
  <2>1. S \subseteq Users
    OBVIOUS
  <2>2. IsFiniteSet(Users)
    BY <1>1
  <2>3. \A c \in Users : k[c] \in Nat
    BY <1>1
  <2>4. QED BY ONLY <2>1, <2>2, <2>3, SumSubset
<1>6. SumOver(k, Users \ S) = 0
  BY <1>3, SumZero
<1>7. SumOver(k, S) = SumOver(g, S)
  BY <1>3, SumSame
<1>8. QED BY <1>4, <1>5, <1>6, <1>7

LEMMA FulfillInv ==
  ASSUME IInv, TypeOK', NEW S \in SUBSET Users, NEW out \in [S -> 0 .. MaxAssets],
         FulfillRedeemRequests(S, out)
  PROVE  IInv'
<1> USE ConstantFacts
<1>1. \A c \in Users : superVaultState[c] \in VaultStates
  BY DEF IInv, TypeOK
<1>2. /\ \A c \in S : superVaultState'[c] = Fulfilled(superVaultState[c], out[c])
      /\ \A c \in Users \ S : superVaultState'[c] = superVaultState[c]
      /\ \A c \in S : superVaultState[c].pendingRedeemRequest # 0
  BY DEF FulfillRedeemRequests
<1>3. \A c \in S :
        /\ superVaultState'[c].pendingRedeemRequest = 0
        /\ superVaultState'[c].averageRequestPPS = 0
        /\ superVaultState'[c].claimableCancelRedeemRequest = 0
        /\ ~superVaultState'[c].pendingCancelRedeemRequest
        /\ superVaultState'[c].maxWithdraw = superVaultState[c].maxWithdraw + out[c]
  <2>1. TAKE c \in S
  <2>2. superVaultState'[c] = Fulfilled(superVaultState[c], out[c])
    BY <1>2
  <2>3. QED BY <2>2 DEF Fulfilled
<1>4. \A c \in S : superVaultState[c].claimableCancelRedeemRequest = 0
  BY <1>1, <1>2 DEF IInv, RecordsConsistent, RecordConsistent, VaultStates
<1>5. \A c \in S : PendingShares[c] \in Nat /\ out[c] \in Nat
  BY <1>1 DEF PendingShares, VaultStates
<1>6. SumOver(PendingShares, S) \in Nat /\ SumOver(out, S) \in Nat
  <2>1. IsFiniteSet(S)
    BY FS_Subset
  <2>2. QED BY <1>5, <2>1, SumType
<1>7. RecordsConsistent'
  <2>1. \A c \in S : RecordConsistent(superVaultState[c])'
    BY <1>3 DEF RecordConsistent
  <2>2. \A c \in Users \ S : RecordConsistent(superVaultState[c])'
    BY <1>2 DEF IInv, RecordsConsistent, RecordConsistent
  <2>3. QED BY <2>1, <2>2 DEF RecordsConsistent
<1>8. EscrowCoversShares'
  <2>1. LockedShares \in [Users -> Nat] /\ LockedShares' \in [Users -> Nat]
    BY LockedType, LockedTypeNext DEF IInv
  <2>2. \A c \in S : LockedShares[c] = LockedShares'[c] + PendingShares[c]
    BY <1>1, <1>3, <1>4 DEF LockedShares, PendingShares, VaultStates
  <2>3. \A c \in Users \ S : LockedShares[c] = LockedShares'[c]
    BY <1>2 DEF LockedShares
  <2>4. SumOver(LockedShares, Users)
          = SumOver(LockedShares', Users) + SumOver(PendingShares, S)
    BY <1>5, <2>1, <2>2, <2>3, BatchSum
  <2>5. SumOver(LockedShares', Users) \in Nat /\ balance[Escrow] \in Nat
    BY <2>1, SumType DEF IInv, TypeOK
  <2>6. balance'[Escrow] = balance[Escrow] - SumOver(PendingShares, S)
    BY DEF FulfillRedeemRequests, IInv, TypeOK
  <2>7. QED BY <1>6, <2>4, <2>5, <2>6 DEF IInv, EscrowCoversShares
<1>9. EscrowCoversAssets'
  <2>1. ClaimableAssets \in [Users -> Nat] /\ ClaimableAssets' \in [Users -> Nat]
    BY LockedType, LockedTypeNext DEF IInv
  <2>2. \A c \in S : ClaimableAssets'[c] = ClaimableAssets[c] + out[c]
    BY <1>3 DEF ClaimableAssets
  <2>3. \A c \in Users \ S : ClaimableAssets'[c] = ClaimableAssets[c]
    BY <1>2 DEF ClaimableAssets
  <2>4. SumOver(ClaimableAssets', Users)
          = SumOver(ClaimableAssets, Users) + SumOver(out, S)
    BY <1>5, <2>1, <2>2, <2>3, BatchSum
  <2>5. SumOver(ClaimableAssets, Users) \in Nat /\ escrowAssets \in Nat
    BY <2>1, SumType DEF IInv, TypeOK
  <2>6. escrowAssets' = escrowAssets + SumOver(out, S)
    BY DEF FulfillRedeemRequests
  <2>7. QED BY <1>6, <2>4, <2>5, <2>6 DEF IInv, EscrowCoversAssets
<1>10. QED BY <1>7, <1>8, <1>9 DEF IInv

-----------------------------------------------------------------------------
(* The theorems.                                                           *)

LEMMA InitInv == Init => IInv
<1> SUFFICES ASSUME Init PROVE IInv
  OBVIOUS
<1>1. TypeOK
  BY InitType
<1>2. \A c \in Users : superVaultState[c] = NoRequest
  BY DEF Init
<1>3. RecordsConsistent
  BY <1>2 DEF RecordsConsistent, RecordConsistent, NoRequest
<1>4. \A c \in Users : LockedShares[c] = 0 /\ ClaimableAssets[c] = 0
  BY <1>2 DEF NoRequest, LockedShares, ClaimableAssets
<1>5. SumOver(LockedShares, Users) = 0 /\ SumOver(ClaimableAssets, Users) = 0
  BY <1>4, SumZero
<1>6. balance[Escrow] = 0 /\ escrowAssets = 0
  BY ConstantFacts DEF Init
<1>7. QED BY <1>1, <1>3, <1>5, <1>6 DEF IInv, EscrowCoversShares, EscrowCoversAssets

LEMMA UserStepInv == IInv /\ UserStep => IInv'
<1> SUFFICES ASSUME IInv, UserStep
             PROVE  IInv'
  OBVIOUS
<1> USE ConstantFacts
<1>1. TypeOK'
  BY UserStepType DEF IInv
<1>2. balance \in [Accounts -> Nat] /\ balance' \in [Accounts -> Nat]
  BY <1>1 DEF IInv, TypeOK
<1>3. ASSUME NEW r \in Accounts, NEW n \in 1 .. MaxAssets, Deposit(r, n)
      PROVE  IInv'
  <2> DEFINE shares == DepositShares(n, ManagementFeeBps, pps)
  <2>1. /\ n \in Nat /\ pps \in Nat \ {0}
        /\ n - DepositFee(n, ManagementFeeBps) > 0
    BY <1>3 DEF Deposit, IInv, TypeOK
  <2>2. shares \in Nat
    BY <2>1, DepositTypes
  <2>3. /\ balance' = [balance EXCEPT ![r] = @ + shares]
        /\ superVaultState' = superVaultState /\ escrowAssets' = escrowAssets
    BY <1>3 DEF Deposit
  <2> HIDE DEF shares
  <2>4. balance'[Escrow] >= balance[Escrow]
    BY <1>2, <2>2, <2>3
  <2>5. QED BY <1>1, <2>3, <2>4, RecordsUntouched
<1>4. ASSUME NEW r \in Accounts, NEW n \in 1 .. MaxShares, Mint(r, n)
      PROVE  IInv'
  <2>1. balance'[Escrow] >= balance[Escrow]
    BY <1>2, <1>4 DEF Mint
  <2>2. QED BY <1>1, <1>4, <2>1, RecordsUntouched DEF Mint
<1>5. ASSUME NEW u \in Users, NEW c \in Users, NEW n \in 1 .. MaxShares, RequestRedeem(u, c, n)
      PROVE  IInv'
  BY <1>1, <1>5, RequestRedeemInv
<1>6. ASSUME NEW u \in Users, NEW c \in Users, CancelRedeemRequest(u, c)
      PROVE  IInv'
  BY <1>1, <1>6, CancelRedeemRequestInv
<1>7. ASSUME NEW u \in Users, NEW c \in Users, NEW r \in Accounts,
             ClaimCancelRedeemRequest(u, c, r)
      PROVE  IInv'
  BY <1>1, <1>7, ClaimCancelInv
<1>8. ASSUME NEW u \in Users, NEW c \in Users, NEW n \in 1 .. MaxAssets,
             NEW r \in Users \cup {Escrow, Strategy}, Withdraw(u, c, n, r)
      PROVE  IInv'
  BY <1>1, <1>8, ClaimInv DEF Withdraw
<1>9. ASSUME NEW u \in Users, NEW c \in Users, NEW n \in 1 .. MaxShares,
             NEW r \in Users \cup {Escrow, Strategy}, Redeem(u, c, n, r)
      PROVE  IInv'
  <2> DEFINE a == RedeemAssets(n, superVaultState[c].averageWithdrawPrice)
  <2>1. superVaultState[c].averageWithdrawPrice \in Nat /\ n \in Nat
    BY DEF IInv, TypeOK, VaultStates
  <2>2. a \in Nat
    BY <2>1, MulDivType DEF RedeemAssets
  <2>3. Claim(c, a, r)
    BY <1>9 DEF Redeem
  <2>4. QED BY <1>1, <2>2, <2>3, ClaimInv
<1>10. ASSUME NEW c \in Users, NEW u \in Operators, NEW b \in BOOLEAN, SetOperator(c, u, b)
       PROVE  IInv'
  <2>1. balance'[Escrow] >= balance[Escrow]
    BY <1>2, <1>10 DEF SetOperator
  <2>2. QED BY <1>1, <1>10, <2>1, RecordsUntouched DEF SetOperator
<1>11. ASSUME NEW c \in Users, NEW b \in SlippageChoices, SetRedeemSlippage(c, b)
       PROVE  IInv'
  BY <1>1, <1>11, SlippageInv
<1>12. ASSUME NEW u \in Users, NEW to \in Accounts, NEW n \in 1 .. MaxShares,
              Transfer(u, to, n)
       PROVE  IInv'
  <2>1. balance'[Escrow] >= balance[Escrow]
    BY <1>2, <1>12 DEF Transfer, Move
  <2>2. QED BY <1>1, <1>12, <2>1, RecordsUntouched DEF Transfer
<1>13. QED
  BY <1>3, <1>4, <1>5, <1>6, <1>7, <1>8, <1>9, <1>10, <1>11, <1>12 DEF UserStep

LEMMA ManagerStepInv == IInv /\ ManagerStep => IInv'
<1> SUFFICES ASSUME IInv, ManagerStep
             PROVE  IInv'
  OBVIOUS
<1>1. TypeOK'
  BY ManagerStepType DEF IInv
<1>2. QED BY <1>1, FulfillCancelInv, FulfillInv DEF ManagerStep

LEMMA EnvironmentStepInv == IInv /\ EnvironmentStep => IInv'
<1> SUFFICES ASSUME IInv, EnvironmentStep
             PROVE  IInv'
  OBVIOUS
<1>1. TypeOK'
  BY EnvironmentStepType DEF IInv
<1>2. /\ superVaultState' = superVaultState /\ escrowAssets' = escrowAssets
      /\ balance' = balance
  BY DEF EnvironmentStep, PriceFeedStep, StrategyAssetsMove
<1>3. balance'[Escrow] >= balance[Escrow]
  BY <1>2, ConstantFacts DEF IInv, TypeOK
<1>4. QED BY <1>1, <1>2, <1>3, RecordsUntouched

LEMMA NextInv == IInv /\ [Next]_vars => IInv'
<1>1. IInv /\ Next => IInv'
  BY UserStepInv, ManagerStepInv, EnvironmentStepInv DEF Next
<1>2. IInv /\ UNCHANGED vars => IInv'
  BY DEF vars, IInv, TypeOK, RecordsConsistent, EscrowCoversShares, EscrowCoversAssets,
         LockedShares, ClaimableAssets
<1>3. QED BY <1>1, <1>2

(* Every reachable state satisfies the inductive invariant.                *)
THEOREM Invariance == Spec => []IInv
  BY InitInv, NextInv, PTL DEF Spec

(* The state of the three contracts keeps its types: in particular no      *)
(* balance, pending amount or claim ever goes below zero (the Solidity     *)
(* subtractions never underflow).                                          *)
THEOREM TypeCorrectness == Spec => []TypeOK
<1>1. IInv => TypeOK
  BY DEF IInv
<1>2. QED BY <1>1, Invariance, PTL

(* The fields of each SuperVaultState stay consistent with each other.     *)
THEOREM RecordConsistency == Spec => []RecordsConsistent
<1>1. IInv => RecordsConsistent
  BY DEF IInv
<1>2. QED BY <1>1, Invariance, PTL

(* The escrow always holds the shares that controllers have pending or may *)
(* take back.                                                              *)
THEOREM SharesCovered == Spec => []EscrowCoversShares
<1>1. IInv => EscrowCoversShares
  BY DEF IInv
<1>2. QED BY <1>1, Invariance, PTL

(* The escrow always holds the assets that controllers may withdraw.       *)
THEOREM AssetsCovered == Spec => []EscrowCoversAssets
<1>1. IInv => EscrowCoversAssets
  BY DEF IInv
<1>2. QED BY <1>1, Invariance, PTL

-----------------------------------------------------------------------------
(* The life cycle of a redemption.                                         *)

(* What AsyncRedeem sees of the records.                                   *)
Standing == [c \in Users |-> PhaseOf(superVaultState[c])]

Redeeming == <<Standing, LockedShares, ClaimableAssets>>

(* What a record shows of its redemption, and what makes it so.            *)
LEMMA PhaseMeaning ==
  ASSUME NEW s \in VaultStates, RecordConsistent(s)
  PROVE  /\ PhaseOf(s) \in {"none", "requested", "cancelling", "cancelled"}
         /\ PhaseOf(s) = "cancelled" <=> s.claimableCancelRedeemRequest > 0
         /\ PhaseOf(s) = "cancelling" <=>
              s.pendingRedeemRequest > 0 /\ s.pendingCancelRedeemRequest
         /\ PhaseOf(s) = "requested" <=>
              s.pendingRedeemRequest > 0 /\ ~s.pendingCancelRedeemRequest
         /\ PhaseOf(s) = "none" <=>
              s.pendingRedeemRequest = 0 /\ s.claimableCancelRedeemRequest = 0
<1>1. /\ s.pendingRedeemRequest \in Nat /\ s.claimableCancelRedeemRequest \in Nat
      /\ s.pendingCancelRedeemRequest \in BOOLEAN
  BY DEF VaultStates
<1>2. CASE s.claimableCancelRedeemRequest > 0
  BY <1>1, <1>2 DEF RecordConsistent, PhaseOf
<1>3. CASE s.claimableCancelRedeemRequest = 0 /\ s.pendingRedeemRequest > 0
  BY <1>1, <1>3 DEF PhaseOf
<1>4. CASE s.claimableCancelRedeemRequest = 0 /\ s.pendingRedeemRequest = 0
  BY <1>1, <1>4 DEF PhaseOf
<1>5. QED BY <1>1, <1>2, <1>3, <1>4

LEMMA RecordFacts ==
  ASSUME IInv, NEW c \in Users
  PROVE  /\ superVaultState[c] \in VaultStates /\ RecordConsistent(superVaultState[c])
         /\ superVaultState[c].pendingRedeemRequest \in Nat
         /\ superVaultState[c].claimableCancelRedeemRequest \in Nat
         /\ superVaultState[c].pendingCancelRedeemRequest \in BOOLEAN
         /\ superVaultState[c].maxWithdraw \in Nat
         /\ Standing[c] = PhaseOf(superVaultState[c])
         /\ LockedShares[c] = superVaultState[c].pendingRedeemRequest
                                + superVaultState[c].claimableCancelRedeemRequest
         /\ ClaimableAssets[c] = superVaultState[c].maxWithdraw
  BY DEF IInv, TypeOK, RecordsConsistent, VaultStates, Standing, LockedShares, ClaimableAssets

LEMMA RecordFactsNext ==
  ASSUME IInv', NEW c \in Users
  PROVE  /\ superVaultState'[c] \in VaultStates /\ RecordConsistent(superVaultState'[c])
         /\ Standing'[c] = PhaseOf(superVaultState'[c])
         /\ LockedShares'[c] = superVaultState'[c].pendingRedeemRequest
                                 + superVaultState'[c].claimableCancelRedeemRequest
         /\ ClaimableAssets'[c] = superVaultState'[c].maxWithdraw
         /\ Standing'[c] \in {"none", "requested", "cancelling", "cancelled"}
         /\ LockedShares'[c] \in Nat /\ ClaimableAssets'[c] \in Nat
<1>1. superVaultState'[c] \in VaultStates /\ RecordConsistent(superVaultState'[c])
  BY DEF IInv, TypeOK, RecordsConsistent
<1>2. /\ Standing'[c] = PhaseOf(superVaultState'[c])
      /\ LockedShares'[c] = superVaultState'[c].pendingRedeemRequest
                              + superVaultState'[c].claimableCancelRedeemRequest
      /\ ClaimableAssets'[c] = superVaultState'[c].maxWithdraw
  BY DEF Standing, LockedShares, ClaimableAssets
<1>3. LockedShares'[c] \in Nat /\ ClaimableAssets'[c] \in Nat
  BY <1>1, <1>2 DEF VaultStates
<1>4. QED BY <1>1, <1>2, <1>3, PhaseMeaning

(* The three functions have the users as their domain.                     *)
LEMMA Domains ==
  /\ Standing = [c \in Users |-> Standing[c]] /\ Standing' = [c \in Users |-> Standing'[c]]
  /\ LockedShares = [c \in Users |-> LockedShares[c]]
  /\ LockedShares' = [c \in Users |-> LockedShares'[c]]
  /\ ClaimableAssets = [c \in Users |-> ClaimableAssets[c]]
  /\ ClaimableAssets' = [c \in Users |-> ClaimableAssets'[c]]
<1>1. Standing = [c \in Users |-> Standing[c]] /\ Standing' = [c \in Users |-> Standing'[c]]
  BY DEF Standing
<1>2. /\ LockedShares = [c \in Users |-> LockedShares[c]]
      /\ LockedShares' = [c \in Users |-> LockedShares'[c]]
  BY DEF LockedShares
<1>3. /\ ClaimableAssets = [c \in Users |-> ClaimableAssets[c]]
      /\ ClaimableAssets' = [c \in Users |-> ClaimableAssets'[c]]
  BY DEF ClaimableAssets
<1>4. QED BY <1>1, <1>2, <1>3

LEMMA SameRecordsSameRedeeming ==
  ASSUME \A c \in Users :
           /\ PhaseOf(superVaultState'[c]) = PhaseOf(superVaultState[c])
           /\ LockedShares'[c] = LockedShares[c] /\ ClaimableAssets'[c] = ClaimableAssets[c]
  PROVE  UNCHANGED Redeeming
<1>1. Standing' = Standing
  BY DEF Standing
<1>2. LockedShares' = LockedShares /\ ClaimableAssets' = ClaimableAssets
  BY Domains
<1>3. QED BY <1>1, <1>2 DEF Redeeming

(* A step of one controller leaves the others as they were.                *)
LEMMA OthersStay ==
  ASSUME IInv, IInv', NEW c \in Users, NEW r, superVaultState' = [superVaultState EXCEPT ![c] = r]
  PROVE  /\ superVaultState'[c] = r
         /\ Standing' = [Standing EXCEPT ![c] = PhaseOf(r)]
         /\ \A d \in Users \ {c} : /\ LockedShares'[d] = LockedShares[d]
                                   /\ ClaimableAssets'[d] = ClaimableAssets[d]
<1>1. superVaultState \in [Users -> VaultStates]
  BY DEF IInv, TypeOK
<1>2. superVaultState'[c] = r /\ \A d \in Users \ {c} : superVaultState'[d] = superVaultState[d]
  BY <1>1
<1>3. Standing' = [Standing EXCEPT ![c] = PhaseOf(r)]
  <2>1. \A d \in Users : /\ Standing'[d] = PhaseOf(superVaultState'[d])
                         /\ Standing[d] = PhaseOf(superVaultState[d])
    BY DEF Standing
  <2>2. /\ Standing'[c] = PhaseOf(r)
        /\ \A d \in Users \ {c} : Standing'[d] = Standing[d]
    BY <1>2, <2>1
  <2>3. QED BY <2>2, Domains
<1>4. QED BY <1>2, <1>3 DEF LockedShares, ClaimableAssets

LEMMA RequestRefines ==
  ASSUME IInv, IInv', NEW u \in Users, NEW c \in Users, NEW n \in Nat \ {0},
         RequestRedeem(u, c, n)
  PROVE  Redemption!Request(c)
<1> DEFINE s == superVaultState[c]
           r == [s EXCEPT !.averageRequestPPS = AverageRequestPPS(s, n),
                          !.pendingRedeemRequest = s.pendingRedeemRequest + n]
<1>1. superVaultState' = [superVaultState EXCEPT ![c] = r] /\ ~s.pendingCancelRedeemRequest
  BY DEF RequestRedeem
<1>2. /\ s \in VaultStates /\ RecordConsistent(s)
      /\ s.pendingRedeemRequest \in Nat /\ s.claimableCancelRedeemRequest = 0
      /\ s.maxWithdraw \in Nat
  BY <1>1, RecordFacts DEF RecordConsistent
<1>3. /\ r.pendingRedeemRequest = s.pendingRedeemRequest + n
      /\ r.claimableCancelRedeemRequest = 0 /\ r.maxWithdraw = s.maxWithdraw
      /\ ~r.pendingCancelRedeemRequest
  BY <1>1, <1>2 DEF VaultStates
<1>4. PhaseOf(s) \in {"none", "requested"}
  BY <1>1, <1>2, PhaseMeaning
<1> HIDE DEF r
<1>5. PhaseOf(r) = "requested"
  BY <1>2, <1>3 DEF PhaseOf
<1>6. superVaultState'[c] = r /\ Standing' = [Standing EXCEPT ![c] = "requested"]
  BY <1>1, <1>5, OthersStay
<1>7. \A d \in Users \ {c} : LockedShares'[d] = LockedShares[d]
  BY <1>1, OthersStay
<1>8. LockedShares'[c] > LockedShares[c]
  BY <1>2, <1>3, <1>6, RecordFacts, RecordFactsNext
<1>9. LockedShares' \in [Users -> Nat]
  BY Domains, RecordFactsNext
<1>10. ClaimableAssets' = ClaimableAssets
  <2>1. ClaimableAssets'[c] = ClaimableAssets[c]
    BY <1>3, <1>6, RecordFacts, RecordFactsNext
  <2>2. \A d \in Users \ {c} : ClaimableAssets'[d] = ClaimableAssets[d]
    BY <1>1, OthersStay
  <2>3. QED BY <2>1, <2>2, Domains
<1>11. Standing[c] \in {"none", "requested"}
  BY <1>4, RecordFacts
<1>12. QED BY <1>6, <1>7, <1>8, <1>9, <1>10, <1>11 DEF Redemption!Request, Standing

LEMMA AskCancelRefines ==
  ASSUME IInv, IInv', NEW u \in Users, NEW c \in Users, CancelRedeemRequest(u, c)
  PROVE  Redemption!AskCancel(c)
<1> DEFINE s == superVaultState[c]
           r == [s EXCEPT !.pendingCancelRedeemRequest = TRUE]
<1>1. /\ superVaultState' = [superVaultState EXCEPT ![c] = r]
      /\ s.pendingRedeemRequest # 0 /\ ~s.pendingCancelRedeemRequest
  BY DEF CancelRedeemRequest
<1>2. /\ s \in VaultStates /\ RecordConsistent(s)
      /\ s.pendingRedeemRequest \in Nat /\ s.claimableCancelRedeemRequest = 0
  BY <1>1, RecordFacts DEF RecordConsistent
<1>3. /\ r.pendingRedeemRequest = s.pendingRedeemRequest
      /\ r.claimableCancelRedeemRequest = 0 /\ r.maxWithdraw = s.maxWithdraw
      /\ r.pendingCancelRedeemRequest
  BY <1>2 DEF VaultStates
<1>4. PhaseOf(s) = "requested"
  BY <1>1, <1>2, PhaseMeaning
<1> HIDE DEF r
<1>5. PhaseOf(r) = "cancelling"
  BY <1>1, <1>2, <1>3 DEF PhaseOf
<1>6. superVaultState'[c] = r /\ Standing' = [Standing EXCEPT ![c] = "cancelling"]
  <2>1. superVaultState' = [superVaultState EXCEPT ![c] = r]
    BY <1>1
  <2>2. superVaultState'[c] = r /\ Standing' = [Standing EXCEPT ![c] = PhaseOf(r)]
    BY <2>1, OthersStay
  <2>3. QED BY <1>5, <2>2
<1>7. LockedShares' = LockedShares /\ ClaimableAssets' = ClaimableAssets
  <2>1. LockedShares'[c] = LockedShares[c] /\ ClaimableAssets'[c] = ClaimableAssets[c]
    BY <1>2, <1>3, <1>6, RecordFacts, RecordFactsNext
  <2>2. \A d \in Users \ {c} : /\ LockedShares'[d] = LockedShares[d]
                               /\ ClaimableAssets'[d] = ClaimableAssets[d]
    BY <1>1, OthersStay
  <2>3. QED BY <2>1, <2>2, Domains
<1>8. Standing[c] = "requested"
  BY <1>4, RecordFacts
<1>9. QED BY <1>6, <1>7, <1>8 DEF Redemption!AskCancel, Standing

LEMMA TakeBackRefines ==
  ASSUME IInv, IInv', NEW u \in Users, NEW c \in Users, NEW to \in Accounts,
         ClaimCancelRedeemRequest(u, c, to)
  PROVE  Redemption!TakeBack(c)
<1> DEFINE s == superVaultState[c]
           r == [s EXCEPT !.pendingCancelRedeemRequest = FALSE,
                          !.claimableCancelRedeemRequest = 0]
<1>1. /\ superVaultState' = [superVaultState EXCEPT ![c] = r]
      /\ s.claimableCancelRedeemRequest # 0
  BY DEF ClaimCancelRedeemRequest
<1>2. /\ s \in VaultStates /\ RecordConsistent(s) /\ s.claimableCancelRedeemRequest \in Nat
      /\ s.claimableCancelRedeemRequest > 0 /\ s.pendingRedeemRequest = 0
  BY <1>1, RecordFacts DEF RecordConsistent
<1>3. /\ r.pendingRedeemRequest = 0 /\ r.claimableCancelRedeemRequest = 0
      /\ r.maxWithdraw = s.maxWithdraw
  BY <1>2 DEF VaultStates
<1>4. PhaseOf(s) = "cancelled"
  BY <1>2, PhaseMeaning
<1> HIDE DEF r
<1>5. PhaseOf(r) = "none"
  BY <1>3 DEF PhaseOf
<1>6. superVaultState'[c] = r /\ Standing' = [Standing EXCEPT ![c] = "none"]
  <2>1. superVaultState' = [superVaultState EXCEPT ![c] = r]
    BY <1>1
  <2>2. superVaultState'[c] = r /\ Standing' = [Standing EXCEPT ![c] = PhaseOf(r)]
    BY <2>1, OthersStay
  <2>3. QED BY <1>5, <2>2
<1>7. \A d \in Users \ {c} : /\ LockedShares'[d] = LockedShares[d]
                             /\ ClaimableAssets'[d] = ClaimableAssets[d]
  BY <1>1, OthersStay
<1>8. LockedShares'[c] = 0 /\ ClaimableAssets'[c] = ClaimableAssets[c]
  BY <1>3, <1>6, RecordFacts, RecordFactsNext
<1>9. LockedShares' = [LockedShares EXCEPT ![c] = 0] /\ ClaimableAssets' = ClaimableAssets
  BY <1>7, <1>8, Domains
<1>10. Standing[c] = "cancelled"
  BY <1>4, RecordFacts
<1>11. QED BY <1>6, <1>9, <1>10 DEF Redemption!TakeBack, Standing

LEMMA ClaimRefines ==
  ASSUME IInv, IInv', NEW c \in Users, NEW a \in Nat, NEW to, Claim(c, a, to)
  PROVE  Redemption!ClaimOwed(c)
<1> DEFINE s == superVaultState[c]
           r == [s EXCEPT !.maxWithdraw = s.maxWithdraw - a]
<1>1. /\ superVaultState' = [superVaultState EXCEPT ![c] = r]
      /\ a > 0 /\ a <= s.maxWithdraw
  BY DEF Claim
<1>2. s \in VaultStates /\ s.maxWithdraw \in Nat
  BY RecordFacts
<1>3. /\ r.pendingRedeemRequest = s.pendingRedeemRequest
      /\ r.claimableCancelRedeemRequest = s.claimableCancelRedeemRequest
      /\ r.pendingCancelRedeemRequest = s.pendingCancelRedeemRequest
      /\ r.maxWithdraw = s.maxWithdraw - a
  BY <1>2 DEF VaultStates
<1> HIDE DEF r
<1>4. PhaseOf(r) = PhaseOf(s)
  BY <1>3 DEF PhaseOf
<1>5. /\ superVaultState'[c] = r /\ Standing' = [Standing EXCEPT ![c] = PhaseOf(s)]
      /\ \A d \in Users \ {c} : /\ LockedShares'[d] = LockedShares[d]
                                /\ ClaimableAssets'[d] = ClaimableAssets[d]
  BY <1>1, <1>4, OthersStay
<1>6. Standing[c] = PhaseOf(s)
  BY RecordFacts
<1>7. Standing' = Standing
  BY <1>5, <1>6, Domains
<1>8. LockedShares'[c] = LockedShares[c] /\ ClaimableAssets'[c] < ClaimableAssets[c]
  BY <1>1, <1>2, <1>3, <1>5, RecordFacts, RecordFactsNext
<1>9. LockedShares' = LockedShares
  BY <1>5, <1>8, Domains
<1>10. ClaimableAssets' \in [Users -> Nat]
  BY Domains, RecordFactsNext
<1>11. QED BY <1>5, <1>7, <1>8, <1>9, <1>10 DEF Redemption!ClaimOwed, Standing

LEMMA SlippageRefines ==
  ASSUME IInv, NEW c \in Users, NEW b, SetRedeemSlippage(c, b)
  PROVE  UNCHANGED Redeeming
<1>1. \A d \in Users :
        /\ superVaultState'[d].pendingRedeemRequest = superVaultState[d].pendingRedeemRequest
        /\ superVaultState'[d].claimableCancelRedeemRequest
             = superVaultState[d].claimableCancelRedeemRequest
        /\ superVaultState'[d].pendingCancelRedeemRequest
             = superVaultState[d].pendingCancelRedeemRequest
        /\ superVaultState'[d].maxWithdraw = superVaultState[d].maxWithdraw
  BY DEF SetRedeemSlippage, IInv, TypeOK, VaultStates
<1>2. \A d \in Users : PhaseOf(superVaultState'[d]) = PhaseOf(superVaultState[d])
  BY <1>1 DEF PhaseOf
<1>3. \A d \in Users : /\ LockedShares'[d] = LockedShares[d]
                       /\ ClaimableAssets'[d] = ClaimableAssets[d]
  BY <1>1 DEF LockedShares, ClaimableAssets
<1>4. QED BY <1>2, <1>3, SameRecordsSameRedeeming

(* A cancellation that is granted keeps the shares locked; one that was    *)
(* granted already, or never asked for, stays as it was.                   *)
LEMMA GrantOfRecord ==
  ASSUME NEW s \in VaultStates, RecordConsistent(s)
  PROVE  LET r == FulfillCancel(s)
         IN  /\ PhaseOf(r) # PhaseOf(s) => PhaseOf(s) = "cancelling" /\ PhaseOf(r) = "cancelled"
             /\ r.pendingRedeemRequest + r.claimableCancelRedeemRequest
                  = s.pendingRedeemRequest + s.claimableCancelRedeemRequest
             /\ r.maxWithdraw = s.maxWithdraw
<1> DEFINE r == FulfillCancel(s)
<1>1. /\ s.pendingRedeemRequest \in Nat /\ s.claimableCancelRedeemRequest \in Nat
      /\ s.pendingCancelRedeemRequest \in BOOLEAN
  BY DEF VaultStates
<1>2. CASE ~s.pendingCancelRedeemRequest
  BY <1>2 DEF FulfillCancel
<1>3. CASE s.pendingCancelRedeemRequest
  <2>1. /\ r.pendingRedeemRequest = 0 /\ r.maxWithdraw = s.maxWithdraw
        /\ r.claimableCancelRedeemRequest
             = s.claimableCancelRedeemRequest + s.pendingRedeemRequest
    BY <1>1, <1>3 DEF FulfillCancel, VaultStates
  <2> HIDE DEF r
  <2>2. s.pendingRedeemRequest > 0 \/ s.claimableCancelRedeemRequest > 0
    BY <1>3 DEF RecordConsistent
  <2>3. PhaseOf(r) = "cancelled"
    BY <1>1, <2>1, <2>2 DEF PhaseOf
  <2>4. PhaseOf(s) \in {"cancelling", "cancelled"}
    BY <1>1, <1>3, <2>2, PhaseMeaning
  <2>5. QED BY <1>1, <2>1, <2>3, <2>4 DEF r
<1>4. QED BY <1>1, <1>2, <1>3

LEMMA GrantRefines ==
  ASSUME IInv, IInv', NEW S \in SUBSET Users, FulfillCancelRedeemRequests(S)
  PROVE  Redemption!GrantCancels
<1>1. \A c \in Users : \/ superVaultState'[c] = superVaultState[c]
                       \/ superVaultState'[c] = FulfillCancel(superVaultState[c])
  BY DEF FulfillCancelRedeemRequests
<1>2. ASSUME NEW c \in Users
      PROVE  /\ Standing'[c] # Standing[c] =>
                  Standing[c] = "cancelling" /\ Standing'[c] = "cancelled"
             /\ LockedShares'[c] = LockedShares[c] /\ ClaimableAssets'[c] = ClaimableAssets[c]
  <2>1. CASE superVaultState'[c] = superVaultState[c]
    BY <2>1, RecordFacts, RecordFactsNext
  <2>2. CASE superVaultState'[c] = FulfillCancel(superVaultState[c])
    BY <2>2, RecordFacts, RecordFactsNext, GrantOfRecord
  <2>3. QED BY <1>1, <2>1, <2>2
<1>3. LockedShares' = LockedShares /\ ClaimableAssets' = ClaimableAssets
  BY <1>2, Domains
<1>4. Standing' \in [Users -> {"none", "requested", "cancelling", "cancelled"}]
  BY Domains, RecordFactsNext
<1>5. QED BY <1>2, <1>3, <1>4 DEF Redemption!GrantCancels, Redemption!Phases, Standing

LEMMA FulfilRefines ==
  ASSUME IInv, IInv', NEW S \in SUBSET Users, NEW out \in [S -> 0 .. MaxAssets],
         FulfillRedeemRequests(S, out)
  PROVE  Redemption!Fulfil(S)
<1>1. \A c \in Users : superVaultState'[c] =
        IF c \in S THEN Fulfilled(superVaultState[c], out[c]) ELSE superVaultState[c]
  BY DEF FulfillRedeemRequests
<1>2. ASSUME NEW c \in S
      PROVE  /\ Standing[c] \in {"requested", "cancelling"}
             /\ Standing'[c] = "none" /\ LockedShares'[c] = 0
             /\ ClaimableAssets'[c] >= ClaimableAssets[c]
  <2> DEFINE s == superVaultState[c]
             r == Fulfilled(s, out[c])
  <2>1. s.pendingRedeemRequest # 0 /\ out[c] \in Nat
    BY ConstantFacts DEF FulfillRedeemRequests
  <2>2. /\ s \in VaultStates /\ RecordConsistent(s) /\ s.pendingRedeemRequest \in Nat
        /\ s.maxWithdraw \in Nat /\ s.pendingCancelRedeemRequest \in BOOLEAN
    BY RecordFacts
  <2>3. PhaseOf(s) \in {"requested", "cancelling"}
    BY <2>1, <2>2, PhaseMeaning
  <2>4. /\ r.pendingRedeemRequest = 0 /\ r.claimableCancelRedeemRequest = 0
        /\ r.maxWithdraw = s.maxWithdraw + out[c]
    BY DEF Fulfilled
  <2>5. superVaultState'[c] = r
    BY <1>1
  <2> HIDE DEF r
  <2>6. PhaseOf(r) = "none"
    BY <2>4 DEF PhaseOf
  <2>7. QED BY <2>1, <2>2, <2>3, <2>4, <2>5, <2>6, RecordFacts, RecordFactsNext
<1>3. ASSUME NEW c \in Users \ S
      PROVE  /\ Standing'[c] = Standing[c] /\ LockedShares'[c] = LockedShares[c]
             /\ ClaimableAssets'[c] = ClaimableAssets[c]
  BY <1>1, RecordFacts, RecordFactsNext
<1>4. /\ Standing' = [c \in Users |-> IF c \in S THEN "none" ELSE Standing[c]]
      /\ LockedShares' = [c \in Users |-> IF c \in S THEN 0 ELSE LockedShares[c]]
  BY <1>2, <1>3, Domains
<1>5. ClaimableAssets' \in [Users -> Nat]
  BY Domains, RecordFactsNext
<1>6. QED BY <1>2, <1>3, <1>4, <1>5 DEF Redemption!Fulfil, Standing

(* Steps that leave the records alone.                                     *)
LEMMA RecordsKept ==
  ASSUME superVaultState' = superVaultState
  PROVE  UNCHANGED Redeeming
  BY SameRecordsSameRedeeming DEF LockedShares, ClaimableAssets

LEMMA StepRefines ==
  ASSUME IInv, IInv', Next
  PROVE  Redemption!RedeemNext \/ UNCHANGED Redeeming
<1>1. ASSUME NEW u \in Users, NEW c \in Users, NEW n \in 1 .. MaxShares, RequestRedeem(u, c, n)
      PROVE  Redemption!RedeemNext
  <2>1. n \in Nat \ {0}
    BY ConstantFacts
  <2>2. Redemption!Request(c)
    BY <1>1, <2>1, RequestRefines
  <2>3. QED BY <2>2 DEF Redemption!RedeemNext
<1>2. ASSUME NEW u \in Users, NEW c \in Users, CancelRedeemRequest(u, c)
      PROVE  Redemption!RedeemNext
  <2>1. Redemption!AskCancel(c)
    BY <1>2, AskCancelRefines
  <2>2. QED BY <2>1 DEF Redemption!RedeemNext
<1>3. ASSUME NEW u \in Users, NEW c \in Users, NEW r \in Accounts,
             ClaimCancelRedeemRequest(u, c, r)
      PROVE  Redemption!RedeemNext
  <2>1. Redemption!TakeBack(c)
    BY <1>3, TakeBackRefines
  <2>2. QED BY <2>1 DEF Redemption!RedeemNext
<1>4. ASSUME NEW c \in Users, NEW a \in Nat, NEW r, Claim(c, a, r)
      PROVE  Redemption!RedeemNext
  <2>1. Redemption!ClaimOwed(c)
    BY <1>4, ClaimRefines
  <2>2. QED BY <2>1 DEF Redemption!RedeemNext
<1>5. ASSUME NEW u \in Users, NEW c \in Users, NEW n \in 1 .. MaxAssets, NEW r,
             Withdraw(u, c, n, r)
      PROVE  Redemption!RedeemNext
  <2>1. n \in Nat
    BY ConstantFacts
  <2>2. QED BY <1>4, <1>5, <2>1 DEF Withdraw
<1>6. ASSUME NEW u \in Users, NEW c \in Users, NEW n \in 1 .. MaxShares, NEW r,
             Redeem(u, c, n, r)
      PROVE  Redemption!RedeemNext
  <2> DEFINE a == RedeemAssets(n, superVaultState[c].averageWithdrawPrice)
  <2>1. superVaultState[c].averageWithdrawPrice \in Nat /\ n \in Nat
    BY ConstantFacts DEF IInv, TypeOK, VaultStates
  <2>2. a \in Nat
    BY <2>1, ConstantFacts, MulDivType DEF RedeemAssets
  <2>3. Claim(c, a, r)
    BY <1>6 DEF Redeem
  <2>4. QED BY <1>4, <2>2, <2>3
<1>7. ASSUME NEW c \in Users, NEW b, SetRedeemSlippage(c, b)
      PROVE  UNCHANGED Redeeming
  BY <1>7, SlippageRefines
<1>8. ASSUME NEW S \in SUBSET Users, FulfillCancelRedeemRequests(S)
      PROVE  Redemption!RedeemNext
  <2>1. Redemption!GrantCancels
    BY <1>8, GrantRefines
  <2>2. QED BY <2>1 DEF Redemption!RedeemNext
<1>9. ASSUME NEW S \in SUBSET Users, NEW out \in [S -> 0 .. MaxAssets],
             FulfillRedeemRequests(S, out)
      PROVE  Redemption!RedeemNext
  <2>1. Redemption!Fulfil(S)
    BY <1>9, FulfilRefines
  <2>2. QED BY <2>1 DEF Redemption!RedeemNext
<1>10. CASE UserStep
  <2>1. ASSUME \/ \E r \in Accounts, n \in 1 .. MaxAssets : Deposit(r, n)
               \/ \E r \in Accounts, n \in 1 .. MaxShares : Mint(r, n)
               \/ \E c \in Users, u \in Operators, b \in BOOLEAN : SetOperator(c, u, b)
               \/ \E u \in Users, to \in Accounts, n \in 1 .. MaxShares : Transfer(u, to, n)
        PROVE  superVaultState' = superVaultState
    BY <2>1 DEF Deposit, Mint, SetOperator, Transfer
  <2>2. QED BY <1>1, <1>2, <1>3, <1>5, <1>6, <1>7, <1>10, <2>1, RecordsKept DEF UserStep
<1>11. CASE ManagerStep
  BY <1>8, <1>9, <1>11 DEF ManagerStep
<1>12. CASE EnvironmentStep
  <2>1. superVaultState' = superVaultState
    BY <1>12 DEF EnvironmentStep, PriceFeedStep, StrategyAssetsMove
  <2>2. QED BY <2>1, RecordsKept
<1>13. QED BY <1>10, <1>11, <1>12 DEF Next

(* The three contracts implement the life cycle of AsyncRedeem: initial    *)
(* states map to initial states, and each step to a step or to none.       *)
THEOREM RedemptionRefined == Spec => ImplementsAsyncRedeem
<1>1. Init => Redemption!RedeemInit
  <2> SUFFICES ASSUME Init PROVE Redemption!RedeemInit
    OBVIOUS
  <2>1. \A c \in Users : PhaseOf(superVaultState[c]) = "none"
    BY DEF Init, NoRequest, PhaseOf
  <2>2. \A c \in Users : LockedShares[c] = 0 /\ ClaimableAssets[c] = 0
    BY DEF Init, NoRequest, LockedShares, ClaimableAssets
  <2>3. QED BY <2>1, <2>2, Domains DEF Redemption!RedeemInit, Standing
<1>2. IInv /\ IInv' /\ [Next]_vars => [Redemption!RedeemNext]_(Redemption!redeemVars)
  <2>1. CASE Next /\ IInv /\ IInv'
    BY <2>1, StepRefines DEF Redeeming, Redemption!redeemVars, Standing
  <2>2. CASE UNCHANGED vars
    BY <2>2, RecordsKept DEF vars, Redeeming, Redemption!redeemVars, Standing
  <2>3. QED BY <2>1, <2>2
<1>3. QED BY <1>1, <1>2, Invariance, PTL
         DEF Spec, ImplementsAsyncRedeem, Redemption!RedeemSpec

(* What a redemption is worth to AsyncRedeem has the types it expects.     *)
LEMMA RedeemTypes ==
  ASSUME IInv
  PROVE  /\ Redemption!RedeemTypeOK
         /\ Redemption!LockedWhileUnderWay
<1>1. \A c \in Users : /\ Standing[c] \in {"none", "requested", "cancelling", "cancelled"}
                       /\ LockedShares[c] \in Nat /\ ClaimableAssets[c] \in Nat
                       /\ LockedShares[c] > 0 <=> Standing[c] # "none"
  BY RecordFacts, PhaseMeaning
<1>2. /\ Standing \in [Users -> Redemption!Phases]
      /\ LockedShares \in [Users -> Nat] /\ ClaimableAssets \in [Users -> Nat]
  BY <1>1, Domains DEF Redemption!Phases
<1>3. Redemption!RedeemTypeOK
  BY <1>2 DEF Redemption!RedeemTypeOK, Standing
<1>4. Redemption!LockedWhileUnderWay
  BY <1>1 DEF Redemption!LockedWhileUnderWay, Standing
<1>5. QED BY <1>3, <1>4

(* The shares of a controller are locked exactly while its redemption is   *)
(* under way.                                                              *)
THEOREM SharesLockedMeanwhile == Spec => []Redemption!LockedWhileUnderWay
<1>1. IInv => Redemption!LockedWhileUnderWay
  BY RedeemTypes
<1>2. QED BY <1>1, Invariance, PTL

LEMMA RedeemSettlesOnce ==
  ASSUME IInv, IInv', Redemption!RedeemNext \/ UNCHANGED Redeeming, NEW c \in Users
  PROVE  Redemption!SettledOnce(c)
<1> DEFINE Settled ==
             /\ LockedShares'[c] < LockedShares[c] => LockedShares'[c] = 0 /\ Standing'[c] = "none"
             /\ ClaimableAssets'[c] > ClaimableAssets[c] =>
                  LockedShares[c] > 0 /\ LockedShares'[c] = 0 /\ Standing[c] # "cancelled"
             /\ Standing[c] = "cancelled" => Standing'[c] = "cancelled" \/ LockedShares'[c] = 0
<1> SUFFICES Settled
  BY DEF Redemption!SettledOnce, Standing
<1>1. /\ LockedShares[c] \in Nat /\ ClaimableAssets[c] \in Nat
      /\ LockedShares[c] > 0 <=> Standing[c] # "none"
  BY RecordFacts, PhaseMeaning
<1>2. LockedShares'[c] \in Nat /\ ClaimableAssets'[c] \in Nat
  BY RecordFactsNext
<1>3. ASSUME LockedShares'[c] >= LockedShares[c], ClaimableAssets'[c] <= ClaimableAssets[c],
             Standing[c] = "cancelled" => Standing'[c] = "cancelled"
      PROVE  Settled
  BY <1>1, <1>2, <1>3
<1>4. ASSUME LockedShares'[c] = 0, Standing'[c] = "none",
             ClaimableAssets'[c] > ClaimableAssets[c] => Standing[c] \in {"requested", "cancelling"}
      PROVE  Settled
  BY <1>1, <1>2, <1>4
<1>5. ASSUME NEW d \in Users, Redemption!Request(d) PROVE Settled
  <2>1. /\ Standing[d] \in {"none", "requested"} /\ Standing' = [Standing EXCEPT ![d] = "requested"]
        /\ LockedShares'[d] > LockedShares[d] /\ ClaimableAssets' = ClaimableAssets
        /\ \A e \in Users \ {d} : LockedShares'[e] = LockedShares[e]
    BY <1>5 DEF Redemption!Request, Standing
  <2>2. LockedShares'[c] >= LockedShares[c]
    BY <1>1, <1>2, <2>1
  <2>3. Standing[c] = "cancelled" => Standing'[c] = "cancelled"
    BY <2>1, Domains
  <2>4. QED BY <1>1, <1>3, <2>1, <2>2, <2>3
<1>6. ASSUME NEW d \in Users, Redemption!AskCancel(d) PROVE Settled
  <2>1. /\ Standing[d] = "requested" /\ Standing' = [Standing EXCEPT ![d] = "cancelling"]
        /\ LockedShares' = LockedShares /\ ClaimableAssets' = ClaimableAssets
    BY <1>6 DEF Redemption!AskCancel, Standing
  <2>2. Standing[c] = "cancelled" => Standing'[c] = "cancelled"
    BY <2>1, Domains
  <2>3. QED BY <1>1, <1>3, <2>1, <2>2
<1>7. ASSUME NEW d \in Users, Redemption!TakeBack(d) PROVE Settled
  <2>1. /\ Standing' = [Standing EXCEPT ![d] = "none"]
        /\ LockedShares' = [LockedShares EXCEPT ![d] = 0] /\ ClaimableAssets' = ClaimableAssets
    BY <1>7 DEF Redemption!TakeBack, Standing
  <2>2. CASE c = d
    <3>1. Standing'[c] = "none" /\ LockedShares'[c] = 0
      BY <2>1, <2>2, Domains
    <3>2. ~(ClaimableAssets'[c] > ClaimableAssets[c])
      BY <1>1, <2>1
    <3>3. QED BY <1>4, <3>1, <3>2
  <2>3. CASE c # d
    <3>1. Standing'[c] = Standing[c] /\ LockedShares'[c] = LockedShares[c]
      BY <2>1, <2>3, Domains
    <3>2. QED BY <1>1, <1>3, <2>1, <3>1
  <2>4. QED BY <2>2, <2>3
<1>8. ASSUME NEW d \in Users, Redemption!ClaimOwed(d) PROVE Settled
  <2>1. /\ Standing' = Standing /\ LockedShares' = LockedShares
        /\ ClaimableAssets'[d] < ClaimableAssets[d]
        /\ \A e \in Users \ {d} : ClaimableAssets'[e] = ClaimableAssets[e]
    BY <1>8 DEF Redemption!ClaimOwed, Standing
  <2>2. ClaimableAssets'[c] <= ClaimableAssets[c]
    BY <1>1, <1>2, <2>1
  <2>3. QED BY <1>1, <1>3, <2>1, <2>2
<1>9. ASSUME Redemption!GrantCancels PROVE Settled
  <2>1. /\ Standing'[c] # Standing[c] => Standing[c] = "cancelling" /\ Standing'[c] = "cancelled"
        /\ LockedShares' = LockedShares /\ ClaimableAssets' = ClaimableAssets
    BY <1>9 DEF Redemption!GrantCancels, Standing
  <2>2. QED BY <1>1, <1>3, <2>1
<1>10. ASSUME NEW S \in SUBSET Users, Redemption!Fulfil(S) PROVE Settled
  <2>1. /\ \A d \in S : Standing[d] \in {"requested", "cancelling"}
        /\ Standing'[c] = IF c \in S THEN "none" ELSE Standing[c]
        /\ LockedShares'[c] = IF c \in S THEN 0 ELSE LockedShares[c]
        /\ c \notin S => ClaimableAssets'[c] = ClaimableAssets[c]
    BY <1>10 DEF Redemption!Fulfil, Standing
  <2>2. CASE c \in S
    BY <1>4, <2>1, <2>2
  <2>3. CASE c \notin S
    BY <1>1, <1>3, <2>1, <2>3
  <2>4. QED BY <2>2, <2>3
<1>11. CASE UNCHANGED Redeeming
  BY <1>1, <1>3, <1>11 DEF Redeeming
<1> HIDE DEF Settled
<1>12. QED BY <1>5, <1>6, <1>7, <1>8, <1>9, <1>10, <1>11 DEF Redemption!RedeemNext

(* The shares of a redemption leave their lock once, all together, and     *)
(* what its controller is owed grows only for shares that leave with it:   *)
(* none is paid twice, or paid after its cancellation has been granted.    *)
THEOREM RedemptionsSettleOnce == Spec => Redemption!EachSettledOnce
<1>1. ASSUME IInv, IInv', [Next]_vars PROVE \A c \in Users : Redemption!SettledOnce(c)
  <2>1. Redemption!RedeemNext \/ UNCHANGED Redeeming
    <3>1. CASE UNCHANGED vars
      BY <3>1, RecordsKept DEF vars
    <3>2. QED BY <1>1, <3>1, StepRefines
  <2>2. QED BY <1>1, <2>1, RedeemSettlesOnce
<1>2. QED BY <1>1, Invariance, PTL DEF Spec, Redemption!EachSettledOnce

-----------------------------------------------------------------------------
(* The anchor of a pending redemption.                                     *)

(* Averaging n more shares at price q into p shares anchored at v, each    *)
(* time rounded down: k is the number of requests behind v.                *)
LEMMA AverageKeepsAnchor ==
  ASSUME NEW p \in Nat \ {0}, NEW v \in Nat, NEW n \in Nat \ {0}, NEW q \in Nat,
         NEW value \in Nat, NEW k \in Nat \ {0},
         p * v <= value, value <= p * (v + k - 1)
  PROVE  LET w == (p * v + n * q) \div (p + n)
         IN  (p + n) * w <= value + n * q /\ value + n * q <= (p + n) * (w + k)
<1> DEFINE m == p + n
           t == p * v + n * q
           w == t \div m
           j == k - 1
<1>1. /\ p * v \in Nat /\ n * q \in Nat /\ t \in Nat /\ m \in Nat \ {0} /\ j \in Nat
      /\ k = j + 1 /\ m = p + n /\ t = p * v + n * q
  BY ProductNat
<1>2. w \in Nat /\ m * w <= t /\ t < m * w + m
  <2> HIDE DEF m, t
  <2>1. QED BY <1>1, DivFacts
<1>3. p * (v + k - 1) = p * v + p * j
  <2>1. v + k - 1 = v + j
    BY <1>1
  <2>2. p * (v + j) = p * v + p * j
    BY <1>1, Z3
  <2>3. QED BY <2>1, <2>2
<1> HIDE DEF m, t, w, j
<1>4. m * (w + k) = m * w + m * j + m
  BY <1>1, <1>2, Z3
<1>5. p * j <= m * j
  BY <1>1, Z3
<1>6. m * w \in Nat /\ m * j \in Nat /\ p * j \in Nat
  BY <1>1, <1>2, ProductNat
<1>7. m * w <= value + n * q
  BY <1>1, <1>2, <1>6
<1>8. value + n * q <= m * (w + k)
  BY <1>1, <1>2, <1>3, <1>4, <1>5, <1>6
<1>9. QED BY <1>7, <1>8 DEF m, t, w

(* The property with what makes it inductive: nothing is behind a          *)
(* redemption of which nothing is pending.                                 *)
AnchorSound(s, a) ==
  /\ s.pendingRedeemRequest = 0 => a = NoAnchor
  /\ s.pendingRedeemRequest > 0 =>
       /\ a.requests > 0
       /\ s.pendingRedeemRequest * s.averageRequestPPS <= a.value
       /\ a.value <= s.pendingRedeemRequest * (s.averageRequestPPS + a.requests - 1)

AnchorsSound == \A c \in Users : AnchorSound(superVaultState[c], anchor[c])

(* The history is untouched while what is pending and its anchor are.      *)
LEMMA AnchorKept ==
  ASSUME AnchorsSound, NEW c \in Users, anchor'[c] = anchor[c],
         superVaultState'[c].pendingRedeemRequest = superVaultState[c].pendingRedeemRequest,
         superVaultState'[c].averageRequestPPS = superVaultState[c].averageRequestPPS
  PROVE  AnchorSound(superVaultState'[c], anchor'[c])
  BY DEF AnchorsSound, AnchorSound

LEMMA RequestKeepsAnchor ==
  ASSUME IInv, AnchorsSound, NEW u \in Users, NEW c \in Users, NEW n \in Nat \ {0},
         RequestRedeem(u, c, n)
  PROVE  AnchorSound(superVaultState'[c], anchor'[c])
<1> DEFINE s == superVaultState[c]
           p == s.pendingRedeemRequest
           v == s.averageRequestPPS
           a == anchor[c]
           w == AverageRequestPPS(s, n)
<1>1. /\ s \in VaultStates /\ p \in Nat /\ v \in Nat /\ pps \in Nat
      /\ a.value \in Nat /\ a.requests \in Nat
      /\ superVaultState \in [Users -> VaultStates]
      /\ anchor \in [Users -> [value : Nat, requests : Nat]]
  BY ConstantFacts DEF IInv, TypeOK, VaultStates
<1>2. /\ superVaultState'[c].pendingRedeemRequest = p + n
      /\ superVaultState'[c].averageRequestPPS = w
      /\ anchor'[c].value = a.value + n * pps /\ anchor'[c].requests = a.requests + 1
  BY <1>1 DEF RequestRedeem, VaultStates
<1>3. AnchorSound(s, a)
  BY DEF AnchorsSound
<1>4. CASE p = 0
  <2>1. w = pps /\ a.value = 0 /\ a.requests = 0
    BY <1>3, <1>4 DEF AverageRequestPPS, AnchorSound, NoAnchor
  <2>2. n * pps \in Nat /\ pps + 1 - 1 = pps
    BY <1>1, ProductNat
  <2>3. QED BY <1>1, <1>2, <1>4, <2>1, <2>2 DEF AnchorSound
<1>5. CASE p > 0
  <2>1. w = (p * v + n * pps) \div (p + n)
    BY <1>5 DEF AverageRequestPPS
  <2>2. /\ a.requests \in Nat \ {0} /\ p \in Nat \ {0}
        /\ p * v <= a.value /\ a.value <= p * (v + a.requests - 1)
    BY <1>1, <1>3, <1>5 DEF AnchorSound
  <2> HIDE DEF w, a, p, v
  <2>3. /\ (p + n) * w <= a.value + n * pps
        /\ a.value + n * pps <= (p + n) * (w + a.requests)
    BY <1>1, <2>1, <2>2, AverageKeepsAnchor
  <2>4. w \in Nat
    <3>1. p * v \in Nat /\ n * pps \in Nat
      BY <1>1, <2>2, ProductNat
    <3>2. p * v + n * pps \in Nat /\ p + n \in Nat \ {0}
      BY <2>2, <3>1
    <3>3. QED BY <2>1, <3>2, DivFacts
  <2>5. w + (a.requests + 1) - 1 = w + a.requests /\ a.requests + 1 > 0 /\ p + n > 0
    BY <1>1, <2>2, <2>4
  <2>6. QED BY <1>2, <2>3, <2>5 DEF AnchorSound
<1>6. QED BY <1>1, <1>4, <1>5

(* Payments and granted cancellations leave nothing pending and nothing    *)
(* behind it.                                                              *)
LEMMA BatchKeepsAnchor ==
  ASSUME IInv, AnchorsSound, NEW S \in SUBSET Users, NEW c \in Users,
         \/ FulfillCancelRedeemRequests(S)
         \/ \E out \in [S -> 0 .. MaxAssets] : FulfillRedeemRequests(S, out)
  PROVE  AnchorSound(superVaultState'[c], anchor'[c])
<1>1. superVaultState[c] \in VaultStates
  BY DEF IInv, TypeOK
<1>2. CASE superVaultState'[c].pendingRedeemRequest = 0 /\ anchor'[c] = NoAnchor
  BY <1>2 DEF AnchorSound
<1>3. CASE superVaultState'[c] = superVaultState[c] /\ anchor'[c] = anchor[c]
  BY <1>3, AnchorKept
<1>4. CASE FulfillCancelRedeemRequests(S)
  <2>1. CASE c \in S /\ superVaultState[c].pendingCancelRedeemRequest
    <3>1. superVaultState'[c].pendingRedeemRequest = 0 /\ anchor'[c] = NoAnchor
      BY <1>1, <1>4, <2>1 DEF FulfillCancelRedeemRequests, FulfillCancel, VaultStates
    <3>2. QED BY <1>2, <3>1
  <2>2. CASE ~(c \in S /\ superVaultState[c].pendingCancelRedeemRequest)
    <3>1. superVaultState'[c] = superVaultState[c] /\ anchor'[c] = anchor[c]
      BY <1>4, <2>2 DEF FulfillCancelRedeemRequests, FulfillCancel
    <3>2. QED BY <1>3, <3>1
  <2>3. QED BY <2>1, <2>2
<1>5. ASSUME NEW out \in [S -> 0 .. MaxAssets], FulfillRedeemRequests(S, out)
      PROVE  AnchorSound(superVaultState'[c], anchor'[c])
  <2>1. CASE c \in S
    <3>1. superVaultState'[c].pendingRedeemRequest = 0 /\ anchor'[c] = NoAnchor
      BY <1>5, <2>1 DEF FulfillRedeemRequests, Fulfilled
    <3>2. QED BY <1>2, <3>1
  <2>2. CASE c \notin S
    <3>1. superVaultState'[c] = superVaultState[c] /\ anchor'[c] = anchor[c]
      BY <1>5, <2>2 DEF FulfillRedeemRequests
    <3>2. QED BY <1>3, <3>1
  <2>3. QED BY <2>1, <2>2
<1>6. QED BY <1>4, <1>5

(* Every other step of a user.                                             *)
LEMMA RecordStepKeepsAnchor ==
  ASSUME IInv, AnchorsSound, NEW c \in Users, NEW d \in Users, anchor' = anchor,
         \/ superVaultState' = superVaultState
         \/ superVaultState' = [superVaultState EXCEPT ![d].pendingCancelRedeemRequest = TRUE]
         \/ superVaultState' = [superVaultState EXCEPT ![d] =
              [superVaultState[d] EXCEPT !.pendingCancelRedeemRequest = FALSE,
                                         !.claimableCancelRedeemRequest = 0]]
         \/ \E m : superVaultState' = [superVaultState EXCEPT ![d].maxWithdraw = m]
         \/ \E b : superVaultState' = [superVaultState EXCEPT ![d].redeemSlippageBps = b]
  PROVE  AnchorSound(superVaultState'[c], anchor'[c])
<1>1. superVaultState \in [Users -> VaultStates]
  BY DEF IInv, TypeOK
<1> DEFINE Same == /\ superVaultState'[c].pendingRedeemRequest
                        = superVaultState[c].pendingRedeemRequest
                   /\ superVaultState'[c].averageRequestPPS
                        = superVaultState[c].averageRequestPPS
<1>2. CASE superVaultState' = superVaultState
  BY <1>2, AnchorKept
<1>3. ASSUME superVaultState' = [superVaultState EXCEPT ![d].pendingCancelRedeemRequest = TRUE]
      PROVE  Same
  BY <1>1, <1>3 DEF VaultStates
<1>4. ASSUME superVaultState' = [superVaultState EXCEPT ![d] =
               [superVaultState[d] EXCEPT !.pendingCancelRedeemRequest = FALSE,
                                          !.claimableCancelRedeemRequest = 0]]
      PROVE  Same
  BY <1>1, <1>4 DEF VaultStates
<1>5. ASSUME NEW m, superVaultState' = [superVaultState EXCEPT ![d].maxWithdraw = m]
      PROVE  Same
  BY <1>1, <1>5 DEF VaultStates
<1>6. ASSUME NEW b, superVaultState' = [superVaultState EXCEPT ![d].redeemSlippageBps = b]
      PROVE  Same
  BY <1>1, <1>6 DEF VaultStates
<1>7. QED BY <1>2, <1>3, <1>4, <1>5, <1>6, AnchorKept

LEMMA AnchorStep ==
  ASSUME IInv, AnchorsSound, [Next]_vars
  PROVE  AnchorsSound'
<1> SUFFICES ASSUME NEW c \in Users
             PROVE  AnchorSound(superVaultState'[c], anchor'[c])
  BY DEF AnchorsSound
<1>1. ASSUME NEW u \in Users, NEW d \in Users, NEW n \in 1 .. MaxShares, RequestRedeem(u, d, n)
      PROVE  AnchorSound(superVaultState'[c], anchor'[c])
  <2>1. n \in Nat \ {0}
    BY ConstantFacts
  <2>2. CASE c = d
    BY <1>1, <2>1, <2>2, RequestKeepsAnchor
  <2>3. CASE c # d
    <3>1. superVaultState'[c] = superVaultState[c] /\ anchor'[c] = anchor[c]
      BY <1>1, <2>3 DEF RequestRedeem, IInv, TypeOK
    <3>2. QED BY <3>1, AnchorKept
  <2>4. QED BY <2>2, <2>3
<1>2. ASSUME NEW u \in Users, NEW d \in Users, NEW r,
             CancelRedeemRequest(u, d) \/ ClaimCancelRedeemRequest(u, d, r)
      PROVE  AnchorSound(superVaultState'[c], anchor'[c])
  BY <1>2, RecordStepKeepsAnchor DEF CancelRedeemRequest, ClaimCancelRedeemRequest
<1>3. ASSUME NEW d \in Users, NEW a, NEW r, Claim(d, a, r)
      PROVE  AnchorSound(superVaultState'[c], anchor'[c])
  BY <1>3, RecordStepKeepsAnchor DEF Claim
<1>4. ASSUME NEW d \in Users, NEW b, SetRedeemSlippage(d, b)
      PROVE  AnchorSound(superVaultState'[c], anchor'[c])
  BY <1>4, RecordStepKeepsAnchor DEF SetRedeemSlippage
<1>5. CASE UNCHANGED <<superVaultState, anchor>>
  BY <1>5, RecordStepKeepsAnchor
<1>6. CASE UserStep
  <2>1. ASSUME \/ \E r \in Accounts, n \in 1 .. MaxAssets : Deposit(r, n)
               \/ \E r \in Accounts, n \in 1 .. MaxShares : Mint(r, n)
               \/ \E d \in Users, u \in Operators, b \in BOOLEAN : SetOperator(d, u, b)
               \/ \E u \in Users, to \in Accounts, n \in 1 .. MaxShares : Transfer(u, to, n)
        PROVE  UNCHANGED <<superVaultState, anchor>>
    BY <2>1 DEF Deposit, Mint, SetOperator, Transfer
  <2>2. QED BY <1>1, <1>2, <1>3, <1>4, <1>5, <1>6, <2>1 DEF UserStep, Withdraw, Redeem
<1>7. CASE ManagerStep
  BY <1>7, BatchKeepsAnchor DEF ManagerStep
<1>8. CASE EnvironmentStep
  BY <1>5, <1>8 DEF EnvironmentStep, PriceFeedStep, StrategyAssetsMove
<1>9. QED BY <1>5, <1>6, <1>7, <1>8 DEF Next, vars

(* averageRequestPPS stays within the roundings of its requests of their   *)
(* weighted mean price, however many there were.                           *)
THEOREM AnchorsTrackRequests == Spec => []AnchorTracksRequests
<1>1. Init => AnchorsSound
  BY DEF Init, NoRequest, AnchorsSound, AnchorSound
<1>2. IInv /\ AnchorsSound /\ [Next]_vars => AnchorsSound'
  BY AnchorStep
<1>3. AnchorsSound => AnchorTracksRequests
  BY DEF AnchorsSound, AnchorSound, AnchorTracksRequests
<1>4. QED BY <1>1, <1>2, <1>3, Invariance, PTL DEF Spec

-----------------------------------------------------------------------------
(* Nobody is diluted.                                                      *)

(* A step leaves what backs a share, at the stored price, no worse.        *)
Neutral ==
  strategyAssets' * PRECISION + pps * totalSupply
    >= strategyAssets * PRECISION + pps * totalSupply'

(* The supply is what the accounts hold, before and after.                 *)
LEMMA SupplyFacts ==
  ASSUME TypeOK, TypeOK'
  PROVE  /\ totalSupply = SumOver(balance, Accounts) /\ totalSupply \in Nat
         /\ totalSupply' = SumOver(balance', Accounts) /\ totalSupply' \in Nat
         /\ IsFiniteSet(Accounts)
         /\ \A a \in Accounts : balance[a] \in Nat
         /\ \A a \in Accounts : balance'[a] \in Nat
<1>1. IsFiniteSet(Accounts)
  BY ConstantFacts
<1>2. \A a \in Accounts : balance[a] \in Nat
  BY DEF TypeOK
<1>3. \A a \in Accounts : balance'[a] \in Nat
  BY DEF TypeOK
<1>4. SumOver(balance, Accounts) \in Nat
  BY <1>1, <1>2, SumType
<1>5. SumOver(balance', Accounts) \in Nat
  BY <1>1, <1>3, SumType
<1>6. QED BY <1>1, <1>2, <1>3, <1>4, <1>5 DEF totalSupply

(* Shares that move are neither minted nor burned.                         *)
LEMMA MoveKeepsSupply ==
  ASSUME TypeOK, TypeOK', NEW a \in Accounts, NEW b \in Accounts, NEW n \in Nat,
         n <= balance[a], balance' = Move(a, b, n)
  PROVE  totalSupply' = totalSupply
<1>1. CASE a = b
  BY <1>1 DEF Move, totalSupply
<1>2. CASE a # b
  <2>1. /\ balance'[a] = balance[a] - n /\ balance'[b] = balance[b] + n
        /\ \A c \in Accounts \ {a, b} : balance'[c] = balance[c]
    BY <1>2 DEF TypeOK, Move
  <2>2. SumOver(balance', Accounts) = SumOver(balance, Accounts)
    BY <1>2, <2>1, SupplyFacts, SumTransfer
  <2>3. QED BY <2>2, SupplyFacts
<1>3. QED BY <1>1, <1>2

(* When one account's balance changes, so does the supply.                 *)
LEMMA SupplyUpdate ==
  ASSUME TypeOK, TypeOK', NEW a \in Accounts,
         \A c \in Accounts \ {a} : balance'[c] = balance[c]
  PROVE  totalSupply' = totalSupply - balance[a] + balance'[a]
<1> DEFINE f == balance
           g == balance'
<1>1. \A c \in Accounts : f[c] \in Nat
  BY SupplyFacts
<1>2. \A c \in Accounts : g[c] \in Nat
  BY SupplyFacts
<1>3. IsFiniteSet(Accounts) /\ \A c \in Accounts \ {a} : g[c] = f[c]
  BY SupplyFacts
<1> HIDE DEF f, g
<1>4. SumOver(g, Accounts) = SumOver(f, Accounts) - f[a] + g[a]
  BY <1>1, <1>2, <1>3, SumUpdate
<1>5. QED BY <1>4, SupplyFacts DEF f, g

(* n shares minted to r for k assets that are worth them.                  *)
LEMMA EnteringIsNeutral ==
  ASSUME TypeOK, TypeOK', NEW r \in Accounts, NEW n \in Nat, NEW k \in Nat,
         balance' = [balance EXCEPT ![r] = @ + n],
         strategyAssets' = strategyAssets + k, pps * n <= k * PRECISION
  PROVE  Neutral
<1>1. balance'[r] = balance[r] + n /\ \A c \in Accounts \ {r} : balance'[c] = balance[c]
  BY DEF TypeOK
<1>2. totalSupply' = totalSupply - balance[r] + balance'[r]
  BY <1>1, SupplyUpdate
<1>3. /\ totalSupply \in Nat /\ totalSupply' = totalSupply + n
      /\ strategyAssets \in Nat /\ pps \in Nat /\ PRECISION \in Nat
  BY <1>1, <1>2, SupplyFacts, ConstantFacts DEF TypeOK
<1>4. /\ (strategyAssets + k) * PRECISION = strategyAssets * PRECISION + k * PRECISION
      /\ pps * (totalSupply + n) = pps * totalSupply + pps * n
  BY <1>3, Z3
<1>5. /\ strategyAssets * PRECISION \in Nat /\ k * PRECISION \in Nat
      /\ pps * totalSupply \in Nat /\ pps * n \in Nat
  BY <1>3, ProductNat
<1>6. QED BY <1>3, <1>4, <1>5 DEF Neutral

(* A deposit's shares are rounded down.                                    *)
LEMMA DepositIsNeutral ==
  ASSUME TypeOK, TypeOK', NEW r \in Accounts, NEW a \in 1 .. MaxAssets, Deposit(r, a)
  PROVE  Neutral
<1> DEFINE k == a - DepositFee(a, ManagementFeeBps)
           n == DepositShares(a, ManagementFeeBps, pps)
<1>1. /\ k > 0 /\ balance' = [balance EXCEPT ![r] = @ + n]
      /\ strategyAssets' = strategyAssets + k
  BY DEF Deposit
<1>2. a \in Nat /\ pps \in Nat \ {0} /\ PRECISION \in Nat
  BY ConstantFacts DEF TypeOK
<1>3. k \in Nat /\ n \in Nat
  BY <1>1, <1>2, DepositTypes
<1>4. n = MulDivFloor(k, PRECISION, pps)
  BY DEF DepositShares
<1> HIDE DEF k, n
<1>5. pps * n <= k * PRECISION
  BY <1>2, <1>3, <1>4, MulDivBounds
<1>6. QED BY <1>1, <1>3, <1>5, EnteringIsNeutral

(* A mint's assets are rounded up.                                         *)
LEMMA MintIsNeutral ==
  ASSUME TypeOK, TypeOK', NEW r \in Accounts, NEW n \in 1 .. MaxShares, Mint(r, n)
  PROVE  Neutral
<1> DEFINE k == QuoteMintNet(n, pps)
<1>1. /\ balance' = [balance EXCEPT ![r] = @ + n]
      /\ strategyAssets' = strategyAssets + k
  BY DEF Mint
<1>2. n \in Nat /\ pps \in Nat /\ PRECISION \in Nat \ {0}
  BY ConstantFacts DEF TypeOK
<1>3. k \in Nat /\ PRECISION * k >= n * pps
  BY <1>2, MulDivType, MulDivBounds DEF QuoteMintNet
<1> HIDE DEF k
<1>4. PRECISION * k = k * PRECISION /\ n * pps = pps * n
  BY <1>2, <1>3, Z3
<1>5. pps * n <= k * PRECISION
  BY <1>2, <1>3, <1>4, ProductNat
<1>6. QED BY <1>1, <1>2, <1>3, <1>5, EnteringIsNeutral

(* Each controller of a batch is paid at most what its shares are worth,   *)
(* so the batch is paid at most what the burned shares are worth.          *)
LEMMA FulfilIsNeutral ==
  ASSUME TypeOK, TypeOK', NEW S \in SUBSET Users, NEW out \in [S -> 0 .. MaxAssets],
         FulfillRedeemRequests(S, out)
  PROVE  Neutral
<1> DEFINE burned == SumOver(PendingShares, S)
           paid == SumOver(out, S)
<1>1. /\ burned <= balance[Escrow] /\ paid <= strategyAssets
      /\ balance' = [balance EXCEPT ![Escrow] = @ - burned]
      /\ strategyAssets' = strategyAssets - paid
  BY DEF FulfillRedeemRequests
<1>2. /\ strategyAssets \in Nat /\ pps \in Nat /\ PRECISION \in Nat \ {0}
      /\ IsFiniteSet(S) /\ Escrow \in Accounts
  BY ConstantFacts, FS_Subset DEF TypeOK
<1>3. \A c \in S : out[c] \in Nat
  BY ConstantFacts
<1>4. \A c \in S : PendingShares[c] \in Nat
  BY DEF PendingShares, TypeOK, VaultStates
<1>5. \A c \in S : out[c] * PRECISION <= pps * PendingShares[c]
  <2>1. TAKE c \in S
  <2>2. PendingShares[c] = superVaultState[c].pendingRedeemRequest
    BY DEF PendingShares
  <2>3. out[c] <= MulDivFloor(PendingShares[c], pps, PRECISION)
    BY <2>2 DEF FulfillRedeemRequests, TheoreticalAssets
  <2>4. out[c] \in Nat /\ PendingShares[c] \in Nat
    BY <1>3, <1>4
  <2> DEFINE o == out[c]
             p == PendingShares[c]
             m == MulDivFloor(p, pps, PRECISION)
  <2> HIDE DEF o, p, m
  <2>5. m \in Nat /\ PRECISION * m <= p * pps
    BY <1>2, <2>4, MulDivType, MulDivBounds DEF m, p
  <2>6. o \in Nat /\ p \in Nat /\ o <= m
    BY <2>3, <2>4 DEF o, p, m
  <2>7. o * PRECISION <= PRECISION * m /\ p * pps = pps * p
    BY <1>2, <2>5, <2>6, Z3
  <2>8. o * PRECISION \in Nat /\ PRECISION * m \in Nat /\ p * pps \in Nat
    BY <1>2, <2>5, <2>6, ProductNat
  <2>9. o * PRECISION <= pps * p
    BY <2>5, <2>7, <2>8
  <2>10. QED BY <2>9 DEF o, p
<1>6. burned \in Nat /\ paid \in Nat
  BY <1>2, <1>3, <1>4, SumType
<1>7. paid * PRECISION <= pps * burned
  <2>1. \A c \in S : /\ out[c] \in Nat /\ PendingShares[c] \in Nat
                     /\ out[c] * PRECISION <= pps * PendingShares[c]
    BY <1>3, <1>4, <1>5
  <2>2. PRECISION \in Nat
    BY <1>2
  <2>3. QED BY <1>2, <2>1, <2>2, SumProportion
<1> HIDE DEF burned, paid
<1>8. totalSupply \in Nat /\ totalSupply' \in Nat /\ totalSupply = totalSupply' + burned
  <2>1. /\ balance'[Escrow] = balance[Escrow] - burned
        /\ \A c \in Accounts \ {Escrow} : balance'[c] = balance[c]
    BY <1>1, <1>2 DEF TypeOK
  <2>2. totalSupply' = totalSupply - balance[Escrow] + balance'[Escrow]
    BY <1>2, <2>1, SupplyUpdate
  <2>3. balance[Escrow] \in Nat
    BY <1>2, SupplyFacts
  <2>4. QED BY <1>6, <2>1, <2>2, <2>3, SupplyFacts
<1> DEFINE rest == strategyAssets - paid
<1>9. rest \in Nat /\ strategyAssets = rest + paid /\ strategyAssets' = rest
  BY <1>1, <1>2, <1>6
<1> HIDE DEF rest
<1>10. /\ (rest + paid) * PRECISION = rest * PRECISION + paid * PRECISION
       /\ pps * (totalSupply' + burned) = pps * totalSupply' + pps * burned
  BY <1>2, <1>6, <1>8, <1>9, Z3
<1>11. /\ rest * PRECISION \in Nat /\ paid * PRECISION \in Nat
       /\ pps * totalSupply' \in Nat /\ pps * burned \in Nat
  BY <1>2, <1>6, <1>8, <1>9, ProductNat
<1>12. QED BY <1>7, <1>8, <1>9, <1>10, <1>11 DEF Neutral

LEMMA StepIsNeutral ==
  ASSUME IInv, IInv', [Next]_vars
  PROVE  totalSupply' # totalSupply => Neutral
<1> USE DEF IInv
<1>1. CASE UNCHANGED balance
  BY <1>1 DEF totalSupply
<1>2. CASE UserStep
  <2>1. ASSUME NEW r \in Accounts, NEW n \in 1 .. MaxAssets, Deposit(r, n) PROVE Neutral
    BY <2>1, DepositIsNeutral
  <2>2. ASSUME NEW r \in Accounts, NEW n \in 1 .. MaxShares, Mint(r, n) PROVE Neutral
    BY <2>2, MintIsNeutral
  <2>3. ASSUME NEW u \in Users, NEW c \in Users, NEW n \in 1 .. MaxShares,
               RequestRedeem(u, c, n)
        PROVE  totalSupply' = totalSupply
    <3>1. c \in Accounts /\ Escrow \in Accounts /\ n \in Nat
      BY ConstantFacts
    <3>2. n <= balance[c] /\ balance' = Move(c, Escrow, n)
      BY <2>3, <3>1 DEF RequestRedeem, TypeOK
    <3>3. QED BY <3>1, <3>2, MoveKeepsSupply
  <2>4. ASSUME NEW u \in Users, NEW c \in Users, NEW r \in Accounts,
               ClaimCancelRedeemRequest(u, c, r)
        PROVE  totalSupply' = totalSupply
    <3> DEFINE n == ClaimableCancel(superVaultState[c])
    <3>1. n \in Nat /\ Escrow \in Accounts
      BY ConstantFacts DEF TypeOK, VaultStates, ClaimableCancel
    <3>2. n <= balance[Escrow] /\ balance' = Move(Escrow, r, n)
      BY <2>4, <3>1 DEF ClaimCancelRedeemRequest, TypeOK
    <3> HIDE DEF n
    <3>3. QED BY <3>1, <3>2, MoveKeepsSupply
  <2>5. ASSUME NEW u \in Users, NEW to \in Accounts, NEW n \in 1 .. MaxShares,
               Transfer(u, to, n)
        PROVE  totalSupply' = totalSupply
    <3>1. u \in Accounts /\ n \in Nat
      BY ConstantFacts
    <3>2. n <= balance[u] /\ balance' = Move(u, to, n)
      BY <2>5 DEF Transfer
    <3>3. QED BY <3>1, <3>2, MoveKeepsSupply
  <2>6. ASSUME NEW u, NEW c, NEW n, NEW r,
               \/ CancelRedeemRequest(u, c) \/ Withdraw(u, c, n, r) \/ Redeem(u, c, n, r)
               \/ SetOperator(c, u, n) \/ SetRedeemSlippage(c, n)
        PROVE  UNCHANGED balance
    BY <2>6 DEF CancelRedeemRequest, Withdraw, Redeem, Claim, SetOperator, SetRedeemSlippage
  <2>7. QED BY <1>1, <1>2, <2>1, <2>2, <2>3, <2>4, <2>5, <2>6 DEF UserStep
<1>3. CASE ManagerStep
  <2>1. ASSUME NEW S \in SUBSET Users, NEW out \in [S -> 0 .. MaxAssets],
               FulfillRedeemRequests(S, out)
        PROVE  Neutral
    BY <2>1, FulfilIsNeutral
  <2>2. ASSUME NEW S, FulfillCancelRedeemRequests(S) PROVE UNCHANGED balance
    BY <2>2 DEF FulfillCancelRedeemRequests
  <2>3. QED BY <1>1, <1>3, <2>1, <2>2 DEF ManagerStep
<1>4. CASE EnvironmentStep
  BY <1>1, <1>4 DEF EnvironmentStep, PriceFeedStep, StrategyAssetsMove
<1>5. CASE UNCHANGED vars
  BY <1>1, <1>5 DEF vars
<1>6. QED BY <1>2, <1>3, <1>4, <1>5 DEF Next

(* Whatever is minted or burned, at any price, fee and rounding, what      *)
(* backs the other holders' shares at the stored price is no worse.        *)
THEOREM NobodyIsDiluted == Spec => HoldersNotDiluted
<1>1. IInv /\ IInv' /\ [Next]_vars => [totalSupply' # totalSupply => Neutral]_vars
  BY StepIsNeutral
<1>2. QED BY <1>1, Invariance, PTL DEF Spec, HoldersNotDiluted, Neutral

-----------------------------------------------------------------------------
(* Nobody loses shares to another's step.                                  *)

LEMMA SharesFacts ==
  ASSUME TypeOK, TypeOK', NEW c \in Users
  PROVE  /\ superVaultState[c] \in VaultStates /\ superVaultState'[c] \in VaultStates
         /\ balance[c] \in Nat /\ balance'[c] \in Nat
         /\ LockedShares[c] = superVaultState[c].pendingRedeemRequest
                                + superVaultState[c].claimableCancelRedeemRequest
         /\ LockedShares'[c] = superVaultState'[c].pendingRedeemRequest
                                 + superVaultState'[c].claimableCancelRedeemRequest
         /\ LockedShares[c] \in Nat /\ LockedShares'[c] \in Nat
         /\ Shares(c) = balance[c] + LockedShares[c]
         /\ Shares(c)' = balance'[c] + LockedShares'[c]
<1>1. superVaultState[c] \in VaultStates /\ superVaultState'[c] \in VaultStates
  BY DEF TypeOK
<1>2. balance[c] \in Nat /\ balance'[c] \in Nat
  BY ConstantFacts DEF TypeOK
<1>3. LockedShares[c] \in Nat /\ LockedShares'[c] \in Nat
  BY LockedType, LockedTypeNext
<1>4. QED BY <1>1, <1>2, <1>3 DEF Shares, LockedShares

(* A transfer costs its sender only.                                       *)
LEMMA MoveCostsSender ==
  ASSUME TypeOK, TypeOK', NEW a \in Accounts, NEW b \in Accounts, NEW n \in Nat,
         n <= balance[a], balance' = Move(a, b, n), NEW c \in Users
  PROVE  /\ c # a => balance'[c] >= balance[c]
         /\ c = a /\ b # c => balance'[c] = balance[c] - n
         /\ c = b /\ a # c => balance'[c] = balance[c] + n
<1>1. c \in Accounts /\ \A d \in Accounts : balance[d] \in Nat
  BY ConstantFacts DEF TypeOK
<1>2. CASE a = b
  BY <1>1, <1>2 DEF Move
<1>3. CASE a # b
  <2>1. /\ balance'[a] = balance[a] - n /\ balance'[b] = balance[b] + n
        /\ \A d \in Accounts \ {a, b} : balance'[d] = balance[d]
    BY <1>3 DEF TypeOK, Move
  <2>2. QED BY <1>1, <1>3, <2>1
<1>4. QED BY <1>2, <1>3

(* A request moves shares from the owner's balance to the owner's record.  *)
LEMMA RequestKeepsShares ==
  ASSUME TypeOK, TypeOK', NEW u, NEW d \in Users, NEW n \in 1 .. MaxShares,
         RequestRedeem(u, d, n), NEW c \in Users
  PROVE  Shares(c)' >= Shares(c)
<1>1. n \in Nat /\ d \in Accounts /\ Escrow \in Accounts /\ c # Escrow
  BY ConstantFacts
<1>2. n <= balance[d] /\ balance' = Move(d, Escrow, n)
  BY <1>1 DEF RequestRedeem, TypeOK
<1>3. /\ c # d => balance'[c] >= balance[c]
      /\ c = d => balance'[c] = balance[c] - n
  BY <1>1, <1>2, MoveCostsSender
<1>4. superVaultState \in [Users -> VaultStates]
  BY DEF TypeOK
<1>5. CASE c = d
  <2>1. /\ superVaultState'[c].pendingRedeemRequest
             = superVaultState[c].pendingRedeemRequest + n
        /\ superVaultState'[c].claimableCancelRedeemRequest
             = superVaultState[c].claimableCancelRedeemRequest
    BY <1>4, <1>5 DEF RequestRedeem, VaultStates
  <2>2. /\ superVaultState[c].pendingRedeemRequest \in Nat
        /\ superVaultState[c].claimableCancelRedeemRequest \in Nat
    BY <1>4 DEF VaultStates
  <2>3. LockedShares'[c] = LockedShares[c] + n
    BY <1>1, <2>1, <2>2, SharesFacts
  <2>4. QED BY <1>1, <1>3, <1>5, <2>3, SharesFacts
<1>6. CASE c # d
  <2>1. superVaultState'[c] = superVaultState[c]
    BY <1>4, <1>6 DEF RequestRedeem
  <2>2. LockedShares'[c] = LockedShares[c]
    BY <2>1, SharesFacts
  <2>3. QED BY <1>3, <1>6, <2>2, SharesFacts
<1>7. QED BY <1>5, <1>6

(* A claim of a cancelled request costs its controller alone, and not even *)
(* the controller when the shares are sent back to it.                     *)
LEMMA TakeBackKeepsShares ==
  ASSUME IInv, IInv', NEW u, NEW d \in Users, NEW r \in Accounts,
         ClaimCancelRedeemRequest(u, d, r), NEW c \in Users, c # d \/ r = c
  PROVE  Shares(c)' >= Shares(c)
<1> USE DEF IInv
<1> DEFINE n == ClaimableCancel(superVaultState[d])
<1>1. superVaultState \in [Users -> VaultStates]
  BY DEF TypeOK
<1>2. /\ superVaultState[d].claimableCancelRedeemRequest \in Nat \ {0}
      /\ superVaultState[d].pendingRedeemRequest = 0
      /\ n = superVaultState[d].claimableCancelRedeemRequest
  BY <1>1 DEF ClaimCancelRedeemRequest, ClaimableCancel, VaultStates, RecordsConsistent,
              RecordConsistent
<1>3. /\ balance' = Move(Escrow, r, n) /\ balance[Escrow] >= n
      /\ superVaultState'[d].claimableCancelRedeemRequest = 0
      /\ superVaultState'[d].pendingRedeemRequest = 0
      /\ c # d => superVaultState'[c] = superVaultState[c]
  BY <1>1, <1>2 DEF ClaimCancelRedeemRequest, VaultStates
<1> HIDE DEF n
<1>4. n \in Nat /\ Escrow \in Accounts /\ c # Escrow /\ balance[Escrow] \in Nat
  BY <1>2, ConstantFacts DEF TypeOK
<1>5. /\ balance'[c] >= balance[c]
      /\ r = c => balance'[c] = balance[c] + n
  <2>1. n <= balance[Escrow]
    BY <1>2, <1>3, <1>4
  <2>2. QED BY <1>3, <1>4, <2>1, MoveCostsSender
<1>6. CASE c # d
  <2>1. LockedShares'[c] = LockedShares[c]
    BY <1>3, <1>6, SharesFacts
  <2>2. QED BY <1>5, <2>1, SharesFacts
<1>7. CASE c = d
  <2>1. LockedShares[c] = n /\ LockedShares'[c] = 0
    BY <1>2, <1>3, <1>7, SharesFacts
  <2>2. QED BY <1>4, <1>5, <1>7, <2>1, SharesFacts
<1>8. QED BY <1>6, <1>7

(* Steps that touch no balance and no request.                             *)
LEMMA SameSharesKept ==
  ASSUME TypeOK, TypeOK', NEW c \in Users, balance' = balance,
         superVaultState'[c].pendingRedeemRequest = superVaultState[c].pendingRedeemRequest,
         superVaultState'[c].claimableCancelRedeemRequest
           = superVaultState[c].claimableCancelRedeemRequest
  PROVE  Shares(c)' >= Shares(c)
  BY SharesFacts

LEMMA RecordStepKeepsShares ==
  ASSUME TypeOK, TypeOK', NEW d \in Users, NEW c \in Users, NEW n, NEW r, NEW u,
         CancelRedeemRequest(u, d) \/ Claim(d, n, r) \/ SetRedeemSlippage(d, n)
  PROVE  Shares(c)' >= Shares(c)
<1>1. superVaultState \in [Users -> VaultStates]
  BY DEF TypeOK
<1>2. /\ balance' = balance
      /\ superVaultState'[c].pendingRedeemRequest = superVaultState[c].pendingRedeemRequest
      /\ superVaultState'[c].claimableCancelRedeemRequest
           = superVaultState[c].claimableCancelRedeemRequest
  BY <1>1 DEF CancelRedeemRequest, Claim, SetRedeemSlippage, VaultStates
<1>3. QED BY <1>2, SameSharesKept

(* What is cancelled stays the controller's.                               *)
LEMMA FulfillCancelKeepsShares ==
  ASSUME IInv, IInv', NEW S \in SUBSET Users, FulfillCancelRedeemRequests(S), NEW c \in Users
  PROVE  Shares(c)' >= Shares(c)
<1> USE DEF IInv
<1>1. superVaultState[c] \in VaultStates /\ balance' = balance
  BY DEF TypeOK, FulfillCancelRedeemRequests
<1>2. CASE c \in S /\ superVaultState[c].pendingCancelRedeemRequest
  <2>1. superVaultState'[c] = FulfillCancel(superVaultState[c])
    BY <1>2 DEF FulfillCancelRedeemRequests
  <2>2. /\ superVaultState'[c].pendingRedeemRequest = 0
        /\ superVaultState'[c].claimableCancelRedeemRequest
             = superVaultState[c].claimableCancelRedeemRequest
                 + superVaultState[c].pendingRedeemRequest
    BY <1>1, <1>2, <2>1 DEF FulfillCancel, VaultStates
  <2>3. /\ superVaultState[c].pendingRedeemRequest \in Nat
        /\ superVaultState[c].claimableCancelRedeemRequest \in Nat
    BY <1>1 DEF VaultStates
  <2>4. LockedShares'[c] = LockedShares[c]
    BY <2>2, <2>3, SharesFacts
  <2>5. QED BY <1>1, <2>4, SharesFacts
<1>3. CASE ~(c \in S /\ superVaultState[c].pendingCancelRedeemRequest)
  <2>1. superVaultState'[c] = superVaultState[c]
    BY <1>3 DEF FulfillCancelRedeemRequests, FulfillCancel
  <2>2. QED BY <1>1, <2>1, SameSharesKept
<1>4. QED BY <1>2, <1>3

(* A fulfilment takes all that was pending, and pays at least the floor.   *)
LEMMA FulfilPaysForShares ==
  ASSUME IInv, IInv', NEW S \in SUBSET Users, NEW out \in [S -> 0 .. MaxAssets],
         FulfillRedeemRequests(S, out), NEW c \in Users, Shares(c)' < Shares(c)
  PROVE  /\ Shares(c) - Shares(c)' = superVaultState[c].pendingRedeemRequest
         /\ ClaimableAssets'[c] >= ClaimableAssets[c] + MinAssetsOut(c)
<1> USE DEF IInv
<1>1. superVaultState[c] \in VaultStates /\ c \in Accounts /\ c # Escrow
  BY ConstantFacts DEF TypeOK
<1>2. balance'[c] = balance[c]
  BY <1>1 DEF FulfillRedeemRequests, TypeOK
<1>3. c \in S
  <2>1. SUFFICES ASSUME c \notin S PROVE FALSE
    OBVIOUS
  <2>2. superVaultState'[c] = superVaultState[c]
    BY <2>1 DEF FulfillRedeemRequests
  <2>3. LockedShares'[c] = LockedShares[c]
    BY <2>2, SharesFacts
  <2>4. QED BY <1>2, <2>3, SharesFacts
<1>4. /\ superVaultState'[c] = Fulfilled(superVaultState[c], out[c])
      /\ superVaultState[c].pendingRedeemRequest # 0
      /\ MinAssetsOut(c) <= out[c] /\ out[c] \in Nat
  BY <1>3, ConstantFacts DEF FulfillRedeemRequests
<1>5. /\ superVaultState'[c].pendingRedeemRequest = 0
      /\ superVaultState'[c].claimableCancelRedeemRequest = 0
      /\ superVaultState'[c].maxWithdraw = superVaultState[c].maxWithdraw + out[c]
  BY <1>4 DEF Fulfilled
<1>6. /\ superVaultState[c].pendingRedeemRequest \in Nat \ {0}
      /\ superVaultState[c].claimableCancelRedeemRequest \in Nat
      /\ superVaultState[c].averageRequestPPS \in Nat
      /\ superVaultState[c].maxWithdraw \in Nat
  BY <1>1, <1>4 DEF VaultStates
<1>7. superVaultState[c].claimableCancelRedeemRequest = 0
  BY <1>6 DEF RecordsConsistent, RecordConsistent
<1>8. LockedShares[c] = superVaultState[c].pendingRedeemRequest /\ LockedShares'[c] = 0
  BY <1>5, <1>6, <1>7, SharesFacts
<1>9. Shares(c) - Shares(c)' = superVaultState[c].pendingRedeemRequest
  BY <1>2, <1>6, <1>8, SharesFacts
<1>10. MinAssetsOut(c) \in Nat
  <2>1. SlippageOf(c) \in 0 .. BPS_PRECISION
    BY <1>1, ConstantFacts DEF SlippageOf, VaultStates
  <2>2. BPS_PRECISION - SlippageOf(c) \in Nat
    BY <2>1, ConstantFacts
  <2>3. QED BY <1>6, <2>2, ConstantFacts, MulDivType DEF MinAssetsOut, ComputeMinNetOut
<1>11. /\ ClaimableAssets[c] = superVaultState[c].maxWithdraw
       /\ ClaimableAssets'[c] = superVaultState[c].maxWithdraw + out[c]
  BY <1>5 DEF ClaimableAssets
<1>12. QED BY <1>4, <1>6, <1>9, <1>10, <1>11

(* No step that is open to an operator of c, or to a stranger, takes any   *)
(* of c's shares.                                                          *)
LEMMA OperatorKeepsShares ==
  ASSUME IInv, IInv', NEW c \in Users, NEW u \in Users \ {c}, OperatorStep(u, c)
  PROVE  Shares(c)' >= Shares(c)
<1> USE DEF IInv
<1>1. ASSUME NEW n \in 1 .. MaxShares, RequestRedeem(u, c, n)
      PROVE  Shares(c)' >= Shares(c)
  BY <1>1, RequestKeepsShares
<1>2. ASSUME NEW r \in Accounts, ClaimCancelRedeemRequest(u, c, r)
      PROVE  Shares(c)' >= Shares(c)
  <2>1. r = c
    BY <1>2 DEF ClaimCancelRedeemRequest, MayDirect
  <2>2. QED BY <1>2, <2>1, TakeBackKeepsShares
<1>3. ASSUME CancelRedeemRequest(u, c) PROVE Shares(c)' >= Shares(c)
  BY <1>3, RecordStepKeepsShares
<1>4. ASSUME NEW n, NEW r, Withdraw(u, c, n, r) \/ Redeem(u, c, n, r)
      PROVE  Shares(c)' >= Shares(c)
  BY <1>4, RecordStepKeepsShares DEF Withdraw, Redeem
<1>5. QED BY <1>1, <1>2, <1>3, <1>4 DEF OperatorStep

(* The steps that take shares of c.                                        *)
LEMMA ShareDecreaseExplained ==
  ASSUME IInv, IInv', [Next]_vars, NEW c \in Users, Shares(c)' < Shares(c)
  PROVE  \/ \E to \in Accounts, n \in 1 .. MaxShares : Transfer(c, to, n)
         \/ \E to \in Accounts : ClaimCancelRedeemRequest(c, c, to)
         \/ /\ Shares(c) - Shares(c)' = superVaultState[c].pendingRedeemRequest
            /\ ClaimableAssets'[c] >= ClaimableAssets[c] + MinAssetsOut(c)
<1> USE DEF IInv
<1>1. ~(Shares(c)' >= Shares(c))
  BY SharesFacts
<1>2. CASE UNCHANGED <<balance, superVaultState>>
  BY <1>1, <1>2, SameSharesKept
<1>3. CASE UserStep
  <2>1. ASSUME NEW r \in Accounts, NEW n, Deposit(r, n) \/ Mint(r, n), n \in Nat
        PROVE  FALSE
    <3>1. PICK k \in Nat : /\ balance' = [balance EXCEPT ![r] = @ + k]
                           /\ superVaultState' = superVaultState
      <4>1. CASE Deposit(r, n)
        <5>1. pps \in Nat \ {0} /\ n - DepositFee(n, ManagementFeeBps) > 0
          BY <4>1, ConstantFacts DEF Deposit, TypeOK
        <5>2. DepositShares(n, ManagementFeeBps, pps) \in Nat
          BY <2>1, <5>1, DepositTypes
        <5>3. QED BY <4>1, <5>2 DEF Deposit
      <4>2. CASE Mint(r, n)
        BY <2>1, <4>2 DEF Mint
      <4>3. QED BY <2>1, <4>1, <4>2
    <3>2. balance'[c] >= balance[c]
      BY <3>1, ConstantFacts DEF TypeOK
    <3>3. LockedShares'[c] = LockedShares[c]
      BY <3>1, SharesFacts
    <3>4. QED BY <1>1, <3>2, <3>3, SharesFacts
  <2>2. ASSUME NEW u \in Users, NEW d \in Users, NEW n \in 1 .. MaxShares,
               RequestRedeem(u, d, n)
        PROVE  FALSE
    BY <1>1, <2>2, RequestKeepsShares
  <2>3. ASSUME NEW u \in Users, NEW d \in Users, NEW r \in Accounts,
               ClaimCancelRedeemRequest(u, d, r)
        PROVE  u = c /\ d = c
    <3>1. d = c /\ r # c
      BY <1>1, <2>3, TakeBackKeepsShares
    <3>2. QED BY <2>3, <3>1 DEF ClaimCancelRedeemRequest, MayDirect
  <2>4. ASSUME NEW u \in Users, NEW to \in Accounts, NEW n \in 1 .. MaxShares,
               Transfer(u, to, n)
        PROVE  u = c
    <3>1. SUFFICES ASSUME c # u PROVE FALSE
      OBVIOUS
    <3>2. u \in Accounts /\ n \in Nat
      BY ConstantFacts
    <3>3. n <= balance[u] /\ balance' = Move(u, to, n) /\ superVaultState' = superVaultState
      BY <2>4 DEF Transfer
    <3>4. balance'[c] >= balance[c]
      BY <3>1, <3>2, <3>3, MoveCostsSender
    <3>5. LockedShares'[c] = LockedShares[c]
      BY <3>3, SharesFacts
    <3>6. QED BY <1>1, <3>4, <3>5, SharesFacts
  <2>5. ASSUME NEW u, NEW d \in Users, NEW n, NEW r,
               \/ CancelRedeemRequest(u, d) \/ Withdraw(u, d, n, r) \/ Redeem(u, d, n, r)
               \/ SetRedeemSlippage(d, n)
        PROVE  FALSE
    BY <1>1, <2>5, RecordStepKeepsShares DEF Withdraw, Redeem
  <2>6. ASSUME NEW u, NEW d, NEW b, SetOperator(d, u, b)
        PROVE  UNCHANGED <<balance, superVaultState>>
    BY <2>6 DEF SetOperator
  <2>7. \A n \in (1 .. MaxAssets) \cup (1 .. MaxShares) : n \in Nat
    BY ConstantFacts
  <2>8. QED BY <1>2, <1>3, <2>1, <2>2, <2>3, <2>4, <2>5, <2>6, <2>7 DEF UserStep
<1>4. CASE ManagerStep
  <2>1. ASSUME NEW S \in SUBSET Users, FulfillCancelRedeemRequests(S) PROVE FALSE
    BY <1>1, <2>1, FulfillCancelKeepsShares
  <2>2. ASSUME NEW S \in SUBSET Users, NEW out \in [S -> 0 .. MaxAssets],
               FulfillRedeemRequests(S, out)
        PROVE  /\ Shares(c) - Shares(c)' = superVaultState[c].pendingRedeemRequest
               /\ ClaimableAssets'[c] >= ClaimableAssets[c] + MinAssetsOut(c)
    BY <2>2, FulfilPaysForShares
  <2>3. QED BY <1>4, <2>1, <2>2 DEF ManagerStep
<1>5. CASE EnvironmentStep
  BY <1>2, <1>5 DEF EnvironmentStep, PriceFeedStep, StrategyAssetsMove
<1>6. CASE UNCHANGED vars
  BY <1>2, <1>6 DEF vars
<1>7. QED BY <1>3, <1>4, <1>5, <1>6 DEF Next

(* A user's shares, held, pending or to take back, leave only by the       *)
(* user's own transfer or claim, or in a fulfilment that pays for them.    *)
THEOREM OnlyOwnHandTakesShares == Spec => SharesLeaveOnlyByOwnHand
<1> DEFINE Explained(c) ==
      Shares(c)' < Shares(c) =>
       /\ \/ \E to \in Accounts, n \in 1 .. MaxShares : Transfer(c, to, n)
          \/ \E to \in Accounts : ClaimCancelRedeemRequest(c, c, to)
          \/ /\ Shares(c) - Shares(c)' = superVaultState[c].pendingRedeemRequest
             /\ ClaimableAssets'[c] >= ClaimableAssets[c] + MinAssetsOut(c)
       /\ \A u \in Users \ {c} : ~OperatorStep(u, c)
<1>1. ASSUME IInv, IInv', [Next]_vars, NEW c \in Users PROVE Explained(c)
  <2>1. SUFFICES ASSUME Shares(c)' < Shares(c) PROVE Explained(c)
    OBVIOUS
  <2>2. ASSUME NEW u \in Users \ {c}, OperatorStep(u, c) PROVE FALSE
    <3>1. Shares(c)' >= Shares(c)
      BY <1>1, <2>2, OperatorKeepsShares
    <3>2. Shares(c) \in Nat /\ Shares(c)' \in Nat
      BY <1>1, SharesFacts DEF IInv
    <3>3. QED BY <2>1, <3>1, <3>2
  <2>3. QED BY <1>1, <2>1, <2>2, ShareDecreaseExplained
<1>2. IInv /\ IInv' /\ [Next]_vars => [\A c \in Users : Explained(c)]_vars
  <2> HIDE DEF Explained
  <2>1. QED BY <1>1
<1>3. QED BY <1>2, Invariance, PTL DEF Spec, SharesLeaveOnlyByOwnHand

-----------------------------------------------------------------------------
(* What quotes, previews and limits answer.                                *)

(* A factor in common does not change an order.                            *)
LEMMA FactorOrder ==
  ASSUME NEW a \in Nat, NEW b \in Nat, NEW d \in Nat \ {0}
  PROVE  /\ a <= b => d * a <= d * b
         /\ d * a < d * b => a < b
         /\ d * a <= d * b => a <= b
  BY Z3

(* The net amount quoted for n shares is the least that is worth n shares. *)
LEMMA NetQuote ==
  ASSUME NEW n \in Nat, NEW p \in Nat \ {0}, NEW x \in Nat
  PROVE  /\ QuoteMintNet(n, p) \in Nat
         /\ x >= QuoteMintNet(n, p) => MulDivFloor(x, PRECISION, p) >= n
         /\ x < QuoteMintNet(n, p) => MulDivFloor(x, PRECISION, p) < n
<1> DEFINE m == QuoteMintNet(n, p)
           q == MulDivFloor(x, PRECISION, p)
<1>1. PRECISION \in Nat \ {0}
  BY ConstantFacts
<1>2. m \in Nat /\ q \in Nat
  BY <1>1, MulDivType DEF QuoteMintNet
<1>3. PRECISION * m >= n * p /\ PRECISION * m < n * p + PRECISION
  BY <1>1, MulDivBounds DEF QuoteMintNet
<1>4. p * q <= x * PRECISION /\ x * PRECISION < p * q + p
  BY <1>1, MulDivBounds
<1> HIDE DEF m, q
<1>5. /\ n * p \in Nat /\ p * q \in Nat /\ x * PRECISION \in Nat
      /\ PRECISION * m \in Nat
  BY <1>1, <1>2, ProductNat
<1>6. n * p = p * n /\ x * PRECISION = PRECISION * x
  BY <1>1, Z3
<1>7. ASSUME x >= m PROVE q >= n
  <2>1. PRECISION * m <= PRECISION * x
    BY <1>1, <1>2, <1>7, FactorOrder
  <2>2. p * n < p * q + p
    BY <1>1, <1>3, <1>4, <1>5, <1>6, <2>1
  <2>3. p * (q + 1) = p * q + p
    BY <1>2, Z3
  <2>4. n < q + 1
    BY <1>2, <2>2, <2>3, FactorOrder
  <2>5. QED BY <1>2, <2>4
<1>8. ASSUME x < m PROVE q < n
  <2>1. PRECISION * (x + 1) <= PRECISION * m
    BY <1>1, <1>2, <1>8, FactorOrder
  <2>2. PRECISION * (x + 1) = PRECISION * x + PRECISION
    BY <1>1, Z3
  <2>3. p * q < p * n
    BY <1>1, <1>3, <1>4, <1>5, <1>6, <2>1, <2>2
  <2>4. QED BY <1>2, <2>3, FactorOrder
<1>9. QED BY <1>2, <1>7, <1>8 DEF m, q

(* The fee on an amount is at most the amount.                             *)
LEMMA FeeBounds ==
  ASSUME NEW x \in Nat, NEW f \in 0 .. BPS_PRECISION
  PROVE  DepositFee(x, f) \in Nat /\ DepositFee(x, f) <= x
<1>1. BPS_PRECISION \in Nat \ {0} /\ f \in Nat
  BY ConstantFacts
<1>2. CASE f = 0
  BY <1>2 DEF DepositFee
<1>3. CASE f # 0
  <2> DEFINE e == MulDivCeil(x, f, BPS_PRECISION)
  <2>1. e \in Nat
    BY <1>1, MulDivType
  <2>2. BPS_PRECISION * e < x * f + BPS_PRECISION
    BY <1>1, MulDivBounds
  <2> HIDE DEF e
  <2>3. x * f <= BPS_PRECISION * x
    BY <1>1, Z3
  <2>4. x * f \in Nat /\ BPS_PRECISION * x \in Nat /\ BPS_PRECISION * e \in Nat
    BY <1>1, <2>1, ProductNat
  <2>5. BPS_PRECISION * (x + 1) = BPS_PRECISION * x + BPS_PRECISION
    BY <1>1, Z3
  <2>6. BPS_PRECISION * e < BPS_PRECISION * (x + 1)
    BY <1>1, <2>2, <2>3, <2>4, <2>5
  <2>7. e < x + 1
    BY <1>1, <2>1, <2>6, FactorOrder
  <2>8. QED BY <1>3, <2>1, <2>7 DEF DepositFee, e
<1>4. QED BY <1>2, <1>3

(* A net amount grossed up for the fee leaves that amount when the fee is  *)
(* taken, and one unit less of gross does not.                             *)
LEMMA GrossUp ==
  ASSUME NEW m \in Nat \ {0}, NEW f \in Nat, f > 0, f < BPS_PRECISION,
         NEW g, g = MulDivCeil(m, BPS_PRECISION, BPS_PRECISION - f)
  PROVE  /\ g \in Nat \ {0}
         /\ g - DepositFee(g, f) >= m
         /\ (g - 1) - DepositFee(g - 1, f) < m
<1> DEFINE B == BPS_PRECISION
           e == MulDivCeil(g, f, B)
           h == MulDivCeil(g - 1, f, B)
<1>1. B \in Nat \ {0} /\ B - f \in Nat \ {0}
  BY ConstantFacts
<1>2. g \in Nat
  BY <1>1, MulDivType
<1>3. (B - f) * g >= m * B /\ (B - f) * g < m * B + (B - f)
  BY <1>1, MulDivBounds
<1>4. m * B \in Nat /\ m * B >= 1
  BY <1>1, Z3
<1>5. g # 0
  <2>1. (B - f) * 0 = 0
    BY <1>1
  <2>2. QED BY <1>3, <1>4, <2>1
<1>6. g \in Nat \ {0} /\ g - 1 \in Nat
  BY <1>2, <1>5
<1>7. e \in Nat /\ h \in Nat
  BY <1>1, <1>6, MulDivType
<1>8. B * e < g * f + B /\ B * h >= (g - 1) * f
  BY <1>1, <1>6, MulDivBounds
<1>9. DepositFee(g, f) = e /\ DepositFee(g - 1, f) = h
  BY DEF DepositFee
<1>10. B \in Nat \ {0} /\ B - f \in Nat
  BY <1>1
<1> HIDE DEF B, e, h
<1>11. (B - f) * g = B * g - g * f
  BY <1>6, <1>10, Z3
<1>12. /\ m * B \in Nat /\ B * g \in Nat /\ g * f \in Nat
       /\ B * e \in Nat /\ B * h \in Nat
  BY <1>6, <1>7, <1>10, ProductNat
<1>13. e <= g - m
  <2>1. B * (e + m) = B * e + m * B /\ B * (g + 1) = B * g + B
    BY <1>6, <1>7, <1>10, Z3
  <2>2. B * (e + m) < B * (g + 1)
    BY <1>3, <1>8, <1>10, <1>11, <1>12, <2>1
  <2>3. e + m < g + 1
    BY <1>6, <1>7, <1>10, <2>2, FactorOrder
  <2>4. QED BY <1>6, <1>7, <2>3
<1>14. (g - 1) - h < m
  <2>1. (g - 1) * f = g * f - f
    BY <1>6, Z3
  <2>2. B * (h + m) = B * h + m * B
    BY <1>7, <1>10, Z3
  <2>3. B * (g - 1) = B * g - B
    BY <1>6, <1>10, Z3
  <2>4. B * (g - 1) < B * (h + m)
    BY <1>3, <1>8, <1>10, <1>11, <1>12, <2>1, <2>2, <2>3
  <2>5. g - 1 < h + m
    BY <1>6, <1>7, <1>10, <2>4, FactorOrder
  <2>6. QED BY <1>6, <1>7, <2>5
<1>15. QED BY <1>6, <1>7, <1>9, <1>13, <1>14

(* At any price and any fee, what a mint of n shares charges is worth n    *)
(* shares as a deposit, and one unit less is not.                          *)
LEMMA MintQuote ==
  ASSUME NEW n \in Nat, NEW f \in 0 .. BPS_PRECISION, NEW p \in Nat \ {0},
         ~QuoteMintReverts(n, f, p)
  PROVE  /\ DepositShares(QuoteMintGross(n, f, p), f, p) >= n
         /\ DepositShares(QuoteMintGross(n, f, p) - 1, f, p) < n
<1> DEFINE m == QuoteMintNet(n, p)
           g == QuoteMintGross(n, f, p)
<1>1. m \in Nat
  BY NetQuote
<1>2. m \in Nat \ {0} /\ f \in Nat /\ f < BPS_PRECISION
  BY <1>1, ConstantFacts DEF QuoteMintReverts
<1>3. /\ g \in Nat \ {0}
      /\ g - DepositFee(g, f) >= m
      /\ (g - 1) - DepositFee(g - 1, f) < m
  <2>1. CASE f = 0
    <3>1. g = m
      BY <2>1 DEF QuoteMintGross
    <3>2. \A x : DepositFee(x, f) = 0
      BY <2>1 DEF DepositFee
    <3>3. QED BY <1>2, <3>1, <3>2
  <2>2. CASE f # 0
    <3>1. g = MulDivCeil(m, BPS_PRECISION, BPS_PRECISION - f)
      BY <2>2 DEF QuoteMintGross
    <3> HIDE DEF m, g
    <3>2. f > 0
      BY <1>2, <2>2
    <3>3. QED BY <1>2, <3>1, <3>2, GrossUp
  <2>3. QED BY <2>1, <2>2
<1>4. /\ \A x : DepositShares(x, f, p) = MulDivFloor(x - DepositFee(x, f), PRECISION, p)
      /\ \A x \in Nat : x >= m => MulDivFloor(x, PRECISION, p) >= n
      /\ \A x \in Nat : x < m => MulDivFloor(x, PRECISION, p) < n
  BY NetQuote DEF DepositShares
<1> HIDE DEF m, g
<1>5. g \in Nat /\ g - 1 \in Nat
  BY <1>3
<1>6. g - DepositFee(g, f) \in Nat /\ (g - 1) - DepositFee(g - 1, f) \in Nat
  BY <1>5, FeeBounds
<1>7. QED BY <1>3, <1>4, <1>6 DEF g

(* At any price and any fee, the previews are the answers themselves.      *)
LEMMA Previews ==
  ASSUME NEW n \in Nat, NEW f \in 0 .. BPS_PRECISION, NEW p \in Nat \ {0}
  PROVE  /\ PreviewDeposit(n, f, p) = DepositShares(n, f, p)
         /\ ~QuoteMintReverts(n, f, p) => PreviewMint(n, f, p) = QuoteMintGross(n, f, p)
<1>1. p # 0
  OBVIOUS
<1>2. CASE f = 0
  <2>1. n - 0 = n
    OBVIOUS
  <2>2. PreviewDeposit(n, f, p) = DepositShares(n, f, p)
    BY <1>1, <1>2, <2>1 DEF PreviewDeposit, DepositShares, DepositFee
  <2>3. PreviewMint(n, f, p) = QuoteMintGross(n, f, p)
    <3>1. ~(f >= BPS_PRECISION)
      BY <1>2, ConstantFacts
    <3>2. QED BY <1>1, <1>2, <3>1 DEF PreviewMint, QuoteMintGross, QuoteMintNet
  <2>4. QED BY <2>2, <2>3
<1>3. CASE f # 0
  <2>1. PreviewDeposit(n, f, p) = DepositShares(n, f, p)
    BY <1>1, <1>3 DEF PreviewDeposit, DepositShares, DepositFee
  <2>2. ASSUME ~QuoteMintReverts(n, f, p)
        PROVE  PreviewMint(n, f, p) = QuoteMintGross(n, f, p)
    <3>1. ~(f >= BPS_PRECISION)
      BY <2>2 DEF QuoteMintReverts
    <3>2. QED BY <1>1, <1>3, <3>1 DEF PreviewMint, QuoteMintGross, QuoteMintNet
  <2>3. QED BY <2>1, <2>2
<1>4. QED BY <1>2, <1>3

(* What maxRedeem of a claim worth m at the price w converts back to.      *)
LEMMA RedeemLimit ==
  ASSUME NEW m \in Nat, NEW w \in Nat \ {0}, NEW c, c = RedeemAssets(MaxRedeem(m, w), w)
  PROVE  c \in Nat /\ c <= m /\ (m - c) * PRECISION < w + PRECISION
<1> DEFINE s == MulDivFloor(m, PRECISION, w)
<1>1. PRECISION \in Nat \ {0}
  BY ConstantFacts
<1>2. MaxRedeem(m, w) = s
  BY DEF MaxRedeem
<1>3. c = MulDivFloor(s, w, PRECISION)
  BY <1>2 DEF RedeemAssets
<1>4. s \in Nat
  BY <1>1, MulDivType
<1>5. w * s <= m * PRECISION /\ m * PRECISION < w * s + w
  BY <1>1, MulDivBounds
<1> HIDE DEF s
<1>6. c \in Nat
  BY <1>1, <1>3, <1>4, MulDivType
<1>7. PRECISION * c <= s * w /\ s * w < PRECISION * c + PRECISION
  BY <1>1, <1>3, <1>4, MulDivBounds
<1>8. /\ s * w \in Nat /\ PRECISION * c \in Nat /\ m * PRECISION \in Nat
      /\ s * w = w * s /\ m * PRECISION = PRECISION * m
  <2>1. s * w \in Nat /\ PRECISION * c \in Nat /\ m * PRECISION \in Nat
    BY <1>1, <1>4, <1>6, ProductNat
  <2>2. s * w = w * s /\ m * PRECISION = PRECISION * m
    BY <1>1, <1>4, Z3
  <2>3. QED BY <2>1, <2>2
<1>9. PRECISION * c <= PRECISION * m
  BY <1>5, <1>7, <1>8
<1>10. c <= m
  BY <1>1, <1>6, <1>9, FactorOrder
<1>11. (m - c) * PRECISION = m * PRECISION - PRECISION * c
  BY <1>1, <1>6, Z3
<1>12. m * PRECISION - PRECISION * c < w + PRECISION
  BY <1>1, <1>5, <1>7, <1>8
<1>13. QED BY <1>6, <1>10, <1>11, <1>12

(* At the stored price, a mint charges the least gross deposit that is     *)
(* worth the shares, whatever the fee and whatever is rounded.             *)
THEOREM MintsAreCheapestDeposits == Spec => []MintIsCheapestDeposit
<1>1. IInv => MintIsCheapestDeposit
  <2>1. ASSUME IInv, NEW n \in 1 .. MaxShares, NEW f \in 0 .. BPS_PRECISION,
               ~QuoteMintReverts(n, f, pps)
        PROVE  /\ DepositShares(QuoteMintGross(n, f, pps), f, pps) >= n
               /\ DepositShares(QuoteMintGross(n, f, pps) - 1, f, pps) < n
    <3>1. n \in Nat /\ pps \in Nat \ {0}
      BY <2>1, ConstantFacts DEF IInv, TypeOK
    <3>2. QED BY <2>1, <3>1, MintQuote
  <2>2. QED BY <2>1 DEF MintIsCheapestDeposit
<1>2. QED BY <1>1, Invariance, PTL

(* At the stored price, previewDeposit and previewMint answer exactly what *)
(* a deposit mints and a mint charges.                                     *)
THEOREM PreviewsExact == Spec => []PreviewsAreExact
<1>1. IInv => PreviewsAreExact
  <2>1. ASSUME IInv, NEW n \in Nat, NEW f \in 0 .. BPS_PRECISION
        PROVE  /\ PreviewDeposit(n, f, pps) = DepositShares(n, f, pps)
               /\ ~QuoteMintReverts(n, f, pps) =>
                    PreviewMint(n, f, pps) = QuoteMintGross(n, f, pps)
    <3>1. pps \in Nat \ {0}
      BY <2>1, ConstantFacts DEF IInv, TypeOK
    <3>2. QED BY <3>1, Previews
  <2>2. (0 .. MaxShares) \subseteq Nat /\ (0 .. MaxAssets) \subseteq Nat
    BY ConstantFacts
  <2>3. QED BY <2>1, <2>2 DEF PreviewsAreExact
<1>2. QED BY <1>1, Invariance, PTL

(* The answer of maxRedeem is a claim of no more than the controller is    *)
(* owed and leaves less than a share's price and a unit behind, at every   *)
(* average price that fulfilments leave in a record.                       *)
THEOREM MaxRedeemSafe == Spec => []MaxRedeemIsSafe
<1>1. IInv => MaxRedeemIsSafe
  <2>1. ASSUME IInv, NEW c \in Users, superVaultState[c].averageWithdrawPrice > 0
        PROVE  LET owed    == superVaultState[c].maxWithdraw
                   price   == superVaultState[c].averageWithdrawPrice
                   claimed == RedeemAssets(MaxRedeem(owed, price), price)
               IN  /\ claimed <= owed
                   /\ (owed - claimed) * PRECISION < price + PRECISION
    <3>1. /\ superVaultState[c].maxWithdraw \in Nat
          /\ superVaultState[c].averageWithdrawPrice \in Nat \ {0}
      BY <2>1 DEF IInv, TypeOK, VaultStates
    <3>2. QED BY <3>1, RedeemLimit
  <2>2. QED BY <2>1 DEF MaxRedeemIsSafe
<1>2. QED BY <1>1, Invariance, PTL
=============================================================================
