----------------------------- MODULE SuperVault -----------------------------
(***************************************************************************)
(* The share ledger and the asynchronous redemption of one vault: the      *)
(* contracts SuperVault, SuperVaultStrategy and SuperVaultEscrow, which    *)
(* call each other inside one transaction and so step together.            *)
(*                                                                         *)
(* A transaction is one action: the guards are every check of the handler  *)
(* and of the handlers it calls, in any contract, and a transaction that   *)
(* reverts changes nothing and is no step.  The price feed (the aggregator *)
(* and its oracle) is an environment here: it sets the stored price and    *)
(* says whether operations that need the price are open.                   *)
(***************************************************************************)
EXTENDS SuperVaultMath, AccountSums

CONSTANTS
  Users,               \* holders, controllers, operators and receivers
  Escrow,              \* the address of the SuperVaultEscrow
  Strategy,            \* the address of the SuperVaultStrategy
  ManagementFeeBps,    \* entry fee in force
  DefaultSlippageBps,  \* DEFAULT_REDEEM_SLIPPAGE_BPS
  Operators,           \* bound: the users who may be made operators
  SlippageChoices,     \* what users set as their own slippage (0: the default)
  PPSValues,           \* prices the feed may report
  MaxShares,           \* bound: shares in existence
  MaxAssets,           \* bound: assets in each contract and per call
  MaxRequests          \* bound: requests that one pending redemption adds up

ASSUME VaultAssumption ==
  /\ IsFiniteSet(Users)
  /\ Escrow \notin Users /\ Strategy \notin Users /\ Strategy # Escrow
  /\ Operators \subseteq Users
  /\ ManagementFeeBps \in 0 .. BPS_PRECISION
  /\ DefaultSlippageBps \in 0 .. BPS_PRECISION
  /\ SlippageChoices \subseteq 0 .. BPS_PRECISION
  /\ PPSValues \subseteq Nat \ {0} /\ PRECISION \in PPSValues
  /\ MaxShares \in Nat /\ MaxAssets \in Nat /\ MaxRequests \in Nat

VARIABLES
  balance,          \* vault shares held: by each user, and by the escrow
  isOperator,       \* isOperator[c]: who may act for controller c
  superVaultState,  \* the strategy's record of each controller
  strategyAssets,   \* underlying assets idle in the strategy
  escrowAssets,     \* underlying assets in the escrow
  pps,              \* the price per share stored by the aggregator
  gate,             \* what the aggregator answers: see Gates
  anchor            \* history: the requests behind each pending redemption

vars == <<balance, isOperator, superVaultState, strategyAssets, escrowAssets,
          pps, gate, anchor>>

Accounts == Users \cup {Escrow}

(* "open": every operation; "vetoed": the global hooks root is vetoed, no  *)
(* deposits or mints; "closed": paused, stale or expired, nothing that     *)
(* reads the price.                                                        *)
Gates == {"open", "vetoed", "closed"}

VaultStates ==
  [pendingRedeemRequest         : Nat,
   averageRequestPPS            : Nat,
   maxWithdraw                  : Nat,
   averageWithdrawPrice         : Nat,
   redeemSlippageBps            : 0 .. BPS_PRECISION,
   pendingCancelRedeemRequest   : BOOLEAN,
   claimableCancelRedeemRequest : Nat]

NoRequest ==
  [pendingRedeemRequest |-> 0, averageRequestPPS |-> 0, maxWithdraw |-> 0,
   averageWithdrawPrice |-> 0, redeemSlippageBps |-> 0,
   pendingCancelRedeemRequest |-> FALSE, claimableCancelRedeemRequest |-> 0]

(* History of a pending redemption: the sum of shares * price over its     *)
(* requests, and how many requests there were.                             *)
NoAnchor == [value |-> 0, requests |-> 0]

TypeOK ==
  /\ balance \in [Accounts -> Nat]
  /\ isOperator \in [Users -> SUBSET Users]
  /\ superVaultState \in [Users -> VaultStates]
  /\ strategyAssets \in Nat
  /\ escrowAssets \in Nat
  /\ pps \in PPSValues
  /\ gate \in Gates
  /\ anchor \in [Users -> [value : Nat, requests : Nat]]

Init ==
  /\ balance = [a \in Accounts |-> 0]
  /\ isOperator = [u \in Users |-> {}]
  /\ superVaultState = [u \in Users |-> NoRequest]
  /\ strategyAssets = 0
  /\ escrowAssets = 0
  /\ pps = PRECISION
  /\ gate \in {"open", "vetoed"}
  /\ anchor = [u \in Users |-> NoAnchor]

-----------------------------------------------------------------------------
(* Helpers.                                                                *)

totalSupply == SumOver(balance, Accounts)

(* _validateStrategyState: not paused, not stale, not expired.             *)
StrategyStateValid == gate # "closed"

(* _validateController                                                     *)
MayActFor(caller, controller) ==
  caller = controller \/ caller \in isOperator[controller]

(* Faulty variant: an operator may direct a payment to anybody.            *)
MayDirect_AnyReceiver(caller, controller, receiver) ==
  MayActFor(caller, controller)

(* _validateControllerAndReceiver: an operator may only pay the controller.*)
MayDirect(caller, controller, receiver) ==
  \/ caller = controller
  \/ caller \in isOperator[controller] /\ receiver = controller

(* ERC-20 transfer of n shares.                                            *)
Move(from, to, n) ==
  IF from = to THEN balance
  ELSE [balance EXCEPT ![from] = @ - n, ![to] = @ + n]

SlippageOf(c) ==
  IF superVaultState[c].redeemSlippageBps > 0
  THEN superVaultState[c].redeemSlippageBps
  ELSE DefaultSlippageBps

-----------------------------------------------------------------------------
(* Entering the vault.                                                     *)

(* SuperVault.deposit with handleOperations4626Deposit: the gross assets   *)
(* come in, the fee leaves, the receiver gets shares for the rest.         *)
Deposit(receiver, assetsGross) ==
  LET assetsNet == assetsGross - DepositFee(assetsGross, ManagementFeeBps)
      shares    == DepositShares(assetsGross, ManagementFeeBps, pps)
  IN  /\ gate = "open"
      /\ assetsGross > 0 /\ assetsNet > 0 /\ shares > 0
      /\ strategyAssets + assetsNet <= MaxAssets
      /\ totalSupply + shares <= MaxShares
      /\ balance' = [balance EXCEPT ![receiver] = @ + shares]
      /\ strategyAssets' = strategyAssets + assetsNet
      /\ UNCHANGED <<isOperator, superVaultState, escrowAssets, pps, gate, anchor>>

(* SuperVault.mint with quoteMintAssetsGross and handleOperations4626Mint: *)
(* the fee that leaves is the difference of the two quotes.                *)
Mint(receiver, shares) ==
  LET assetsNet == QuoteMintNet(shares, pps)
  IN  /\ gate = "open"
      /\ shares > 0
      /\ ~QuoteMintReverts(shares, ManagementFeeBps, pps)
      /\ strategyAssets + assetsNet <= MaxAssets
      /\ totalSupply + shares <= MaxShares
      /\ balance' = [balance EXCEPT ![receiver] = @ + shares]
      /\ strategyAssets' = strategyAssets + assetsNet
      /\ UNCHANGED <<isOperator, superVaultState, escrowAssets, pps, gate, anchor>>

-----------------------------------------------------------------------------
(* Asking to redeem, and asking not to.                                    *)

(* Faulty variant: each request moves the anchor to the stored price.      *)
AverageRequestPPS_Latest(s, n) == pps

(* averageRequestPPS after n more shares are requested at the stored       *)
(* price: the weighted average, or the price itself for a first request.   *)
AverageRequestPPS(s, n) ==
  IF s.pendingRedeemRequest > 0
  THEN (s.pendingRedeemRequest * s.averageRequestPPS + n * pps)
         \div (s.pendingRedeemRequest + n)
  ELSE pps

(* Faulty variant: a request is accepted while a cancellation is pending.  *)
RequestRedeem_WhileCancelling(caller, owner, shares) ==
  LET s == superVaultState[owner]
  IN  /\ shares > 0
      /\ MayActFor(caller, owner)
      /\ balance[owner] >= shares
      /\ StrategyStateValid
      /\ anchor[owner].requests < MaxRequests
      /\ balance' = Move(owner, Escrow, shares)
      /\ superVaultState' = [superVaultState EXCEPT ![owner] =
           [s EXCEPT !.averageRequestPPS = AverageRequestPPS(s, shares),
                     !.pendingRedeemRequest = @ + shares]]
      /\ anchor' = [anchor EXCEPT ![owner] =
           [value |-> @.value + shares * pps, requests |-> @.requests + 1]]
      /\ UNCHANGED <<isOperator, strategyAssets, escrowAssets, pps, gate>>

(* requestRedeem -> escrowShares -> _handleRequestRedeem.  The controller  *)
(* must be the owner, so one parameter names both.                         *)
RequestRedeem(caller, owner, shares) ==
  LET s == superVaultState[owner]
  IN  /\ shares > 0
      /\ MayActFor(caller, owner)
      /\ balance[owner] >= shares
      /\ ~s.pendingCancelRedeemRequest
      /\ StrategyStateValid
      /\ anchor[owner].requests < MaxRequests
      /\ balance' = Move(owner, Escrow, shares)
      /\ superVaultState' = [superVaultState EXCEPT ![owner] =
           [s EXCEPT !.averageRequestPPS = AverageRequestPPS(s, shares),
                     !.pendingRedeemRequest = @ + shares]]
      /\ anchor' = [anchor EXCEPT ![owner] =
           [value |-> @.value + shares * pps, requests |-> @.requests + 1]]
      /\ UNCHANGED <<isOperator, strategyAssets, escrowAssets, pps, gate>>

(* cancelRedeemRequest -> _handleCancelRedeemRequest                       *)
CancelRedeemRequest(caller, controller) ==
  /\ MayActFor(caller, controller)
  /\ superVaultState[controller].pendingRedeemRequest # 0
  /\ ~superVaultState[controller].pendingCancelRedeemRequest
  /\ superVaultState' =
       [superVaultState EXCEPT ![controller].pendingCancelRedeemRequest = TRUE]
  /\ UNCHANGED <<balance, isOperator, strategyAssets, escrowAssets, pps, gate, anchor>>

(* fulfillCancelRedeemRequests: controllers without the flag are skipped.  *)
FulfillCancel(s) ==
  IF s.pendingCancelRedeemRequest
  THEN [s EXCEPT !.claimableCancelRedeemRequest = @ + s.pendingRedeemRequest,
                 !.pendingRedeemRequest = 0,
                 !.averageRequestPPS = 0]
  ELSE s

FulfillCancelRedeemRequests(controllers) ==
  /\ controllers # {}
  /\ superVaultState' =
       [c \in Users |-> IF c \in controllers THEN FulfillCancel(superVaultState[c])
                                             ELSE superVaultState[c]]
  /\ anchor' = [c \in Users |->
       IF c \in controllers /\ superVaultState[c].pendingCancelRedeemRequest
       THEN NoAnchor ELSE anchor[c]]
  /\ UNCHANGED <<balance, isOperator, strategyAssets, escrowAssets, pps, gate>>

(* claimableCancelRedeemRequest, the view the vault reads the shares from. *)
ClaimableCancel(s) ==
  IF s.pendingCancelRedeemRequest THEN s.claimableCancelRedeemRequest ELSE 0

(* Faulty variant: the claimable shares are not cleared by the claim.      *)
ClaimCancelRedeemRequest_NotCleared(caller, controller, receiver) ==
  LET shares == ClaimableCancel(superVaultState[controller])
  IN  /\ MayDirect(caller, controller, receiver)
      /\ shares > 0 /\ balance[Escrow] >= shares
      /\ superVaultState' =
           [superVaultState EXCEPT ![controller].pendingCancelRedeemRequest = FALSE]
      /\ balance' = Move(Escrow, receiver, shares)
      /\ UNCHANGED <<isOperator, strategyAssets, escrowAssets, pps, gate, anchor>>

(* claimCancelRedeemRequest -> _handleClaimCancelRedeem -> returnShares    *)
ClaimCancelRedeemRequest(caller, controller, receiver) ==
  LET s == superVaultState[controller]
      shares == ClaimableCancel(s)
  IN  /\ MayDirect(caller, controller, receiver)
      /\ s.claimableCancelRedeemRequest # 0 /\ s.pendingCancelRedeemRequest
      /\ shares > 0 /\ balance[Escrow] >= shares
      /\ superVaultState' = [superVaultState EXCEPT ![controller] =
           [s EXCEPT !.pendingCancelRedeemRequest = FALSE,
                     !.claimableCancelRedeemRequest = 0]]
      /\ balance' = Move(Escrow, receiver, shares)
      /\ UNCHANGED <<isOperator, strategyAssets, escrowAssets, pps, gate, anchor>>

-----------------------------------------------------------------------------
(* Paying redemptions.                                                     *)

(* The bounds of _processExactFulfillmentBatch on what a controller gets.  *)
TheoreticalAssets(c) ==
  MulDivFloor(superVaultState[c].pendingRedeemRequest, pps, PRECISION)

MinAssetsOut(c) ==
  ComputeMinNetOut(superVaultState[c].pendingRedeemRequest,
                   superVaultState[c].averageRequestPPS, SlippageOf(c))

(* The record of a controller whose pending shares are redeemed for out.   *)
Fulfilled(s, out) ==
  [pendingRedeemRequest |-> 0,
   averageRequestPPS |-> 0,
   maxWithdraw |-> s.maxWithdraw + out,
   averageWithdrawPrice |->
     CalculateAverageWithdrawPrice(s.maxWithdraw, s.averageWithdrawPrice,
                                   s.pendingRedeemRequest, out),
   redeemSlippageBps |-> s.redeemSlippageBps,
   pendingCancelRedeemRequest |-> FALSE,
   claimableCancelRedeemRequest |-> 0]

PendingShares == [c \in Users |-> superVaultState[c].pendingRedeemRequest]

(* fulfillRedeemRequests with _processExactFulfillmentBatch on each of the *)
(* controllers, which are sorted and unique, hence a set; out[c] is the    *)
(* manager's totalAssetsOut of c.  Shares are burned in the escrow, assets *)
(* move from the strategy to the escrow.                                   *)
FulfillRedeemRequests(controllers, out) ==
  LET burned == SumOver(PendingShares, controllers)
      paid   == SumOver(out, controllers)
  IN  /\ controllers # {}
      /\ StrategyStateValid
      /\ \A c \in controllers :
           /\ superVaultState[c].pendingRedeemRequest # 0
           /\ MinAssetsOut(c) <= out[c] /\ out[c] <= TheoreticalAssets(c)
      /\ strategyAssets >= paid
      /\ balance[Escrow] >= burned
      /\ escrowAssets + paid <= MaxAssets
      /\ superVaultState' =
           [c \in Users |-> IF c \in controllers
                            THEN Fulfilled(superVaultState[c], out[c])
                            ELSE superVaultState[c]]
      /\ balance' = [balance EXCEPT ![Escrow] = @ - burned]
      /\ strategyAssets' = strategyAssets - paid
      /\ escrowAssets' = escrowAssets + paid
      /\ anchor' = [c \in Users |-> IF c \in controllers THEN NoAnchor ELSE anchor[c]]
      /\ UNCHANGED <<isOperator, pps, gate>>

(* Faulty variant: the claim is not deducted.                              *)
Claim_NotDeducted(controller, assets, receiver) ==
  /\ assets > 0 /\ assets <= escrowAssets
  /\ assets <= superVaultState[controller].maxWithdraw
  /\ escrowAssets' = escrowAssets - assets
  /\ UNCHANGED <<balance, isOperator, superVaultState, strategyAssets, pps, gate, anchor>>

(* _handleClaimRedeem and returnAssets, the part withdraw and redeem share:*)
(* the escrow pays the receiver, which may be one of the contracts.        *)
Claim(controller, assets, receiver) ==
  /\ assets > 0
  /\ assets <= superVaultState[controller].maxWithdraw
  /\ assets <= escrowAssets
  /\ receiver = Strategy => strategyAssets + assets <= MaxAssets
  /\ superVaultState' = [superVaultState EXCEPT ![controller].maxWithdraw = @ - assets]
  /\ escrowAssets' = IF receiver = Escrow THEN escrowAssets ELSE escrowAssets - assets
  /\ strategyAssets' = IF receiver = Strategy THEN strategyAssets + assets
                                              ELSE strategyAssets
  /\ UNCHANGED <<balance, isOperator, pps, gate, anchor>>

(* SuperVault.withdraw: a claim of assets.                                 *)
Withdraw(caller, controller, assets, receiver) ==
  /\ MayDirect(caller, controller, receiver)
  /\ superVaultState[controller].averageWithdrawPrice # 0
  /\ Claim(controller, assets, receiver)

(* SuperVault.redeem: a claim of shares, at the average withdraw price.    *)
Redeem(caller, controller, shares, receiver) ==
  LET price == superVaultState[controller].averageWithdrawPrice
  IN  /\ MayDirect(caller, controller, receiver)
      /\ price # 0
      /\ Claim(controller, RedeemAssets(shares, price), receiver)

-----------------------------------------------------------------------------
(* Settings of a user, and plain token transfers.                          *)

(* setOperator: nobody is their own operator.                              *)
SetOperator(controller, operator, approved) ==
  /\ controller # operator
  /\ isOperator' = [isOperator EXCEPT ![controller] =
                      IF approved THEN @ \cup {operator} ELSE @ \ {operator}]
  /\ UNCHANGED <<balance, superVaultState, strategyAssets, escrowAssets, pps, gate, anchor>>

(* setRedeemSlippage                                                       *)
SetRedeemSlippage(c, slippageBps) ==
  /\ slippageBps <= BPS_PRECISION
  /\ superVaultState' = [superVaultState EXCEPT ![c].redeemSlippageBps = slippageBps]
  /\ UNCHANGED <<balance, isOperator, strategyAssets, escrowAssets, pps, gate, anchor>>

(* ERC-20 transfer of shares, to a user or, by mistake, to the escrow.     *)
Transfer(from, to, shares) ==
  /\ shares <= balance[from]
  /\ balance' = Move(from, to, shares)
  /\ UNCHANGED <<isOperator, superVaultState, strategyAssets, escrowAssets,
                 pps, gate, anchor>>

-----------------------------------------------------------------------------
(* The environment.                                                        *)

(* The aggregator stores a price, pauses, goes stale, recovers: any price  *)
(* of PPSValues and any answer of its guards.                              *)
PriceFeedStep(newPPS, newGate) ==
  /\ pps' = newPPS
  /\ gate' = newGate
  /\ UNCHANGED <<balance, isOperator, superVaultState, strategyAssets, escrowAssets, anchor>>

(* executeHooks, profits and losses of the yield sources, fees skimmed and *)
(* assets sent to the strategy: what is idle in the strategy changes.      *)
StrategyAssetsMove(assets) ==
  /\ strategyAssets' = assets
  /\ UNCHANGED <<balance, isOperator, superVaultState, escrowAssets, pps, gate, anchor>>

-----------------------------------------------------------------------------
UserStep ==
  \/ \E r \in Accounts, n \in 1 .. MaxAssets : Deposit(r, n)
  \/ \E r \in Accounts, n \in 1 .. MaxShares : Mint(r, n)
  \/ \E u, c \in Users, n \in 1 .. MaxShares : RequestRedeem(u, c, n)
  \/ \E u, c \in Users : CancelRedeemRequest(u, c)
  \/ \E u, c \in Users, r \in Accounts : ClaimCancelRedeemRequest(u, c, r)
  \/ \E u, c \in Users, n \in 1 .. MaxAssets, r \in Users \cup {Escrow, Strategy} :
       Withdraw(u, c, n, r)
  \/ \E u, c \in Users, n \in 1 .. MaxShares, r \in Users \cup {Escrow, Strategy} :
       Redeem(u, c, n, r)
  \/ \E c \in Users, u \in Operators, b \in BOOLEAN : SetOperator(c, u, b)
  \/ \E c \in Users, s \in SlippageChoices : SetRedeemSlippage(c, s)
  \/ \E u \in Users, to \in Accounts, n \in 1 .. MaxShares : Transfer(u, to, n)

ManagerStep ==
  \/ \E S \in SUBSET Users : FulfillCancelRedeemRequests(S)
  \/ \E S \in SUBSET Users : \E out \in [S -> 0 .. MaxAssets] :
       FulfillRedeemRequests(S, out)

EnvironmentStep ==
  \/ \E p \in PPSValues, g \in Gates : PriceFeedStep(p, g)
  \/ \E n \in 0 .. MaxAssets : StrategyAssetsMove(n)

Next == UserStep \/ ManagerStep \/ EnvironmentStep

Spec == Init /\ [][Next]_vars

-----------------------------------------------------------------------------
(* Properties.                                                             *)

LockedShares == [c \in Users |-> superVaultState[c].pendingRedeemRequest
                                   + superVaultState[c].claimableCancelRedeemRequest]
ClaimableAssets == [c \in Users |-> superVaultState[c].maxWithdraw]

(* The escrow holds at least the shares that all controllers together have *)
(* pending or may take back: neither fulfilment, which burns for a batch,  *)
(* nor a cancellation can spend the shares of another controller.          *)
EscrowCoversShares == balance[Escrow] >= SumOver(LockedShares, Users)

(* The escrow holds at least the assets all controllers may withdraw, so   *)
(* that NOT_ENOUGH_ASSETS never keeps one from a claim it is entitled to.  *)
EscrowCoversAssets == escrowAssets >= SumOver(ClaimableAssets, Users)

(* The fields of a controller's record agree: a fulfilled cancellation     *)
(* leaves no pending shares and keeps its flag up until it is claimed (so  *)
(* the reset of the claimable shares in a fulfilment destroys none), the   *)
(* flag is up only for shares, and pending shares have a slippage anchor.  *)
RecordConsistent(s) ==
  /\ s.claimableCancelRedeemRequest > 0 =>
       s.pendingCancelRedeemRequest /\ s.pendingRedeemRequest = 0
  /\ s.pendingCancelRedeemRequest =>
       s.pendingRedeemRequest > 0 \/ s.claimableCancelRedeemRequest > 0
  /\ s.pendingRedeemRequest > 0 <=> s.averageRequestPPS > 0
RecordsConsistent == \A c \in Users : RecordConsistent(superVaultState[c])

(* averageRequestPPS is the share-weighted mean of the prices at which the *)
(* pending shares were requested: never above it, and below it by less     *)
(* than one price unit for each request that was averaged in.              *)
AnchorTracksRequests ==
  \A c \in Users :
    LET s == superVaultState[c]
        a == anchor[c]
    IN  s.pendingRedeemRequest > 0 =>
          /\ s.pendingRedeemRequest * s.averageRequestPPS <= a.value
          /\ a.value <= s.pendingRedeemRequest * (s.averageRequestPPS + a.requests - 1)

(* At the stored price and any fee, a mint charges the least gross deposit *)
(* that is worth that many shares: neither way into the vault is cheaper   *)
(* than the other (quoteMintAssetsGross, handleOperations4626Deposit).     *)
MintIsCheapestDeposit ==
  \A shares \in 1 .. MaxShares, feeBps \in 0 .. BPS_PRECISION :
    ~QuoteMintReverts(shares, feeBps, pps) =>
      LET gross == QuoteMintGross(shares, feeBps, pps)
      IN  /\ DepositShares(gross, feeBps, pps) >= shares
          /\ DepositShares(gross - 1, feeBps, pps) < shares

(* previewDeposit and previewMint, coded apart from the strategy's own     *)
(* arithmetic, answer exactly what the deposit mints and the mint charges, *)
(* at the stored price and any fee.                                        *)
PreviewsAreExact ==
  \A feeBps \in 0 .. BPS_PRECISION :
    /\ \A assets \in 0 .. MaxAssets :
         PreviewDeposit(assets, feeBps, pps) = DepositShares(assets, feeBps, pps)
    /\ \A shares \in 0 .. MaxShares :
         ~QuoteMintReverts(shares, feeBps, pps) =>
           PreviewMint(shares, feeBps, pps) = QuoteMintGross(shares, feeBps, pps)

(* maxRedeem is a safe claim for every record that fulfilments and partial *)
(* claims can leave: it asks for no more assets than the controller is     *)
(* owed, and leaves less than the price of one share unit, and one asset   *)
(* unit, behind.                                                           *)
MaxRedeemIsSafe ==
  \A c \in Users :
    LET owed    == superVaultState[c].maxWithdraw
        price   == superVaultState[c].averageWithdrawPrice
        claimed == RedeemAssets(MaxRedeem(owed, price), price)
    IN  price > 0 =>
          /\ claimed <= owed
          /\ (owed - claimed) * PRECISION < price + PRECISION

(* Deposits, mints and fulfilments are neutral to the other holders: at    *)
(* the stored price, what backs the remaining shares never gets worse by a *)
(* step that mints or burns, whatever is rounded on the way.               *)
HoldersNotDiluted ==
  [][totalSupply' # totalSupply =>
       strategyAssets' * PRECISION + pps * totalSupply
         >= strategyAssets * PRECISION + pps * totalSupply']_vars

(* What user u can do in the name of another controller c.                 *)
OperatorStep(u, c) ==
  \/ \E n \in 1 .. MaxShares : RequestRedeem(u, c, n)
  \/ CancelRedeemRequest(u, c)
  \/ \E r \in Accounts : ClaimCancelRedeemRequest(u, c, r)
  \/ \E r \in Users \cup {Escrow, Strategy} :
       \/ \E n \in 1 .. MaxAssets : Withdraw(u, c, n, r)
       \/ \E n \in 1 .. MaxShares : Redeem(u, c, n, r)

(* The shares of a user (held, pending or to take back) decrease only by   *)
(* the user's own transfer or claim to somebody else, or in a fulfilment   *)
(* that credits the user at least the slippage floor of all of them that   *)
(* were pending; no step open to an operator, or to a stranger, does it.   *)
Shares(c) == balance[c] + LockedShares[c]
SharesLeaveOnlyByOwnHand ==
  [][\A c \in Users : Shares(c)' < Shares(c) =>
       /\ \/ \E to \in Accounts, n \in 1 .. MaxShares : Transfer(c, to, n)
          \/ \E to \in Accounts : ClaimCancelRedeemRequest(c, c, to)
          \/ /\ Shares(c) - Shares(c)' = superVaultState[c].pendingRedeemRequest
             /\ ClaimableAssets'[c] >= ClaimableAssets[c] + MinAssetsOut(c)
       /\ \A u \in Users \ {c} : ~OperatorStep(u, c)]_vars

(* The redemption of each controller follows the life cycle of AsyncRedeem.*)
PhaseOf(s) ==
  CASE s.claimableCancelRedeemRequest > 0 -> "cancelled"
    [] s.pendingRedeemRequest > 0 /\ s.pendingCancelRedeemRequest -> "cancelling"
    [] s.pendingRedeemRequest > 0 /\ ~s.pendingCancelRedeemRequest -> "requested"
    [] OTHER -> "none"

Redemption == INSTANCE AsyncRedeem WITH
  Controllers <- Users,
  phase       <- [c \in Users |-> PhaseOf(superVaultState[c])],
  locked      <- LockedShares,
  owed        <- ClaimableAssets

(* Every step of the three contracts is a step of AsyncRedeem or leaves    *)
(* it unchanged.                                                           *)
ImplementsAsyncRedeem == Redemption!RedeemSpec
=============================================================================
