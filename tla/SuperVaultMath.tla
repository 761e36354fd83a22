--------------------------- MODULE SuperVaultMath ---------------------------
(***************************************************************************)
(* The integer arithmetic of the vault: share and asset conversions, the   *)
(* management fee on deposits and mints, the slippage floor of a redeem    *)
(* request and the average price of what a controller may withdraw.        *)
(*                                                                         *)
(* Amounts are naturals.  PRECISION is 10 ** decimals of the vault and a   *)
(* price of PRECISION is one asset per share; BPS_PRECISION is 100 %.      *)
(* Both are small in the models: only the rounding matters.                *)
(***************************************************************************)
EXTENDS MulDiv

CONSTANTS
  PRECISION,       \* one whole share, and the unit of a price per share
  BPS_PRECISION    \* 100 % as the fee and the slippage count it

ASSUME PrecisionAssumption ==
  /\ PRECISION \in Nat \ {0}
  /\ BPS_PRECISION \in Nat \ {0}

(***************************************************************************)
(* Conversions at the stored price.                                        *)
(***************************************************************************)
ConvertToShares(assets, pps) ==
  IF pps = 0 THEN 0 ELSE MulDivFloor(assets, PRECISION, pps)

ConvertToAssets(shares, pps) ==
  IF pps = 0 THEN 0 ELSE MulDivFloor(shares, pps, PRECISION)

(***************************************************************************)
(* Deposits: the fee is taken on the gross amount, rounded up; shares are  *)
(* minted for the rest, rounded down.                                      *)
(***************************************************************************)
DepositFee(assetsGross, feeBps) ==
  IF feeBps = 0 THEN 0 ELSE MulDivCeil(assetsGross, feeBps, BPS_PRECISION)

(* Faulty variant: shares rounded in favour of the depositor.              *)
DepositShares_RoundedUp(assetsGross, feeBps, pps) ==
  MulDivCeil(assetsGross - DepositFee(assetsGross, feeBps), PRECISION, pps)

DepositShares(assetsGross, feeBps, pps) ==
  MulDivFloor(assetsGross - DepositFee(assetsGross, feeBps), PRECISION, pps)

(* Faulty variant: the preview rounds the fee down.                        *)
PreviewDeposit_FeeDown(assets, feeBps, pps) ==
  IF pps = 0 THEN 0
  ELSE MulDivFloor(assets - MulDivFloor(assets, feeBps, BPS_PRECISION), PRECISION, pps)

(* SuperVault.previewDeposit, written separately from the strategy's code. *)
PreviewDeposit(assets, feeBps, pps) ==
  CASE pps = 0    -> 0
    [] pps # 0 /\ feeBps = 0 -> MulDivFloor(assets, PRECISION, pps)
    [] OTHER      -> MulDivFloor(assets - MulDivCeil(assets, feeBps, BPS_PRECISION),
                                 PRECISION, pps)

(***************************************************************************)
(* Mints: the net amount is rounded up, then grossed up for the fee.       *)
(***************************************************************************)
QuoteMintNet(shares, pps) == MulDivCeil(shares, pps, PRECISION)

(* Faulty variant: the fee is added to the net instead of grossed up.      *)
QuoteMintGross_FeeOnNet(shares, feeBps, pps) ==
  QuoteMintNet(shares, pps)
    + MulDivCeil(QuoteMintNet(shares, pps), feeBps, BPS_PRECISION)

QuoteMintGross(shares, feeBps, pps) ==
  IF feeBps = 0
  THEN QuoteMintNet(shares, pps)
  ELSE MulDivCeil(QuoteMintNet(shares, pps), BPS_PRECISION, BPS_PRECISION - feeBps)

(* The conditions under which quoteMintAssetsGross reverts.                *)
QuoteMintReverts(shares, feeBps, pps) ==
  \/ pps = 0
  \/ QuoteMintNet(shares, pps) = 0
  \/ feeBps >= BPS_PRECISION

(* SuperVault.previewMint, which answers 0 where the mint would revert.    *)
PreviewMint(shares, feeBps, pps) ==
  CASE pps = 0 -> 0
    [] pps # 0 /\ feeBps = 0 -> MulDivCeil(shares, pps, PRECISION)
    [] pps # 0 /\ feeBps >= BPS_PRECISION -> 0
    [] OTHER -> MulDivCeil(MulDivCeil(shares, pps, PRECISION),
                           BPS_PRECISION, BPS_PRECISION - feeBps)

(***************************************************************************)
(* SuperVaultAccountingLib: the slippage floor, and the average price at   *)
(* which the assets a controller may withdraw were redeemed.               *)
(***************************************************************************)
ComputeMinNetOut(requestedShares, averageRequestPPS, slippageBps) ==
  MulDivFloor(MulDivFloor(requestedShares, averageRequestPPS, PRECISION),
              BPS_PRECISION - slippageBps, BPS_PRECISION)

CalculateAverageWithdrawPrice(maxWithdraw, withdrawPrice, requestedShares, assetsOut) ==
  LET carried == maxWithdraw > 0 /\ withdrawPrice > 0
      existingShares == IF carried THEN MulDivFloor(maxWithdraw, PRECISION, withdrawPrice)
                                   ELSE 0
      existingAssets == IF carried THEN maxWithdraw ELSE 0
      newTotalShares == existingShares + requestedShares
  IN  IF newTotalShares > 0
      THEN MulDivFloor(existingAssets + assetsOut, PRECISION, newTotalShares)
      ELSE 0

(* Shares <-> assets of a claim, at the controller's average price.        *)
RedeemAssets(shares, withdrawPrice)   == MulDivFloor(shares, withdrawPrice, PRECISION)
WithdrawShares(assets, withdrawPrice) == MulDivCeil(assets, PRECISION, withdrawPrice)

(* Faulty variant: the limit in shares is rounded up.                      *)
MaxRedeem_RoundedUp(maxWithdraw, withdrawPrice) ==
  IF withdrawPrice = 0 THEN 0 ELSE MulDivCeil(maxWithdraw, PRECISION, withdrawPrice)

MaxRedeem(maxWithdraw, withdrawPrice) ==
  IF withdrawPrice = 0 THEN 0 ELSE MulDivFloor(maxWithdraw, PRECISION, withdrawPrice)
=============================================================================
