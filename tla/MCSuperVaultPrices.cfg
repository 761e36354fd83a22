SPECIFICATION Spec
CONSTANTS
  Users = {u1}
  Escrow = escrow
  Strategy = strategy
  PRECISION = 4
  BPS_PRECISION = 5
  ManagementFeeBps = 1
  DefaultSlippageBps = 1
  Operators = {}
  SlippageChoices = {3}
  PPSValues = {3, 4, 7}
  MaxShares = 3
  MaxAssets = 3
  MaxRequests = 3
INVARIANTS
  AnchorTracksRequests
  MintIsCheapestDeposit
  PreviewsAreExact
  MaxRedeemIsSafe
PROPERTIES
  HoldersNotDiluted
