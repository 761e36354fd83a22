SPECIFICATION Spec
CONSTANTS
  Users = {u1, u2}
  Escrow = escrow
  Strategy = strategy
  PRECISION = 2
  BPS_PRECISION = 4
  ManagementFeeBps = 0
  DefaultSlippageBps = 1
  Operators = {u1, u2}
  SlippageChoices = {}
  PPSValues = {2, 3}
  MaxShares = 3
  MaxAssets = 2
  MaxRequests = 2
ACTION_CONSTRAINT OperatorsOrVolume
SYMMETRY UserSymmetry
INVARIANTS
  EscrowCoversShares
  EscrowCoversAssets
PROPERTIES
  ImplementsAsyncRedeem
  SharesLeaveOnlyByOwnHand
