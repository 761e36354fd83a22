SPECIFICATION Spec
CONSTANTS
  Strategies = {s1, s2}
  Prices = {0, 2}
  Thresholds = {}
  PRECISION = 2
  BPS_PRECISION = 4
  DEVIATION_UNIT = 2
  NoThreshold = 9
  DefaultThreshold = 1
  MinUpdateInterval = 0
  MaxStaleness = 1
  PPSExpiration = 1
  SkimTimelock = 1
  WithdrawalTimelock = 1
  UpkeepCost = 1
  PerformanceFeeBps = 2
  MaxPerformanceFee = 2
  Supplies = {}
  Start = 1
  MaxTime = 2
  MaxUpkeep = 3
  MaxReports = 2
SYMMETRY StrategySymmetry
INVARIANTS
  UpkeepBacked
  ChargedOncePerNonce
