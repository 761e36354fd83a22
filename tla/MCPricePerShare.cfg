SPECIFICATION Spec
CONSTANTS
  Strategies = {s1}
  Prices = {0, 2, 3, 4}
  Thresholds = {0, 9}
  PRECISION = 2
  BPS_PRECISION = 4
  DEVIATION_UNIT = 2
  NoThreshold = 9
  DefaultThreshold = 1
  MinUpdateInterval = 2
  MaxStaleness = 3
  PPSExpiration = 3
  SkimTimelock = 1
  WithdrawalTimelock = 1
  UpkeepCost = 1
  PerformanceFeeBps = 2
  MaxPerformanceFee = 2
  Supplies = {1, 2, 3}
  Start = 1
  MaxTime = 6
  MaxUpkeep = 1
  MaxReports = 3
INVARIANTS
  RecoveryState
  SkimNotUndone
PROPERTIES
  PriceStepsBounded
  HighWaterMarkSound
