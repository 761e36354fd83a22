SPECIFICATION Spec
CONSTANTS
  Strategies = {s1}
  Prices = {2}
  Thresholds = {}
  PRECISION = 2
  BPS_PRECISION = 4
  DEVIATION_UNIT = 2
  NoThreshold = 9
  DefaultThreshold = 1
  MinUpdateInterval = 2
  MaxStaleness = 3
  PPSExpiration = 3
  SkimTimelock = 1
  WithdrawalTimelock = 1
  UpkeepCost = 1
  PerformanceFeeBps = 2
  MaxPerformanceFee = 2
  Supplies = {}
  Start = 1
  MaxTime = 4
  MaxUpkeep = 0
  MaxReports = 2
PROPERTIES
  ImmediateUpdateAfterUnpause
