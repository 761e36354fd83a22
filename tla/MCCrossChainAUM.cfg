SPECIFICATION Spec
CONSTANTS
  ReservationIds = {r1, r2}
  PositionIds = {p1, p2, p3}
  Chains = {c1, c2}
  Amounts = {10}
  Values = {0, 5, 10, 15}
  MAX_POSITIONS_PER_STRATEGY = 2
  RESERVATION_TIMEOUT = 1
  POSITION_CONFIRMATION_TIMEOUT = 1
  MaxTime = 4
  WAD = 10
  HubValues = {0, 40}
  ImpliedValues = {0, 40}
  Configs <- MCConfigs
  CapConfigs <- MCCapConfigs
  MaxReports = 3
SYMMETRY IdSymmetry
CHECK_DEADLOCK FALSE
INVARIANTS
  TypeOK
  ExposureExact
  ReportIsBacked
  LandingNeverBreaches
PROPERTIES
  SendsWithinCap
  UncountedOnlyByReport
