SPECIFICATION Spec
CONSTANTS
  ReservationIds = {r1, r2}
  PositionIds = {p1, p2}
  Chains = {c1}
  Amounts = {10}
  Values = {0, 10}
  MAX_POSITIONS_PER_STRATEGY = 1
  RESERVATION_TIMEOUT = 1
  POSITION_CONFIRMATION_TIMEOUT = 1
  MaxTime = 4
  WAD = 10
  HubValues = {0, 40}
  ImpliedValues = {0}
  Configs <- MCConfigs
  CapConfigs <- MCCapConfigs
  MaxReports = 2
SYMMETRY IdSymmetry
CHECK_DEADLOCK FALSE
INVARIANT SendsStayRegisterable
