SPECIFICATION Spec
CONSTANTS
  Operators = {o1}
  Others = {}
  NoAccount = none
  InitialMinimumBond = 4
  InitialUnbondingPeriod = 2
  DEFAULT_PARAMETER_TIMELOCK = 1
  ProposedMinimumBonds = {}
  ProposedUnbondingPeriods = {}
  ProposedParameterTimelocks = {}
  MaxBond = 5
  MaxTime = 1
INVARIANTS
  UnbondingHasRequest
