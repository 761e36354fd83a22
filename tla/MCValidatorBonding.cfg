SPECIFICATION FairSpec
CONSTANTS
  Operators = {o1}
  Others = {b1, b2}
  NoAccount = none
  InitialMinimumBond = 2
  InitialUnbondingPeriod = 2
  DEFAULT_PARAMETER_TIMELOCK = 2
  ProposedMinimumBonds = {3}
  ProposedUnbondingPeriods = {1}
  ProposedParameterTimelocks = {1, 2}
  MaxBond = 5
  MaxTime = 4
ACTION_CONSTRAINT TimelockOrBonds
INVARIANTS
  BondsBacked
  RegistryMatchesStatus
PROPERTIES
  CooldownRespected
  BeneficiaryInControl
  SlashProportional
  ChangesAnnounced
  ExitsEnd
