SPECIFICATION Spec
CONSTANTS
  Accounts = {m1, m2, m3}
  NoAccount = none
  Leaves <- MCLeaves
  Roots = {1, 2}
  LeavesOf <- MCLeavesOf
  Intervals = {1}
  Fees = {2}
  Expirations = {2}
  HooksTimelocks = {0, 2}
  MAX_SECONDARY_MANAGERS = 1
  MANAGER_CHANGE_TIMELOCK = 2
  PARAMETER_CHANGE_TIMELOCK = 1
  PROPOSAL_TIMELOCK = 2
  UPKEEP_WITHDRAWAL_TIMELOCK = 1
  MaxTime = 4
  MaxTenures = 2
  MaxPending = 2
ACTION_CONSTRAINT OneAtATime
SYMMETRY AccountSymmetry
INVARIANT CleanSlate
