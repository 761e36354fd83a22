SPECIFICATION Spec
CONSTANTS
  Pairs = {x, y}
  Providers = {p, q}
  Feeds = {f}
  NoFeed = NoFeed
  Limits = {0, 1, 2}
  DefaultStaleness = 2
  TIMELOCK_PERIOD = 2
  REMOVAL_TIMELOCK_PERIOD = 1
  MAX_SAMPLE_PROVIDERS = 1
  MAX_PROVIDER_REMOVALS = 2
  MaxEntries = 2
  h1 = h1
  Hooks <- MCHooks
  Choices <- MCChoices
  Initial <- MCInitial
  TIMELOCK = 2
  BPS_MAX = 2
  MaxTime = 4
  MaxPending = 1
  MaxChanges = 2
SYMMETRY FeedSymmetry
CHECK_DEADLOCK FALSE
INVARIANTS
  HooksWaitTheirTime
  EachProviderCountsOnce
PROPERTIES
  ParametersTimelocked
  FeedsReturnAnnounced
  LimitsKeepMinimum
