SPECIFICATION WSpec
CONSTANTS
  q1 = q1
  JobIds = {j1, j2}
  Queues = {q1}
  Partitions = {1}
  Workers = {w1, w2}
  MaxTime = 3
  RetryDelay = 2
  JobSpecs <- LeaseSpecs
  NULL = NULL
  LeaseLengths = {1}
  ClaimLimits = {1}
  MaintenanceLimit = 64
  MaxLost = 1
  Horizon = 2
  MaxCrashes = 1
  MaxUnsure = 1
  RetryTimes = {NULL}
  PromptOperators = TRUE
SYMMETRY Symmetry
INVARIANTS
  LiveLeaseIsCurrent
  LeaseAccounted
PROPERTIES
  LeasedToPendingOnlyByExpiry
CHECK_DEADLOCK FALSE
