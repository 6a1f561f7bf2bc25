SPECIFICATION WSpec
CONSTANTS
  q1 = q1
  JobIds = {j1}
  Queues = {q1}
  Partitions = {1}
  Workers = {w1, w2}
  MaxTime = 3
  RetryDelay = 1
  JobSpecs <- LateSpecs
  NULL = NULL
  LeaseLengths = {1}
  ClaimLimits = {1}
  MaintenanceLimit = 64
  MaxLost = 0
  Horizon = 2
  MaxCrashes = 0
  MaxUnsure = 1
  RetryTimes = {NULL}
  PromptOperators = FALSE
SYMMETRY Symmetry
PROPERTIES
  LeasedToPendingOnlyByExpiry
CHECK_DEADLOCK FALSE
