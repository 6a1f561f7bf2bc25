SPECIFICATION FairWSpec
CONSTANTS
  q1 = q1
  JobIds = {j1, j2}
  Queues = {q1}
  Partitions = {1, 2}
  Workers = {w1}
  MaxTime = 4
  RetryDelay = 1
  JobSpecs <- ProgressSpecs
  NULL = NULL
  LeaseLengths = {1}
  ClaimLimits = {1}
  MaintenanceLimit = 64
  MaxLost = 1
  Horizon = 3
  MaxCrashes = 0
  MaxUnsure = 0
  RetryTimes = {NULL}
  PromptOperators = TRUE
PROPERTIES
  EveryJobSettles
CHECK_DEADLOCK FALSE
