SPECIFICATION Spec
CONSTANTS
  q1 = q1
  q2 = q2
  JobIds = {j1, j2}
  Queues = {q1}
  Partitions = {1, 2}
  Workers = {w1}
  MaxTime = 3
  RetryDelay = 1
  JobSpecs <- LifecycleSpecs
  NULL = NULL
  LeaseLengths = {1}
  ClaimLimits = {0, 2}
  MaintenanceLimit = 1
  MaxLost = 1
SYMMETRY Symmetry
INVARIANTS
  TypeOK
  PartitionFIFO
  ActivePartitionsExact
  AttemptsBounded
  ReceiptsTruthful
  RecoverySound
PROPERTIES
  ImplementsQueue
CHECK_DEADLOCK FALSE
