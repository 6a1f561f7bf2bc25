SPECIFICATION Spec
CONSTANTS
  q1 = q1
  q2 = q2
  JobIds = {j1, j2, j3}
  Queues = {q1, q2}
  Partitions = {1, 2, 3}
  Workers = {w1}
  MaxTime = 3
  RetryDelay = 1
  JobSpecs <- RotationSpecs
  NULL = NULL
  LeaseLengths = {1}
  ClaimLimits = {1}
  MaintenanceLimit = 1
  MaxLost = 0
SYMMETRY Symmetry
PROPERTIES
  RotationProgress
CHECK_DEADLOCK FALSE
