SPECIFICATION CPSpec
CONSTANTS
  q1 = q1
  j1 = j1
  s1 = s1
  s2 = s2
  e1 = e1
  e2 = e2
  e3 = e3
  p1 = p1
  k1 = k1
  k2 = k2
  a = a
  b = b
  JobIds = {j1}
  Queues = {q1}
  Partitions = {1}
  Workers = {w1}
  MaxTime = 3
  RetryDelay = 1
  JobSpecs <- MCSpecs
  NULL = NULL
  LeaseLengths = {1}
  ClaimLimits = {1}
  MaintenanceLimit = 64
  MaxLost = 0
  TxIds = {t1, t2, t3, t4}
  Streams = {s1, s2}
  Events = {e1, e2, e3}
  Projections = {p1}
  Keys = {k1, k2}
  Values = {a, b}
  MaxOperations = 3
  MaxFaults = 2
  Batches <- MCBatches
SYMMETRY Symmetry
INVARIANTS
  LogIsCommittedBatches
  StreamVersionsContiguous
  ExpectedVersionsHeld
  ProjectionsReplayPatches
  ToldTruthful
  SettledOnce
  VerifyReportsNothing
CHECK_DEADLOCK FALSE
