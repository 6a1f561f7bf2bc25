SPECIFICATION ELFairSpec
CONSTANTS
  t1 = t1
  t2 = t2
  s1 = s1
  s2 = s2
  r1 = r1
  r2 = r2
  All = All
  TxIds = {t1, t2}
  Streams = {s1, s2}
  Batch <- MCBatch
  Readers = {r1, r2}
  Follows <- MCFollows
  PageLimits = {0, 2, 15}
  Half = 8
  MaxEvents = 5
  CommitsFail = TRUE
  MaxRestarts = 1
  MaxPowerLosses = 1
INVARIANTS
  TailExact
  StrictCommitsSurvive
  BatchesWhole
  LastEventsAgree
PROPERTIES
  TailCatchesUp
CHECK_DEADLOCK FALSE
