SPECIFICATION ELSpec
CONSTANTS
  t1 = t1
  t2 = t2
  s1 = s1
  s2 = s2
  r1 = r1
  r2 = r2
  All = All
  TxIds = {t1, t2}
  Streams = {s1, s2}
  Batch <- MCBatch
  Readers = {r1, r2}
  Follows <- MCFollows
  PageLimits = {0, 2, 15}
  Half = 8
  MaxEvents = 5
  CommitsFail = FALSE
  MaxRestarts = 1
  MaxPowerLosses = 1
INVARIANTS
  ReceiptsSurvive
CHECK_DEADLOCK FALSE
