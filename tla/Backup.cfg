SPECIFICATION BFairSpec
CONSTANTS
  db = db
  d1 = d1
  d2 = d2
  b1 = b1
  b2 = b2
  b3 = b3
  NULL = NULL
  Backups = {b1, b2, b3}
  InOwner = {b1, b2}
  Dest <- MCDest
  Overwrite = {b2}
  Paths = {db, d1, d2}
  Db = db
  Taken = {d1, d2}
  Groups = 2
  Versions = 2
INVARIANTS
  BTypeOK
PROPERTIES
  BackupPointInTime
  ExistingKept
  BackupCompletes
CHECK_DEADLOCK FALSE
