SPECIFICATION CFairSpec
CONSTANTS
  a = a
  b = b
  c = c
  owner = owner
  cli = cli
  NULL = NULL
  Threads = {a, b, c}
  Stores = {owner, cli}
  StoreOf <- MCStoreOf
  TxIds = {x1, x2}
  MaxIdle = 1
  MaxFaults = 1
INVARIANTS
  AnswersHold
  NothingLeftOpen
  ReadsAreCurrent
PROPERTIES
  WriterReleased
CHECK_DEADLOCK FALSE
