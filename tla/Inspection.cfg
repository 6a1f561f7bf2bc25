SPECIFICATION INSpec
CONSTANTS
  p1 = p1
  p2 = p2
  a = a
  b = b
  NULL = NULL
  MaxByte = 2
  Keys <- MCKeys
  Projections = {p1, p2}
  Values = {a, b}
  Replacements <- MCReplacements
  Queries <- MCQueries
  PageLimits = {1, 2}
  ExportPageSize = 2
  Streams = {1, 2}
  Stores <- MCStores
  MaxTxs = 6
INVARIANTS
  ScanSound
  ScanComplete
  ExportComplete
  ExportCloses
  ListFaithful
CHECK_DEADLOCK FALSE
