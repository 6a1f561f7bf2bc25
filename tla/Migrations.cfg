SPECIFICATION FairMSpec
CONSTANTS
  c1 = c1
  c2 = c2
  d2 = d2
  Processes = {p1, p2, p3}
  Checksums = {c1, c2, d2}
  Builds <- MCBuilds
  MaxFaults = 1
INVARIANTS
  SchemaIsRecorded
  OpenedSchemaAgrees
PROPERTIES
  OpenersGetIn
CHECK_DEADLOCK FALSE
