CONSTANTS
  NumNodes = 3
  NodeId = 2
  Files <- MCFiles
  Lookups <- MCLookups
SPECIFICATION Spec
INVARIANTS
  IndexPointsToFirst
  ScanStaysClose
  LookupExact
CHECK_DEADLOCK FALSE
