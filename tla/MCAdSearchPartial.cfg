CONSTANTS
  NumNodes = 2
  Tolerance = 1
  Tables <- MCTables
  Queries <- MCQueries
SPECIFICATION Spec
INVARIANTS
  FewerOnlyIfFewMatch
CHECK_DEADLOCK FALSE
