CONSTANTS
  NumClients = 2
  NumRequests = 2
  Interrupts = TRUE
SPECIFICATION FairSpec
INVARIANTS
  TypeOK
  CompareCountCovers
  MissedOnlyBetween
  VerdictInTime
PROPERTIES
  WaitReturns
  SummaryReturns
  BenchmarkDestroyed
CHECK_DEADLOCK FALSE
