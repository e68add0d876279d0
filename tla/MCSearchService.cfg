CONSTANTS
  Nodes = {n1, n2}
  Balancer = balancer
  Requests = {r1, r2}
  SearchThreads = 1
  LocalThreads = 1
  PoolSize = 2
  MayCrash = {n1, balancer}
  None = None
SPECIFICATION FairSpec
INVARIANTS
  TypeOK
  RepliesOutlived
  CallsStayArmed
  PoolNeverSaturated
PROPERTIES
  EverySearchEnds
  ApiSpec
CHECK_DEADLOCK FALSE
