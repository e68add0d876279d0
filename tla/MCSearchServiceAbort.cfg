CONSTANTS
  Nodes = {n1, n2}
  Balancer = balancer
  Requests = {r1}
  SearchThreads = 1
  LocalThreads = 1
  PoolSize = 2
  MayCrash = {balancer}
  None = None
SPECIFICATION Spec
INVARIANTS
  AssertedOk
CHECK_DEADLOCK FALSE
