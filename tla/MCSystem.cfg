CONSTANTS
  NumServers = 3
  Balancer = balancer
  NumStubs = 3
  Handlers = {h1, h2}
SPECIFICATION SystemSpec
INVARIANTS
  StubsAreReady
  BalancerTypeOK
PROPERTIES
  ComesUp
  TurnsWhenAlone
CHECK_DEADLOCK FALSE
