CONSTANTS
  NumServers = 3
  Balancer = balancer
SPECIFICATION FairSpec
PROPERTIES
  AllMeet
CHECK_DEADLOCK FALSE
