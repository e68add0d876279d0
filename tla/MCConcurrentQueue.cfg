CONSTANTS
  Producers = {p1, p2}
  Consumers = {c1, c2}
  Capacity = 2
  MaxItems = 4
  Nobody = Nobody
SPECIFICATION FairSpec
INVARIANTS
  TypeOK
  PopNotLost
  PushNotLost
PROPERTIES
  CloseReleases
CHECK_DEADLOCK FALSE
