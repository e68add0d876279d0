CONSTANTS
  NumClients = 1
  NumRequests = 2
  Interrupts = FALSE
SPECIFICATION Spec
INVARIANTS
  AllCounted
CHECK_DEADLOCK FALSE
