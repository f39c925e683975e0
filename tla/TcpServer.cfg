SPECIFICATION FairSpec
CONSTANTS
  c1 = c1
  c2 = c2
  c3 = c3
  w1 = w1
  w2 = w2
  Client <- Clients
  Waiter <- Waiters
  MaxAccepts = 3
  MaxCloses = 1
INVARIANTS ClosedEndsClients NobodyPassedOver
PROPERTIES WaitersServed
CHECK_DEADLOCK FALSE
