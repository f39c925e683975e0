SPECIFICATION FairSpec
CONSTANTS
  p = p
  Peer <- OnePeer
  MaxWakes <- Wakes
  Rounds = 2
  MaxAgain = 1
  MaxStale = 1
  MaxLate = 2
INVARIANTS OneAllocation AcceptedIsGranted ClosedIsQuiet
PROPERTIES ClosesUnlessLost
CHECK_DEADLOCK FALSE
