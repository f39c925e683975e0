SPECIFICATION FairSpec
CONSTANTS
  Node = {a, b}
  a = a
  b = b
  Calls <- OrSelf
  Pid = {p, q, r, s}
  p = p
  q = q
  r = r
  s = s
  Named = TRUE
  Strategies <- DirectReverse
  AddrTypes <- ExtNic
  NPairs = 1
  MaxPairs <- TwoPairs
  MaxPunchers = 1
INVARIANT BothEndsReady
PROPERTY ImplementsCall
PROPERTY ConnectReturns
CHECK_DEADLOCK FALSE
