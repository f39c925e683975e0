SPECIFICATION FairSpec
CONSTANTS
  Node = {a, b}
  a = a
  b = b
  Calls <- OneCall
  Pid = {p}
  p = p
  Named = FALSE
  Strategies <- JustRelay
  AddrTypes <- Ext
  NPairs = 1
  MaxPairs <- OnePair
  MaxPunchers = 1
PROPERTY ConnectReturns
CHECK_DEADLOCK FALSE
