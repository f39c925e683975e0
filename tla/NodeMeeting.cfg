SPECIFICATION Spec
CONSTANTS
  Node = {a, b}
  a = a
  b = b
  Calls <- OrSelf
  Pid = {p, q}
  p = p
  q = q
  Named = FALSE
  Strategies <- PunchRelay
  AddrTypes <- Ext
  NPairs = 1
  MaxPairs <- OnePair
  MaxPunchers = 1
SYMMETRY Symmetric
INVARIANT BothEndsReady
INVARIANT PunchAgreement
INVARIANT RelaysInReach
PROPERTY HandledOnce
PROPERTY SettledOnce
CHECK_DEADLOCK FALSE
