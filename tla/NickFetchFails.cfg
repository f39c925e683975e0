SPECIFICATION NickSpec
CONSTANTS
  v = v
  w = w
  d = d
  Server <- Offsets
  Call <- Calls
  Pushes <- Values
  Reach <- Links
  MaxCalls = 2
  Skew = 1
  Penalty = 1
  MaxTime = 2
INVARIANTS FetchTriesAll
SYMMETRY PushSymmetry
CHECK_DEADLOCK FALSE
