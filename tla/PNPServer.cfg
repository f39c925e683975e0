SPECIFICATION Spec
CONSTANTS
  x = x
  y = y
  a = a
  b = b
  i = i
  j = j
  Name <- Names
  Key <- Keys
  Ip <- Ips
  Value <- Values
  Request <- Requests
  V6 <- IPv6
  V4Limit = 1
  V6Limit = 1
  Duration = 4
  MinNameDuration = 3
  MinLife = 1
  AddrExpiry = 2
  MaxTime = 5
PROPERTIES OwnersUpdate WrittenNamesLive
CHECK_DEADLOCK FALSE
