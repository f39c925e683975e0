SPECIFICATION Spec
CONSTANTS
  st1 = st1
  st2 = st2
  StunServer <- TwoServers
  MqttServers <- Three
  Families = 2
  MinSuccess = 1
  MaxAttempt = 1
  RelayLimit = 2
  Messages <- PeerMessages
  n1 = n1
  n2 = n2
  c1 = c1
  c2 = c2
  c3 = c3
  s1 = s1
  all = all
  ConName <- ConNames
  Con <- Connections
  SubName <- SubNames
  Pattern <- Patterns
  SubAll = all
  Listeners <- AcceptedBy
  AtOnce = 2
  a = a
  b = b
  up = up
  Client <- TwoClients
  Up = up
  Toxic <- Toxics
  Kind <- Kinds
  Size = 2
  Rate = 2
  MaxMessages = 2
  MaxToxics = 1
  MaxSends = 1
  p1 = p1
  p2 = p2
  i1 = i1
  i2 = i2
  i3 = i3
  ip4 = ip4
  ip6 = ip6
  Proc <- Processes
  Addrs <- Addresses
  Global <- GlobalAddresses
  Id <- PipeIds
  Busy <- OneBusy
  v = v
  w = w
  d = d
  Server <- Offsets
  Call <- Calls
  Pushes <- Values
  Reach <- Links
  MaxCalls = 2
  Skew = 1
  Penalty = 1
  MaxTime = 2
INVARIANTS
  NeverEasier
  ExactIfAnswered
  SharedServerFirst
  NameLeadsToCon
  Ordered
  BandwidthKept
  
  EndEndsChain
  OneServerPerAddress
  CloseReleases
  FetchGetsPush
SYMMETRY Alike
CHECK_DEADLOCK FALSE
