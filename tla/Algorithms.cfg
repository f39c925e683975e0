SPECIFICATION Spec
CONSTANTS
  MaxPort = 12
  LowPort = 3
  SelfLow = 4
  Step = 2
  StunPort = 6
  Delta <- Deltas
  Sample <- Ports
  TestNo = 7
  LastPort = 13
  Local <- LocalPorts
  Start = 5
  MaxLost = 2
  Rule <- Rules
  Bits = 4
  MaxSize = 5
  Right <- RightOnes
  Wrong <- WrongOnes
  EnoughData = 4
  MinData = 3
  MaxSdev = 1
  Sizes <- Pools
  Private = {11, 12}
  LinkLocal = {21}
  External = {1, 2, 3}
  Nics <- NicLists
  Foreign = 31
  StunClients = 4
  MinAgree = 2
  MaxWrong = 1
  Nic <- NicKinds
  MaxNics = 2
  Signals <- SignalLists
  MqttServers = 7
  NodePort = 9
INVARIANTS
  
  DeltaFound
  RangeIsHosts
  BothChooseSame
  SkewIsRight
  PoolIndexed
  RoutesAreTrue
  AddrRoundTrip
CHECK_DEADLOCK FALSE
