\* One packet at a time among the requests of one operator; two prefixes share the tables.
SPECIFICATION BoundedSpec
CONSTANTS
  p1 = p1  p2 = p2  s1 = s1  s2 = s2  port1 = port1
  vip = vip  stranger = stranger
  HashBits = 4
  Handlers = {h1}
  Installers = {i1}
  PrefixOrder <- TwoPrefixes
  Nexthops = {s1, s2, Connected}
  BadNexthops = {}
  Connected = Connected
  ZeroAddr = ZeroAddr
  Drop = Drop
  Absent = Absent
  NeighAddrs = {}
  NeighPorts = {}
  LpmSize = 2
  NhSize = 16
  NeighSize = 1
  Faults <- NoFaults
  Requests <- AllButNeigh
  Sequential = TRUE
  MaxQueue = 1
  Matching <- Matches
  PacketHashes = {1}
INVARIANTS Deployed ClearEmpties
PROPERTIES InstallDeploysQueued ForwardedRight OnlyKnownServers Refinement
