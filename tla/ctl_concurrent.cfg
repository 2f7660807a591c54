\* Two installs at the same time.
SPECIFICATION Spec
CONSTANTS
  p1 = p1  s1 = s1  s2 = s2  bad = bad  a1 = a1  port1 = port1
  HashBits = 1
  Handlers = {h1, h2}
  Installers = {i1, i2}
  PrefixOrder <- OnePrefix
  Nexthops = {s1}
  BadNexthops = {}
  Connected = Connected
  ZeroAddr = ZeroAddr
  Drop = Drop
  Absent = Absent
  NeighAddrs = {}
  NeighPorts = {}
  LpmSize = 2
  NhSize = 2
  NeighSize = 1
  Faults <- NoFaults
  Requests <- RouteRequests
  Sequential = FALSE
  MaxQueue = 1
INVARIANTS
  TypeOK DropAtZero
SYMMETRY HandlerSymmetry
