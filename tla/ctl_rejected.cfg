\* Writes that are refused: a nexthop that is no address, nexthop tables with no room for the block of two nexthops, any write; routes are queued at any moment.
SPECIFICATION FairSpec
CONSTANTS
  p1 = p1  s1 = s1  s2 = s2  bad = bad  a1 = a1  port1 = port1
  HashBits = 4
  Handlers = {h1}
  Installers = {i1}
  PrefixOrder <- OnePrefix
  Nexthops = {s1, s2, bad}
  BadNexthops = {bad}
  Connected = Connected
  ZeroAddr = ZeroAddr
  Drop = Drop
  Absent = Absent
  NeighAddrs = {a1}
  NeighPorts = {port1}
  LpmSize = 2
  NhSize = 8
  NeighSize = 1
  Faults <- WriteFaults
  Requests <- AllRequests
  Sequential = FALSE
  MaxQueue = 1
INVARIANT
  LpmClosed
PROPERTY
  Answered
