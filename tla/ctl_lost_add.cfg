\* A route queued while an install runs (c4bmv2-readme.md:22).
SPECIFICATION Spec
CONSTANTS
  p1 = p1  s1 = s1  s2 = s2  bad = bad  a1 = a1  port1 = port1
  HashBits = 3
  Handlers = {h1}
  Installers = {i1}
  PrefixOrder <- OnePrefix
  Nexthops = {s1}
  BadNexthops = {}
  Connected = Connected
  ZeroAddr = ZeroAddr
  Drop = Drop
  Absent = Absent
  NeighAddrs = {}
  NeighPorts = {}
  LpmSize = 2
  NhSize = 8
  NeighSize = 1
  Faults <- NoFaults
  Requests <- AllButNeigh
  Sequential = FALSE
  MaxQueue = 1
PROPERTY InstallDeploysQueued
