\* One flow: up to two packets under way, repeated, lost and overtaken; three updates.  Clients may use ECN.
SPECIFICATION FairSpec
CONSTANTS
  s1 = s1  s2 = s2  f1 = f1
  HashBits = 4
  Vip = Vip
  Servers = {s1, s2}
  Flows = {f1}
  FlowHash <- SmallHash
  Pools <- GrowAndShrink
  NoServer = NoServer
  NoSock = NoSock
  ClientTos = {0, 1}
  Retransmitted = 1
  OtherTos = {0}
  LittleEndian = TRUE
  MaxTtl = 2
  MaxGen = 3
  MaxInFlight = 2
INVARIANTS TypeOK Affinity
PROPERTIES ResetExplained Drains
