-------------------------- MODULE EcmperSystemProofs --------------------------
(***************************************************************************)
(* Type correctness of EcmperSystem, ECMP-ER's promise to connections      *)
(* (Affinity), and why a connection may be reset (ResetExplained), for any *)
(* number of servers, flows, packets under way and updates.                *)
(***************************************************************************)
EXTENDS EcmperSystem, NhExpansionProofs

-----------------------------------------------------------------------------
(* Blocks and their slots hold servers. *)

LEMMA BlocksType ==
  <<>> \in Blocks /\ \A b \in Blocks : b \in Seq(Servers)
<1>1. ExpandNh(<<>>) = <<>>
  BY DEF ExpandNh
<1>2. ASSUME NEW pool \in Pools PROVE ExpandNh(pool) \in Seq(Servers)
  BY SystemAssumption, ExpansionType
<1>3. <<>> \in Seq(Servers)
  OBVIOUS
<1> QED
  BY <1>1, <1>2, <1>3 DEF Blocks

LEMMA HashType ==
  ASSUME NEW f \in Flows
  PROVE  FlowHash[f] \in Nat
<1>1. FlowHash[f] \in HashRange
  BY SystemAssumption
<1> QED
  BY <1>1, PowersAreNat DEF HashRange, PowersOfTwo

LEMMA SlotType ==
  ASSUME NEW b \in Blocks, b # <<>>, NEW f \in Flows
  PROVE  Slot(b, f) \in Servers
<1>1. b \in Seq(Servers)
  BY BlocksType
<1>2. Len(b) \in Nat \ {0}
  BY <1>1
<1>3. FlowHash[f] % Len(b) \in 0 .. Len(b) - 1
  BY <1>2, HashType
<1>4. SlotIndex(b, f) \in 1 .. Len(b)
  BY <1>2, <1>3 DEF SlotIndex, Masked
<1> QED
  BY <1>1, <1>4 DEF Slot

LEMMA StrayType ==
  ASSUME NEW i
  PROVE  MaySlots(i) \subseteq Servers
<1> SUFFICES ASSUME NEW b \in Blocks, i \in DOMAIN b
             PROVE  b[i] \in Servers
  BY DEF MaySlots
<1>1. b \in Seq(Servers)
  BY BlocksType
<1> QED
  BY <1>1

-----------------------------------------------------------------------------
(* Packets. *)

LEMMA PacketIsNoSynAck ==
  ASSUME NEW p \in Packets
  PROVE  p \notin SynAcks
BY DEF Packets, SynAcks

Forwarded(p, s, g) == [p EXCEPT !.at = s, !.ttl = @ - 1, !.block = <<>>, !.gen = g]

LEMMA ForwardedType ==
  ASSUME NEW p \in Packets, p.ttl > 0, NEW s \in Servers, NEW g \in Generations
  PROVE  LET q == Forwarded(p, s, g)
         IN  /\ q \in Packets
             /\ q.at = s /\ q.block = <<>> /\ q.gen = g
             /\ q.flow = p.flow /\ q.syn = p.syn /\ q.tos = p.tos /\ q.marked = p.marked
<1> DEFINE q == Forwarded(p, s, g)
<1>0. q = [p EXCEPT !.at = s, !.ttl = @ - 1, !.block = <<>>, !.gen = g]
  BY DEF Forwarded
<1> HIDE DEF q
<1>1. MaxTtl \in Nat
  BY SystemAssumption
<1>2. p.ttl - 1 \in 0 .. MaxTtl
  BY <1>1 DEF Packets
<1>3. q = [flow |-> p.flow, syn |-> p.syn, tos |-> p.tos, ttl |-> p.ttl - 1,
           at |-> s, block |-> <<>>, gen |-> g, marked |-> p.marked]
  BY <1>0 DEF Packets
<1>4. /\ q \in Packets
      /\ q.at = s /\ q.block = <<>> /\ q.gen = g
      /\ q.flow = p.flow /\ q.syn = p.syn /\ q.tos = p.tos /\ q.marked = p.marked
  BY <1>2, <1>3, BlocksType DEF Packets
<1> QED
  BY <1>4 DEF q

LEMMA SentBackType ==
  ASSUME NEW p \in Packets,
         NEW q, q = [p EXCEPT !.at = "router", !.tos = Retransmitted, !.gen = Missed]
  PROVE  /\ q \in Packets
         /\ q.at = "router" /\ q.tos = Retransmitted
         /\ q.flow = p.flow /\ q.syn = p.syn /\ q.block = p.block /\ q.marked = p.marked
<1>1. Missed \in Generations
  BY SystemAssumption DEF Generations, Missed
<1> QED
  BY <1>1 DEF Packets, TosValues

LEMMA IndexedType ==
  ASSUME NEW p \in Packets, NEW b \in Blocks, NEW g \in Generations,
         NEW q, q = [p EXCEPT !.block = b, !.gen = g]
  PROVE  /\ q \in Packets
         /\ q.at = p.at /\ q.block = b /\ q.gen = g
         /\ q.flow = p.flow /\ q.syn = p.syn /\ q.tos = p.tos /\ q.marked = p.marked
BY DEF Packets

-----------------------------------------------------------------------------
(***************************************************************************)
(* Type correctness.                                                       *)
(***************************************************************************)
LEMMA NothingType == Router!Nothing \in [{Vip} -> Blocks]
BY BlocksType, Zenon DEF Router!Nothing

RouterStep == Withdraw \/ Advance \/ Offer \/ Reset

LEMMA RouterStepType ==
  ASSUME TypeOK, RouterStep
  PROVE  TypeOK' /\ UNCHANGED <<net, client, peer, sock, listening>>
<1> USE DEF TypeOK, Router!TypeInvariant
<1>1. <<>> \in Blocks /\ MaxGen \in Nat
  BY BlocksType, SystemAssumption
<1>2. CASE Withdraw
  BY <1>1, <1>2 DEF Withdraw, Router!Withdraw, hostVars
<1>3. CASE Advance
  BY <1>1, <1>3 DEF Advance, Router!Advance, hostVars
<1>4. CASE Offer
  BY <1>1, <1>4 DEF Offer, Router!Offer, Router!Complete, hostVars
<1>5. CASE Reset
  <2>1. cur' = Router!Nothing /\ prv' = Router!Nothing
    BY <1>5 DEF Reset, Router!Reset
  <2>2. cur' \in [{Vip} -> Blocks] /\ prv' \in [{Vip} -> Blocks]
    BY <2>1, NothingType, Zenon
  <2>3. /\ serving' = {} /\ updating' = FALSE /\ gen + 2 <= MaxGen /\ gen' = gen + 2
        /\ UNCHANGED <<net, client, peer, sock, listening>>
    BY <1>5, Zenon DEF Reset, Router!Reset, hostVars
  <2>4. gen' \in 0 .. MaxGen
    BY <1>1, <2>3
  <2>5. serving' \subseteq {Vip}
    BY <2>3
  <2>6. updating' \in BOOLEAN
    BY <2>3
  <2> QED
    BY <2>2, <2>3, <2>4, <2>5, <2>6
<1> QED
  BY <1>2, <1>3, <1>4, <1>5 DEF RouterStep

(* What a lookup yields. *)
LEMMA LookupType ==
  ASSUME TypeOK, NEW p \in Packets
  PROVE  /\ BlockFor(p) \in Blocks
         /\ BlockFor(p) # <<>> => Slot(BlockFor(p), p.flow) \in Servers
         /\ LookupGen(p) \in Generations /\ Missed \in Generations
<1>1. BlockFor(p) \in Blocks
  BY DEF TypeOK, Router!TypeInvariant, BlockFor
<1>2. p.flow \in Flows
  BY DEF Packets
<1>3. LookupGen(p) \in Generations /\ Missed \in Generations
  BY SystemAssumption DEF TypeOK, LookupGen, Generations, Missed
<1> QED
  BY <1>1, <1>2, <1>3, SlotType

(* A packet that has its index is in the router, and passed the test of    *)
(* its TTL.                                                                *)
IndexedHasTtl(p) == p.block # <<>> => p.at = "router" /\ p.ttl > 0

Indexed == \A p \in net : p \in Packets => IndexedHasTtl(p)

TypeInv == TypeOK /\ Indexed

LEMMA ForwardType ==
  ASSUME TypeOK, NEW p \in net, p \in Packets, LookUp(p) \/ Forward(p) \/ RouteAstray(p),
         IndexedHasTtl(p)
  PROVE  TypeOK'
<1>1. UNCHANGED <<routerVars, hostVars>> /\ p.flow \in Flows /\ p.gen \in Generations
  BY DEF LookUp, Forward, RouteAstray, Packets
<1>2. net' \subseteq Packets \cup SynAcks
  <2>1. CASE net' = net \ {p}
    BY <2>1 DEF TypeOK
  <2>2. ASSUME NEW s \in Servers, NEW g \in Generations, p.ttl > 0, ToServer(p, s, g)
        PROVE  net' \subseteq Packets \cup SynAcks
    <3>1. Forwarded(p, s, g) \in Packets
      BY <2>2, ForwardedType
    <3> QED
      BY <2>2, <3>1 DEF TypeOK, ToServer, Moved, Forwarded
  <2>3. CASE LookUp(p)
    <3>1. [p EXCEPT !.block = BlockFor(p), !.gen = LookupGen(p)] \in Packets
      BY LookupType, IndexedType
    <3> QED
      BY <2>3, <3>1 DEF LookUp, Moved, TypeOK
  <2>4. CASE Forward(p)
    <3>1. p.block \in Blocks /\ p.block # <<>> /\ p.at = "router" /\ p.ttl > 0
      BY <2>4 DEF Forward, Packets, IndexedHasTtl
    <3>2. Slot(p.block, p.flow) \in Servers
      BY <1>1, <3>1, SlotType
    <3>3. MaySlots(SlotIndex(p.block, p.flow)) \subseteq Servers
      BY StrayType
    <3> QED
      BY <1>1, <2>1, <2>2, <2>4, <3>1, <3>2, <3>3, LookupType DEF Forward
  <2>5. CASE RouteAstray(p)
    <3>1. MaySlots(BareIndex(p.flow)) \subseteq Servers
      BY StrayType
    <3> QED
      BY <2>1, <2>2, <2>5, <3>1, LookupType DEF RouteAstray
  <2> QED
    BY <2>3, <2>4, <2>5
<1> QED
  BY <1>1, <1>2 DEF TypeOK, Router!TypeInvariant, routerVars, hostVars

LEMMA AtServerType ==
  ASSUME TypeOK, NEW p \in net, p \in Packets, NEW s \in Servers,
         SendBack(p, s) \/ KernelSyn(p, s) \/ KernelData(p, s)
  PROVE  TypeOK'
<1> USE DEF TypeOK, Router!TypeInvariant, routerVars
<1>1. p.flow \in Flows /\ p.gen \in Generations
  BY DEF Packets
<1>2. CASE SendBack(p, s)
  <2>1. [p EXCEPT !.at = "router", !.tos = Retransmitted, !.gen = Missed] \in Packets
    BY SentBackType
  <2> QED
    BY <1>2, <2>1 DEF SendBack, Moved, hostVars
<1>3. CASE KernelSyn(p, s)
  <2>1. [flow |-> p.flow, synack |-> s] \in SynAcks
    BY <1>1 DEF SynAcks
  <2>2. net' \subseteq Packets \cup SynAcks
    BY <1>3, <2>1 DEF KernelSyn, Moved
  <2>3. sock' \in [Servers -> [Flows -> Generations \cup {NoSock}]]
    BY <1>1, <1>3 DEF KernelSyn
  <2> QED
    BY <1>3, <2>2, <2>3 DEF KernelSyn
<1>4. CASE KernelData(p, s)
  BY <1>1, <1>4 DEF KernelData
<1> QED
  BY <1>2, <1>3, <1>4

LEMMA SentType ==
  ASSUME NEW f \in Flows, NEW syn \in BOOLEAN, NEW tos \in TosValues,
         ClientSends(f, syn, tos)
  PROVE  \E p \in Packets : /\ net' = net \cup {p} /\ p.at = "router" /\ p.flow = f
                            /\ p.syn = syn /\ p.tos = tos /\ p.block = <<>>
                            /\ ~ p.marked => p.tos # Retransmitted
<1> DEFINE p == [flow |-> f, syn |-> syn, tos |-> tos, ttl |-> MaxTtl,
                 at |-> "router", block |-> <<>>, gen |-> Missed,
                 marked |-> tos = Retransmitted]
<1>1. MaxTtl \in 0 .. MaxTtl /\ Missed \in Generations /\ <<>> \in Blocks
  BY SystemAssumption, BlocksType DEF Generations, Missed
<1>2. p \in Packets
  BY <1>1 DEF Packets
<1>3. net' = net \cup {p}
  BY DEF ClientSends
<1> QED
  BY <1>2, <1>3

LEMMA ClientType ==
  ASSUME TypeOK, NEW f \in Flows, ClientSyn(f) \/ ClientData(f) \/ Close(f)
  PROVE  TypeOK'
<1> USE DEF TypeOK, Router!TypeInvariant, routerVars
<1>1. CASE ClientSyn(f)
  <2>1. PICK tos \in TosValues : ClientSends(f, TRUE, tos)
    BY <1>1 DEF ClientSyn, TosValues
  <2>2. \E q \in Packets : net' = net \cup {q}
    BY <2>1, SentType, Zenon
  <2> QED
    BY <1>1, <2>2 DEF ClientSyn
<1>2. CASE ClientData(f)
  <2>1. PICK tos \in TosValues : ClientSends(f, FALSE, tos)
    BY <1>2, SystemAssumption DEF ClientData
  <2>2. \E q \in Packets : net' = net \cup {q}
    BY <2>1, SentType, Zenon
  <2> QED
    BY <1>2, <2>2 DEF ClientData, hostVars
<1>3. CASE Close(f)
  BY <1>3 DEF Close
<1> QED
  BY <1>1, <1>2, <1>3

LEMMA TypeInit == Init => TypeOK
<1> SUFFICES ASSUME Init PROVE TypeOK
  OBVIOUS
<1>1. <<>> \in Blocks /\ MaxGen \in Nat
  BY BlocksType, SystemAssumption
<1>2. cur \in [{Vip} -> Blocks] /\ prv \in [{Vip} -> Blocks]
  BY NothingType, Zenon DEF Init, Router!Init
<1>3. serving = {} /\ updating = FALSE /\ gen = 0 /\ net = {} /\ listening \subseteq Servers
  BY DEF Init, Router!Init
<1>4. client = [f \in Flows |-> "closed"] /\ peer = [f \in Flows |-> NoServer]
  BY DEF Init
<1>5. sock = [s \in Servers |-> [f \in Flows |-> NoSock]]
  BY DEF Init
<1>6. serving \subseteq {Vip} /\ updating \in BOOLEAN /\ Router!TypeInvariant
  BY <1>2, <1>3, Zenon DEF Router!TypeInvariant
<1>7. net \subseteq Packets \cup SynAcks
  BY <1>3
<1> QED
  BY <1>1, <1>3, <1>4, <1>5, <1>6, <1>7 DEF TypeOK

LEMMA DeliverCases ==
  ASSUME TypeOK, Deliver
  PROVE  \/ \E p \in net : /\ p \in Packets
                           /\ \/ LookUp(p) \/ Forward(p) \/ RouteAstray(p) \/ Vanish(p)
                              \/ \E s \in Servers : SendBack(p, s) \/ KernelSyn(p, s) \/ KernelData(p, s)
         \/ \E m \in net : m \in SynAcks /\ ClientEstablished(m)
<1>1. PICK m \in net : IF IsPacket(m) THEN PacketStep(m) ELSE ClientEstablished(m)
  BY DEF Deliver
<1>2. CASE m \in SynAcks
  BY <1>1, <1>2 DEF IsPacket
<1>3. CASE m \notin SynAcks
  <2>1. m \in Packets
    BY <1>3 DEF TypeOK
  <2> QED
    BY <1>1, <1>3, <2>1 DEF IsPacket, PacketStep
<1> QED
  BY <1>2, <1>3

(* What a step adds to net has no index, or has just got it. *)
LEMMA IndexedNext ==
  ASSUME TypeOK, Indexed, [Next]_vars
  PROVE  Indexed'
<1>1. ASSUME net' \subseteq net PROVE Indexed'
  BY <1>1 DEF Indexed, IndexedHasTtl
<1>2. ASSUME NEW q, net' \subseteq net \cup {q}, q \in Packets => IndexedHasTtl(q)
      PROVE  Indexed'
  BY <1>2 DEF Indexed, IndexedHasTtl
<1>3. ASSUME NEW p \in net, p \in Packets, NEW s, NEW g, ToServer(p, s, g) PROVE Indexed'
  <2>1. Forwarded(p, s, g).block = <<>>
    BY DEF Forwarded, Packets
  <2>2. net' \subseteq net \cup {Forwarded(p, s, g)}
    BY <1>3 DEF ToServer, Moved, Forwarded
  <2> QED
    BY <1>2, <2>1, <2>2 DEF IndexedHasTtl
<1>4. ASSUME NEW p \in net, p \in Packets,
             LookUp(p) \/ Forward(p) \/ RouteAstray(p) \/ Vanish(p)
      PROVE  Indexed'
  <2>1. CASE LookUp(p)
    <3> DEFINE q == [p EXCEPT !.block = BlockFor(p), !.gen = LookupGen(p)]
    <3>1. q.at = "router" /\ q.ttl > 0
      BY <1>4, <2>1 DEF LookUp, Packets
    <3>2. net' \subseteq net \cup {q}
      BY <2>1 DEF LookUp, Moved
    <3> HIDE DEF q
    <3> QED
      BY <1>2, <3>1, <3>2 DEF IndexedHasTtl
  <2>2. CASE Forward(p)
    BY <1>1, <1>3, <1>4, <2>2 DEF Forward
  <2>3. CASE RouteAstray(p)
    BY <1>1, <1>3, <1>4, <2>3 DEF RouteAstray
  <2>4. CASE Vanish(p)
    BY <1>1, <2>4 DEF Vanish
  <2> QED
    BY <1>4, <2>1, <2>2, <2>3, <2>4
<1>5. ASSUME NEW p \in net, p \in Packets, NEW s \in Servers,
             SendBack(p, s) \/ KernelSyn(p, s) \/ KernelData(p, s)
      PROVE  Indexed'
  <2>1. p.block = <<>>
    BY <1>5, SystemAssumption
    DEF Indexed, IndexedHasTtl, SendBack, KernelSyn, KernelData, Passes, AtServer
  <2>2. CASE SendBack(p, s)
    <3> DEFINE q == [p EXCEPT !.at = "router", !.tos = Retransmitted, !.gen = Missed]
    <3>1. q.block = <<>>
      BY <1>5, <2>1 DEF Packets
    <3>2. net' \subseteq net \cup {q}
      BY <2>2 DEF SendBack, Moved
    <3> HIDE DEF q
    <3> QED
      BY <1>2, <3>1, <3>2 DEF IndexedHasTtl
  <2>3. CASE KernelSyn(p, s)
    <3> DEFINE q == [flow |-> p.flow, synack |-> s]
    <3>1. q \notin Packets
      BY DEF Packets
    <3>2. net' \subseteq net \cup {q}
      BY <2>3 DEF KernelSyn, Moved
    <3> HIDE DEF q
    <3> QED
      BY <1>2, <3>1, <3>2
  <2>4. CASE KernelData(p, s)
    BY <1>1, <2>4 DEF KernelData
  <2> QED
    BY <1>5, <2>2, <2>3, <2>4
<1>6. CASE Deliver
  BY <1>1, <1>4, <1>5, <1>6, DeliverCases DEF ClientEstablished
<1>7. ASSUME NEW f \in Flows, ClientSyn(f) \/ ClientData(f) \/ Close(f) PROVE Indexed'
  <2>1. CASE Close(f)
    BY <1>1, <2>1 DEF Close
  <2>2. ASSUME NEW syn \in BOOLEAN, NEW tos \in TosValues, ClientSends(f, syn, tos)
        PROVE  Indexed'
    <3>1. \E q \in Packets : net' = net \cup {q} /\ q.block = <<>>
      BY <2>2, SentType, Zenon
    <3> QED
      BY <1>2, <3>1 DEF IndexedHasTtl
  <2>3. CASE ClientSyn(f)
    <3>1. PICK tos \in TosValues : ClientSends(f, TRUE, tos)
      BY <2>3 DEF ClientSyn, TosValues
    <3> QED
      BY <2>2, <3>1
  <2>4. CASE ClientData(f)
    <3>1. PICK tos \in TosValues : ClientSends(f, FALSE, tos)
      BY <2>4, SystemAssumption DEF ClientData
    <3> QED
      BY <2>2, <3>1
  <2> QED
    BY <1>7, <2>1, <2>3, <2>4
<1>8. CASE RouterStep
  BY <1>1, <1>8, RouterStepType
<1>9. ASSUME NEW s \in Servers,
             StartListening(s) \/ \E f \in Flows : HalfOpenExpires(s, f)
      PROVE  Indexed'
  BY <1>1, <1>9 DEF StartListening, HalfOpenExpires
<1>10. ASSUME NEW m \in net, Vanish(m) PROVE Indexed'
  BY <1>1, <1>10 DEF Vanish
<1>11. CASE UNCHANGED vars
  BY <1>1, <1>11 DEF vars
<1> QED
  BY <1>6, <1>7, <1>8, <1>9, <1>10, <1>11 DEF Next, RouterStep

LEMMA TypeNext == TypeInv /\ [Next]_vars => TypeInv'
<1> SUFFICES ASSUME TypeOK, Indexed, [Next]_vars PROVE TypeOK'
  BY IndexedNext DEF TypeInv
<1> USE DEF TypeOK, Router!TypeInvariant, routerVars, hostVars
<1>1. CASE RouterStep
  BY <1>1, RouterStepType
<1>2. ASSUME NEW m \in net, Vanish(m) PROVE TypeOK'
  BY <1>2 DEF Vanish
<1>3. ASSUME NEW m \in net, m \in SynAcks, ClientEstablished(m) PROVE TypeOK'
  BY <1>3 DEF ClientEstablished, SynAcks
<1>4. CASE Deliver
  BY <1>2, <1>3, <1>4, DeliverCases, ForwardType, AtServerType DEF Indexed
<1>5. ASSUME NEW s \in Servers,
             StartListening(s) \/ \E f \in Flows : HalfOpenExpires(s, f)
      PROVE  TypeOK'
  BY <1>5 DEF StartListening, HalfOpenExpires
<1>6. CASE UNCHANGED vars
  BY <1>6 DEF vars
<1> QED
  BY <1>1, <1>2, <1>4, <1>5, <1>6, ClientType DEF Next, RouterStep

(* Type correctness: whatever is lost, repeated or overtaken by an update, *)
(* a lookup of the router in a block, and a stray one, leads to a server,  *)
(* and the numbers of generations stay in their bound.                     *)
THEOREM TypeCorrect == Spec => []TypeOK
<1>1. Init => TypeInv
  BY TypeInit DEF TypeInv, Indexed, Init
<1>2. TypeInv => TypeOK
  BY DEF TypeInv
<1> QED
  BY <1>1, <1>2, TypeNext, PTL DEF Spec

-----------------------------------------------------------------------------
(***************************************************************************)
(* The inductive invariant: what the numbers of generations tell.          *)
(***************************************************************************)
(* A block of generation g led flow f to server s.  For the current one    *)
(* the table still says so.  For the one before, prv_nh says so as soon as *)
(* the VIP is offered again; between Withdraw and Advance it does not.     *)
Led(g, f, s) ==
  /\ g <= gen
  /\ g = gen => /\ cur[Vip] # <<>> /\ Slot(cur[Vip], f) = s
                /\ updating => Vip \in serving
  /\ g = gen - 1 /\ (updating \/ Vip \in serving) => Slot(prv[Vip], f) = s

(* When the VIP is next served, b is an earlier generation. *)
Past(b) == b < gen \/ (b = gen /\ Vip \notin serving /\ ~ updating)

(* The server that a packet is at, or is on its way to by its index. *)
Bound(p) == p.at \in Servers \/ p.block # <<>>
Target(p) == IF p.at \in Servers THEN p.at ELSE Slot(p.block, p.flow)

PacketLed(p) ==
  Bound(p) => /\ Led(p.gen, p.flow, Target(p))
              /\ p.tos = Retransmitted => p.gen < gen

SocketLed(s, f) == sock[s][f] # NoSock => Led(sock[s][f], f, s)

(* Close leaves nothing under way.  A SYN-ACK that the client may take is  *)
(* that of a half-open socket, which lives on.                             *)
Handshake(f) ==
  /\ client[f] = "closed" => InFlight(f) = {}
  /\ client[f] = "syn_sent" =>
       \A m \in InFlight(f) : IF m \in SynAcks THEN sock[m.synack][f] # NoSock ELSE m.syn
  /\ Connected(f) => peer[f] \in Servers /\ sock[peer[f]][f] # NoSock

(* Data of a connection, not marked by its client, that has been sent back *)
(* or has been led astray meets its server in prv_nh only if that server   *)
(* was chosen before; and a lookup in a block of the generation that chose *)
(* the server found the server.                                            *)
DataLed(p) ==
  ~ p.syn /\ ~ p.marked /\ Connected(p.flow) =>
    /\ ~ Bound(p) /\ p.tos = Retransmitted => Past(Birth(p.flow))
    /\ Bound(p) /\ p.gen = Missed => Past(Birth(p.flow))
    /\ Bound(p) /\ p.gen # Missed =>
         /\ p.gen >= Birth(p.flow)
         /\ p.gen = Birth(p.flow) => Target(p) = peer[p.flow]

LedInv ==
  /\ \A p \in net : p \in Packets => PacketLed(p) /\ DataLed(p)
  /\ \A s \in Servers, f \in Flows : SocketLed(s, f)
  /\ \A f \in Flows : Handshake(f)

Inv == TypeOK /\ Indexed /\ LedInv

LEMMA PacketFields ==
  ASSUME NEW p \in Packets
  PROVE  /\ p.flow \in Flows /\ p.gen \in Generations /\ p.syn \in BOOLEAN
         /\ p.at \in Servers \/ p.at = "router"
         /\ p.at = "router" => p.at \notin Servers
BY SystemAssumption DEF Packets

LEMMA GenerationFacts ==
  ASSUME TypeOK
  PROVE  /\ gen \in Nat /\ Missed = -2 /\ Missed \in Generations /\ NoSock \notin Generations
         /\ Generations \subseteq Int
BY SystemAssumption DEF TypeOK, Generations, Missed

(* An update keeps what led to the current and the previous generation. *)
LEMMA RouterKeepsLed ==
  ASSUME TypeOK, RouterStep, NEW g \in Generations, NEW f \in Flows, NEW s \in Servers
  PROVE  /\ gen' >= gen
         /\ Led(g, f, s) => Led(g, f, s)'
         /\ Past(g) => Past(g)'
<1> USE GenerationFacts DEF Led, Past, TypeOK, Router!TypeInvariant
<1>0. Slot(cur[Vip], f)' = Slot(cur'[Vip], f) /\ Slot(prv[Vip], f)' = Slot(prv'[Vip], f)
  BY DEF Slot
<1> HIDE DEF Slot
<1>1. CASE Withdraw
  BY <1>0, <1>1 DEF Withdraw, Router!Withdraw
<1>2. CASE Advance
  BY <1>0, <1>2 DEF Advance, Router!Advance
<1>3. CASE Offer
  BY <1>0, <1>3 DEF Offer, Router!Offer, Router!Complete
<1>4. CASE Reset
  BY <1>0, <1>4 DEF Reset, Router!Reset
<1> QED
  BY <1>1, <1>2, <1>3, <1>4 DEF RouterStep

LEMMA StillLed ==
  ASSUME UNCHANGED routerVars, NEW g, NEW f, NEW s
  PROVE  /\ Led(g, f, s)' <=> Led(g, f, s)
         /\ Past(g)' <=> Past(g)
BY DEF routerVars, Led, Past, Slot

LEMMA TargetType ==
  ASSUME NEW p \in Packets, Bound(p)
  PROVE  Target(p) \in Servers
<1>1. p.block \in Blocks /\ p.flow \in Flows
  BY DEF Packets
<1> QED
  BY <1>1, SlotType DEF Bound, Target

LEMMA LookupLed ==
  ASSUME TypeOK, NEW p \in Packets, LookUp(p)
  PROVE  Led(LookupGen(p), p.flow, Slot(BlockFor(p), p.flow))
<1>1. gen \in Nat
  BY GenerationFacts
<1>2. Vip \in serving /\ BlockFor(p) # <<>>
  BY DEF LookUp
<1> QED
  BY <1>1, <1>2 DEF LookupGen, BlockFor, Led

LEMMA MissedLed ==
  ASSUME TypeOK, NEW f, NEW s
  PROVE  Led(Missed, f, s)
BY GenerationFacts DEF Led

LEMMA BirthLed ==
  ASSUME Inv, NEW f \in Flows, Connected(f)
  PROVE  /\ peer[f] \in Servers /\ Birth(f) \in Generations
         /\ Birth(f) <= gen
         /\ Led(Birth(f), f, peer[f])
<1>1. peer[f] \in Servers /\ sock[peer[f]][f] # NoSock
  BY DEF Inv, LedInv, Handshake
<1>2. sock[peer[f]][f] \in Generations
  BY <1>1 DEF Inv, TypeOK
<1>3. Led(sock[peer[f]][f], f, peer[f])
  BY <1>1 DEF Inv, LedInv, SocketLed
<1> QED
  BY <1>1, <1>2, <1>3 DEF Birth, Led

(* Changes of the router leave what is known of packets and sockets true. *)
LEMMA RouterKeepsInv ==
  ASSUME Inv, RouterStep
  PROVE  LedInv'
<1>1. TypeOK /\ UNCHANGED <<net, client, peer, sock, listening>>
  BY RouterStepType DEF Inv
<1>2. gen \in Int /\ gen' \in Int
  BY <1>1, RouterStepType DEF TypeOK
<1>3. ASSUME NEW p \in net', p \in Packets PROVE PacketLed(p)'
  <2>1. p \in net /\ PacketLed(p) /\ p.gen \in Generations /\ p.flow \in Flows
    BY <1>1, <1>3, PacketFields DEF Inv, LedInv
  <2>2. ASSUME Bound(p)
        PROVE  /\ Led(p.gen, p.flow, Target(p)) => Led(p.gen, p.flow, Target(p))'
               /\ gen' >= gen
    <3>1. Target(p) \in Servers /\ Target(p)' = Target(p)
      BY <1>3, <2>2, TargetType DEF Target, Slot
    <3>2. /\ \A t \in Servers : Led(p.gen, p.flow, t) => Led(p.gen, p.flow, t)'
          /\ gen' >= gen
      BY <1>1, <2>1, <3>1, RouterKeepsLed
    <3> QED
      BY <3>1, <3>2 DEF Led, Slot
  <2>3. p.gen \in Int
    BY <1>1, <2>1, GenerationFacts
  <2>4. Target(p)' = Target(p) /\ (Bound(p)' <=> Bound(p))
    BY DEF Target, Slot, Bound
  <2> QED
    BY <1>2, <2>1, <2>2, <2>3, <2>4 DEF PacketLed
<1>4. ASSUME NEW p \in net', p \in Packets PROVE DataLed(p)'
  <2>1. p \in net /\ DataLed(p) /\ p.flow \in Flows
    BY <1>1, <1>4, PacketFields DEF Inv, LedInv
  <2>2. Connected(p.flow)' <=> Connected(p.flow)
    BY <1>1 DEF Connected
  <2>3. Birth(p.flow)' = Birth(p.flow) /\ peer' = peer
    BY <1>1 DEF Birth
  <2>4. ASSUME Connected(p.flow), Past(Birth(p.flow)) PROVE Past(Birth(p.flow))'
    <3>1. Birth(p.flow) \in Generations /\ peer[p.flow] \in Servers
      BY <2>1, <2>4, BirthLed
    <3>2. \A g \in Generations : Past(g) => Past(g)'
      BY <1>1, <2>1, <3>1, RouterKeepsLed
    <3>3. Past(Birth(p.flow))' <=> (Birth(p.flow)' < gen' \/ (Birth(p.flow)' = gen' /\ Vip \notin serving' /\ ~ updating'))
      BY DEF Past
    <3> QED
      BY <2>3, <2>4, <3>1, <3>2, <3>3 DEF Past
  <2> QED
    BY <2>1, <2>2, <2>3, <2>4 DEF DataLed
<1>5. ASSUME NEW s \in Servers, NEW f \in Flows PROVE SocketLed(s, f)'
  <2>1. SocketLed(s, f) /\ sock' = sock
    BY <1>1 DEF Inv, LedInv
  <2>2. ASSUME sock[s][f] # NoSock
        PROVE  Led(sock[s][f], f, s) => (Led(sock[s][f], f, s))'
    <3>1. sock[s][f] \in Generations
      BY <1>1, <2>2 DEF TypeOK
    <3>2. \A g \in Generations : Led(g, f, s) => Led(g, f, s)'
      BY <1>1, RouterKeepsLed
    <3> QED
      BY <2>1, <3>1, <3>2 DEF Led, Slot
  <2> QED
    BY <2>1, <2>2 DEF SocketLed
<1>6. ASSUME NEW f \in Flows PROVE Handshake(f)'
  <2>1. Handshake(f)
    BY DEF Inv, LedInv
  <2> QED
    BY <1>1, <2>1 DEF Handshake, InFlight, Connected
<1> QED
  BY <1>3, <1>4, <1>5, <1>6 DEF LedInv

(* One packet takes the place of another, of the same flow. *)
LEMMA ReplacedKeepsInv ==
  ASSUME Inv, UNCHANGED <<routerVars, hostVars>>,
         NEW p \in net, p \in Packets, NEW q \in Packets,
         q.flow = p.flow, q.syn = p.syn,
         net' = (net \ {p}) \cup {q},
         PacketLed(q), DataLed(q)
  PROVE  LedInv'
<1>1. UNCHANGED <<client, peer, sock, listening, gen, cur, prv, serving, updating>>
  BY DEF routerVars, hostVars
<1>2. ASSUME NEW m \in net', m \in Packets PROVE PacketLed(m)' /\ DataLed(m)'
  <2>1. PacketLed(m) /\ DataLed(m)
    BY <1>2 DEF Inv, LedInv
  <2> QED
    BY <1>1, <2>1 DEF PacketLed, DataLed, Bound, Target, Led, Past, Slot, Connected, Birth
<1>3. ASSUME NEW s \in Servers, NEW f \in Flows PROVE SocketLed(s, f)'
  <2>1. SocketLed(s, f)
    BY DEF Inv, LedInv
  <2> QED
    BY <1>1, <2>1 DEF SocketLed, Led, Slot
<1>4. ASSUME NEW f \in Flows PROVE Handshake(f)'
  <2>1. Handshake(f)
    BY DEF Inv, LedInv
  <2>2. q \notin SynAcks /\ p \notin SynAcks
    BY PacketIsNoSynAck
  <2>3. q \in InFlight(f)' => p \in InFlight(f)
    BY DEF InFlight
  <2>4. InFlight(f)' \subseteq InFlight(f) \cup {q}
    BY DEF InFlight
  <2>5. client[f] = "closed" => InFlight(f)' = {}
    BY <2>1, <2>3, <2>4 DEF Handshake
  <2>6. ASSUME client[f] = "syn_sent", NEW m \in InFlight(f)'
        PROVE  IF m \in SynAcks THEN sock[m.synack][f] # NoSock ELSE m.syn
    <3>1. CASE m \in InFlight(f)
      BY <2>1, <2>6, <3>1 DEF Handshake
    <3>2. CASE m = q
      <4>1. p \in InFlight(f)
        BY <2>3, <2>6, <3>2
      <4>2. p.syn
        BY <2>1, <2>2, <2>6, <4>1 DEF Handshake
      <4> QED
        BY <2>2, <3>2, <4>2
    <3> QED
      BY <2>4, <3>1, <3>2
  <2> QED
    BY <1>1, <2>1, <2>5, <2>6 DEF Handshake, Connected
<1> QED
  BY <1>2, <1>3, <1>4 DEF LedInv

LEMMA LookUpKeepsInv ==
  ASSUME Inv, NEW p \in net, p \in Packets, LookUp(p)
  PROVE  LedInv'
<1> DEFINE f == p.flow  g == LookupGen(p)  b == BlockFor(p)  s == Slot(b, f)
           q == [p EXCEPT !.block = b, !.gen = g]
<1>1. TypeOK /\ PacketLed(p) /\ DataLed(p) /\ f \in Flows
  BY PacketFields DEF Inv, LedInv
<1>2. s \in Servers /\ b \in Blocks /\ g \in Generations /\ Led(g, f, s)
  BY <1>1, LookupType, LookupLed DEF LookUp
<1>3. /\ p.at = "router" /\ p.block = <<>> /\ Vip \in serving /\ b # <<>>
      /\ UNCHANGED <<routerVars, hostVars>> /\ net' = (net \ {p}) \cup {q}
  BY DEF LookUp, Moved
<1>4. /\ q \in Packets /\ q.at = "router" /\ q.block = b /\ q.gen = g /\ q.flow = f
      /\ q.syn = p.syn /\ q.tos = p.tos /\ q.marked = p.marked
  <2>1. q = [p EXCEPT !.block = b, !.gen = g]
    OBVIOUS
  <2> HIDE DEF q, b, g, s
  <2>2. p \in Packets /\ b \in Blocks /\ g \in Generations
    BY <1>2
  <2> QED
    BY <1>3, <2>1, <2>2 DEF Packets
<1>5. gen \in Nat /\ Missed = -2 /\ g # Missed
  BY <1>1, GenerationFacts DEF LookupGen
<1>6. Bound(q) /\ Target(q) = s /\ ~ Bound(p)
  <2> HIDE DEF q, b, s
  <2>1. q.at \notin Servers /\ p.at \notin Servers
    BY <1>3, <1>4, SystemAssumption
  <2> QED
    BY <1>3, <1>4, <2>1 DEF Bound, Target, s
<1>7. PacketLed(q)
  <2> HIDE DEF q, b, s
  <2> QED
    BY <1>2, <1>4, <1>5, <1>6 DEF PacketLed, LookupGen
<1>8. DataLed(q)
  <2> SUFFICES ASSUME ~ p.syn, ~ p.marked, Connected(f)
               PROVE  g >= Birth(f) /\ (g = Birth(f) => s = peer[f])
    <3> HIDE DEF q, s, g, b
    <3> QED BY <1>4, <1>5, <1>6 DEF DataLed
  <2>1. /\ peer[f] \in Servers /\ Birth(f) \in Int /\ Birth(f) <= gen
        /\ Led(Birth(f), f, peer[f])
    BY <1>1, BirthLed, GenerationFacts
  <2>2. CASE p.tos = Retransmitted
    <3>1. Past(Birth(f))
      BY <1>1, <1>6, <2>2 DEF DataLed
    <3>2. g = gen - 1 /\ s = Slot(prv[Vip], f)
      BY <2>2 DEF LookupGen, BlockFor
    <3>3. Birth(f) < gen
      BY <1>3, <3>1 DEF Past
    <3> QED
      BY <1>3, <1>5, <2>1, <3>2, <3>3 DEF Led
  <2>3. CASE p.tos # Retransmitted
    <3>1. g = gen /\ s = Slot(cur[Vip], f)
      BY <2>3 DEF LookupGen, BlockFor
    <3> QED
      BY <2>1, <3>1 DEF Led
  <2> QED
    BY <2>2, <2>3
<1> HIDE DEF q
<1> QED
  BY <1>1, <1>3, <1>4, <1>7, <1>8, ReplacedKeepsInv

LEMMA SendBackKeepsInv ==
  ASSUME Inv, NEW p \in net, p \in Packets, NEW s \in Servers, SendBack(p, s)
  PROVE  LedInv'
<1> DEFINE f == p.flow
           q == [p EXCEPT !.at = "router", !.tos = Retransmitted, !.gen = Missed]
<1>1. /\ TypeOK /\ PacketLed(p) /\ DataLed(p) /\ f \in Flows /\ p.gen \in Generations
      /\ IndexedHasTtl(p)
  BY PacketFields DEF Inv, LedInv, Indexed
<1>2. /\ p.at = s /\ UNCHANGED <<routerVars, hostVars>> /\ net' = (net \ {p}) \cup {q}
      /\ SendsBack(SocketFor(s, f), p.tos, p.syn)
  BY DEF SendBack, AtServer, Moved
<1>3. /\ q \in Packets /\ q.at = "router" /\ q.tos = Retransmitted
      /\ q.flow = f /\ q.syn = p.syn /\ q.block = p.block /\ q.marked = p.marked
  BY SentBackType
<1> HIDE DEF q
<1>4. sock[s][f] = NoSock
  BY <1>2 DEF SendsBack, SocketFor
<1>5. ~ Bound(q) /\ Bound(p) /\ Target(p) = s
  BY <1>1, <1>2, <1>3, SystemAssumption DEF Bound, Target, IndexedHasTtl
<1>6. PacketLed(q)
  BY <1>5 DEF PacketLed
<1>7. ASSUME ~ p.syn, ~ p.marked, Connected(f) PROVE Past(Birth(f))
  <2>1. peer[f] \in Servers /\ Birth(f) \in Int /\ sock[peer[f]][f] # NoSock /\ f \in Flows
    BY <1>1, <1>7, BirthLed, GenerationFacts DEF Inv, LedInv, Handshake
  <2>2. CASE p.gen = Missed
    BY <1>1, <1>5, <1>7, <2>2 DEF DataLed
  <2>3. CASE p.gen # Missed
    <3>1. p.gen >= Birth(f) /\ p.gen # Birth(f)
      BY <1>1, <1>4, <1>5, <1>7, <2>1, <2>3 DEF DataLed
    <3>2. p.gen <= gen
      BY <1>1, <1>5 DEF PacketLed, Led
    <3>3. p.gen \in Int /\ gen \in Int
      BY <1>1, GenerationFacts
    <3> QED
      BY <2>1, <3>1, <3>2, <3>3 DEF Past
  <2> QED
    BY <2>2, <2>3
<1>8. DataLed(q)
  BY <1>3, <1>5, <1>7 DEF DataLed
<1> QED
  BY <1>2, <1>3, <1>6, <1>8, ReplacedKeepsInv

(* Packets disappear, and connections are reset. *)
LEMMA ShrunkKeepsInv ==
  ASSUME Inv, UNCHANGED <<routerVars, peer, sock, listening>>, net' \subseteq net,
         \A f \in Flows : client'[f] \in {client[f], "reset"}
  PROVE  LedInv'
<1>1. UNCHANGED <<peer, sock, listening, gen, cur, prv, serving, updating>>
  BY DEF routerVars
<1>2. ASSUME NEW p \in net', p \in Packets PROVE PacketLed(p)' /\ DataLed(p)'
  <2>1. PacketLed(p) /\ DataLed(p) /\ p.flow \in Flows
    BY <1>2, PacketFields DEF Inv, LedInv
  <2>2. PacketLed(p)'
    BY <1>1, <2>1 DEF PacketLed, Bound, Target, Led, Slot
  <2>3. Connected(p.flow)' => Connected(p.flow)
    BY <2>1 DEF Connected
  <2> QED
    BY <1>1, <2>1, <2>2, <2>3 DEF DataLed, Bound, Target, Slot, Past, Birth
<1>3. ASSUME NEW s \in Servers, NEW f \in Flows PROVE SocketLed(s, f)'
  <2>1. SocketLed(s, f)
    BY DEF Inv, LedInv
  <2> QED
    BY <1>1, <2>1 DEF SocketLed, Led, Slot
<1>4. ASSUME NEW f \in Flows PROVE Handshake(f)'
  <2>1. Handshake(f)
    BY DEF Inv, LedInv
  <2> QED
    BY <1>1, <2>1 DEF Handshake, Connected, InFlight
<1> QED
  BY <1>2, <1>3, <1>4 DEF LedInv

(* A packet for which no single generation is known. *)
LEMMA MissedKeepsInv ==
  ASSUME Inv, UNCHANGED <<routerVars, hostVars>>, NEW p \in net, p \in Packets, p.ttl > 0,
         NEW s \in Servers, ToServer(p, s, Missed),
         ~ p.syn /\ ~ p.marked /\ Connected(p.flow) => Past(Birth(p.flow))
  PROVE  LedInv'
<1> DEFINE f == p.flow  q == Forwarded(p, s, Missed)
<1>1. TypeOK /\ f \in Flows /\ gen \in Nat /\ Missed = -2 /\ Missed \in Generations
  BY PacketFields, GenerationFacts DEF Inv
<1>2. /\ q \in Packets /\ q.at = s /\ q.gen = Missed /\ q.flow = f
      /\ q.syn = p.syn /\ q.tos = p.tos /\ q.marked = p.marked
  BY <1>1, ForwardedType
<1>3. net' = (net \ {p}) \cup {q}
  BY DEF ToServer, Moved, Forwarded
<1> HIDE DEF q
<1>4. Bound(q) /\ Target(q) = s
  BY <1>2 DEF Bound, Target
<1>5. PacketLed(q)
  BY <1>1, <1>2, <1>4, MissedLed DEF PacketLed
<1>6. DataLed(q)
  BY <1>2, <1>4 DEF DataLed
<1> QED
  BY <1>2, <1>3, <1>5, <1>6, ReplacedKeepsInv

LEMMA ForwardKeepsInv ==
  ASSUME Inv, NEW p \in net, p \in Packets, Forward(p)
  PROVE  LedInv'
<1> DEFINE f == p.flow  s == Slot(p.block, f)
<1>1. /\ TypeOK /\ PacketLed(p) /\ DataLed(p) /\ f \in Flows /\ p.gen \in Generations
      /\ IndexedHasTtl(p)
  BY PacketFields DEF Inv, LedInv, Indexed
<1>2. p.at = "router" /\ p.block # <<>> /\ UNCHANGED <<routerVars, hostVars>>
  BY DEF Forward
<1>3. p.ttl > 0 /\ Bound(p) /\ Target(p) = s /\ s \in Servers
  <2>1. Bound(p) /\ p.at \notin Servers
    BY <1>2, SystemAssumption DEF Bound
  <2> QED
    BY <1>1, <1>2, <2>1, TargetType DEF IndexedHasTtl, Target
<1> HIDE DEF s
<1>4. CASE net' = net \ {p}
  BY <1>2, <1>4, ShrunkKeepsInv DEF hostVars
<1>5. ASSUME p.gen = LookupGen(p), ToServer(p, s, p.gen) PROVE LedInv'
  <2> DEFINE q == Forwarded(p, s, p.gen)
  <2>1. /\ q \in Packets /\ q.at = s /\ q.gen = p.gen /\ q.flow = f
        /\ q.syn = p.syn /\ q.tos = p.tos /\ q.marked = p.marked
    BY <1>1, <1>3, ForwardedType
  <2>2. net' = (net \ {p}) \cup {q}
    BY <1>5 DEF ToServer, Moved, Forwarded
  <2> HIDE DEF q
  <2>3. Bound(q) /\ Target(q) = s
    BY <1>3, <2>1 DEF Bound, Target
  <2>4. PacketLed(q)
    BY <1>1, <1>3, <2>1, <2>3 DEF PacketLed
  <2>5. DataLed(q)
    BY <1>1, <1>3, <2>1, <2>3 DEF DataLed
  <2> QED
    BY <1>2, <2>1, <2>2, <2>4, <2>5, ReplacedKeepsInv
<1>6. ASSUME p.gen # LookupGen(p), NEW t \in Servers, ToServer(p, t, Missed) PROVE LedInv'
  <2>1. ASSUME ~ p.syn, ~ p.marked, Connected(f) PROVE Past(Birth(f))
    <3>1. gen \in Int /\ p.gen \in Int /\ Birth(f) \in Int /\ Birth(f) <= gen
      BY <1>1, <2>1, BirthLed, GenerationFacts
    <3>2. p.gen <= gen /\ (p.tos = Retransmitted => p.gen < gen)
      BY <1>1, <1>3 DEF PacketLed, Led
    <3>3. p.gen < gen
      BY <1>6, <3>1, <3>2 DEF LookupGen
    <3>4. CASE p.gen = Missed
      BY <1>1, <1>3, <2>1, <3>4 DEF DataLed
    <3>5. CASE p.gen # Missed
      BY <1>1, <1>3, <2>1, <3>1, <3>3, <3>5 DEF DataLed, Past
    <3> QED
      BY <3>4, <3>5
  <2> QED
    BY <1>2, <1>3, <1>6, <2>1, MissedKeepsInv
<1>7. MaySlots(SlotIndex(p.block, f)) \subseteq Servers
  BY StrayType
<1> QED
  BY <1>4, <1>5, <1>6, <1>7 DEF Forward, s

LEMMA RouteAstrayKeepsInv ==
  ASSUME Inv, NEW p \in net, p \in Packets, RouteAstray(p)
  PROVE  LedInv'
<1> DEFINE f == p.flow
<1>1. TypeOK /\ PacketLed(p) /\ DataLed(p) /\ f \in Flows /\ gen \in Nat
  BY PacketFields, GenerationFacts DEF Inv, LedInv
<1>2. /\ p.at = "router" /\ p.block = <<>> /\ p.ttl > 0
      /\ Vip \notin serving \/ BlockFor(p) = <<>>
      /\ UNCHANGED <<routerVars, hostVars>>
  BY DEF RouteAstray
<1>3. CASE net' = net \ {p}
  BY <1>2, <1>3, ShrunkKeepsInv DEF hostVars
<1>4. ASSUME ~ p.syn, ~ p.marked, Connected(f) PROVE Past(Birth(f))
  <2>1. CASE p.tos = Retransmitted
    <3>1. ~ Bound(p)
      BY <1>2, SystemAssumption DEF Bound
    <3> QED
      BY <1>1, <1>4, <2>1, <3>1 DEF DataLed
  <2>2. CASE p.tos # Retransmitted
    <3>1. Led(Birth(f), f, peer[f]) /\ Birth(f) \in Int
      BY <1>1, <1>4, BirthLed, GenerationFacts
    <3>2. Vip \notin serving \/ cur[Vip] = <<>>
      BY <1>2, <2>2 DEF BlockFor
    <3> QED
      BY <1>1, <3>1, <3>2 DEF Led, Past
  <2> QED
    BY <2>1, <2>2
<1>5. ASSUME NEW s \in Servers, ToServer(p, s, Missed) PROVE LedInv'
  BY <1>2, <1>4, <1>5, MissedKeepsInv
<1>6. MaySlots(BareIndex(f)) \subseteq Servers
  BY StrayType
<1> QED
  BY <1>3, <1>5, <1>6 DEF RouteAstray

LEMMA KernelSynKeepsInv ==
  ASSUME Inv, NEW p \in net, p \in Packets, NEW s \in Servers, KernelSyn(p, s)
  PROVE  LedInv'
<1> DEFINE f == p.flow
           a == [flow |-> f, synack |-> s]
<1>1. /\ TypeOK /\ PacketLed(p) /\ f \in Flows /\ p.gen \in Generations
      /\ p.gen # NoSock /\ a \in SynAcks /\ a.flow = f /\ a.synack = s
  BY PacketFields, GenerationFacts DEF Inv, LedInv, SynAcks
<1>2. /\ p.at = s /\ net' = (net \ {p}) \cup {a}
      /\ UNCHANGED <<client, peer, listening, gen, cur, prv, serving, updating>>
      /\ sock' = IF sock[s][f] # NoSock THEN sock ELSE [sock EXCEPT ![s][f] = p.gen]
  BY DEF KernelSyn, Passes, AtServer, Moved, routerVars
<1> HIDE DEF a
<1>3. ASSUME NEW t \in Servers, NEW e \in Flows
      PROVE  /\ sock[t][e] # NoSock => sock'[t][e] = sock[t][e]
             /\ sock'[t][e] # sock[t][e] => t = s /\ e = f /\ sock'[t][e] = p.gen
             /\ sock'[s][f] # NoSock
  BY <1>1, <1>2 DEF TypeOK
<1>4. ASSUME NEW m \in net', m \in Packets PROVE PacketLed(m)' /\ DataLed(m)'
  <2>1. m \in net /\ m.flow \in Flows
    BY <1>1, <1>2, <1>4, PacketIsNoSynAck, PacketFields
  <2>2. PacketLed(m) /\ DataLed(m) /\ Handshake(m.flow)
    BY <1>4, <2>1 DEF Inv, LedInv
  <2>3. PacketLed(m)'
    BY <1>2, <2>2 DEF PacketLed, Bound, Target, Led, Slot
  <2>4. Connected(m.flow) => Birth(m.flow)' = Birth(m.flow)
    BY <1>2, <1>3, <2>1, <2>2 DEF Handshake, Birth
  <2> QED
    BY <1>2, <2>2, <2>3, <2>4 DEF DataLed, Bound, Target, Slot, Past, Connected
<1>5. ASSUME NEW t \in Servers, NEW e \in Flows PROVE SocketLed(t, e)'
  <2>1. SocketLed(t, e) /\ Led(p.gen, f, s)
    <3>1. Bound(p) /\ Target(p) = s
      BY <1>2 DEF Bound, Target
    <3>2. SocketLed(t, e)
      BY DEF Inv, LedInv
    <3> QED
      BY <1>1, <3>1, <3>2 DEF PacketLed
  <2>2. CASE sock'[t][e] = sock[t][e]
    BY <1>2, <2>1, <2>2 DEF SocketLed, Led, Slot
  <2>3. CASE sock'[t][e] # sock[t][e]
    <3>1. t = s /\ e = f /\ sock'[t][e] = p.gen
      BY <1>3, <2>3
    <3> QED
      BY <1>2, <2>1, <3>1 DEF SocketLed, Led, Slot
  <2> QED
    BY <2>2, <2>3
<1>6. ASSUME NEW e \in Flows PROVE Handshake(e)'
  <2>1. Handshake(e)
    BY DEF Inv, LedInv
  <2>2. InFlight(e)' \subseteq InFlight(e) \cup {a} /\ (a \in InFlight(e)' => e = f)
    BY <1>1, <1>2 DEF InFlight
  <2>3. e = f => client[e] # "closed"
    BY <2>1 DEF Handshake, InFlight
  <2>4. client'[e] = "closed" => InFlight(e)' = {}
    BY <1>2, <2>1, <2>2, <2>3 DEF Handshake
  <2>5. ASSUME client'[e] = "syn_sent", NEW m \in InFlight(e)'
        PROVE  IF m \in SynAcks THEN sock'[m.synack][e] # NoSock ELSE m.syn
    <3>1. CASE m = a
      BY <1>1, <1>3, <2>2, <2>5, <3>1
    <3>2. CASE m \in InFlight(e)
      <4>1. IF m \in SynAcks THEN sock[m.synack][e] # NoSock ELSE m.syn
        BY <1>2, <2>1, <2>5, <3>2 DEF Handshake
      <4>2. m \in SynAcks => m.synack \in Servers
        BY DEF SynAcks
      <4> QED
        BY <1>3, <4>1, <4>2
    <3> QED
      BY <2>2, <2>5, <3>1, <3>2
  <2> QED
    BY <1>2, <1>3, <2>1, <2>4, <2>5 DEF Handshake, Connected
<1> QED
  BY <1>4, <1>5, <1>6 DEF LedInv

(* Sockets go that no connection uses, or servers start to listen. *)
LEMMA HostKeepsInv ==
  ASSUME Inv, NEW s \in Servers,
         StartListening(s) \/ \E f \in Flows : HalfOpenExpires(s, f)
  PROVE  LedInv'
<1>1. UNCHANGED <<net, client, peer, gen, cur, prv, serving, updating>>
  BY DEF StartListening, HalfOpenExpires, routerVars
<1>2. ASSUME NEW t \in Servers, NEW e \in Flows
      PROVE  \/ sock'[t][e] = sock[t][e]
             \/ sock'[t][e] = NoSock /\ peer[e] # t /\ client[e] # "syn_sent"
  BY DEF StartListening, HalfOpenExpires, Inv, TypeOK
<1>3. ASSUME NEW p \in net', p \in Packets PROVE PacketLed(p)' /\ DataLed(p)'
  <2>1. PacketLed(p) /\ DataLed(p) /\ p.flow \in Flows /\ Handshake(p.flow)
    BY <1>1, <1>3, PacketFields DEF Inv, LedInv
  <2>2. PacketLed(p)'
    BY <1>1, <2>1 DEF PacketLed, Bound, Target, Led, Slot
  <2>3. Connected(p.flow) => Birth(p.flow)' = Birth(p.flow)
    BY <1>1, <1>2, <2>1 DEF Handshake, Birth
  <2> QED
    BY <1>1, <2>1, <2>2, <2>3 DEF DataLed, Bound, Target, Slot, Past, Connected
<1>4. ASSUME NEW t \in Servers, NEW e \in Flows PROVE SocketLed(t, e)'
  <2>1. SocketLed(t, e)
    BY DEF Inv, LedInv
  <2> QED
    BY <1>1, <1>2, <2>1 DEF SocketLed, Led, Slot
<1>5. ASSUME NEW e \in Flows PROVE Handshake(e)'
  <2>1. Handshake(e)
    BY DEF Inv, LedInv
  <2>2. \A m \in SynAcks : m.synack \in Servers
    BY DEF SynAcks
  <2> QED
    BY <1>1, <1>2, <2>1, <2>2 DEF Handshake, Connected, InFlight
<1> QED
  BY <1>3, <1>4, <1>5 DEF LedInv

(* A client sends a packet. *)
LEMMA ClientSendsKeepsInv ==
  ASSUME Inv, NEW f \in Flows, ClientSyn(f) \/ ClientData(f)
  PROVE  LedInv'
<1>1. \E syn \in BOOLEAN : /\ \E tos \in TosValues : ClientSends(f, syn, tos)
                           /\ syn => client[f] \in {"closed", "syn_sent"}
                                     /\ client' = [client EXCEPT ![f] = "syn_sent"]
                           /\ ~ syn => client[f] = "established" /\ client' = client
  <2>1. CASE ClientSyn(f)
    <3>1. \E tos \in TosValues : ClientSends(f, TRUE, tos)
      BY <2>1 DEF ClientSyn, TosValues
    <3>2. /\ client[f] \in {"closed", "syn_sent"}
          /\ client' = [client EXCEPT ![f] = "syn_sent"]
      BY <2>1 DEF ClientSyn
    <3> QED
      BY <3>1, <3>2, Zenon
  <2>2. CASE ClientData(f)
    <3>1. \E tos \in TosValues : ClientSends(f, FALSE, tos)
      BY <2>2, SystemAssumption DEF ClientData
    <3>2. client[f] = "established" /\ client' = client
      BY <2>2 DEF ClientData, hostVars
    <3> QED
      BY <3>1, <3>2, Zenon
  <2> QED
    BY <2>1, <2>2
<1>2. PICK q \in Packets : /\ net' = net \cup {q} /\ q.at = "router" /\ q.flow = f
                           /\ q.block = <<>> /\ (~ q.marked => q.tos # Retransmitted)
                           /\ q.syn => client[f] \in {"closed", "syn_sent"}
                                       /\ client' = [client EXCEPT ![f] = "syn_sent"]
                           /\ ~ q.syn => client[f] = "established" /\ client' = client
  <2>1. PICK syn \in BOOLEAN, tos \in TosValues :
                        /\ ClientSends(f, syn, tos)
                        /\ syn => client[f] \in {"closed", "syn_sent"}
                                     /\ client' = [client EXCEPT ![f] = "syn_sent"]
                        /\ ~ syn => client[f] = "established" /\ client' = client
    BY <1>1, Zenon
  <2>2. PICK q \in Packets : /\ net' = net \cup {q} /\ q.at = "router" /\ q.flow = f
                             /\ q.syn = syn /\ q.tos = tos /\ q.block = <<>>
                             /\ ~ q.marked => q.tos # Retransmitted
    <3>1. ClientSends(f, syn, tos)
      BY <2>1
    <3> HIDE <2>1
    <3> QED
      BY <3>1, SentType
  <2> QED
    BY <2>1, <2>2, Zenon
<1>3. UNCHANGED <<peer, sock, gen, cur, prv, serving, updating>>
  BY DEF ClientSyn, ClientData, routerVars, hostVars
<1>4. q.at \notin Servers /\ q \notin SynAcks /\ client \in [Flows -> {"closed", "syn_sent", "established", "reset"}]
  BY <1>2, PacketFields, PacketIsNoSynAck DEF Inv, TypeOK
<1>5. \A e \in Flows : client'[e] = client[e] \/ (e = f /\ client'[e] = "syn_sent")
  BY <1>2, <1>4
<1>6. ASSUME NEW m \in net', m \in Packets PROVE PacketLed(m)' /\ DataLed(m)'
  <2>1. CASE m \in net
    <3>1. PacketLed(m) /\ DataLed(m) /\ m.flow \in Flows
      BY <1>6, <2>1, PacketFields DEF Inv, LedInv
    <3>2. PacketLed(m)'
      BY <1>3, <3>1 DEF PacketLed, Bound, Target, Led, Slot
    <3>3. Connected(m.flow)' => Connected(m.flow)
      BY <1>5, <3>1 DEF Connected
    <3> QED
      BY <1>3, <3>1, <3>2, <3>3 DEF DataLed, Bound, Target, Slot, Past, Birth
  <2>2. CASE m = q
    <3>1. ~ Bound(q)' /\ PacketLed(q)'
      BY <1>2, <1>4 DEF PacketLed, Bound
    <3>2. ~ q.marked => q.tos # Retransmitted
      BY <1>2
    <3> QED
      BY <1>4, <2>2, <3>1, <3>2 DEF DataLed
  <2> QED
    BY <1>2, <1>6, <2>1, <2>2
<1>7. ASSUME NEW t \in Servers, NEW e \in Flows PROVE SocketLed(t, e)'
  <2>1. SocketLed(t, e)
    BY DEF Inv, LedInv
  <2> QED
    BY <1>3, <2>1 DEF SocketLed, Led, Slot
<1>8. ASSUME NEW e \in Flows PROVE Handshake(e)'
  <2>1. Handshake(e)
    BY DEF Inv, LedInv
  <2>2. InFlight(e)' \subseteq InFlight(e) \cup {q} /\ (e # f => InFlight(e)' = InFlight(e))
    BY <1>2 DEF InFlight
  <2>3. CASE e # f
    BY <1>3, <1>5, <2>1, <2>2, <2>3 DEF Handshake, Connected
  <2>4. CASE e = f /\ q.syn
    <3>1. client'[f] = "syn_sent" /\ client[f] \in {"closed", "syn_sent"}
      BY <1>2, <1>4, <2>4
    <3>2. ASSUME NEW m \in InFlight(f)'
          PROVE  IF m \in SynAcks THEN sock[m.synack][f] # NoSock ELSE m.syn
      <4>1. CASE m = q
        BY <1>4, <2>4, <4>1
      <4>2. CASE m \in InFlight(f)
        BY <2>1, <2>4, <3>1, <4>2 DEF Handshake
      <4> QED
        BY <2>2, <2>4, <3>2, <4>1, <4>2
    <3> QED
      BY <1>3, <2>4, <3>1, <3>2 DEF Handshake, Connected
  <2>5. CASE e = f /\ ~ q.syn
    BY <1>2, <1>3, <2>1, <2>5 DEF Handshake, Connected
  <2> QED
    BY <2>3, <2>4, <2>5
<1> QED
  BY <1>6, <1>7, <1>8 DEF LedInv

LEMMA EstablishedKeepsInv ==
  ASSUME Inv, NEW m \in net, m \in SynAcks, ClientEstablished(m)
  PROVE  LedInv'
<1> DEFINE f == m.flow
<1>1. /\ net' = net \ {m} /\ f \in Flows /\ m.synack \in Servers
      /\ UNCHANGED <<sock, listening, gen, cur, prv, serving, updating, routerVars>>
  BY DEF ClientEstablished, routerVars, SynAcks
<1>2. CASE client[f] # "syn_sent"
  <2>1. UNCHANGED <<client, peer>>
    BY <1>2 DEF ClientEstablished
  <2> QED
    BY <1>1, <2>1, ShrunkKeepsInv
<1>3. CASE client[f] = "syn_sent"
  <2>1. /\ client' = [client EXCEPT ![f] = "established"]
        /\ peer' = [peer EXCEPT ![f] = m.synack]
        /\ client \in [Flows -> {"closed", "syn_sent", "established", "reset"}]
        /\ peer \in [Flows -> Servers \cup {NoServer}]
    BY <1>3 DEF ClientEstablished, Inv, TypeOK
  <2>2. \A e \in Flows \ {f} : client'[e] = client[e] /\ peer'[e] = peer[e]
    BY <2>1
  <2>3. client'[f] = "established" /\ peer'[f] = m.synack
    BY <1>1, <2>1
  <2>4. m \in InFlight(f) /\ Handshake(f)
    BY <1>1 DEF InFlight, Inv, LedInv
  <2>5. ASSUME NEW p \in net', p \in Packets PROVE PacketLed(p)' /\ DataLed(p)'
    <3>1. /\ p \in net /\ PacketLed(p) /\ DataLed(p) /\ p.flow \in Flows
          /\ p \notin SynAcks
      BY <1>1, <2>5, PacketFields, PacketIsNoSynAck DEF Inv, LedInv
    <3>2. PacketLed(p)'
      BY <1>1, <3>1 DEF PacketLed, Bound, Target, Led, Slot
    <3>3. CASE p.flow = f
      <4>1. p.syn
        BY <1>3, <2>4, <3>1, <3>3 DEF Handshake, InFlight
      <4> QED
        BY <3>2, <4>1 DEF DataLed
    <3>4. CASE p.flow # f
      BY <1>1, <2>2, <3>1, <3>2, <3>4 DEF DataLed, Bound, Target, Slot, Past, Birth, Connected
    <3> QED
      BY <3>3, <3>4
  <2>6. ASSUME NEW t \in Servers, NEW e \in Flows PROVE SocketLed(t, e)'
    <3>1. SocketLed(t, e)
      BY DEF Inv, LedInv
    <3> QED
      BY <1>1, <3>1 DEF SocketLed, Led, Slot
  <2>7. ASSUME NEW e \in Flows PROVE Handshake(e)'
    <3>1. Handshake(e) /\ InFlight(e)' \subseteq InFlight(e)
      BY <1>1 DEF Inv, LedInv, InFlight
    <3>2. CASE e = f
      <4>1. sock[m.synack][f] # NoSock
        BY <1>3, <2>4 DEF Handshake
      <4> QED
        BY <1>1, <2>3, <3>2, <4>1 DEF Handshake, Connected
    <3>3. CASE e # f
      BY <1>1, <2>2, <3>1, <3>3 DEF Handshake, Connected
    <3> QED
      BY <3>2, <3>3
  <2> QED
    BY <2>5, <2>6, <2>7 DEF LedInv
<1> QED
  BY <1>2, <1>3

LEMMA CloseKeepsInv ==
  ASSUME Inv, NEW f \in Flows, Close(f)
  PROVE  LedInv'
<1>1. /\ UNCHANGED <<net, listening, gen, cur, prv, serving, updating>>
      /\ InFlight(f) = {} /\ InFlight(f)' = {}
  BY DEF Close, routerVars, InFlight
<1>2. /\ client'[f] = "closed"
      /\ \A e \in Flows \ {f} : client'[e] = client[e] /\ peer'[e] = peer[e]
      /\ \A t \in Servers : sock'[t][f] = NoSock
      /\ \A t \in Servers, e \in Flows \ {f} : sock'[t][e] = sock[t][e]
  BY DEF Close, Inv, TypeOK
<1>3. ASSUME NEW p \in net', p \in Packets PROVE PacketLed(p)' /\ DataLed(p)'
  <2>1. /\ PacketLed(p) /\ DataLed(p) /\ p.flow \in Flows \ {f} /\ Handshake(p.flow)
    BY <1>1, <1>3, PacketFields DEF Inv, LedInv, InFlight
  <2>2. PacketLed(p)'
    BY <1>1, <2>1 DEF PacketLed, Bound, Target, Led, Slot
  <2>3. Connected(p.flow)' <=> Connected(p.flow)
    BY <1>2, <2>1 DEF Connected
  <2>4. Connected(p.flow) => Birth(p.flow)' = Birth(p.flow)
    BY <1>2, <2>1 DEF Handshake, Birth
  <2> QED
    BY <1>1, <1>2, <2>1, <2>2, <2>3, <2>4 DEF DataLed, Bound, Target, Slot, Past
<1>4. ASSUME NEW t \in Servers, NEW e \in Flows PROVE SocketLed(t, e)'
  <2>1. SocketLed(t, e)
    BY DEF Inv, LedInv
  <2> QED
    BY <1>1, <1>2, <2>1 DEF SocketLed, Led, Slot
<1>5. ASSUME NEW e \in Flows PROVE Handshake(e)'
  <2>1. CASE e = f
    BY <1>1, <1>2, <2>1 DEF Handshake, Connected
  <2>2. CASE e # f
    <3>1. Handshake(e) /\ InFlight(e)' = InFlight(e) /\ \A a \in SynAcks : a.synack \in Servers
      BY <1>1 DEF Inv, LedInv, InFlight, SynAcks
    <3> QED
      BY <1>2, <2>2, <3>1 DEF Handshake, Connected
  <2> QED
    BY <2>1, <2>2
<1> QED
  BY <1>3, <1>4, <1>5 DEF LedInv

LEMMA InvInit == Init => Inv
<1> SUFFICES ASSUME Init PROVE LedInv
  BY TypeInit DEF Inv, Indexed, Init
<1>1. net = {}
  BY DEF Init
<1>2. \A f \in Flows : client[f] = "closed"
  BY DEF Init
<1>3. \A s \in Servers, f \in Flows : sock[s][f] = NoSock
  BY DEF Init
<1> QED
  BY <1>1, <1>2, <1>3 DEF LedInv, SocketLed, Handshake, InFlight, Connected

LEMMA InvNext == Inv /\ [Next]_vars => Inv'
<1> SUFFICES ASSUME Inv, [Next]_vars PROVE LedInv'
  BY TypeNext DEF Inv, TypeInv
<1>1. TypeOK
  BY DEF Inv
<1>2. ASSUME NEW m \in net, Vanish(m) PROVE LedInv'
  BY <1>2, ShrunkKeepsInv DEF Vanish, hostVars
<1>3. ASSUME NEW p \in net, p \in Packets, NEW s \in Servers, KernelData(p, s)
      PROVE  LedInv'
  <2>1. \A f \in Flows : client'[f] \in {client[f], "reset"}
    BY <1>1, <1>3 DEF KernelData, TypeOK
  <2> QED
    BY <1>3, <2>1, ShrunkKeepsInv DEF KernelData
<1>4. CASE Deliver
  BY <1>1, <1>2, <1>3, <1>4, DeliverCases, LookUpKeepsInv, ForwardKeepsInv, RouteAstrayKeepsInv,
     SendBackKeepsInv, KernelSynKeepsInv, EstablishedKeepsInv
<1>5. CASE RouterStep
  BY <1>5, RouterKeepsInv
<1>6. CASE \E f \in Flows : ClientSyn(f) \/ ClientData(f) \/ Close(f)
  BY <1>6, ClientSendsKeepsInv, CloseKeepsInv
<1>7. CASE \E s \in Servers : StartListening(s) \/ \E f \in Flows : HalfOpenExpires(s, f)
  BY <1>7, HostKeepsInv
<1>8. CASE UNCHANGED vars
  BY <1>8, ShrunkKeepsInv DEF vars, hostVars
<1> QED
  BY <1>2, <1>4, <1>5, <1>6, <1>7, <1>8 DEF Next, RouterStep

LEMMA AlwaysInv == Spec => []Inv
BY InvInit, InvNext, PTL DEF Spec

-----------------------------------------------------------------------------
LEMMA InvAffinity == Inv => Affinity
<1> SUFFICES ASSUME Inv, NEW f \in Flows, Connected(f), Vip \in serving
             PROVE  /\ Birth(f) = gen => Slot(cur[Vip], f) = peer[f]
                    /\ Birth(f) = gen - 1 => Slot(prv[Vip], f) = peer[f]
  BY DEF Affinity
<1> QED
  BY BirthLed DEF Led

(* ECMP-ER's promise: through one update after the lookup that chose its   *)
(* server, a connection's server is at the slot of its flow in the current *)
(* or the previous block, for any lists of servers, any hash, and however  *)
(* packets, updates, resets and retransmitted SYNs interleave.             *)
THEOREM AffinityHolds == Spec => []Affinity
BY AlwaysInv, InvAffinity, PTL

(* The only step that resets is the kernel's answer to data that the XDP   *)
(* program lets pass on a server without the connection.                   *)
LEMMA ResetStep ==
  ASSUME Inv, [Next]_vars, NEW f \in Flows, Connected(f), client'[f] = "reset"
  PROVE  \E p \in net, s \in Servers : p \in Packets /\ p.flow = f /\ KernelData(p, s)
<1>1. TypeOK /\ client[f] = "established"
  BY DEF Inv, Connected
<1>2. client' # client
  BY <1>1
<1>3. CASE Deliver
  <2>1. ASSUME NEW m \in SynAcks, ClientEstablished(m) PROVE FALSE
    BY <1>1, <2>1 DEF ClientEstablished, TypeOK
  <2>2. PICK p \in net : /\ p \in Packets
                         /\ \/ LookUp(p) \/ Forward(p) \/ RouteAstray(p) \/ Vanish(p)
                            \/ \E s \in Servers : SendBack(p, s) \/ KernelSyn(p, s) \/ KernelData(p, s)
    BY <1>1, <1>3, <2>1, DeliverCases
  <2>3. PICK s \in Servers : KernelData(p, s)
    BY <1>2, <2>2 DEF LookUp, Forward, RouteAstray, Vanish, SendBack, KernelSyn, hostVars
  <2>4. p.flow = f
    BY <1>1, <1>2, <2>2, <2>3 DEF KernelData, TypeOK
  <2> QED
    BY <2>2, <2>3, <2>4
<1>4. ASSUME NEW e \in Flows, ClientSyn(e) \/ ClientData(e) \/ Close(e) PROVE FALSE
  BY <1>1, <1>4 DEF ClientSyn, ClientData, Close, TypeOK, hostVars
<1>5. CASE RouterStep
  BY <1>1, <1>2, <1>5, RouterStepType
<1>6. ASSUME NEW s \in Servers, StartListening(s) \/ \E e \in Flows : HalfOpenExpires(s, e)
      PROVE FALSE
  BY <1>2, <1>6 DEF StartListening, HalfOpenExpires
<1>7. ASSUME NEW m \in net, Vanish(m) PROVE FALSE
  BY <1>2, <1>7 DEF Vanish, hostVars
<1>8. CASE UNCHANGED vars
  BY <1>2, <1>8 DEF vars, hostVars
<1> QED
  BY <1>3, <1>4, <1>5, <1>6, <1>7, <1>8 DEF Next, RouterStep

Explained(f) ==
  \/ Birth(f) = Missed
  \/ gen - Birth(f) >= 2
  \/ SeveralSockets(f)
  \/ \E p \in net \ net' : p.flow = f /\ (p.gen = Missed \/ p.marked)

LEMMA ResetIsExplained ==
  ASSUME Inv, [Next]_vars, NEW f \in Flows, Connected(f), client'[f] = "reset"
  PROVE  Explained(f)
<1>1. PICK p \in net, s \in Servers : p \in Packets /\ p.flow = f /\ KernelData(p, s)
  BY ResetStep
<1>2. /\ net' = net \ {p} /\ p.at = s /\ ~ p.syn
      /\ ~ SendsBack(SocketFor(s, f), p.tos, p.syn)
  BY <1>1 DEF KernelData, Passes, AtServer
<1>3. peer[f] # s \/ sock[s][f] = NoSock
  <2>1. client \in [Flows -> {"closed", "syn_sent", "established", "reset"}]
    BY DEF Inv, TypeOK
  <2> QED
    BY <1>1, <2>1 DEF KernelData, Connected
<1>4. /\ TypeOK /\ PacketLed(p) /\ DataLed(p) /\ p.gen \in Int /\ gen \in Int
      /\ peer[f] \in Servers /\ Birth(f) \in Int /\ sock[peer[f]][f] # NoSock
  BY <1>1, PacketFields, BirthLed, GenerationFacts DEF Inv, LedInv, Handshake
<1>5. s # peer[f]
  BY <1>3, <1>4
<1>10. Bound(p) /\ Target(p) = s
  BY <1>2 DEF Bound, Target
<1> SUFFICES ASSUME ~ SeveralSockets(f), p.gen # Missed, ~ p.marked
             PROVE  gen - Birth(f) >= 2
  BY <1>1, <1>2 DEF Explained
<1>6. sock[s][f] = NoSock
  BY <1>5 DEF SeveralSockets
<1>7. p.tos = Retransmitted
  BY <1>2, <1>6 DEF SendsBack, SocketFor
<1>8. p.gen < gen
  BY <1>4, <1>7, <1>10 DEF PacketLed
<1>9. p.gen >= Birth(f) /\ p.gen # Birth(f)
  BY <1>1, <1>2, <1>4, <1>5, <1>10 DEF DataLed
<1> QED
  BY <1>4, <1>8, <1>9

(* A connection is reset only if two generations have passed since the     *)
(* lookup that chose its server, or for one of the reasons that            *)
(* ResetExplained lists: the argument that a packet which was sent back    *)
(* once finds its server in prv_nh, for every interleaving.                *)
THEOREM ResetsExplained == Spec => ResetExplained
<1>1. Inv /\ [Next]_vars =>
        [\A f \in Flows : Connected(f) /\ client'[f] = "reset" =>
           \/ Birth(f) = Missed
           \/ gen - Birth(f) >= 2
           \/ SeveralSockets(f)
           \/ \E p \in net \ net' : p.flow = f /\ (p.gen = Missed \/ p.marked)]_vars
  BY ResetIsExplained DEF Explained
<1> QED
  BY <1>1, AlwaysInv, PTL DEF Spec, ResetExplained
=============================================================================
