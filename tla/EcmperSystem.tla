----------------------------- MODULE EcmperSystem -----------------------------
(***************************************************************************)
(* TCP connections of clients to one virtual address (VIP), the ECMP-ER    *)
(* router that spreads them over servers, and the XDP program that sends a *)
(* packet back to the router when its server does not know it.             *)
(*                                                                         *)
(* The router's tables change as Generations says, which a sequential      *)
(* controller implements (ControllerRefinement).  A packet is a record in  *)
(* net; it may be lost, and overtaken by others and by updates.  Kernel    *)
(* TCP of clients and servers is external: only what decides between an    *)
(* answer and a reset is modelled.  Server replies reach the client.       *)
(***************************************************************************)
EXTENDS NhExpansion, XdpRedirect, FiniteSets, Functions

CONSTANTS
  Vip, Servers, Flows,
  FlowHash,       \* what the CRC over addresses and ports yields for a flow
  Pools,          \* the lists of servers that routes to the VIP may name
  NoServer, NoSock,
  ClientTos,      \* what the ToS byte of a client's data may be
  MaxTtl,         \* TTL of a client's packets
  MaxGen,         \* bound: number of updates
  MaxInFlight     \* bound: packets of a flow that are under way

ASSUME SystemAssumption ==
  /\ FlowHash \in [Flows -> HashRange]
  /\ \A pool \in Pools : /\ pool # <<>> /\ pool \in Seq(Servers) /\ IsInjective(pool)
                         /\ Len(pool) <= 2^HashBits
  /\ ClientTos \subseteq TosValues
  /\ OtherTos # {}
  /\ NoServer \notin Servers /\ "router" \notin Servers /\ NoSock \notin Int
  /\ MaxTtl \in Nat /\ MaxGen \in Nat /\ MaxInFlight \in Nat

VARIABLES
  serving, updating, cur, prv,   \* the router, see Generations
  gen,          \* history: the number of the current generation
  net,          \* packets under way
  client,       \* state of the client's socket
  peer,         \* the server whose SYN-ACK the client took
  sock,         \* per server and flow: NoSock, or the birth of its socket
  listening     \* servers on which nginx listens

routerVars == <<serving, updating, cur, prv, gen>>
hostVars == <<client, peer, sock, listening>>
vars == <<routerVars, net, hostVars>>

Blocks == {ExpandNh(pool) : pool \in Pools \cup {<<>>}}

Router == INSTANCE Generations WITH Prefixes <- {Vip}, NoBlock <- <<>>

(* The generation whose current block led a packet to where it is: that of *)
(* its lookup, the one before for a lookup in prv_nh, Missed if no single  *)
(* one did: there was no LPM entry, or the nexthop table was rewritten     *)
(* between the LPM lookup and its own.                                     *)
Missed == -2
Generations == Missed .. MaxGen

(* A packet that has its index in the router keeps the block of that index *)
(* (offset and count), <<>> stands for a packet without one.  Two fields   *)
(* are history: gen, and marked, the client's mark.  The value that marks  *)
(* a packet that was sent back is ECT(1) of ECN, so that a client may have *)
(* set it.                                                                 *)
Packets == [flow : Flows, syn : BOOLEAN, tos : TosValues, ttl : 0 .. MaxTtl,
            at : Servers \cup {"router"}, block : Blocks,
            gen : Generations, marked : BOOLEAN]

SynAcks == [flow : Flows, synack : Servers]

Init ==
  /\ Router!Init
  /\ gen = 0
  /\ net = {}
  /\ client = [f \in Flows |-> "closed"]
  /\ peer = [f \in Flows |-> NoServer]
  /\ sock = [s \in Servers |-> [f \in Flows |-> NoSock]]
  /\ listening \in SUBSET Servers

-----------------------------------------------------------------------------
(***************************************************************************)
(* The router's tables.                                                    *)
(***************************************************************************)
Withdraw == Router!Withdraw(Vip) /\ UNCHANGED <<gen, net, hostVars>>

Advance ==
  /\ gen < MaxGen
  /\ Router!Advance
  /\ gen' = gen + 1
  /\ UNCHANGED <<net, hostVars>>

Offer == (Router!Offer(Vip) \/ Router!Complete) /\ UNCHANGED <<gen, net, hostVars>>

(* /clear or a restart: both generations are gone. *)
Reset ==
  /\ gen + 2 <= MaxGen
  /\ Router!Reset
  /\ gen' = gen + 2
  /\ UNCHANGED <<net, hostVars>>

-----------------------------------------------------------------------------
(***************************************************************************)
(* A packet of a client passes the router: p4src/ecmper.p4.                *)
(***************************************************************************)
SlotIndex(block, f) == Masked(FlowHash[f], Len(block)) + 1

Slot(block, f) == block[SlotIndex(block, f)]

Moved(p, q) == net' = (net \ {p}) \cup {q}

(* Mutant of ToServer: the TTL stays. *)
ToServerKeepsTtl(p, s, g) == Moved(p, [p EXCEPT !.at = s, !.block = <<>>, !.gen = g])

(* set_output: TTL - 1, and out to the nexthop. *)
ToServer(p, s, g) ==
  Moved(p, [p EXCEPT !.at = s, !.ttl = @ - 1, !.block = <<>>, !.gen = g])

(* Mutant of BlockFor: cur_nh for packets that were sent back, too. *)
BlockForCurrent(p) == cur[Vip]

BlockFor(p) == IF p.tos = Retransmitted THEN prv[Vip] ELSE cur[Vip]

LookupGen(p) == IF p.tos = Retransmitted THEN gen - 1 ELSE gen

(* Mutant of LookUp: without "hdr.ipv4.ttl > 0". *)
LookUpAnyTtl(p) ==
  /\ p.at = "router" /\ p.block = <<>>
  /\ Vip \in serving /\ BlockFor(p) # <<>>
  /\ Moved(p, [p EXCEPT !.block = BlockFor(p), !.gen = LookupGen(p)])
  /\ UNCHANGED <<routerVars, hostVars>>

(* ipv4_lpm.apply(): the packet has its index.  Any number of updates may  *)
(* pass before it is used.                                                 *)
LookUp(p) ==
  /\ p.at = "router" /\ p.ttl > 0 /\ p.block = <<>>
  /\ Vip \in serving /\ BlockFor(p) # <<>>
  /\ Moved(p, [p EXCEPT !.block = BlockFor(p), !.gen = LookupGen(p)])
  /\ UNCHANGED <<routerVars, hostVars>>

(* What a nexthop table that is being rewritten, or was, may have at an    *)
(* index: a slot of a block that was, is or is about to be installed.      *)
MaySlots(i) == {block[i] : block \in {b \in Blocks : i \in DOMAIN b}}

(* cur_nh.apply() or prv_nh.apply().  Withdraw leaves the nexthop tables   *)
(* alone; after an Advance or a Reset the index is one of old tables, and  *)
(* finds a slot, or none, in the new ones.                                 *)
Forward(p) ==
  /\ p.at = "router" /\ p.block # <<>>
  /\ \/ /\ p.gen = LookupGen(p)
        /\ ToServer(p, Slot(p.block, p.flow), p.gen)
     \/ /\ p.gen # LookupGen(p)
        /\ \/ net' = net \ {p}
           \/ \E s \in MaySlots(SlotIndex(p.block, p.flow)) : ToServer(p, s, Missed)
  /\ UNCHANGED <<routerVars, hostVars>>

(* Without an LPM entry, or with an empty block (count 0, offset 1), the   *)
(* index is the bare hash plus the offset.                                 *)
BareIndex(f) == FlowHash[f] + (IF Vip \in serving THEN 1 ELSE 0)

(* A miss leaves the VIP as the nexthop, which is no neighbor: the packet  *)
(* goes out at port 0.  Index 0 drops it.  Both lookups are one step: what *)
(* the second one may find does not depend on its moment.                  *)
RouteAstray(p) ==
  /\ p.at = "router" /\ p.ttl > 0 /\ p.block = <<>>
  /\ Vip \notin serving \/ BlockFor(p) = <<>>
  /\ \/ net' = net \ {p}
     \/ \E s \in MaySlots(BareIndex(p.flow)) : ToServer(p, s, Missed)
  /\ UNCHANGED <<routerVars, hostVars>>

(* TTL 0 is not looked up and goes out at port 0; a link may lose it too.  *)
Vanish(p) ==
  /\ net' = net \ {p}
  /\ UNCHANGED <<routerVars, hostVars>>

-----------------------------------------------------------------------------
(***************************************************************************)
(* A packet at a server: the XDP program first, then the kernel.           *)
(***************************************************************************)
SocketFor(s, f) == IF sock[s][f] # NoSock THEN "conn"
                   ELSE IF s \in listening THEN "listen" ELSE "none"

AtServer(p, s) == p.at = s /\ s \in Servers

(* XDP_TX *)
SendBack(p, s) ==
  /\ AtServer(p, s) /\ SendsBack(SocketFor(s, p.flow), p.tos, p.syn)
  /\ Moved(p, [p EXCEPT !.at = "router", !.tos = Retransmitted, !.gen = Missed])
  /\ UNCHANGED <<routerVars, hostVars>>

Passes(p, s) == AtServer(p, s) /\ ~ SendsBack(SocketFor(s, p.flow), p.tos, p.syn)

(* The listener makes a half-open socket, which answers every SYN. *)
KernelSyn(p, s) ==
  /\ Passes(p, s) /\ p.syn
  /\ sock' = IF sock[s][p.flow] # NoSock THEN sock
             ELSE [sock EXCEPT ![s][p.flow] = p.gen]
  /\ Moved(p, [flow |-> p.flow, synack |-> s])
  /\ UNCHANGED <<routerVars, client, peer, listening>>

(* Data of the connection is consumed; anything else is answered with a    *)
(* RST: by a listener, or by a socket that belongs to another SYN-ACK.     *)
KernelData(p, s) ==
  /\ Passes(p, s) /\ ~ p.syn
  /\ net' = net \ {p}
  /\ client' = IF peer[p.flow] = s /\ sock[s][p.flow] # NoSock THEN client
               ELSE [client EXCEPT ![p.flow] = "reset"]
  /\ UNCHANGED <<routerVars, peer, sock, listening>>

(* A half-open socket that the client did not take is given up. *)
HalfOpenExpires(s, f) ==
  /\ sock[s][f] # NoSock /\ peer[f] # s /\ client[f] # "syn_sent"
  /\ sock' = [sock EXCEPT ![s][f] = NoSock]
  /\ UNCHANGED <<routerVars, net, client, peer, listening>>

StartListening(s) ==
  /\ s \notin listening
  /\ listening' = listening \cup {s}
  /\ UNCHANGED <<routerVars, net, client, peer, sock>>

-----------------------------------------------------------------------------
(***************************************************************************)
(* Clients.                                                                *)
(***************************************************************************)
InFlight(f) == {m \in net : m.flow = f}

ClientSends(f, syn, tos) ==
  /\ Cardinality(InFlight(f)) < MaxInFlight
  /\ net' = net \cup {[flow |-> f, syn |-> syn, tos |-> tos, ttl |-> MaxTtl,
                       at |-> "router", block |-> <<>>, gen |-> Missed,
                       marked |-> tos = Retransmitted]}

(* The first SYN, or one repeated because no answer came.  A SYN is not    *)
(* ECN-capable.                                                            *)
ClientSyn(f) ==
  /\ client[f] \in {"closed", "syn_sent"}
  /\ \E tos \in OtherTos : ClientSends(f, TRUE, tos)
  /\ client' = [client EXCEPT ![f] = "syn_sent"]
  /\ UNCHANGED <<routerVars, peer, sock, listening>>

ClientData(f) ==
  /\ client[f] = "established"
  /\ \E tos \in ClientTos : ClientSends(f, FALSE, tos)
  /\ UNCHANGED <<routerVars, hostVars>>

ClientEstablished(m) ==
  /\ m \in SynAcks
  /\ net' = net \ {m}
  /\ IF client[m.flow] = "syn_sent"
     THEN /\ client' = [client EXCEPT ![m.flow] = "established"]
          /\ peer' = [peer EXCEPT ![m.flow] = m.synack]
     ELSE UNCHANGED <<client, peer>>
  /\ UNCHANGED <<routerVars, sock, listening>>

(* The connection ends, and with it all that was left of it. *)
Close(f) ==
  /\ client[f] \in {"established", "reset"} /\ InFlight(f) = {}
  /\ client' = [client EXCEPT ![f] = "closed"]
  /\ peer' = [peer EXCEPT ![f] = NoServer]
  /\ sock' = [s \in Servers |-> [sock[s] EXCEPT ![f] = NoSock]]
  /\ UNCHANGED <<routerVars, net, listening>>

-----------------------------------------------------------------------------
IsPacket(m) == m \notin SynAcks

PacketStep(p) ==
  \/ LookUp(p) \/ Forward(p) \/ RouteAstray(p)
  \/ \E s \in Servers : SendBack(p, s) \/ KernelSyn(p, s) \/ KernelData(p, s)
  \/ p.at = "router" /\ p.ttl = 0 /\ Vanish(p)

Deliver == \E m \in net : IF IsPacket(m) THEN PacketStep(m) ELSE ClientEstablished(m)

Next ==
  \/ Withdraw \/ Advance \/ Offer \/ Reset
  \/ Deliver
  \/ \E m \in net : Vanish(m)
  \/ \E f \in Flows : ClientSyn(f) \/ ClientData(f) \/ Close(f)
  \/ \E s \in Servers : StartListening(s) \/ \E f \in Flows : HalfOpenExpires(s, f)

Spec == Init /\ [][Next]_vars

(* Router and servers handle what arrives; nothing else is assumed. *)
FairSpec == Spec /\ WF_vars(Deliver)

-----------------------------------------------------------------------------
(***************************************************************************)
(* Properties.                                                             *)
(***************************************************************************)
TypeOK ==
  /\ Router!TypeInvariant
  /\ gen \in 0 .. MaxGen
  /\ net \subseteq Packets \cup SynAcks
  /\ client \in [Flows -> {"closed", "syn_sent", "established", "reset"}]
  /\ peer \in [Flows -> Servers \cup {NoServer}]
  /\ sock \in [Servers -> [Flows -> Generations \cup {NoSock}]]
  /\ listening \subseteq Servers

Connected(f) == client[f] = "established"

Birth(f) == sock[peer[f]][f]

(* ECMP-ER's promise: through one update after the lookup that chose its   *)
(* server, a connection's server is in the current or in the previous      *)
(* block at the slot of the flow, whichever servers come or go, so that a  *)
(* packet reaches it directly or sent back once.                           *)
Affinity ==
  \A f \in Flows : Connected(f) /\ Vip \in serving =>
    /\ Birth(f) = gen => Slot(cur[Vip], f) = peer[f]
    /\ Birth(f) = gen - 1 => Slot(prv[Vip], f) = peer[f]

SeveralSockets(f) == \E s \in Servers \ {peer[f]} : sock[s][f] # NoSock

(* A connection is reset only if two generations have passed since the     *)
(* lookup that chose its server, if a repeated SYN left a socket at a      *)
(* second server, if an update fell into the lookups of its SYN or of the  *)
(* packet in question (the VIP had no LPM entry, or the nexthop tables     *)
(* were rewritten between the two lookups), or if the client itself had    *)
(* sent the packet with the mark of those sent back.                       *)
ResetExplained ==
  [][\A f \in Flows : Connected(f) /\ client'[f] = "reset" =>
       \/ Birth(f) = Missed
       \/ gen - Birth(f) >= 2
       \/ SeveralSockets(f)
       \/ \E p \in net \ net' : p.flow = f /\ (p.gen = Missed \/ p.marked)]_vars

Sends(f) == ClientSyn(f) \/ ClientData(f)

(* Unless its client goes on sending, what is under way for a flow is gone *)
(* at some moment: a packet that no server owns is not sent back and forth *)
(* for ever.                                                               *)
Drains == \A f \in Flows : []<><<Sends(f)>>_vars \/ []<>(InFlight(f) = {})
=============================================================================
