-------------------------------- MODULE Lookup --------------------------------
(***************************************************************************)
(* p4src/ecmper.p4 next to the controller: a packet is looked up in the    *)
(* LPM table, then in a nexthop table, and the controller may write in     *)
(* between.  Packets have no effect on each other or on the tables, so     *)
(* there is one at a time.  The neighbor table is looked up in one step    *)
(* with the nexthop table: no other table tells what belongs in it.        *)
(***************************************************************************)
EXTENDS ControllerRefinement

CONSTANTS
  Matching,       \* per destination: the prefixes it matches, longest first
  PacketHashes    \* hashes of packets

Dsts == DOMAIN Matching

ASSUME LookupAssumption ==
  /\ \A d \in Dsts : Matching[d] \in Seq(Prefixes) /\ d # ZeroAddr
  /\ PacketHashes \subseteq HashRange
  /\ Drop \notin NeighPorts \cup {0}

VARIABLES
  pkt,     \* the packet and its metadata
  served   \* history: per prefix, the servers that its LPM entry stands for

lookupVars == <<vars, pkt, served>>

NoPacket == [at |-> "none"]

(* The servers for packets from clients, and for those that were sent back. *)
Nobody == [cur |-> {}, prv |-> {}]

LookupInit ==
  /\ Init
  /\ pkt = NoPacket
  /\ served = [p \in Prefixes |-> Nobody]

-----------------------------------------------------------------------------
(* Packets that have their index while a nexthop table is written.         *)
Overtaken ==
  IF pkt.at = "lpm" /\ (cur_nh' # cur_nh \/ prv_nh' # prv_nh)
  THEN [pkt EXCEPT !.overtaken = TRUE] ELSE pkt

(* An install writes an LPM entry for the lists of its ECMPerTable; what a *)
(* prefix without an entry had is over when the request is.                *)
ServedBy(t, ends) ==
  [p \in Prefixes |->
     IF ipv4_lpm'[p] # ipv4_lpm[p] /\ ipv4_lpm'[p] # Absent
     THEN [cur |-> Addrs(t.cur[p]), prv |-> Addrs(t.prv[p])]
     ELSE IF ends /\ ipv4_lpm[p] = Absent THEN Nobody ELSE served[p]]

ControllerStep ==
  /\ \/ Request \/ HandlerStep(h0)
     /\ served' = ServedBy(table[h0], pc[h0] \in {"finish", "renew"})
  /\ pkt' = Overtaken

ControllerRestart ==
  /\ Restart
  /\ served' = [p \in Prefixes |-> Nobody]
  /\ pkt' = Overtaken

-----------------------------------------------------------------------------
Hits(d) == {n \in DOMAIN Matching[d] : ipv4_lpm[Matching[d][n]] # Absent}

Longest(d) == Matching[d][CHOOSE n \in Hits(d) : \A k \in Hits(d) : n <= k]

(* ipv4_lpm.apply() and the index.  Without an entry the metadata are 0,   *)
(* so that the count less 1 is a mask of ones, and the index the hash.     *)
LookUpLpm(d, hash, back) ==
  /\ pkt.at = "none"
  /\ LET e == ipv4_lpm[Longest(d)]
         hit == Hits(d) # {}
     IN pkt' = [at |-> "lpm", dst |-> d, back |-> back, overtaken |-> FALSE,
                index |-> IF ~ hit THEN Index(hash, 0, 0)
                          ELSE IF back THEN Index(hash, e.prv_count, e.prv_offset)
                          ELSE Index(hash, e.cur_count, e.cur_offset),
                promised |-> IF ~ hit THEN {}
                             ELSE IF back THEN served[Longest(d)].prv
                             ELSE served[Longest(d)].cur]
  /\ UNCHANGED <<vars, served>>

Slot == IF pkt.back THEN prv_nh[pkt.index] ELSE cur_nh[pkt.index]

(* A miss, the entry that drops and a connected route leave 0 in nh_addr,  *)
(* for which dstAddr is taken.                                             *)
NhAddr == IF Slot \in {Absent, Drop, ZeroAddr} THEN pkt.dst ELSE Slot

(* neigh.apply(): without an entry the packet goes out at port 0.  After   *)
(* that, SwitchIngress drops what has the flag.                            *)
Egress ==
  IF Slot = Drop THEN Drop
  ELSE IF NhAddr \in NeighAddrs /\ neigh[NhAddr] # Absent THEN neigh[NhAddr] ELSE 0

(* cur_nh.apply() or prv_nh.apply(), and what follows from nh_addr.        *)
Forward ==
  /\ pkt.at = "lpm"
  /\ pkt' = NoPacket
  /\ UNCHANGED <<vars, served>>

PacketStep ==
  \/ \E d \in Dsts, hash \in PacketHashes, back \in BOOLEAN : LookUpLpm(d, hash, back)
  \/ Forward

LookupNext == ControllerStep \/ ControllerRestart \/ PacketStep

LookupSpec == LookupInit /\ [][LookupNext]_lookupVars

-----------------------------------------------------------------------------
(***************************************************************************)
(* Properties.                                                             *)
(***************************************************************************)
Meant(d, addrs) == {IF a = ZeroAddr THEN d ELSE a : a \in addrs}

(* A packet that finds an LPM entry, in whichever phase of an install, is  *)
(* not dropped, and goes to one of the servers that the install which      *)
(* wrote the entry named for such packets: the current ones, or for one    *)
(* that was sent back the previous ones.  Two exceptions: the generation   *)
(* has no server, or a nexthop table was written since the LPM lookup.     *)
ForwardedRight ==
  [][Forward /\ ~ pkt.overtaken /\ pkt.promised # {} =>
       Egress # Drop /\ NhAddr \in Meant(pkt.dst, pkt.promised)]_lookupVars

(* Servers that some generation names: the RIBs of the controller, or what *)
(* LPM entries stand or stood for until the current request.               *)
KnownAddrs ==
  UNION {Addrs(prv_routes[nh_installer][p]) \cup Addrs(cur_routes[nh_installer][p])
           \cup served[p].prv \cup served[p].cur : p \in Prefixes}

(* Even a packet that is overtaken by an install, or that has no LPM entry *)
(* and hits some slot with its bare hash, only reaches a server of the     *)
(* generations that are or were just deployed, or its own destination:     *)
(* nobody gets traffic whose route was deleted two installs ago.           *)
OnlyKnownServers ==
  [][Forward /\ Slot \in NhAddrs => Slot \in KnownAddrs]_lookupVars
=============================================================================
