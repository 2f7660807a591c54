----------------------------- MODULE LookupProofs -----------------------------
(***************************************************************************)
(* What packets meet in the tables of the switch, for every number of      *)
(* prefixes, nexthops and routes and every hash.                           *)
(***************************************************************************)
EXTENDS Lookup, ControllerProofs

-----------------------------------------------------------------------------
(***************************************************************************)
(* The inductive invariant: the blocks of an entry hold the servers that   *)
(* the history has for it, and so does the slot of a packet that no write  *)
(* to a nexthop table has overtaken.                                       *)
(***************************************************************************)
Server == [cur : SUBSET NhAddrs, prv : SUBSET NhAddrs]

InLookup == [at : {"lpm"}, dst : Dsts, back : BOOLEAN, overtaken : BOOLEAN,
             index : HashRange, promised : SUBSET NhAddrs]

PacketTypeOK == served \in [Prefixes -> Server] /\ pkt \in InLookup \cup {NoPacket}

ServedEntry(p) ==
  ipv4_lpm[p] # Absent =>
    /\ BlockSet(cur_nh, ipv4_lpm[p].cur_offset, ipv4_lpm[p].cur_count) = served[p].cur
    /\ BlockSet(prv_nh, ipv4_lpm[p].prv_offset, ipv4_lpm[p].prv_count) = served[p].prv

ServedRight == \A p \in Prefixes : ServedEntry(p)

PacketRight ==
  pkt.at = "lpm" /\ ~ pkt.overtaken /\ pkt.promised # {} => Slot \in pkt.promised

LookupInv == InstallInv /\ PacketTypeOK /\ ServedRight /\ PacketRight

-----------------------------------------------------------------------------
(***************************************************************************)
(* Steps of the controller.                                                *)
(***************************************************************************)
LEMMA StepIsNext == ASSUME ControllerStep \/ ControllerRestart PROVE Next
BY ControllerAssumption DEF ControllerStep, ControllerRestart, Next, h0

LEMMA LookupIsNext == ASSUME [LookupNext]_lookupVars PROVE [Next]_vars
BY StepIsNext DEF LookupNext, PacketStep, LookUpLpm, Forward, lookupVars

(* A refused write changes nothing.                                        *)
LEMMA CutFrame ==
  ASSUME Alone(h0), TypeInv, Request \/ HandlerStep(h0), CutShort
  PROVE  UNCHANGED <<ipv4_lpm, cur_nh, prv_nh>>
<1>1. h0 \in Handlers /\ pc \in [Handlers -> Labels]
  BY DEF Alone, TypeInv, TypeOK, HandlerTypeOK
<1>2. job[h0] = "install" /\ pc[h0] \in Writing /\ pc'[h0] = "reply"
  BY DEF CutShort
<1>3. CASE Request
  BY <1>3 DEF Request, RestAdd, RestDel, RestInstall, RestClear, RestNeighAdd, RestNeighDel,
              switchVars
<1>4. ~ \E k : Proceed(h0, k)
  BY <1>1, <1>2 DEF Proceed, Goto, Writing
<1>5. ASSUME NEW t, NEW k, NEW v, Insert(h0, t, k, v)
      PROVE  UNCHANGED <<ipv4_lpm, cur_nh, prv_nh>>
  BY <1>4, <1>5 DEF Insert, Abort, switchVars
<1>6. CASE PutDrop(h0) \/ PutPrv(h0) \/ PutCur(h0) \/ PutLpm(h0)
  BY <1>5, <1>6 DEF PutDrop, PutPrv, PutCur, PutLpm
<1>7. CASE Modify(h0)
  BY <1>4, <1>7 DEF Modify, Abort, switchVars
<1>8. CASE PrvDone(h0) \/ CurDone(h0) \/ LpmDone(h0)
  BY <1>8 DEF PrvDone, CurDone, LpmDone, switchVars
<1>9. ~ (\/ MemoryStep(h0)
         \/ ReadTable(h0) \/ DeleteEntry(h0) \/ DeleteFails(h0) \/ TableCleared(h0)
         \/ Finish(h0) \/ PutNeigh(h0) \/ Renew(h0) \/ Reply(h0))
  BY <1>1, <1>2, MemoryFrame
  DEF ReadTable, DeleteEntry, DeleteFails, TableCleared, Finish, PutNeigh, Renew, Reply, Writing
<1> QED
  BY <1>3, <1>6, <1>7, <1>8, <1>9 DEF HandlerStep, MemoryStep

LEMMA EntryKept ==
  ASSUME NEW p \in Prefixes, ServedEntry(p), UNCHANGED <<cur_nh, prv_nh>>,
         ipv4_lpm'[p] \in {ipv4_lpm[p], Absent},
         NEW t, NEW ends, served' = ServedBy(t, ends)
  PROVE  ServedEntry(p)'
<1> SUFFICES ASSUME ipv4_lpm'[p] # Absent PROVE ServedEntry(p)'
  BY DEF ServedEntry
<1>1. ipv4_lpm'[p] = ipv4_lpm[p] /\ ipv4_lpm[p] # Absent
  OBVIOUS
<1>2. served'[p] = served[p]
  BY <1>1 DEF ServedBy
<1> QED
  BY <1>1, <1>2, Zenon DEF ServedEntry, BlockSet

(* An entry that an install writes leads to the blocks of the lists of its *)
(* ECMPerTable, which is what the history gets.                            *)
LEMMA OfferedRight ==
  ASSUME InstallInv, InstallInv', Offering, ServedRight,
         NEW ends, served' = ServedBy(table[h0], ends)
  PROVE  ServedRight'
<1> SUFFICES ASSUME NEW q \in Prefixes PROVE ServedEntry(q)'
  BY DEF ServedRight
<1>1. PICK p \in Prefixes, e \in LpmParams :
        /\ ipv4_lpm[p] = Absent /\ ipv4_lpm' = [ipv4_lpm EXCEPT ![p] = e]
        /\ Shown(cur_nh, e.cur_offset, e.cur_count) = BlockOf(CurRib[p])
        /\ Shown(prv_nh, e.prv_offset, e.prv_count) = BlockOf(prv_routes[nh_installer][p])
  BY DEF Offering
<1>2. UNCHANGED <<cur_nh, prv_nh>> /\ Updating
  BY DEF Offering
<1>3. ipv4_lpm \in [Prefixes -> LpmParams \cup {Absent}]
  BY DEF InstallInv, TypeInv, TypeOK, SwitchTypeOK
<1>4. CASE q # p
  <2>1. ipv4_lpm'[q] = ipv4_lpm[q]
    BY <1>1, <1>3, <1>4
  <2> QED
    BY <1>2, <2>1, EntryKept DEF ServedRight
<1>5. CASE q = p
  <2> DEFINE c == cur_routes[nh_installer][p]  v == prv_routes[nh_installer][p]
  <2>1. ipv4_lpm'[p] = e /\ e # Absent
    BY <1>1, <1>3, ControllerAssumption
  <2>2. table[h0].cur[p] = c /\ table[h0].prv[p] = v
    BY <1>2 DEF InstallInv, Exact, TableRibs, Built, Updating
  <2>3. CurRib[p] = c
    BY <1>2 DEF CurRib, BeforeAdvance, Updating
  <2>4. /\ c \in Seq(Nexthops) /\ Len(c) <= 2^HashBits
        /\ v \in Seq(Nexthops) /\ Len(v) <= 2^HashBits
    BY DEF InstallInv, TypeInv, TypeOK, RibTypeOK, Rib
  <2>5. served'[p] = [cur |-> Addrs(c), prv |-> Addrs(v)]
    BY <1>1, <2>1, <2>2 DEF ServedBy
  <2>6. e.cur_offset \in Nat /\ e.cur_count \in Nat /\ e.prv_offset \in Nat /\ e.prv_count \in Nat
    BY DEF LpmParams
  <2> HIDE DEF c, v
  <2>7. BlockSet(cur_nh, e.cur_offset, e.cur_count) = Addrs(c)
    BY <1>1, <2>3, <2>4, <2>6, ShownSet
  <2>8. BlockSet(prv_nh, e.prv_offset, e.prv_count) = Addrs(v)
    BY <1>1, <2>4, <2>6, ShownSet DEF v
  <2>9. served'[p].cur = Addrs(c) /\ served'[p].prv = Addrs(v)
    BY <2>5
  <2>10. BlockSet(cur_nh', e.cur_offset, e.cur_count) = served'[p].cur
    BY <1>2, <2>7, <2>9
  <2>11. BlockSet(prv_nh', e.prv_offset, e.prv_count) = served'[p].prv
    BY <1>2, <2>8, <2>9
  <2>12. ServedEntry(p)'
    BY <2>1, <2>10, <2>11 DEF ServedEntry
  <2> QED
    BY <1>5, <2>12
<1> QED
  BY <1>4, <1>5

LEMMA ServedStep ==
  ASSUME Alone(h0), LookupInv, ControllerStep
  PROVE  ServedRight'
<1>1. InstallInv /\ ServedRight /\ Next
  BY StepIsNext DEF LookupInv
<1>2. PICK ends : served' = ServedBy(table[h0], ends)
  BY DEF ControllerStep
<1>3. /\ InstallInv'
      /\ \/ Unseen \/ Withdrawal \/ NewGeneration \/ Offering \/ Completed \/ Cleared \/ CutShort
  BY <1>1, NextExact
<1>4. LpmEmpty' => ServedRight'
  BY DEF LpmEmpty, ServedRight, ServedEntry
<1>5. ASSUME UNCHANGED <<cur_nh, prv_nh>>,
             \A p \in Prefixes : ipv4_lpm'[p] \in {ipv4_lpm[p], Absent}
      PROVE  ServedRight'
  BY <1>1, <1>2, <1>5, EntryKept DEF ServedRight
<1>6. CASE Unseen
  BY <1>4, <1>5, <1>6 DEF Unseen
<1>7. CASE Withdrawal
  <2>1. ipv4_lpm \in [Prefixes -> LpmParams \cup {Absent}]
    BY <1>1 DEF InstallInv, TypeInv, TypeOK, SwitchTypeOK
  <2>2. \A p \in Prefixes : ipv4_lpm'[p] \in {ipv4_lpm[p], Absent}
    BY <1>7, <2>1 DEF Withdrawal
  <2> QED
    BY <1>5, <1>7, <2>2 DEF Withdrawal
<1>8. CASE NewGeneration \/ Cleared
  BY <1>4, <1>8 DEF NewGeneration, Cleared
<1>9. CASE Offering
  BY <1>1, <1>2, <1>3, <1>9, OfferedRight
<1>10. CASE Completed
  BY <1>5, <1>10 DEF Completed
<1>11. CASE CutShort
  <2>1. TypeInv /\ (Request \/ HandlerStep(h0))
    BY <1>1 DEF InstallInv, ControllerStep
  <2> QED
    BY <1>5, <1>11, <2>1, CutFrame
<1> QED
  BY <1>3, <1>6, <1>7, <1>8, <1>9, <1>10, <1>11

LEMMA AddrsAreAddrs ==
  ASSUME NEW l \in Seq(Nexthops)
  PROVE  Addrs(l) \in SUBSET NhAddrs
<1>1. Range(l) \subseteq Nexthops
  BY DEF Range
<1> QED
  BY <1>1 DEF Addrs, NhAddrs

LEMMA ServedType ==
  ASSUME TypeInv, PacketTypeOK, NEW ends, served' = ServedBy(table[h0], ends), h0 \in Handlers
  PROVE  served' \in [Prefixes -> Server]
<1> SUFFICES ASSUME NEW p \in Prefixes
             PROVE  (IF ipv4_lpm'[p] # ipv4_lpm[p] /\ ipv4_lpm'[p] # Absent
                     THEN [cur |-> Addrs(table[h0].cur[p]), prv |-> Addrs(table[h0].prv[p])]
                     ELSE IF ends /\ ipv4_lpm[p] = Absent THEN Nobody ELSE served[p]) \in Server
  BY DEF ServedBy
<1>1. table[h0].cur \in Rib /\ table[h0].prv \in Rib
  BY DEF TypeInv, TypeOK, HandlerTypeOK, ECMPerTables
<1>2. table[h0].cur[p] \in Seq(Nexthops) /\ table[h0].prv[p] \in Seq(Nexthops)
  BY <1>1 DEF Rib
<1>3. Addrs(table[h0].cur[p]) \in SUBSET NhAddrs /\ Addrs(table[h0].prv[p]) \in SUBSET NhAddrs
  BY <1>2, AddrsAreAddrs
<1>4. Nobody \in Server /\ served[p] \in Server
  BY DEF PacketTypeOK, Nobody, Server
<1> QED
  BY <1>3, <1>4 DEF Server

(* A packet in lookup stays as it is, but for the mark.                    *)
LEMMA OvertakenRight ==
  ASSUME PacketTypeOK, PacketRight, pkt' = Overtaken
  PROVE  pkt' \in InLookup \cup {NoPacket} /\ PacketRight'
<1>1. pkt \in InLookup \cup {NoPacket}
  BY DEF PacketTypeOK
<1>2. CASE pkt \in InLookup /\ (cur_nh' # cur_nh \/ prv_nh' # prv_nh)
  <2>1. pkt' = [pkt EXCEPT !.overtaken = TRUE]
    BY <1>2 DEF Overtaken, InLookup
  <2>2. pkt' \in InLookup /\ pkt'.overtaken
    BY <1>2, <2>1 DEF InLookup
  <2> QED
    BY <2>2 DEF PacketRight
<1>3. CASE pkt = NoPacket
  <2>1. pkt' = NoPacket
    BY <1>3 DEF Overtaken, NoPacket
  <2> QED
    BY <2>1 DEF PacketRight, NoPacket
<1>4. CASE UNCHANGED <<cur_nh, prv_nh>>
  <2>1. pkt' = pkt
    BY <1>4 DEF Overtaken
  <2> QED
    BY <1>1, <1>4, <2>1 DEF PacketRight, Slot
<1> QED
  BY <1>1, <1>2, <1>3, <1>4

-----------------------------------------------------------------------------
(***************************************************************************)
(* Lookups.                                                                *)
(***************************************************************************)
LEMMA IndexType ==
  ASSUME NEW hash \in HashRange, NEW c \in Nat, NEW o \in Nat
  PROVE  Index(hash, c, o) \in HashRange
<1> DEFINE W == 2^HashBits
<1>1. W \in Nat \ {0} /\ HashRange = 0 .. W - 1 /\ hash \in Nat
  BY PowersAssumption, HashBitsAssumption DEF HashRange
<1>2. Masked(hash, c) \in Nat
  BY <1>1 DEF Masked
<1> DEFINE m == Masked(hash, c)
<1>3. Index(hash, c, o) = (m + o) % W
  BY DEF Index
<1> HIDE DEF W, m
<1>4. (m + o) % W \in 0 .. W - 1
  BY <1>1, <1>2 DEF m
<1> QED
  BY <1>1, <1>3, <1>4

LEMMA LongestType ==
  ASSUME NEW d \in Dsts, Hits(d) # {}
  PROVE  Longest(d) \in Prefixes /\ ipv4_lpm[Longest(d)] # Absent
<1>1. Matching[d] \in Seq(Prefixes)
  BY LookupAssumption
<1>2. Hits(d) \subseteq DOMAIN Matching[d] /\ DOMAIN Matching[d] \subseteq Nat
  BY <1>1 DEF Hits
<1>3. \E n \in Hits(d) : \A k \in Hits(d) : n <= k
  BY <1>2, LeastElement
<1> DEFINE n == CHOOSE n \in Hits(d) : \A k \in Hits(d) : n <= k
<1>4. n \in Hits(d)
  BY <1>3
<1>5. Longest(d) = Matching[d][n]
  BY DEF Longest
<1> HIDE DEF n
<1> QED
  BY <1>1, <1>4, <1>5 DEF Hits

(* A packet that finds an LPM entry and is not overtaken is at a slot of   *)
(* the entry's block.                                                      *)
LEMMA LookUpRight ==
  ASSUME LookupInv, NEW d \in Dsts, NEW hash \in PacketHashes, NEW back \in BOOLEAN,
         LookUpLpm(d, hash, back)
  PROVE  pkt' \in InLookup /\ PacketRight'
<1> DEFINE p == Longest(d)  e == ipv4_lpm[p]
           o == IF back THEN e.prv_offset ELSE e.cur_offset
           c == IF back THEN e.prv_count ELSE e.cur_count
           nh == IF back THEN prv_nh ELSE cur_nh
           known == IF back THEN served[p].prv ELSE served[p].cur
<1>1. hash \in HashRange
  BY LookupAssumption
<1>2. pkt' = [at |-> "lpm", dst |-> d, back |-> back, overtaken |-> FALSE,
              index |-> IF Hits(d) = {} THEN Index(hash, 0, 0) ELSE Index(hash, c, o),
              promised |-> IF Hits(d) = {} THEN {} ELSE known]
  BY DEF LookUpLpm
<1>3. UNCHANGED <<cur_nh, prv_nh>>
  BY DEF LookUpLpm, vars, switchVars
<1>4. CASE Hits(d) = {}
  <2>1. Index(hash, 0, 0) \in HashRange
    BY <1>1, IndexType
  <2>2. pkt' = [at |-> "lpm", dst |-> d, back |-> back, overtaken |-> FALSE,
                index |-> Index(hash, 0, 0), promised |-> {}]
    BY <1>2, <1>4
  <2> QED
    BY <2>1, <2>2 DEF InLookup, PacketRight
<1>5. CASE Hits(d) # {}
  <2>1. p \in Prefixes /\ e # Absent
    BY <1>5, LongestType
  <2>2. e \in LpmParams
    BY <2>1 DEF LookupInv, InstallInv, TypeInv, TypeOK, SwitchTypeOK
  <2>3. o \in Nat /\ c \in Nat
    BY <2>2 DEF LpmParams
  <2>4. BlockSet(nh, o, c) = known
    BY <2>1 DEF LookupInv, ServedRight, ServedEntry
  <2>5. \A i \in Slots(o, c) : i \in HashRange
    BY <2>1 DEF LookupInv, InstallInv, Closed, LpmLive, BlocksLive, Live
  <2>6. known \in SUBSET NhAddrs
    BY <2>1 DEF LookupInv, PacketTypeOK, Server
  <2> DEFINE i == Index(hash, c, o)
  <2> HIDE DEF o, c, known, nh
  <2>7. i \in HashRange
    BY <1>1, <2>3, IndexType
  <2>8. known # {} => c # 0
    BY <2>3, <2>4 DEF BlockSet, Slots
  <2>9. known # {} => i \in Slots(o, c)
    BY <1>1, <2>3, <2>5, <2>8, IndexInBlock
  <2> HIDE DEF i
  <2>10. known # {} => nh[i] \in known
    BY <2>4, <2>9 DEF BlockSet
  <2>11. pkt' = [at |-> "lpm", dst |-> d, back |-> back, overtaken |-> FALSE,
                 index |-> i, promised |-> known]
    BY <1>2, <1>5 DEF i
  <2>12. pkt' \in InLookup
    BY <2>6, <2>7, <2>11 DEF InLookup
  <2>13. Slot' = nh[i]
    BY <1>3, <2>11 DEF Slot, nh
  <2>14. pkt'.promised = known
    BY <2>11
  <2> QED
    BY <2>10, <2>12, <2>13, <2>14 DEF PacketRight
<1> QED
  BY <1>4, <1>5

-----------------------------------------------------------------------------
LEMMA LookupNextInv ==
  ASSUME Alone(h0), LookupInv, [LookupNext]_lookupVars
  PROVE  LookupInv'
<1>1. InstallInv'
  BY LookupIsNext, NextExact DEF LookupInv
<1>2. InstallInv /\ TypeInv /\ PacketTypeOK /\ ServedRight /\ PacketRight /\ h0 \in Handlers
  BY DEF LookupInv, InstallInv, Alone
<1>3. CASE ControllerStep
  <2>1. PICK ends : served' = ServedBy(table[h0], ends)
    BY <1>3 DEF ControllerStep
  <2>2. served' \in [Prefixes -> Server]
    BY <1>2, <2>1, ServedType
  <2>3. pkt' \in InLookup \cup {NoPacket} /\ PacketRight'
    BY <1>2, <1>3, OvertakenRight DEF ControllerStep
  <2>4. ServedRight'
    BY <1>3, ServedStep
  <2> QED
    BY <1>1, <2>2, <2>3, <2>4 DEF LookupInv, PacketTypeOK
<1>4. CASE ControllerRestart
  <2>1. served' \in [Prefixes -> Server]
    BY <1>4 DEF ControllerRestart, Nobody, Server
  <2>2. pkt' \in InLookup \cup {NoPacket} /\ PacketRight'
    BY <1>2, <1>4, OvertakenRight DEF ControllerRestart
  <2>3. ServedRight'
    BY <1>4 DEF ControllerRestart, Restart, EmptyLpm, ServedRight, ServedEntry
  <2> QED
    BY <1>1, <2>1, <2>2, <2>3 DEF LookupInv, PacketTypeOK
<1>5. ASSUME UNCHANGED <<vars, served>>  PROVE ServedRight' /\ served' \in [Prefixes -> Server]
  BY <1>2, <1>5 DEF ServedRight, ServedEntry, BlockSet, PacketTypeOK, vars, switchVars
<1>6. ASSUME NEW d \in Dsts, NEW hash \in PacketHashes, NEW back \in BOOLEAN,
             LookUpLpm(d, hash, back)
      PROVE  LookupInv'
  <2>1. pkt' \in InLookup /\ PacketRight'
    BY <1>6, LookUpRight
  <2> QED
    BY <1>1, <1>5, <1>6, <2>1 DEF LookUpLpm, LookupInv, PacketTypeOK
<1>7. CASE Forward
  <2>1. pkt' = NoPacket
    BY <1>7 DEF Forward
  <2>2. PacketRight'
    BY <2>1 DEF PacketRight, NoPacket
  <2> QED
    BY <1>1, <1>5, <1>7, <2>1, <2>2 DEF Forward, LookupInv, PacketTypeOK
<1>8. CASE UNCHANGED lookupVars
  <2>1. UNCHANGED <<vars, served, pkt, cur_nh, prv_nh>>
    BY <1>8 DEF lookupVars, vars, switchVars
  <2>2. PacketRight'
    BY <1>2, <2>1 DEF PacketRight, Slot
  <2> QED
    BY <1>1, <1>2, <1>5, <2>1, <2>2 DEF LookupInv, PacketTypeOK
<1> QED
  BY <1>3, <1>4, <1>6, <1>7, <1>8 DEF LookupNext, PacketStep

LEMMA LookupInitInv == Alone(h0) /\ LookupInit => LookupInv
<1> SUFFICES ASSUME Alone(h0), LookupInit PROVE LookupInv
  OBVIOUS
<1>1. InstallInv
  BY InitType, InitClosed, InitSteady, InitExact DEF InstallInv, LookupInit
<1>2. ServedRight
  BY DEF LookupInit, Init, EmptyLpm, ServedRight, ServedEntry
<1>3. PacketTypeOK /\ PacketRight
  BY DEF LookupInit, PacketTypeOK, PacketRight, Nobody, Server, NoPacket
<1> QED
  BY <1>1, <1>2, <1>3 DEF LookupInv

LEMMA ForwardRight ==
  ASSUME LookupInv, Forward, ~ pkt.overtaken, pkt.promised # {}
  PROVE  Egress # Drop /\ NhAddr \in Meant(pkt.dst, pkt.promised)
<1>1. Slot \in pkt.promised
  BY DEF LookupInv, PacketRight, Forward
<1>2. pkt \in InLookup
  BY DEF LookupInv, PacketTypeOK, Forward, NoPacket
<1>3. Slot \in NhAddrs
  BY <1>1, <1>2 DEF InLookup
<1>4. Slot # Drop /\ Slot # Absent
  BY <1>3, ControllerAssumption
<1>5. neigh \in [NeighAddrs -> NeighPorts \cup {Absent}]
  BY DEF LookupInv, InstallInv, TypeInv, TypeOK, SwitchTypeOK
<1>6. Egress # Drop
  BY <1>4, <1>5, LookupAssumption DEF Egress
<1>7. NhAddr = IF Slot = ZeroAddr THEN pkt.dst ELSE Slot
  BY <1>4 DEF NhAddr
<1> QED
  BY <1>1, <1>6, <1>7 DEF Meant

(* A packet that finds an LPM entry, in whichever phase of an install or a *)
(* clear, is forwarded to a server of the install that wrote the entry: a  *)
(* current one, or if it was sent back a previous one; unless a nexthop    *)
(* table is written between its two lookups.                               *)
THEOREM ForwardsRight ==
  ASSUME NEW h, Handlers = {h}, "delete" \notin Faults
  PROVE  LookupSpec => ForwardedRight
<1>1. Alone(h0)
  BY OneHandler DEF Alone
<1>2. LookupInit => LookupInv
  BY <1>1, LookupInitInv
<1>3. LookupInv /\ [LookupNext]_lookupVars => LookupInv'
  BY <1>1, LookupNextInv
<1>4. LookupInv => (Forward /\ ~ pkt.overtaken /\ pkt.promised # {} =>
        Egress # Drop /\ NhAddr \in Meant(pkt.dst, pkt.promised))
  BY ForwardRight
<1> QED
  BY <1>2, <1>3, <1>4, PTL DEF LookupSpec, ForwardedRight

-----------------------------------------------------------------------------
(***************************************************************************)
(* Servers that no entry of the LPM table leads to.  Where the addresses   *)
(* in the nexthop tables come from depends on how far an install has got:  *)
(* until it has emptied a table, that has what the last install put there. *)
(***************************************************************************)
AddrsIn(nh, S) == \A i \in HashRange : nh[i] \in NhAddrs => nh[i] \in S

PrvAddrs == UNION {Addrs(prv_routes[nh_installer][p]) : p \in Prefixes}
CurAddrs == UNION {Addrs(cur_routes[nh_installer][p]) : p \in Prefixes}
ServedPrv == UNION {served[p].prv : p \in Prefixes}

InstallWrites == Writing \cup {"finish"}

(* The install at work has emptied prv_nh. *)
PrvRenewed ==
  /\ job[h0] = "install"
  /\ \/ pc[h0] \in {"read", "delete"} /\ tab[h0] = "cur_nh"
     \/ pc[h0] \in InstallWrites

(* It has its snapshot, but has yet to empty cur_nh. *)
CurOld ==
  \/ pc[h0] \in {"adds", "dels", "build", "build_cur", "encode"}
  \/ job[h0] = "install" /\ pc[h0] \in {"read", "delete"}

PrvKnown ==
  /\ PrvRenewed => AddrsIn(prv_nh, PrvAddrs)
  /\ ~ PrvRenewed => AddrsIn(prv_nh, ServedPrv)

CurKnown ==
  /\ CurOld => AddrsIn(cur_nh, PrvAddrs)
  /\ ~ CurOld => AddrsIn(cur_nh, CurAddrs)

ToDelete ==
  pc[h0] = "delete" /\ tab[h0] \in {"cur_nh", "prv_nh"} => keys[h0] = Present(tab[h0])

(* What a /clear has emptied has no addresses any more. *)
Emptier ==
  job[h0] = "clear" =>
    /\ \/ pc[h0] \in {"read", "delete"} /\ tab[h0] \in {"prv_nh", "neigh"}
       \/ pc[h0] \in {"drop_prv", "drop_cur", "renew"}
       => AddrsIn(cur_nh, {})
    /\ \/ pc[h0] \in {"read", "delete"} /\ tab[h0] = "neigh"
       \/ pc[h0] \in {"drop_prv", "drop_cur", "renew"}
       => AddrsIn(prv_nh, {})

ListsKnown ==
  /\ pc[h0] = "build_cur" => table[h0].prv_nh = <<>> /\ table[h0].cur_nh = <<>>
  /\ Built => /\ Addrs(table[h0].prv_nh) \subseteq PrvAddrs
              /\ Addrs(table[h0].cur_nh) \subseteq CurAddrs

DropRetried == pc[h0] \in {"drop_prv", "drop_cur"} => call[h0].value \notin NhAddrs

Local == ToDelete /\ Emptier /\ ListsKnown /\ DropRetried

KnownInv == PrvKnown /\ CurKnown /\ Local

(* Slots that get an address of S, or none, leave a table with addresses   *)
(* of S only.                                                              *)
LEMMA WriteIn ==
  ASSUME NEW nh, NEW new, NEW S, AddrsIn(nh, S),
         \A i \in HashRange : new[i] = nh[i] \/ new[i] \notin NhAddrs \/ new[i] \in S
  PROVE  AddrsIn(new, S)
BY DEF AddrsIn

LEMMA NothingIn ==
  ASSUME NEW nh, NEW S, AddrsIn(nh, {})
  PROVE  AddrsIn(nh, S)
BY DEF AddrsIn

LEMMA EmptyIn ==
  ASSUME NEW nh, nh \in [HashRange -> NhActions \cup {Absent}],
         \A i \in HashRange : nh[i] = Absent
  PROVE  AddrsIn(nh, {})
BY ControllerAssumption DEF AddrsIn

(* A step that writes no LPM entry leaves the history alone, unless an     *)
(* install or a clear ends.                                                *)
LEMMA HistoryKept ==
  ASSUME LookupInv, KnownInv, ControllerStep,
         \A p \in Prefixes : ipv4_lpm'[p] \in {ipv4_lpm[p], Absent}
  PROVE  served' = served \/ PrvRenewed \/ AddrsIn(prv_nh, {})
<1>1. CASE pc[h0] = "finish"
  BY <1>1 DEF LookupInv, InstallInv, Exact, JobOK, PrvRenewed, InstallWrites
<1>2. CASE pc[h0] = "renew"
  BY <1>2 DEF LookupInv, InstallInv, Exact, JobOK, KnownInv, Local, Emptier
<1>3. CASE pc[h0] \notin {"finish", "renew"}
  <2>1. served' = ServedBy(table[h0], pc[h0] \in {"finish", "renew"})
    BY DEF ControllerStep
  <2>2. served \in [Prefixes -> Server]
    BY DEF LookupInv, PacketTypeOK
  <2>3. \A p \in Prefixes : served'[p] = served[p]
    BY <1>3, <2>1 DEF ServedBy
  <2>4. h0 \in Handlers
    BY ControllerAssumption DEF h0
  <2>5. served' \in [Prefixes -> Server]
    BY <2>1, <2>4, ServedType DEF LookupInv, InstallInv
  <2> QED
    BY <2>2, <2>3, <2>5
<1> QED
  BY <1>1, <1>2, <1>3

(* A step after which the install has got no further.                      *)
LEMMA TablesKnown ==
  ASSUME KnownInv, UNCHANGED <<prv_routes, cur_routes, nh_installer>>,
         served' = served \/ PrvRenewed \/ AddrsIn(prv_nh, {}),
         PrvRenewed' <=> PrvRenewed, CurOld' <=> CurOld,
         \A i \in HashRange :
           \/ prv_nh'[i] = prv_nh[i] \/ prv_nh'[i] \notin NhAddrs
           \/ PrvRenewed /\ prv_nh'[i] \in PrvAddrs,
         \A i \in HashRange :
           \/ cur_nh'[i] = cur_nh[i] \/ cur_nh'[i] \notin NhAddrs
           \/ ~ CurOld /\ cur_nh'[i] \in CurAddrs
  PROVE  PrvKnown' /\ CurKnown'
<1>1. CurAddrs' = CurAddrs /\ PrvAddrs' = PrvAddrs
  BY DEF CurAddrs, PrvAddrs
<1>2. CurOld => AddrsIn(cur_nh', PrvAddrs)
  BY DEF KnownInv, CurKnown, AddrsIn
<1>3. ~ CurOld => AddrsIn(cur_nh', CurAddrs)
  BY DEF KnownInv, CurKnown, AddrsIn
<1>4. CurKnown'
  BY <1>1, <1>2, <1>3 DEF CurKnown, AddrsIn
<1>5. PrvRenewed => AddrsIn(prv_nh', PrvAddrs)
  BY DEF KnownInv, PrvKnown, AddrsIn
<1>6. ASSUME ~ PrvRenewed PROVE AddrsIn(prv_nh', ServedPrv')
  <2>1. CASE AddrsIn(prv_nh, {})
    BY <1>6, <2>1 DEF AddrsIn
  <2>2. CASE served' = served
    <3>1. ServedPrv' = ServedPrv
      BY <2>2 DEF ServedPrv
    <3>2. AddrsIn(prv_nh', ServedPrv)
      BY <1>6 DEF KnownInv, PrvKnown, AddrsIn
    <3> QED
      BY <3>1, <3>2
  <2> QED
    BY <1>6, <2>1, <2>2
<1>7. PrvKnown'
  BY <1>1, <1>5, <1>6 DEF PrvKnown, AddrsIn
<1> QED
  BY <1>4, <1>7

LEMMA QuietKnown ==
  ASSUME LookupInv, KnownInv, ControllerStep,
         UNCHANGED <<ipv4_lpm, cur_nh, prv_nh, prv_routes, cur_routes, nh_installer>>,
         PrvRenewed' <=> PrvRenewed, CurOld' <=> CurOld
  PROVE  PrvKnown' /\ CurKnown'
<1>1. served' = served \/ PrvRenewed \/ AddrsIn(prv_nh, {})
  BY HistoryKept
<1> QED
  BY <1>1, TablesKnown

LEMMA RequestKnown ==
  ASSUME Alone(h0), LookupInv, KnownInv, ControllerStep, Request
  PROVE  KnownInv'
<1>1. /\ h0 \in Handlers /\ \A g \in Handlers : g = h0
      /\ pc \in [Handlers -> Labels] /\ tab \in [Handlers -> Tables]
      /\ job \in [Handlers -> {"none", "install", "clear", "neigh"}]
  BY DEF Alone, LookupInv, InstallInv, TypeInv, TypeOK, HandlerTypeOK
<1>2. UNCHANGED <<ipv4_lpm, cur_nh, prv_nh, table, nh_installer, cur_routes, prv_routes, keys>>
  BY DEF Request, RestAdd, RestDel, RestInstall, RestClear, RestNeighAdd, RestNeighDel,
         switchVars, handlerVars, ribVars
<1>3. CASE UNCHANGED <<pc, job, self, table, idx, tab, keys, call>>
  <2>1. (PrvRenewed' <=> PrvRenewed) /\ (CurOld' <=> CurOld)
    BY <1>3 DEF PrvRenewed, CurOld
  <2>2. PrvKnown' /\ CurKnown'
    BY <1>2, <2>1, QuietKnown
  <2>3. Local'
    BY <1>2, <1>3 DEF KnownInv, Local, ToDelete, Emptier, ListsKnown, DropRetried, Built,
       AddrsIn, Present, Entries, PrvAddrs, CurAddrs
  <2> QED
    BY <2>2, <2>3 DEF KnownInv
<1>4. ASSUME pc[h0] = "idle",
             \/ pc'[h0] \in {"snapshot", "put_neigh"}
             \/ pc'[h0] = "read" /\ job'[h0] = "clear" /\ tab'[h0] = "ipv4_lpm"
      PROVE  KnownInv'
  <2>1. ~ PrvRenewed /\ ~ PrvRenewed' /\ ~ CurOld /\ ~ CurOld'
    BY <1>4 DEF PrvRenewed, CurOld, InstallWrites, Writing
  <2>2. PrvKnown' /\ CurKnown'
    BY <1>2, <2>1, QuietKnown
  <2>3. Local'
    BY <1>4 DEF Local, ToDelete, Emptier, ListsKnown, DropRetried, Built
  <2> QED
    BY <2>2, <2>3 DEF KnownInv
<1>5. CASE RestInstall(h0) \/ RestClear(h0)
  BY <1>1, <1>4, <1>5 DEF RestInstall, RestClear, StartJob, Goto
<1>6. ASSUME NEW a \in NeighAddrs, NEW action \in NeighPorts, RestNeighAdd(h0, a, action)
      PROVE  KnownInv'
  BY <1>1, <1>4, <1>6 DEF RestNeighAdd, StartJob, Goto
<1>7. (\/ \E r \in Routes : RestAdd(r) \/ RestDel(r)
       \/ \E a \in NeighAddrs : RestNeighDel(a))
      => UNCHANGED <<pc, job, self, table, idx, tab, keys, call>>
  BY DEF RestAdd, RestDel, RestNeighDel, handlerVars
<1> QED
  BY <1>1, <1>3, <1>5, <1>6, <1>7 DEF Request

LEMMA AddrsOfBoth ==
  ASSUME NEW s \in Seq(Nexthops), NEW t \in Seq(Nexthops)
  PROVE  Addrs(s \o t) = Addrs(s) \cup Addrs(t)
<1>1. Range(s \o t) = Range(s) \cup Range(t)
  <2>1. ASSUME NEW x \in Range(s \o t) PROVE x \in Range(s) \cup Range(t)
    <3>1. PICK i \in 1 .. Len(s) + Len(t) : x = (s \o t)[i]
      BY DEF Range
    <3>2. CASE i <= Len(s)
      BY <3>1, <3>2 DEF Range
    <3>3. CASE i > Len(s)
      <4>1. i - Len(s) \in 1 .. Len(t) /\ x = t[i - Len(s)]
        BY <3>1, <3>3
      <4> QED
        BY <4>1 DEF Range
    <3> QED
      BY <3>1, <3>2, <3>3
  <2>2. ASSUME NEW i \in 1 .. Len(s) PROVE s[i] \in Range(s \o t)
    <3>1. i \in DOMAIN (s \o t) /\ (s \o t)[i] = s[i]
      OBVIOUS
    <3> QED
      BY <3>1 DEF Range
  <2>3. ASSUME NEW i \in 1 .. Len(t) PROVE t[i] \in Range(s \o t)
    <3>1. Len(s) + i \in DOMAIN (s \o t) /\ (s \o t)[Len(s) + i] = t[i]
      OBVIOUS
    <3> QED
      BY <3>1 DEF Range
  <2>4. \A x \in Range(s) : \E i \in 1 .. Len(s) : x = s[i]
    BY DEF Range
  <2>5. \A x \in Range(t) : \E i \in 1 .. Len(t) : x = t[i]
    BY DEF Range
  <2> QED
    BY <2>1, <2>2, <2>3, <2>4, <2>5
<1> QED
  BY <1>1 DEF Addrs

LEMMA AddrsOfBlock ==
  ASSUME NEW l \in Seq(Nexthops), Len(l) <= 2^HashBits
  PROVE  Addrs(ExpandNh(l)) = Addrs(l)
<1>1. Range(ExpandNh(l)) = Range(l)
  BY ExpansionRange
<1> QED
  BY <1>1 DEF Addrs

(* do_encode adds the routes of a prefix to the lists.                     *)
LEMMA EncodeKnown ==
  ASSUME Alone(h0), LookupInv, ListsKnown, Encode(h0)
  PROVE  ListsKnown'
<1> DEFINE t == table[h0]  p == PrefixOrder[idx[h0]]
<1>1. /\ pc[h0] = "encode" /\ pc' = pc /\ job' = job
      /\ UNCHANGED <<cur_routes, prv_routes, nh_installer>>
      /\ IF t.prv[p] = <<>> /\ t.cur[p] = <<>> THEN table' = table
         ELSE table' = [table EXCEPT ![h0] = EncodePrefix(t, p)]
      /\ idx[h0] <= Len(PrefixOrder)
  BY DEF Encode, ribVars
<1>2. /\ h0 \in Handlers /\ table \in [Handlers -> ECMPerTables]
      /\ idx[h0] \in Nat \ {0} /\ prv_routes[nh_installer] \in Rib /\ cur_routes[nh_installer] \in Rib
  BY DEF Alone, LookupInv, InstallInv, TypeInv, TypeOK, HandlerTypeOK, RibTypeOK
<1>3. p \in Prefixes
  BY <1>1, <1>2, ControllerAssumption
<1>4. Built /\ (Built' <=> Built)
  BY <1>1 DEF Built, LookupInv, InstallInv, Exact, JobOK
<1>5. t.prv = prv_routes[nh_installer] /\ t.cur = cur_routes[nh_installer]
  BY <1>4 DEF LookupInv, InstallInv, Exact, TableRibs
<1>6. /\ t.prv[p] \in Seq(Nexthops) /\ Len(t.prv[p]) <= 2^HashBits
      /\ t.cur[p] \in Seq(Nexthops) /\ Len(t.cur[p]) <= 2^HashBits
      /\ t.prv_nh \in Seq(Nexthops) /\ t.cur_nh \in Seq(Nexthops)
  BY <1>2, <1>3, RibType DEF ECMPerTables
<1>7. Addrs(t.prv[p]) \subseteq PrvAddrs /\ Addrs(t.cur[p]) \subseteq CurAddrs
  BY <1>3, <1>5 DEF PrvAddrs, CurAddrs
<1>8. PrvAddrs' = PrvAddrs /\ CurAddrs' = CurAddrs
  BY <1>1 DEF PrvAddrs, CurAddrs
<1>9. Addrs(t.prv_nh) \subseteq PrvAddrs /\ Addrs(t.cur_nh) \subseteq CurAddrs
  BY <1>4 DEF ListsKnown
<1>10. CASE table' = table
  BY <1>1, <1>8, <1>9, <1>10 DEF ListsKnown
<1>11. CASE table' = [table EXCEPT ![h0] = EncodePrefix(t, p)]
  <2> DEFINE b == ExpandNh(t.prv[p])  c == ExpandNh(t.cur[p])
  <2>1. b \in Seq(Nexthops) /\ c \in Seq(Nexthops)
    BY <1>6, BlockType
  <2>2. Addrs(b) \subseteq PrvAddrs /\ Addrs(c) \subseteq CurAddrs
    BY <1>6, <1>7, AddrsOfBlock
  <2>3. table'[h0].prv_nh = t.prv_nh \o b /\ table'[h0].cur_nh = t.cur_nh \o c
    BY <1>2, <1>11 DEF EncodePrefix, ECMPerTables
  <2> HIDE DEF b, c, t
  <2>4. Addrs(table'[h0].prv_nh) \subseteq PrvAddrs /\ Addrs(table'[h0].cur_nh) \subseteq CurAddrs
    BY <1>6, <1>9, <2>1, <2>2, <2>3, AddrsOfBoth
  <2> QED
    BY <1>1, <1>8, <2>4 DEF ListsKnown
<1> QED
  BY <1>1, <1>10, <1>11

(* From the snapshot on, the servers in cur_nh are those of prv_routes.    *)
LEMMA MemoryKnown ==
  ASSUME Alone(h0), LookupInv, KnownInv, ControllerStep, MemoryStep(h0)
  PROVE  KnownInv'
<1>0. \/ TakeSnapshot(h0) \/ AddRoute(h0) \/ AddsDone(h0) \/ DelRoute(h0) \/ DelsDone(h0)
      \/ BuildPrv(h0) \/ BuildCur(h0) \/ Encode(h0) \/ EncodeDone(h0)
  BY SteadyMemory DEF LookupInv, InstallInv
<1>1. /\ h0 \in Handlers
      /\ pc \in [Handlers -> Labels] /\ tab \in [Handlers -> Tables]
      /\ table \in [Handlers -> ECMPerTables]
      /\ nh_installer \in Installers /\ prv_routes \in [Installers -> Rib]
  BY DEF Alone, LookupInv, InstallInv, TypeInv, TypeOK, HandlerTypeOK, RibTypeOK
<1>2. /\ UNCHANGED <<ipv4_lpm, cur_nh, prv_nh, nh_installer, job>>
      /\ pc[h0] \in {"snapshot", "adds", "dels", "build", "build_cur", "encode"}
  BY <1>1, MemoryFrame DEF LookupInv, InstallInv, switchVars
<1>3. job[h0] = "install" /\ self[h0] = nh_installer
  BY <1>2 DEF LookupInv, InstallInv, Exact, JobOK, SelfOK
<1>4. \/ pc'[h0] \in {"adds", "dels", "build", "build_cur", "encode"}
      \/ pc'[h0] = "read" /\ tab'[h0] = "ipv4_lpm"
  BY <1>0, <1>1, <1>2 DEF TakeSnapshot, AddRoute, AddsDone, DelRoute, DelsDone, NextRoute,
     BuildPrv, BuildCur, Encode, EncodeDone, Goto
<1>5. ~ PrvRenewed /\ ~ PrvRenewed' /\ CurOld'
  BY <1>2, <1>3, <1>4 DEF PrvRenewed, CurOld, InstallWrites, Writing
<1>6. PrvKnown'
  <2>1. CASE AddrsIn(prv_nh, {})
    BY <1>2, <1>5, <2>1 DEF PrvKnown, AddrsIn
  <2>2. CASE served' = served
    <3>1. ServedPrv' = ServedPrv
      BY <2>2 DEF ServedPrv
    <3> QED
      BY <1>2, <1>5, <3>1 DEF KnownInv, PrvKnown, AddrsIn
  <2>3. served' = served \/ PrvRenewed \/ AddrsIn(prv_nh, {})
    BY <1>2, HistoryKept
  <2> QED
    BY <1>5, <2>1, <2>2, <2>3
<1>7. CurKnown'
  <2>1. CASE TakeSnapshot(h0)
    <3>1. ~ CurOld
      BY <1>3, <2>1 DEF TakeSnapshot, CurOld
    <3>2. prv_routes'[nh_installer] = cur_routes[nh_installer]
      BY <1>1, <1>3, <2>1 DEF TakeSnapshot
    <3>3. PrvAddrs' = CurAddrs
      BY <1>2, <3>2 DEF PrvAddrs, CurAddrs
    <3> QED
      BY <1>2, <1>5, <3>1, <3>3 DEF KnownInv, CurKnown, AddrsIn
  <2>2. CASE ~ TakeSnapshot(h0)
    <3>1. CurOld /\ prv_routes' = prv_routes
      BY <1>0, <2>2 DEF CurOld, AddRoute, AddsDone, DelRoute, DelsDone, NextRoute, BuildPrv,
                  BuildCur, Encode, EncodeDone, ribVars
    <3>2. PrvAddrs' = PrvAddrs
      BY <1>2, <3>1 DEF PrvAddrs
    <3> QED
      BY <1>2, <1>5, <3>1, <3>2 DEF KnownInv, CurKnown, AddrsIn
  <2> QED
    BY <2>1, <2>2
<1>8. ListsKnown'
  <2>1. CASE TakeSnapshot(h0) \/ AddRoute(h0) \/ AddsDone(h0) \/ DelRoute(h0) \/ DelsDone(h0)
    <3>1. pc'[h0] \in {"adds", "dels", "build"}
      BY <1>1, <2>1 DEF TakeSnapshot, AddRoute, AddsDone, DelRoute, DelsDone, NextRoute, Goto
    <3> QED
      BY <3>1 DEF ListsKnown, Built
  <2>2. CASE BuildPrv(h0)
    <3>1. /\ pc'[h0] = "build_cur"
          /\ table'[h0].prv_nh = <<>> /\ table'[h0].cur_nh = <<>>
      BY <1>1, <2>2 DEF BuildPrv, Goto, NoTable
    <3> QED
      BY <3>1 DEF ListsKnown, Built
  <2>3. CASE BuildCur(h0)
    <3>1. pc[h0] = "build_cur" /\ pc'[h0] = "encode"
      BY <1>1, <2>3 DEF BuildCur, Goto
    <3>2. \E cur : table' = [table EXCEPT ![h0].cur = cur]
      BY <2>3 DEF BuildCur
    <3>3. table'[h0].prv_nh = table[h0].prv_nh /\ table'[h0].cur_nh = table[h0].cur_nh
      BY <1>1, <3>2 DEF ECMPerTables
    <3>4. table'[h0].prv_nh = <<>> /\ table'[h0].cur_nh = <<>>
      BY <3>1, <3>3 DEF KnownInv, Local, ListsKnown
    <3>5. Addrs(<<>>) = {}
      BY DEF Addrs, Range
    <3> QED
      BY <3>1, <3>4, <3>5 DEF ListsKnown
  <2>5. CASE EncodeDone(h0)
    <3>1. /\ UNCHANGED <<table, cur_routes, prv_routes>>
          /\ pc[h0] = "encode" /\ pc'[h0] = "read"
      BY <1>1, <2>5 DEF EncodeDone, Goto, ribVars
    <3>2. Addrs(table[h0].prv_nh) \subseteq PrvAddrs /\ Addrs(table[h0].cur_nh) \subseteq CurAddrs
      BY <1>3, <3>1 DEF KnownInv, Local, ListsKnown, Built
    <3>3. PrvAddrs' = PrvAddrs /\ CurAddrs' = CurAddrs
      BY <1>2, <3>1 DEF PrvAddrs, CurAddrs
    <3> QED
      BY <3>1, <3>2, <3>3 DEF ListsKnown
  <2> QED
    BY <1>0, <2>1, <2>2, <2>3, <2>5, EncodeKnown DEF KnownInv, Local
<1>9. ToDelete' /\ Emptier' /\ DropRetried'
  BY <1>2, <1>3, <1>4 DEF ToDelete, Emptier, DropRetried
<1> QED
  BY <1>6, <1>7, <1>8, <1>9 DEF KnownInv, Local

(* do_clear empties prv_nh before cur_nh.                                  *)
LEMMA InstallClears ==
  ASSUME NEW h \in Handlers, tab \in [Handlers -> Tables], pc \in [Handlers -> Labels],
         job[h] = "install", TableCleared(h)
  PROVE  \/ tab[h] = "prv_nh" /\ tab'[h] = "cur_nh" /\ pc'[h] = "read"
         \/ tab[h] = "cur_nh" /\ pc'[h] = "drop_prv"
         \/ tab[h] = "ipv4_lpm" /\ tab'[h] = "prv_nh" /\ pc'[h] = "read"
         \/ tab[h] = "neigh"
<1> DEFINE order == ClearOrder(job[h])
           n == CHOOSE n \in DOMAIN order : order[n] = tab[h]
<1>1. order = <<"ipv4_lpm", "prv_nh", "cur_nh">>
  BY DEF ClearOrder
<1>2. tab[h] \in {"ipv4_lpm", "cur_nh", "prv_nh", "neigh"}
  BY DEF Tables
<1>3. \/ n < Len(order) /\ tab' = [tab EXCEPT ![h] = order[n + 1]] /\ Goto(h, "read")
      \/ ~ (n < Len(order)) /\ tab' = tab /\ Goto(h, "drop_prv")
  BY DEF TableCleared
<1> HIDE DEF order
<1>4. DOMAIN order = 1 .. 3 /\ Len(order) = 3
      /\ order[1] = "ipv4_lpm" /\ order[2] = "prv_nh" /\ order[3] = "cur_nh"
  BY <1>1
<1>5. tab[h] # "neigh" => n \in 1 .. 3 /\ order[n] = tab[h]
  BY <1>2, <1>4
<1> HIDE DEF n
<1>6. tab[h] # "neigh" => n \in {1, 2, 3}
  BY <1>5
<1> QED
  BY <1>3, <1>4, <1>5, <1>6 DEF Goto

LEMMA ClearedIn ==
  ASSUME SwitchTypeOK
  PROVE  /\ Present("prv_nh") = {} => AddrsIn(prv_nh, {})
         /\ Present("cur_nh") = {} => AddrsIn(cur_nh, {})
<1>1. Present("prv_nh") = {} => \A i \in HashRange : prv_nh[i] = Absent
  BY DEF Present, Entries, SwitchTypeOK
<1>2. Present("cur_nh") = {} => \A i \in HashRange : cur_nh[i] = Absent
  BY DEF Present, Entries, SwitchTypeOK
<1> QED
  BY <1>1, <1>2, EmptyIn DEF SwitchTypeOK

(* A table is done with.                                                   *)
LEMMA ClearedKnown ==
  ASSUME Alone(h0), LookupInv, KnownInv, ControllerStep, TableCleared(h0)
  PROVE  KnownInv'
<1>1. /\ h0 \in Handlers /\ SwitchTypeOK
      /\ pc \in [Handlers -> Labels] /\ tab \in [Handlers -> Tables]
  BY DEF Alone, LookupInv, InstallInv, TypeInv, TypeOK, HandlerTypeOK
<1>2. /\ UNCHANGED <<ipv4_lpm, cur_nh, prv_nh, nh_installer, cur_routes, prv_routes>>
      /\ UNCHANGED <<job, table, call>>
      /\ pc[h0] = "delete" /\ keys[h0] = {}
  BY DEF TableCleared, switchVars, ribVars
<1>3. job[h0] \in {"install", "clear"} /\ call[h0] = NoCall
  BY <1>2 DEF LookupInv, InstallInv, Exact, JobOK, Closed, Retried
<1>4. /\ tab[h0] = "prv_nh" => AddrsIn(prv_nh, {})
      /\ tab[h0] = "cur_nh" => AddrsIn(cur_nh, {})
  BY <1>1, <1>2, ClearedIn DEF KnownInv, Local, ToDelete
<1>5. pc'[h0] \in {"read", "drop_prv"}
  BY <1>1, <1>2, ClearedNext DEF LookupInv, InstallInv
<1>6. DropRetried' /\ ToDelete'
  BY <1>2, <1>3, <1>5, ControllerAssumption DEF DropRetried, ToDelete, NoCall
<1>7. ListsKnown'
  <2>1. PrvAddrs' = PrvAddrs /\ CurAddrs' = CurAddrs
    BY <1>2 DEF PrvAddrs, CurAddrs
  <2>2. (Built' => Built) /\ pc'[h0] # "build_cur"
    BY <1>2, <1>5 DEF Built
  <2> QED
    BY <1>2, <2>1, <2>2 DEF KnownInv, Local, ListsKnown
<1>8. CASE job[h0] = "install"
  <2>1. Emptier'
    BY <1>2, <1>8 DEF Emptier
  <2>2. \/ tab[h0] = "prv_nh" /\ tab'[h0] = "cur_nh" /\ pc'[h0] = "read"
        \/ tab[h0] = "cur_nh" /\ pc'[h0] = "drop_prv"
        \/ tab[h0] = "ipv4_lpm" /\ tab'[h0] = "prv_nh" /\ pc'[h0] = "read"
    <3>1. tab[h0] # "neigh"
      BY <1>1, <1>2, <1>8 DEF LookupInv, InstallInv, TypeInv, LocalsOK, ClearOrder
    <3> QED
      BY <1>1, <1>8, <3>1, InstallClears
  <2>3. CASE tab[h0] = "prv_nh" /\ tab'[h0] = "cur_nh" /\ pc'[h0] = "read"
    <3>1. PrvRenewed' /\ CurOld /\ CurOld' /\ PrvAddrs' = PrvAddrs
      BY <1>2, <1>8, <2>3 DEF PrvRenewed, CurOld, PrvAddrs
    <3>2. PrvKnown'
      BY <1>2, <1>4, <2>3, <3>1 DEF PrvKnown, AddrsIn
    <3>3. CurKnown'
      BY <1>2, <3>1 DEF KnownInv, CurKnown, AddrsIn
    <3> QED
      BY <1>6, <1>7, <2>1, <3>2, <3>3 DEF KnownInv, Local
  <2>4. CASE tab[h0] = "cur_nh" /\ pc'[h0] = "drop_prv"
    <3>1. PrvRenewed /\ PrvRenewed' /\ ~ CurOld' /\ PrvAddrs' = PrvAddrs
      BY <1>2, <1>8, <2>4 DEF PrvRenewed, CurOld, PrvAddrs, InstallWrites, Writing
    <3>2. PrvKnown'
      BY <1>2, <3>1 DEF KnownInv, PrvKnown, AddrsIn
    <3>3. CurKnown'
      BY <1>2, <1>4, <2>4, <3>1 DEF CurKnown, AddrsIn
    <3> QED
      BY <1>6, <1>7, <2>1, <3>2, <3>3 DEF KnownInv, Local
  <2>5. CASE tab[h0] = "ipv4_lpm" /\ tab'[h0] = "prv_nh" /\ pc'[h0] = "read"
    <3>1. ~ PrvRenewed /\ ~ PrvRenewed' /\ CurOld /\ CurOld'
      BY <1>2, <1>8, <2>5 DEF PrvRenewed, CurOld, InstallWrites, Writing
    <3>2. PrvKnown' /\ CurKnown'
      BY <1>2, <3>1, QuietKnown
    <3> QED
      BY <1>6, <1>7, <2>1, <3>2 DEF KnownInv, Local
  <2> QED
    BY <2>2, <2>3, <2>4, <2>5
<1>9. CASE job[h0] = "clear"
  <2>1. ~ PrvRenewed /\ ~ PrvRenewed' /\ ~ CurOld /\ ~ CurOld'
    BY <1>2, <1>5, <1>9 DEF PrvRenewed, CurOld
  <2>2. PrvKnown' /\ CurKnown'
    BY <1>2, <2>1, QuietKnown
  <2>3. \/ tab[h0] = "ipv4_lpm" /\ tab'[h0] = "cur_nh" /\ pc'[h0] = "read"
        \/ tab[h0] = "cur_nh" /\ tab'[h0] = "prv_nh" /\ pc'[h0] = "read"
        \/ tab[h0] = "prv_nh" /\ tab'[h0] = "neigh" /\ pc'[h0] = "read"
        \/ tab[h0] = "neigh" /\ pc'[h0] = "drop_prv"
    BY <1>1, <1>9, WipedNext
  <2>4. /\ tab[h0] \in {"prv_nh", "neigh"} => AddrsIn(cur_nh, {})
        /\ tab[h0] = "neigh" => AddrsIn(prv_nh, {})
    BY <1>2, <1>9 DEF KnownInv, Local, Emptier
  <2>5. Emptier'
    <3>1. /\ AddrsIn(cur_nh, {}) => AddrsIn(cur_nh, {})'
          /\ AddrsIn(prv_nh, {}) => AddrsIn(prv_nh, {})'
      BY <1>2 DEF AddrsIn
    <3> QED
      BY <1>4, <2>3, <2>4, <3>1 DEF Emptier
  <2> QED
    BY <1>6, <1>7, <2>2, <2>5 DEF KnownInv, Local
<1> QED
  BY <1>3, <1>8, <1>9

LEMMA DeleteKnown ==
  ASSUME Alone(h0), LookupInv, KnownInv, ControllerStep,
         ReadTable(h0) \/ DeleteEntry(h0) \/ DeleteFails(h0)
  PROVE  KnownInv'
<1>1. /\ h0 \in Handlers /\ SwitchTypeOK /\ tab[h0] \in Tables
      /\ pc \in [Handlers -> Labels] /\ DOMAIN keys = Handlers
      /\ pc[h0] = "delete" => keys[h0] \subseteq Keys(tab[h0])
  BY DEF Alone, LookupInv, InstallInv, TypeInv, TypeOK, HandlerTypeOK, KeysOK
<1>2. /\ UNCHANGED <<nh_installer, cur_routes, prv_routes, job, tab, table>>
      /\ pc[h0] \in {"read", "delete"} /\ pc'[h0] = "delete"
  BY <1>1 DEF ReadTable, DeleteEntry, DeleteFails, ribVars, Goto
<1>3. (PrvRenewed' <=> PrvRenewed) /\ (CurOld' <=> CurOld)
  BY <1>2 DEF PrvRenewed, CurOld, InstallWrites, Writing
<1>4. DropRetried' /\ ListsKnown'
  <2>1. PrvAddrs' = PrvAddrs /\ CurAddrs' = CurAddrs
    BY <1>2 DEF PrvAddrs, CurAddrs
  <2> QED
    BY <1>2, <2>1 DEF DropRetried, KnownInv, Local, ListsKnown, Built
<1>5. ASSUME \A i \in HashRange : cur_nh'[i] \in {cur_nh[i], Absent} /\ prv_nh'[i] \in {prv_nh[i], Absent}
      PROVE  Emptier'
  <2>1. /\ AddrsIn(cur_nh, {}) => AddrsIn(cur_nh, {})'
        /\ AddrsIn(prv_nh, {}) => AddrsIn(prv_nh, {})'
    BY <1>5, ControllerAssumption DEF AddrsIn
  <2> QED
    BY <1>2, <2>1 DEF KnownInv, Local, Emptier
<1>6. ASSUME UNCHANGED switchVars, ToDelete' PROVE KnownInv'
  <2>1. UNCHANGED <<ipv4_lpm, cur_nh, prv_nh>>
    BY <1>6 DEF switchVars
  <2>2. PrvKnown' /\ CurKnown'
    BY <1>2, <1>3, <2>1, QuietKnown
  <2> QED
    BY <1>4, <1>5, <1>6, <2>1, <2>2 DEF KnownInv, Local
<1>7. CASE ReadTable(h0)
  <2>1. UNCHANGED switchVars /\ keys'[h0] = Present(tab[h0])
    BY <1>1, <1>7 DEF ReadTable
  <2>2. ToDelete'
    BY <1>2, <2>1, SwitchKept DEF ToDelete
  <2> QED
    BY <1>6, <2>1, <2>2
<1>8. CASE DeleteFails(h0)
  <2>1. \E k \in keys[h0] : k \notin Present(tab[h0])
    BY <1>8 DEF DeleteFails, Alone
  <2>2. tab[h0] \notin {"cur_nh", "prv_nh"}
    BY <1>8, <2>1 DEF KnownInv, Local, ToDelete, DeleteFails
  <2>3. ToDelete'
    BY <1>2, <2>2 DEF ToDelete
  <2> QED
    BY <1>6, <1>8, <2>3 DEF DeleteFails
<1>9. CASE DeleteEntry(h0)
  <2>1. PICK k \in keys[h0] :
          Write(tab[h0], k, Absent) /\ keys' = [keys EXCEPT ![h0] = @ \ {k}]
    BY <1>9 DEF DeleteEntry
  <2>2. PICK t \in Tables : t = tab[h0]
    BY <1>1
  <2>3. k \in Keys(t) /\ pc[h0] = "delete"
    BY <1>1, <1>9, <2>1, <2>2 DEF DeleteEntry
  <2>4. /\ \A i \in HashRange : cur_nh'[i] \in {cur_nh[i], Absent} /\ prv_nh'[i] \in {prv_nh[i], Absent}
        /\ \A p \in Prefixes : ipv4_lpm'[p] \in {ipv4_lpm[p], Absent}
    BY <1>1, <2>1 DEF Write, SwitchTypeOK
  <2>5. ToDelete'
    <3>1. Present(t)' = Present(t) \ {k}
      BY <1>1, <2>1, <2>2, <2>3, WriteFrame
    <3>2. t \in {"cur_nh", "prv_nh"} => keys[h0] = Present(t)
      BY <2>2, <2>3 DEF KnownInv, Local, ToDelete
    <3>3. keys'[h0] = keys[h0] \ {k}
      BY <1>1, <2>1
    <3>4. tab'[h0] = t
      BY <1>2, <2>2
    <3>5. Present(tab[h0])' = Present(t)'
      BY <3>4 DEF Present, Entries
    <3> QED
      BY <3>1, <3>2, <3>3, <3>4, <3>5 DEF ToDelete
  <2>6. served' = served \/ PrvRenewed \/ AddrsIn(prv_nh, {})
    BY <2>4, HistoryKept
  <2>7. PrvKnown' /\ CurKnown'
    BY <1>2, <1>3, <2>4, <2>6, TablesKnown, ControllerAssumption
  <2> QED
    BY <1>4, <1>5, <2>4, <2>5, <2>7 DEF KnownInv, Local
<1> QED
  BY <1>7, <1>8, <1>9

(* What install_nh_drop_entry and do_install write.                        *)
LEMMA WrittenKnown ==
  ASSUME Alone(h0), LookupInv, KnownInv, ControllerStep,
         pc[h0] \in Writing, NEW t, NEW k, NEW v,
         Write(t, k, v), Proceed(h0, k), After(h0), UNCHANGED ribVars, UNCHANGED job,
         t = "prv_nh" => v \notin NhAddrs \/ (pc[h0] = "put_prv" /\ v \in PrvAddrs),
         t = "cur_nh" => v \notin NhAddrs \/ (pc[h0] = "put_cur" /\ v \in CurAddrs)
  PROVE  KnownInv'
<1>1. h0 \in Handlers /\ SwitchTypeOK /\ pc \in [Handlers -> Labels]
  BY DEF Alone, LookupInv, InstallInv, TypeInv, TypeOK, HandlerTypeOK
<1>2. UNCHANGED <<nh_installer, cur_routes, prv_routes, table, tab>> /\ call'[h0] = NoCall
  BY DEF ribVars, After
<1>3. /\ job[h0] \in {"install", "clear"}
      /\ pc[h0] \in {"put_prv", "put_cur", "put_lpm"} => job[h0] = "install"
  BY DEF LookupInv, InstallInv, Exact, JobOK, Writing
<1>4. \/ pc'[h0] \in Writing
      \/ pc[h0] = "drop_cur" /\ job[h0] = "clear" /\ pc'[h0] = "renew"
  BY <1>1 DEF Proceed, Goto, Writing
<1>5. (PrvRenewed' <=> PrvRenewed) /\ ~ CurOld /\ ~ CurOld' /\ (job[h0] = "install" => PrvRenewed)
  BY <1>4 DEF PrvRenewed, CurOld, InstallWrites, Writing
<1>6. job[h0] = "clear" => AddrsIn(prv_nh, {}) /\ AddrsIn(cur_nh, {})
  BY <1>3 DEF KnownInv, Local, Emptier, Writing
<1>7. \A i \in HashRange :
        /\ prv_nh'[i] = prv_nh[i] \/ (t = "prv_nh" /\ prv_nh'[i] = v)
        /\ cur_nh'[i] = cur_nh[i] \/ (t = "cur_nh" /\ cur_nh'[i] = v)
  BY <1>1 DEF Write, SwitchTypeOK
<1>8. PrvKnown' /\ CurKnown'
  <2>1. \A i \in HashRange :
          \/ prv_nh'[i] = prv_nh[i] \/ prv_nh'[i] \notin NhAddrs
          \/ PrvRenewed /\ prv_nh'[i] \in PrvAddrs
    BY <1>3, <1>5, <1>7
  <2>2. \A i \in HashRange :
          \/ cur_nh'[i] = cur_nh[i] \/ cur_nh'[i] \notin NhAddrs
          \/ ~ CurOld /\ cur_nh'[i] \in CurAddrs
    BY <1>5, <1>7
  <2>3. PrvRenewed \/ AddrsIn(prv_nh, {})
    BY <1>3, <1>5, <1>6
  <2>4. CurOld' <=> CurOld
    BY <1>5
  <2> QED
    BY <1>2, <1>5, <2>1, <2>2, <2>3, <2>4, TablesKnown
<1>9. Emptier'
  <2>1. ASSUME job[h0] = "clear" PROVE AddrsIn(prv_nh, {})' /\ AddrsIn(cur_nh, {})'
    BY <1>3, <1>6, <1>7, <2>1 DEF AddrsIn
  <2> QED
    BY <2>1 DEF Emptier
<1>10. ListsKnown'
  <2>1. PrvAddrs' = PrvAddrs /\ CurAddrs' = CurAddrs
    BY <1>2 DEF PrvAddrs, CurAddrs
  <2>2. (Built' => Built) /\ pc'[h0] # "build_cur"
    BY <1>3, <1>4 DEF Built, Writing
  <2> QED
    BY <1>2, <2>1, <2>2 DEF KnownInv, Local, ListsKnown
<1>11. ToDelete' /\ DropRetried'
  BY <1>2, <1>4, ControllerAssumption DEF ToDelete, DropRetried, NoCall, Writing
<1> QED
  BY <1>8, <1>9, <1>10, <1>11 DEF KnownInv, Local

(* A /clear that is refused a write comes to its end.                      *)
LEMMA AbortKnown ==
  ASSUME Alone(h0), LookupInv, KnownInv, ControllerStep, ~ CutShort,
         pc[h0] \in Writing, Abort(h0), After(h0), UNCHANGED ribVars, UNCHANGED job
  PROVE  KnownInv'
<1>1. h0 \in Handlers /\ pc \in [Handlers -> Labels]
  BY DEF Alone, LookupInv, InstallInv, TypeInv, TypeOK, HandlerTypeOK
<1>2. /\ UNCHANGED <<ipv4_lpm, cur_nh, prv_nh, nh_installer, cur_routes, prv_routes>>
      /\ pc'[h0] = IF job[h0] = "clear" THEN "renew" ELSE "reply"
  BY <1>1 DEF Abort, Goto, ribVars, switchVars
<1>3. job[h0] = "clear" /\ pc'[h0] = "renew"
  BY <1>2 DEF CutShort, LookupInv, InstallInv, Exact, JobOK, Writing
<1>4. ~ PrvRenewed /\ ~ PrvRenewed' /\ ~ CurOld /\ ~ CurOld'
  BY <1>3 DEF PrvRenewed, CurOld, Writing
<1>5. PrvKnown' /\ CurKnown'
  BY <1>2, <1>4, QuietKnown
<1>6. AddrsIn(prv_nh, {})' /\ AddrsIn(cur_nh, {})'
  BY <1>2, <1>3 DEF KnownInv, Local, Emptier, Writing, LookupInv, InstallInv, Exact, JobOK, AddrsIn
<1> QED
  BY <1>3, <1>5, <1>6 DEF KnownInv, Local, Emptier, ToDelete, DropRetried, ListsKnown, Built

LEMMA RefusedKnown ==
  ASSUME LookupInv, KnownInv, ControllerStep, pc[h0] \in Writing, DropRetried',
         UNCHANGED <<ipv4_lpm, cur_nh, prv_nh, pc, table, tab>>, UNCHANGED ribVars, UNCHANGED job
  PROVE  KnownInv'
<1>1. UNCHANGED <<nh_installer, cur_routes, prv_routes>>
  BY DEF ribVars
<1>2. (PrvRenewed' <=> PrvRenewed) /\ (CurOld' <=> CurOld)
  BY DEF PrvRenewed, CurOld
<1>3. PrvKnown' /\ CurKnown'
  BY <1>1, <1>2, QuietKnown
<1>4. PrvAddrs' = PrvAddrs /\ CurAddrs' = CurAddrs
  BY <1>1 DEF PrvAddrs, CurAddrs
<1>5. ListsKnown'
  BY <1>4 DEF KnownInv, Local, ListsKnown, Built
<1>6. Emptier' /\ ToDelete'
  BY DEF KnownInv, Local, Emptier, ToDelete, AddrsIn, Writing
<1> QED
  BY <1>3, <1>5, <1>6 DEF KnownInv, Local

LEMMA AddrOfElement ==
  ASSUME NEW s \in Seq(Nexthops), NEW i \in Nat \ {0}, i <= Len(s)
  PROVE  NhValue(s[i]) \in Addrs(s)
<1>1. i \in DOMAIN s
  OBVIOUS
<1>2. s[i] \in Range(s)
  BY <1>1 DEF Range
<1> QED
  BY <1>2 DEF Addrs

LEMMA ListedKnown ==
  ASSUME h0 \in Handlers, LookupInv, KnownInv
  PROVE  /\ pc[h0] = "put_prv" /\ idx[h0] <= Len(table[h0].prv_nh) =>
              NhValue(table[h0].prv_nh[idx[h0]]) \in PrvAddrs
         /\ pc[h0] = "put_cur" /\ idx[h0] <= Len(table[h0].cur_nh) =>
              NhValue(table[h0].cur_nh[idx[h0]]) \in CurAddrs
<1> DEFINE s == table[h0].prv_nh  t == table[h0].cur_nh
<1>1. /\ s \in Seq(Nexthops) /\ t \in Seq(Nexthops) /\ idx[h0] \in Nat \ {0}
  BY DEF LookupInv, InstallInv, TypeInv, TypeOK, HandlerTypeOK, ECMPerTables
<1>2. pc[h0] \in {"put_prv", "put_cur"} => Addrs(s) \subseteq PrvAddrs /\ Addrs(t) \subseteq CurAddrs
  BY DEF LookupInv, InstallInv, Exact, JobOK, KnownInv, Local, ListsKnown, Built
<1> HIDE DEF s, t
<1>3. idx[h0] <= Len(s) => NhValue(s[idx[h0]]) \in Addrs(s)
  BY <1>1, AddrOfElement
<1>4. idx[h0] <= Len(t) => NhValue(t[idx[h0]]) \in Addrs(t)
  BY <1>1, AddrOfElement
<1> QED
  BY <1>2, <1>3, <1>4 DEF s, t

LEMMA WritesKnown ==
  ASSUME Alone(h0), LookupInv, KnownInv, ControllerStep, ~ CutShort,
         \/ PutDrop(h0) \/ PutPrv(h0) \/ PrvDone(h0) \/ PutCur(h0) \/ CurDone(h0)
         \/ PutLpm(h0) \/ LpmDone(h0)
  PROVE  KnownInv'
<1>1. h0 \in Handlers /\ InstallInv
  BY DEF Alone, LookupInv
<1>2. UNCHANGED ribVars /\ UNCHANGED <<job, table, tab>> /\ pc[h0] \in Writing
  BY DEF PutDrop, PutPrv, PrvDone, PutCur, CurDone, PutLpm, LpmDone, Writing
<1>3. ASSUME Abort(h0), After(h0) PROVE KnownInv'
  BY <1>2, <1>3, AbortKnown
<1>4. ASSUME DropRetried', UNCHANGED <<ipv4_lpm, cur_nh, prv_nh, pc>> PROVE KnownInv'
  BY <1>2, <1>4, RefusedKnown
<1>5. CASE PutDrop(h0)
  <2> DEFINE t == IF pc[h0] = "drop_prv" THEN "prv_nh" ELSE "cur_nh"
  <2>1. Insert(h0, t, 0, Drop) /\ call[h0] = NoCall
    BY <1>5 DEF PutDrop
  <2> HIDE DEF t
  <2>2. CASE Write(t, 0, Drop) /\ Proceed(h0, 0) /\ After(h0)
    BY <1>2, <2>2, WrittenKnown, ControllerAssumption
  <2>3. CASE /\ call'[h0] = [tab |-> t, key |-> 0, value |-> Drop]
             /\ UNCHANGED <<ipv4_lpm, cur_nh, prv_nh, pc, idx, keys>>
    <3>1. DropRetried'
      BY <2>3, ControllerAssumption DEF DropRetried
    <3> QED
      BY <1>4, <2>3, <3>1
  <2> QED
    BY <1>1, <1>2, <1>3, <2>1, <2>2, <2>3, InsertCases
<1>6. CASE PutPrv(h0)
  <2> DEFINE v == NhValue(table[h0].prv_nh[idx[h0]])
  <2>1. /\ Insert(h0, "prv_nh", idx[h0], v) /\ call[h0] = NoCall /\ pc[h0] = "put_prv"
        /\ v \in PrvAddrs
    BY <1>1, <1>6, ListedKnown DEF PutPrv
  <2> HIDE DEF v
  <2>2. CASE Write("prv_nh", idx[h0], v) /\ Proceed(h0, idx[h0]) /\ After(h0)
    BY <1>2, <2>1, <2>2, WrittenKnown
  <2>3. CASE UNCHANGED <<ipv4_lpm, cur_nh, prv_nh, pc, idx, keys>>
    BY <1>4, <2>1, <2>3 DEF DropRetried
  <2> QED
    BY <1>1, <1>2, <1>3, <2>1, <2>2, <2>3, InsertCases
<1>7. CASE PutCur(h0)
  <2> DEFINE v == NhValue(table[h0].cur_nh[idx[h0]])
  <2>1. /\ Insert(h0, "cur_nh", idx[h0], v) /\ call[h0] = NoCall /\ pc[h0] = "put_cur"
        /\ v \in CurAddrs
    BY <1>1, <1>7, ListedKnown DEF PutCur
  <2> HIDE DEF v
  <2>2. CASE Write("cur_nh", idx[h0], v) /\ Proceed(h0, idx[h0]) /\ After(h0)
    BY <1>2, <2>1, <2>2, WrittenKnown
  <2>3. CASE UNCHANGED <<ipv4_lpm, cur_nh, prv_nh, pc, idx, keys>>
    BY <1>4, <2>1, <2>3 DEF DropRetried
  <2> QED
    BY <1>1, <1>2, <1>3, <2>1, <2>2, <2>3, InsertCases
<1>8. CASE PutLpm(h0)
  <2>1. pc[h0] = "put_lpm" /\ call[h0] = NoCall
    BY <1>8 DEF PutLpm
  <2>2. PICK p \in keys[h0] : Insert(h0, "ipv4_lpm", p, table[h0].lpm[p])
    BY <1>8 DEF PutLpm
  <2>3. CASE Write("ipv4_lpm", p, table[h0].lpm[p]) /\ Proceed(h0, p) /\ After(h0)
    BY <1>2, <2>3, WrittenKnown
  <2>4. CASE UNCHANGED <<ipv4_lpm, cur_nh, prv_nh, pc, idx, keys>>
    BY <1>4, <2>1, <2>4 DEF DropRetried
  <2> QED
    BY <1>1, <1>2, <1>3, <2>1, <2>2, <2>3, <2>4, InsertCases
<1>9. CASE PrvDone(h0) \/ CurDone(h0) \/ LpmDone(h0)
  <2>1. /\ UNCHANGED <<ipv4_lpm, cur_nh, prv_nh, nh_installer, cur_routes, prv_routes>>
        /\ pc[h0] \in {"put_prv", "put_cur", "put_lpm"}
        /\ pc'[h0] \in {"put_cur", "put_lpm", "finish"}
    <3>1. pc \in [Handlers -> Labels]
      BY <1>1 DEF InstallInv, TypeInv, TypeOK, HandlerTypeOK
    <3> QED
      BY <1>1, <1>9, <3>1 DEF PrvDone, CurDone, LpmDone, Goto, ribVars, switchVars
  <2>2. job[h0] = "install"
    BY <1>1, <2>1 DEF InstallInv, Exact, JobOK
  <2>3. PrvRenewed /\ PrvRenewed' /\ ~ CurOld /\ ~ CurOld'
    BY <1>2, <2>1, <2>2 DEF PrvRenewed, CurOld, InstallWrites, Writing
  <2>4. PrvKnown' /\ CurKnown'
    BY <2>1, <2>3, QuietKnown
  <2>5. PrvAddrs' = PrvAddrs /\ CurAddrs' = CurAddrs
    BY <2>1 DEF PrvAddrs, CurAddrs
  <2>6. Local'
    BY <1>2, <2>1, <2>2, <2>5
    DEF KnownInv, Local, ToDelete, Emptier, ListsKnown, Built, DropRetried
  <2> QED
    BY <2>4, <2>6 DEF KnownInv
<1> QED
  BY <1>5, <1>6, <1>7, <1>8, <1>9

LEMMA CallKnown ==
  ASSUME Alone(h0), LookupInv, KnownInv, ControllerStep, ~ CutShort, Modify(h0)
  PROVE  KnownInv'
<1> DEFINE t == call[h0].tab  k == call[h0].key  v == call[h0].value
<1>1. h0 \in Handlers /\ InstallInv /\ call \in [Handlers -> Calls]
  BY DEF Alone, LookupInv, InstallInv, TypeInv, TypeOK, HandlerTypeOK
<1>2. /\ UNCHANGED ribVars /\ UNCHANGED <<job, table, tab>> /\ After(h0)
      /\ call[h0] # NoCall /\ pc[h0] # "put_neigh"
  BY <1>1 DEF Modify, After
<1>3. \/ pc[h0] \in {"drop_prv", "drop_cur"}
      \/ pc[h0] = "put_prv" /\ t = "prv_nh" /\ idx[h0] <= Len(table[h0].prv_nh)
      \/ pc[h0] = "put_cur" /\ t = "cur_nh" /\ idx[h0] <= Len(table[h0].cur_nh)
      \/ pc[h0] = "put_lpm" /\ t = "ipv4_lpm"
  BY <1>1, <1>2 DEF InstallInv, Closed, Retried
<1>4. /\ pc[h0] = "put_prv" => v = NhValue(table[h0].prv_nh[idx[h0]])
      /\ pc[h0] = "put_cur" => v = NhValue(table[h0].cur_nh[idx[h0]])
      /\ pc[h0] \in {"drop_prv", "drop_cur"} => v \notin NhAddrs
  BY <1>1, <1>2 DEF InstallInv, Exact, RetriedRight, KnownInv, Local, DropRetried
<1>5. (Write(t, k, v) /\ Proceed(h0, k)) \/ Abort(h0)
  BY DEF Modify
<1> HIDE DEF t, k, v
<1>6. /\ t = "prv_nh" => v \notin NhAddrs \/ (pc[h0] = "put_prv" /\ v \in PrvAddrs)
      /\ t = "cur_nh" => v \notin NhAddrs \/ (pc[h0] = "put_cur" /\ v \in CurAddrs)
  BY <1>1, <1>3, <1>4, ListedKnown
<1>7. pc[h0] \in Writing
  BY <1>3 DEF Writing
<1> QED
  BY <1>2, <1>5, <1>6, <1>7, AbortKnown, WrittenKnown

(* When an /install ends, the history has the servers of its prv_routes.   *)
LEMMA FinishKnown ==
  ASSUME Alone(h0), LookupInv, KnownInv, ControllerStep, Finish(h0)
  PROVE  KnownInv'
<1>1. /\ h0 \in Handlers /\ pc \in [Handlers -> Labels] /\ InstallInv
      /\ ipv4_lpm \in [Prefixes -> LpmParams \cup {Absent}]
  BY DEF Alone, LookupInv, InstallInv, TypeInv, TypeOK, HandlerTypeOK, SwitchTypeOK
<1>2. /\ UNCHANGED <<ipv4_lpm, cur_nh, prv_nh, nh_installer, cur_routes, prv_routes, job, tab>>
      /\ pc[h0] = "finish" /\ pc'[h0] = "reply"
  BY <1>1 DEF Finish, Goto, switchVars
<1>3. job[h0] = "install" /\ self[h0] = nh_installer
  BY <1>1, <1>2 DEF InstallInv, Exact, JobOK, SelfOK
<1>4. PrvRenewed /\ ~ PrvRenewed' /\ ~ CurOld /\ ~ CurOld'
  BY <1>2, <1>3 DEF PrvRenewed, CurOld, InstallWrites, Writing
<1>5. CurKnown'
  <2>1. CurAddrs' = CurAddrs
    BY <1>2 DEF CurAddrs
  <2> QED
    BY <1>2, <1>4, <2>1 DEF KnownInv, CurKnown, AddrsIn
<1>6. ASSUME NEW p \in Prefixes
      PROVE  Addrs(prv_routes[nh_installer][p]) \subseteq served'[p].prv
  <2> DEFINE l == prv_routes[nh_installer][p]
  <2>1. Offers(p, l, cur_routes[nh_installer][p])
    BY <1>2, <1>3, DeployedRight, <1>1
  <2>2. CASE ipv4_lpm[p] = Absent
    <3>1. l = <<>>
      BY <2>1, <2>2 DEF Offers
    <3>2. Addrs(<<>>) = {}
      BY DEF Addrs, Range
    <3> QED
      BY <3>1, <3>2
  <2>3. CASE ipv4_lpm[p] # Absent
    <3>1. BlockSet(prv_nh, ipv4_lpm[p].prv_offset, ipv4_lpm[p].prv_count) = Addrs(l)
      BY <2>1, <2>3 DEF Offers
    <3>2. BlockSet(prv_nh, ipv4_lpm[p].prv_offset, ipv4_lpm[p].prv_count) = served[p].prv
      BY <2>3 DEF LookupInv, ServedRight, ServedEntry
    <3>3. served'[p] = served[p]
      BY <1>2, <2>3 DEF ControllerStep, ServedBy
    <3> QED
      BY <3>1, <3>2, <3>3
  <2> QED
    BY <2>2, <2>3
<1>7. PrvAddrs \subseteq ServedPrv'
  BY <1>6 DEF PrvAddrs, ServedPrv
<1>8. PrvKnown'
  BY <1>2, <1>4, <1>7 DEF KnownInv, PrvKnown, AddrsIn
<1>9. Local'
  BY <1>2, <1>3 DEF Local, ToDelete, Emptier, ListsKnown, Built, DropRetried
<1> QED
  BY <1>5, <1>8, <1>9 DEF KnownInv

LEMMA EndKnown ==
  ASSUME Alone(h0), LookupInv, KnownInv, ControllerStep,
         PutNeigh(h0) \/ Renew(h0) \/ Reply(h0)
  PROVE  KnownInv'
<1>1. /\ h0 \in Handlers /\ pc \in [Handlers -> Labels] /\ InstallInv
      /\ job \in [Handlers -> {"none", "install", "clear", "neigh"}]
      /\ neigh \in [NeighAddrs -> NeighPorts \cup {Absent}]
  BY DEF Alone, LookupInv, InstallInv, TypeInv, TypeOK, HandlerTypeOK, SwitchTypeOK
<1>2. UNCHANGED <<ipv4_lpm, cur_nh, prv_nh>>
  BY DEF PutNeigh, Renew, Reply, Write, Abort, switchVars
<1>3. pc[h0] \in {"put_neigh", "renew", "reply"} /\ pc'[h0] \in {"idle", "reply"}
  <2>1. CASE PutNeigh(h0)
    <3>1. pc[h0] = "put_neigh" /\ job[h0] = "neigh"
      BY <1>1, <2>1 DEF PutNeigh, InstallInv, Exact, JobOK
    <3>2. pc' = [pc EXCEPT ![h0] = "reply"]
      BY <2>1, <3>1 DEF PutNeigh, Abort, Proceed, Goto
    <3> QED
      BY <1>1, <3>1, <3>2
  <2>2. CASE Renew(h0) \/ Reply(h0)
    BY <1>1, <2>2 DEF Renew, Reply, Goto
  <2> QED
    BY <2>1, <2>2
<1>4. ~ PrvRenewed /\ ~ PrvRenewed' /\ ~ CurOld /\ ~ CurOld'
  BY <1>3 DEF PrvRenewed, CurOld, InstallWrites, Writing
<1>5. Local'
  BY <1>3 DEF Local, ToDelete, Emptier, ListsKnown, Built, DropRetried
<1>6. CASE Renew(h0)
  <2>1. AddrsIn(prv_nh, {}) /\ AddrsIn(cur_nh, {})
    BY <1>1, <1>6 DEF Renew, InstallInv, Exact, JobOK, KnownInv, Local, Emptier
  <2>2. PrvKnown' /\ CurKnown'
    BY <1>2, <1>4, <2>1 DEF PrvKnown, CurKnown, AddrsIn
  <2> QED
    BY <1>5, <2>2 DEF KnownInv
<1>7. CASE PutNeigh(h0) \/ Reply(h0)
  <2>1. UNCHANGED <<nh_installer, cur_routes, prv_routes>>
    BY <1>7 DEF PutNeigh, Reply, ribVars
  <2>2. PrvKnown' /\ CurKnown'
    BY <1>2, <1>4, <2>1, QuietKnown
  <2> QED
    BY <1>5, <2>2 DEF KnownInv
<1> QED
  BY <1>6, <1>7

LEMMA StartKnown ==
  ASSUME ipv4_lpm = EmptyLpm, cur_nh = OnlyDrop, prv_nh = OnlyDrop, h0 \in Handlers,
         pc = [h \in Handlers |-> "idle"], job = [h \in Handlers |-> "none"]
  PROVE  KnownInv
<1>1. AddrsIn(OnlyDrop, {})
  BY ControllerAssumption DEF AddrsIn, OnlyDrop
<1>2. PrvKnown /\ CurKnown
  BY <1>1, NothingIn DEF PrvKnown, CurKnown
<1>3. pc[h0] = "idle" /\ job[h0] = "none"
  OBVIOUS
<1> QED
  BY <1>2, <1>3 DEF KnownInv, Local, ToDelete, Emptier, ListsKnown, Built, DropRetried

LEMMA RestartKnown ==
  ASSUME Alone(h0), ControllerRestart
  PROVE  KnownInv'
<1>1. AddrsIn(OnlyDrop, {})
  BY ControllerAssumption DEF AddrsIn, OnlyDrop
<1>2. /\ cur_nh' = OnlyDrop /\ prv_nh' = OnlyDrop /\ pc'[h0] = "idle" /\ job'[h0] = "none"
  BY DEF ControllerRestart, Restart, Alone
<1>3. PrvKnown' /\ CurKnown'
  BY <1>1, <1>2 DEF PrvKnown, CurKnown, AddrsIn
<1> QED
  BY <1>2, <1>3 DEF KnownInv, Local, ToDelete, Emptier, ListsKnown, Built, DropRetried

LEMMA KnownNext ==
  ASSUME Alone(h0), LookupInv, KnownInv, [LookupNext]_lookupVars, [~ CutShort]_vars
  PROVE  KnownInv'
<1>1. CASE UNCHANGED vars /\ UNCHANGED served
  BY <1>1 DEF vars, switchVars, ribVars, handlerVars, KnownInv, PrvKnown, CurKnown, Local,
     PrvRenewed, CurOld, PrvAddrs, CurAddrs, ServedPrv, AddrsIn, ToDelete, Emptier, ListsKnown,
     Built, DropRetried, Present, Entries
<1>2. ASSUME ControllerStep, ~ CutShort PROVE KnownInv'
  BY <1>2, RequestKnown, MemoryKnown, ClearedKnown, DeleteKnown, WritesKnown, CallKnown,
     FinishKnown, EndKnown DEF ControllerStep, HandlerStep, MemoryStep
<1>3. CASE ControllerRestart
  BY <1>3, RestartKnown
<1>4. ControllerStep /\ UNCHANGED vars => KnownInv' \/ ~ CutShort
  BY DEF CutShort, vars, handlerVars, Writing
<1> QED
  BY <1>1, <1>2, <1>3, <1>4 DEF LookupNext, PacketStep, LookUpLpm, Forward, lookupVars

LEMMA SlotKnown ==
  ASSUME LookupInv, KnownInv, Forward, Slot \in NhAddrs
  PROVE  Slot \in KnownAddrs
<1>1. pkt.index \in HashRange
  BY DEF LookupInv, PacketTypeOK, Forward, InLookup, NoPacket
<1>2. Slot \in PrvAddrs \cup CurAddrs \cup ServedPrv
  BY <1>1 DEF Slot, KnownInv, PrvKnown, CurKnown, AddrsIn
<1> QED
  BY <1>2 DEF KnownAddrs, PrvAddrs, CurAddrs, ServedPrv

(* No packet, overtaken or without an LPM entry, reaches a server that     *)
(* neither RIB of the controller names, and that no LPM entry stands for,  *)
(* or stood for when the request at work was taken: a route that was       *)
(* deleted two installs ago has left the nexthop tables, unless an install *)
(* was cut short on the way.                                               *)
THEOREM ReachesKnown ==
  ASSUME NEW h, Handlers = {h}, "delete" \notin Faults
  PROVE  LookupSpec /\ [][~ CutShort]_vars => OnlyKnownServers
<1>1. Alone(h0)
  BY OneHandler DEF Alone
<1>2. LookupInit => LookupInv /\ KnownInv
  BY <1>1, LookupInitInv, StartKnown DEF LookupInit, Init, Alone
<1>3. LookupInv /\ KnownInv /\ [LookupNext]_lookupVars /\ [~ CutShort]_vars
        => LookupInv' /\ KnownInv'
  BY <1>1, LookupNextInv, KnownNext
<1>4. LookupInv /\ KnownInv => (Forward /\ Slot \in NhAddrs => Slot \in KnownAddrs)
  BY SlotKnown
<1> QED
  BY <1>2, <1>3, <1>4, PTL DEF LookupSpec, OnlyKnownServers
=============================================================================
