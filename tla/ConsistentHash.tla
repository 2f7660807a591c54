---------------------------- MODULE ConsistentHash ----------------------------
(***************************************************************************)
(* _expand_nh_with_chash, which takes the place of _expand_nh when the     *)
(* controller runs with chash: each nexthop gets virtual nodes at buckets  *)
(* of a table, and a bucket belongs to the next virtual node above it.     *)
(*                                                                         *)
(* md5, and md5 of md5 if a bucket is taken, choose the buckets: any free  *)
(* bucket may come out, and one does at last.                              *)
(***************************************************************************)
EXTENDS NexthopList, FiniteSetsExt

CONSTANTS
  MinBuckets,   \* 256
  MaxHashed     \* bound: the longest list that is expanded this way

VARIABLES
  stage,   \* "listing", then "placing" in populate, then "populated"
  owner    \* hash_to_node; hnodes is its domain

chVars == <<nh, stage, owner>>

ChInit == Init /\ stage = "listing" /\ owner = <<>>

(* "while m < n: m <<= 1", from m = MinBuckets *)
Buckets(n) == Min({m \in PowersOfTwo : m >= n /\ m >= MinBuckets})

(* 16 bits count the buckets, and BMv2's hashes reach the last of them. *)
ASSUME BucketsAssumption ==
  /\ MinBuckets \in PowersOfTwo
  /\ MaxHashed \in 0 .. 2^HashBits
  /\ Buckets(MaxHashed) < 2^HashBits

(* Mutant of NrVirtual: one node too many for the table. *)
NrVirtualAll(n) == Buckets(n) + 1

NrVirtual(n) == (Buckets(n) * 95) \div 100

(* Mutant of NhNodes: not raised to the number of nexthops. *)
NhNodesAsGiven(n) == NrVirtual(n)

NhNodes(n) == IF NrVirtual(n) < n THEN n ELSE NrVirtual(n)

List(n) ==
  /\ stage = "listing"
  /\ AppendNexthop(n)
  /\ UNCHANGED <<stage, owner>>

(* A list of less than two is left as it is. *)
Populate ==
  /\ stage = "listing" /\ Len(nh) \in 2 .. MaxHashed
  /\ stage' = "placing"
  /\ UNCHANGED <<nh, owner>>

Placed == Cardinality(DOMAIN owner)

(* The nodes take turns until nhnodes are placed. *)
Place ==
  /\ stage = "placing" /\ Placed # NhNodes(Len(nh))
  /\ \E v \in 0 .. Buckets(Len(nh)) - 1 :
       /\ v \notin DOMAIN owner
       /\ owner' = [w \in DOMAIN owner \cup {v} |->
                      IF w = v THEN nh[(Placed % Len(nh)) + 1] ELSE owner[w]]
  /\ UNCHANGED <<nh, stage>>

PlacingDone ==
  /\ stage = "placing" /\ Placed = NhNodes(Len(nh))
  /\ stage' = "populated"
  /\ UNCHANGED <<nh, owner>>

ChNext == (\E n \in Nexthops : List(n)) \/ Populate \/ Place \/ PlacingDone

ChSpec == ChInit /\ [][ChNext]_chVars

(* populate runs in the thread of the request. *)
ChFairSpec == ChSpec /\ WF_chVars(Place \/ PlacingDone)

(* The bucket list: up to each hnode its owner, behind the last one the    *)
(* owner of the first.                                                     *)
Bucket ==
  [x \in 0 .. Buckets(Len(nh)) - 1 |->
     LET above == {v \in DOMAIN owner : v > x}
     IN owner[Min(IF above = {} THEN DOMAIN owner ELSE above)]]

(* Wherever the hash puts its virtual nodes, each nexthop has a slot for   *)
(* each of them: at least an even share of what populate places, so that   *)
(* none is left without traffic.  The mask reaches all of the block.       *)
NoStarvation ==
  stage = "populated" =>
    /\ \A x \in DOMAIN nh :
         Cardinality({b \in DOMAIN Bucket : Bucket[b] = nh[x]})
           >= Max({1, NhNodes(Len(nh)) \div Len(nh)})
    /\ {Bucket[Masked(hash, Buckets(Len(nh)))] : hash \in Bmv2Hashes} = Range(nh)

(* populate ends: there is a free bucket for each virtual node. *)
Populates == stage = "placing" ~> stage = "populated"
=============================================================================
