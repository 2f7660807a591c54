----------------------------- MODULE NexthopList -----------------------------
(***************************************************************************)
(* An LPM entry of the controller while append_cur_nexthop fills it, and   *)
(* what flows find in the block that _expand_nh makes of the list.         *)
(***************************************************************************)
EXTENDS NhExpansion, FiniteSets, Functions

CONSTANT Nexthops

VARIABLE nh       \* cur_nh of an ECMPerLpmEntry

(* The size of a block is a value of 16 bits in the P4 program. *)
ASSUME ExpansionFits ==
  /\ IsFiniteSet(Nexthops)
  /\ Cardinality(Nexthops) < 2^HashBits
  /\ BlockSize(Cardinality(Nexthops)) < 2^HashBits

Init == nh = <<>>

(* Without overlapping installs a RIB holds no route twice, so neither     *)
(* does the list of a prefix.                                              *)
AppendNexthop(n) ==
  /\ n \notin Range(nh)
  /\ nh' = Append(nh, n)

-----------------------------------------------------------------------------
(* BMv2's hash extern never returns its maximum: "range of hash calc       *)
(* result is [base, base+max-1] inclusive".                                *)
Bmv2Hashes == 0 .. 2^HashBits - 2

BlockOfList == ExpandNh(nh)

(* Some flow reaches each nexthop of the list, and every flow one of them. *)
EveryNexthopReached ==
  LET block == BlockOfList
  IN nh # <<>> =>
       {block[Masked(hash, Len(block)) + 1] : hash \in Bmv2Hashes} = Range(nh)

(* No nexthop gets more than one slot more than another, and the excess is *)
(* at most a fourth of its share: what the "m <<= 2" of _expand_nh is for. *)
FairShares ==
  LET block == BlockOfList
      slots == [n \in Range(nh) |-> Cardinality({x \in DOMAIN block : block[x] = n})]
  IN \A a, b \in Range(nh) :
       slots[a] <= slots[b] + 1 /\ 4 * (slots[a] - slots[b]) <= slots[b]
=============================================================================
