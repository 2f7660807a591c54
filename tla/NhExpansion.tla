----------------------------- MODULE NhExpansion -----------------------------
(***************************************************************************)
(* ECMPerLpmEntry._expand_nh of tools/c4bmv2.py: the list of nexthops of a *)
(* prefix is repeated until it fills a block of the nexthop table whose    *)
(* size is a power of two, because the P4 program reduces a flow's hash to *)
(* a slot of the block with the bit mask count - 1.                        *)
(***************************************************************************)
EXTENDS Integers, Sequences

CONSTANT HashBits      \* width of ecmper_hash (hash_t), 16 in the P4 program

ASSUME HashBitsAssumption == HashBits \in Nat

(* TLC evaluates this fact of arithmetic; the provers have no theory of ^. *)
ASSUME PowersAssumption == \A k \in 0 .. HashBits : 2^k \in Nat \ {0}

HashRange == 0 .. 2^HashBits - 1

PowersOfTwo == {2^k : k \in 0 .. HashBits}

(* "while m < n: m <<= 1", from m = 1. *)
LeastPowerOfTwo(n) ==
  CHOOSE m \in PowersOfTwo : m >= n /\ \A k \in PowersOfTwo : k >= n => m <= k

(* Mutants of BlockSize: not rounded to a power of two; not multiplied;    *)
(* two nexthops taken for one.                                             *)
BlockSizeUnrounded(n) == IF n = 1 THEN 1 ELSE 4 * n
BlockSizeTight(n) == LeastPowerOfTwo(n)
BlockSizeOneForTwo(n) == IF n <= 2 THEN 1 ELSE 4 * LeastPowerOfTwo(n)

(* A single nexthop keeps one slot; an ECMP route gets "m <<= 2". *)
BlockSize(n) == IF n = 1 THEN 1 ELSE 4 * LeastPowerOfTwo(n)

(* nh[x % n] for x in range(m); an empty list, which stands for a prefix   *)
(* that is missing from one of the two generations, stays empty.           *)
ExpandNh(nh) ==
  IF nh = <<>> THEN nh
  ELSE [x \in 1 .. BlockSize(Len(nh)) |-> nh[((x - 1) % Len(nh)) + 1]]

(***************************************************************************)
(* The mask of p4src/ecmper.p4, hash & (count - 1).  On 16 bits count - 1  *)
(* wraps to all ones for count = 0, and for a power of two the mask is a   *)
(* remainder; SlotMask checks that against the bitwise form of the source. *)
(***************************************************************************)
Masked(hash, count) == IF count = 0 THEN hash ELSE hash % count
=============================================================================
