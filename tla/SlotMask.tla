------------------------------- MODULE SlotMask -------------------------------
(***************************************************************************)
(* The slot that the P4 program picks from a block of the controller, with *)
(* the bitwise operators of the source.  For TLC only: those operators are *)
(* recursive.                                                              *)
(***************************************************************************)
EXTENDS NexthopList, Bitwise

CountMinusOne(count) == (count + 2^HashBits - 1) % 2^HashBits

SlotOf(hash, count) == hash & CountMinusOne(count)

(* For every block the controller builds, and for the empty one, the mask  *)
(* of the P4 program picks the slot that a remainder would pick.           *)
MaskIsRemainder ==
  \A hash \in Bmv2Hashes : SlotOf(hash, Len(BlockOfList)) = Masked(hash, Len(BlockOfList))
=============================================================================
