------------------------------- MODULE MCBlocks -------------------------------
(***************************************************************************)
(* Blocks of both kinds, and the mask that reads them.                     *)
(***************************************************************************)
EXTENDS ConsistentHash, SlotMask
=============================================================================
