---------------------------- MODULE MCEcmperSystem ----------------------------
(* Instances of EcmperSystem for TLC.  The flow belongs to the second slot *)
(* of a block of two servers, and an index that lacks its offset hits a    *)
(* slot of some block.                                                     *)
EXTENDS EcmperSystem

CONSTANTS s1, s2, f1

SmallHash == [f \in {f1} |-> 1]

(* What ecmper-config-adddel.sh makes of two servers: the flow moves from  *)
(* one to the other with each update.                                      *)
GrowAndShrink == {<<s1>>, <<s1, s2>>}
=============================================================================
