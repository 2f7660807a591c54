------------------------------- MODULE MCLookup -------------------------------
(* An instance of Lookup for TLC: servers behind the VIP's prefix, a       *)
(* shorter, connected prefix that the VIP matches too, and a destination   *)
(* that no prefix covers.                                                  *)
EXTENDS Lookup

CONSTANTS p1, p2, s1, s2, port1, vip, stranger

TwoPrefixes == <<p1, p2>>

Matches == [d \in {vip, stranger} |-> IF d = vip THEN <<p1, p2>> ELSE <<>>]

OneServer == {[prefix |-> p1, nexthop |-> s1], [prefix |-> p2, nexthop |-> Connected]}
TwoServers == OneServer \cup {[prefix |-> p1, nexthop |-> s2]}

AllButNeigh == {"add", "del", "install", "clear"}
NoFaults == {}

(* Three bounds: the routes that are requested; the order in which entries *)
(* of a nexthop table are deleted, from the first on; and the time between *)
(* two lookups of a packet, which no answer to a request falls into.       *)
Bounded ==
  /\ \A i \in Installers : Range(add_queue'[i]) \cup Range(del_queue'[i]) \subseteq TwoServers
  /\ pc[h0] = "delete" /\ tab[h0] \in {"cur_nh", "prv_nh"} =>
       \A k \in keys[h0] \ keys'[h0], l \in keys'[h0] : k < l
  /\ pc[h0] = "reply" => pkt = NoPacket

BoundedNext == (ControllerStep /\ Bounded) \/ ControllerRestart \/ PacketStep

BoundedSpec == LookupInit /\ [][BoundedNext]_lookupVars
=============================================================================
