---------------------------- MODULE MCController ----------------------------
(* Instances of Controller for TLC. *)
EXTENDS Controller, TLC

CONSTANTS p1, s1, s2, bad, a1, port1

OnePrefix == <<p1>>

HandlerSymmetry == Permutations(Handlers)

RouteRequests == {"add", "del", "install"}
NoDelRequests == {"add", "install", "clear"}
AllButNeigh == RouteRequests \cup {"clear"}
AllRequests == AllButNeigh \cup {"neigh"}

NoFaults == {}
WriteFaults == {"write"}
=============================================================================
