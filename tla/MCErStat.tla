------------------------------- MODULE MCErStat -------------------------------
(* Instances of ErStat for TLC: a frame that is sent back, one of a known  *)
(* connection, and one that is cut short.                                  *)
EXTENDS ErStat

CONSTANT p1

Stray == [len |-> 60, h_proto |-> 8, protocol |-> 6, ihl |-> 5,
          syn |-> FALSE, tos |-> 0, sock |-> "none"]
Owned == [Stray EXCEPT !.len = 54, !.sock = "conn"]
Runt == [Stray EXCEPT !.len = 53]

TwoFrames == {Stray, Runt}
AllFrames == {Stray, Owned, Runt}

(* The sum of the bytes is about to wrap around. *)
AlmostFull == {[i \in 0 .. 3 |-> IF i \in {0, 2} THEN 3 ELSE 120]}

Clearing2 == [zero_clear |-> TRUE, interval |-> 1000, timeout |-> 1000, nr_cpus |-> 2]
Clearing1 == [Clearing2 EXCEPT !.nr_cpus = 1]
Watching == [Clearing2 EXCEPT !.zero_clear = FALSE, !.timeout = 1500]
ClearOrWatch == {Clearing1, Watching}
JustClear == {Clearing2}
=============================================================================
