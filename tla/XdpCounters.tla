------------------------------ MODULE XdpCounters ------------------------------
(***************************************************************************)
(* The CPUs of a server that run the XDP program, and redirect_counter,    *)
(* the per-CPU array in which it counts.  Each interface has its own copy  *)
(* of the program and of the array ("no pin").                             *)
(*                                                                         *)
(* A CPU handles one frame after the other, but "*value += ..." is a load, *)
(* an addition and a store, between which er-stat may write the array.     *)
(***************************************************************************)
EXTENDS XdpRedirect, Sequences

CONSTANTS
  NrPossibleCpus,  \* the number of CPUs that the array has values for
  NrMaps,          \* arrays, one for each interface
  Frames,          \* frames that may arrive
  WordBits,        \* width of unsigned long
  Before,          \* values that the four counters may have come to
  MaxFrames        \* bound: frames that arrive

Cpus == 0 .. NrPossibleCpus - 1
Maps == 1 .. NrMaps
Word == 0 .. 2^WordBits - 1
Wrap(n) == n % 2^WordBits

RedirectedPkts == 0
RedirectedBytes == 1
ReceivedPkts == 2
ReceivedBytes == 3
Counters == RedirectedPkts .. ReceivedBytes

ASSUME CountersAssumption ==
  /\ NrPossibleCpus \in Nat \ {0} /\ NrMaps \in Nat \ {0}
  /\ WordBits \in Nat /\ 2^WordBits \in Nat \ {0}
  /\ Before \subseteq [Counters -> Word]
  /\ \A f \in Frames : f.len \in Nat /\ f.sock \in Sockets /\ Verdict(f) \in XdpActions
  /\ MaxFrames \in Nat

VARIABLES
  counter,   \* the arrays: counter[map][index][cpu]
  todo,      \* per CPU: what the program still has to add for its frame
  loaded,    \* per CPU: the value it has loaded, or NotLoaded
  stored,    \* history: the sums of what was added, in place of counter
  frames     \* number of frames so far

xdpVars == <<counter, todo, loaded, stored, frames>>

NotLoaded == -1

Everywhere(v) == [m \in Maps |-> [i \in Counters |-> [c \in Cpus |-> v[i]]]]

XdpInit ==
  /\ \E v \in Before : counter = Everywhere(v) /\ stored = Everywhere(v)
  /\ todo = [c \in Cpus |-> <<>>]
  /\ loaded = [c \in Cpus |-> NotLoaded]
  /\ frames = 0

UpdateReceived(m, f) == <<[map |-> m, idx |-> ReceivedPkts, add |-> 1],
                          [map |-> m, idx |-> ReceivedBytes, add |-> f.len]>>

UpdateRedirected(m, f) == <<[map |-> m, idx |-> RedirectedPkts, add |-> 1],
                            [map |-> m, idx |-> RedirectedBytes, add |-> f.len]>>

(* Mutant of Updates: the redirected frame is counted as it is rewritten. *)
UpdatesRedirectedFirst(m, f) ==
  (IF Verdict(f) = "tx" THEN UpdateRedirected(m, f) ELSE <<>>) \o UpdateReceived(m, f)

Updates(m, f) ==
  UpdateReceived(m, f) \o (IF Verdict(f) = "tx" THEN UpdateRedirected(m, f) ELSE <<>>)

Busy(c) == todo[c] # <<>>

Receive(c, m, f) ==
  /\ ~ Busy(c) /\ frames < MaxFrames
  /\ todo' = [todo EXCEPT ![c] = Updates(m, f)]
  /\ frames' = frames + 1
  /\ UNCHANGED <<counter, loaded, stored>>

Increase(c, value) ==
  LET u == Head(todo[c])
  IN /\ counter' = [counter EXCEPT ![u.map][u.idx][c] = Wrap(value + u.add)]
     /\ stored' = [stored EXCEPT ![u.map][u.idx][c] = @ + u.add]
     /\ todo' = [todo EXCEPT ![c] = Tail(@)]
     /\ UNCHANGED frames

(* Load and store with nothing in between. *)
Add(c) ==
  /\ Busy(c) /\ loaded[c] = NotLoaded
  /\ Increase(c, counter[Head(todo[c]).map][Head(todo[c]).idx][c])
  /\ UNCHANGED loaded

Load(c) ==
  /\ Busy(c) /\ loaded[c] = NotLoaded
  /\ loaded' = [loaded EXCEPT ![c] = counter[Head(todo[c]).map][Head(todo[c]).idx][c]]
  /\ UNCHANGED <<counter, todo, stored, frames>>

Store(c) ==
  /\ loaded[c] # NotLoaded
  /\ Increase(c, loaded[c])
  /\ loaded' = [loaded EXCEPT ![c] = NotLoaded]
=============================================================================
