-------------------------------- MODULE ErStat --------------------------------
(***************************************************************************)
(* xdp/er-stat.c: processes that clear the counters of the XDP program,    *)
(* sample them twice an interval apart, and show the difference.           *)
(*                                                                         *)
(* The kernel copies an element of the array CPU by CPU, and nothing stops *)
(* the XDP program meanwhile: one action reads or writes one value.        *)
(***************************************************************************)
EXTENDS XdpCounters

CONSTANTS
  Procs,       \* er-stat processes
  Options,     \* records: zero_clear; interval and timeout in ms (0: none);
               \* and nr_cpus, the size of the affinity mask
  Garbage      \* what the stack holds behind the array value[nr_cpus]

ASSUME StatAssumption ==
  /\ Options \subseteq [zero_clear : BOOLEAN, interval : Nat, timeout : Nat,
                        nr_cpus : 1 .. NrPossibleCpus]
  /\ Garbage \subseteq Word

VARIABLES
  phase, at,   \* where a process is, and the cell it is at
  args,        \* its options; the timeout is counted down
  sums,        \* its samples "b" and "a", summed over CPUs for each map
  mark,        \* history: stored when its samples began and ended
  torn,        \* history: processes whose samples another one cleared
  clears       \* history: what went wrong with a clear, see Noting

statVars == <<phase, at, args, sums, mark, torn, clears>>
vars == <<xdpVars, statVars>>

Redirected == {RedirectedPkts, RedirectedBytes}

Zero == [m \in Maps |-> [i \in Counters |-> 0]]

Sampling == {"before", "after", "show"}

Init ==
  /\ XdpInit
  /\ phase = [p \in Procs |-> "off"]
  /\ at = [p \in Procs |-> 0]
  /\ args \in [Procs -> Options]
  /\ sums = [p \in Procs |-> [before |-> Zero, after |-> Zero]]
  /\ mark = [p \in Procs |-> <<>>]
  /\ torn = {}
  /\ clears = {}

(* Maps in the order of the command line, the four counters of each, and   *)
(* the CPUs of each counter.                                               *)
LastCell == NrMaps * 4 * NrPossibleCpus - 1
MapAt(k) == k \div (4 * NrPossibleCpus) + 1
IdxAt(k) == (k \div NrPossibleCpus) % 4
CpuAt(k) == k % NrPossibleCpus

NextCell(p, then) ==
  IF at[p] < LastCell
  THEN at' = [at EXCEPT ![p] = @ + 1] /\ UNCHANGED phase
  ELSE at' = [at EXCEPT ![p] = 0] /\ phase' = [phase EXCEPT ![p] = then]

(* What the CPUs a process adds up have stored. *)
SumOf(v, n) == LET sum[k \in 0 .. n] == IF k = 0 THEN 0 ELSE sum[k - 1] + v[k - 1]
               IN  sum[n]

Total(p, m, i) == SumOf(stored[m][i], args[p].nr_cpus)

Totals(p) == [m \in Maps |-> [i \in Redirected |-> Total(p, m, i)]]

-----------------------------------------------------------------------------
(* "overlapped": a frame was being counted meanwhile; "lost": a value was  *)
(* cleared between load and store of the program; "overrun": values of     *)
(* CPUs from nr_cpus on were written.                                      *)
Noting(mishap, cond) == clears \cup (IF cond THEN {mishap} ELSE {})

(* main: with -z, zero_clear_maps comes first. *)
Start(p) ==
  /\ phase[p] = "off"
  /\ phase' = [phase EXCEPT ![p] = IF args[p].zero_clear THEN "clear" ELSE "before"]
  /\ clears' = Noting("overlapped", args[p].zero_clear /\ \E c \in Cpus : Busy(c))
  /\ UNCHANGED <<xdpVars, at, args, sums, mark, torn>>

(* zero_clear_map has values for nr_cpus CPUs, the kernel takes one for    *)
(* each possible CPU.                                                      *)
Cleared(p, c) == IF c < args[p].nr_cpus THEN {0} ELSE Garbage

Pending(m, i, c) ==
  loaded[c] # NotLoaded /\ Head(todo[c]).map = m /\ Head(todo[c]).idx = i

ClearCell(p) ==
  /\ phase[p] = "clear"
  /\ LET m == MapAt(at[p])  i == IdxAt(at[p])  c == CpuAt(at[p])
     IN /\ \E v \in Cleared(p, c) : counter' = [counter EXCEPT ![m][i][c] = v]
        /\ stored' = [stored EXCEPT ![m][i][c] = 0]
        /\ clears' = Noting("overrun", c >= args[p].nr_cpus) \cup Noting("lost", Pending(m, i, c))
  /\ NextCell(p, "before")
  /\ torn' = torn \cup {q \in Procs \ {p} : phase[q] \in Sampling}
  /\ UNCHANGED <<todo, loaded, frames, args, sums, mark>>

(* get_stat: the values of CPUs from nr_cpus on are copied and left alone. *)
(* What was received is in sample "b", too, but show_stat does not use it. *)
Added(p, s) ==
  LET m == MapAt(at[p])  i == IdxAt(at[p])  c == CpuAt(at[p])
  IN IF c < args[p].nr_cpus /\ (s = "after" \/ i \in Redirected)
     THEN [sums EXCEPT ![p][s][m][i] = Wrap(@ + counter[m][i][c])]
     ELSE sums

ReadCell(p, s, then) ==
  /\ phase[p] = s
  /\ sums' = Added(p, s)
  /\ NextCell(p, then)
  /\ mark' = IF at[p] \in {0, LastCell} THEN [mark EXCEPT ![p] = Append(@, Totals(p))] ELSE mark
  /\ UNCHANGED <<xdpVars, args, torn, clears>>

Read(p) == ReadCell(p, "before", "after") \/ ReadCell(p, "after", "show")

(* Mutant of Delta: converted to double before the subtraction. *)
DeltaOfDoubles(vb, va) == va - vb

(* delta, without the division by the time that passed. *)
Delta(vb, va) == Wrap(va - vb)

Rate(p, m, i) == Delta(sums[p].before[m][i], sums[p].after[m][i])

(* Mutant of Show: the timeout is compared, and not counted down. *)
ShowKeepsTimeout(p) ==
  /\ phase[p] = "show"
  /\ LET last == args[p].timeout > 0 /\ args[p].timeout <= args[p].interval
     IN phase' = [phase EXCEPT ![p] = IF last THEN "done" ELSE "before"]
  /\ sums' = [sums EXCEPT ![p] = [before |-> Zero, after |-> Zero]]
  /\ mark' = [mark EXCEPT ![p] = <<>>]
  /\ torn' = torn \ {p}
  /\ UNCHANGED <<xdpVars, at, args, clears>>

(* The end of the loop of show_stat, and memset for the next samples. *)
Show(p) ==
  /\ phase[p] = "show"
  /\ LET last == args[p].timeout > 0 /\ args[p].timeout <= args[p].interval
     IN /\ phase' = [phase EXCEPT ![p] = IF last THEN "done" ELSE "before"]
        /\ args' = IF args[p].timeout > 0 /\ ~ last
                   THEN [args EXCEPT ![p].timeout = @ - args[p].interval]
                   ELSE args
  /\ sums' = [sums EXCEPT ![p] = [before |-> Zero, after |-> Zero]]
  /\ mark' = [mark EXCEPT ![p] = <<>>]
  /\ torn' = torn \ {p}
  /\ UNCHANGED <<xdpVars, at, clears>>

(* bpf_lookup_elem or bpf_update_elem fails. *)
Fail(p) ==
  /\ phase[p] \in {"clear", "before", "after"} /\ CpuAt(at[p]) = 0
  /\ phase' = [phase EXCEPT ![p] = "done"]
  /\ UNCHANGED <<xdpVars, at, args, sums, mark, torn, clears>>

Runs(p) == ClearCell(p) \/ Read(p) \/ Show(p)

Clearing == \E p \in Procs : phase[p] = "clear"

(* The program on all CPUs.  Only a clear can come between load and store  *)
(* of a value that belongs to one CPU, so they are one step otherwise.     *)
Xdp ==
  /\ \E c \in Cpus : \/ Add(c) \/ Store(c)
                     \/ Clearing /\ Load(c)
                     \/ \E m \in Maps, f \in Frames : Receive(c, m, f)
  /\ clears' = Noting("overlapped", Clearing /\ frames' # frames)
  /\ UNCHANGED <<phase, at, args, sums, mark, torn>>

Next == Xdp \/ \E p \in Procs : Start(p) \/ Runs(p) \/ Fail(p)

Spec == Init /\ [][Next]_vars

(* The scheduler runs a process that was started. *)
FairSpec == Spec /\ \A p \in Procs : WF_vars(Runs(p))

-----------------------------------------------------------------------------
(***************************************************************************)
(* Properties.                                                             *)
(***************************************************************************)
(* What show_stat prints as redirected was redirected between its samples: *)
(* at least what was counted from the end of the first to the beginning of *)
(* the second, at most what was from the beginning of the first to the end *)
(* of the second.  This holds although samples are no snapshots, counters  *)
(* wrap around, and some were overwritten before; not if another process   *)
(* clears in between, or a clear was lost to the XDP program.  More than   *)
(* an unsigned long holds cannot be told from the rest of the division.    *)
RateWithinTraffic ==
  \A p \in Procs : phase[p] = "show" /\ p \notin torn /\ "lost" \notin clears =>
    \A m \in Maps, i \in Redirected :
      LET most == mark[p][4][m][i] - mark[p][1][m][i] IN
      /\ Rate(p, m, i) <= most
      /\ most < 2^WordBits => mark[p][3][m][i] - mark[p][2][m][i] <= Rate(p, m, i)

(* The counts that are shown never have more frames or bytes redirected    *)
(* than received: the program counts a frame as received first, er-stat    *)
(* reads what was redirected first.  Clears may break it.                  *)
RedirectedWithinReceived ==
  \A p \in Procs : phase[p] = "show" /\ p \notin torn /\ clears = {} =>
    \A m \in Maps, i \in Redirected :
      Total(p, m, i + 2) < 2^WordBits => sums[p].after[m][i] <= sums[p].after[m][i + 2]

(* With a timeout the process ends, whatever traffic there is; but not if  *)
(* the interval is less than a millisecond, which main cuts to 0.          *)
Ends ==
  \A p \in Procs :
    phase[p] # "off" /\ args[p].timeout > 0 /\ args[p].interval > 0 ~> phase[p] = "done"

(* The usage text: -z sets the counters to 0 when starting.  When clearing *)
(* is over, they hold no more than what was counted since each was set.    *)
ClearZeroes ==
  [][\A p \in Procs : phase[p] = "clear" /\ phase'[p] = "before" =>
       \A m \in Maps, i \in Counters, c \in Cpus : counter'[m][i][c] <= stored'[m][i][c]]_vars
=============================================================================
