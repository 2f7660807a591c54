# Verification of ECMP-ER

TLA+ models of the ECMP-ER demonstration in this repository, the TLC runs that
check them and the theorems that TLAPS proves about them. Paths and lines are
those of the repository.

## 1. The system

ECMP-ER is a layer 4 load balancer in a router. Clients connect to a virtual
address (VIP); the router hashes a flow to one of several servers. When servers
are added or removed, the slots of flows move. The router keeps the **previous**
nexthops next to the **current** ones: a server that gets a TCP packet it does not know sends it back
with ToS 0x01, and the router sends a packet with that mark by the previous
nexthops, to the server that has the connection.

```
 operator --REST--> c4bmv2.py --P4Runtime--> tables of the router
                                                 |
 client ------------ packets --------------> ecmper.p4 ----> server: XDP, then TCP
                                                 ^                |
                                                 +-- ToS 0x01 ----+
```

| component | state | operations | modelled in |
|---|---|---|---|
| controller `tools/c4bmv2.py` | `add_queue`, `del_queue`, `cur_routes`, `prv_routes`, the global `nh_installer`, locals of the request threads | `/add`, `/del`, `/install`, `/clear`, `/neigh/add`, `/neigh/del`, start | `Controller` |
| nexthop expansion (`_expand_nh`) and mask (`ecmper.p4:126-157`) | none | list to block; hash to slot | `NhExpansion`, `NexthopList`, `SlotMask` |
| consistent hashing (`SimpleConsistentHash`, option chash) | buckets with a virtual node | populate | `ConsistentHash` |
| tables of the switch | `ipv4_lpm`, `cur_nh`, `prv_nh`, `neigh` | insert, modify, delete, read | `Controller` |
| data plane `p4src/ecmper.p4` | packets and their metadata | lookups, slot, TTL | `Lookup` (next to the controller), `EcmperSystem` (next to hosts, on the tables as `Generations` abstracts them) |
| XDP program `xdp/redirect.c` | counters per CPU | pass, drop or send back; ToS and checksum; counting | `XdpRedirect`, `XdpCounters`, `Checksum`, `EcmperSystem` |
| `xdp/er-stat.c` | two samples, the rest of the timeout | clear, sample, show | `ErStat` |
| TCP of clients and servers, nginx | sockets | external: what decides between an answer and a reset | `EcmperSystem` |
| ipsl.py, scripts, vendored headers | | | not modelled, see section 8 |

What interacts how: Flask serves each REST request in a thread of its own
(`HOWTO-ECMPER-DEMO.md` shows Werkzeug 2.2.2, threaded by default), the threads
share the `NextHopInstaller` and the switch, and nothing is locked. An
`/install` is a long sequence of P4Runtime calls; packets pass all the while.
Packets, in turn, are lost, repeated and overtaken, and servers start
listening. On a server, the XDP program runs on every CPU while `er-stat`
reads and clears its counters through system calls; nothing is locked there
either.

What makes each part correct:

* *controller*: an `/install` deploys exactly what was queued, and its previous
  blocks are the current ones of before; no moment of it shows traffic a slot
  that does not forward; a failure leaves something that can be described; a
  `/clear` clears; every request is answered.
* *expansion and mask*: a slot is always in the block, each nexthop is reached, and
  the shares are even.
* *consistent hashing*: populate ends, and no nexthop is left without a bucket.
* *lookups next to the controller*: a packet is forwarded by one generation, and
  never by one that is long gone.
* *counters and er-stat*: what is shown is traffic of the time between two
  samples, and consistent; a watch with a timeout ends.
* *data plane and XDP together*: a connection survives one update; a reset has
  a known cause; no packet circulates for ever; a header that is rewritten
  stays acceptable.

## 2. Modules

| module | what it is |
|---|---|
| `NhExpansion` | `_expand_nh` and the mask as operators |
| `NexthopList` | an LPM entry while its list is filled, and what flows find in its block |
| `SlotMask` | the mask in bitwise form (TLC only) |
| `Controller` | the controller and the tables it writes |
| `RouteLoops` | the queue loops of `process_routes` at the grain of thread switches |
| `Generations` | abstract: what the controller promises the data plane |
| `ControllerRefinement` | the mapping of `Controller` to `Generations` |
| `Lookup` | `Controller` and a packet whose lookups fall between its steps |
| `ConsistentHash` | `populate`, on the list of `NexthopList` |
| `XdpRedirect` | the verdict of `redirect.c` for a frame |
| `XdpCounters` | the CPUs of a server and the counters they add to |
| `ErStat` | processes of `er-stat` next to `XdpCounters` |
| `EcmperSystem` | `Generations`, data plane, XDP program, TCP: connections |
| `Checksum` | `xfrm_for_retransmit` |
| `MCBlocks` | `ConsistentHash` and `SlotMask` together |
| `MCController`, `MCLookup`, `MCEcmperSystem`, `MCErStat` | values for the constants |
| `NhExpansionProofs`, `ConsistentHashProofs` | theorems about the blocks of both kinds |
| `ControllerProofs`, `RouteLoopsProofs` | theorems about the controller |
| `LookupProofs` | theorems about packets next to the controller |
| `EcmperSystemProofs`, `ChecksumProofs`, `ErStatProofs` | theorems about the connections, the checksum and er-stat |

Operators described as *mutants* next to a definition are wrong variants of it.
Each stands for a plausible bug, and with the variant in place a property of
the runs fails: it shows that the property depends on that code.

### Controller

A thread that serves `/install`, `/clear` or `/neigh/add` is a *handler*, with a
`pc` and its locals; `/add`, `/del` and `/neigh/del` are single actions. The
actions follow the source in order:

| `pc` | actions | `c4bmv2.py` |
|---|---|---|
| `snapshot`, `adds`, `dels` | `TakeSnapshot`, `AddRoute`, `AddsDone`, `DelRoute`, `DelsDone`, and `AddRouteShifted`, `DelRouteShifted`, `RemoveFails` | 805-813 |
| `build`, `build_cur`, `encode` | `BuildPrv`, `BuildCur`, `Encode`, `EncodeDone` | 816-825, 682-730 |
| `read`, `delete` | `ReadTable`, `DeleteEntry`, `DeleteFails`, `TableCleared` | 66-83, 756-760, 861 |
| `drop_prv`, `drop_cur` | `PutDrop` | 479-482 |
| `put_prv`, `put_cur`, `put_lpm` | `PutPrv`, `PutCur`, `PutLpm`, each followed by its `...Done` | 732-752 |
| any of these six and `put_neigh` | `Insert` within them, then `Modify`; `Abort` | 95-111, 922-924 |
| `finish`, `renew`, `reply` | `Finish`, `Renew`, `Reply` | 846-848, 976 |

Points where Python's semantics matter and the model follows it: a loop over a
queue also reaches what is appended while it runs, as long as the queue is
still the same list (`Loops`, `SeenBy`); `Finish` binds new lists; `/install`
works on the installer of the moment it began, which a `/clear` may replace
(`Held`, `Renew`); `clear_table` swallows the first exception and leaves the
rest of that table; `add_entry` tries `modify` after any failure of `insert`;
deleting an entry that another thread has deleted is such a failure.
Threads also switch within an iteration over `cur_routes`, since `Route.__eq__` is
Python code. An iteration is one step all the same, with two sets of outcomes: if no
other handler has changed the list since the iteration began, those of `AddRoute`,
`DelRoute` and `BuildCur`; otherwise (`shifted`, set by `Shifts`) whatever a test on an old list,
a deletion by an old index, or a scan of a changing list may lead to: an append or none, the
loss of any route, a `ValueError`, any lists in the `ECMPerTable`. `overlapped` has the
installers to which such an iteration appended.

Abstractions: a (prefix, length) pair is one value; RIB lists are kept per
prefix, which is all `do_encode` reads of them (their order within a prefix is
kept); one iteration of a queue loop is one step, and so is each loop that fills the
`ECMPerTable` (`RouteLoops` has what an iteration consists of); a P4Runtime call is
atomic; the order in which the LPM entries of one `/install` are written is left open.
`enable_debug`, in which nothing is installed, is left out, and so is chash, whose blocks `ConsistentHash` checks on their own.

### RouteLoops

`route in cur_routes` and `cur_routes.remove(route)` scan the list and call
`Route.__eq__` for each element. That is Python code, in which the interpreter may
switch threads; `list.remove` then deletes by the index it has reached. So a scan
takes one step per element (`ReadItem`, which reads the length anew), `at` and
`item` are what it keeps, and the append or the deletion is a step of its own.
`RemoveFails` is the `ValueError` of a remove that finds nothing any more;
`Finish` also covers an install that the switch refuses, which keeps the queues.
The flat list of the code is not split by prefix, `alone` is a history variable.
Requests are queued while no install runs: those of other moments are in
`Controller`, and so is `/clear`.

`AsAtomic` is why `Controller` may give one outcome to an iteration that is not disturbed:
for an install that no other overlaps, nothing else can be seen. For installs that do overlap,
`Controller` leaves the outcome open, and this module has the orders that lead to it.
`RemoveFailsOverlapped` says what the test `if route in self.cur_routes` is good for: without
an overlap `remove` finds its route.

### Generations and its refinement

`Generations` has, per prefix, a current and a previous block, the set of prefixes in
service, and a flag for an update that is not complete. Its steps are to withdraw a
prefix, to advance (the previous block becomes what was current), to offer a prefix, to
complete, and to reset. `ControllerRefinement` reads the blocks of a prefix in
service from the switch's tables, through offset and count like a packet, and
those of a withdrawn prefix from the RIBs. `Controller => Generations` is a
property of the run `lookup`. It holds only for one handler and
without failing writes; section 4 says what happens otherwise.

### Lookup

Adds to `Controller` one packet at a time, which is enough because packets leave
nothing behind. `LookUpLpm` is `ipv4_lpm.apply()` and the index (longest prefix
first, metadata 0 without an entry, 16-bit addition of the offset), `Forward` is
the nexthop table and all that follows from `nh_addr`: the packet's own
destination for 0.0.0.0, port 0 for a missing neighbor, the drop flag that
`SwitchIngress` obeys at the end. Any number of P4Runtime calls may fall between
the two, and any number of requests; `MCLookup` bounds them for TLC. The history variable `served` has the servers for which an LPM entry was
written, per prefix, and `promised` what they were when the packet found the entry.

### ConsistentHash

`Place` is one turn of the `for` loop of `populate`. md5, and md5 of the digest
until a bucket is free, is any free bucket; that a free bucket comes out at last
is assumed of md5. `Bucket` is the list that is filled from the sorted virtual
nodes. It takes the variable `nh`, the list, from `NexthopList`.

### XdpRedirect, XdpCounters and ErStat

A frame is a record of what `prog` looks at. `Verdict` has the tests in the order of
the code: cut short, not IPv4, not TCP, socket. `XdpCounters` has a CPU receive a
frame and then make the two or four additions of `update_received_counter` and
`update_redirected_counter`, each of which is a load and a store. Only a clear can
come between load and store of a value, since a value belongs to one CPU, so that
they are apart only while a process clears (`Xdp`). In `ErStat` one action reads or
writes the value of one CPU: that is the order in which the kernel copies them,
and nothing stops the program meanwhile. `Cleared` has what lies behind the array
`value[nr_cpus]` for the CPUs that are not in the affinity mask. History: `stored`,
what was added; `mark`, what `stored` was when samples began and ended; `torn` and
`clears`, what clears have disturbed.

### EcmperSystem

Uses `Generations` for the router's tables and these actions of a packet: `LookUp`
(the LPM entry, from which the packet takes the block it is to be looked up in),
`Forward` (the nexthop table, any number of updates later: in a table that was
rewritten meanwhile the index finds a slot of any block that the pools allow, or none),
`RouteAstray` (no LPM entry, or a block of count 0: the index
is the hash itself plus the offset, and may hit a slot of some block), `SendBack` (XDP_TX),
`KernelSyn`, `KernelData`; and the client's steps. The history variable `gen`
counts updates, and a socket remembers the generation of the lookup that led
its SYN to it (`Birth`); both exist for the properties only. The TTL is
decremented as by `set_output`; a packet at TTL 0 is not looked up. Data packets
may carry the mark from the start (`ClientTos`), as those of a client that uses
ECN do.

External, from how the repository uses it: Linux TCP (a listener answers a SYN
and resets other packets; a socket that has not sent the SYN-ACK the client
took resets its data), `bpf_skc_lookup_tcp`, links that lose and reorder.
The kernel's own replies are assumed to reach the client.

### Checksum

Words as a little endian host loads them. `Init` has every checksum, with a
rest of the header that makes it right. Only the Tofino program verifies header
checksums (`parser_tna.p4:65-68`); the BMv2 program does not, and computes a new
one (`ecmper_bmv2.p4:70-73`), so that what the property is about concerns Tofino
routers, and any other that checks.

## 3. What the passing runs show

| run | bounds | shows |
|---|---|---|
| `blocks` | up to 5 nexthops, 6-bit hashes: blocks of 1, 8, 16, 32 slots; consistent hashing of 2 to 4 nexthops into 2 or 4 buckets | `MaskIsRemainder`, `EveryNexthopReached`, `FairShares`, `NoStarvation`, `Populates` |
| `ctl_rejected` | any write may fail; two servers and a nexthop that is no address; nexthop tables of 8 entries, which the block of 8 slots for two servers and the drop entry fill before their end; requests queued at any time | `LpmClosed`, `Answered` |
| `ctl_concurrent` | 2 handlers that install at the same time, one prefix and nexthop, tables of 2 entries, up to two routes in a list | `TypeOK`, `DropAtZero` |
| `routes` | 2 handlers, 3 routes, 3 of them listed when one is queued, queues of 1 | `AsAtomic`, `RemoveFailsOverlapped`, `Answered` |
| `lookup` | 1 handler, 2 prefixes that share the tables, 2 nexthops of one and a connected route of the other, a destination behind both prefixes and one behind none, hash 1 of 4 bits | `Deployed`, `ClearEmpties`, `InstallDeploysQueued`, `Refinement`, `ForwardedRight`, `OnlyKnownServers` |
| `sys` | 2 servers, 1 flow, the pools of the demo, 3 updates, 2 packets under way, with or without the mark, TTL 2, hash 1 | `TypeOK`, `Affinity`, `ResetExplained`, `Drains` |
| `checksum` | all 65536 checksums, ToS 0, 1, 2 and 16 | `OneBadChecksum` |
| `stat` | 2 CPUs, 1 interface, 2 frames of three kinds, 8-bit counters close to their end, 1 process: it clears with an affinity mask of 1, or watches for two rounds | `RateWithinTraffic`, `RedirectedWithinReceived`, `Ends` |

Why these bounds are enough: the interesting numbers of generations are those
before, at and after the one previous generation that is kept, so three updates;
a flow needs two packets to overtake each other and to repeat a SYN across an
update; flows do not interact in the data plane, so one is enough; two servers
give a right and a wrong one, and block sizes do not matter to a single flow
beyond its slot (`Forward` lets a packet that was overtaken find any slot). The flow's slot of `<<s1>>` and that of `<<s1, s2>>` have different
servers, so that updates move it or leave it as one pool follows the other or
itself. `SmallHash` lies inside of blocks, so that a bare
hash may hit one. In `routes`, a
route before and one behind the route in question make the indices shift; `MaxRoutes`
lets the list grow to that while overlaps may lengthen it further. For the controller, one prefix suffices
where the order of calls matters, two where offsets do. A request mutates a
queue of length one at a time: `MaxQueue` bounds how many routes are queued for
one install, which the demo scripts also keep at one. TTL 2 allows one passage,
one that was sent back, and then it is sent back to the router once more, which
does not look it up.

In `lookup`, hash 1 makes the bare index 1, which is always in the table's
filled part, and adds 1 to the offset of blocks of eight; the shorter prefix
takes over the packets of the longer one while that is withdrawn. In `stat`, two
CPUs give one value behind the other in a copy, one of them outside of the
affinity mask; a frame of 60 bytes on two counters of 120 wraps the sum, and that
of the next one.

The bounds are `MaxQueue`, `MaxRoutes`, `MaxTtl`, `MaxGen`, `MaxInFlight`, `HashBits`,
`MaxHashed`, `MaxFrames`, `WordBits`, all constants; `Room` in `Controller`: the length of a list that
overlapping installs lengthen, at most `2^HashBits`; and `Bounded` in `MCLookup`, which is no part of the
specification that the theorems are about: the
routes that requests name (`TwoServers`), nexthop entries deleted in ascending order, and
no answer to a request between the two lookups of a packet. `MinBuckets` is 256 in
the code; `NrVirtual` then leaves 13 buckets free, with the smaller sizes one.
`CHECK_DEADLOCK FALSE` stands only in the runs whose system ends: a list that is
full, a header that was rewritten, a process that is done and frames that are
used up.

**Fairness.** `Answered`, of `Controller` and of `RouteLoops`, assumes weak
fairness of each handler's steps: threads are scheduled and P4Runtime calls return. There is none on requests.
`Drains` says nothing of a client that goes on sending, and assumes weak fairness
of the delivery of packets, without which a
packet may stay on a link for ever; there is none on clients, on the
controller, or on any particular packet. `Ends` assumes weak fairness of a process
of `er-stat` that was started, `Populates` that of the thread in `populate`; none
on frames or on requests.

The properties in words:

* `Deployed`: after the last write of an `/install` each prefix offers exactly
  the nexthops of `cur_routes`, and to packets that were sent back those of
  `prv_routes`.
* `InstallDeploysQueued`: what is in the queues when they are discarded has been
  worked into `cur_routes`.
* `LpmClosed`: at no moment does an LPM entry lead to a slot that is missing or
  drops in a generation in which the prefix has routes, whatever the hash, and no
  entry is without routes in both. Of a generation in which it has none, count 0, nothing is
  claimed: the index is the bare hash plus the offset, and packets that are looked up in that
  generation mostly meet no slot (section 4).
* `TypeOK` of `Controller` also says that a RIB holds no route twice, unless an append
  came between the test and the append of another install (`NoRouteTwice`).
* `DropAtZero`: index 0 of a nexthop table, to which a packet without an LPM entry may
  come, never forwards.
* `AsAtomic`: an install that no other overlapped makes of `prv_routes` and the
  queues the list that iterations in one step make.
* `RemoveFailsOverlapped`: `list.remove` raises `ValueError` only in an install that another
  has overlapped.
* `Affinity`: until the second update after the lookup that chose its server, a
  connection's server is at the flow's slot of the current or previous block.
* `ResetExplained`: a reset means that two updates have passed, that a repeated
  SYN opened a second socket, that an update fell into the lookups of the SYN or of the packet
  itself (no LPM entry, or nexthop tables that were rewritten between the two lookups), or
  that the client had set the mark itself.
* `ForwardedRight`: a packet with an LPM entry goes to a server of the install that
  wrote the entry, of the generation that its mark selects, unless a nexthop
  table is written between its lookups.
* `OnlyKnownServers`: in that case, and without an entry, it still reaches only
  servers of the RIBs or of entries that were there at the start of the request.
* `MaskIsRemainder`, `EveryNexthopReached`: the mask picks the slot of a block that the remainder of the
  hash by the count would, and some hash leads to each nexthop of the list.
* `FairShares`: no nexthop has more than one slot more than another, nor more than a fourth of its
  share.
* `NoStarvation`: the consistent hash gives every nexthop at least its even share
  of the virtual nodes in buckets, and the mask reaches them.
* `RateWithinTraffic`: what `er-stat` shows as redirected lies between what was
  counted from the end of its first sample to the start of the second, and what
  was from the start of the first to the end of the second. The lower bound holds
  if an unsigned long holds the upper one: the difference is known modulo its range.
* `RedirectedWithinReceived`: a count of redirected frames or bytes is never shown
  larger than that of received ones.

## 4. Where the code departs from what its documents say

Four of them are runs that end in the violation of one property.

| run | statement | what the code does |
|---|---|---|
| `ctl_lost_add` | `c4bmv2-readme.md:22`, `/install` deploys queued routes | a route queued after its loops, while it writes to the switch, is thrown away with the queues |
| `ctl_clear_overlap` | `c4bmv2-readme.md:23`, `/clear` clears all states | an `/install` that it overlaps goes on for the installer that is replaced, and writes its entries into the tables that were cleared: when both are answered, the controller has no routes and the switch serves some |
| `routes_bystander` | the same line as `ctl_lost_add`: queued routes are appended or deleted | two installs remove the same route; the second deletes by an index that the first has shifted, and takes out a route that no `/del` named |
| `stat_clear` | `er-stat.c:264`, `-z` sets counters to 0 when starting | the XDP program, between load and store of `*value += 1`, puts the old count back |

Others follow from actions of the models, and bound what the properties can say:

* `redirect.c:111`, update ToS and checksum: `OneBadChecksum` names the one case in
  which the checksum is wrong, 0x00FF in a header with ToS 0. `update_checksum`
  folds once, and the carry of that fold is cut off.
* `c4bmv2.py:693` and `ecmper.p4:127`, counts are powers of 2: the count is 0 for a
  prefix that only one generation has. 0 - 1 masks nothing, and the bare hash is
  the index, plus the offset: the packet mostly meets no slot, and else one of another prefix.
  `ForwardedRight` and `LpmClosed` exclude it (no server is promised), and
  `OnlyKnownServers` says what holds instead: if a slot is met, it has a server that is known.
* `er-stat.c:202`, number of CPUs: that of the affinity mask. Run with a smaller
  one, `-z` writes bytes from its stack to the counters of the other CPUs
  (`Cleared`), and shows only some of the first ones.
* `er-stat.c:261`, `-t TIMEOUT`: an interval of less than a millisecond is cut to
  0, the countdown stands still, and `er-stat` does not end. `Ends` excludes it.
* Two processes of `er-stat`: one that clears makes the difference of the other
  wrap around to a huge rate (`torn`).
* `c4bmv2.py:67`, delete all table entries: the first error ends the clearing
  of a table, and the caller is not told (`DeleteFails`). `ClearEmpties` and
  `LpmClosed` need deletes that succeed, and `ClearedOnBothSides` fails without them.
* `c4bmv2.py:774`, `cur_routes` are the routes of the current nexthops: an
  `/install` that answers 500 has changed them, and the switch only in part
  (`Abort` leaves the RIBs alone). The next `/install` takes them for the
  previous generation, and the one that the switch was serving is lost. `Deployed` speaks
  of an `/install` that succeeds.
* `redirect.c:184`, only packets without SYN are sent back: `if (!sock)` at 191 comes first and
  sends a SYN back; the branch for SYN is never reached (`Verdict`, `SendBack`).
* `c4bmv2.py:566`, the minimum power of two: `BlockSize` is four times that
  for more than one nexthop. This is what makes `FairShares` true.
* `HOWTO-ECMPER-DEMO.md:556`, no failed requests: two updates during a
  connection reset it, the first case of `ResetExplained`.
* `redirect.c:224`, a packet that is sent back again gets a RST: only from a
  server that listens. Any other sends it back until its TTL ends
  (`SendsBack`), hence `Drains`.
* `redirect.c:225`, ToS 0x01 means "already retransmitted": 0x01 is ECT(1) as well.
  A packet that a client has marked so is looked up in the previous block, and
  reset by a listener there after one update: the last case of `ResetExplained`.

## 5. What is proved

Every theorem holds for every value of the constants, under the assumptions named in
the modules: `ControllerAssumption`, `HashBitsAssumption`, `TosValuesAssumption`,
`SystemAssumption`, `CountersAssumption`, `RouteLoopsAssumption`, `ExpansionFits`, `BucketsAssumption`,
and those of `ErStat`. Some of them have parts worth a word. `SystemAssumption` says that no pool has more servers than the
hash has values (16 bits in the code), so that a block exists for it.
`ExpansionFits` says the same of a prefix, and that the size of its block is a value of 16 bits.
`BucketsAssumption` says it of a table of consistent hashing. That has to be *less* than the number of hash
values: BMv2 never returns the largest hash, so that the last bucket of a table of 65536 would get
no flow, and a nexthop that has no other none at all. The proof of `NoStarvation` found this.
`PowersAssumption`, and a conjunct of `CountersAssumption`, are facts of arithmetic,
that `2^k` is a positive natural number, which the provers do not know. TLC evaluates all
of them in the runs.

| theorem | states | hypotheses |
|---|---|---|
| `ControllerProofs!TypeCorrect` | `TypeOK` | |
| `ControllerProofs!ZeroNeverForwards` | `DropAtZero` | |
| `ControllerProofs!LpmStaysClosed` | `LpmClosed` | one handler, no delete fails |
| `ControllerProofs!InstallsDeploy` | `Deployed` | one handler, no delete fails |
| `ControllerProofs!ImplementsGenerations` | `Refinement` | one handler, no delete fails, no install is cut short |
| `ControllerProofs!QueuesWorkedIn` | `InstallDeploysQueued` | requests one at a time |
| `ControllerProofs!ClearsAll` | `ClearEmpties` | requests one at a time, no call fails |
| `LookupProofs!ForwardsRight` | `ForwardedRight` | one handler, no delete fails |
| `LookupProofs!ReachesKnown` | `OnlyKnownServers` | one handler, no delete fails, no install is cut short |
| `RouteLoopsProofs!ScansAreAtomic` | `AsAtomic` | |
| `RouteLoopsProofs!RemoveFindsItsRoute` | `RemoveFailsOverlapped` | |
| `NhExpansionProofs!ExpansionRange` | what a block holds | |
| `ConsistentHashProofs!FlowsReachEveryNexthop` | `EveryNexthopReached` | |
| `ConsistentHashProofs!BlocksAreFair` | `FairShares` | |
| `ConsistentHashProofs!NobodyStarves` | `NoStarvation` | |
| `EcmperSystemProofs!TypeCorrect` | `TypeOK` | |
| `EcmperSystemProofs!AffinityHolds` | `Affinity` | |
| `EcmperSystemProofs!ResetsExplained` | `ResetExplained` | |
| `ErStatProofs!RatesWithinTraffic` | `RateWithinTraffic` | |
| `ErStatProofs!RedirectedStaysWithinReceived` | `RedirectedWithinReceived` | no counter had wrapped around at the start |
| `ChecksumProofs!OneBadChecksumHolds` | `OneBadChecksum` | |

Each inductive invariant was an invariant of a TLC run before it was proved.
Why every hypothesis is needed:

* *One handler, no delete fails.* An `/install` that overlaps a `/clear`, or a failed
  delete (the run `ctl_clear_overlap`), leaves LPM entries over nexthops that are rewritten, and entries of prefixes
  that no list has any more (section 4).
* *Requests one at a time.* The run `ctl_lost_add` loses a queued route otherwise.
  The number of handlers is free, and so is which calls fail; for `ClearsAll` it is not, since
  `clear_table` swallows what it could not delete.
* *No install is cut short* (`CutShort`). After an `/install` that answers 500 the
  next one takes `cur_routes`, which the switch has never had, for the previous generation;
  that is no step of `Generations`. The theorem is about the behaviours
  in which that does not happen: `Spec /\ [][~ CutShort]_vars => Refinement`. `ReachesKnown`
  needs it as well: after two such installs in a row, `prv_nh` may still have servers that
  neither RIB and no LPM entry knows.
* *No counter had wrapped around.* A received counter that has wrapped around before
  er-stat starts is below the redirected one from the start. The starting values of the run
  `stat` fulfil it, and wrap around in the course of it.

### Controller

* `TypeCorrect`. The inductive invariant `TypeInv` adds to `TypeOK`
  that the write that `/neigh/add` prepares is one to `neigh`, and that an
  install never clears `neigh`. The interesting conjuncts are that a RIB list
  stays free of duplicates (`AppendInjective`, `WithoutType`), unless `overlapped` says
  that an append came between the test and the append of another install, and that the
  keys a handler is about to delete or write belong to its table.
* `ZeroNeverForwards`. `DropAtZero` is not inductive: a handler keeps the
  arguments of a refused insert while others work, and writes them with its
  `modify`. `ZeroInv` adds that no such call has a nexthop for index 0; that `idx`
  starts at 1, from `TypeInv`, makes it so.
* `LpmStaysClosed`. The invariant `Closed(h)` says, per phase of an
  `/install` or `/clear`: what has been encoded fits the lists of the table
  (`Encoded`), the LPM table is empty from the end of its clearing to the first
  `put_lpm` (`Emptied`), an encoded prefix has a block in one generation at least, the clearing is past what it has deleted (`Emptying`),
  a refused insert is retried with the same entry (`Retried`), and the nexthop
  tables hold the lists up to where the writing stands (`Filled`). `LpmClosed`
  alone is not inductive: that `PutLpm` preserves it depends on all of these.
* `InstallsDeploy`. With one handler nothing is disturbed (`Steady`, of which
  `SteadyMemory` leaves the undisturbed steps). `InstallInv` adds to `Closed` *what* is where:
  each prefix encoded so far has its blocks of the RIBs in the table (`EncodedRight`,
  `AllEncoded`), those blocks stay where they are as others are appended
  (`BlockKept`), the switch holds the lists up to the index (`Written`) and the
  entries that are done (`LpmPut`).
* `ImplementsGenerations`. Each action is one of five steps of `Generations`
  or a stutter: deleting an LPM entry withdraws its prefix, the end of clearing `ipv4_lpm`
  advances, `PutLpm` offers, `Finish` completes, and `Renew` resets
  (`Withdrawal`, `NewGeneration`, `Offering`, `Completed`, `Cleared`, with a lemma
  for each that it maps to its abstract step). `InService` is what makes it work:
  all the while, a prefix in service shows the block of its routes: the previous ones until
  the advance, then those of `cur_routes`.
* `QueuesWorkedIn`. `Queued(h)` follows the two loops: what is in `add_queue` is in the
  RIB or still to be iterated over, then what is in `del_queue` is gone from it or still to come;
  `Owed(h)` keeps apart the handlers that only retry a write.
* `ClearsAll`. `WipeInv` adds, for each table, that what has been read to be deleted is
  what it holds, and that it is empty once the handler has moved on.

### Scans of the route list

`ScansAreAtomic` and `RemoveFindsItsRoute` rest on one invariant, `AloneInv`, about an install that no
other has overlapped so far (`Undisturbed`). No other install runs, and what it has passed in its scan
is not what it looks for (`Scanned`), so that a scan that finds, finds the first one (`FoundIsFirst`), and
one that does not, has seen the whole list (`NotFoundIsAbsent`). And cur_routes is what
whole iterations over the first n routes of the queue make of the list that it started from (`Adding`,
`Deleting`), which at the end are all. The list may have a route twice, from an overlap before; so
`remove` takes out the first one, as `RemoveFirst` does. What an iteration adds to
the loops, `AfterAdds` and `AfterDels`, is `LoopSteps`: they are recursive functions, which exist for queues
of every length by the least counterexample (`LoopExists`, `LoopsAgree`). So the step that
`Controller` takes for an iteration is right for every install that none overlaps.

### Packets next to the controller

* `ForwardsRight`. `LookupInv` adds to `InstallInv` that the history of an LPM entry
  is what its blocks hold (`ServedRight`), and that a packet which no write has overtaken
  is at a slot of what it was promised (`PacketRight`). That the mask and the offset
  lead to a slot of the block is `IndexInBlock`: the block lies in the table, from
  `LpmClosed`, so that the addition does not wrap around. Nothing is overtaken by what an install
  does to LPM entries, which is why it takes them away first and puts them back last.
  Both theorems are about `LookupSpec`, which has no bounds: those of the run are in `MCLookup`.
  The theorem needed an assumption that had been left out: `drop()` is not the number of a port.
* `ReachesKnown`. `KnownInv` says where the addresses in a nexthop table come from
  (`PrvKnown`, `CurKnown`): until an install has emptied the table, from the install before,
  and then from its own lists, which have the addresses of the RIBs (`ListsKnown`). Emptying
  leaves nothing because what was read to be deleted is what the table has (`ToDelete`). When an
  install takes its snapshot, what was current becomes previous, in the RIBs and so for `cur_nh`;
  when it ends, the history takes over from `prv_routes`, since `Deployed` holds (`FinishKnown`).

### Connections

`Affinity` and `ResetExplained` follow from one invariant, `LedInv`, in terms of the
number of the generation whose lookup led a packet or socket to where it is.
`Led(g, f, s)`: if g is the current generation, the flow's slot of the current block has s;
if it is the one before, that of the previous block has, from the moment the VIP is
offered again. Sockets and packets at servers are led so (`SocketLed`, `PacketLed`), and so is
a packet between its two lookups, for which s is the server that it would find
in the block of the first (`Bound`, `Target`); a packet that an update has overtaken
there is led by no generation (`Missed`). And
a packet that was sent back is led by an earlier generation than
the current one. `Handshake` ties a client's state to what is under way for it: no SYN-ACK of
a socket that is gone can be accepted. `DataLed` is the heart of it. Data
that was sent back, or that the gap has led astray, met a server that was not the
connection's, so that the lookup was in a later generation than the one that chose the server:
a lookup in the same generation finds the server. The second lookup is then one generation
behind, and finds it as well unless two updates have passed. `Past` says what "later" means in the
middle of an update.

### er-stat

A sample is no snapshot: it is a sum of values that were read one by one while every CPU
went on counting. For each counter there is a number r, the part
of what was stored when each value was read: the sum is r, plus what the
counters were off at the start, modulo `2^WordBits` (`IsSum`). From one sample to the next the offset
cancels out (`DifferenceIsTraffic`), whatever it is, since nobody clears; what was *stored*
only grows, so that r is at least what the values read so far had at the beginning, and
at most what they have now (`FirstSample`, `FirstSampleDone`, `SecondSample`). That counters
and their tallies grow alike is a fact of each store (`Fresh`: what was loaded is still
there, unless a clear was lost). For `RedirectedStaysWithinReceived`, r of a redirected counter is at most
r of the received one together with what is still to be read of it (`Sampled`): the
program counts received first (`Within`, per CPU) and er-stat reads redirected first.
Sums over CPUs are a recursive function; what is known of them (`SumGrows`, `SumMonotone`)
is proved by the least counterexample, with `WFMin` of `WellFoundedInduction`.

The proof corrected the property: `RateWithinTraffic` once had its lower bound
without a condition, which fails for more traffic than an unsigned long
counts, and no run is long enough to see.

### Blocks

`_expand_nh` and `populate` both let the nexthops take turns: of the numbers 1 to p, `Share(p, n, x)` fall
on the x-th of n participants (`Turns`, one by one from `ShareStep`), and two shares differ by one at
most. `FairShares` follows because a block for n > 1 nexthops has four slots for each
(`BlockIsFourTimesTheList`); `EveryNexthopReached` because each has its first turn at a slot that BMv2's hash
reaches (`FirstTurn`, `ListLength`). For `NoStarvation` the invariant `TurnsTaken` says that in `populate`
each nexthop has its share of the virtual nodes placed so far, wherever they are. Each virtual node
owns a bucket of its own, the one below it or, for that in the first bucket, the last
(`BucketOfNode`), so that a nexthop has as many buckets as nodes at least (`SlotForEachNode`).

### Other parts

* `ExpansionRange`: a block holds exactly the nexthops of its
  list. The least power of two exists by `LeastElement` for a finite set of
  naturals.
* `OneBadChecksumHolds`, for every set
  of ToS values. The sum before the fold is at most 196605, so that three cases
  of the quotient by 65536 remain; in each the result differs from the right one by
  a multiple of 65535, except where the fold itself carries, at 131071.

### Only model-checked

* `Answered`, `Drains`, `Ends`, `Populates`: liveness, which is out of the prover's reach.
* `MaskIsRemainder`: it is about bitwise operators, which are recursive.

## 6. How to run

```
tlc -workers 2 -config lookup.cfg MCLookup.tla
tlc -workers 2 -config sys.cfg MCEcmperSystem.tla
tlc -workers 2 -config blocks.cfg MCBlocks.tla
tlc -workers 2 -config stat.cfg MCErStat.tla
tlc -workers 2 -config checksum.cfg Checksum.tla
tlapm ControllerProofs.tla
tlapm LookupProofs.tla
```

`ctl_concurrent`, `sys`, `stat` and `lookup` have between half a million and 1.7 million
states and take one to three minutes each; all others are much faster.

## 7. Plan

Done, in this order: `NhExpansion`, `NexthopList` and `SlotMask`; `Controller`; `Generations`
and the refinement; `XdpRedirect`, `EcmperSystem`; `Checksum`; the theorems of
section 5; then `Lookup`, `XdpCounters` and `ErStat`, `ConsistentHash`, and clients
that use ECN; then `RouteLoops`. The order put the behaviour first that everything else depends on:
what the tables hold while they are rewritten.

Then the two lookups of `EcmperSystem` and the switches within an iteration in `Controller`.
The theorems of section 5 followed in `ControllerProofs`, `LookupProofs`, `EcmperSystemProofs` and
`ErStatProofs`, and at last those in `RouteLoopsProofs` and `ConsistentHashProofs`.

Open: that `RouteLoops` with one handler implements the loops of `Controller`, step by step, for which
requests would have to be queued in both at the same moments; and the liveness properties for every value of the
constants, once a prover has ENABLED.

## 8. Not modelled

* `get_tables`, `dump`: read and format. `enable_debug`: installs nothing.
* The parsing of options and the layout of the output of `er-stat.c`.
* Headers with IP options, and which bytes a hash is of.
* The Tofino program beyond what it shares with BMv2 in `ecmper.p4`.
* `ipsl.py` (third party), scripts that set up namespaces, nginx and BMv2, the
  programs of `xdp/test`.
* `xdp/include/bpf.h`, `bpf_helpers.h` and `bpf_common.h`: headers of the kernel,
  copied here, with declarations, constants and comments. They are 4208 of the 4905
  lines of C in the repository, and have nothing that executes. `redirect.c` and `er-stat.c`, the
  other 625 lines, are modelled but for what is named above, with the byte order
  of `bpf_endian.h`; the rest of the program is Python and P4, and is
  modelled as sections 2 and 3 say.
