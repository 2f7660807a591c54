------------------------------ MODULE Controller ------------------------------
(***************************************************************************)
(* tools/c4bmv2.py: the Flask controller of an ECMP-ER router.             *)
(*                                                                         *)
(* REST requests fill the queues of a NextHopInstaller (/add, /del), turn  *)
(* them into the tables of the BMv2 switch (/install), or wipe everything  *)
(* (/clear).  Flask serves each request in a thread of its own and nothing *)
(* is locked; /install and /clear are long sequences of P4Runtime calls.   *)
(* A handler takes one step per iteration of the queue loops and of the    *)
(* loop of do_encode, one per loop that fills the ECMPerTable and one per  *)
(* P4Runtime call, and may be overtaken between any two of them.  Threads  *)
(* also switch within an iteration over cur_routes, as Route.__eq__ is     *)
(* Python code: then the step has the outcomes of every switch.  RouteLoops*)
(* has these switches one by one.                                          *)
(*                                                                         *)
(* Abstractions.  A route's (prefix, preflen) pair is a member of Prefixes.*)
(* RIB lists are kept per prefix: do_encode reads them only so.  Option    *)
(* enable_debug, in which nothing is installed, is left out.               *)
(***************************************************************************)
EXTENDS NhExpansion, FiniteSets, Functions

CONSTANTS
  Handlers,       \* threads that can serve long requests at the same time
  Installers,     \* identities of NextHopInstaller objects
  PrefixOrder,    \* the prefixes, in the order of sorted(self.lpm.keys())
  Nexthops,       \* what a route can name as its nexthop
  BadNexthops,    \* those that P4Runtime cannot encode (not an address)
  Connected,      \* the nexthop "connected", written as ZeroAddr
  ZeroAddr,       \* 0.0.0.0
  Drop,           \* the action drop() of a nexthop table
  Absent,         \* no entry
  NeighAddrs,     \* keys of the neighbor table that requests name
  NeighPorts,     \* actions set_output(port, dstmac) that requests name
  LpmSize, NhSize, NeighSize,   \* sizes of the P4 tables
  Faults,         \* P4Runtime calls that may fail: subset of {"write", "delete"}
  Requests,       \* the kinds of request that are sent
  Sequential,     \* TRUE: a request is sent when the previous one was answered
  MaxQueue        \* bound: length of add_queue and of del_queue

VARIABLES
  ipv4_lpm, cur_nh, prv_nh, neigh,              \* the tables of the switch
  nh_installer,                                 \* the global of c4bmv2.py
  add_queue, del_queue, cur_routes, prv_routes, \* attributes of installers
  shifted,      \* history: handlers amid an iteration whose list has changed
  overlapped,   \* history: installers to which such an iteration appended
  pc, job, self, todo, table, idx, tab, keys, call   \* locals of a handler

switchVars == <<ipv4_lpm, cur_nh, prv_nh, neigh>>
history == <<shifted, overlapped>>
ribVars == <<nh_installer, add_queue, del_queue, cur_routes, prv_routes, history>>
handlerVars == <<pc, job, self, todo, table, idx, tab, keys, call>>
vars == <<switchVars, ribVars, handlerVars>>

Prefixes == Range(PrefixOrder)
Routes == [prefix : Prefixes, nexthop : Nexthops]
Rib == [Prefixes -> {nh \in Seq(Nexthops) : Len(nh) <= 2^HashBits}]
SomeRibs == [Prefixes -> UNION {[1 .. n -> Nexthops] : n \in 0 .. 2^HashBits}]
NoRoutes == [p \in Prefixes |-> <<>>]

NhValue(nexthop) == IF nexthop = Connected THEN ZeroAddr ELSE nexthop
NhAddrs == {NhValue(n) : n \in Nexthops}
LpmParams == [prv_offset : Nat, prv_count : Nat, cur_offset : Nat, cur_count : Nat]

ASSUME ControllerAssumption ==
  /\ IsInjective(PrefixOrder) /\ PrefixOrder \in Seq(Prefixes)
  /\ IsFiniteSet(Nexthops) /\ Cardinality(Nexthops) <= 2^HashBits
  /\ BadNexthops \subseteq NhAddrs
  /\ Absent \notin NhAddrs \cup {Drop} \cup NeighPorts \cup LpmParams
  /\ Drop \notin NhAddrs
  /\ LpmSize \in Nat /\ NhSize \in Nat \ {0} /\ NeighSize \in Nat
  /\ Faults \subseteq {"write", "delete"}
  /\ Requests \subseteq {"add", "del", "install", "clear", "neigh"}
  /\ Sequential \in BOOLEAN
  /\ MaxQueue \in Nat
  /\ IsFiniteSet(Installers) /\ IsFiniteSet(Handlers)
  /\ Cardinality(Installers) >= Cardinality(Handlers) /\ Handlers # {}

(* An ECMPerTable: the nexthops per prefix, then what do_encode makes of   *)
(* them.  Element i of prv_nh is written to index i of the table: the list *)
(* of the code also has the entry "drop", at its index 0.                  *)
NoTable == [prv |-> NoRoutes, cur |-> NoRoutes,
            lpm |-> [p \in Prefixes |-> Absent], prv_nh |-> <<>>, cur_nh |-> <<>>]

(* A running loop over a queue: the routes it has not reached, and whether *)
(* the list it runs over is still the queue (Finish binds a new one).      *)
Loops == [list : Seq(Routes), live : BOOLEAN]
NoLoop == [list |-> <<>>, live |-> FALSE]
LoopOver(queue) == [list |-> queue, live |-> TRUE]

(* An object takes the first identity that no running install holds: which *)
(* one it is makes no difference.                                          *)
FirstInstaller == CHOOSE i \in Installers : TRUE

NoCall == [tab |-> "none", key |-> 0, value |-> Absent]

EmptyLpm == [p \in Prefixes |-> Absent]
OnlyDrop == [i \in HashRange |-> IF i = 0 THEN Drop ELSE Absent]
EmptyNeigh == [a \in NeighAddrs |-> Absent]
EmptyQueues == [i \in Installers |-> <<>>]
EmptyRibs == [i \in Installers |-> NoRoutes]

Init ==
  /\ ipv4_lpm = EmptyLpm /\ cur_nh = OnlyDrop /\ prv_nh = OnlyDrop /\ neigh = EmptyNeigh
  /\ nh_installer = FirstInstaller
  /\ add_queue = EmptyQueues /\ del_queue = EmptyQueues
  /\ cur_routes = EmptyRibs /\ prv_routes = EmptyRibs
  /\ shifted = {} /\ overlapped = {}
  /\ pc = [h \in Handlers |-> "idle"]
  /\ job = [h \in Handlers |-> "none"]
  /\ self = [h \in Handlers |-> FirstInstaller]
  /\ todo = [h \in Handlers |-> NoLoop]
  /\ table = [h \in Handlers |-> NoTable]
  /\ idx = [h \in Handlers |-> 1]
  /\ tab = [h \in Handlers |-> "ipv4_lpm"]
  /\ keys = [h \in Handlers |-> {}]
  /\ call = [h \in Handlers |-> NoCall]

Goto(h, label) == pc' = [pc EXCEPT ![h] = label]

RequestAllowed(kind) ==
  /\ kind \in Requests
  /\ Sequential => \A h \in Handlers : pc[h] = "idle"

-----------------------------------------------------------------------------
(***************************************************************************)
(* Requests.                                                               *)
(***************************************************************************)

(* A loop over a Python list also reaches what is appended while it runs.  *)
SeenBy(label, r) ==
  [h \in Handlers |->
     IF pc[h] = label /\ self[h] = nh_installer /\ todo[h].live
     THEN [todo[h] EXCEPT !.list = Append(@, r)] ELSE todo[h]]

(* /add: a route that is queued already is refused. *)
RestAdd(r) ==
  /\ RequestAllowed("add")
  /\ Len(add_queue[nh_installer]) < MaxQueue
  /\ r \notin Range(add_queue[nh_installer])
  /\ add_queue' = [add_queue EXCEPT ![nh_installer] = Append(@, r)]
  /\ todo' = SeenBy("adds", r)
  /\ UNCHANGED <<switchVars, nh_installer, del_queue, cur_routes, prv_routes,
                 history, pc, job, self, table, idx, tab, keys, call>>

RestDel(r) ==
  /\ RequestAllowed("del")
  /\ Len(del_queue[nh_installer]) < MaxQueue
  /\ r \notin Range(del_queue[nh_installer])
  /\ del_queue' = [del_queue EXCEPT ![nh_installer] = Append(@, r)]
  /\ todo' = SeenBy("dels", r)
  /\ UNCHANGED <<switchVars, nh_installer, add_queue, cur_routes, prv_routes,
                 history, pc, job, self, table, idx, tab, keys, call>>

StartJob(h, name, label) ==
  /\ RequestAllowed(name)
  /\ pc[h] = "idle"
  /\ job' = [job EXCEPT ![h] = name]
  /\ Goto(h, label)

(* /install: nh_installer.process_routes() on the object of this moment. *)
RestInstall(h) ==
  /\ StartJob(h, "install", "snapshot")
  /\ self' = [self EXCEPT ![h] = nh_installer]
  /\ UNCHANGED <<switchVars, ribVars, todo, table, idx, tab, keys, call>>

(* /clear: table_all_clear(), install_nh_drop_entry(), NextHopInstaller(). *)
RestClear(h) ==
  /\ StartJob(h, "clear", "read")
  /\ tab' = [tab EXCEPT ![h] = "ipv4_lpm"]
  /\ UNCHANGED <<switchVars, ribVars, self, todo, table, idx, keys, call>>

(* /neigh/add: one write, kept in call for the step that makes it. *)
RestNeighAdd(h, a, action) ==
  /\ StartJob(h, "neigh", "put_neigh")
  /\ call' = [call EXCEPT ![h] = [tab |-> "neigh", key |-> a, value |-> action]]
  /\ UNCHANGED <<switchVars, ribVars, self, todo, table, idx, tab, keys>>

(* /neigh/del: one call; to delete a missing entry fails and changes nothing. *)
RestNeighDel(a) ==
  /\ RequestAllowed("neigh")
  /\ neigh[a] # Absent
  /\ neigh' = [neigh EXCEPT ![a] = Absent]
  /\ UNCHANGED <<ipv4_lpm, cur_nh, prv_nh, ribVars, handlerVars>>

-----------------------------------------------------------------------------
(***************************************************************************)
(* process_routes in memory.                                               *)
(***************************************************************************)

(* prv_routes becomes a copy of cur_routes, whatever the queues hold. *)
TakeSnapshot(h) ==
  /\ pc[h] = "snapshot"
  /\ prv_routes' = [prv_routes EXCEPT ![self[h]] = cur_routes[self[h]]]
  /\ todo' = [todo EXCEPT ![h] = LoopOver(add_queue[self[h]])]
  /\ Goto(h, "adds")
  /\ UNCHANGED <<switchVars, nh_installer, add_queue, del_queue, cur_routes, history,
                 job, self, table, idx, tab, keys, call>>

(* What h does is done.  If it has changed its list, the iterations over   *)
(* that list that other handlers are amid will not be what they would be.  *)
Shifts(h) ==
  shifted' = (shifted \ {h}) \cup
    {g \in Handlers \ {h} : /\ self[g] = self[h] /\ cur_routes' # cur_routes
                            /\ pc[g] \in {"adds", "dels", "build_cur"}}

Undisturbed(h) == h \notin shifted

(* The next iteration of a loop over a queue. *)
NextRoute(h) ==
  /\ todo[h].list # <<>>
  /\ todo' = [todo EXCEPT ![h].list = Tail(@)]
  /\ UNCHANGED <<switchVars, nh_installer, add_queue, del_queue, prv_routes,
                 pc, job, self, table, idx, tab, keys, call>>

(* Bound: the length of a list, which only overlaps reach. *)
Room(i, p) == Len(cur_routes[i][p]) < 2^HashBits

AppendRoute(i, r) ==
  /\ Room(i, r.prefix)
  /\ cur_routes' = [cur_routes EXCEPT ![i][r.prefix] = Append(@, r.nexthop)]

(* Mutant of AddRoute: without "if not route in self.cur_routes". *)
AddRouteUnchecked(h) ==
  /\ pc[h] = "adds" /\ Undisturbed(h)
  /\ NextRoute(h) /\ AppendRoute(self[h], Head(todo[h].list))
  /\ Shifts(h) /\ UNCHANGED overlapped

HasRoute(rib, r) == r.nexthop \in Range(rib[r.prefix])

AddRoute(h) ==
  /\ pc[h] = "adds" /\ Undisturbed(h)
  /\ NextRoute(h)
  /\ LET r == Head(todo[h].list) IN
       IF HasRoute(cur_routes[self[h]], r) THEN UNCHANGED cur_routes
       ELSE AppendRoute(self[h], r)
  /\ Shifts(h) /\ UNCHANGED overlapped

(* The list has changed since the test began, which may have seen a route  *)
(* that is gone, or missed one that is there.                              *)
AddRouteShifted(h) ==
  /\ pc[h] = "adds" /\ ~ Undisturbed(h)
  /\ NextRoute(h)
  /\ \/ UNCHANGED <<cur_routes, overlapped>>
     \/ /\ AppendRoute(self[h], Head(todo[h].list))
        /\ overlapped' = overlapped \cup {self[h]}
  /\ Shifts(h)

(* Mutant of AddsDone: the loop may end before its list does. *)
AddsDoneEarly(h) ==
  /\ pc[h] = "adds"
  /\ todo' = [todo EXCEPT ![h] = LoopOver(del_queue[self[h]])]
  /\ Goto(h, "dels")
  /\ shifted' = shifted \ {h}
  /\ UNCHANGED <<switchVars, nh_installer, add_queue, del_queue, cur_routes, prv_routes,
                 overlapped, job, self, table, idx, tab, keys, call>>

AddsDone(h) ==
  /\ pc[h] = "adds" /\ todo[h].list = <<>>
  /\ todo' = [todo EXCEPT ![h] = LoopOver(del_queue[self[h]])]
  /\ Goto(h, "dels")
  /\ shifted' = shifted \ {h}
  /\ UNCHANGED <<switchVars, nh_installer, add_queue, del_queue, cur_routes, prv_routes,
                 overlapped, job, self, table, idx, tab, keys, call>>

Without(s, i) == [k \in 1 .. Len(s) - 1 |-> IF k < i THEN s[k] ELSE s[k + 1]]

RemoveRoute(i, p, n) == cur_routes' = [cur_routes EXCEPT ![i][p] = Without(@, n)]

FirstAt(s, e) == CHOOSE i \in DOMAIN s : s[i] = e /\ \A k \in DOMAIN s : s[k] = e => i <= k

(* list.remove of Python takes the first one out. *)
DelRoute(h) ==
  /\ pc[h] = "dels" /\ Undisturbed(h)
  /\ NextRoute(h)
  /\ LET r == Head(todo[h].list)
         i == self[h]
     IN IF ~ HasRoute(cur_routes[i], r) THEN UNCHANGED cur_routes
        ELSE RemoveRoute(i, r.prefix, FirstAt(cur_routes[i][r.prefix], r.nexthop))
  /\ Shifts(h) /\ UNCHANGED overlapped

(* The list has changed since the test began, or since list.remove found   *)
(* the index of the route: another route may be at this index, or none.    *)
DelRouteShifted(h) ==
  /\ pc[h] = "dels" /\ ~ Undisturbed(h)
  /\ NextRoute(h)
  /\ \/ UNCHANGED cur_routes
     \/ \E p \in Prefixes : \E n \in DOMAIN cur_routes[self[h]][p] : RemoveRoute(self[h], p, n)
  /\ Shifts(h) /\ UNCHANGED overlapped

(* The route that the test found is gone: list.remove raises ValueError.   *)
RemoveFails(h) ==
  /\ pc[h] = "dels" /\ ~ Undisturbed(h) /\ todo[h].list # <<>>
  /\ todo' = [todo EXCEPT ![h] = NoLoop]
  /\ Goto(h, "reply")
  /\ shifted' = shifted \ {h}
  /\ UNCHANGED <<switchVars, nh_installer, add_queue, del_queue, cur_routes, prv_routes,
                 overlapped, job, self, table, idx, tab, keys, call>>

DelsDone(h) ==
  /\ pc[h] = "dels" /\ todo[h].list = <<>>
  /\ todo' = [todo EXCEPT ![h] = NoLoop]
  /\ Goto(h, "build")
  /\ shifted' = shifted \ {h}
  /\ UNCHANGED <<switchVars, nh_installer, add_queue, del_queue, cur_routes, prv_routes,
                 overlapped, job, self, table, idx, tab, keys, call>>

(* A new ECMPerTable, with the routes of the previous generation: that     *)
(* list is a copy, which no one changes.                                   *)
BuildPrv(h) ==
  /\ pc[h] = "build"
  /\ table' = [table EXCEPT ![h] = [NoTable EXCEPT !.prv = prv_routes[self[h]]]]
  /\ idx' = [idx EXCEPT ![h] = 1]
  /\ Goto(h, "build_cur")
  /\ UNCHANGED <<switchVars, ribVars, job, self, todo, tab, keys, call>>

(* The loop over cur_routes.  If the list changes under it, it may miss    *)
(* routes, see some twice or see some that are gone: any lists will do.    *)
BuildCur(h) ==
  /\ pc[h] = "build_cur"
  /\ \/ Undisturbed(h) /\ table' = [table EXCEPT ![h].cur = cur_routes[self[h]]]
     \/ ~ Undisturbed(h) /\ \E cur \in SomeRibs : table' = [table EXCEPT ![h].cur = cur]
  /\ Goto(h, "encode")
  /\ shifted' = shifted \ {h}
  /\ UNCHANGED <<switchVars, nh_installer, add_queue, del_queue, cur_routes, prv_routes,
                 overlapped, job, self, todo, idx, tab, keys, call>>

(* Mutants of EncodePrefix: the blocks of the generations are swapped; the *)
(* offset into cur_nh is taken from prv_nh.                                *)
EncodePrefixSwapped(t, p) ==
  LET prv == ExpandNh(t.cur[p])
      cur == ExpandNh(t.prv[p])
  IN  [t EXCEPT !.lpm[p] = [prv_offset |-> Len(t.prv_nh) + 1, prv_count |-> Len(prv),
                            cur_offset |-> Len(t.cur_nh) + 1, cur_count |-> Len(cur)],
                !.prv_nh = @ \o prv,
                !.cur_nh = @ \o cur]

EncodePrefixCrossed(t, p) ==
  LET prv == ExpandNh(t.prv[p])
      cur == ExpandNh(t.cur[p])
  IN  [t EXCEPT !.lpm[p] = [prv_offset |-> Len(t.prv_nh) + 1, prv_count |-> Len(prv),
                            cur_offset |-> Len(t.prv_nh) + 1, cur_count |-> Len(cur)],
                !.prv_nh = @ \o prv,
                !.cur_nh = @ \o cur]

(* One iteration of do_encode: the blocks of a prefix follow those of the  *)
(* prefixes before it, the first at index 1.  A prefix that only one       *)
(* generation has gets an empty block, count 0, in the other.              *)
EncodePrefix(t, p) ==
  LET prv == ExpandNh(t.prv[p])
      cur == ExpandNh(t.cur[p])
  IN  [t EXCEPT !.lpm[p] = [prv_offset |-> Len(t.prv_nh) + 1, prv_count |-> Len(prv),
                            cur_offset |-> Len(t.cur_nh) + 1, cur_count |-> Len(cur)],
                !.prv_nh = @ \o prv,
                !.cur_nh = @ \o cur]

Encode(h) ==
  /\ pc[h] = "encode" /\ idx[h] <= Len(PrefixOrder)
  /\ LET p == PrefixOrder[idx[h]] IN
       table' = IF table[h].prv[p] = <<>> /\ table[h].cur[p] = <<>> THEN table
                ELSE [table EXCEPT ![h] = EncodePrefix(@, p)]
  /\ idx' = [idx EXCEPT ![h] = @ + 1]
  /\ UNCHANGED <<switchVars, ribVars, pc, job, self, todo, tab, keys, call>>

(* Mutant of EncodeDone: do_clear leaves out ipv4_lpm. *)
EncodeDoneSkipsLpm(h) ==
  /\ pc[h] = "encode" /\ idx[h] > Len(PrefixOrder)
  /\ tab' = [tab EXCEPT ![h] = "prv_nh"]
  /\ Goto(h, "read")
  /\ UNCHANGED <<switchVars, ribVars, job, self, todo, table, idx, keys, call>>

EncodeDone(h) ==
  /\ pc[h] = "encode" /\ idx[h] > Len(PrefixOrder)
  /\ tab' = [tab EXCEPT ![h] = "ipv4_lpm"]
  /\ Goto(h, "read")
  /\ UNCHANGED <<switchVars, ribVars, job, self, todo, table, idx, keys, call>>

-----------------------------------------------------------------------------
(***************************************************************************)
(* clear_table_entries: read a table, delete each entry that was read.     *)
(***************************************************************************)
Entries(t) == CASE t = "ipv4_lpm" -> ipv4_lpm
                [] t = "cur_nh"   -> cur_nh
                [] t = "prv_nh"   -> prv_nh
                [] t = "neigh"    -> neigh

Present(t) == {k \in DOMAIN Entries(t) : Entries(t)[k] # Absent}

Write(t, k, value) ==
  /\ ipv4_lpm' = IF t = "ipv4_lpm" THEN [ipv4_lpm EXCEPT ![k] = value] ELSE ipv4_lpm
  /\ cur_nh' = IF t = "cur_nh" THEN [cur_nh EXCEPT ![k] = value] ELSE cur_nh
  /\ prv_nh' = IF t = "prv_nh" THEN [prv_nh EXCEPT ![k] = value] ELSE prv_nh
  /\ neigh' = IF t = "neigh" THEN [neigh EXCEPT ![k] = value] ELSE neigh

(* Mutant of ClearOrder: /clear leaves out prv_nh. *)
ClearOrderNoPrv(j) == IF j = "install" THEN <<"ipv4_lpm", "prv_nh", "cur_nh">>
                      ELSE <<"ipv4_lpm", "cur_nh", "neigh">>

(* Mutant of ClearOrder: do_clear leaves out cur_nh, which do_install is   *)
(* to overwrite.                                                           *)
ClearOrderKeepsCur(j) == IF j = "install" THEN <<"ipv4_lpm", "prv_nh">>
                         ELSE <<"ipv4_lpm", "cur_nh", "prv_nh", "neigh">>

(* The order of do_clear, and that of the dictionary p4rtb.tables. *)
ClearOrder(j) == IF j = "install" THEN <<"ipv4_lpm", "prv_nh", "cur_nh">>
                 ELSE <<"ipv4_lpm", "cur_nh", "prv_nh", "neigh">>

ReadTable(h) ==
  /\ pc[h] = "read"
  /\ keys' = [keys EXCEPT ![h] = Present(tab[h])]
  /\ Goto(h, "delete")
  /\ UNCHANGED <<switchVars, ribVars, job, self, todo, table, idx, tab, call>>

DeleteEntry(h) ==
  /\ pc[h] = "delete"
  /\ \E k \in keys[h] :
       /\ k \in Present(tab[h])
       /\ Write(tab[h], k, Absent)
       /\ keys' = [keys EXCEPT ![h] = @ \ {k}]
  /\ UNCHANGED <<ribVars, pc, job, self, todo, table, idx, tab, call>>

(* "Error ignored": the rest of this table stays, the next one is cleared. *)
DeleteFails(h) ==
  /\ pc[h] = "delete"
  /\ \E k \in keys[h] : k \notin Present(tab[h]) \/ "delete" \in Faults
  /\ keys' = [keys EXCEPT ![h] = {}]
  /\ UNCHANGED <<switchVars, ribVars, pc, job, self, todo, table, idx, tab, call>>

TableCleared(h) ==
  /\ pc[h] = "delete" /\ keys[h] = {}
  /\ LET order == ClearOrder(job[h])
         n == CHOOSE n \in DOMAIN order : order[n] = tab[h]
     IN  IF n < Len(order)
         THEN tab' = [tab EXCEPT ![h] = order[n + 1]] /\ Goto(h, "read")
         ELSE tab' = tab /\ Goto(h, "drop_prv")
  /\ UNCHANGED <<switchVars, ribVars, job, self, todo, table, idx, keys, call>>

-----------------------------------------------------------------------------
(***************************************************************************)
(* TblBase.add_entry: te.insert(), and te.modify() if that raises.  An     *)
(* exception of modify, or of the encoding of an argument, ends the job.   *)
(***************************************************************************)
Size(t) == CASE t = "ipv4_lpm" -> LpmSize
             [] t = "neigh" -> NeighSize
             [] OTHER -> NhSize

Full(t) == Cardinality(Present(t)) >= Size(t)

Encodable(t, k, value) ==
  CASE t = "ipv4_lpm" -> \A f \in DOMAIN value : value[f] \in HashRange
    [] t = "neigh" -> TRUE
    [] OTHER -> k \in HashRange /\ value \notin BadNexthops

(* What follows a successful write. *)
Proceed(h, k) ==
  \/ /\ pc[h] = "drop_prv"
     /\ Goto(h, "drop_cur") /\ UNCHANGED <<idx, keys>>
  \/ /\ pc[h] = "drop_cur"
     /\ Goto(h, IF job[h] = "clear" THEN "renew" ELSE "put_prv")
     /\ idx' = [idx EXCEPT ![h] = 1] /\ UNCHANGED keys
  \/ /\ pc[h] \in {"put_prv", "put_cur"}
     /\ idx' = [idx EXCEPT ![h] = @ + 1] /\ UNCHANGED <<pc, keys>>
  \/ /\ pc[h] = "put_lpm"
     /\ keys' = [keys EXCEPT ![h] = @ \ {k}] /\ UNCHANGED <<pc, idx>>
  \/ /\ pc[h] = "put_neigh"
     /\ Goto(h, "reply") /\ UNCHANGED <<idx, keys>>

(* Mutant of Abort: the handler tries again. *)
AbortRetries(h) ==
  /\ Goto(h, pc[h])
  /\ UNCHANGED <<switchVars, idx, keys>>

(* The exception reaches the REST handler, which answers 500. *)
Abort(h) ==
  /\ Goto(h, IF job[h] = "clear" THEN "renew" ELSE "reply")
  /\ UNCHANGED <<switchVars, idx, keys>>

(* te.insert() of an entry; a refused insert leaves the write to Modify. *)
Insert(h, t, k, value) ==
  \/ /\ Encodable(t, k, value) /\ k \notin Present(t) /\ ~ Full(t)
     /\ Write(t, k, value) /\ Proceed(h, k)
     /\ call' = [call EXCEPT ![h] = NoCall]
  \/ /\ Encodable(t, k, value) /\ (k \in Present(t) \/ Full(t) \/ "write" \in Faults)
     /\ call' = [call EXCEPT ![h] = [tab |-> t, key |-> k, value |-> value]]
     /\ UNCHANGED <<switchVars, pc, idx, keys>>
  \/ /\ ~ Encodable(t, k, value)
     /\ Abort(h) /\ UNCHANGED call

(* te.modify() of the entry that insert refused. *)
Modify(h) ==
  /\ call[h] # NoCall /\ pc[h] # "put_neigh"
  /\ \/ /\ call[h].key \in Present(call[h].tab)
        /\ Write(call[h].tab, call[h].key, call[h].value)
        /\ Proceed(h, call[h].key)
     \/ /\ call[h].key \notin Present(call[h].tab) \/ "write" \in Faults
        /\ Abort(h)
  /\ call' = [call EXCEPT ![h] = NoCall]
  /\ UNCHANGED <<ribVars, job, self, todo, table, tab>>

(* install_nh_drop_entry: index 0 of both nexthop tables. *)
PutDrop(h) ==
  /\ pc[h] \in {"drop_prv", "drop_cur"} /\ call[h] = NoCall
  /\ Insert(h, IF pc[h] = "drop_prv" THEN "prv_nh" ELSE "cur_nh", 0, Drop)
  /\ UNCHANGED <<ribVars, job, self, todo, table, tab>>

(* do_install: both nexthop tables from index 1, then the LPM entries, in  *)
(* the order in which the dictionary self.lpm was filled.                  *)
PutPrv(h) ==
  /\ pc[h] = "put_prv" /\ call[h] = NoCall
  /\ idx[h] <= Len(table[h].prv_nh)
  /\ Insert(h, "prv_nh", idx[h], NhValue(table[h].prv_nh[idx[h]]))
  /\ UNCHANGED <<ribVars, job, self, todo, table, tab>>

PrvDone(h) ==
  /\ pc[h] = "put_prv" /\ idx[h] > Len(table[h].prv_nh)
  /\ Goto(h, "put_cur")
  /\ idx' = [idx EXCEPT ![h] = 1]
  /\ UNCHANGED <<switchVars, ribVars, job, self, todo, table, tab, keys, call>>

(* Mutant of PutCur: the list that starts with "drop" is not skipped. *)
PutCurFromZero(h) ==
  /\ pc[h] = "put_cur" /\ call[h] = NoCall
  /\ idx[h] <= Len(table[h].cur_nh)
  /\ Insert(h, "cur_nh", idx[h] - 1, NhValue(table[h].cur_nh[idx[h]]))
  /\ UNCHANGED <<ribVars, job, self, todo, table, tab>>

PutCur(h) ==
  /\ pc[h] = "put_cur" /\ call[h] = NoCall
  /\ idx[h] <= Len(table[h].cur_nh)
  /\ Insert(h, "cur_nh", idx[h], NhValue(table[h].cur_nh[idx[h]]))
  /\ UNCHANGED <<ribVars, job, self, todo, table, tab>>

CurDone(h) ==
  /\ pc[h] = "put_cur" /\ idx[h] > Len(table[h].cur_nh)
  /\ keys' = [keys EXCEPT ![h] = {p \in Prefixes : table[h].lpm[p] # Absent}]
  /\ Goto(h, "put_lpm")
  /\ UNCHANGED <<switchVars, ribVars, job, self, todo, table, idx, tab, call>>

PutLpm(h) ==
  /\ pc[h] = "put_lpm" /\ call[h] = NoCall
  /\ \E p \in keys[h] : Insert(h, "ipv4_lpm", p, table[h].lpm[p])
  /\ UNCHANGED <<ribVars, job, self, todo, table, tab>>

LpmDone(h) ==
  /\ pc[h] = "put_lpm" /\ keys[h] = {}
  /\ Goto(h, "finish")
  /\ UNCHANGED <<switchVars, ribVars, job, self, todo, table, idx, tab, keys, call>>

(* "revoke add/del queues": whatever they hold at this moment.  A loop of  *)
(* another handler goes on over the old list.                              *)
Finish(h) ==
  /\ pc[h] = "finish"
  /\ add_queue' = [add_queue EXCEPT ![self[h]] = <<>>]
  /\ del_queue' = [del_queue EXCEPT ![self[h]] = <<>>]
  /\ todo' = [g \in Handlers |->
                IF self[g] = self[h] THEN [todo[g] EXCEPT !.live = FALSE] ELSE todo[g]]
  /\ Goto(h, "reply")
  /\ UNCHANGED <<switchVars, nh_installer, cur_routes, prv_routes, history,
                 job, self, table, idx, tab, keys, call>>

(* set_output: here insert and modify are one step. *)
PutNeigh(h) ==
  /\ pc[h] = "put_neigh"
  /\ \/ /\ call[h].key \in Present("neigh") \/ ~ Full("neigh")
        /\ Write("neigh", call[h].key, call[h].value)
        /\ Proceed(h, call[h].key)
     \/ /\ \/ call[h].key \notin Present("neigh") /\ Full("neigh")
           \/ "write" \in Faults
        /\ Abort(h)
  /\ call' = [call EXCEPT ![h] = NoCall]
  /\ UNCHANGED <<ribVars, job, self, todo, table, tab>>

(* Installers that running installs hold: nobody reads any other again. *)
Held(h) == {self[g] : g \in {g \in Handlers \ {h} : job[g] = "install"}}

(* "recreate nh_installer", whether or not the clear succeeded. *)
Renew(h) ==
  /\ pc[h] = "renew"
  /\ nh_installer' \in (IF FirstInstaller \in Held(h) THEN Installers ELSE {FirstInstaller}) \ Held(h)
  /\ add_queue' = [i \in Installers |-> IF i \in Held(h) THEN add_queue[i] ELSE <<>>]
  /\ del_queue' = [i \in Installers |-> IF i \in Held(h) THEN del_queue[i] ELSE <<>>]
  /\ cur_routes' = [i \in Installers |-> IF i \in Held(h) THEN cur_routes[i] ELSE NoRoutes]
  /\ prv_routes' = [i \in Installers |-> IF i \in Held(h) THEN prv_routes[i] ELSE NoRoutes]
  /\ overlapped' = overlapped \cap Held(h)
  /\ Goto(h, "reply")
  /\ UNCHANGED <<switchVars, shifted, job, self, todo, table, idx, tab, keys, call>>

(* The response is sent; the locals of the handler are gone. *)
Reply(h) ==
  /\ pc[h] = "reply"
  /\ Goto(h, "idle")
  /\ job' = [job EXCEPT ![h] = "none"]
  /\ self' = [self EXCEPT ![h] = FirstInstaller]
  /\ todo' = [todo EXCEPT ![h] = NoLoop]
  /\ table' = [table EXCEPT ![h] = NoTable]
  /\ idx' = [idx EXCEPT ![h] = 1]
  /\ tab' = [tab EXCEPT ![h] = "ipv4_lpm"]
  /\ keys' = [keys EXCEPT ![h] = {}]
  /\ UNCHANGED <<switchVars, ribVars, call>>

(* A crash, and main(): setup pushes the pipeline again, which empties the *)
(* tables, then the drop entries are written before requests are served.   *)
Restart ==
  /\ ipv4_lpm' = EmptyLpm /\ cur_nh' = OnlyDrop /\ prv_nh' = OnlyDrop /\ neigh' = EmptyNeigh
  /\ nh_installer' = FirstInstaller
  /\ add_queue' = EmptyQueues /\ del_queue' = EmptyQueues
  /\ cur_routes' = EmptyRibs /\ prv_routes' = EmptyRibs
  /\ shifted' = {} /\ overlapped' = {}
  /\ pc' = [h \in Handlers |-> "idle"]
  /\ job' = [h \in Handlers |-> "none"]
  /\ self' = [h \in Handlers |-> FirstInstaller]
  /\ todo' = [h \in Handlers |-> NoLoop]
  /\ table' = [h \in Handlers |-> NoTable]
  /\ idx' = [h \in Handlers |-> 1]
  /\ tab' = [h \in Handlers |-> "ipv4_lpm"]
  /\ keys' = [h \in Handlers |-> {}]
  /\ call' = [h \in Handlers |-> NoCall]

-----------------------------------------------------------------------------
HandlerStep(h) ==
  \/ TakeSnapshot(h) \/ AddRoute(h) \/ AddsDone(h) \/ DelRoute(h) \/ DelsDone(h)
  \/ AddRouteShifted(h) \/ DelRouteShifted(h) \/ RemoveFails(h)
  \/ BuildPrv(h) \/ BuildCur(h) \/ Encode(h) \/ EncodeDone(h)
  \/ ReadTable(h) \/ DeleteEntry(h) \/ DeleteFails(h) \/ TableCleared(h)
  \/ PutDrop(h) \/ PutPrv(h) \/ PrvDone(h) \/ PutCur(h) \/ CurDone(h)
  \/ PutLpm(h) \/ LpmDone(h) \/ Modify(h) \/ Finish(h)
  \/ PutNeigh(h) \/ Renew(h) \/ Reply(h)

Request ==
  \/ \E r \in Routes : RestAdd(r) \/ RestDel(r)
  \/ \E h \in Handlers : RestInstall(h) \/ RestClear(h)
  \/ \E h \in Handlers, a \in NeighAddrs, action \in NeighPorts : RestNeighAdd(h, a, action)
  \/ \E a \in NeighAddrs : RestNeighDel(a)

Next == Request \/ (\E h \in Handlers : HandlerStep(h)) \/ Restart

Spec == Init /\ [][Next]_vars

(* Threads that serve a request are scheduled and P4Runtime calls return.  *)
FairSpec == Spec /\ \A h \in Handlers : WF_vars(HandlerStep(h))

-----------------------------------------------------------------------------
(***************************************************************************)
(* Properties.                                                             *)
(***************************************************************************)
Labels == {"idle", "snapshot", "adds", "dels", "build", "build_cur", "encode", "read", "delete",
           "drop_prv", "drop_cur", "put_prv", "put_cur", "put_lpm", "put_neigh",
           "finish", "renew", "reply"}

Tables == {"ipv4_lpm", "cur_nh", "prv_nh", "neigh"}

Keys(t) == CASE t = "ipv4_lpm" -> Prefixes
             [] t = "neigh" -> NeighAddrs
             [] OTHER -> HashRange

NhActions == NhAddrs \cup {Drop}

ECMPerTables == [prv : Rib, cur : Rib, lpm : [Prefixes -> LpmParams \cup {Absent}],
                 prv_nh : Seq(Nexthops), cur_nh : Seq(Nexthops)]

Calls == {NoCall}
           \cup [tab : {"ipv4_lpm"}, key : Prefixes, value : LpmParams]
           \cup [tab : {"cur_nh", "prv_nh"}, key : HashRange, value : NhActions]
           \cup [tab : {"neigh"}, key : NeighAddrs, value : NeighPorts]

SwitchTypeOK ==
  /\ ipv4_lpm \in [Prefixes -> LpmParams \cup {Absent}]
  /\ cur_nh \in [HashRange -> NhActions \cup {Absent}]
  /\ prv_nh \in [HashRange -> NhActions \cup {Absent}]
  /\ neigh \in [NeighAddrs -> NeighPorts \cup {Absent}]

RibTypeOK ==
  /\ nh_installer \in Installers
  /\ add_queue \in [Installers -> Seq(Routes)]
  /\ del_queue \in [Installers -> Seq(Routes)]
  /\ cur_routes \in [Installers -> Rib]
  /\ prv_routes \in [Installers -> Rib]
  /\ shifted \subseteq Handlers
  /\ overlapped \subseteq Installers

(* The "in" tests of process_routes keep a RIB from holding a route twice, *)
(* unless an append came between the test and the append of another.       *)
NoRouteTwice ==
  \A i \in Installers \ overlapped, p \in Prefixes :
    IsInjective(cur_routes[i][p]) /\ IsInjective(prv_routes[i][p])

HandlerTypeOK ==
  /\ pc \in [Handlers -> Labels]
  /\ job \in [Handlers -> {"none", "install", "clear", "neigh"}]
  /\ self \in [Handlers -> Installers]
  /\ todo \in [Handlers -> Loops]
  /\ table \in [Handlers -> ECMPerTables]
  /\ idx \in [Handlers -> Nat \ {0}]
  /\ tab \in [Handlers -> Tables]
  /\ keys \in [Handlers -> SUBSET UNION {Keys(t) : t \in Tables}]
  /\ call \in [Handlers -> Calls]

(* The keys that a clear is to delete are keys of the table it clears, and *)
(* the prefixes that do_install is to write have been encoded.             *)
KeysOK ==
  \A h \in Handlers :
    /\ pc[h] = "delete" => keys[h] \subseteq Keys(tab[h])
    /\ pc[h] = "put_lpm" => keys[h] \subseteq {p \in Prefixes : table[h].lpm[p] # Absent}

(* Types of the switch tables, of the RIBs, in which no route occurs twice *)
(* before two installs have overlapped, and of the handlers' locals.       *)
TypeOK == SwitchTypeOK /\ RibTypeOK /\ NoRouteTwice /\ HandlerTypeOK /\ KeysOK

(* A slot of a nexthop table that forwards. *)
Live(nh, i) == i \in HashRange /\ nh[i] \in NhAddrs

(* Mutant of Index: without the offset. *)
IndexFromZero(hash, count, offset) == Masked(hash, count)

(* nh_index of p4src/ecmper.p4, an addition of bit<16> *)
Index(hash, count, offset) == (Masked(hash, count) + offset) % 2^HashBits

BlockLive(nh, count, offset) ==
  count # 0 => \A hash \in HashRange : Live(nh, Index(hash, count, offset))

(* No matter where an /install or a /clear stands, and even if one was cut *)
(* short by a rejected write, an LPM entry has a block in one generation   *)
(* at least, and in a generation in which it has a block every packet is   *)
(* led to a slot that forwards.  do_clear takes the LPM entries away first *)
(* and do_install puts them back last for this.  (In a generation without  *)
(* routes to the prefix the count is 0 and the index is the bare hash plus *)
(* the offset, where there may be no slot: of that nothing is claimed.)    *)
LpmClosed ==
  \A p \in Prefixes : ipv4_lpm[p] # Absent =>
    LET e == ipv4_lpm[p] IN
    /\ e.prv_count # 0 \/ e.cur_count # 0
    /\ BlockLive(prv_nh, e.prv_count, e.prv_offset)
    /\ BlockLive(cur_nh, e.cur_count, e.cur_offset)

(* Index 0 of a nexthop table never forwards, whatever requests overlap: a *)
(* packet that no LPM entry matches can reach it (offset 0).               *)
DropAtZero == cur_nh[0] \in {Drop, Absent} /\ prv_nh[0] \in {Drop, Absent}

Slots(offset, count) == offset .. offset + count - 1

BlockSet(nh, offset, count) == {nh[i] : i \in Slots(offset, count)}

Addrs(nh) == {NhValue(n) : n \in Range(nh)}

(* What the switch offers for a prefix of which a RIB pair has the lists.  *)
Offers(p, prv, cur) ==
  IF prv = <<>> /\ cur = <<>> THEN ipv4_lpm[p] = Absent
  ELSE LET e == ipv4_lpm[p] IN
       /\ e # Absent
       /\ BlockSet(prv_nh, e.prv_offset, e.prv_count) = Addrs(prv)
       /\ BlockSet(cur_nh, e.cur_offset, e.cur_count) = Addrs(cur)

(* When process_routes has made its last write, the flows of each prefix   *)
(* are spread over exactly the nexthops of cur_routes, retransmitted       *)
(* packets over exactly those of prv_routes, and no other prefix is served.*)
Deployed ==
  \A h \in Handlers : pc[h] = "finish" =>
    \A p \in Prefixes : Offers(p, prv_routes[self[h]][p], cur_routes[self[h]][p])

(* The queues that process_routes discards at its end hold nothing that it *)
(* did not work into cur_routes: /install deploys the queued routes.       *)
InstallDeploysQueued ==
  [][\A h \in Handlers : Finish(h) =>
       LET i == self[h] IN
       /\ \A r \in Range(del_queue[i]) : ~ HasRoute(cur_routes[i], r)
       /\ \A r \in Range(add_queue[i]) \ Range(del_queue[i]) : HasRoute(cur_routes[i], r)]_vars

(* When /clear creates the new installer, the switch is as main() left it: *)
(* nothing but the two drop entries.                                       *)
ClearEmpties ==
  \A h \in Handlers : pc[h] = "renew" =>
    /\ \A t \in {"ipv4_lpm", "neigh"} : Present(t) = {}
    /\ \A t \in {"cur_nh", "prv_nh"} : Present(t) = {0} /\ Entries(t)[0] = Drop

(* c4bmv2-readme.md: "/clear clears all states on both ASIC and            *)
(* Controller".  When no request is being served and the controller has no *)
(* routes, of this generation or the one before, no prefix is in service.  *)
ClearedOnBothSides ==
  /\ \A h \in Handlers : pc[h] = "idle"
  /\ cur_routes[nh_installer] = NoRoutes /\ prv_routes[nh_installer] = NoRoutes
  => Present("ipv4_lpm") = {}

(* Every request that a handler takes is answered. *)
Answered == \A h \in Handlers : pc[h] # "idle" ~> pc[h] = "idle"
=============================================================================
