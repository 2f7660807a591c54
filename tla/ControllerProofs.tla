--------------------------- MODULE ControllerProofs ---------------------------
(***************************************************************************)
(* What holds of the controller for every number of prefixes, nexthops and *)
(* routes.  With any number of handlers, and whatever fails: types, and    *)
(* that index 0 never forwards.  With one handler at a time: that LPM      *)
(* entries stay within their tables, what an /install and a /clear leave   *)
(* behind, and that the controller implements Generations.                 *)
(***************************************************************************)
EXTENDS ControllerRefinement, NhExpansionProofs, FiniteSetTheorems

LEMMA BlockType ==
  ASSUME NEW nh \in Seq(Nexthops), Len(nh) <= 2^HashBits
  PROVE  ExpandNh(nh) \in Seq(Nexthops)
BY ExpansionType

(* "if route not in self.cur_routes: append" keeps a RIB list free of      *)
(* duplicates.                                                             *)
LEMMA AppendInjective ==
  ASSUME NEW nh \in Seq(Nexthops), IsInjective(nh),
         NEW n \in Nexthops, n \notin Range(nh)
  PROVE  IsInjective(Append(nh, n))
BY DEF IsInjective, Range

(* list.remove shortens the list and keeps it free of duplicates. *)
LEMMA WithoutType ==
  ASSUME NEW nh \in Seq(Nexthops), NEW i \in DOMAIN nh
  PROVE  /\ Without(nh, i) \in Seq(Nexthops)
         /\ Len(Without(nh, i)) = Len(nh) - 1
         /\ IsInjective(nh) => IsInjective(Without(nh, i))
<1> DEFINE w == [k \in 1 .. Len(nh) - 1 |-> IF k < i THEN nh[k] ELSE nh[k + 1]]
<1>1. i \in 1 .. Len(nh) /\ Len(nh) - 1 \in Nat
  OBVIOUS
<1>2. \A k \in 1 .. Len(nh) - 1 : w[k] \in Nexthops
  BY <1>1
<1>3. w \in Seq(Nexthops) /\ Len(w) = Len(nh) - 1
  BY <1>1, <1>2
<1>4. IsInjective(nh) => IsInjective(w)
  BY <1>1 DEF IsInjective
<1> QED
  BY <1>3, <1>4 DEF Without

LEMMA FirstAtType ==
  ASSUME NEW nh \in Seq(Nexthops), NEW n, n \in Range(nh)
  PROVE  /\ FirstAt(nh, n) \in DOMAIN nh
         /\ nh[FirstAt(nh, n)] = n
<1> DEFINE S == {i \in DOMAIN nh : nh[i] = n}
<1>1. S \in SUBSET Nat /\ S # {}
  BY DEF Range
<1>2. \E m \in S : \A k \in S : m <= k
  <2> HIDE DEF S
  <2> QED BY <1>1, LeastElement
<1>3. \E i \in DOMAIN nh : nh[i] = n /\ \A k \in DOMAIN nh : nh[k] = n => i <= k
  BY <1>2
<1> QED
  BY <1>3 DEF FirstAt

LEMMA RibType ==
  ASSUME NEW rib, rib \in Rib, NEW p \in Prefixes
  PROVE  rib[p] \in Seq(Nexthops) /\ Len(rib[p]) <= 2^HashBits /\ Len(rib[p]) \in Nat
BY DEF Rib

LEMMA NoRoutesType == NoRoutes \in Rib /\ \A p \in Prefixes : IsInjective(NoRoutes[p])
BY PowersAreNat DEF NoRoutes, Rib, IsInjective

LEMMA SomeRibsType == SomeRibs \subseteq Rib
BY PowersAreNat DEF SomeRibs, Rib

LEMMA NoTableType == NoTable \in ECMPerTables
BY NoRoutesType DEF NoTable, ECMPerTables

LEMMA NhValueType == \A n \in Nexthops : NhValue(n) \in NhAddrs
BY DEF NhAddrs

LEMMA ZeroIsHash == 0 \in HashRange
BY PowersAreNat DEF HashRange

LEMMA SomeInstaller == FirstInstaller \in Installers
<1>1. Installers # {}
  BY ControllerAssumption, FS_EmptySet, FS_CardinalityType
<1> QED
  BY <1>1 DEF FirstInstaller

-----------------------------------------------------------------------------
(***************************************************************************)
(* Type correctness.  What is not a type in the invariant: a handler that  *)
(* is about to write a neighbor entry has the arguments in call, and an    *)
(* install never clears the neighbor table.                                *)
(***************************************************************************)
LocalsOK ==
  \A h \in Handlers :
    /\ pc[h] = "put_neigh" => call[h].tab = "neigh"
    /\ pc[h] \in {"read", "delete"} /\ job[h] = "install" => tab[h] # "neigh"

TypeInv == TypeOK /\ LocalsOK

LEMMA RibsKept ==
  ASSUME RibTypeOK, NoRouteTwice, UNCHANGED ribVars
  PROVE  RibTypeOK' /\ NoRouteTwice'
BY DEF RibTypeOK, NoRouteTwice, ribVars, history

Values(t) == CASE t = "ipv4_lpm" -> LpmParams
               [] t = "neigh" -> NeighPorts
               [] OTHER -> NhActions

LEMMA WriteType ==
  ASSUME SwitchTypeOK, NEW t \in Tables, NEW k \in Keys(t),
         NEW v \in Values(t) \cup {Absent}, Write(t, k, v)
  PROVE  SwitchTypeOK'
<1>1. CASE t = "ipv4_lpm"
  BY <1>1 DEF SwitchTypeOK, Keys, Values, Write
<1>2. CASE t = "cur_nh"
  BY <1>2 DEF SwitchTypeOK, Keys, Values, Write
<1>3. CASE t = "prv_nh"
  BY <1>3 DEF SwitchTypeOK, Keys, Values, Write
<1>4. CASE t = "neigh"
  BY <1>4 DEF SwitchTypeOK, Keys, Values, Write
<1> QED
  BY <1>1, <1>2, <1>3, <1>4 DEF Tables

LEMMA CallWritable ==
  ASSUME NEW c \in Calls, c # NoCall
  PROVE  c.tab \in Tables /\ c.key \in Keys(c.tab) /\ c.value \in Values(c.tab)
BY DEF Calls, Tables, Keys, Values

LEMMA CallMade ==
  ASSUME NEW t \in Tables, NEW k \in Keys(t), NEW v \in Values(t)
  PROVE  [tab |-> t, key |-> k, value |-> v] \in Calls
BY DEF Calls, Tables, Keys, Values

LEMMA NoCallType == NoCall \in Calls
BY DEF Calls

LEMMA PresentKeys ==
  ASSUME SwitchTypeOK, NEW t \in Tables
  PROVE  Present(t) \subseteq Keys(t)
BY DEF SwitchTypeOK, Present, Entries, Keys, Tables

LEMMA GotoType ==
  ASSUME HandlerTypeOK, NEW h \in Handlers, NEW label \in Labels, Goto(h, label)
  PROVE  /\ pc' \in [Handlers -> Labels]
         /\ pc'[h] = label
         /\ \A g \in Handlers \ {h} : pc'[g] = pc[g]
BY DEF HandlerTypeOK, Goto

(* What follows a write keeps the locals typed. *)
LEMMA ProceedType ==
  ASSUME TypeOK, NEW h \in Handlers, NEW k, Proceed(h, k), UNCHANGED <<table, tab>>
  PROVE  /\ pc' \in [Handlers -> Labels]
         /\ idx' \in [Handlers -> Nat \ {0}]
         /\ keys' \in [Handlers -> SUBSET UNION {Keys(t) : t \in Tables}]
         /\ KeysOK'
         /\ pc'[h] \notin {"put_neigh", "read", "delete"}
         /\ \A g \in Handlers \ {h} : pc'[g] = pc[g]
<1> USE DEF TypeOK, HandlerTypeOK
<1> DEFINE All == UNION {Keys(t) : t \in Tables}
<1> HIDE DEF All
<1>0. keys \in [Handlers -> SUBSET All]
  BY DEF All
<1>1. CASE pc[h] = "drop_prv" /\ Goto(h, "drop_cur") /\ UNCHANGED <<idx, keys>>
  BY <1>0, <1>1 DEF Goto, Labels, KeysOK, All
<1>2. CASE /\ pc[h] = "drop_cur"
           /\ Goto(h, IF job[h] = "clear" THEN "renew" ELSE "put_prv")
           /\ idx' = [idx EXCEPT ![h] = 1] /\ UNCHANGED keys
  BY <1>0, <1>2 DEF Goto, Labels, KeysOK, All
<1>3. CASE /\ pc[h] \in {"put_prv", "put_cur"}
           /\ idx' = [idx EXCEPT ![h] = @ + 1] /\ UNCHANGED <<pc, keys>>
  BY <1>0, <1>3 DEF KeysOK, All
<1>4. CASE /\ pc[h] = "put_lpm"
           /\ keys' = [keys EXCEPT ![h] = @ \ {k}] /\ UNCHANGED <<pc, idx>>
  BY <1>0, <1>4 DEF KeysOK, All
<1>5. CASE pc[h] = "put_neigh" /\ Goto(h, "reply") /\ UNCHANGED <<idx, keys>>
  BY <1>0, <1>5 DEF Goto, Labels, KeysOK, All
<1> QED
  BY <1>1, <1>2, <1>3, <1>4, <1>5 DEF Proceed

LEMMA AbortType ==
  ASSUME TypeOK, NEW h \in Handlers, Abort(h), UNCHANGED <<table, tab>>
  PROVE  /\ pc' \in [Handlers -> Labels]
         /\ KeysOK'
         /\ pc'[h] \notin {"put_neigh", "read", "delete"}
         /\ \A g \in Handlers \ {h} : pc'[g] = pc[g]
BY DEF TypeOK, HandlerTypeOK, Abort, Goto, Labels, KeysOK

LEMMA InsertType ==
  ASSUME TypeInv, NEW h \in Handlers, pc[h] # "put_neigh",
         NEW t \in Tables, NEW k, NEW v,
         Encodable(t, k, v) => k \in Keys(t) /\ v \in Values(t),
         Insert(h, t, k, v),
         UNCHANGED <<ribVars, job, self, todo, table, tab>>
  PROVE  TypeInv'
<1> USE DEF TypeInv, TypeOK
<1>1. RibTypeOK' /\ NoRouteTwice'
  BY RibsKept
<1>2. CASE /\ Encodable(t, k, v) /\ Write(t, k, v) /\ Proceed(h, k)
           /\ call' = [call EXCEPT ![h] = NoCall]
  <2>1. SwitchTypeOK'
    BY <1>2, WriteType
  <2>2. /\ pc' \in [Handlers -> Labels] /\ idx' \in [Handlers -> Nat \ {0}]
        /\ keys' \in [Handlers -> SUBSET UNION {Keys(u) : u \in Tables}]
        /\ KeysOK' /\ pc'[h] \notin {"put_neigh", "read", "delete"}
        /\ \A g \in Handlers \ {h} : pc'[g] = pc[g]
    BY <1>2, ProceedType
  <2>3. HandlerTypeOK'
    BY <1>2, <2>2, NoCallType DEF HandlerTypeOK
  <2>4. LocalsOK'
    BY <1>2, <2>2 DEF LocalsOK, HandlerTypeOK
  <2> QED
    BY <1>1, <2>1, <2>2, <2>3, <2>4
<1>3. CASE /\ Encodable(t, k, v)
           /\ call' = [call EXCEPT ![h] = [tab |-> t, key |-> k, value |-> v]]
           /\ UNCHANGED <<switchVars, pc, idx, keys>>
  <2>1. [tab |-> t, key |-> k, value |-> v] \in Calls
    BY <1>3, CallMade
  <2>2. SwitchTypeOK' /\ KeysOK'
    BY <1>3 DEF SwitchTypeOK, switchVars, KeysOK
  <2>3. HandlerTypeOK' /\ LocalsOK'
    BY <1>3, <2>1 DEF HandlerTypeOK, LocalsOK
  <2> QED
    BY <1>1, <2>2, <2>3
<1>4. CASE Abort(h) /\ UNCHANGED call
  <2>1. /\ pc' \in [Handlers -> Labels] /\ KeysOK' /\ pc'[h] \notin {"put_neigh", "read", "delete"}
        /\ \A g \in Handlers \ {h} : pc'[g] = pc[g]
    BY <1>4, AbortType
  <2>2. SwitchTypeOK' /\ HandlerTypeOK' /\ LocalsOK'
    BY <1>4, <2>1 DEF Abort, switchVars, SwitchTypeOK, HandlerTypeOK, LocalsOK
  <2> QED
    BY <1>1, <2>1, <2>2
<1> QED
  BY <1>2, <1>3, <1>4 DEF Insert

(* do_encode makes blocks of nexthops and offsets that are natural numbers. *)
LEMMA EncodeType ==
  ASSUME NEW t \in ECMPerTables, NEW p \in Prefixes
  PROVE  EncodePrefix(t, p) \in ECMPerTables
<1> DEFINE prv == ExpandNh(t.prv[p])  cur == ExpandNh(t.cur[p])
           params == [prv_offset |-> Len(t.prv_nh) + 1, prv_count |-> Len(prv),
                      cur_offset |-> Len(t.cur_nh) + 1, cur_count |-> Len(cur)]
<1>1. t.prv \in Rib /\ t.cur \in Rib /\ t.prv_nh \in Seq(Nexthops) /\ t.cur_nh \in Seq(Nexthops)
      /\ t.lpm \in [Prefixes -> LpmParams \cup {Absent}]
  BY DEF ECMPerTables
<1>2. prv \in Seq(Nexthops) /\ cur \in Seq(Nexthops)
  BY <1>1, RibType, BlockType
<1>3. EncodePrefix(t, p) = [t EXCEPT !.lpm[p] = params,
                                     !.prv_nh = @ \o prv, !.cur_nh = @ \o cur]
  BY DEF EncodePrefix
<1> HIDE DEF prv, cur
<1>4. params \in LpmParams
  BY <1>1, <1>2 DEF LpmParams
<1> HIDE DEF params
<1>5. [t.lpm EXCEPT ![p] = params] \in [Prefixes -> LpmParams \cup {Absent}]
  BY <1>1, <1>4
<1>6. t.prv_nh \o prv \in Seq(Nexthops) /\ t.cur_nh \o cur \in Seq(Nexthops)
  BY <1>1, <1>2
<1> QED
  BY <1>1, <1>3, <1>5, <1>6 DEF ECMPerTables

(* Loops over the queues. *)
LEMMA LoopType ==
  /\ NoLoop \in Loops
  /\ \A queue \in Seq(Routes) : LoopOver(queue) \in Loops
  /\ \A loop \in Loops : loop.list # <<>> =>
       Head(loop.list) \in Routes /\ [loop EXCEPT !.list = Tail(@)] \in Loops
  /\ \A loop \in Loops : [loop EXCEPT !.live = FALSE] \in Loops
<1>1. NoLoop \in Loops /\ \A queue \in Seq(Routes) : LoopOver(queue) \in Loops
  BY DEF NoLoop, Loops, LoopOver
<1>2. ASSUME NEW loop \in Loops, loop.list # <<>>
      PROVE  Head(loop.list) \in Routes /\ [loop EXCEPT !.list = Tail(@)] \in Loops
  <2>1. loop.list \in Seq(Routes)
    BY DEF Loops
  <2>2. Head(loop.list) \in Routes /\ Tail(loop.list) \in Seq(Routes)
    BY <1>2, <2>1
  <2> QED
    BY <2>2 DEF Loops
<1>3. \A loop \in Loops : [loop EXCEPT !.live = FALSE] \in Loops
  BY DEF Loops
<1> QED
  BY <1>1, <1>2, <1>3

LEMMA SeenByType ==
  ASSUME HandlerTypeOK, NEW label, NEW r \in Routes
  PROVE  SeenBy(label, r) \in [Handlers -> Loops]
<1>1. \A loop \in Loops : [loop EXCEPT !.list = Append(@, r)] \in Loops
  BY DEF Loops
<1> QED
  BY <1>1 DEF SeenBy, HandlerTypeOK

LEMMA InitType == Init => TypeInv
<1> SUFFICES ASSUME Init PROVE TypeInv
  OBVIOUS
<1>1. SwitchTypeOK
  BY ZeroIsHash
  DEF Init, SwitchTypeOK, EmptyLpm, OnlyDrop, EmptyNeigh, NhActions
<1>2. RibTypeOK
  BY NoRoutesType, SomeInstaller DEF Init, RibTypeOK, EmptyQueues, EmptyRibs
<1>3. NoRouteTwice
  BY NoRoutesType DEF Init, NoRouteTwice, EmptyRibs
<1>4. HandlerTypeOK
  BY SomeInstaller, NoTableType, NoCallType, LoopType DEF Init, HandlerTypeOK, Labels, Tables
<1>5. KeysOK /\ LocalsOK
  BY DEF Init, KeysOK, LocalsOK
<1> QED
  BY <1>1, <1>2, <1>3, <1>4, <1>5 DEF TypeInv, TypeOK

LEMMA RoutesKept ==
  ASSUME NoRouteTwice, UNCHANGED <<cur_routes, prv_routes, overlapped>>
  PROVE  NoRouteTwice'
BY DEF NoRouteTwice

(* Requests *)
LEMMA RequestType ==
  ASSUME TypeInv, Request
  PROVE  TypeInv'
<1> USE DEF TypeInv, TypeOK, RequestAllowed, StartJob, Goto
<1>1. ASSUME NEW r \in Routes, RestAdd(r)
      PROVE  TypeInv'
  <2>1. SwitchTypeOK' /\ RibTypeOK' /\ NoRouteTwice'
    BY <1>1, RoutesKept DEF RestAdd, SwitchTypeOK, RibTypeOK, switchVars, ribVars, history
  <2>2. todo' \in [Handlers -> Loops]
    BY <1>1, SeenByType DEF RestAdd
  <2>3. HandlerTypeOK'
    BY <1>1, <2>2 DEF RestAdd, HandlerTypeOK
  <2>4. KeysOK' /\ LocalsOK'
    BY <1>1 DEF RestAdd, KeysOK, LocalsOK
  <2> QED
    BY <2>1, <2>3, <2>4
<1>2. ASSUME NEW r \in Routes, RestDel(r)
      PROVE  TypeInv'
  <2>1. SwitchTypeOK' /\ RibTypeOK' /\ NoRouteTwice'
    BY <1>2, RoutesKept DEF RestDel, SwitchTypeOK, RibTypeOK, switchVars, ribVars, history
  <2>2. todo' \in [Handlers -> Loops]
    BY <1>2, SeenByType DEF RestDel
  <2>3. HandlerTypeOK'
    BY <1>2, <2>2 DEF RestDel, HandlerTypeOK
  <2>4. KeysOK' /\ LocalsOK'
    BY <1>2 DEF RestDel, KeysOK, LocalsOK
  <2> QED
    BY <2>1, <2>3, <2>4
<1>3. ASSUME NEW h \in Handlers, RestInstall(h)
      PROVE  TypeInv'
  <2>1. SwitchTypeOK' /\ RibTypeOK' /\ NoRouteTwice'
    BY <1>3, RoutesKept DEF RestInstall, SwitchTypeOK, RibTypeOK, switchVars, ribVars, history
  <2>2. HandlerTypeOK'
    BY <1>3 DEF RestInstall, RibTypeOK, HandlerTypeOK, Labels
  <2>3. KeysOK' /\ LocalsOK'
    BY <1>3 DEF RestInstall, HandlerTypeOK, KeysOK, LocalsOK
  <2> QED
    BY <2>1, <2>2, <2>3
<1>4. ASSUME NEW h \in Handlers, RestClear(h)
      PROVE  TypeInv'
  <2>1. SwitchTypeOK' /\ RibTypeOK' /\ NoRouteTwice'
    BY <1>4, RoutesKept DEF RestClear, SwitchTypeOK, RibTypeOK, switchVars, ribVars, history
  <2>2. HandlerTypeOK'
    BY <1>4 DEF RestClear, HandlerTypeOK, Labels, Tables
  <2>3. KeysOK' /\ LocalsOK'
    BY <1>4 DEF RestClear, HandlerTypeOK, KeysOK, LocalsOK
  <2> QED
    BY <2>1, <2>2, <2>3
<1>5. ASSUME NEW h \in Handlers, NEW a \in NeighAddrs, NEW action \in NeighPorts,
             RestNeighAdd(h, a, action)
      PROVE  TypeInv'
  <2>1. SwitchTypeOK' /\ RibTypeOK' /\ NoRouteTwice'
    BY <1>5, RoutesKept DEF RestNeighAdd, SwitchTypeOK, RibTypeOK, switchVars, ribVars, history
  <2>2. [tab |-> "neigh", key |-> a, value |-> action] \in Calls
    BY DEF Calls
  <2>3. HandlerTypeOK'
    BY <1>5, <2>2 DEF RestNeighAdd, HandlerTypeOK, Labels
  <2>4. KeysOK' /\ LocalsOK'
    BY <1>5 DEF RestNeighAdd, HandlerTypeOK, KeysOK, LocalsOK
  <2> QED
    BY <2>1, <2>3, <2>4
<1>6. ASSUME NEW a \in NeighAddrs, RestNeighDel(a)
      PROVE  TypeInv'
  BY <1>6, RoutesKept DEF RestNeighDel, SwitchTypeOK, RibTypeOK, HandlerTypeOK, KeysOK, LocalsOK,
              ribVars, history, handlerVars
<1> QED
  BY <1>1, <1>2, <1>3, <1>4, <1>5, <1>6 DEF Request

(* One iteration of the loops over the queues. *)
LEMMA NextRouteType ==
  ASSUME TypeInv, NEW h \in Handlers, NextRoute(h), Shifts(h)
  PROVE  /\ SwitchTypeOK' /\ HandlerTypeOK' /\ KeysOK' /\ LocalsOK'
         /\ Head(todo[h].list) \in Routes /\ self[h] \in Installers
         /\ cur_routes' \in [Installers -> Rib] /\ overlapped' \subseteq Installers => RibTypeOK'
<1> USE DEF TypeInv, TypeOK
<1>1. SwitchTypeOK'
  BY DEF NextRoute, SwitchTypeOK, switchVars
<1>2. Head(todo[h].list) \in Routes /\ [todo[h] EXCEPT !.list = Tail(@)] \in Loops
  BY LoopType DEF NextRoute, HandlerTypeOK
<1>3. todo' = [todo EXCEPT ![h] = [todo[h] EXCEPT !.list = Tail(@)]]
  BY DEF NextRoute
<1>4. todo' \in [Handlers -> Loops]
  BY <1>2, <1>3 DEF HandlerTypeOK
<1>5. HandlerTypeOK' /\ KeysOK' /\ LocalsOK'
  BY <1>4 DEF NextRoute, HandlerTypeOK, KeysOK, LocalsOK
<1>6. shifted' \subseteq Handlers
  BY DEF Shifts, RibTypeOK
<1>7. self[h] \in Installers
  BY DEF HandlerTypeOK
<1> QED
  BY <1>1, <1>2, <1>5, <1>6, <1>7 DEF NextRoute, RibTypeOK

(* One list of cur_routes is replaced. *)
LEMMA ListReplaced ==
  ASSUME RibTypeOK, NoRouteTwice, NEW i \in Installers, NEW p \in Prefixes,
         NEW list \in Seq(Nexthops), Len(list) <= 2^HashBits,
         cur_routes' = [cur_routes EXCEPT ![i][p] = list],
         prv_routes' = prv_routes, overlapped \subseteq overlapped',
         i \notin overlapped' => IsInjective(list)
  PROVE  cur_routes' \in [Installers -> Rib] /\ NoRouteTwice'
<1> DEFINE new == [cur_routes[i] EXCEPT ![p] = list]
<1>1. cur_routes[i] \in Rib /\ cur_routes \in [Installers -> Rib]
  BY DEF RibTypeOK
<1>2. new \in Rib
  BY <1>1 DEF Rib
<1>3. cur_routes' = [cur_routes EXCEPT ![i] = new]
  OBVIOUS
<1>4. ASSUME NEW j \in Installers \ overlapped', NEW q \in Prefixes
      PROVE  IsInjective(cur_routes'[j][q]) /\ IsInjective(prv_routes'[j][q])
  <2>1. IsInjective(cur_routes[j][q]) /\ IsInjective(prv_routes[j][q])
    BY DEF NoRouteTwice
  <2>2. CASE j = i /\ q = p
    <3>1. cur_routes'[j][q] = list
      BY <1>1, <2>2 DEF Rib
    <3> QED
      BY <2>1, <2>2, <3>1
  <2>3. CASE ~ (j = i /\ q = p)
    <3>1. cur_routes'[j][q] = cur_routes[j][q]
      BY <1>1, <2>3 DEF Rib
    <3> QED
      BY <2>1, <3>1
  <2> QED
    BY <2>2, <2>3
<1> HIDE DEF new
<1> QED
  BY <1>1, <1>2, <1>3, <1>4 DEF NoRouteTwice

LEMMA AppendRouteType ==
  ASSUME RibTypeOK, NoRouteTwice, NEW i \in Installers, NEW r \in Routes, AppendRoute(i, r),
         prv_routes' = prv_routes, overlapped \subseteq overlapped',
         i \in overlapped' \/ ~ HasRoute(cur_routes[i], r)
  PROVE  cur_routes' \in [Installers -> Rib] /\ NoRouteTwice'
<1> DEFINE p == r.prefix  old == cur_routes[i][p]  list == Append(old, r.nexthop)
<1>1. p \in Prefixes /\ r.nexthop \in Nexthops
  BY DEF Routes
<1>2. cur_routes[i] \in Rib
  BY DEF RibTypeOK
<1>3. old \in Seq(Nexthops) /\ Len(old) < 2^HashBits /\ 2^HashBits \in Nat
  BY <1>1, <1>2, RibType, PowersAreNat DEF AppendRoute, Room
<1>4. i \notin overlapped' => IsInjective(old) /\ r.nexthop \notin Range(old)
  BY <1>1 DEF HasRoute, NoRouteTwice
<1>5. cur_routes' = [cur_routes EXCEPT ![i][p] = list]
  BY DEF AppendRoute
<1> HIDE DEF old, p
<1>6. list \in Seq(Nexthops) /\ Len(list) <= 2^HashBits
  BY <1>1, <1>3
<1>7. i \notin overlapped' => IsInjective(list)
  BY <1>1, <1>3, <1>4, AppendInjective
<1> HIDE DEF list
<1> QED
  BY <1>1, <1>5, <1>6, <1>7, ListReplaced

LEMMA RemoveRouteType ==
  ASSUME RibTypeOK, NoRouteTwice, NEW i \in Installers, NEW p \in Prefixes,
         NEW n \in DOMAIN cur_routes[i][p], RemoveRoute(i, p, n),
         prv_routes' = prv_routes, overlapped' = overlapped
  PROVE  cur_routes' \in [Installers -> Rib] /\ NoRouteTwice'
<1> DEFINE old == cur_routes[i][p]  list == Without(old, n)
<1>1. cur_routes[i] \in Rib
  BY DEF RibTypeOK
<1>2. old \in Seq(Nexthops) /\ Len(old) <= 2^HashBits /\ Len(old) \in Nat /\ 2^HashBits \in Nat
  BY <1>1, RibType, PowersAreNat
<1>3. i \notin overlapped' => IsInjective(old)
  BY DEF NoRouteTwice
<1>4. cur_routes' = [cur_routes EXCEPT ![i][p] = list]
  BY DEF RemoveRoute
<1>5. n \in DOMAIN old
  OBVIOUS
<1> HIDE DEF old
<1>6. list \in Seq(Nexthops) /\ Len(list) = Len(old) - 1 /\ (IsInjective(old) => IsInjective(list))
  BY <1>2, <1>5, WithoutType
<1> HIDE DEF list
<1>7. Len(list) <= 2^HashBits
  BY <1>2, <1>6
<1> QED
  BY <1>3, <1>4, <1>6, <1>7, ListReplaced

(* The steps of process_routes in memory leave the switch alone. *)
MemoryStep(h) ==
  \/ TakeSnapshot(h) \/ AddRoute(h) \/ AddsDone(h) \/ DelRoute(h) \/ DelsDone(h)
  \/ AddRouteShifted(h) \/ DelRouteShifted(h) \/ RemoveFails(h)
  \/ BuildPrv(h) \/ BuildCur(h) \/ Encode(h) \/ EncodeDone(h)

LEMMA MemoryFrame ==
  ASSUME TypeInv, NEW h \in Handlers, MemoryStep(h)
  PROVE  /\ UNCHANGED <<switchVars, nh_installer, add_queue, del_queue, job, self, keys, call>>
         /\ pc[h] \in {"snapshot", "adds", "dels", "build", "build_cur", "encode"}
         /\ \A g \in Handlers \ {h} : pc'[g] = pc[g]
         /\ \/ /\ pc'[h] \in {"adds", "dels", "build", "build_cur", "encode", "reply"}
               /\ UNCHANGED tab
            \/ pc'[h] = "read" /\ tab'[h] = "ipv4_lpm"
         /\ table' = table \/ BuildPrv(h) \/ BuildCur(h) \/ Encode(h)
<1>1. pc \in [Handlers -> Labels] /\ tab \in [Handlers -> Tables]
  BY DEF TypeInv, TypeOK, HandlerTypeOK
<1>2. CASE TakeSnapshot(h) \/ AddsDone(h) \/ DelsDone(h) \/ RemoveFails(h)
  BY <1>1, <1>2 DEF TakeSnapshot, AddsDone, DelsDone, RemoveFails, Goto
<1>3. CASE AddRoute(h) \/ AddRouteShifted(h) \/ DelRoute(h) \/ DelRouteShifted(h)
  BY <1>1, <1>3 DEF AddRoute, AddRouteShifted, DelRoute, DelRouteShifted, NextRoute
<1>4. CASE BuildPrv(h) \/ BuildCur(h) \/ Encode(h) \/ EncodeDone(h)
  BY <1>1, <1>4 DEF BuildPrv, BuildCur, Encode, EncodeDone, Goto, ribVars
<1> QED
  BY <1>2, <1>3, <1>4 DEF MemoryStep

LEMMA MemoryType ==
  ASSUME TypeInv, NEW h \in Handlers, MemoryStep(h)
  PROVE  TypeInv'
<1> USE DEF TypeInv, TypeOK
<1>1. SwitchTypeOK'
  BY DEF SwitchTypeOK, switchVars, MemoryStep, TakeSnapshot, AddRoute, AddsDone, DelRoute, DelsDone,
         AddRouteShifted, DelRouteShifted, RemoveFails, NextRoute, BuildPrv, BuildCur, Encode,
         EncodeDone
<1>2. CASE TakeSnapshot(h)
  <2>1. RibTypeOK' /\ NoRouteTwice'
    BY <1>2 DEF TakeSnapshot, RibTypeOK, HandlerTypeOK, NoRouteTwice, history
  <2>2. HandlerTypeOK' /\ KeysOK' /\ LocalsOK'
    BY <1>2, LoopType DEF TakeSnapshot, Goto, Labels, RibTypeOK, HandlerTypeOK, KeysOK, LocalsOK
  <2> QED
    BY <1>1, <2>1, <2>2
<1>3. ASSUME AddRoute(h) \/ AddRouteShifted(h) PROVE TypeInv'
  <2> DEFINE r == Head(todo[h].list)  i == self[h]
  <2>1. /\ NextRoute(h) /\ Shifts(h) /\ prv_routes' = prv_routes
        /\ \/ cur_routes' = cur_routes /\ overlapped' = overlapped
           \/ AppendRoute(i, r) /\ overlapped' = overlapped /\ ~ HasRoute(cur_routes[i], r)
           \/ AppendRoute(i, r) /\ overlapped' = overlapped \cup {i}
    BY <1>3 DEF AddRoute, AddRouteShifted, NextRoute
  <2>2. r \in Routes /\ i \in Installers
    BY <2>1, NextRouteType
  <2> HIDE DEF r, i
  <2>3. cur_routes' \in [Installers -> Rib] /\ NoRouteTwice' /\ overlapped' \subseteq Installers
    <3>1. CASE cur_routes' = cur_routes /\ overlapped' = overlapped
      BY <2>1, <3>1, RoutesKept DEF RibTypeOK
    <3>2. CASE /\ AppendRoute(i, r)
               /\ \/ overlapped' = overlapped /\ ~ HasRoute(cur_routes[i], r)
                  \/ overlapped' = overlapped \cup {i}
      <4>1. overlapped \subseteq overlapped' /\ (i \in overlapped' \/ ~ HasRoute(cur_routes[i], r))
        BY <3>2
      <4>2. cur_routes' \in [Installers -> Rib] /\ NoRouteTwice'
        BY <2>1, <2>2, <3>2, <4>1, AppendRouteType
      <4> QED
        BY <2>2, <3>2, <4>2 DEF RibTypeOK
    <3> QED
      BY <2>1, <3>1, <3>2
  <2> QED
    BY <2>1, <2>3, NextRouteType
<1>4. CASE AddsDone(h)
  <2>1. RibTypeOK' /\ NoRouteTwice'
    BY <1>4, RoutesKept DEF AddsDone, RibTypeOK
  <2>2. HandlerTypeOK' /\ KeysOK' /\ LocalsOK'
    BY <1>4, LoopType DEF AddsDone, Goto, Labels, RibTypeOK, HandlerTypeOK, KeysOK, LocalsOK
  <2> QED
    BY <1>1, <2>1, <2>2
<1>5. ASSUME DelRoute(h) \/ DelRouteShifted(h) PROVE TypeInv'
  <2> DEFINE r == Head(todo[h].list)  i == self[h]
  <2>1. NextRoute(h) /\ Shifts(h) /\ prv_routes' = prv_routes /\ overlapped' = overlapped
    BY <1>5 DEF DelRoute, DelRouteShifted, NextRoute
  <2>2. r \in Routes /\ i \in Installers
    BY <2>1, NextRouteType
  <2>3. \/ cur_routes' = cur_routes
        \/ \E p \in Prefixes : \E n \in DOMAIN cur_routes[i][p] : RemoveRoute(i, p, n)
    <3>1. CASE DelRoute(h) /\ HasRoute(cur_routes[i], r)
      <4>1. r.prefix \in Prefixes /\ cur_routes[i] \in Rib
        BY <2>2 DEF Routes, RibTypeOK
      <4>2. FirstAt(cur_routes[i][r.prefix], r.nexthop) \in DOMAIN cur_routes[i][r.prefix]
        BY <3>1, <4>1, RibType, FirstAtType DEF HasRoute
      <4>3. RemoveRoute(i, r.prefix, FirstAt(cur_routes[i][r.prefix], r.nexthop))
        BY <3>1 DEF DelRoute
      <4> HIDE DEF i, r
      <4> QED
        BY <4>1, <4>2, <4>3
    <3>2. CASE DelRoute(h) /\ ~ HasRoute(cur_routes[i], r)
      BY <3>2 DEF DelRoute
    <3>3. CASE DelRouteShifted(h)
      BY <3>3 DEF DelRouteShifted
    <3> QED
      BY <1>5, <3>1, <3>2, <3>3
  <2> HIDE DEF r, i
  <2>4. cur_routes' \in [Installers -> Rib] /\ NoRouteTwice'
    <3>1. CASE cur_routes' = cur_routes
      BY <2>1, <3>1, RoutesKept DEF RibTypeOK
    <3>2. ASSUME NEW p \in Prefixes, NEW n \in DOMAIN cur_routes[i][p], RemoveRoute(i, p, n)
          PROVE  cur_routes' \in [Installers -> Rib] /\ NoRouteTwice'
      BY <2>1, <2>2, <3>2, RemoveRouteType
    <3> QED
      BY <2>3, <3>1, <3>2
  <2>5. overlapped' \subseteq Installers
    BY <2>1 DEF RibTypeOK
  <2> QED
    BY <2>1, <2>4, <2>5, NextRouteType
<1>6. CASE DelsDone(h) \/ RemoveFails(h)
  <2>1. RibTypeOK' /\ NoRouteTwice'
    BY <1>6, RoutesKept DEF DelsDone, RemoveFails, RibTypeOK
  <2>2. todo' = [todo EXCEPT ![h] = NoLoop] /\ NoLoop \in Loops
    BY <1>6, LoopType DEF DelsDone, RemoveFails
  <2>3. \E label \in {"build", "reply"} : pc' = [pc EXCEPT ![h] = label]
    BY <1>6 DEF DelsDone, RemoveFails, Goto
  <2>4. UNCHANGED <<job, self, table, idx, tab, keys, call>>
    BY <1>6 DEF DelsDone, RemoveFails
  <2>5. todo' \in [Handlers -> Loops]
    BY <2>2 DEF HandlerTypeOK
  <2>6. HandlerTypeOK' /\ KeysOK' /\ LocalsOK'
    BY <2>3, <2>4, <2>5 DEF Labels, HandlerTypeOK, KeysOK, LocalsOK
  <2> QED
    BY <1>1, <2>1, <2>6
<1>7. ASSUME BuildPrv(h) \/ BuildCur(h) PROVE TypeInv'
  <2>1. RibTypeOK' /\ NoRouteTwice'
    BY <1>7, RoutesKept DEF BuildPrv, BuildCur, RibTypeOK, ribVars, history
  <2>2. /\ prv_routes[self[h]] \in Rib /\ cur_routes[self[h]] \in Rib
        /\ table[h] \in ECMPerTables
    BY DEF RibTypeOK, HandlerTypeOK
  <2>3. PICK new \in ECMPerTables : table' = [table EXCEPT ![h] = new]
    <3>1. CASE BuildPrv(h)
      <4>1. [NoTable EXCEPT !.prv = prv_routes[self[h]]] \in ECMPerTables
        BY <2>2, NoTableType DEF ECMPerTables
      <4> QED
        BY <3>1, <4>1 DEF BuildPrv
    <3>2. CASE BuildCur(h)
      <4>1. PICK cur \in Rib : table' = [table EXCEPT ![h].cur = cur]
        BY <2>2, <3>2, SomeRibsType DEF BuildCur
      <4>2. [table[h] EXCEPT !.cur = cur] \in ECMPerTables
        BY <2>2 DEF ECMPerTables
      <4> QED
        BY <4>1, <4>2
    <3> QED
      BY <1>7, <3>1, <3>2
  <2>4. table' \in [Handlers -> ECMPerTables]
    BY <2>3 DEF HandlerTypeOK
  <2>5. HandlerTypeOK' /\ KeysOK' /\ LocalsOK'
    BY <1>7, <2>3, <2>4 DEF BuildPrv, BuildCur, Goto, Labels, HandlerTypeOK, KeysOK, LocalsOK
  <2> QED
    BY <1>1, <2>1, <2>5
<1>8. CASE Encode(h)
  <2>1. RibTypeOK' /\ NoRouteTwice'
    BY <1>8, RoutesKept DEF Encode, RibTypeOK, ribVars, history
  <2>2. table[h] \in ECMPerTables
    BY DEF HandlerTypeOK
  <2>3. \A p \in Prefixes : EncodePrefix(table[h], p) \in ECMPerTables
    BY <2>2, EncodeType
  <2>4. PrefixOrder[idx[h]] \in Prefixes
    BY <1>8, ControllerAssumption DEF Encode, HandlerTypeOK
  <2>5. table' \in [Handlers -> ECMPerTables]
    BY <1>8, <2>3, <2>4 DEF Encode, HandlerTypeOK
  <2>6. HandlerTypeOK'
    BY <1>8, <2>5 DEF Encode, HandlerTypeOK
  <2>7. KeysOK' /\ LocalsOK'
    BY <1>8 DEF Encode, HandlerTypeOK, KeysOK, LocalsOK
  <2> QED
    BY <1>1, <2>1, <2>6, <2>7
<1>9. CASE EncodeDone(h)
  <2>1. RibTypeOK' /\ NoRouteTwice'
    BY <1>9, RoutesKept DEF EncodeDone, RibTypeOK, ribVars, history
  <2>2. HandlerTypeOK' /\ KeysOK' /\ LocalsOK'
    BY <1>9 DEF EncodeDone, Goto, Labels, Tables, HandlerTypeOK, KeysOK, LocalsOK
  <2> QED
    BY <1>1, <2>1, <2>2
<1> QED
  BY <1>2, <1>3, <1>4, <1>5, <1>6, <1>7, <1>8, <1>9 DEF MemoryStep

(* clear_table_entries *)
LEMMA ClearType ==
  ASSUME TypeInv, NEW h \in Handlers,
         ReadTable(h) \/ DeleteEntry(h) \/ DeleteFails(h) \/ TableCleared(h)
  PROVE  TypeInv'
<1> USE DEF TypeInv, TypeOK
<1>1. RibTypeOK' /\ NoRouteTwice'
  BY RibsKept DEF ReadTable, DeleteEntry, DeleteFails, TableCleared
<1>2. tab[h] \in Tables
  BY DEF HandlerTypeOK
<1>3. CASE ReadTable(h)
  <2>1. SwitchTypeOK'
    BY <1>3 DEF ReadTable, SwitchTypeOK, switchVars
  <2>2. Present(tab[h]) \subseteq Keys(tab[h])
    BY <1>2, PresentKeys
  <2>3. HandlerTypeOK'
    BY <1>2, <1>3, <2>2 DEF ReadTable, Goto, Labels, HandlerTypeOK
  <2>4. KeysOK' /\ LocalsOK'
    BY <1>3, <2>2 DEF ReadTable, Goto, HandlerTypeOK, KeysOK, LocalsOK
  <2> QED
    BY <1>1, <2>1, <2>3, <2>4
<1>4. CASE DeleteEntry(h)
  <2>1. PICK k \in keys[h] : /\ k \in Present(tab[h])
                             /\ Write(tab[h], k, Absent)
                             /\ keys' = [keys EXCEPT ![h] = @ \ {k}]
    BY <1>4 DEF DeleteEntry
  <2>2. k \in Keys(tab[h])
    BY <1>2, <2>1, PresentKeys
  <2>3. SwitchTypeOK'
    BY <1>2, <2>1, <2>2, WriteType
  <2>4. HandlerTypeOK'
    BY <1>4, <2>1 DEF DeleteEntry, HandlerTypeOK
  <2>5. KeysOK' /\ LocalsOK'
    BY <1>4, <2>1 DEF DeleteEntry, HandlerTypeOK, KeysOK, LocalsOK
  <2> QED
    BY <1>1, <2>3, <2>4, <2>5
<1>5. CASE DeleteFails(h)
  <2>1. SwitchTypeOK'
    BY <1>5 DEF DeleteFails, SwitchTypeOK, switchVars
  <2>2. HandlerTypeOK' /\ KeysOK' /\ LocalsOK'
    BY <1>5 DEF DeleteFails, HandlerTypeOK, KeysOK, LocalsOK
  <2> QED
    BY <1>1, <2>1, <2>2
<1>6. CASE TableCleared(h)
  <2> DEFINE order == ClearOrder(job[h])
             n == CHOOSE n \in DOMAIN order : order[n] = tab[h]
  <2>1. SwitchTypeOK'
    BY <1>6 DEF TableCleared, SwitchTypeOK, switchVars
  <2>2. /\ n \in 1 .. Len(order)
        /\ \A i \in 1 .. Len(order) :
             order[i] \in Tables /\ (job[h] = "install" => order[i] # "neigh")
    BY <1>2, <1>6 DEF TableCleared, LocalsOK, ClearOrder, Tables
  <2>3. \/ n < Len(order) /\ tab' = [tab EXCEPT ![h] = order[n + 1]] /\ Goto(h, "read")
        \/ tab' = tab /\ Goto(h, "drop_prv")
    BY <1>6 DEF TableCleared
  <2> HIDE DEF order, n
  <2>4. n < Len(order) =>
          order[n + 1] \in Tables /\ (job[h] = "install" => order[n + 1] # "neigh")
    BY <2>2
  <2>5. tab' \in [Handlers -> Tables]
    BY <2>3, <2>4 DEF HandlerTypeOK
  <2>6. /\ pc' \in [Handlers -> Labels] /\ pc'[h] \in {"read", "drop_prv"}
        /\ \A g \in Handlers \ {h} : pc'[g] = pc[g]
    BY <2>3 DEF Goto, Labels, HandlerTypeOK
  <2>7. HandlerTypeOK'
    BY <1>6, <2>5, <2>6 DEF TableCleared, HandlerTypeOK
  <2>8. \A g \in Handlers \ {h} : tab'[g] = tab[g]
    BY <2>3 DEF HandlerTypeOK
  <2>9. KeysOK' /\ LocalsOK'
    BY <1>6, <2>3, <2>6, <2>8, <2>4 DEF TableCleared, HandlerTypeOK, KeysOK, LocalsOK
  <2> QED
    BY <1>1, <2>1, <2>7, <2>9
<1> QED
  BY <1>3, <1>4, <1>5, <1>6

(* install_nh_drop_entry and do_install *)
LEMMA WritesType ==
  ASSUME TypeInv, NEW h \in Handlers,
         \/ PutDrop(h) \/ PutPrv(h) \/ PrvDone(h) \/ PutCur(h) \/ CurDone(h)
         \/ PutLpm(h) \/ LpmDone(h)
  PROVE  TypeInv'
<1> USE DEF TypeInv, TypeOK
<1>1. table[h] \in ECMPerTables /\ idx[h] \in Nat \ {0}
  BY DEF HandlerTypeOK
<1>2. CASE PutDrop(h)
  <2> DEFINE t == IF pc[h] = "drop_prv" THEN "prv_nh" ELSE "cur_nh"
  <2>1. t \in Tables /\ 0 \in Keys(t) /\ Drop \in Values(t)
    BY ZeroIsHash DEF Tables, Keys, Values, NhActions
  <2>2. /\ pc[h] # "put_neigh" /\ Insert(h, t, 0, Drop)
        /\ UNCHANGED <<ribVars, job, self, todo, table, tab>>
    BY <1>2 DEF PutDrop
  <2> HIDE DEF t
  <2> QED
    BY <2>1, <2>2, InsertType
<1>3. CASE PutPrv(h)
  <2> DEFINE v == NhValue(table[h].prv_nh[idx[h]])
  <2>1. v \in NhAddrs
    BY <1>1, <1>3, NhValueType DEF PutPrv, ECMPerTables
  <2>2. /\ pc[h] # "put_neigh" /\ Insert(h, "prv_nh", idx[h], v)
        /\ UNCHANGED <<ribVars, job, self, todo, table, tab>>
    BY <1>3 DEF PutPrv
  <2> HIDE DEF v
  <2>3. "prv_nh" \in Tables /\ v \in Values("prv_nh")
    BY <2>1 DEF Tables, Values, NhActions
  <2>4. Encodable("prv_nh", idx[h], v) => idx[h] \in Keys("prv_nh")
    BY DEF Encodable, Keys
  <2> QED
    BY <2>2, <2>3, <2>4, InsertType
<1>4. CASE PutCur(h)
  <2> DEFINE v == NhValue(table[h].cur_nh[idx[h]])
  <2>1. v \in NhAddrs
    BY <1>1, <1>4, NhValueType DEF PutCur, ECMPerTables
  <2>2. /\ pc[h] # "put_neigh" /\ Insert(h, "cur_nh", idx[h], v)
        /\ UNCHANGED <<ribVars, job, self, todo, table, tab>>
    BY <1>4 DEF PutCur
  <2> HIDE DEF v
  <2>3. "cur_nh" \in Tables /\ v \in Values("cur_nh")
    BY <2>1 DEF Tables, Values, NhActions
  <2>4. Encodable("cur_nh", idx[h], v) => idx[h] \in Keys("cur_nh")
    BY DEF Encodable, Keys
  <2> QED
    BY <2>2, <2>3, <2>4, InsertType
<1>5. CASE PutLpm(h)
  <2>1. PICK p \in keys[h] : Insert(h, "ipv4_lpm", p, table[h].lpm[p])
    BY <1>5 DEF PutLpm
  <2>2. p \in Prefixes /\ table[h].lpm[p] # Absent
    BY <1>5 DEF PutLpm, KeysOK
  <2>3. table[h].lpm[p] \in LpmParams
    BY <1>1, <2>2 DEF ECMPerTables
  <2>4. /\ "ipv4_lpm" \in Tables /\ p \in Keys("ipv4_lpm")
        /\ table[h].lpm[p] \in Values("ipv4_lpm")
    BY <2>2, <2>3 DEF Tables, Keys, Values
  <2>5. pc[h] # "put_neigh" /\ UNCHANGED <<ribVars, job, self, todo, table, tab>>
    BY <1>5 DEF PutLpm
  <2> QED
    BY <2>1, <2>4, <2>5, InsertType
<1>6. CASE PrvDone(h)
  <2>1. SwitchTypeOK' /\ RibTypeOK' /\ NoRouteTwice'
    BY <1>6, RibsKept DEF PrvDone, SwitchTypeOK, switchVars
  <2>2. HandlerTypeOK' /\ KeysOK' /\ LocalsOK'
    BY <1>6 DEF PrvDone, Goto, Labels, HandlerTypeOK, KeysOK, LocalsOK
  <2> QED
    BY <2>1, <2>2
<1>7. CASE CurDone(h)
  <2> DEFINE ps == {p \in Prefixes : table[h].lpm[p] # Absent}
  <2>1. SwitchTypeOK' /\ RibTypeOK' /\ NoRouteTwice'
    BY <1>7, RibsKept DEF CurDone, SwitchTypeOK, switchVars
  <2>2. ps \subseteq UNION {Keys(t) : t \in Tables}
    BY DEF Keys, Tables
  <2>3. keys' = [keys EXCEPT ![h] = ps] /\ ps \subseteq Prefixes
    BY <1>7 DEF CurDone
  <2>4. KeysOK'
    BY <1>7 DEF CurDone, Goto, HandlerTypeOK, KeysOK
  <2> HIDE DEF ps
  <2>5. HandlerTypeOK'
    BY <1>7, <2>2, <2>3 DEF CurDone, Goto, Labels, HandlerTypeOK
  <2>6. LocalsOK'
    BY <1>7 DEF CurDone, Goto, HandlerTypeOK, LocalsOK
  <2> QED
    BY <2>1, <2>4, <2>5, <2>6
<1>8. CASE LpmDone(h)
  <2>1. SwitchTypeOK' /\ RibTypeOK' /\ NoRouteTwice'
    BY <1>8, RibsKept DEF LpmDone, SwitchTypeOK, switchVars
  <2>2. HandlerTypeOK' /\ KeysOK' /\ LocalsOK'
    BY <1>8 DEF LpmDone, Goto, Labels, HandlerTypeOK, KeysOK, LocalsOK
  <2> QED
    BY <2>1, <2>2
<1> QED
  BY <1>2, <1>3, <1>4, <1>5, <1>6, <1>7, <1>8

(* A write that is retried as a modify, and that of a neighbor entry. *)
LEMMA CallType ==
  ASSUME TypeInv, NEW h \in Handlers, Modify(h) \/ PutNeigh(h)
  PROVE  TypeInv'
<1> USE DEF TypeInv, TypeOK
<1>1. /\ RibTypeOK' /\ NoRouteTwice' /\ UNCHANGED <<job, self, todo, table, tab>>
      /\ call' = [call EXCEPT ![h] = NoCall]
  BY RibsKept DEF Modify, PutNeigh
<1>2. call[h] # NoCall
  BY DEF Modify, PutNeigh, LocalsOK, NoCall
<1>3. call[h] \in Calls
  BY DEF HandlerTypeOK
<1>4. /\ call[h].tab \in Tables /\ call[h].key \in Keys(call[h].tab)
      /\ call[h].value \in Values(call[h].tab)
  BY <1>2, <1>3, CallWritable
<1>5. \/ /\ Write(call[h].tab, call[h].key, call[h].value)
         /\ Proceed(h, call[h].key)
      \/ Abort(h)
  BY DEF Modify, PutNeigh, LocalsOK
<1>6. CASE Write(call[h].tab, call[h].key, call[h].value) /\ Proceed(h, call[h].key)
  <2>1. SwitchTypeOK'
    BY <1>4, <1>6, WriteType
  <2>2. /\ pc' \in [Handlers -> Labels] /\ idx' \in [Handlers -> Nat \ {0}]
        /\ keys' \in [Handlers -> SUBSET UNION {Keys(u) : u \in Tables}]
        /\ KeysOK' /\ pc'[h] \notin {"put_neigh", "read", "delete"}
        /\ \A g \in Handlers \ {h} : pc'[g] = pc[g]
    BY <1>1, <1>6, ProceedType
  <2>3. HandlerTypeOK'
    BY <1>1, <2>2, NoCallType DEF HandlerTypeOK
  <2>4. LocalsOK'
    BY <1>1, <2>2 DEF LocalsOK, HandlerTypeOK
  <2> QED
    BY <1>1, <2>1, <2>2, <2>3, <2>4
<1>7. CASE Abort(h)
  <2>1. /\ pc' \in [Handlers -> Labels] /\ KeysOK' /\ pc'[h] \notin {"put_neigh", "read", "delete"}
        /\ \A g \in Handlers \ {h} : pc'[g] = pc[g]
    BY <1>1, <1>7, AbortType
  <2>2. SwitchTypeOK' /\ UNCHANGED <<idx, keys>>
    BY <1>7 DEF Abort, switchVars, SwitchTypeOK
  <2>3. HandlerTypeOK' /\ LocalsOK'
    BY <1>1, <2>1, <2>2, NoCallType DEF HandlerTypeOK, LocalsOK
  <2> QED
    BY <1>1, <2>1, <2>2, <2>3
<1> QED
  BY <1>5, <1>6, <1>7

LEMMA EndType ==
  ASSUME TypeInv, NEW h \in Handlers, Finish(h) \/ Renew(h) \/ Reply(h)
  PROVE  TypeInv'
<1> USE DEF TypeInv, TypeOK
<1>1. SwitchTypeOK'
  BY DEF Finish, Renew, Reply, SwitchTypeOK, switchVars
<1>2. CASE Finish(h)
  <2>1. RibTypeOK' /\ NoRouteTwice'
    BY <1>2, RoutesKept DEF Finish, RibTypeOK, HandlerTypeOK, history
  <2>2. HandlerTypeOK' /\ KeysOK' /\ LocalsOK'
    <3>1. todo' \in [Handlers -> Loops]
      BY <1>2, LoopType DEF Finish, HandlerTypeOK
    <3> QED
      BY <1>2, <3>1 DEF Finish, Goto, Labels, HandlerTypeOK, KeysOK, LocalsOK
  <2> QED
    BY <1>1, <2>1, <2>2
<1>3. CASE Renew(h)
  <2>1. RibTypeOK'
    <3>1. nh_installer' \in Installers
      BY <1>3, SomeInstaller DEF Renew
    <3>2. cur_routes' \in [Installers -> Rib] /\ prv_routes' \in [Installers -> Rib]
      BY <1>3, NoRoutesType DEF Renew, RibTypeOK
    <3>3. add_queue' \in [Installers -> Seq(Routes)] /\ del_queue' \in [Installers -> Seq(Routes)]
      BY <1>3 DEF Renew, RibTypeOK
    <3>4. shifted' \subseteq Handlers /\ overlapped' \subseteq Installers
      BY <1>3 DEF Renew, RibTypeOK
    <3> QED
      BY <3>1, <3>2, <3>3, <3>4 DEF RibTypeOK
  <2>2. NoRouteTwice'
    BY <1>3, NoRoutesType DEF Renew, NoRouteTwice
  <2>3. HandlerTypeOK' /\ KeysOK' /\ LocalsOK'
    BY <1>3 DEF Renew, Goto, Labels, HandlerTypeOK, KeysOK, LocalsOK
  <2> QED
    BY <1>1, <2>1, <2>2, <2>3
<1>4. CASE Reply(h)
  <2>1. RibTypeOK' /\ NoRouteTwice'
    BY <1>4, RoutesKept DEF Reply, RibTypeOK, ribVars, history
  <2>2. HandlerTypeOK'
    BY <1>4, SomeInstaller, NoTableType, LoopType DEF Reply, Goto, Labels, Tables, HandlerTypeOK
  <2>3. KeysOK' /\ LocalsOK'
    BY <1>4 DEF Reply, Goto, HandlerTypeOK, KeysOK, LocalsOK
  <2> QED
    BY <1>1, <2>1, <2>2, <2>3
<1> QED
  BY <1>2, <1>3, <1>4

LEMMA RestartType == Restart => TypeInv'
<1> SUFFICES ASSUME Restart PROVE TypeInv'
  OBVIOUS
<1>1. SwitchTypeOK'
  BY ZeroIsHash
  DEF Restart, SwitchTypeOK, EmptyLpm, OnlyDrop, EmptyNeigh, NhActions
<1>2. RibTypeOK' /\ NoRouteTwice'
  BY NoRoutesType, SomeInstaller
  DEF Restart, RibTypeOK, NoRouteTwice, EmptyQueues, EmptyRibs
<1>3. HandlerTypeOK'
  BY SomeInstaller, NoTableType, NoCallType, LoopType DEF Restart, HandlerTypeOK, Labels, Tables
<1>4. KeysOK' /\ LocalsOK'
  BY DEF Restart, KeysOK, LocalsOK
<1> QED
  BY <1>1, <1>2, <1>3, <1>4 DEF TypeInv, TypeOK

LEMMA NextType == TypeInv /\ [Next]_vars => TypeInv'
<1> SUFFICES ASSUME TypeInv, [Next]_vars PROVE TypeInv'
  OBVIOUS
<1>1. CASE Request
  BY <1>1, RequestType
<1>2. ASSUME NEW h \in Handlers, HandlerStep(h)
      PROVE  TypeInv'
  BY <1>2, MemoryType, ClearType, WritesType, CallType, EndType DEF HandlerStep, MemoryStep
<1>3. CASE Restart
  BY <1>3, RestartType
<1>4. CASE UNCHANGED vars
  BY <1>4, RoutesKept DEF vars, switchVars, ribVars, history, handlerVars, TypeInv, TypeOK, SwitchTypeOK,
              RibTypeOK, HandlerTypeOK, KeysOK, LocalsOK
<1> QED
  BY <1>1, <1>2, <1>3, <1>4 DEF Next

(* However many handlers overlap, whatever faults occur: tables, RIBs and  *)
(* the locals of process_routes and of the clears keep their types, even   *)
(* where threads switch within iterations of process_routes; and no RIB    *)
(* list names a nexthop twice unless the append of an install came between *)
(* the test and the append of another.                                     *)
THEOREM TypeCorrect == Spec => []TypeOK
<1>1. TypeInv => TypeOK
  BY DEF TypeInv
<1> QED
  BY <1>1, InitType, NextType, PTL DEF Spec
-----------------------------------------------------------------------------
(***************************************************************************)
(* DropAtZero holds however many requests overlap and whatever fails: no   *)
(* lock of the controller is needed for it.                                *)
(***************************************************************************)
NhTables == {"cur_nh", "prv_nh"}

(* To write v under key k of table t leaves index 0 without a nexthop. *)
KeepsZero(t, k, v) == t \in NhTables /\ k = 0 => v \in {Drop, Absent}

(* A handler keeps the arguments of a refused insert, which other handlers *)
(* may overtake, for its modify: those too must spare index 0.             *)
ZeroInv ==
  /\ DropAtZero
  /\ \A h \in Handlers : KeepsZero(call[h].tab, call[h].key, call[h].value)

ZeroVars == <<cur_nh, prv_nh, call>>

LEMMA StillZero == ZeroInv /\ UNCHANGED ZeroVars => ZeroInv'
BY DEF ZeroInv, ZeroVars, DropAtZero

LEMMA NoCallKeepsZero == KeepsZero(NoCall.tab, NoCall.key, NoCall.value)
BY DEF KeepsZero, NoCall

LEMMA WriteZero ==
  ASSUME SwitchTypeOK, DropAtZero, NEW t, NEW k, NEW v,
         KeepsZero(t, k, v), Write(t, k, v)
  PROVE  DropAtZero'
<1>1. cur_nh'[0] \in {cur_nh[0], Drop, Absent}
  BY ZeroIsHash DEF SwitchTypeOK, KeepsZero, NhTables, Write
<1>2. prv_nh'[0] \in {prv_nh[0], Drop, Absent}
  BY ZeroIsHash DEF SwitchTypeOK, KeepsZero, NhTables, Write
<1> QED
  BY <1>1, <1>2 DEF DropAtZero

(* What becomes of one handler's call when the others keep theirs. *)
LEMMA CallZero ==
  ASSUME TypeInv, ZeroInv, NEW h \in Handlers, NEW c,
         KeepsZero(c.tab, c.key, c.value), call' = [call EXCEPT ![h] = c]
  PROVE  \A g \in Handlers : KeepsZero(call[g].tab, call[g].key, call[g].value)'
<1> SUFFICES ASSUME NEW g \in Handlers
             PROVE  KeepsZero(call'[g].tab, call'[g].key, call'[g].value)
  BY DEF KeepsZero
<1>1. call'[g] = IF g = h THEN c ELSE call[g]
  BY DEF TypeInv, TypeOK, HandlerTypeOK
<1> QED
  BY <1>1 DEF ZeroInv

LEMMA InsertZero ==
  ASSUME TypeInv, ZeroInv, NEW h \in Handlers, NEW t, NEW k, NEW v,
         KeepsZero(t, k, v), Insert(h, t, k, v)
  PROVE  ZeroInv'
<1>1. CASE Write(t, k, v) /\ call' = [call EXCEPT ![h] = NoCall]
  BY <1>1, WriteZero, CallZero, NoCallKeepsZero DEF ZeroInv, TypeInv, TypeOK
<1>2. CASE /\ call' = [call EXCEPT ![h] = [tab |-> t, key |-> k, value |-> v]]
           /\ UNCHANGED switchVars
  <2> DEFINE c == [tab |-> t, key |-> k, value |-> v]
  <2>1. KeepsZero(c.tab, c.key, c.value)
    OBVIOUS
  <2>2. call' = [call EXCEPT ![h] = c]
    BY <1>2
  <2> HIDE DEF c
  <2>3. \A g \in Handlers : KeepsZero(call[g].tab, call[g].key, call[g].value)'
    BY <2>1, <2>2, CallZero
  <2>4. DropAtZero'
    BY <1>2 DEF ZeroInv, DropAtZero, switchVars
  <2> QED
    BY <2>3, <2>4 DEF ZeroInv
<1>3. CASE Abort(h) /\ UNCHANGED call
  BY <1>3, StillZero DEF Abort, switchVars, ZeroVars
<1> QED
  BY <1>1, <1>2, <1>3 DEF Insert

-----------------------------------------------------------------------------
LEMMA InitZero == Init => ZeroInv
<1> SUFFICES ASSUME Init PROVE ZeroInv
  OBVIOUS
<1>1. DropAtZero
  BY ZeroIsHash DEF Init, OnlyDrop, DropAtZero
<1>2. \A h \in Handlers : KeepsZero(call[h].tab, call[h].key, call[h].value)
  BY NoCallKeepsZero DEF Init
<1> QED
  BY <1>1, <1>2 DEF ZeroInv

LEMMA RestartZero == Restart => ZeroInv'
<1> SUFFICES ASSUME Restart PROVE ZeroInv'
  OBVIOUS
<1>1. DropAtZero'
  BY ZeroIsHash DEF Restart, OnlyDrop, DropAtZero
<1>2. \A h \in Handlers : call'[h] = NoCall
  BY DEF Restart
<1>3. \A h \in Handlers : KeepsZero(call[h].tab, call[h].key, call[h].value)'
  BY <1>2, NoCallKeepsZero DEF KeepsZero
<1> QED
  BY <1>1, <1>3 DEF ZeroInv

(* Requests write no nexthop table; /neigh/add prepares its one write. *)
LEMMA RequestZero ==
  ASSUME TypeInv, ZeroInv, Request
  PROVE  ZeroInv'
<1>1. ASSUME NEW h \in Handlers, NEW a \in NeighAddrs, NEW action \in NeighPorts,
             RestNeighAdd(h, a, action)
      PROVE  ZeroInv'
  <2> DEFINE c == [tab |-> "neigh", key |-> a, value |-> action]
  <2>1. KeepsZero(c.tab, c.key, c.value)
    BY DEF KeepsZero, NhTables
  <2>2. call' = [call EXCEPT ![h] = c] /\ UNCHANGED switchVars
    BY <1>1 DEF RestNeighAdd
  <2> HIDE DEF c
  <2>3. \A g \in Handlers : KeepsZero(call[g].tab, call[g].key, call[g].value)'
    BY <2>1, <2>2, CallZero
  <2>4. DropAtZero'
    BY <2>2 DEF ZeroInv, DropAtZero, switchVars
  <2> QED
    BY <2>3, <2>4 DEF ZeroInv
<1>2. CASE UNCHANGED ZeroVars
  BY <1>2, StillZero
<1> QED
  BY <1>1, <1>2
  DEF Request, RestAdd, RestDel, RestInstall, RestClear, RestNeighDel, StartJob,
      switchVars, handlerVars, ZeroVars

(* Steps after which the nexthop tables and the calls are as before. *)
LEMMA QuietZero ==
  ASSUME ZeroInv, NEW h \in Handlers,
         \/ MemoryStep(h) \/ ReadTable(h) \/ DeleteFails(h) \/ TableCleared(h)
         \/ PrvDone(h) \/ CurDone(h) \/ LpmDone(h)
         \/ Finish(h) \/ Renew(h) \/ Reply(h)
  PROVE  ZeroInv'
<1>1. UNCHANGED ZeroVars
  BY DEF MemoryStep, TakeSnapshot, AddRoute, AddsDone, DelRoute, DelsDone, AddRouteShifted,
         DelRouteShifted, RemoveFails, NextRoute, BuildPrv, BuildCur, Encode, EncodeDone,
         ReadTable, DeleteFails, TableCleared, PrvDone, CurDone, LpmDone,
         Finish, Renew, Reply, switchVars, ZeroVars
<1> QED
  BY <1>1, StillZero

(* do_install starts at index 1, install_nh_drop_entry writes drop(). *)
LEMMA WritesZero ==
  ASSUME TypeInv, ZeroInv, NEW h \in Handlers,
         \/ DeleteEntry(h) \/ PutDrop(h) \/ PutPrv(h) \/ PutCur(h) \/ PutLpm(h)
  PROVE  ZeroInv'
<1>1. idx[h] \in Nat \ {0}
  BY DEF TypeInv, TypeOK, HandlerTypeOK
<1>2. CASE DeleteEntry(h)
  <2>1. PICK k : Write(tab[h], k, Absent)
    BY <1>2 DEF DeleteEntry
  <2>2. KeepsZero(tab[h], k, Absent)
    BY DEF KeepsZero
  <2>3. DropAtZero'
    BY <2>1, <2>2, WriteZero DEF ZeroInv, TypeInv, TypeOK
  <2>4. UNCHANGED call
    BY <1>2 DEF DeleteEntry
  <2> QED
    BY <2>3, <2>4 DEF ZeroInv
<1>3. CASE PutDrop(h)
  <2> DEFINE t == IF pc[h] = "drop_prv" THEN "prv_nh" ELSE "cur_nh"
  <2>1. Insert(h, t, 0, Drop)
    BY <1>3 DEF PutDrop
  <2>2. KeepsZero(t, 0, Drop)
    BY DEF KeepsZero
  <2> HIDE DEF t
  <2> QED
    BY <2>1, <2>2, InsertZero
<1>4. CASE PutPrv(h)
  <2>1. PICK v : Insert(h, "prv_nh", idx[h], v)
    BY <1>4 DEF PutPrv
  <2>2. KeepsZero("prv_nh", idx[h], v)
    BY <1>1 DEF KeepsZero
  <2> QED
    BY <2>1, <2>2, InsertZero
<1>5. CASE PutCur(h)
  <2>1. PICK v : Insert(h, "cur_nh", idx[h], v)
    BY <1>5 DEF PutCur
  <2>2. KeepsZero("cur_nh", idx[h], v)
    BY <1>1 DEF KeepsZero
  <2> QED
    BY <2>1, <2>2, InsertZero
<1>6. CASE PutLpm(h)
  <2>1. PICK p \in keys[h] : Insert(h, "ipv4_lpm", p, table[h].lpm[p])
    BY <1>6 DEF PutLpm
  <2>2. KeepsZero("ipv4_lpm", p, table[h].lpm[p])
    BY DEF KeepsZero, NhTables
  <2> QED
    BY <2>1, <2>2, InsertZero
<1> QED
  BY <1>2, <1>3, <1>4, <1>5, <1>6

(* A modify writes what an insert was refused, perhaps long before. *)
LEMMA CallsZero ==
  ASSUME TypeInv, ZeroInv, NEW h \in Handlers, Modify(h) \/ PutNeigh(h)
  PROVE  ZeroInv'
<1>1. call' = [call EXCEPT ![h] = NoCall]
  BY DEF Modify, PutNeigh
<1>2. \/ Write(call[h].tab, call[h].key, call[h].value)
      \/ Abort(h)
  BY DEF Modify, PutNeigh, TypeInv, LocalsOK
<1>3. DropAtZero'
  <2>1. KeepsZero(call[h].tab, call[h].key, call[h].value)
    BY DEF ZeroInv
  <2>2. CASE Write(call[h].tab, call[h].key, call[h].value)
    BY <2>1, <2>2, WriteZero DEF ZeroInv, TypeInv, TypeOK
  <2>3. CASE Abort(h)
    BY <2>3 DEF Abort, switchVars, ZeroInv, DropAtZero
  <2> QED
    BY <1>2, <2>2, <2>3
<1>4. \A g \in Handlers : KeepsZero(call[g].tab, call[g].key, call[g].value)'
  BY <1>1, NoCallKeepsZero, CallZero
<1> QED
  BY <1>3, <1>4 DEF ZeroInv

LEMMA NextZero == TypeInv /\ ZeroInv /\ [Next]_vars => ZeroInv'
<1> SUFFICES ASSUME TypeInv, ZeroInv, [Next]_vars PROVE ZeroInv'
  OBVIOUS
<1>1. CASE Request
  BY <1>1, RequestZero
<1>2. ASSUME NEW h \in Handlers, HandlerStep(h)
      PROVE  ZeroInv'
  BY <1>2, QuietZero, WritesZero, CallsZero DEF HandlerStep, MemoryStep
<1>3. CASE Restart
  BY <1>3, RestartZero
<1>4. CASE UNCHANGED vars
  BY <1>4, StillZero DEF vars, switchVars, handlerVars, ZeroVars
<1> QED
  BY <1>1, <1>2, <1>3, <1>4 DEF Next

(* Index 0 of cur_nh and prv_nh holds drop() or nothing, whatever installs *)
(* and clears of any number of threads overlap, whichever of their calls   *)
(* the switch refuses and wherever the controller restarts.                *)
THEOREM ZeroNeverForwards == Spec => []DropAtZero
<1>1. ZeroInv => DropAtZero
  BY DEF ZeroInv
<1>2. Init => TypeInv /\ ZeroInv
  BY InitType, InitZero
<1>3. TypeInv /\ ZeroInv /\ [Next]_vars => (TypeInv /\ ZeroInv)'
  BY NextType, NextZero
<1> QED
  BY <1>1, <1>2, <1>3, PTL DEF Spec

-----------------------------------------------------------------------------
(***************************************************************************)
(* LpmClosed holds whatever writes are refused, if one handler works at a  *)
(* time and no delete fails.                                               *)
(***************************************************************************)
Alone(h) == Handlers = {h} /\ "delete" \notin Faults

(* Encoded blocks lie within the lists that do_install writes. *)
Encoded(t) ==
  \A p \in Prefixes : t.lpm[p] # Absent =>
    /\ t.lpm[p].prv_count # 0 \/ t.lpm[p].cur_count # 0
    /\ Slots(t.lpm[p].prv_offset, t.lpm[p].prv_count) \subseteq 1 .. Len(t.prv_nh)
    /\ Slots(t.lpm[p].cur_offset, t.lpm[p].cur_count) \subseteq 1 .. Len(t.cur_nh)

(* A refused insert that is about to be retried is the one the handler's   *)
(* program counter speaks of.                                              *)
Retried(h) ==
  call[h] # NoCall =>
    \/ pc[h] = "put_neigh"
    \/ pc[h] \in {"drop_prv", "drop_cur"} /\ call[h].tab # "ipv4_lpm"
    \/ /\ pc[h] = "put_prv" /\ idx[h] <= Len(table[h].prv_nh)
       /\ call[h].tab = "prv_nh" /\ call[h].key = idx[h] /\ call[h].value \in NhAddrs
    \/ /\ pc[h] = "put_cur" /\ idx[h] <= Len(table[h].cur_nh)
       /\ call[h].tab = "cur_nh" /\ call[h].key = idx[h] /\ call[h].value \in NhAddrs
    \/ /\ pc[h] = "put_lpm" /\ call[h].tab = "ipv4_lpm" /\ call[h].key \in keys[h]
       /\ table[h].lpm[call[h].key] # Absent
       /\ call[h].value = table[h].lpm[call[h].key]

(* The slots of both blocks of an LPM entry forward. *)
BlocksLive(e) ==
  /\ e.prv_count # 0 \/ e.cur_count # 0
  /\ \A i \in Slots(e.prv_offset, e.prv_count) : Live(prv_nh, i)
  /\ \A i \in Slots(e.cur_offset, e.cur_count) : Live(cur_nh, i)

LpmLive == \A p \in Prefixes : ipv4_lpm[p] # Absent => BlocksLive(ipv4_lpm[p])

LpmEmpty == \A p \in Prefixes : ipv4_lpm[p] = Absent

NhTablesChange(h) ==
  \/ pc[h] \in {"read", "delete"} /\ tab[h] # "ipv4_lpm"
  \/ pc[h] \in {"drop_prv", "drop_cur", "put_prv", "put_cur"}

(* While nexthop tables change, no prefix is in service. *)
Emptied(h) == NhTablesChange(h) => LpmEmpty

Emptying(h) ==
  pc[h] = "delete" /\ tab[h] = "ipv4_lpm" => keys[h] = Present("ipv4_lpm")

AllLive(nh, n) == \A i \in 1 .. n : Live(nh, i)

(* How far do_install has got. *)
Filled(h) ==
  /\ pc[h] = "put_prv" => AllLive(prv_nh, idx[h] - 1)
  /\ pc[h] \in {"put_cur", "put_lpm"} => AllLive(prv_nh, Len(table[h].prv_nh))
  /\ pc[h] = "put_cur" => AllLive(cur_nh, idx[h] - 1)
  /\ pc[h] = "put_lpm" => AllLive(cur_nh, Len(table[h].cur_nh))

Closed(h) ==
  /\ LpmLive
  /\ Encoded(table[h])
  /\ Retried(h)
  /\ Emptied(h)
  /\ Emptying(h)
  /\ Filled(h)
-----------------------------------------------------------------------------
LEMMA StillClosed ==
  ASSUME LpmLive, UNCHANGED <<ipv4_lpm, cur_nh, prv_nh>>
  PROVE  LpmLive'
BY DEF LpmLive, BlocksLive, Live

LEMMA EmptyIsClosed == LpmEmpty => LpmLive
BY DEF LpmEmpty, LpmLive

LEMMA BlockNonEmpty ==
  ASSUME NEW nh \in Seq(Nexthops), Len(nh) <= 2^HashBits, nh # <<>>
  PROVE  Len(ExpandNh(nh)) # 0
<1>1. ExpandNh(nh) \in Seq(Nexthops) /\ Range(ExpandNh(nh)) = Range(nh)
  BY ExpansionType, ExpansionRange
<1>2. nh[1] \in Range(nh)
  BY DEF Range
<1> DEFINE b == ExpandNh(nh)
<1>3. b \in Seq(Nexthops) /\ Range(b) # {}
  BY <1>1, <1>2
<1> HIDE DEF b
<1>4. Len(b) # 0
  BY <1>3 DEF Range
<1> QED
  BY <1>4 DEF b

(* Blocks that are encoded stay where they are; a new one is appended. *)
LEMMA EncodedStep ==
  ASSUME NEW t \in ECMPerTables, Encoded(t), NEW p \in Prefixes,
         t.prv[p] # <<>> \/ t.cur[p] # <<>>
  PROVE  Encoded(EncodePrefix(t, p))
<1> DEFINE prv == ExpandNh(t.prv[p])  cur == ExpandNh(t.cur[p])
           params == [prv_offset |-> Len(t.prv_nh) + 1, prv_count |-> Len(prv),
                      cur_offset |-> Len(t.cur_nh) + 1, cur_count |-> Len(cur)]
           u == EncodePrefix(t, p)
<1>1. /\ t.prv \in Rib /\ t.cur \in Rib
      /\ t.prv_nh \in Seq(Nexthops) /\ t.cur_nh \in Seq(Nexthops)
      /\ t.lpm \in [Prefixes -> LpmParams \cup {Absent}]
  BY DEF ECMPerTables
<1>2. prv \in Seq(Nexthops) /\ cur \in Seq(Nexthops)
  BY <1>1, RibType, BlockType
<1>7. Len(prv) # 0 \/ Len(cur) # 0
  BY <1>1, RibType, BlockNonEmpty
<1>3. /\ u.prv_nh = t.prv_nh \o prv /\ u.cur_nh = t.cur_nh \o cur
      /\ u.lpm = [t.lpm EXCEPT ![p] = params]
  BY DEF EncodePrefix, ECMPerTables
<1> HIDE DEF prv, cur, u
<1>4. /\ Len(u.prv_nh) = Len(t.prv_nh) + Len(prv) /\ Len(u.cur_nh) = Len(t.cur_nh) + Len(cur)
      /\ Len(t.prv_nh) \in Nat /\ Len(t.cur_nh) \in Nat /\ Len(prv) \in Nat /\ Len(cur) \in Nat
  BY <1>1, <1>2, <1>3
<1>5. /\ params.prv_count # 0 \/ params.cur_count # 0
      /\ Slots(params.prv_offset, params.prv_count) \subseteq 1 .. Len(u.prv_nh)
      /\ Slots(params.cur_offset, params.cur_count) \subseteq 1 .. Len(u.cur_nh)
  BY <1>4, <1>7 DEF Slots
<1> HIDE DEF params
<1>6. ASSUME NEW q \in Prefixes, u.lpm[q] # Absent
      PROVE  /\ u.lpm[q].prv_count # 0 \/ u.lpm[q].cur_count # 0
             /\ Slots(u.lpm[q].prv_offset, u.lpm[q].prv_count) \subseteq 1 .. Len(u.prv_nh)
             /\ Slots(u.lpm[q].cur_offset, u.lpm[q].cur_count) \subseteq 1 .. Len(u.cur_nh)
  <2>1. CASE q = p
    BY <1>1, <1>3, <1>5, <2>1
  <2>2. CASE q # p
    <3>1. u.lpm[q] = t.lpm[q]
      BY <1>1, <1>3, <2>2
    <3>2. /\ t.lpm[q].prv_count # 0 \/ t.lpm[q].cur_count # 0
          /\ Slots(t.lpm[q].prv_offset, t.lpm[q].prv_count) \subseteq 1 .. Len(t.prv_nh)
          /\ Slots(t.lpm[q].cur_offset, t.lpm[q].cur_count) \subseteq 1 .. Len(t.cur_nh)
      BY <1>6, <3>1 DEF Encoded
    <3>3. /\ 1 .. Len(t.prv_nh) \subseteq 1 .. Len(u.prv_nh)
          /\ 1 .. Len(t.cur_nh) \subseteq 1 .. Len(u.cur_nh)
      BY <1>4
    <3> QED
      BY <3>1, <3>2, <3>3
  <2> QED
    BY <2>1, <2>2
<1> QED
  BY <1>6 DEF Encoded, u

LEMMA NoTableEncoded == Encoded(NoTable)
BY DEF Encoded, NoTable

LEMMA InitClosed ==
  ASSUME NEW h, Alone(h), Init
  PROVE  Closed(h)
<1>1. LpmEmpty
  BY DEF Init, EmptyLpm, LpmEmpty
<1>2. LpmLive
  BY <1>1, EmptyIsClosed
<1>3. /\ h \in Handlers /\ pc[h] = "idle" /\ table[h] = NoTable /\ call[h] = NoCall
  BY DEF Init, Alone
<1> QED
  BY <1>2, <1>3, NoTableEncoded
  DEF Closed, Retried, Emptied, NhTablesChange, Emptying, Filled

LEMMA RequestClosed ==
  ASSUME NEW h, Alone(h), TypeInv, Closed(h), Request
  PROVE  Closed(h)'
<1> USE DEF Closed
<1>1. h \in Handlers /\ \A g \in Handlers : g = h
  BY DEF Alone
<1>2. UNCHANGED <<ipv4_lpm, cur_nh, prv_nh, table>>
  BY DEF Request, RestAdd, RestDel, RestInstall, RestClear, RestNeighAdd, RestNeighDel,
         switchVars, handlerVars
<1>3. LpmLive' /\ Encoded(table[h])'
  BY <1>2, StillClosed DEF Encoded
<1>4. CASE UNCHANGED <<pc, job, self, table, idx, tab, keys, call>>
  <2>1. UNCHANGED <<pc, idx, tab, keys, call, table, ipv4_lpm, cur_nh, prv_nh>>
    BY <1>2, <1>4
  <2>2. Present("ipv4_lpm")' = Present("ipv4_lpm")
    BY <2>1 DEF Present, Entries
  <2>3. Retried(h)' /\ Emptied(h)' /\ Emptying(h)'
    BY <2>1, <2>2 DEF Retried, Emptied, NhTablesChange, LpmEmpty, Emptying
  <2>4. Filled(h)'
    BY <2>1 DEF Filled, AllLive, Live
  <2> QED
    BY <1>3, <2>3, <2>4
<1>5. CASE RestInstall(h) \/ RestClear(h)
  <2>1. /\ call'[h] = call[h] /\ pc[h] = "idle"
        /\ \/ pc'[h] = "snapshot"
           \/ pc'[h] = "read" /\ tab'[h] = "ipv4_lpm"
    BY <1>1, <1>5
    DEF RestInstall, RestClear, StartJob, Goto, TypeInv, TypeOK, HandlerTypeOK
  <2>2. Retried(h)' /\ Emptied(h)' /\ Emptying(h)' /\ Filled(h)'
    BY <2>1 DEF Retried, Emptied, NhTablesChange, Emptying, Filled
  <2> QED
    BY <1>3, <2>2
<1>6. CASE \E a \in NeighAddrs, action \in NeighPorts : RestNeighAdd(h, a, action)
  <2>1. pc'[h] = "put_neigh"
    BY <1>1, <1>6 DEF RestNeighAdd, StartJob, Goto, TypeInv, TypeOK, HandlerTypeOK
  <2>2. Retried(h)' /\ Emptied(h)' /\ Emptying(h)' /\ Filled(h)'
    BY <2>1 DEF Retried, Emptied, NhTablesChange, Emptying, Filled
  <2> QED
    BY <1>3, <2>2
<1>7. (\/ \E r \in Routes : RestAdd(r) \/ RestDel(r)
       \/ \E a \in NeighAddrs : RestNeighDel(a))
      => UNCHANGED <<pc, job, self, table, idx, tab, keys, call>>
  BY DEF RestAdd, RestDel, RestNeighDel, handlerVars
<1> QED
  BY <1>1, <1>4, <1>5, <1>6, <1>7 DEF Request

LEMMA MemoryClosed ==
  ASSUME NEW h, Alone(h), TypeInv, Closed(h), MemoryStep(h)
  PROVE  Closed(h)'
<1> USE DEF Closed
<1>1. h \in Handlers
  BY DEF Alone
<1>2. /\ UNCHANGED switchVars /\ call' = call
      /\ pc[h] \in {"snapshot", "adds", "dels", "build", "build_cur", "encode"}
      /\ \/ pc'[h] \in {"snapshot", "adds", "dels", "build", "build_cur", "encode", "reply"}
         \/ pc'[h] = "read" /\ tab'[h] = "ipv4_lpm"
  BY <1>1, MemoryFrame
<1>4. LpmLive'
  BY <1>2, StillClosed DEF switchVars
<1>5. Retried(h)' /\ Emptied(h)' /\ Emptying(h)' /\ Filled(h)'
  BY <1>2 DEF Retried, Emptied, NhTablesChange, Emptying, Filled
<1>6. Encoded(table'[h])
  <2>1. table \in [Handlers -> ECMPerTables]
    BY DEF TypeInv, TypeOK, HandlerTypeOK
  <2>2. CASE table' = table
    BY <2>2
  <2>3. CASE BuildPrv(h)
    <3>1. table'[h].lpm = NoTable.lpm
      BY <1>1, <2>1, <2>3 DEF BuildPrv, NoTable
    <3> QED
      BY <3>1 DEF Encoded, NoTable
  <2>5. CASE BuildCur(h)
    <3>1. PICK cur : table' = [table EXCEPT ![h].cur = cur]
      BY <2>5 DEF BuildCur
    <3>2. /\ table'[h].lpm = table[h].lpm /\ table'[h].prv_nh = table[h].prv_nh
          /\ table'[h].cur_nh = table[h].cur_nh
      BY <1>1, <2>1, <3>1 DEF ECMPerTables
    <3> QED
      BY <3>2 DEF Encoded
  <2>4. CASE Encode(h)
    <3> DEFINE p == PrefixOrder[idx[h]]
    <3>1. p \in Prefixes
      BY <2>4, ControllerAssumption DEF Encode, TypeInv, TypeOK, HandlerTypeOK, Alone
    <3>2. \/ table'[h] = table[h]
          \/ /\ table'[h] = EncodePrefix(table[h], p)
             /\ table[h].prv[p] # <<>> \/ table[h].cur[p] # <<>>
      BY <1>1, <2>1, <2>4 DEF Encode
    <3> HIDE DEF p
    <3>3. table[h].prv[p] # <<>> \/ table[h].cur[p] # <<>> => Encoded(EncodePrefix(table[h], p))
      BY <1>1, <2>1, <3>1, EncodedStep
    <3> QED
      BY <3>2, <3>3
  <2> QED
    BY <2>2, <2>3, <2>4, <2>5, MemoryFrame, <1>1
<1> QED
  BY <1>4, <1>5, <1>6 DEF Encoded

(* A clear withdraws every prefix before it deletes a nexthop. *)
LEMMA ClearClosed ==
  ASSUME NEW h, Alone(h), TypeInv, Closed(h),
         ReadTable(h) \/ DeleteEntry(h) \/ DeleteFails(h) \/ TableCleared(h)
  PROVE  Closed(h)'
<1> USE DEF Closed
<1>1. h \in Handlers /\ tab[h] \in Tables /\ call[h] = NoCall /\ call' = call /\ table' = table
  BY DEF Alone, Retried, ReadTable, DeleteEntry, DeleteFails, TableCleared,
         TypeInv, TypeOK, HandlerTypeOK
<1>2. Encoded(table[h])' /\ pc[h] \in {"read", "delete"}
  BY <1>1 DEF Encoded, ReadTable, DeleteEntry, DeleteFails, TableCleared
<1>3. CASE ReadTable(h)
  <2>1. UNCHANGED <<ipv4_lpm, cur_nh, prv_nh, tab>> /\ pc'[h] = "delete"
        /\ keys'[h] = Present(tab[h])
    BY <1>1, <1>3 DEF ReadTable, Goto, switchVars, TypeInv, TypeOK, HandlerTypeOK
  <2>2. LpmLive'
    BY <2>1, StillClosed
  <2>3. Present("ipv4_lpm")' = Present("ipv4_lpm")
    BY <2>1 DEF Present, Entries
  <2>4. Retried(h)' /\ Emptied(h)' /\ Emptying(h)' /\ Filled(h)'
    BY <1>1, <1>2, <2>1, <2>3 DEF Retried, Emptied, NhTablesChange, LpmEmpty, Emptying, Filled
  <2> QED
    BY <1>2, <2>2, <2>4
<1>4. CASE DeleteEntry(h)
  <2>1. PICK k \in keys[h] : /\ k \in Present(tab[h])
                             /\ Write(tab[h], k, Absent)
                             /\ keys' = [keys EXCEPT ![h] = @ \ {k}]
    BY <1>4 DEF DeleteEntry
  <2>2. UNCHANGED <<pc, tab>> /\ pc[h] = "delete"
    BY <1>4 DEF DeleteEntry
  <2>3. Retried(h)' /\ Filled(h)'
    BY <1>1, <2>2 DEF Retried, Filled
  <2>4. CASE tab[h] = "ipv4_lpm"
    <3>1. /\ ipv4_lpm' = [ipv4_lpm EXCEPT ![k] = Absent]
          /\ UNCHANGED <<cur_nh, prv_nh>>
      BY <2>1, <2>4 DEF Write
    <3>2. DOMAIN ipv4_lpm = Prefixes /\ DOMAIN ipv4_lpm' = Prefixes
      BY <3>1 DEF TypeInv, TypeOK, SwitchTypeOK
    <3>3. \A p \in Prefixes : ipv4_lpm'[p] = IF p = k THEN Absent ELSE ipv4_lpm[p]
      BY <3>1, <3>2
    <3>4. LpmLive'
      BY <3>1, <3>3 DEF LpmLive, BlocksLive, Live
    <3>5. keys'[h] = Present("ipv4_lpm") \ {k}
      BY <1>1, <2>1, <2>2, <2>4 DEF Emptying, TypeInv, TypeOK, HandlerTypeOK
    <3>6. Present("ipv4_lpm")' = Present("ipv4_lpm") \ {k}
      BY <3>2, <3>3 DEF Present, Entries
    <3>7. Emptied(h)' /\ Emptying(h)'
      BY <2>2, <2>4, <3>5, <3>6 DEF Emptied, NhTablesChange, Emptying
    <3> QED
      BY <1>2, <2>3, <3>4, <3>7
  <2>5. CASE tab[h] # "ipv4_lpm"
    <3>1. LpmEmpty /\ ipv4_lpm' = ipv4_lpm
      BY <2>1, <2>2, <2>5 DEF Emptied, NhTablesChange, Write
    <3>2. LpmEmpty'
      BY <3>1 DEF LpmEmpty
    <3>3. LpmLive' /\ Emptied(h)' /\ Emptying(h)'
      BY <2>2, <2>5, <3>2 DEF LpmEmpty, LpmLive, Emptied, Emptying
    <3> QED
      BY <1>2, <2>3, <3>3
  <2> QED
    BY <2>4, <2>5
<1>5. CASE DeleteFails(h)
  <2>1. /\ UNCHANGED <<ipv4_lpm, cur_nh, prv_nh, pc, tab>> /\ pc[h] = "delete"
        /\ \E k \in keys[h] : k \notin Present(tab[h])
    BY <1>5 DEF DeleteFails, switchVars, Alone
  <2>2. tab[h] # "ipv4_lpm"
    BY <2>1 DEF Emptying
  <2>3. LpmLive'
    BY <2>1, StillClosed
  <2>4. Retried(h)' /\ Emptied(h)' /\ Emptying(h)' /\ Filled(h)'
    BY <1>1, <2>1, <2>2 DEF Retried, Emptied, NhTablesChange, LpmEmpty, Emptying, Filled
  <2> QED
    BY <1>2, <2>3, <2>4
<1>6. CASE TableCleared(h)
  <2> DEFINE order == ClearOrder(job[h])
             n == CHOOSE n \in DOMAIN order : order[n] = tab[h]
  <2>1. UNCHANGED <<ipv4_lpm, cur_nh, prv_nh>> /\ pc[h] = "delete" /\ keys[h] = {}
    BY <1>6 DEF TableCleared, switchVars
  <2>2. LpmEmpty
    <3>1. CASE tab[h] = "ipv4_lpm"
      <4>1. Present("ipv4_lpm") = {} /\ DOMAIN ipv4_lpm = Prefixes
        BY <2>1, <3>1 DEF Emptying, TypeInv, TypeOK, SwitchTypeOK
      <4> QED
        BY <4>1 DEF Present, Entries, LpmEmpty
    <3>2. CASE tab[h] # "ipv4_lpm"
      BY <2>1, <3>2 DEF Emptied, NhTablesChange
    <3> QED
      BY <3>1, <3>2
  <2>3. LpmEmpty' /\ LpmLive'
    BY <2>1, <2>2 DEF LpmEmpty, LpmLive
  <2>4. /\ n \in 1 .. Len(order)
        /\ \A i \in 2 .. Len(order) : order[i] # "ipv4_lpm"
    BY <1>1, <1>2 DEF TypeInv, LocalsOK, ClearOrder, Tables
  <2>5. \/ n < Len(order) /\ tab' = [tab EXCEPT ![h] = order[n + 1]] /\ Goto(h, "read")
        \/ tab' = tab /\ Goto(h, "drop_prv")
    BY <1>6 DEF TableCleared
  <2> HIDE DEF order, n
  <2>6. n < Len(order) => order[n + 1] # "ipv4_lpm"
    BY <2>4
  <2>7. \/ pc'[h] = "read" /\ tab'[h] # "ipv4_lpm"
        \/ pc'[h] = "drop_prv"
    BY <1>1, <2>5, <2>6 DEF Goto, TypeInv, TypeOK, HandlerTypeOK
  <2>8. Retried(h)' /\ Emptied(h)' /\ Emptying(h)' /\ Filled(h)'
    BY <1>1, <2>3, <2>7 DEF Retried, Emptied, NhTablesChange, Emptying, Filled
  <2> QED
    BY <1>2, <2>3, <2>8
<1> QED
  BY <1>3, <1>4, <1>5, <1>6

-----------------------------------------------------------------------------
(***************************************************************************)
(* What a successful write does in each phase; Modify needs the same facts *)
(* as the inserts.                                                         *)
(***************************************************************************)
After(h) == call'[h] = NoCall /\ UNCHANGED <<table, tab>>

LEMMA NhWrite ==
  ASSUME LpmEmpty, NEW t, t # "ipv4_lpm", NEW k, NEW v, Write(t, k, v)
  PROVE  LpmEmpty' /\ LpmLive'
BY DEF Write, LpmEmpty, LpmLive

LEMMA DropWritten ==
  ASSUME NEW h \in Handlers, TypeInv, Closed(h), pc[h] \in {"drop_prv", "drop_cur"},
         NEW t, t # "ipv4_lpm", NEW k, NEW v, Write(t, k, v), Proceed(h, k), After(h)
  PROVE  Closed(h)'
<1> USE DEF Closed
<1>1. LpmEmpty' /\ LpmLive'
  BY NhWrite DEF Emptied, NhTablesChange
<1>2. \/ pc'[h] = "drop_cur"
      \/ pc'[h] = "renew"
      \/ pc'[h] = "put_prv" /\ idx'[h] = 1
  BY DEF Proceed, Goto, TypeInv, TypeOK, HandlerTypeOK
<1> QED
  BY <1>1, <1>2
  DEF After, Encoded, Retried, Emptied, NhTablesChange, Emptying, Filled, AllLive

LEMMA PrvWritten ==
  ASSUME NEW h \in Handlers, TypeInv, Closed(h), pc[h] = "put_prv",
         idx[h] \in HashRange, NEW v \in NhAddrs,
         Write("prv_nh", idx[h], v), Proceed(h, idx[h]), After(h)
  PROVE  Closed(h)'
<1> USE DEF Closed
<1>1. LpmEmpty' /\ LpmLive'
  BY NhWrite DEF Emptied, NhTablesChange
<1>2. pc'[h] = "put_prv" /\ idx'[h] = idx[h] + 1 /\ idx[h] \in Nat \ {0}
  BY DEF Proceed, Goto, TypeInv, TypeOK, HandlerTypeOK
<1>3. prv_nh' = [prv_nh EXCEPT ![idx[h]] = v] /\ DOMAIN prv_nh = HashRange
  BY DEF Write, TypeInv, TypeOK, SwitchTypeOK
<1>4. AllLive(prv_nh, idx[h] - 1)
  BY DEF Filled
<1>5. AllLive(prv_nh', idx'[h] - 1)
  BY <1>2, <1>3, <1>4 DEF AllLive, Live
<1> QED
  BY <1>1, <1>2, <1>5
  DEF After, Encoded, Retried, Emptied, NhTablesChange, Emptying, Filled, AllLive, Live

LEMMA CurWritten ==
  ASSUME NEW h \in Handlers, TypeInv, Closed(h), pc[h] = "put_cur",
         idx[h] \in HashRange, NEW v \in NhAddrs,
         Write("cur_nh", idx[h], v), Proceed(h, idx[h]), After(h)
  PROVE  Closed(h)'
<1> USE DEF Closed
<1>1. LpmEmpty' /\ LpmLive'
  BY NhWrite DEF Emptied, NhTablesChange
<1>2. pc'[h] = "put_cur" /\ idx'[h] = idx[h] + 1 /\ idx[h] \in Nat \ {0}
  BY DEF Proceed, Goto, TypeInv, TypeOK, HandlerTypeOK
<1>3. /\ cur_nh' = [cur_nh EXCEPT ![idx[h]] = v] /\ DOMAIN cur_nh = HashRange
      /\ prv_nh' = prv_nh
  BY DEF Write, TypeInv, TypeOK, SwitchTypeOK
<1>4. AllLive(cur_nh, idx[h] - 1) /\ AllLive(prv_nh, Len(table[h].prv_nh))
  BY DEF Filled
<1>5. AllLive(cur_nh', idx'[h] - 1)
  BY <1>2, <1>3, <1>4 DEF AllLive, Live
<1>6. AllLive(prv_nh', Len(table'[h].prv_nh))
  BY <1>3, <1>4 DEF After
<1> QED
  BY <1>1, <1>2, <1>5, <1>6
  DEF After, Encoded, Retried, Emptied, NhTablesChange, Emptying, Filled, AllLive, Live

LEMMA LpmWritten ==
  ASSUME NEW h \in Handlers, TypeInv, Closed(h), pc[h] = "put_lpm",
         NEW p \in Prefixes, table[h].lpm[p] # Absent,
         Write("ipv4_lpm", p, table[h].lpm[p]), Proceed(h, p), After(h)
  PROVE  Closed(h)'
<1> USE DEF Closed
<1>1. pc'[h] = "put_lpm"
  BY DEF Proceed, Goto, TypeInv, TypeOK, HandlerTypeOK
<1>2. /\ ipv4_lpm' = [ipv4_lpm EXCEPT ![p] = table[h].lpm[p]] /\ DOMAIN ipv4_lpm = Prefixes
      /\ UNCHANGED <<cur_nh, prv_nh>>
  BY DEF Write, TypeInv, TypeOK, SwitchTypeOK
<1>3. AllLive(prv_nh, Len(table[h].prv_nh)) /\ AllLive(cur_nh, Len(table[h].cur_nh))
  BY DEF Filled
<1>4. BlocksLive(table[h].lpm[p])
  BY <1>3 DEF Encoded, AllLive, BlocksLive
<1>5. LpmLive'
  BY <1>2, <1>4 DEF LpmLive, BlocksLive, Live
<1>6. Filled(h)'
  BY <1>1, <1>2, <1>3 DEF After, Filled, AllLive, Live
<1> QED
  BY <1>1, <1>5, <1>6 DEF After, Encoded, Retried, Emptied, NhTablesChange, Emptying

LEMMA AbortClosed ==
  ASSUME NEW h \in Handlers, TypeInv, Closed(h), Abort(h), After(h)
  PROVE  Closed(h)'
<1> USE DEF Closed
<1>1. pc'[h] \in {"renew", "reply"} /\ UNCHANGED <<ipv4_lpm, cur_nh, prv_nh>>
  BY DEF Abort, Goto, switchVars, TypeInv, TypeOK, HandlerTypeOK
<1>2. LpmLive'
  BY <1>1, StillClosed
<1> QED
  BY <1>1, <1>2 DEF After, Encoded, Retried, Emptied, NhTablesChange, Emptying, Filled

(* A refused insert changes call only. *)
LEMMA RefusedClosed ==
  ASSUME NEW h \in Handlers, TypeInv, Closed(h),
         UNCHANGED <<ipv4_lpm, cur_nh, prv_nh, pc, idx, keys, table, tab>>, Retried(h)'
  PROVE  Closed(h)'
<1> USE DEF Closed
<1>1. LpmLive'
  BY StillClosed
<1>2. Present("ipv4_lpm")' = Present("ipv4_lpm")
  BY DEF Present, Entries
<1>3. Emptied(h)' /\ Emptying(h)'
  BY <1>2 DEF Emptied, NhTablesChange, LpmEmpty, Emptying
<1>4. Filled(h)'
  BY DEF Filled, AllLive, Live
<1> QED
  BY <1>1, <1>3, <1>4 DEF Encoded

LEMMA WritesClosed ==
  ASSUME NEW h, Alone(h), TypeInv, Closed(h),
         \/ PutDrop(h) \/ PutPrv(h) \/ PrvDone(h) \/ PutCur(h) \/ CurDone(h)
         \/ PutLpm(h) \/ LpmDone(h)
  PROVE  Closed(h)'
<1>1. h \in Handlers
  BY DEF Alone
<1>2. /\ table[h] \in ECMPerTables /\ idx[h] \in Nat \ {0} /\ call \in [Handlers -> Calls]
      /\ pc \in [Handlers -> Labels] /\ idx \in [Handlers -> Nat \ {0}]
  BY <1>1 DEF TypeInv, TypeOK, HandlerTypeOK
<1>3. ASSUME NEW t, NEW k, NEW v, Insert(h, t, k, v), call[h] = NoCall,
             UNCHANGED <<table, tab>>
      PROVE  \/ Encodable(t, k, v) /\ Write(t, k, v) /\ Proceed(h, k) /\ After(h)
             \/ /\ Encodable(t, k, v)
                /\ call'[h] = [tab |-> t, key |-> k, value |-> v]
                /\ UNCHANGED <<ipv4_lpm, cur_nh, prv_nh, pc, idx, keys>>
             \/ Abort(h) /\ After(h)
  BY <1>1, <1>2, <1>3 DEF Insert, After, switchVars
<1>4. CASE PutDrop(h)
  <2> DEFINE t == IF pc[h] = "drop_prv" THEN "prv_nh" ELSE "cur_nh"
  <2>1. /\ pc[h] \in {"drop_prv", "drop_cur"} /\ Insert(h, t, 0, Drop)
        /\ call[h] = NoCall /\ UNCHANGED <<table, tab>>
    BY <1>4 DEF PutDrop
  <2>2. t # "ipv4_lpm"
    OBVIOUS
  <2> HIDE DEF t
  <2>3. CASE Encodable(t, 0, Drop) /\ Write(t, 0, Drop) /\ Proceed(h, 0) /\ After(h)
    BY <1>1, <2>1, <2>2, <2>3, DropWritten
  <2>4. CASE /\ call'[h] = [tab |-> t, key |-> 0, value |-> Drop]
             /\ UNCHANGED <<ipv4_lpm, cur_nh, prv_nh, pc, idx, keys>>
    <3>1. Retried(h)'
      BY <2>1, <2>2, <2>4 DEF Retried
    <3> QED
      BY <1>1, <2>1, <2>4, <3>1, RefusedClosed
  <2>5. CASE Abort(h) /\ After(h)
    BY <1>1, <2>5, AbortClosed
  <2> QED
    BY <1>3, <2>1, <2>3, <2>4, <2>5
<1>5. CASE PutPrv(h)
  <2> DEFINE v == NhValue(table[h].prv_nh[idx[h]])
  <2>1. /\ pc[h] = "put_prv" /\ Insert(h, "prv_nh", idx[h], v)
        /\ call[h] = NoCall /\ UNCHANGED <<table, tab>> /\ idx[h] <= Len(table[h].prv_nh)
    BY <1>5 DEF PutPrv
  <2>2. v \in NhAddrs
    BY <1>2, <2>1, NhValueType DEF ECMPerTables
  <2> HIDE DEF v
  <2>3. CASE /\ Encodable("prv_nh", idx[h], v)
             /\ Write("prv_nh", idx[h], v) /\ Proceed(h, idx[h]) /\ After(h)
    <3>1. idx[h] \in HashRange
      BY <2>3 DEF Encodable
    <3> QED
      BY <1>1, <2>1, <2>2, <2>3, <3>1, PrvWritten
  <2>4. CASE /\ call'[h] = [tab |-> "prv_nh", key |-> idx[h], value |-> v]
             /\ UNCHANGED <<ipv4_lpm, cur_nh, prv_nh, pc, idx, keys>>
    <3>1. Retried(h)'
      BY <2>1, <2>2, <2>4 DEF Retried
    <3> QED
      BY <1>1, <2>1, <2>4, <3>1, RefusedClosed
  <2>5. CASE Abort(h) /\ After(h)
    BY <1>1, <2>5, AbortClosed
  <2> QED
    BY <1>3, <2>1, <2>3, <2>4, <2>5
<1>6. CASE PutCur(h)
  <2> DEFINE v == NhValue(table[h].cur_nh[idx[h]])
  <2>1. /\ pc[h] = "put_cur" /\ Insert(h, "cur_nh", idx[h], v)
        /\ call[h] = NoCall /\ UNCHANGED <<table, tab>> /\ idx[h] <= Len(table[h].cur_nh)
    BY <1>6 DEF PutCur
  <2>2. v \in NhAddrs
    BY <1>2, <2>1, NhValueType DEF ECMPerTables
  <2> HIDE DEF v
  <2>3. CASE /\ Encodable("cur_nh", idx[h], v)
             /\ Write("cur_nh", idx[h], v) /\ Proceed(h, idx[h]) /\ After(h)
    <3>1. idx[h] \in HashRange
      BY <2>3 DEF Encodable
    <3> QED
      BY <1>1, <2>1, <2>2, <2>3, <3>1, CurWritten
  <2>4. CASE /\ call'[h] = [tab |-> "cur_nh", key |-> idx[h], value |-> v]
             /\ UNCHANGED <<ipv4_lpm, cur_nh, prv_nh, pc, idx, keys>>
    <3>1. Retried(h)'
      BY <2>1, <2>2, <2>4 DEF Retried
    <3> QED
      BY <1>1, <2>1, <2>4, <3>1, RefusedClosed
  <2>5. CASE Abort(h) /\ After(h)
    BY <1>1, <2>5, AbortClosed
  <2> QED
    BY <1>3, <2>1, <2>3, <2>4, <2>5
<1>7. CASE PutLpm(h)
  <2>1. /\ pc[h] = "put_lpm" /\ call[h] = NoCall /\ UNCHANGED <<table, tab>>
        /\ \E p \in keys[h] : Insert(h, "ipv4_lpm", p, table[h].lpm[p])
    BY <1>7 DEF PutLpm
  <2>2. PICK p \in keys[h] : Insert(h, "ipv4_lpm", p, table[h].lpm[p])
    BY <2>1
  <2>3. p \in Prefixes /\ table[h].lpm[p] # Absent
    BY <1>1, <2>1 DEF TypeInv, TypeOK, KeysOK
  <2>4. CASE /\ Write("ipv4_lpm", p, table[h].lpm[p]) /\ Proceed(h, p) /\ After(h)
    BY <1>1, <2>1, <2>3, <2>4, LpmWritten
  <2>5. CASE /\ call'[h] = [tab |-> "ipv4_lpm", key |-> p, value |-> table[h].lpm[p]]
             /\ UNCHANGED <<ipv4_lpm, cur_nh, prv_nh, pc, idx, keys>>
    <3>1. Retried(h)'
      BY <2>1, <2>3, <2>5 DEF Retried
    <3> QED
      BY <1>1, <2>1, <2>5, <3>1, RefusedClosed
  <2>6. CASE Abort(h) /\ After(h)
    BY <1>1, <2>6, AbortClosed
  <2> QED
    BY <1>3, <2>1, <2>2, <2>4, <2>5, <2>6
<1>8. CASE PrvDone(h) \/ CurDone(h) \/ LpmDone(h)
  <2>1. /\ UNCHANGED <<ipv4_lpm, cur_nh, prv_nh, table, tab, call>>
        /\ pc[h] \in {"put_prv", "put_cur", "put_lpm"}
        /\ (pc[h] = "put_prv" => /\ idx[h] > Len(table[h].prv_nh)
                                 /\ pc'[h] = "put_cur" /\ idx'[h] = 1)
        /\ (pc[h] = "put_cur" => idx[h] > Len(table[h].cur_nh) /\ pc'[h] = "put_lpm")
        /\ (pc[h] = "put_lpm" => keys[h] = {} /\ pc'[h] = "finish")
    BY <1>1, <1>2, <1>8 DEF PrvDone, CurDone, LpmDone, Goto, switchVars
  <2>2. LpmLive'
    BY <2>1, StillClosed DEF Closed
  <2>3. Len(table[h].prv_nh) \in Nat /\ Len(table[h].cur_nh) \in Nat
    BY <1>2 DEF ECMPerTables
  <2>4. /\ (pc[h] = "put_prv" => AllLive(prv_nh, Len(table[h].prv_nh)))
        /\ (pc[h] = "put_cur" => AllLive(cur_nh, Len(table[h].cur_nh)))
    BY <1>2, <2>1, <2>3 DEF Closed, Filled, AllLive
  <2>5. Filled(h)'
    <3>1. /\ prv_nh' = prv_nh /\ cur_nh' = cur_nh /\ table'[h] = table[h]
          /\ pc[h] \in {"put_cur", "put_lpm"} => AllLive(prv_nh, Len(table[h].prv_nh))
      BY <2>1 DEF Closed, Filled
    <3>2. CASE pc[h] = "put_prv"
      <4>1. pc'[h] = "put_cur" /\ AllLive(cur_nh', idx'[h] - 1)
        BY <2>1, <3>2 DEF AllLive
      <4>2. AllLive(prv_nh', Len(table'[h].prv_nh))
        BY <2>4, <3>1, <3>2
      <4> QED
        BY <4>1, <4>2 DEF Filled, AllLive, Live
    <3>3. CASE pc[h] = "put_cur"
      <4>1. pc'[h] = "put_lpm"
        BY <2>1, <3>3
      <4>2. AllLive(prv_nh', Len(table'[h].prv_nh)) /\ AllLive(cur_nh', Len(table'[h].cur_nh))
        BY <2>4, <3>1, <3>3
      <4> QED
        BY <4>1, <4>2 DEF Filled, AllLive, Live
    <3>4. CASE pc[h] = "put_lpm"
      BY <2>1, <3>4 DEF Filled
    <3> QED
      BY <2>1, <3>2, <3>3, <3>4
  <2>6. call[h] = NoCall
    BY <1>2, <2>1, <2>3 DEF Closed, Retried
  <2>7. Retried(h)' /\ Emptied(h)' /\ Emptying(h)' /\ Encoded(table[h])'
    BY <2>1, <2>6
    DEF Closed, Encoded, Retried, Emptied, NhTablesChange, LpmEmpty, Emptying
  <2> QED
    BY <2>2, <2>5, <2>7 DEF Closed
<1> QED
  BY <1>4, <1>5, <1>6, <1>7, <1>8

LEMMA CallClosed ==
  ASSUME NEW h, Alone(h), TypeInv, Closed(h), Modify(h) \/ PutNeigh(h)
  PROVE  Closed(h)'
<1>1. h \in Handlers /\ call \in [Handlers -> Calls]
  BY DEF Alone, TypeInv, TypeOK, HandlerTypeOK
<1>2. After(h)
  BY <1>1 DEF Modify, PutNeigh, After
<1>3. CASE Abort(h)
  BY <1>1, <1>2, <1>3, AbortClosed
<1>4. CASE Modify(h) /\ ~ Abort(h)
  <2> DEFINE t == call[h].tab  k == call[h].key  v == call[h].value
  <2>1. Write(t, k, v) /\ Proceed(h, k) /\ call[h] # NoCall /\ pc[h] # "put_neigh"
    BY <1>4 DEF Modify
  <2>2. t \in Tables /\ k \in Keys(t) /\ v \in Values(t)
    BY <1>1, <2>1, CallWritable
  <2> HIDE DEF t, k, v
  <2>3. CASE pc[h] \in {"drop_prv", "drop_cur"} /\ t # "ipv4_lpm"
    BY <1>1, <1>2, <2>1, <2>3, DropWritten
  <2>4. CASE pc[h] = "put_prv" /\ t = "prv_nh" /\ k = idx[h] /\ v \in NhAddrs
    <3>1. idx[h] \in HashRange
      BY <2>2, <2>4 DEF Keys
    <3> QED
      BY <1>1, <1>2, <2>1, <2>4, <3>1, PrvWritten
  <2>5. CASE pc[h] = "put_cur" /\ t = "cur_nh" /\ k = idx[h] /\ v \in NhAddrs
    <3>1. idx[h] \in HashRange
      BY <2>2, <2>5 DEF Keys
    <3> QED
      BY <1>1, <1>2, <2>1, <2>5, <3>1, CurWritten
  <2>6. CASE /\ pc[h] = "put_lpm" /\ t = "ipv4_lpm"
             /\ table[h].lpm[k] # Absent /\ v = table[h].lpm[k]
    <3>1. k \in Prefixes
      BY <2>2, <2>6 DEF Keys
    <3> QED
      BY <1>1, <1>2, <2>1, <2>6, <3>1, LpmWritten
  <2> QED
    BY <2>1, <2>3, <2>4, <2>5, <2>6 DEF Closed, Retried, t, k, v
<1>5. CASE PutNeigh(h) /\ ~ Abort(h)
  <2>1. pc[h] = "put_neigh" /\ Write("neigh", call[h].key, call[h].value) /\ Proceed(h, call[h].key)
    BY <1>5 DEF PutNeigh
  <2>2. UNCHANGED <<ipv4_lpm, cur_nh, prv_nh>> /\ pc'[h] = "reply"
    BY <1>1, <2>1 DEF Write, Proceed, Goto, TypeInv, TypeOK, HandlerTypeOK
  <2>3. LpmLive'
    BY <2>2, StillClosed DEF Closed
  <2> QED
    BY <1>2, <2>2, <2>3
    DEF After, Closed, Encoded, Retried, Emptied, NhTablesChange, Emptying, Filled
<1> QED
  BY <1>3, <1>4, <1>5

LEMMA EndClosed ==
  ASSUME NEW h, Alone(h), TypeInv, Closed(h), Finish(h) \/ Renew(h) \/ Reply(h)
  PROVE  Closed(h)'
<1>1. h \in Handlers
  BY DEF Alone
<1>2. /\ UNCHANGED <<ipv4_lpm, cur_nh, prv_nh, call>> /\ pc[h] \in {"finish", "renew", "reply"}
      /\ pc'[h] \in {"reply", "idle"} /\ table'[h] \in {table[h], NoTable}
  BY <1>1 DEF Finish, Renew, Reply, Goto, switchVars, TypeInv, TypeOK, HandlerTypeOK
<1>3. LpmLive'
  BY <1>2, StillClosed DEF Closed
<1>4. Encoded(table[h])'
  BY <1>2, NoTableEncoded DEF Closed, Encoded
<1> QED
  BY <1>2, <1>3, <1>4 DEF Closed, Retried, Emptied, NhTablesChange, Emptying, Filled

LEMMA RestartClosed ==
  ASSUME NEW h, Alone(h), Restart
  PROVE  Closed(h)'
<1>1. LpmEmpty' /\ LpmLive'
  BY DEF Restart, EmptyLpm, LpmEmpty, LpmLive
<1>2. /\ h \in Handlers /\ pc'[h] = "idle" /\ table'[h] = NoTable /\ call'[h] = NoCall
  BY DEF Restart, Alone
<1>3. Encoded(table[h])'
  BY <1>2, NoTableEncoded DEF Encoded
<1> QED
  BY <1>1, <1>2, <1>3 DEF Closed, Retried, Emptied, NhTablesChange, Emptying, Filled

LEMMA NextClosed ==
  ASSUME NEW h, Alone(h), TypeInv, Closed(h), [Next]_vars
  PROVE  Closed(h)'
<1>1. CASE Request
  BY <1>1, RequestClosed
<1>2. CASE HandlerStep(h)
  BY <1>2, MemoryClosed, ClearClosed, WritesClosed, CallClosed, EndClosed
  DEF HandlerStep, MemoryStep
<1>3. CASE Restart
  BY <1>3, RestartClosed
<1>4. CASE UNCHANGED vars
  <2>1. UNCHANGED <<pc, idx, tab, keys, call, table, ipv4_lpm, cur_nh, prv_nh>>
    BY <1>4 DEF vars, switchVars, handlerVars
  <2>2. Retried(h)' /\ Encoded(table[h])'
    BY <2>1 DEF Closed, Retried, Encoded
  <2>3. h \in Handlers
    BY DEF Alone
  <2> QED
    BY <2>1, <2>2, <2>3, RefusedClosed
<1> QED
  BY <1>1, <1>2, <1>3, <1>4 DEF Next, Alone

(* Within a block that lies in the table, the mask and the offset lead to  *)
(* a slot of the block.                                                    *)
LEMMA IndexInBlock ==
  ASSUME NEW hash \in HashRange, NEW c \in Nat, NEW o \in Nat, c # 0,
         \A i \in Slots(o, c) : i \in HashRange
  PROVE  Index(hash, c, o) \in Slots(o, c)
<1> DEFINE W == 2^HashBits
<1>1. W \in Nat \ {0} /\ HashRange = 0 .. W - 1 /\ hash \in Nat
  BY PowersAssumption, HashBitsAssumption DEF HashRange
<1> DEFINE m == hash % c
<1>2. m \in 0 .. c - 1
  BY <1>1
<1>3. Index(hash, c, o) = (m + o) % W
  BY DEF Index, Masked
<1> HIDE DEF W, m
<1>4. m + o \in Slots(o, c)
  BY <1>2 DEF Slots
<1>5. m + o \in 0 .. W - 1
  BY <1>1, <1>4
<1>6. (m + o) % W = m + o
  BY <1>1, <1>5
<1> QED
  BY <1>3, <1>4, <1>6

LEMMA LiveBlock ==
  ASSUME NEW nh, NEW c \in Nat, NEW o \in Nat, \A i \in Slots(o, c) : Live(nh, i)
  PROVE  BlockLive(nh, c, o)
BY IndexInBlock DEF BlockLive, Live

LEMMA LiveIsClosed ==
  ASSUME TypeInv, LpmLive
  PROVE  LpmClosed
<1> SUFFICES ASSUME NEW p \in Prefixes, ipv4_lpm[p] # Absent
             PROVE  /\ ipv4_lpm[p].prv_count # 0 \/ ipv4_lpm[p].cur_count # 0
                    /\ BlockLive(prv_nh, ipv4_lpm[p].prv_count, ipv4_lpm[p].prv_offset)
                    /\ BlockLive(cur_nh, ipv4_lpm[p].cur_count, ipv4_lpm[p].cur_offset)
  BY DEF LpmClosed
<1> DEFINE e == ipv4_lpm[p]
<1>1. e \in LpmParams /\ BlocksLive(e)
  BY DEF LpmLive, TypeInv, TypeOK, SwitchTypeOK
<1>2. /\ e.prv_count \in Nat /\ e.prv_offset \in Nat
      /\ e.cur_count \in Nat /\ e.cur_offset \in Nat
  BY <1>1 DEF LpmParams
<1> HIDE DEF e
<1>3. BlockLive(prv_nh, e.prv_count, e.prv_offset) /\ BlockLive(cur_nh, e.cur_count, e.cur_offset)
  BY <1>1, <1>2, LiveBlock DEF BlocksLive
<1> QED
  BY <1>1, <1>3 DEF BlocksLive, e

(* With one handler and no failing delete, do_clear and do_install leave   *)
(* no LPM entry without a block, and no block of one without its slots: at *)
(* no moment, for no list of routes, for no hash, and no matter which      *)
(* write is refused.                                                       *)
THEOREM LpmStaysClosed ==
  ASSUME NEW h, Handlers = {h}, "delete" \notin Faults
  PROVE  Spec => []LpmClosed
<1>1. Alone(h)
  BY DEF Alone
<1>2. Init => TypeInv /\ Closed(h)
  BY <1>1, InitType, InitClosed
<1>3. TypeInv /\ Closed(h) /\ [Next]_vars => (TypeInv /\ Closed(h))'
  BY <1>1, NextType, NextClosed
<1>4. TypeInv /\ Closed(h) => LpmClosed
  BY LiveIsClosed DEF Closed
<1> QED
  BY <1>2, <1>3, <1>4, PTL DEF Spec

-----------------------------------------------------------------------------
(***************************************************************************)
(* What the jobs of the controller leave behind: an /install in the switch *)
(* (Deployed) and in the routes (InstallDeploysQueued), a /clear in the    *)
(* switch (ClearEmpties).                                                  *)
(***************************************************************************)
-----------------------------------------------------------------------------
(***************************************************************************)
(* The inductive invariant.                                                *)
(***************************************************************************)
(* No install has changed a list under an iteration of another. *)
Steady == shifted = {} /\ overlapped = {}

JobOK ==
  /\ pc[h0] = "idle" => job[h0] = "none"
  /\ pc[h0] \in {"snapshot", "adds", "dels", "build", "build_cur", "encode",
                 "put_prv", "put_cur", "put_lpm", "finish"} => job[h0] = "install"
  /\ pc[h0] \in {"read", "delete", "drop_prv", "drop_cur"} => job[h0] \in {"install", "clear"}
  /\ pc[h0] = "renew" => job[h0] = "clear"
  /\ pc[h0] = "put_neigh" => job[h0] = "neigh"

(* Only /clear replaces the installer, and it does not overlap an install. *)
SelfOK == job[h0] = "install" => self[h0] = nh_installer

(* An install has its ECMPerTable. *)
Built ==
  /\ job[h0] = "install"
  /\ pc[h0] \in {"encode", "read", "delete", "drop_prv", "drop_cur",
                 "put_prv", "put_cur", "put_lpm", "finish"}

TableRibs ==
  /\ pc[h0] = "build_cur" => /\ table[h0].prv = prv_routes[nh_installer] /\ idx[h0] = 1
                             /\ \A p \in Prefixes : table[h0].lpm[p] = Absent
  /\ Built => /\ table[h0].prv = prv_routes[nh_installer]
              /\ table[h0].cur = cur_routes[nh_installer]

BlockAt(list, offset, block) ==
  \A x \in 1 .. Len(block) :
    offset + x - 1 \in 1 .. Len(list) /\ list[offset + x - 1] = block[x]

(* Offsets and counts of the encoded prefixes give their blocks. *)
EncodedRight(t) ==
  \A p \in Prefixes : t.lpm[p] # Absent =>
    /\ t.prv[p] # <<>> \/ t.cur[p] # <<>>
    /\ t.lpm[p].prv_count = Len(ExpandNh(t.prv[p]))
    /\ t.lpm[p].cur_count = Len(ExpandNh(t.cur[p]))
    /\ BlockAt(t.prv_nh, t.lpm[p].prv_offset, ExpandNh(t.prv[p]))
    /\ BlockAt(t.cur_nh, t.lpm[p].cur_offset, ExpandNh(t.cur[p]))

Settled(t, p) == t.lpm[p] = Absent => t.prv[p] = <<>> /\ t.cur[p] = <<>>

(* do_encode leaves out no prefix that has a route. *)
AllEncoded ==
  /\ pc[h0] = "encode" =>
       \A i \in 1 .. Len(PrefixOrder) : i < idx[h0] => Settled(table[h0], PrefixOrder[i])
  /\ Built /\ pc[h0] # "encode" => \A p \in Prefixes : Settled(table[h0], p)

RetriedRight ==
  call[h0] # NoCall =>
    /\ pc[h0] = "put_prv" => call[h0].value = NhValue(table[h0].prv_nh[idx[h0]])
    /\ pc[h0] = "put_cur" => call[h0].value = NhValue(table[h0].cur_nh[idx[h0]])

Copied(nh, list, n) == \A i \in 1 .. n : i \in HashRange /\ nh[i] = NhValue(list[i])

(* How far do_install has got in the nexthop tables, and in ipv4_lpm. *)
Written ==
  /\ pc[h0] = "put_prv" => Copied(prv_nh, table[h0].prv_nh, idx[h0] - 1)
  /\ pc[h0] \in {"put_cur", "put_lpm", "finish"} =>
       Copied(prv_nh, table[h0].prv_nh, Len(table[h0].prv_nh))
  /\ pc[h0] = "put_cur" => Copied(cur_nh, table[h0].cur_nh, idx[h0] - 1)
  /\ pc[h0] \in {"put_lpm", "finish"} =>
       Copied(cur_nh, table[h0].cur_nh, Len(table[h0].cur_nh))

LpmPut ==
  /\ pc[h0] = "put_lpm" =>
       \A p \in Prefixes : ipv4_lpm[p] = IF p \in keys[h0] THEN Absent ELSE table[h0].lpm[p]
  /\ pc[h0] = "finish" => \A p \in Prefixes : ipv4_lpm[p] = table[h0].lpm[p]
  /\ pc[h0] = "renew" => LpmEmpty

(* Whatever the handler does, the prefixes in service are served by the    *)
(* routes that are or were last installed.                                 *)
InService ==
  \A p \in Prefixes : ipv4_lpm[p] # Absent =>
    Shown(cur_nh, ipv4_lpm[p].cur_offset, ipv4_lpm[p].cur_count) = BlockOf(CurRib[p])

Exact ==
  /\ JobOK /\ SelfOK /\ TableRibs
  /\ EncodedRight(table[h0]) /\ AllEncoded
  /\ RetriedRight /\ Written /\ LpmPut
  /\ InService

InstallInv == TypeInv /\ Closed(h0) /\ Steady /\ Exact
-----------------------------------------------------------------------------
(* Installs that do not overlap. *)

LEMMA InitSteady == Init => Steady
BY DEF Init, Steady

LEMMA SteadyShifts ==
  ASSUME Steady, NEW h \in Handlers, \A g \in Handlers \ {h} : pc[g] = "idle", Shifts(h)
  PROVE  shifted' = {}
BY DEF Steady, Shifts

LEMMA SteadyStep ==
  ASSUME Steady, [Next]_vars,
         \A h \in Handlers : HandlerStep(h) => \A g \in Handlers \ {h} : pc[g] = "idle"
  PROVE  Steady'
<1>1. CASE Request
  BY <1>1 DEF Request, RestAdd, RestDel, RestInstall, RestClear, RestNeighAdd, RestNeighDel,
              ribVars, history, Steady
<1>2. ASSUME NEW h \in Handlers, MemoryStep(h)
      PROVE  Steady'
  <2>1. \A g \in Handlers \ {h} : pc[g] = "idle"
    BY <1>2 DEF HandlerStep, MemoryStep
  <2>2. shifted' = {}
    BY <1>2, <2>1, SteadyShifts DEF MemoryStep, TakeSnapshot, AddRoute, AddsDone, DelRoute, DelsDone,
       AddRouteShifted, DelRouteShifted, RemoveFails, BuildPrv, BuildCur, Encode,
       EncodeDone, ribVars, history, Steady
  <2>3. overlapped' = {}
    BY <1>2 DEF MemoryStep, TakeSnapshot, AddRoute, AddsDone, DelRoute, DelsDone,
       AddRouteShifted, Undisturbed, DelRouteShifted, RemoveFails, BuildPrv, BuildCur, Encode,
       EncodeDone, ribVars, history, Steady
  <2> QED
    BY <2>2, <2>3 DEF Steady
<1>3. ASSUME NEW h \in Handlers, HandlerStep(h), ~ MemoryStep(h)
      PROVE  Steady'
  BY <1>3 DEF HandlerStep, MemoryStep, ReadTable, DeleteEntry, DeleteFails, TableCleared,
     PutDrop, PutPrv, PrvDone, PutCur, CurDone, PutLpm, LpmDone, Modify, Finish,
     PutNeigh, Renew, Reply, ribVars, history, Steady
<1>4. CASE Restart
  BY <1>4 DEF Restart, Steady
<1>5. CASE UNCHANGED vars
  BY <1>5 DEF vars, ribVars, history, Steady
<1> QED
  BY <1>1, <1>2, <1>3, <1>4, <1>5 DEF Next

(* Then no other handler disturbs the loops of process_routes.             *)
LEMMA SteadyMemory ==
  ASSUME Steady, NEW h, MemoryStep(h)
  PROVE  \/ TakeSnapshot(h) \/ AddRoute(h) \/ AddsDone(h) \/ DelRoute(h) \/ DelsDone(h)
         \/ BuildPrv(h) \/ Encode(h) \/ EncodeDone(h)
         \/ BuildCur(h) /\ table' = [table EXCEPT ![h].cur = cur_routes[self[h]]]
BY DEF MemoryStep, Steady, Undisturbed, AddRouteShifted, DelRouteShifted, RemoveFails, BuildCur

(* Blocks in lists. *)

LEMMA BlockAppended ==
  ASSUME NEW list \in Seq(Nexthops), NEW block \in Seq(Nexthops)
  PROVE  BlockAt(list \o block, Len(list) + 1, block)
BY DEF BlockAt

LEMMA BlockKept ==
  ASSUME NEW list \in Seq(Nexthops), NEW more \in Seq(Nexthops),
         NEW offset \in Nat, NEW block \in Seq(Nexthops), BlockAt(list, offset, block)
  PROVE  BlockAt(list \o more, offset, block)
<1>1. Len(list \o more) = Len(list) + Len(more) /\ Len(list) \in Nat /\ Len(more) \in Nat
  OBVIOUS
<1>2. \A i \in 1 .. Len(list) : (list \o more)[i] = list[i]
  OBVIOUS
<1> QED
  BY <1>1, <1>2 DEF BlockAt

LEMMA EncodedRightStep ==
  ASSUME NEW t \in ECMPerTables, EncodedRight(t), NEW p \in Prefixes,
         t.prv[p] # <<>> \/ t.cur[p] # <<>>
  PROVE  LET u == EncodePrefix(t, p)
         IN  /\ EncodedRight(u)
             /\ u.prv = t.prv /\ u.cur = t.cur
             /\ Settled(u, p)
             /\ \A q \in Prefixes : Settled(t, q) => Settled(u, q)
<1> DEFINE prv == ExpandNh(t.prv[p])  cur == ExpandNh(t.cur[p])
           params == [prv_offset |-> Len(t.prv_nh) + 1, prv_count |-> Len(prv),
                      cur_offset |-> Len(t.cur_nh) + 1, cur_count |-> Len(cur)]
           u == EncodePrefix(t, p)
<1>1. /\ t.prv \in Rib /\ t.cur \in Rib
      /\ t.prv_nh \in Seq(Nexthops) /\ t.cur_nh \in Seq(Nexthops)
      /\ t.lpm \in [Prefixes -> LpmParams \cup {Absent}]
  BY DEF ECMPerTables
<1>2. \A q \in Prefixes : ExpandNh(t.prv[q]) \in Seq(Nexthops) /\ ExpandNh(t.cur[q]) \in Seq(Nexthops)
  BY <1>1, RibType, BlockType
<1>3. /\ u.prv_nh = t.prv_nh \o prv /\ u.cur_nh = t.cur_nh \o cur
      /\ u.lpm = [t.lpm EXCEPT ![p] = params]
      /\ u.prv = t.prv /\ u.cur = t.cur
  BY DEF EncodePrefix, ECMPerTables
<1>4. prv \in Seq(Nexthops) /\ cur \in Seq(Nexthops)
  BY <1>2
<1>5. /\ BlockAt(u.prv_nh, params.prv_offset, prv) /\ params.prv_count = Len(prv)
      /\ BlockAt(u.cur_nh, params.cur_offset, cur) /\ params.cur_count = Len(cur)
  <2> HIDE DEF prv, cur, u
  <2> QED
    BY <1>1, <1>3, <1>4, BlockAppended
<1>6. params # Absent
  <2>1. params \in LpmParams
    <3> HIDE DEF prv, cur
    <3> QED
      BY <1>1, <1>4 DEF LpmParams
  <2> QED
    BY <2>1, ControllerAssumption
<1> HIDE DEF params, u
<1>7. ASSUME NEW q \in Prefixes, u.lpm[q] # Absent
      PROVE  /\ u.prv[q] # <<>> \/ u.cur[q] # <<>>
             /\ u.lpm[q].prv_count = Len(ExpandNh(u.prv[q]))
             /\ u.lpm[q].cur_count = Len(ExpandNh(u.cur[q]))
             /\ BlockAt(u.prv_nh, u.lpm[q].prv_offset, ExpandNh(u.prv[q]))
             /\ BlockAt(u.cur_nh, u.lpm[q].cur_offset, ExpandNh(u.cur[q]))
  <2>1. CASE q = p
    <3>1. u.lpm[q] = params
      BY <1>1, <1>3, <2>1
    <3> QED
      BY <1>3, <1>5, <2>1, <3>1
  <2>2. CASE q # p
    <3>1. u.lpm[q] = t.lpm[q]
      BY <1>1, <1>3, <2>2
    <3>2. t.lpm[q].prv_offset \in Nat /\ t.lpm[q].cur_offset \in Nat
      BY <1>1, <1>7, <3>1 DEF LpmParams
    <3>3. /\ BlockAt(t.prv_nh, t.lpm[q].prv_offset, ExpandNh(t.prv[q]))
          /\ BlockAt(t.cur_nh, t.lpm[q].cur_offset, ExpandNh(t.cur[q]))
          /\ t.lpm[q].prv_count = Len(ExpandNh(t.prv[q]))
          /\ t.lpm[q].cur_count = Len(ExpandNh(t.cur[q]))
          /\ t.prv[q] # <<>> \/ t.cur[q] # <<>>
      BY <1>7, <3>1 DEF EncodedRight
    <3>4. /\ BlockAt(u.prv_nh, t.lpm[q].prv_offset, ExpandNh(t.prv[q]))
          /\ BlockAt(u.cur_nh, t.lpm[q].cur_offset, ExpandNh(t.cur[q]))
      <4> HIDE DEF prv, cur
      <4>1. /\ t.prv_nh \in Seq(Nexthops) /\ t.cur_nh \in Seq(Nexthops)
            /\ ExpandNh(t.prv[q]) \in Seq(Nexthops) /\ ExpandNh(t.cur[q]) \in Seq(Nexthops)
        BY <1>1, <1>2
      <4>2. BlockAt(t.prv_nh \o prv, t.lpm[q].prv_offset, ExpandNh(t.prv[q]))
        BY <1>4, <3>2, <3>3, <4>1, BlockKept, Zenon
      <4>3. BlockAt(t.cur_nh \o cur, t.lpm[q].cur_offset, ExpandNh(t.cur[q]))
        BY <1>4, <3>2, <3>3, <4>1, BlockKept, Zenon
      <4> QED
        BY <1>3, <4>2, <4>3
    <3> QED
      BY <1>3, <3>1, <3>3, <3>4
  <2> QED
    BY <2>1, <2>2
<1>8. EncodedRight(u)
  BY <1>7 DEF EncodedRight
<1>9. Settled(u, p) /\ \A q \in Prefixes : Settled(t, q) => Settled(u, q)
  BY <1>1, <1>3, <1>6 DEF Settled
<1> QED
  BY <1>3, <1>8, <1>9 DEF u

(* The blocks that an LPM entry of the table leads to, once its lists are  *)
(* in the switch.                                                          *)
LEMMA ShownBlock ==
  ASSUME NEW nh, NEW list \in Seq(Nexthops), Copied(nh, list, Len(list)),
         NEW l \in Seq(Nexthops), ExpandNh(l) \in Seq(Nexthops),
         NEW offset \in Nat, BlockAt(list, offset, ExpandNh(l))
  PROVE  Shown(nh, offset, Len(ExpandNh(l))) = BlockOf(l)
<1> DEFINE b == ExpandNh(l)
<1>1. DOMAIN b = 1 .. Len(b)
  OBVIOUS
<1> HIDE DEF b
<1>2. \A x \in 1 .. Len(b) : nh[offset + x - 1] = NhValue(b[x])
  BY DEF Copied, BlockAt, b
<1> QED
  BY <1>1, <1>2, Zenon DEF Shown, BlockOf, b

-----------------------------------------------------------------------------
(* What a step leaves alone. *)

(* A step that Generations does not see. *)
Unseen ==
  /\ CurRib' = CurRib
  /\ Updating' = Updating
  /\ Updating => UNCHANGED <<prv_routes, nh_installer>>
  /\ UNCHANGED <<ipv4_lpm, cur_nh, prv_nh>> \/ (LpmEmpty /\ LpmEmpty')

LEMMA CurRibKept ==
  ASSUME UNCHANGED <<pc, job, tab, nh_installer, cur_routes, prv_routes>>
  PROVE  CurRib' = CurRib /\ Updating' = Updating
BY DEF CurRib, BeforeAdvance, Updating

LEMMA ServiceKept ==
  ASSUME InService, UNCHANGED <<ipv4_lpm, cur_nh>>, CurRib' = CurRib
  PROVE  InService'
BY DEF InService, Shown, BlockOf

LEMMA NobodyServed == LpmEmpty => InService
BY DEF LpmEmpty, InService

LEMMA LocalsKept ==
  ASSUME Exact, RetriedRight',
         UNCHANGED <<ipv4_lpm, cur_nh, prv_nh, nh_installer, cur_routes, prv_routes,
                     pc, job, self, table, idx, tab, keys>>
  PROVE  Exact'
<1> USE DEF Exact
<1>1. JobOK' /\ SelfOK' /\ TableRibs'
  BY DEF JobOK, SelfOK, TableRibs, Built
<1>2. EncodedRight(table[h0])' /\ AllEncoded'
  BY DEF EncodedRight, BlockAt, AllEncoded, Built, Settled
<1>3. Written' /\ LpmPut'
  BY DEF Written, LpmPut, Copied, LpmEmpty
<1>4. InService'
  BY CurRibKept, ServiceKept
<1> QED
  BY <1>1, <1>2, <1>3, <1>4

LEMMA NoTableRight == EncodedRight(NoTable)
BY DEF EncodedRight, NoTable

LEMMA InitExact == Alone(h0) /\ Init => Exact
<1> SUFFICES ASSUME Alone(h0), Init PROVE Exact
  OBVIOUS
<1>1. /\ h0 \in Handlers /\ pc[h0] = "idle" /\ job[h0] = "none"
      /\ table[h0] = NoTable /\ call[h0] = NoCall
  BY DEF Init, Alone
<1>2. LpmEmpty
  BY DEF Init, EmptyLpm, LpmEmpty
<1> QED
  BY <1>1, <1>2, NoTableRight, NobodyServed
  DEF Exact, JobOK, SelfOK, TableRibs, Built, AllEncoded, RetriedRight, Written, LpmPut

(* The start of a job. *)
LEMMA StartExact ==
  ASSUME Alone(h0), InstallInv, pc[h0] = "idle", UNCHANGED ribVars,
         UNCHANGED <<ipv4_lpm, cur_nh, prv_nh, table>>,
         \/ pc'[h0] = "snapshot" /\ job'[h0] = "install" /\ self'[h0] = nh_installer
         \/ pc'[h0] = "read" /\ job'[h0] = "clear"
         \/ pc'[h0] = "put_neigh" /\ job'[h0] = "neigh"
  PROVE  Exact' /\ Unseen
<1> USE DEF InstallInv, Exact
<1>1. JobOK' /\ SelfOK' /\ TableRibs' /\ AllEncoded' /\ RetriedRight' /\ Written' /\ LpmPut'
  BY DEF JobOK, SelfOK, TableRibs, Built, AllEncoded, RetriedRight, Written, LpmPut, ribVars
<1>2. EncodedRight(table[h0])'
  BY DEF EncodedRight, BlockAt
<1>3. CurRib' = CurRib /\ Updating' = Updating
  BY DEF CurRib, BeforeAdvance, Updating, ribVars
<1> QED
  BY <1>1, <1>2, <1>3, ServiceKept DEF Unseen, ribVars

LEMMA RequestExact ==
  ASSUME Alone(h0), InstallInv, Request
  PROVE  Exact' /\ Unseen
<1>1. /\ h0 \in Handlers /\ \A g \in Handlers : g = h0
      /\ pc \in [Handlers -> Labels] /\ self \in [Handlers -> Installers]
      /\ job \in [Handlers -> {"none", "install", "clear", "neigh"}]
  BY DEF Alone, InstallInv, TypeInv, TypeOK, HandlerTypeOK
<1>2. UNCHANGED <<ipv4_lpm, cur_nh, prv_nh, table, nh_installer, cur_routes, prv_routes>>
  BY DEF Request, RestAdd, RestDel, RestInstall, RestClear, RestNeighAdd, RestNeighDel,
         switchVars, handlerVars, ribVars
<1>3. CASE UNCHANGED <<pc, job, self, table, idx, tab, keys, call>>
  <2>1. RetriedRight'
    BY <1>3 DEF InstallInv, Exact, RetriedRight
  <2> QED
    BY <1>2, <1>3, <2>1, LocalsKept, CurRibKept DEF InstallInv, Unseen
<1>4. CASE RestInstall(h0)
  BY <1>1, <1>2, <1>4, StartExact DEF RestInstall, StartJob, Goto
<1>5. CASE RestClear(h0)
  BY <1>1, <1>2, <1>5, StartExact DEF RestClear, StartJob, Goto
<1>6. ASSUME NEW a \in NeighAddrs, NEW action \in NeighPorts, RestNeighAdd(h0, a, action)
      PROVE  Exact' /\ Unseen
  BY <1>1, <1>2, <1>6, StartExact DEF RestNeighAdd, StartJob, Goto
<1>7. (\/ \E r \in Routes : RestAdd(r) \/ RestDel(r)
       \/ \E a \in NeighAddrs : RestNeighDel(a))
      => UNCHANGED <<pc, job, self, table, idx, tab, keys, call>>
  BY DEF RestAdd, RestDel, RestNeighDel, handlerVars
<1> QED
  BY <1>1, <1>2, <1>3, <1>4, <1>5, <1>6, <1>7 DEF Request

(* process_routes in memory: the RIBs change, the switch does not. *)
LEMMA MemoryExact ==
  ASSUME Alone(h0), InstallInv, MemoryStep(h0)
  PROVE  Exact' /\ Unseen
<1> USE DEF InstallInv, Exact
<1>1. /\ h0 \in Handlers
      /\ pc \in [Handlers -> Labels] /\ tab \in [Handlers -> Tables]
      /\ table \in [Handlers -> ECMPerTables] /\ idx \in [Handlers -> Nat \ {0}]
      /\ nh_installer \in Installers
      /\ cur_routes \in [Installers -> Rib] /\ prv_routes \in [Installers -> Rib]
  BY DEF Alone, TypeInv, TypeOK, HandlerTypeOK, RibTypeOK
<1>2. /\ UNCHANGED <<ipv4_lpm, cur_nh, prv_nh, nh_installer, job, self, call>>
      /\ pc[h0] \in {"snapshot", "adds", "dels", "build", "build_cur", "encode"}
      /\ job[h0] = "install" /\ self[h0] = nh_installer
  <2>1. /\ UNCHANGED switchVars /\ UNCHANGED nh_installer /\ UNCHANGED <<job, self, call>>
        /\ pc[h0] \in {"snapshot", "adds", "dels", "build", "build_cur", "encode"}
    BY <1>1, MemoryFrame
  <2>2. job[h0] = "install" /\ self[h0] = nh_installer
    BY <2>1 DEF JobOK, SelfOK
  <2> QED
    BY <2>1, <2>2 DEF switchVars
<1>3. call[h0] = NoCall
  BY <1>2 DEF Closed, Retried
<1>11. \/ TakeSnapshot(h0) \/ AddRoute(h0) \/ AddsDone(h0) \/ DelRoute(h0) \/ DelsDone(h0)
       \/ BuildPrv(h0) \/ Encode(h0) \/ EncodeDone(h0)
       \/ BuildCur(h0) /\ table' = [table EXCEPT ![h0].cur = cur_routes[nh_installer]]
  BY <1>2, SteadyMemory
<1>4. \/ pc'[h0] \in {"adds", "dels", "build", "build_cur", "encode"}
      \/ pc'[h0] = "read" /\ tab'[h0] = "ipv4_lpm"
  BY <1>1, <1>11 DEF TakeSnapshot, AddRoute, AddsDone, DelRoute, DelsDone, NextRoute, BuildPrv, BuildCur,
         Encode, EncodeDone, Goto
<1>5. JobOK' /\ SelfOK' /\ RetriedRight' /\ Written' /\ LpmPut'
  BY <1>2, <1>3, <1>4 DEF JobOK, SelfOK, RetriedRight, Written, LpmPut
<1>6. CurRib' = CurRib
  <2>1. BeforeAdvance'
    BY <1>2, <1>4 DEF BeforeAdvance
  <2>2. CASE TakeSnapshot(h0)
    <3>1. ~ BeforeAdvance
      BY <2>2 DEF TakeSnapshot, BeforeAdvance
    <3>2. prv_routes'[nh_installer] = cur_routes[nh_installer]
      BY <1>1, <1>2, <2>2 DEF TakeSnapshot
    <3> QED
      BY <1>2, <2>1, <3>1, <3>2 DEF CurRib
  <2>3. CASE ~ TakeSnapshot(h0)
    <3>1. BeforeAdvance /\ prv_routes' = prv_routes
      BY <1>11, <2>3 DEF BeforeAdvance, AddRoute, AddsDone, DelRoute, DelsDone, NextRoute, BuildPrv,
                  BuildCur, Encode, EncodeDone, ribVars
    <3> QED
      BY <1>2, <2>1, <3>1 DEF CurRib
  <2> QED
    BY <2>2, <2>3
<1>7. Unseen
  BY <1>2, <1>4, <1>6 DEF Unseen, Updating
<1>8. TableRibs' /\ EncodedRight(table'[h0]) /\ AllEncoded'
  <2>1. CASE TakeSnapshot(h0) \/ AddRoute(h0) \/ AddsDone(h0) \/ DelRoute(h0) \/ DelsDone(h0)
    <3>1. table' = table /\ pc'[h0] \in {"adds", "dels", "build"}
      BY <1>1, <2>1 DEF TakeSnapshot, AddRoute, AddsDone, DelRoute, DelsDone, NextRoute, Goto
    <3> QED
      BY <3>1 DEF TableRibs, Built, AllEncoded
  <2>2. CASE BuildPrv(h0)
    <3> DEFINE u == [NoTable EXCEPT !.prv = prv_routes[nh_installer]]
    <3>1. /\ table'[h0] = u /\ pc'[h0] = "build_cur" /\ idx'[h0] = 1
          /\ UNCHANGED <<cur_routes, prv_routes>>
      BY <1>1, <1>2, <2>2 DEF BuildPrv, Goto, ribVars
    <3>2. /\ u.prv = prv_routes[nh_installer]
          /\ \A p \in Prefixes : u.lpm[p] = Absent
      BY DEF NoTable
    <3> HIDE DEF u
    <3> QED
      BY <1>2, <3>1, <3>2 DEF TableRibs, EncodedRight, AllEncoded, Built
  <2>5. CASE BuildCur(h0) /\ table' = [table EXCEPT ![h0].cur = cur_routes[nh_installer]]
    <3>1. /\ table'[h0].prv = table[h0].prv /\ table'[h0].lpm = table[h0].lpm
          /\ table'[h0].cur = cur_routes[nh_installer]
      BY <1>1, <2>5 DEF ECMPerTables
    <3>2. /\ pc[h0] = "build_cur" /\ pc'[h0] = "encode" /\ idx' = idx
          /\ UNCHANGED <<cur_routes, prv_routes>>
      BY <1>1, <2>5 DEF BuildCur, Goto
    <3> QED
      BY <1>2, <3>1, <3>2 DEF TableRibs, EncodedRight, AllEncoded, Built
  <2>3. CASE Encode(h0)
    <3> DEFINE p == PrefixOrder[idx[h0]]
               t == table[h0]
    <3>1. /\ pc[h0] = "encode" /\ pc' = pc /\ idx'[h0] = idx[h0] + 1
          /\ idx[h0] \in 1 .. Len(PrefixOrder) /\ Len(PrefixOrder) \in Nat
          /\ UNCHANGED <<cur_routes, prv_routes>>
          /\ IF t.prv[p] = <<>> /\ t.cur[p] = <<>> THEN table'[h0] = t
             ELSE table'[h0] = EncodePrefix(t, p)
      BY <1>1, <2>3, ControllerAssumption DEF Encode, ribVars
    <3>2. p \in Prefixes /\ t \in ECMPerTables /\ \A i \in 1 .. Len(PrefixOrder) : PrefixOrder[i] \in Prefixes
      BY <1>1, <3>1, ControllerAssumption
    <3>3. t.prv = prv_routes[nh_installer] /\ t.cur = cur_routes[nh_installer]
      BY <1>2, <3>1 DEF TableRibs, Built
    <3>4. EncodedRight(t) /\ \A i \in 1 .. Len(PrefixOrder) : i < idx[h0] => Settled(t, PrefixOrder[i])
      BY <3>1 DEF AllEncoded
    <3> HIDE DEF p, t
    <3>5. /\ EncodedRight(table'[h0])
          /\ table'[h0].prv = t.prv /\ table'[h0].cur = t.cur
          /\ Settled(table'[h0], p)
          /\ \A q \in Prefixes : Settled(t, q) => Settled(table'[h0], q)
      <4>1. CASE t.prv[p] = <<>> /\ t.cur[p] = <<>>
        BY <3>1, <3>4, <4>1 DEF Settled
      <4>2. CASE ~ (t.prv[p] = <<>> /\ t.cur[p] = <<>>)
        BY <3>1, <3>2, <3>4, <4>2, EncodedRightStep
      <4> QED
        BY <4>1, <4>2
    <3>6. ASSUME NEW i \in 1 .. Len(PrefixOrder), i < idx'[h0]
          PROVE  Settled(table'[h0], PrefixOrder[i])
      BY <3>1, <3>2, <3>4, <3>5, <3>6 DEF p
    <3>7. TableRibs'
      BY <1>2, <3>1, <3>3, <3>5 DEF TableRibs
    <3>8. AllEncoded'
      BY <3>1, <3>6 DEF AllEncoded, Settled
    <3> QED
      BY <3>5, <3>7, <3>8
  <2>4. CASE EncodeDone(h0)
    <3>1. /\ pc[h0] = "encode" /\ pc'[h0] = "read" /\ table' = table
          /\ idx[h0] > Len(PrefixOrder) /\ UNCHANGED <<cur_routes, prv_routes>>
      BY <1>1, <2>4 DEF EncodeDone, Goto, ribVars
    <3>2. \A p \in Prefixes : \E i \in 1 .. Len(PrefixOrder) : PrefixOrder[i] = p
      BY ControllerAssumption DEF Prefixes, Range
    <3>3. ASSUME NEW p \in Prefixes
          PROVE  Settled(table[h0], p)
      <4>1. PICK i \in 1 .. Len(PrefixOrder) : PrefixOrder[i] = p
        BY <3>2
      <4>2. idx[h0] \in Nat /\ Len(PrefixOrder) \in Nat
        BY <1>1, ControllerAssumption
      <4>3. i < idx[h0]
        BY <3>1, <4>2
      <4>4. Settled(table[h0], PrefixOrder[i])
        BY <3>1, <4>3 DEF AllEncoded
      <4> QED
        BY <4>1, <4>4
    <3> QED
      BY <1>2, <3>1, <3>3 DEF TableRibs, Built, AllEncoded, Settled
  <2> QED
    BY <1>11, <2>1, <2>2, <2>3, <2>4, <2>5
<1>9. EncodedRight(table[h0])'
  BY <1>8 DEF EncodedRight, BlockAt
<1>10. InService'
  BY <1>2, <1>6, ServiceKept
<1> QED
  BY <1>5, <1>7, <1>8, <1>9, <1>10

(***************************************************************************)
(* do_clear and /clear.                                                    *)
(***************************************************************************)

(* The LPM entry of a prefix is deleted. *)
Withdrawal ==
  /\ ~ Updating /\ ~ Updating' /\ CurRib' = CurRib
  /\ UNCHANGED <<cur_nh, prv_nh>>
  /\ \E k \in Prefixes : ipv4_lpm[k] # Absent /\ ipv4_lpm' = [ipv4_lpm EXCEPT ![k] = Absent]

(* The last LPM entry is gone: from here on the new routes count. *)
NewGeneration ==
  /\ ~ Updating /\ Updating' /\ LpmEmpty /\ LpmEmpty'
  /\ prv_routes'[nh_installer'] = CurRib

(* No clear comes back to ipv4_lpm, the first table of both orders. *)
LEMMA ClearedNext ==
  ASSUME NEW h \in Handlers, TypeInv, pc[h] \in {"read", "delete"}, TableCleared(h)
  PROVE  \/ pc'[h] = "read" /\ tab'[h] # "ipv4_lpm"
         \/ pc'[h] = "drop_prv"
<1> DEFINE order == ClearOrder(job[h])
           n == CHOOSE n \in DOMAIN order : order[n] = tab[h]
<1>1. tab \in [Handlers -> Tables] /\ pc \in [Handlers -> Labels]
  BY DEF TypeInv, TypeOK, HandlerTypeOK
<1>2. /\ n \in 1 .. Len(order)
      /\ \A i \in 2 .. Len(order) : order[i] # "ipv4_lpm"
  BY <1>1 DEF TypeInv, LocalsOK, ClearOrder, Tables
<1>3. \/ n < Len(order) /\ tab' = [tab EXCEPT ![h] = order[n + 1]] /\ Goto(h, "read")
      \/ tab' = tab /\ Goto(h, "drop_prv")
  BY DEF TableCleared
<1> HIDE DEF order, n
<1>4. n < Len(order) => order[n + 1] # "ipv4_lpm"
  BY <1>2
<1> QED
  BY <1>1, <1>3, <1>4 DEF Goto

LEMMA ClearingKept ==
  ASSUME Alone(h0), InstallInv, pc[h0] \in {"read", "delete"},
         pc'[h0] \in {"read", "delete", "drop_prv"},
         UNCHANGED ribVars, UNCHANGED <<job, self, table, call>>, InService'
  PROVE  Exact'
<1> USE DEF InstallInv, Exact
<1>1. job[h0] \in {"install", "clear"} /\ call[h0] = NoCall
  BY DEF JobOK, Closed, Retried
<1>2. JobOK' /\ SelfOK' /\ RetriedRight' /\ Written' /\ LpmPut'
  BY <1>1 DEF JobOK, SelfOK, RetriedRight, Written, LpmPut, ribVars
<1>3. TableRibs' /\ AllEncoded'
  BY <1>1 DEF TableRibs, Built, AllEncoded, Settled, ribVars
<1>4. EncodedRight(table[h0])'
  BY DEF EncodedRight, BlockAt
<1> QED
  BY <1>2, <1>3, <1>4

LEMMA ClearExact ==
  ASSUME Alone(h0), InstallInv,
         ReadTable(h0) \/ DeleteEntry(h0) \/ DeleteFails(h0) \/ TableCleared(h0)
  PROVE  Exact' /\ (Unseen \/ Withdrawal \/ NewGeneration)
<1> USE DEF InstallInv
<1>1. /\ h0 \in Handlers /\ tab[h0] \in Tables
      /\ pc \in [Handlers -> Labels] /\ tab \in [Handlers -> Tables]
      /\ DOMAIN ipv4_lpm = Prefixes
  BY DEF Alone, TypeInv, TypeOK, HandlerTypeOK, SwitchTypeOK
<1>2. UNCHANGED ribVars /\ UNCHANGED <<job, self, table, call>> /\ pc[h0] \in {"read", "delete"}
  BY DEF ReadTable, DeleteEntry, DeleteFails, TableCleared
<1>3. job[h0] \in {"install", "clear"}
  BY <1>2 DEF Exact, JobOK
<1>4. UNCHANGED <<nh_installer, cur_routes, prv_routes>>
  BY <1>2 DEF ribVars
<1>5. ASSUME pc'[h0] \in {"read", "delete"}, tab' = tab
      PROVE  CurRib' = CurRib /\ Updating' = Updating
  BY <1>2, <1>4, <1>5 DEF CurRib, BeforeAdvance, Updating
<1>6. CASE ReadTable(h0) \/ DeleteFails(h0)
  <2>1. UNCHANGED <<ipv4_lpm, cur_nh, prv_nh>> /\ pc'[h0] = "delete" /\ tab' = tab
    BY <1>1, <1>6 DEF ReadTable, DeleteFails, Goto, switchVars
  <2>2. CurRib' = CurRib /\ Updating' = Updating
    BY <1>5, <2>1
  <2>3. InService'
    BY <2>1, <2>2, ServiceKept DEF Exact
  <2> QED
    BY <1>2, <1>4, <2>1, <2>2, <2>3, ClearingKept DEF Unseen
<1>7. CASE DeleteEntry(h0)
  <2>1. PICK k \in keys[h0] : k \in Present(tab[h0]) /\ Write(tab[h0], k, Absent)
    BY <1>7 DEF DeleteEntry
  <2>2. pc[h0] = "delete" /\ pc' = pc /\ tab' = tab
    BY <1>7 DEF DeleteEntry
  <2>3. CurRib' = CurRib /\ Updating' = Updating
    BY <1>5, <2>2
  <2>4. CASE tab[h0] = "ipv4_lpm"
    <3>1. /\ ipv4_lpm' = [ipv4_lpm EXCEPT ![k] = Absent]
          /\ UNCHANGED <<cur_nh, prv_nh>>
          /\ k \in Prefixes /\ ipv4_lpm[k] # Absent
      BY <1>1, <2>1, <2>4 DEF Write, Present, Entries
    <3>2. Withdrawal
      BY <2>2, <2>3, <2>4, <3>1 DEF Withdrawal, Updating
    <3>3. \A p \in Prefixes : ipv4_lpm'[p] # Absent => ipv4_lpm'[p] = ipv4_lpm[p]
      BY <1>1, <3>1
    <3>4. InService'
      BY <2>3, <3>1, <3>3 DEF Exact, InService, Shown, BlockOf
    <3> QED
      BY <1>2, <2>2, <3>2, <3>4, ClearingKept
  <2>5. CASE tab[h0] # "ipv4_lpm"
    <3>1. LpmEmpty /\ LpmEmpty'
      BY <2>1, <2>2, <2>5 DEF Closed, Emptied, NhTablesChange, Write, LpmEmpty
    <3>2. InService'
      BY <3>1 DEF LpmEmpty, InService
    <3> QED
      BY <1>2, <1>4, <2>2, <2>3, <3>1, <3>2, ClearingKept DEF Unseen
  <2> QED
    BY <2>4, <2>5
<1>8. CASE TableCleared(h0)
  <2>1. UNCHANGED <<ipv4_lpm, cur_nh, prv_nh>> /\ pc[h0] = "delete" /\ keys[h0] = {}
    BY <1>8 DEF TableCleared, switchVars
  <2>2. LpmEmpty
    <3>1. CASE tab[h0] = "ipv4_lpm"
      BY <1>1, <2>1, <3>1 DEF Closed, Emptying, Present, Entries, LpmEmpty
    <3>2. CASE tab[h0] # "ipv4_lpm"
      BY <2>1, <3>2 DEF Closed, Emptied, NhTablesChange
    <3> QED
      BY <3>1, <3>2
  <2>3. LpmEmpty' /\ InService'
    BY <2>1, <2>2 DEF LpmEmpty, InService
  <2>4. \/ pc'[h0] = "read" /\ tab'[h0] # "ipv4_lpm"
        \/ pc'[h0] = "drop_prv"
    BY <1>1, <1>2, <1>8, ClearedNext
  <2>5. Exact'
    BY <1>2, <2>3, <2>4, ClearingKept
  <2>6. CASE job[h0] = "clear"
    <3>1. CurRib' = CurRib /\ Updating' = Updating
      BY <1>2, <1>4, <2>1, <2>4, <2>6 DEF CurRib, BeforeAdvance, Updating
    <3> QED
      BY <1>4, <2>2, <2>3, <2>5, <3>1 DEF Unseen
  <2>7. CASE job[h0] = "install" /\ tab[h0] # "ipv4_lpm"
    <3>1. CurRib' = CurRib /\ Updating' = Updating
      BY <1>2, <1>4, <2>1, <2>4, <2>7 DEF CurRib, BeforeAdvance, Updating
    <3> QED
      BY <1>4, <2>2, <2>3, <2>5, <3>1 DEF Unseen
  <2>8. CASE job[h0] = "install" /\ tab[h0] = "ipv4_lpm"
    <3>1. ~ Updating /\ Updating' /\ prv_routes'[nh_installer'] = CurRib
      BY <1>2, <1>4, <2>1, <2>4, <2>8 DEF CurRib, BeforeAdvance, Updating
    <3> QED
      BY <2>2, <2>3, <2>5, <3>1 DEF NewGeneration
  <2> QED
    BY <1>3, <2>6, <2>7, <2>8
<1> QED
  BY <1>6, <1>7, <1>8

(***************************************************************************)
(* do_install: what a write does, whether it is an insert or a modify.     *)
(***************************************************************************)
Writing == {"drop_prv", "drop_cur", "put_prv", "put_cur", "put_lpm"}

(* A prefix is served again, by the blocks of the new routes. *)
Offering ==
  /\ Updating /\ Updating' /\ CurRib' = CurRib
  /\ UNCHANGED <<cur_nh, prv_nh, prv_routes, nh_installer>>
  /\ \E p \in Prefixes, e \in LpmParams :
       /\ ipv4_lpm[p] = Absent /\ ipv4_lpm' = [ipv4_lpm EXCEPT ![p] = e]
       /\ CurRib[p] # <<>> \/ prv_routes[nh_installer][p] # <<>>
       /\ Shown(cur_nh, e.cur_offset, e.cur_count) = BlockOf(CurRib[p])
       /\ Shown(prv_nh, e.prv_offset, e.prv_count) = BlockOf(prv_routes[nh_installer][p])

(* An /install that a refused write ends before its last entry. *)
CutShort == job[h0] = "install" /\ pc[h0] \in Writing /\ pc'[h0] = "reply"

LEMMA TableKept ==
  ASSUME Exact, UNCHANGED <<job, self, table, nh_installer, cur_routes, prv_routes>>,
         pc[h0] \in Writing \cup {"put_neigh"},
         pc'[h0] \in Writing \cup {"finish", "renew", "reply"}
  PROVE  SelfOK' /\ TableRibs' /\ EncodedRight(table[h0])' /\ AllEncoded'
<1> USE DEF Exact, Writing
<1>1. Built' => Built
  BY DEF Built, JobOK
<1>2. SelfOK' /\ TableRibs'
  BY <1>1 DEF SelfOK, TableRibs
<1>3. AllEncoded'
  BY <1>1 DEF AllEncoded, Settled
<1>4. EncodedRight(table[h0])'
  BY DEF EncodedRight, BlockAt
<1> QED
  BY <1>2, <1>3, <1>4

(* The blocks an encoded prefix leads to, when both lists are written. *)
LEMMA EntryRight ==
  ASSUME InstallInv, h0 \in Handlers, pc[h0] \in {"put_lpm", "finish"},
         NEW p \in Prefixes, table[h0].lpm[p] # Absent
  PROVE  LET e == table[h0].lpm[p] IN
         /\ e \in LpmParams
         /\ Shown(cur_nh, e.cur_offset, e.cur_count) = BlockOf(cur_routes[nh_installer][p])
         /\ Shown(prv_nh, e.prv_offset, e.prv_count) = BlockOf(prv_routes[nh_installer][p])
         /\ \/ cur_routes[nh_installer][p] # <<>>
            \/ prv_routes[nh_installer][p] # <<>>
<1> DEFINE t == table[h0]  e == t.lpm[p]
<1>1. /\ t.prv \in Rib /\ t.cur \in Rib
      /\ t.prv_nh \in Seq(Nexthops) /\ t.cur_nh \in Seq(Nexthops)
      /\ e \in LpmParams
  BY DEF InstallInv, TypeInv, TypeOK, HandlerTypeOK, ECMPerTables
<1>2. /\ t.prv = prv_routes[nh_installer] /\ t.cur = cur_routes[nh_installer]
      /\ EncodedRight(t)
      /\ Copied(prv_nh, t.prv_nh, Len(t.prv_nh)) /\ Copied(cur_nh, t.cur_nh, Len(t.cur_nh))
  BY DEF InstallInv, Exact, JobOK, TableRibs, Built, Written
<1> HIDE DEF t
<1>3. /\ t.prv[p] \in Seq(Nexthops) /\ ExpandNh(t.prv[p]) \in Seq(Nexthops)
      /\ t.cur[p] \in Seq(Nexthops) /\ ExpandNh(t.cur[p]) \in Seq(Nexthops)
  BY <1>1, RibType, BlockType
<1>4. /\ e.prv_offset \in Nat /\ e.cur_offset \in Nat
  BY <1>1 DEF LpmParams
<1>5. /\ e.prv_count = Len(ExpandNh(t.prv[p])) /\ e.cur_count = Len(ExpandNh(t.cur[p]))
      /\ BlockAt(t.prv_nh, e.prv_offset, ExpandNh(t.prv[p]))
      /\ BlockAt(t.cur_nh, e.cur_offset, ExpandNh(t.cur[p]))
      /\ t.prv[p] # <<>> \/ t.cur[p] # <<>>
  BY <1>2 DEF EncodedRight, t
<1> HIDE DEF e
<1>6. Shown(prv_nh, e.prv_offset, Len(ExpandNh(t.prv[p]))) = BlockOf(t.prv[p])
  BY <1>1, <1>2, <1>3, <1>4, <1>5, ShownBlock, Zenon
<1>7. Shown(cur_nh, e.cur_offset, Len(ExpandNh(t.cur[p]))) = BlockOf(t.cur[p])
  BY <1>1, <1>2, <1>3, <1>4, <1>5, ShownBlock, Zenon
<1>8. /\ Shown(cur_nh, e.cur_offset, e.cur_count) = BlockOf(cur_routes[nh_installer][p])
      /\ Shown(prv_nh, e.prv_offset, e.prv_count) = BlockOf(prv_routes[nh_installer][p])
      /\ cur_routes[nh_installer][p] # <<>> \/ prv_routes[nh_installer][p] # <<>>
  BY <1>2, <1>5, <1>6, <1>7
<1> QED
  BY <1>1, <1>8 DEF e, t

(* Neither the RIBs nor the phase of Generations change. *)
LEMMA PhaseKept ==
  ASSUME UNCHANGED ribVars, UNCHANGED job, job[h0] \in {"install", "clear"},
         pc[h0] \in Writing,
         pc'[h0] \in Writing \cup {"finish"} \/ (job[h0] = "clear" /\ pc'[h0] = "renew")
  PROVE  CurRib' = CurRib /\ Updating' = Updating /\ UNCHANGED <<prv_routes, nh_installer>>
BY DEF CurRib, BeforeAdvance, Updating, Writing, ribVars

LEMMA DropExact ==
  ASSUME h0 \in Handlers, InstallInv, pc[h0] \in {"drop_prv", "drop_cur"},
         NEW t, t # "ipv4_lpm", NEW k, NEW v, Write(t, k, v), Proceed(h0, k), After(h0),
         UNCHANGED ribVars, UNCHANGED <<job, self>>
  PROVE  Exact' /\ Unseen
<1>1. /\ job[h0] \in {"install", "clear"}
      /\ \/ pc'[h0] = "drop_cur"
         \/ pc'[h0] = "renew" /\ job[h0] = "clear"
         \/ pc'[h0] = "put_prv" /\ job[h0] = "install" /\ idx'[h0] = 1
  BY DEF InstallInv, Exact, JobOK, Proceed, Goto, TypeInv, TypeOK, HandlerTypeOK
<1>2. LpmEmpty /\ LpmEmpty' /\ UNCHANGED <<table, nh_installer, cur_routes, prv_routes>>
  BY DEF InstallInv, Closed, Emptied, NhTablesChange, Write, LpmEmpty, After, ribVars
<1>3. SelfOK' /\ TableRibs' /\ EncodedRight(table[h0])' /\ AllEncoded'
  BY <1>1, <1>2, TableKept DEF InstallInv, Writing
<1>4. JobOK' /\ RetriedRight' /\ Written' /\ LpmPut'
  BY <1>1, <1>2 DEF InstallInv, Exact, JobOK, RetriedRight, Written, Copied, LpmPut, After
<1>5. InService'
  BY <1>2 DEF LpmEmpty, InService
<1>6. CurRib' = CurRib /\ Updating' = Updating
  BY <1>1, PhaseKept DEF Writing
<1> QED
  BY <1>2, <1>3, <1>4, <1>5, <1>6 DEF Exact, Unseen

LEMMA PrvExact ==
  ASSUME h0 \in Handlers, InstallInv, pc[h0] = "put_prv", idx[h0] \in HashRange,
         Write("prv_nh", idx[h0], NhValue(table[h0].prv_nh[idx[h0]])),
         Proceed(h0, idx[h0]), After(h0),
         UNCHANGED ribVars, UNCHANGED <<job, self>>
  PROVE  Exact' /\ Unseen
<1>1. /\ job[h0] = "install" /\ pc'[h0] = "put_prv"
      /\ idx'[h0] = idx[h0] + 1 /\ idx[h0] \in Nat \ {0}
  BY DEF InstallInv, Exact, JobOK, Proceed, Goto, TypeInv, TypeOK, HandlerTypeOK
<1>2. LpmEmpty /\ LpmEmpty' /\ UNCHANGED <<table, nh_installer, cur_routes, prv_routes>>
  BY DEF InstallInv, Closed, Emptied, NhTablesChange, Write, LpmEmpty, After, ribVars
<1>3. SelfOK' /\ TableRibs' /\ EncodedRight(table[h0])' /\ AllEncoded'
  BY <1>1, <1>2, TableKept DEF InstallInv, Writing
<1>4. /\ prv_nh' = [prv_nh EXCEPT ![idx[h0]] = NhValue(table[h0].prv_nh[idx[h0]])]
      /\ DOMAIN prv_nh = HashRange /\ Copied(prv_nh, table[h0].prv_nh, idx[h0] - 1)
  BY DEF Write, InstallInv, Exact, Written, TypeInv, TypeOK, SwitchTypeOK
<1>5. Copied(prv_nh', table'[h0].prv_nh, idx'[h0] - 1)
  <2> DEFINE list == table[h0].prv_nh  n == idx[h0]
  <2>1. /\ prv_nh' = [prv_nh EXCEPT ![n] = NhValue(list[n])] /\ n \in HashRange
        /\ DOMAIN prv_nh = HashRange /\ Copied(prv_nh, list, n - 1) /\ n \in Nat \ {0}
    BY <1>1, <1>4
  <2> HIDE DEF list, n
  <2>2. Copied(prv_nh', list, n)
    BY <2>1 DEF Copied
  <2> QED
    BY <1>1, <1>2, <2>2 DEF list, n
<1>6. JobOK' /\ RetriedRight' /\ Written' /\ LpmPut'
  BY <1>1, <1>5 DEF JobOK, RetriedRight, Written, LpmPut, After
<1>7. InService'
  BY <1>2 DEF LpmEmpty, InService
<1>8. CurRib' = CurRib /\ Updating' = Updating
  BY <1>1, PhaseKept DEF Writing
<1> QED
  BY <1>2, <1>3, <1>6, <1>7, <1>8 DEF Exact, Unseen

LEMMA CurExact ==
  ASSUME h0 \in Handlers, InstallInv, pc[h0] = "put_cur", idx[h0] \in HashRange,
         Write("cur_nh", idx[h0], NhValue(table[h0].cur_nh[idx[h0]])),
         Proceed(h0, idx[h0]), After(h0),
         UNCHANGED ribVars, UNCHANGED <<job, self>>
  PROVE  Exact' /\ Unseen
<1>1. /\ job[h0] = "install" /\ pc'[h0] = "put_cur"
      /\ idx'[h0] = idx[h0] + 1 /\ idx[h0] \in Nat \ {0}
  BY DEF InstallInv, Exact, JobOK, Proceed, Goto, TypeInv, TypeOK, HandlerTypeOK
<1>2. LpmEmpty /\ LpmEmpty' /\ UNCHANGED <<table, nh_installer, cur_routes, prv_routes>>
  BY DEF InstallInv, Closed, Emptied, NhTablesChange, Write, LpmEmpty, After, ribVars
<1>3. SelfOK' /\ TableRibs' /\ EncodedRight(table[h0])' /\ AllEncoded'
  BY <1>1, <1>2, TableKept DEF InstallInv, Writing
<1>4. /\ cur_nh' = [cur_nh EXCEPT ![idx[h0]] = NhValue(table[h0].cur_nh[idx[h0]])]
      /\ DOMAIN cur_nh = HashRange /\ Copied(cur_nh, table[h0].cur_nh, idx[h0] - 1)
      /\ prv_nh' = prv_nh /\ Copied(prv_nh, table[h0].prv_nh, Len(table[h0].prv_nh))
  BY DEF Write, InstallInv, Exact, Written, TypeInv, TypeOK, SwitchTypeOK
<1>5. Copied(cur_nh', table'[h0].cur_nh, idx'[h0] - 1)
  <2> DEFINE list == table[h0].cur_nh  n == idx[h0]
  <2>1. /\ cur_nh' = [cur_nh EXCEPT ![n] = NhValue(list[n])] /\ n \in HashRange
        /\ DOMAIN cur_nh = HashRange /\ Copied(cur_nh, list, n - 1) /\ n \in Nat \ {0}
    BY <1>1, <1>4
  <2> HIDE DEF list, n
  <2>2. Copied(cur_nh', list, n)
    BY <2>1 DEF Copied
  <2> QED
    BY <1>1, <1>2, <2>2 DEF list, n
<1>6. Copied(prv_nh', table'[h0].prv_nh, Len(table'[h0].prv_nh))
  BY <1>2, <1>4
<1>7. JobOK' /\ RetriedRight' /\ Written' /\ LpmPut'
  BY <1>1, <1>5, <1>6 DEF JobOK, RetriedRight, Written, LpmPut, After
<1>8. InService'
  BY <1>2 DEF LpmEmpty, InService
<1>9. CurRib' = CurRib /\ Updating' = Updating
  BY <1>1, PhaseKept DEF Writing
<1> QED
  BY <1>2, <1>3, <1>7, <1>8, <1>9 DEF Exact, Unseen

LEMMA LpmExact ==
  ASSUME h0 \in Handlers, InstallInv, pc[h0] = "put_lpm",
         NEW p \in Prefixes, p \in keys[h0], table[h0].lpm[p] # Absent,
         Write("ipv4_lpm", p, table[h0].lpm[p]), Proceed(h0, p), After(h0),
         UNCHANGED ribVars, UNCHANGED <<job, self>>
  PROVE  Exact' /\ Offering
<1> DEFINE e == table[h0].lpm[p]
<1>1. /\ job[h0] = "install" /\ pc'[h0] = "put_lpm" /\ keys'[h0] = keys[h0] \ {p}
  BY DEF InstallInv, Exact, JobOK, Proceed, Goto, TypeInv, TypeOK, HandlerTypeOK
<1>2. UNCHANGED <<table, cur_nh, prv_nh, nh_installer, cur_routes, prv_routes>>
  BY DEF Write, After, ribVars
<1>3. SelfOK' /\ TableRibs' /\ EncodedRight(table[h0])' /\ AllEncoded'
  BY <1>1, <1>2, TableKept DEF InstallInv, Writing
<1>4. /\ ipv4_lpm' = [ipv4_lpm EXCEPT ![p] = e] /\ DOMAIN ipv4_lpm = Prefixes
      /\ \A q \in Prefixes : ipv4_lpm[q] = IF q \in keys[h0] THEN Absent ELSE table[h0].lpm[q]
  BY DEF Write, InstallInv, Exact, LpmPut, TypeInv, TypeOK, SwitchTypeOK
<1>5. \A q \in Prefixes : ipv4_lpm'[q] = IF q \in keys'[h0] THEN Absent ELSE table'[h0].lpm[q]
  BY <1>1, <1>2, <1>4
<1>6. JobOK' /\ RetriedRight' /\ Written' /\ LpmPut'
  BY <1>1, <1>2, <1>5
  DEF InstallInv, Exact, JobOK, RetriedRight, Written, Copied, LpmPut, After
<1>7. CurRib' = CurRib /\ Updating /\ Updating' /\ CurRib = cur_routes[nh_installer]
  BY <1>1, <1>2 DEF CurRib, BeforeAdvance, Updating
<1>8. /\ e \in LpmParams
      /\ Shown(cur_nh, e.cur_offset, e.cur_count) = BlockOf(CurRib[p])
      /\ Shown(prv_nh, e.prv_offset, e.prv_count) = BlockOf(prv_routes[nh_installer][p])
      /\ CurRib[p] # <<>> \/ prv_routes[nh_installer][p] # <<>>
  BY <1>7, EntryRight
<1> HIDE DEF e
<1>9. InService'
  <2> SUFFICES ASSUME NEW q \in Prefixes, ipv4_lpm'[q] # Absent
               PROVE  Shown(cur_nh', ipv4_lpm'[q].cur_offset, ipv4_lpm'[q].cur_count)
                        = BlockOf(CurRib'[q])
    BY DEF InService, Shown, BlockOf
  <2>1. CASE q = p
    BY <1>2, <1>4, <1>7, <1>8, <2>1
  <2>2. CASE q # p
    <3>1. ipv4_lpm'[q] = ipv4_lpm[q]
      BY <1>4, <2>2
    <3> QED
      BY <1>2, <1>7, <3>1 DEF InstallInv, Exact, InService
  <2> QED
    BY <2>1, <2>2
<1>10. Offering
  BY <1>2, <1>4, <1>7, <1>8 DEF Offering
<1> QED
  BY <1>3, <1>6, <1>9, <1>10 DEF Exact

LEMMA AbortExact ==
  ASSUME h0 \in Handlers, InstallInv, pc[h0] \in Writing \cup {"put_neigh"},
         Abort(h0), After(h0), UNCHANGED ribVars, UNCHANGED <<job, self>>
  PROVE  Exact' /\ (Unseen \/ CutShort)
<1>1. /\ job[h0] \in {"install", "clear", "neigh"}
      /\ pc'[h0] = IF job[h0] = "clear" THEN "renew" ELSE "reply"
      /\ UNCHANGED <<ipv4_lpm, cur_nh, prv_nh>>
  BY DEF InstallInv, Exact, JobOK, Writing, Abort, Goto, switchVars, TypeInv, TypeOK,
         HandlerTypeOK
<1>2. UNCHANGED <<table, nh_installer, cur_routes, prv_routes>>
  BY DEF After, ribVars
<1>3. SelfOK' /\ TableRibs' /\ EncodedRight(table[h0])' /\ AllEncoded'
  BY <1>1, <1>2, TableKept DEF InstallInv
<1>4. job[h0] = "clear" => LpmEmpty'
  BY <1>1 DEF InstallInv, Exact, JobOK, Writing, Closed, Emptied, NhTablesChange, LpmEmpty
<1>5. JobOK' /\ RetriedRight' /\ Written' /\ LpmPut'
  BY <1>1, <1>4 DEF JobOK, RetriedRight, Written, LpmPut
<1>6. CurRib' = CurRib
  BY <1>1, <1>2 DEF CurRib, BeforeAdvance, Writing
<1>7. InService'
  BY <1>1, <1>6, ServiceKept DEF InstallInv, Exact
<1>8. CASE job[h0] = "install"
  <2>1. CASE pc[h0] \in Writing
    BY <1>1, <1>3, <1>5, <1>7, <1>8, <2>1 DEF Exact, CutShort
  <2>2. CASE pc[h0] = "put_neigh"
    BY <1>8, <2>2 DEF InstallInv, Exact, JobOK
  <2> QED
    BY <2>1, <2>2
<1>9. CASE job[h0] # "install"
  <2>1. ~ Updating /\ ~ Updating' /\ Updating' = Updating
    BY <1>9 DEF Updating
  <2>2. Unseen
    BY <1>1, <1>6, <2>1 DEF Unseen
  <2> QED
    BY <1>3, <1>5, <1>7, <2>2 DEF Exact
<1> QED
  BY <1>8, <1>9

LEMMA RefusedExact ==
  ASSUME InstallInv, RetriedRight',
         UNCHANGED <<ipv4_lpm, cur_nh, prv_nh, pc, idx, keys, table, tab>>,
         UNCHANGED ribVars, UNCHANGED <<job, self>>
  PROVE  Exact' /\ Unseen
BY LocalsKept, CurRibKept DEF InstallInv, ribVars, Unseen

LEMMA InsertCases ==
  ASSUME h0 \in Handlers, InstallInv, NEW t, NEW k, NEW v, Insert(h0, t, k, v),
         call[h0] = NoCall, UNCHANGED <<table, tab>>
  PROVE  \/ Encodable(t, k, v) /\ Write(t, k, v) /\ Proceed(h0, k) /\ After(h0)
         \/ /\ call'[h0] = [tab |-> t, key |-> k, value |-> v]
            /\ UNCHANGED <<ipv4_lpm, cur_nh, prv_nh, pc, idx, keys>>
         \/ Abort(h0) /\ After(h0)
<1>1. call \in [Handlers -> Calls]
  BY DEF InstallInv, TypeInv, TypeOK, HandlerTypeOK
<1> QED
  BY <1>1 DEF Insert, After, switchVars

LEMMA WritesExact ==
  ASSUME Alone(h0), InstallInv,
         \/ PutDrop(h0) \/ PutPrv(h0) \/ PrvDone(h0) \/ PutCur(h0) \/ CurDone(h0)
         \/ PutLpm(h0) \/ LpmDone(h0)
  PROVE  Exact' /\ (Unseen \/ Offering \/ CutShort)
<1>1. h0 \in Handlers
  BY DEF Alone
<1>2. /\ table[h0] \in ECMPerTables /\ idx[h0] \in Nat \ {0}
      /\ pc \in [Handlers -> Labels] /\ idx \in [Handlers -> Nat \ {0}]
      /\ keys \in [Handlers -> SUBSET UNION {Keys(t) : t \in Tables}]
  BY <1>1 DEF InstallInv, TypeInv, TypeOK, HandlerTypeOK
<1>3. UNCHANGED ribVars /\ UNCHANGED <<job, self, table, tab>>
  BY DEF PutDrop, PutPrv, PrvDone, PutCur, CurDone, PutLpm, LpmDone
<1>4. ASSUME Abort(h0), After(h0), pc[h0] \in Writing
      PROVE  Exact' /\ (Unseen \/ CutShort)
  BY <1>1, <1>3, <1>4, AbortExact
<1>5. CASE PutDrop(h0)
  <2> DEFINE t == IF pc[h0] = "drop_prv" THEN "prv_nh" ELSE "cur_nh"
  <2>1. /\ pc[h0] \in {"drop_prv", "drop_cur"} /\ Insert(h0, t, 0, Drop)
        /\ call[h0] = NoCall
    BY <1>5 DEF PutDrop
  <2>2. t # "ipv4_lpm"
    OBVIOUS
  <2> HIDE DEF t
  <2>3. CASE Write(t, 0, Drop) /\ Proceed(h0, 0) /\ After(h0)
    BY <1>1, <1>3, <2>1, <2>2, <2>3, DropExact
  <2>4. CASE UNCHANGED <<ipv4_lpm, cur_nh, prv_nh, pc, idx, keys>>
    <3>1. RetriedRight'
      BY <2>1, <2>4 DEF RetriedRight
    <3> QED
      BY <1>3, <2>4, <3>1, RefusedExact
  <2> QED
    BY <1>1, <1>3, <1>4, <2>1, <2>3, <2>4, InsertCases DEF Writing
<1>6. CASE PutPrv(h0)
  <2> DEFINE v == NhValue(table[h0].prv_nh[idx[h0]])
  <2>1. /\ pc[h0] = "put_prv" /\ Insert(h0, "prv_nh", idx[h0], v) /\ call[h0] = NoCall
    BY <1>6 DEF PutPrv
  <2> HIDE DEF v
  <2>2. CASE /\ Encodable("prv_nh", idx[h0], v)
             /\ Write("prv_nh", idx[h0], v) /\ Proceed(h0, idx[h0]) /\ After(h0)
    <3>1. idx[h0] \in HashRange
      BY <2>2 DEF Encodable
    <3> QED
      BY <1>1, <1>3, <2>1, <2>2, <3>1, PrvExact DEF v
  <2>3. CASE /\ call'[h0] = [tab |-> "prv_nh", key |-> idx[h0], value |-> v]
             /\ UNCHANGED <<ipv4_lpm, cur_nh, prv_nh, pc, idx, keys>>
    <3>1. RetriedRight'
      BY <1>3, <2>1, <2>3 DEF RetriedRight, v
    <3> QED
      BY <1>3, <2>3, <3>1, RefusedExact
  <2> QED
    BY <1>1, <1>3, <1>4, <2>1, <2>2, <2>3, InsertCases DEF Writing
<1>7. CASE PutCur(h0)
  <2> DEFINE v == NhValue(table[h0].cur_nh[idx[h0]])
  <2>1. /\ pc[h0] = "put_cur" /\ Insert(h0, "cur_nh", idx[h0], v) /\ call[h0] = NoCall
    BY <1>7 DEF PutCur
  <2> HIDE DEF v
  <2>2. CASE /\ Encodable("cur_nh", idx[h0], v)
             /\ Write("cur_nh", idx[h0], v) /\ Proceed(h0, idx[h0]) /\ After(h0)
    <3>1. idx[h0] \in HashRange
      BY <2>2 DEF Encodable
    <3> QED
      BY <1>1, <1>3, <2>1, <2>2, <3>1, CurExact DEF v
  <2>3. CASE /\ call'[h0] = [tab |-> "cur_nh", key |-> idx[h0], value |-> v]
             /\ UNCHANGED <<ipv4_lpm, cur_nh, prv_nh, pc, idx, keys>>
    <3>1. RetriedRight'
      BY <1>3, <2>1, <2>3 DEF RetriedRight, v
    <3> QED
      BY <1>3, <2>3, <3>1, RefusedExact
  <2> QED
    BY <1>1, <1>3, <1>4, <2>1, <2>2, <2>3, InsertCases DEF Writing
<1>8. CASE PutLpm(h0)
  <2>1. /\ pc[h0] = "put_lpm" /\ call[h0] = NoCall
        /\ \E p \in keys[h0] : Insert(h0, "ipv4_lpm", p, table[h0].lpm[p])
    BY <1>8 DEF PutLpm
  <2>2. PICK p \in keys[h0] : Insert(h0, "ipv4_lpm", p, table[h0].lpm[p])
    BY <2>1
  <2>3. p \in Prefixes /\ table[h0].lpm[p] # Absent
    BY <1>1, <2>1 DEF InstallInv, TypeInv, TypeOK, KeysOK
  <2>4. CASE Write("ipv4_lpm", p, table[h0].lpm[p]) /\ Proceed(h0, p) /\ After(h0)
    BY <1>1, <1>3, <2>1, <2>3, <2>4, LpmExact
  <2>5. CASE UNCHANGED <<ipv4_lpm, cur_nh, prv_nh, pc, idx, keys>>
    <3>1. RetriedRight'
      BY <2>1, <2>5 DEF RetriedRight
    <3> QED
      BY <1>3, <2>5, <3>1, RefusedExact
  <2> QED
    BY <1>1, <1>3, <1>4, <2>1, <2>2, <2>4, <2>5, InsertCases DEF Writing
<1>9. CASE PrvDone(h0) \/ CurDone(h0) \/ LpmDone(h0)
  <2>1. /\ UNCHANGED <<ipv4_lpm, cur_nh, prv_nh, call>> /\ call[h0] = NoCall
        /\ \/ /\ pc[h0] = "put_prv" /\ pc'[h0] = "put_cur"
              /\ idx[h0] > Len(table[h0].prv_nh) /\ idx'[h0] = 1
           \/ /\ pc[h0] = "put_cur" /\ pc'[h0] = "put_lpm"
              /\ idx[h0] > Len(table[h0].cur_nh)
              /\ keys'[h0] = {p \in Prefixes : table[h0].lpm[p] # Absent}
           \/ /\ pc[h0] = "put_lpm" /\ pc'[h0] = "finish" /\ keys[h0] = {}
    <3>1. Len(table[h0].prv_nh) \in Nat /\ Len(table[h0].cur_nh) \in Nat
      BY <1>2 DEF ECMPerTables
    <3>2. UNCHANGED <<ipv4_lpm, cur_nh, prv_nh, call>>
      BY <1>9 DEF PrvDone, CurDone, LpmDone, switchVars
    <3>3. \/ /\ pc[h0] = "put_prv" /\ pc'[h0] = "put_cur"
             /\ idx[h0] > Len(table[h0].prv_nh) /\ idx'[h0] = 1
          \/ /\ pc[h0] = "put_cur" /\ pc'[h0] = "put_lpm"
             /\ idx[h0] > Len(table[h0].cur_nh)
             /\ keys'[h0] = {p \in Prefixes : table[h0].lpm[p] # Absent}
          \/ /\ pc[h0] = "put_lpm" /\ pc'[h0] = "finish" /\ keys[h0] = {}
      BY <1>1, <1>2, <1>9 DEF PrvDone, CurDone, LpmDone, Goto
    <3>4. call[h0] = NoCall
      BY <1>2, <3>1, <3>3 DEF InstallInv, Closed, Retried
    <3> QED
      BY <3>2, <3>3, <3>4
  <2>2. job[h0] = "install"
    BY <2>1 DEF InstallInv, Exact, JobOK
  <2>3. SelfOK' /\ TableRibs' /\ EncodedRight(table[h0])' /\ AllEncoded'
    BY <1>3, <2>1, TableKept DEF InstallInv, Writing, ribVars
  <2>4. CurRib' = CurRib /\ Updating' = Updating /\ UNCHANGED <<prv_routes, nh_installer>>
    BY <1>3, <2>1, <2>2, PhaseKept DEF Writing
  <2>5. InService'
    BY <2>1, <2>4, ServiceKept DEF InstallInv, Exact
  <2>6. JobOK' /\ RetriedRight'
    BY <1>3, <2>1, <2>2 DEF JobOK, RetriedRight
  <2>7. Written' /\ LpmPut'
    <3>1. Len(table[h0].prv_nh) \in Nat /\ Len(table[h0].cur_nh) \in Nat
      BY <1>2 DEF ECMPerTables
    <3>2. CASE pc[h0] = "put_prv"
      <4>1. pc'[h0] = "put_cur" /\ idx[h0] > Len(table[h0].prv_nh) /\ idx'[h0] = 1
        BY <2>1, <3>2
      <4>2. Copied(prv_nh, table[h0].prv_nh, idx[h0] - 1)
        BY <3>2 DEF InstallInv, Exact, Written
      <4>3. Copied(prv_nh, table[h0].prv_nh, Len(table[h0].prv_nh))
        BY <1>2, <3>1, <4>1, <4>2 DEF Copied
      <4>4. Copied(prv_nh', table'[h0].prv_nh, Len(table'[h0].prv_nh))
        BY <1>3, <2>1, <4>3
      <4>5. Copied(cur_nh', table'[h0].cur_nh, idx'[h0] - 1)
        BY <4>1 DEF Copied
      <4> QED
        BY <4>1, <4>4, <4>5 DEF Written, LpmPut
    <3>3. CASE pc[h0] = "put_cur"
      <4>1. /\ pc'[h0] = "put_lpm" /\ idx[h0] > Len(table[h0].cur_nh)
            /\ keys'[h0] = {p \in Prefixes : table[h0].lpm[p] # Absent}
        BY <2>1, <3>3
      <4>2. /\ Copied(prv_nh, table[h0].prv_nh, Len(table[h0].prv_nh))
            /\ Copied(cur_nh, table[h0].cur_nh, idx[h0] - 1)
        BY <3>3 DEF InstallInv, Exact, Written
      <4>3. Copied(cur_nh, table[h0].cur_nh, Len(table[h0].cur_nh))
        BY <1>2, <3>1, <4>1, <4>2 DEF Copied
      <4>4. /\ Copied(prv_nh', table'[h0].prv_nh, Len(table'[h0].prv_nh))
            /\ Copied(cur_nh', table'[h0].cur_nh, Len(table'[h0].cur_nh))
        BY <1>3, <2>1, <4>2, <4>3
      <4>5. LpmEmpty'
        BY <2>1, <3>3 DEF InstallInv, Closed, Emptied, NhTablesChange, LpmEmpty
      <4> QED
        BY <1>3, <4>1, <4>4, <4>5 DEF Written, LpmPut, LpmEmpty
    <3>4. CASE pc[h0] = "put_lpm"
      <4>1. pc'[h0] = "finish" /\ keys[h0] = {}
        BY <2>1, <3>4
      <4> QED
        BY <1>3, <2>1, <3>4, <4>1 DEF InstallInv, Exact, Written, Copied, LpmPut
    <3> QED
      BY <2>1, <3>2, <3>3, <3>4
  <2> QED
    BY <2>1, <2>3, <2>4, <2>5, <2>6, <2>7 DEF Exact, Unseen
<1> QED
  BY <1>5, <1>6, <1>7, <1>8, <1>9

LEMMA CallExact ==
  ASSUME Alone(h0), InstallInv, Modify(h0) \/ PutNeigh(h0)
  PROVE  Exact' /\ (Unseen \/ Offering \/ CutShort)
<1>1. h0 \in Handlers /\ call \in [Handlers -> Calls]
  BY DEF Alone, InstallInv, TypeInv, TypeOK, HandlerTypeOK
<1>2. After(h0) /\ UNCHANGED ribVars /\ UNCHANGED <<job, self>>
  BY <1>1 DEF Modify, PutNeigh, After
<1>3. pc[h0] \in Writing \cup {"put_neigh"}
  BY DEF InstallInv, Closed, Retried, Modify, PutNeigh, Writing
<1>4. CASE Abort(h0)
  BY <1>1, <1>2, <1>3, <1>4, AbortExact
<1>5. CASE Modify(h0) /\ ~ Abort(h0)
  <2> DEFINE t == call[h0].tab  k == call[h0].key  v == call[h0].value
  <2>1. Write(t, k, v) /\ Proceed(h0, k) /\ call[h0] # NoCall /\ pc[h0] # "put_neigh"
    BY <1>5 DEF Modify
  <2>2. t \in Tables /\ k \in Keys(t)
    BY <1>1, <2>1, CallWritable
  <2>3. /\ pc[h0] = "put_prv" => v = NhValue(table[h0].prv_nh[idx[h0]])
        /\ pc[h0] = "put_cur" => v = NhValue(table[h0].cur_nh[idx[h0]])
    BY <2>1 DEF InstallInv, Exact, RetriedRight
  <2> HIDE DEF t, k, v
  <2>4. CASE pc[h0] \in {"drop_prv", "drop_cur"} /\ t # "ipv4_lpm"
    BY <1>1, <1>2, <2>1, <2>4, DropExact
  <2>5. CASE pc[h0] = "put_prv" /\ t = "prv_nh" /\ k = idx[h0]
    <3>1. idx[h0] \in HashRange
      BY <2>2, <2>5 DEF Keys
    <3> QED
      BY <1>1, <1>2, <2>1, <2>3, <2>5, <3>1, PrvExact
  <2>6. CASE pc[h0] = "put_cur" /\ t = "cur_nh" /\ k = idx[h0]
    <3>1. idx[h0] \in HashRange
      BY <2>2, <2>6 DEF Keys
    <3> QED
      BY <1>1, <1>2, <2>1, <2>3, <2>6, <3>1, CurExact
  <2>7. CASE /\ pc[h0] = "put_lpm" /\ t = "ipv4_lpm" /\ k \in keys[h0]
             /\ table[h0].lpm[k] # Absent /\ v = table[h0].lpm[k]
    <3>1. k \in Prefixes
      BY <2>2, <2>7 DEF Keys
    <3> QED
      BY <1>1, <1>2, <2>1, <2>7, <3>1, LpmExact
  <2> QED
    BY <2>1, <2>4, <2>5, <2>6, <2>7 DEF InstallInv, Closed, Retried, t, k, v
<1>6. CASE PutNeigh(h0) /\ ~ Abort(h0)
  <2>1. /\ pc[h0] = "put_neigh" /\ Write("neigh", call[h0].key, call[h0].value)
        /\ Proceed(h0, call[h0].key)
    BY <1>6 DEF PutNeigh
  <2>2. UNCHANGED <<ipv4_lpm, cur_nh, prv_nh>> /\ pc'[h0] = "reply"
    BY <1>1, <2>1 DEF Write, Proceed, Goto, InstallInv, TypeInv, TypeOK, HandlerTypeOK
  <2>3. job[h0] = "neigh" /\ UNCHANGED <<table, nh_installer, cur_routes, prv_routes>>
    BY <1>2, <2>1 DEF InstallInv, Exact, JobOK, After, ribVars
  <2>4. SelfOK' /\ TableRibs' /\ EncodedRight(table[h0])' /\ AllEncoded'
    BY <1>2, <1>3, <2>2, <2>3, TableKept DEF InstallInv
  <2>5. JobOK' /\ RetriedRight' /\ Written' /\ LpmPut'
    BY <2>2 DEF JobOK, RetriedRight, Written, LpmPut
  <2>6. CurRib' = CurRib /\ Updating' = Updating /\ ~ Updating
    BY <1>2, <2>1, <2>2, <2>3 DEF CurRib, BeforeAdvance, Updating
  <2>7. InService'
    BY <2>2, <2>6, ServiceKept DEF InstallInv, Exact
  <2> QED
    BY <2>2, <2>4, <2>5, <2>6, <2>7 DEF Exact, Unseen
<1> QED
  BY <1>4, <1>5, <1>6

-----------------------------------------------------------------------------
(***************************************************************************)
(* The end of a job, a restart, and every step.                            *)
(***************************************************************************)

(* An update is over: the prefixes with routes are in service. *)
Completed ==
  /\ Updating /\ ~ Updating' /\ CurRib' = CurRib
  /\ UNCHANGED <<ipv4_lpm, cur_nh, prv_nh, prv_routes, nh_installer>>
  /\ \A p \in Prefixes :
       /\ ipv4_lpm[p] # Absent <=> CurRib[p] # <<>> \/ prv_routes[nh_installer][p] # <<>>
       /\ ipv4_lpm[p] # Absent =>
            Shown(prv_nh, ipv4_lpm[p].prv_offset, ipv4_lpm[p].prv_count)
              = BlockOf(prv_routes[nh_installer][p])

Cleared == LpmEmpty' /\ ~ Updating' /\ CurRib' = NoRoutes

LEMMA FinishExact ==
  ASSUME Alone(h0), InstallInv, Finish(h0)
  PROVE  Exact' /\ Completed
<1> USE DEF InstallInv, Exact
<1>1. /\ h0 \in Handlers /\ pc \in [Handlers -> Labels]
  BY DEF Alone, TypeInv, TypeOK, HandlerTypeOK
<1>2. /\ UNCHANGED <<ipv4_lpm, cur_nh, prv_nh, nh_installer, cur_routes, prv_routes,
                     job, self, table, call>>
      /\ pc[h0] = "finish" /\ pc'[h0] = "reply" /\ job[h0] = "install"
  BY <1>1 DEF Finish, Goto, switchVars, JobOK
<1>3. JobOK' /\ SelfOK' /\ TableRibs' /\ AllEncoded' /\ RetriedRight' /\ Written' /\ LpmPut'
  BY <1>2 DEF JobOK, SelfOK, TableRibs, Built, AllEncoded, RetriedRight, Written, LpmPut
<1>4. EncodedRight(table[h0])'
  BY <1>2 DEF EncodedRight, BlockAt
<1>5. CurRib' = CurRib /\ CurRib = cur_routes[nh_installer] /\ Updating /\ ~ Updating'
  BY <1>2 DEF CurRib, BeforeAdvance, Updating
<1>6. InService'
  BY <1>2, <1>5, ServiceKept
<1>7. ASSUME NEW p \in Prefixes
      PROVE  /\ ipv4_lpm[p] # Absent <=> CurRib[p] # <<>> \/ prv_routes[nh_installer][p] # <<>>
             /\ ipv4_lpm[p] # Absent =>
                  Shown(prv_nh, ipv4_lpm[p].prv_offset, ipv4_lpm[p].prv_count)
                    = BlockOf(prv_routes[nh_installer][p])
  <2>1. ipv4_lpm[p] = table[h0].lpm[p]
    BY <1>2 DEF LpmPut
  <2>2. CASE table[h0].lpm[p] # Absent
    <3>1. /\ cur_routes[nh_installer][p] # <<>> \/ prv_routes[nh_installer][p] # <<>>
          /\ Shown(prv_nh, table[h0].lpm[p].prv_offset, table[h0].lpm[p].prv_count)
               = BlockOf(prv_routes[nh_installer][p])
      BY <1>1, <1>2, <2>2, EntryRight
    <3> QED
      BY <1>5, <2>1, <2>2, <3>1
  <2>3. CASE table[h0].lpm[p] = Absent
    <3>1. table[h0].prv[p] = <<>> /\ table[h0].cur[p] = <<>>
      BY <1>2, <2>3 DEF AllEncoded, Built, Settled
    <3> QED
      BY <1>2, <1>5, <2>1, <2>3, <3>1 DEF TableRibs, Built
  <2> QED
    BY <2>2, <2>3
<1>8. Completed
  BY <1>2, <1>5, <1>7 DEF Completed
<1> QED
  BY <1>3, <1>4, <1>6, <1>8

LEMMA EndExact ==
  ASSUME Alone(h0), InstallInv, Renew(h0) \/ Reply(h0)
  PROVE  Exact' /\ (Unseen \/ Cleared)
<1> USE DEF InstallInv, Exact
<1>1. /\ h0 \in Handlers /\ pc \in [Handlers -> Labels]
      /\ job \in [Handlers -> {"none", "install", "clear", "neigh"}]
      /\ table \in [Handlers -> ECMPerTables]
  BY DEF Alone, TypeInv, TypeOK, HandlerTypeOK
<1>2. CASE Renew(h0)
  <2>1. /\ UNCHANGED <<ipv4_lpm, cur_nh, prv_nh, job, self, table, call>>
        /\ pc[h0] = "renew" /\ pc'[h0] = "reply" /\ job[h0] = "clear"
    BY <1>1, <1>2 DEF Renew, Goto, switchVars, JobOK
  <2>2. LpmEmpty' /\ InService'
    BY <2>1 DEF LpmPut, LpmEmpty, InService
  <2>3. JobOK' /\ SelfOK' /\ TableRibs' /\ AllEncoded' /\ RetriedRight' /\ Written' /\ LpmPut'
    BY <2>1 DEF JobOK, SelfOK, TableRibs, Built, AllEncoded, RetriedRight, Written, LpmPut
  <2>4. EncodedRight(table[h0])'
    BY <2>1 DEF EncodedRight, BlockAt
  <2>5. Held(h0) = {}
    BY DEF Held, Alone
  <2>6. nh_installer' \in Installers /\ cur_routes' = [i \in Installers |-> NoRoutes]
    BY <1>2, <2>5, SomeInstaller DEF Renew
  <2>7. ~ Updating' /\ CurRib' = NoRoutes
    BY <2>1, <2>6 DEF Updating, CurRib, BeforeAdvance
  <2> QED
    BY <2>2, <2>3, <2>4, <2>7 DEF Cleared
<1>3. CASE Reply(h0)
  <2>1. /\ UNCHANGED <<ipv4_lpm, cur_nh, prv_nh, nh_installer, cur_routes, prv_routes>>
        /\ pc[h0] = "reply" /\ pc'[h0] = "idle" /\ job'[h0] = "none" /\ table'[h0] = NoTable
    BY <1>1, <1>3 DEF Reply, Goto, switchVars, ribVars
  <2>2. JobOK' /\ SelfOK' /\ TableRibs' /\ AllEncoded' /\ RetriedRight' /\ Written' /\ LpmPut'
    BY <2>1 DEF JobOK, SelfOK, TableRibs, Built, AllEncoded, RetriedRight, Written, LpmPut
  <2>3. EncodedRight(table[h0])'
    BY <2>1, NoTableRight DEF EncodedRight, BlockAt
  <2>4. CurRib' = CurRib /\ Updating' = Updating /\ ~ Updating
    BY <2>1 DEF CurRib, BeforeAdvance, Updating
  <2>5. InService'
    BY <2>1, <2>4, ServiceKept
  <2> QED
    BY <2>1, <2>2, <2>3, <2>4, <2>5 DEF Unseen
<1> QED
  BY <1>2, <1>3

LEMMA RestartExact ==
  ASSUME Alone(h0), Restart
  PROVE  Exact' /\ Cleared
<1>1. /\ h0 \in Handlers /\ pc'[h0] = "idle" /\ job'[h0] = "none"
      /\ table'[h0] = NoTable /\ call'[h0] = NoCall
      /\ nh_installer' \in Installers /\ cur_routes' = EmptyRibs /\ ipv4_lpm' = EmptyLpm
  BY SomeInstaller DEF Restart, Alone
<1>2. LpmEmpty' /\ InService'
  BY <1>1 DEF EmptyLpm, LpmEmpty, InService
<1>3. ~ Updating' /\ CurRib' = NoRoutes
  BY <1>1 DEF Updating, CurRib, BeforeAdvance, EmptyRibs
<1>4. EncodedRight(table[h0])'
  BY <1>1, NoTableRight DEF EncodedRight, BlockAt
<1>5. JobOK' /\ SelfOK' /\ TableRibs' /\ AllEncoded' /\ RetriedRight' /\ Written' /\ LpmPut'
  BY <1>1 DEF JobOK, SelfOK, TableRibs, Built, AllEncoded, RetriedRight, Written, LpmPut
<1> QED
  BY <1>2, <1>3, <1>4, <1>5 DEF Exact, Cleared

LEMMA NextExact ==
  ASSUME Alone(h0), InstallInv, [Next]_vars
  PROVE  /\ InstallInv'
         /\ \/ Unseen \/ Withdrawal \/ NewGeneration \/ Offering \/ Completed
            \/ Cleared \/ CutShort
<1>1. TypeInv' /\ Closed(h0)' /\ Steady'
  BY NextType, NextClosed, SteadyStep DEF InstallInv, Alone
<1>2. CASE Request
  BY <1>1, <1>2, RequestExact DEF InstallInv
<1>3. CASE HandlerStep(h0)
  BY <1>1, <1>3, MemoryExact, ClearExact, WritesExact, CallExact, FinishExact, EndExact
  DEF HandlerStep, MemoryStep, InstallInv
<1>4. CASE Restart
  BY <1>1, <1>4, RestartExact DEF InstallInv
<1>5. CASE UNCHANGED vars
  <2>1. UNCHANGED <<ipv4_lpm, cur_nh, prv_nh, pc, idx, keys, table, tab, call, job, self>>
        /\ UNCHANGED ribVars
    BY <1>5 DEF vars, switchVars, handlerVars
  <2>2. RetriedRight'
    BY <2>1 DEF InstallInv, Exact, RetriedRight
  <2> QED
    BY <1>1, <2>1, <2>2, RefusedExact DEF InstallInv
<1> QED
  BY <1>2, <1>3, <1>4, <1>5 DEF Next, Alone

LEMMA OneHandler == ASSUME NEW h, Handlers = {h} PROVE h0 = h
BY DEF h0

-----------------------------------------------------------------------------
(***************************************************************************)
(* What /install deploys.                                                  *)
(***************************************************************************)
LEMMA ShownSet ==
  ASSUME NEW nh, NEW o \in Nat, NEW c \in Nat, NEW l \in Seq(Nexthops),
         Len(l) <= 2^HashBits, Shown(nh, o, c) = BlockOf(l)
  PROVE  BlockSet(nh, o, c) = Addrs(l)
<1> DEFINE b == ExpandNh(l)
<1>2. b \in Seq(Nexthops) /\ Range(b) = Range(l)
  BY ExpansionType, ExpansionRange
<1> HIDE DEF b
<1>3. DOMAIN b = 1 .. c
  BY Zenon DEF Shown, BlockOf, b
<1>4. \A x \in 1 .. c : nh[o + x - 1] = NhValue(b[x])
  BY <1>3, Zenon DEF Shown, BlockOf, b
<1>5. Range(l) = {b[x] : x \in 1 .. c}
  BY <1>2, <1>3 DEF Range
<1>6. BlockSet(nh, o, c) = {nh[o + x - 1] : x \in 1 .. c}
  <2>1. \A i \in Slots(o, c) : i - o + 1 \in 1 .. c /\ i = o + (i - o + 1) - 1
    BY DEF Slots
  <2>2. \A x \in 1 .. c : o + x - 1 \in Slots(o, c)
    BY DEF Slots
  <2>3. ASSUME NEW i \in Slots(o, c)  PROVE nh[i] \in {nh[o + x - 1] : x \in 1 .. c}
    <3> DEFINE y == i - o + 1
    <3>1. y \in 1 .. c /\ i = o + y - 1
      BY <2>1
    <3> HIDE DEF y
    <3> QED
      BY <3>1
  <2>4. ASSUME NEW x \in 1 .. c  PROVE nh[o + x - 1] \in BlockSet(nh, o, c)
    <3> DEFINE i == o + x - 1
    <3>1. i \in Slots(o, c)
      BY <2>2
    <3> HIDE DEF i
    <3>2. nh[i] \in BlockSet(nh, o, c)
      BY <3>1, Zenon DEF BlockSet
    <3> QED
      BY <3>2 DEF i
  <2>5. BlockSet(nh, o, c) \subseteq {nh[o + x - 1] : x \in 1 .. c}
    BY <2>3, Zenon DEF BlockSet
  <2>6. {nh[o + x - 1] : x \in 1 .. c} \subseteq BlockSet(nh, o, c)
    BY <2>4, Zenon
  <2> QED
    BY <2>5, <2>6, Zenon
<1>7. {nh[o + x - 1] : x \in 1 .. c} = {NhValue(b[x]) : x \in 1 .. c}
  BY <1>4
<1>8. {NhValue(b[x]) : x \in 1 .. c} = {NhValue(n) : n \in {b[x] : x \in 1 .. c}}
  OBVIOUS
<1> QED
  BY <1>5, <1>6, <1>7, <1>8, Zenon DEF Addrs

LEMMA DeployedRight ==
  ASSUME Alone(h0), InstallInv, pc[h0] = "finish", NEW p \in Prefixes
  PROVE  Offers(p, prv_routes[self[h0]][p], cur_routes[self[h0]][p])
<1> DEFINE prv == prv_routes[nh_installer][p]  cur == cur_routes[nh_installer][p]
           e == ipv4_lpm[p]
<1>1. h0 \in Handlers /\ job[h0] = "install" /\ self[h0] = nh_installer
  BY DEF Alone, InstallInv, Exact, JobOK, SelfOK
<1>2. e = table[h0].lpm[p]
  BY DEF InstallInv, Exact, LpmPut
<1>3. /\ prv \in Seq(Nexthops) /\ Len(prv) <= 2^HashBits
      /\ cur \in Seq(Nexthops) /\ Len(cur) <= 2^HashBits
  BY RibType DEF InstallInv, TypeInv, TypeOK, RibTypeOK
<1>4. CASE e = Absent
  <2>1. table[h0].prv[p] = <<>> /\ table[h0].cur[p] = <<>>
    BY <1>1, <1>2, <1>4 DEF InstallInv, Exact, AllEncoded, Built, Settled
  <2>2. prv = <<>> /\ cur = <<>>
    BY <1>1, <2>1 DEF InstallInv, Exact, TableRibs, Built
  <2> QED
    BY <1>1, <1>4, <2>2 DEF Offers
<1>5. CASE e # Absent
  <2>1. /\ e \in LpmParams
        /\ Shown(cur_nh, e.cur_offset, e.cur_count) = BlockOf(cur)
        /\ Shown(prv_nh, e.prv_offset, e.prv_count) = BlockOf(prv)
        /\ cur # <<>> \/ prv # <<>>
    BY <1>1, <1>2, <1>5, EntryRight
  <2>2. /\ e.cur_offset \in Nat /\ e.cur_count \in Nat
        /\ e.prv_offset \in Nat /\ e.prv_count \in Nat
    BY <2>1 DEF LpmParams
  <2> HIDE DEF e, cur, prv
  <2>3. BlockSet(cur_nh, e.cur_offset, e.cur_count) = Addrs(cur)
    BY <1>3, <2>1, <2>2, ShownSet
  <2>4. BlockSet(prv_nh, e.prv_offset, e.prv_count) = Addrs(prv)
    BY <1>3, <2>1, <2>2, ShownSet
  <2> QED
    BY <1>1, <1>5, <2>1, <2>3, <2>4 DEF Offers, e, cur, prv
<1> QED
  BY <1>4, <1>5

(* An /install that reaches its end has spread the flows of each prefix    *)
(* over exactly the nexthops of cur_routes and retransmitted packets over  *)
(* exactly those of prv_routes, and serves no other prefix: for every list *)
(* of routes, also when writes of earlier jobs were refused and when       *)
(* routes were queued while it ran.                                        *)
THEOREM InstallsDeploy ==
  ASSUME NEW h, Handlers = {h}, "delete" \notin Faults
  PROVE  Spec => []Deployed
<1>1. h0 = h /\ Alone(h0)
  BY OneHandler DEF Alone
<1>2. Init => InstallInv
  BY <1>1, InitType, InitClosed, InitSteady, InitExact DEF InstallInv
<1>3. InstallInv /\ [Next]_vars => InstallInv'
  BY <1>1, NextExact
<1>4. InstallInv => Deployed
  BY <1>1, DeployedRight DEF Deployed
<1> QED
  BY <1>2, <1>3, <1>4, PTL DEF Spec

-----------------------------------------------------------------------------
(***************************************************************************)
(* Generations.                                                            *)
(***************************************************************************)
LEMMA NoBlockOfNothing == BlockOf(<<>>) = <<>>
BY DEF BlockOf, ExpandNh

LEMMA BlockOfType ==
  ASSUME NEW l \in Seq(Nexthops), Len(l) <= 2^HashBits
  PROVE  BlockOf(l) \in Seq(NhAddrs) /\ (BlockOf(l) = <<>> <=> l = <<>>)
<1> DEFINE b == ExpandNh(l)
<1>1. b \in Seq(Nexthops)
  BY BlockType
<1>2. l # <<>> => Len(b) # 0
  BY BlockNonEmpty
<1>3. BlockOf(l) = [x \in DOMAIN b |-> NhValue(b[x])]
  BY DEF BlockOf
<1> HIDE DEF b
<1>4. \A x \in DOMAIN b : NhValue(b[x]) \in NhAddrs
  BY <1>1, NhValueType
<1>5. BlockOf(l) \in Seq(NhAddrs)
  <2>1. DOMAIN b = 1 .. Len(b) /\ Len(b) \in Nat
    BY <1>1
  <2> QED
    BY <1>3, <1>4, <2>1
<1>6. l # <<>> => BlockOf(l) # <<>>
  BY <1>1, <1>2, <1>3
<1> QED
  BY <1>5, <1>6, NoBlockOfNothing

LEMMA CurRibType ==
  ASSUME TypeInv
  PROVE  CurRib \in Rib /\ prv_routes[nh_installer] \in Rib
BY DEF TypeInv, TypeOK, RibTypeOK, CurRib

LEMMA UnseenStutters == TypeInv /\ TypeInv' /\ Unseen => UNCHANGED G!vars
<1> SUFFICES ASSUME TypeInv, TypeInv', Unseen PROVE UNCHANGED G!vars
  OBVIOUS
<1>1. DOMAIN ipv4_lpm = Prefixes /\ DOMAIN ipv4_lpm' = Prefixes
  BY DEF TypeInv, TypeOK, SwitchTypeOK
<1>2. Present("ipv4_lpm")' = Present("ipv4_lpm")
  BY <1>1 DEF Unseen, LpmEmpty, Present, Entries
<1>3. ASSUME NEW p \in Prefixes
      PROVE  CurBlock(p)' = CurBlock(p) /\ PrvBlock(p)' = PrvBlock(p)
  <2>1. CASE UNCHANGED <<ipv4_lpm, cur_nh, prv_nh>>
    BY <2>1 DEF Unseen, CurBlock, PrvBlock, Shown, BlockOf
  <2>2. CASE LpmEmpty /\ LpmEmpty'
    BY <2>2 DEF Unseen, LpmEmpty, CurBlock, PrvBlock, BlockOf
  <2> QED
    BY <2>1, <2>2 DEF Unseen
<1>4. Updating' = Updating
  BY DEF Unseen
<1> QED
  BY <1>2, <1>3, <1>4 DEF G!vars

LEMMA WithdrawalIsWithdraw ==
  ASSUME InstallInv, InstallInv', Withdrawal
  PROVE  G!Next
<1>1. DOMAIN ipv4_lpm = Prefixes
  BY DEF InstallInv, TypeInv, TypeOK, SwitchTypeOK
<1>2. PICK k \in Prefixes : ipv4_lpm[k] # Absent /\ ipv4_lpm' = [ipv4_lpm EXCEPT ![k] = Absent]
  BY DEF Withdrawal
<1>3. k \in Present("ipv4_lpm") /\ Present("ipv4_lpm")' = Present("ipv4_lpm") \ {k}
  BY <1>1, <1>2 DEF Present, Entries
<1>4. Updating = FALSE /\ Updating' = FALSE /\ CurRib' = CurRib /\ UNCHANGED <<cur_nh, prv_nh>>
  BY DEF Withdrawal, Updating
<1>5. ASSUME NEW p \in Prefixes
      PROVE  CurBlock(p)' = CurBlock(p)
  <2>1. CurBlock(p) = BlockOf(CurRib[p]) /\ CurBlock(p)' = BlockOf(CurRib'[p])
    BY DEF InstallInv, Exact, InService, CurBlock, Shown, BlockOf
  <2> QED
    BY <1>4, <2>1
<1>6. ASSUME NEW p \in Prefixes
      PROVE  PrvBlock(p)' = IF p = k THEN <<>> ELSE PrvBlock(p)
  BY <1>1, <1>2, <1>4 DEF PrvBlock, Shown
<1>7. G!Withdraw(k)
  BY <1>3, <1>4, <1>5, <1>6 DEF G!Withdraw
<1> QED
  BY <1>7 DEF G!Next

LEMMA NewGenerationIsAdvance ==
  ASSUME InstallInv, InstallInv', NewGeneration
  PROVE  G!Next
<1>1. Present("ipv4_lpm") = {} /\ Present("ipv4_lpm")' = {}
  BY DEF NewGeneration, LpmEmpty, Present, Entries, InstallInv, TypeInv, TypeOK, SwitchTypeOK
<1>2. Updating = FALSE /\ Updating' = TRUE
  BY DEF NewGeneration, Updating
<1>3. ASSUME NEW p \in Prefixes
      PROVE  PrvBlock(p)' = CurBlock(p)
  BY DEF NewGeneration, LpmEmpty, PrvBlock, CurBlock, BlockOf
<1>4. ASSUME NEW p \in Prefixes
      PROVE  CurBlock(p)' \in Seq(NhAddrs)
  <2>1. CurRib' \in Rib
    BY DEF InstallInv, TypeInv, TypeOK, RibTypeOK, CurRib
  <2>2. BlockOf(CurRib'[p]) \in Seq(NhAddrs)
    BY <2>1, RibType, BlockOfType
  <2>3. CurBlock(p)' = BlockOf(CurRib'[p])
    BY DEF NewGeneration, LpmEmpty, CurBlock, BlockOf
  <2> QED
    BY <2>2, <2>3
<1>5. G!Advance
  BY <1>1, <1>2, <1>3, <1>4 DEF G!Advance
<1> QED
  BY <1>5 DEF G!Next

LEMMA OfferingIsOffer ==
  ASSUME InstallInv, InstallInv', Offering
  PROVE  G!Next
<1>1. DOMAIN ipv4_lpm = Prefixes
  BY DEF InstallInv, TypeInv, TypeOK, SwitchTypeOK
<1>2. PICK p \in Prefixes, e \in LpmParams :
        /\ ipv4_lpm[p] = Absent /\ ipv4_lpm' = [ipv4_lpm EXCEPT ![p] = e]
        /\ CurRib[p] # <<>> \/ prv_routes[nh_installer][p] # <<>>
        /\ Shown(cur_nh, e.cur_offset, e.cur_count) = BlockOf(CurRib[p])
        /\ Shown(prv_nh, e.prv_offset, e.prv_count) = BlockOf(prv_routes[nh_installer][p])
  BY Zenon DEF Offering
<1>3. e # Absent
  BY ControllerAssumption
<1>4. p \notin Present("ipv4_lpm") /\ Present("ipv4_lpm")' = Present("ipv4_lpm") \cup {p}
  BY <1>1, <1>2, <1>3 DEF Present, Entries
<1>5. /\ Updating = TRUE /\ Updating' = TRUE /\ CurRib' = CurRib
      /\ UNCHANGED <<cur_nh, prv_nh, prv_routes, nh_installer>>
  BY DEF Offering, Updating
<1>6. ASSUME NEW q \in Prefixes
      PROVE  CurBlock(q)' = CurBlock(q) /\ CurBlock(q) = BlockOf(CurRib[q])
  <2>1. CurBlock(q) = BlockOf(CurRib[q]) /\ CurBlock(q)' = BlockOf(CurRib'[q])
    BY DEF InstallInv, Exact, InService, CurBlock, Shown, BlockOf
  <2> QED
    BY <1>5, <2>1
<1>7. PrvBlock(p) = BlockOf(prv_routes[nh_installer][p])
  BY <1>2, <1>5 DEF PrvBlock
<1>8. ASSUME NEW q \in Prefixes
      PROVE  PrvBlock(q)' = PrvBlock(q)
  <2>1. CASE q = p
    <3>1. PrvBlock(p)' = Shown(prv_nh, e.prv_offset, e.prv_count)
      BY <1>1, <1>2, <1>3, <1>5 DEF PrvBlock, Shown
    <3> QED
      BY <1>2, <1>7, <2>1, <3>1
  <2>2. CASE q # p
    <3>1. ipv4_lpm'[q] = ipv4_lpm[q]
      BY <1>1, <1>2, <2>2
    <3> QED
      BY <1>5, <3>1 DEF PrvBlock, Shown, BlockOf
  <2> QED
    BY <2>1, <2>2
<1>9. CurBlock(p) # <<>> \/ PrvBlock(p) # <<>>
  <2>1. CurRib \in Rib /\ prv_routes[nh_installer] \in Rib
    BY CurRibType DEF InstallInv
  <2>2. /\ CurRib[p] # <<>> => BlockOf(CurRib[p]) # <<>>
        /\ prv_routes[nh_installer][p] # <<>> => BlockOf(prv_routes[nh_installer][p]) # <<>>
    BY <2>1, RibType, BlockOfType
  <2> QED
    BY <1>2, <1>6, <1>7, <2>2
<1>10. G!Offer(p)
  BY <1>4, <1>5, <1>6, <1>8, <1>9 DEF G!Offer, G!HasBlock
<1> QED
  BY <1>10 DEF G!Next

LEMMA CompletedIsComplete ==
  ASSUME InstallInv, InstallInv', Completed
  PROVE  G!Next
<1>1. /\ DOMAIN ipv4_lpm = Prefixes
      /\ Updating = TRUE /\ Updating' = FALSE /\ CurRib' = CurRib
      /\ UNCHANGED <<ipv4_lpm, cur_nh, prv_nh, prv_routes, nh_installer>>
  BY DEF Completed, Updating, InstallInv, TypeInv, TypeOK, SwitchTypeOK
<1>2. Present("ipv4_lpm")' = Present("ipv4_lpm")
  BY <1>1 DEF Present, Entries
<1>3. ASSUME NEW p \in Prefixes
      PROVE  CurBlock(p)' = CurBlock(p) /\ CurBlock(p) = BlockOf(CurRib[p])
  <2>1. CurBlock(p) = BlockOf(CurRib[p]) /\ CurBlock(p)' = BlockOf(CurRib'[p])
    BY DEF InstallInv, Exact, InService, CurBlock, Shown, BlockOf
  <2> QED
    BY <1>1, <2>1
<1>4. ASSUME NEW p \in Prefixes
      PROVE  PrvBlock(p) = BlockOf(prv_routes[nh_installer][p])
  BY <1>1 DEF Completed, PrvBlock
<1>5. ASSUME NEW p \in Prefixes
      PROVE  PrvBlock(p)' = PrvBlock(p)
  <2>1. CASE ipv4_lpm[p] # Absent
    BY <1>1, <2>1 DEF PrvBlock, Shown
  <2>2. CASE ipv4_lpm[p] = Absent
    <3>1. PrvBlock(p) = <<>>
      BY <1>4, <2>2, NoBlockOfNothing DEF Completed
    <3>2. PrvBlock(p)' = <<>>
      BY <1>1, <2>2 DEF PrvBlock
    <3> QED
      BY <3>1, <3>2
  <2> QED
    BY <2>1, <2>2
<1>6. ASSUME NEW p \in Prefixes
      PROVE  p \in Present("ipv4_lpm") <=> CurBlock(p) # <<>> \/ PrvBlock(p) # <<>>
  <2>1. CurRib \in Rib /\ prv_routes[nh_installer] \in Rib
    BY CurRibType DEF InstallInv
  <2>2. /\ BlockOf(CurRib[p]) = <<>> <=> CurRib[p] = <<>>
        /\ BlockOf(prv_routes[nh_installer][p]) = <<>> <=> prv_routes[nh_installer][p] = <<>>
    BY <2>1, RibType, BlockOfType
  <2>3. ipv4_lpm[p] # Absent <=> CurRib[p] # <<>> \/ prv_routes[nh_installer][p] # <<>>
    BY DEF Completed
  <2> QED
    BY <1>1, <1>3, <1>4, <2>2, <2>3 DEF Present, Entries
<1>7. Present("ipv4_lpm") = {p \in Prefixes : CurBlock(p) # <<>> \/ PrvBlock(p) # <<>>}
  <2>1. Present("ipv4_lpm") \subseteq Prefixes
    BY <1>1 DEF Present, Entries
  <2> QED
    BY <1>6, <2>1
<1>8. G!Complete
  BY <1>1, <1>2, <1>3, <1>5, <1>7 DEF G!Complete, G!HasBlock
<1> QED
  BY <1>8 DEF G!Next

LEMMA ClearedIsReset ==
  ASSUME TypeInv', Cleared
  PROVE  G!Next
<1>1. Present("ipv4_lpm")' = {}
  BY DEF Cleared, LpmEmpty, Present, Entries, TypeInv, TypeOK, SwitchTypeOK
<1>2. Updating' = FALSE
  BY DEF Cleared, Updating
<1>3. ASSUME NEW p \in Prefixes
      PROVE  CurBlock(p)' = <<>> /\ PrvBlock(p)' = <<>>
  <2>1. CurBlock(p)' = BlockOf(<<>>)
    BY DEF Cleared, LpmEmpty, CurBlock, NoRoutes, BlockOf
  <2>2. PrvBlock(p)' = <<>>
    BY DEF Cleared, LpmEmpty, PrvBlock
  <2> QED
    BY <2>1, <2>2, NoBlockOfNothing
<1>4. G!Reset
  BY <1>1, <1>2, <1>3 DEF G!Reset, G!Nothing
<1> QED
  BY <1>4 DEF G!Next

LEMMA InitIsInit ==
  ASSUME Alone(h0), Init
  PROVE  G!Init
<1>1. /\ h0 \in Handlers /\ pc[h0] = "idle" /\ job[h0] = "none"
      /\ nh_installer \in Installers /\ cur_routes = EmptyRibs /\ ipv4_lpm = EmptyLpm
  BY SomeInstaller DEF Init, Alone
<1>2. LpmEmpty /\ Present("ipv4_lpm") = {}
  BY <1>1 DEF EmptyLpm, LpmEmpty, Present, Entries
<1>3. Updating = FALSE /\ CurRib = NoRoutes
  BY <1>1 DEF Updating, CurRib, BeforeAdvance, EmptyRibs
<1>4. ASSUME NEW p \in Prefixes
      PROVE  CurBlock(p) = <<>> /\ PrvBlock(p) = <<>>
  <2>1. CurBlock(p) = BlockOf(<<>>)
    BY <1>2, <1>3 DEF LpmEmpty, CurBlock, NoRoutes
  <2> QED
    BY <1>2, <1>3, <2>1, NoBlockOfNothing DEF LpmEmpty, PrvBlock
<1> QED
  BY <1>2, <1>3, <1>4 DEF G!Init, G!Nothing

(* Whatever lists of routes are installed, and however often, what         *)
(* retransmitted packets of a prefix are spread over is slot by slot what  *)
(* client packets were spread over before the last /install: a controller  *)
(* with one handler implements Generations, as long as no /install is cut  *)
(* short by a refused write (after one, the next /install takes prefixes   *)
(* away that were never all offered, which Generations does not allow).    *)
THEOREM ImplementsGenerations ==
  ASSUME NEW h, Handlers = {h}, "delete" \notin Faults
  PROVE  Spec /\ [][~ CutShort]_vars => Refinement
<1>1. h0 = h /\ Alone(h0)
  BY OneHandler DEF Alone
<1>2. Init => InstallInv /\ G!Init
  BY <1>1, InitType, InitClosed, InitSteady, InitExact, InitIsInit DEF InstallInv
<1>3. InstallInv /\ [Next]_vars => InstallInv'
  BY <1>1, NextExact
<1>4. InstallInv /\ InstallInv' /\ [Next]_vars /\ [~ CutShort]_vars => [G!Next]_(G!vars)
  <2> SUFFICES ASSUME InstallInv, InstallInv', [Next]_vars, [~ CutShort]_vars
               PROVE  G!Next \/ UNCHANGED G!vars
    OBVIOUS
  <2>1. ~ CutShort
    BY DEF vars, handlerVars, CutShort, Writing
  <2>2. TypeInv /\ TypeInv'
    BY DEF InstallInv
  <2>3. CASE Unseen
    BY <2>2, <2>3, UnseenStutters
  <2>4. CASE Withdrawal \/ NewGeneration \/ Offering \/ Completed \/ Cleared
    BY <2>2, <2>4, WithdrawalIsWithdraw, NewGenerationIsAdvance, OfferingIsOffer,
       CompletedIsComplete, ClearedIsReset
  <2> QED
    BY <1>1, <2>1, <2>3, <2>4, NextExact
<1> QED
  BY <1>2, <1>3, <1>4, PTL DEF Spec, Refinement, G!Spec

-----------------------------------------------------------------------------
(***************************************************************************)
(* The queues.  When requests are sent one at a time, a route that is in a *)
(* queue when process_routes starts is in cur_routes, or out of it, when   *)
(* the queue is discarded.                                                 *)
(***************************************************************************)
OneAtATime ==
  \A g, h \in Handlers : pc[g] # "idle" /\ pc[h] # "idle" => g = h

(* Both loops of process_routes are done. *)
LoopsDone(h) ==
  \/ pc[h] \in {"build", "build_cur", "encode", "put_prv", "put_cur", "put_lpm", "finish"}
  \/ pc[h] \in {"read", "delete", "drop_prv", "drop_cur"} /\ job[h] # "clear"

(* cur_routes has the added routes, and only deleted ones that the loop    *)
(* has yet to reach.                                                       *)
Added(h) == \A r \in Range(add_queue[self[h]]) \ Range(del_queue[self[h]]) :
              HasRoute(cur_routes[self[h]], r)

Queued(h) ==
  /\ pc[h] = "adds" =>
       \A r \in Range(add_queue[self[h]]) :
         HasRoute(cur_routes[self[h]], r) \/ r \in Range(todo[h].list)
  /\ pc[h] = "dels" =>
       /\ Added(h)
       /\ Range(todo[h].list) \subseteq Range(del_queue[self[h]])
       /\ \A r \in Range(del_queue[self[h]]) :
            ~ HasRoute(cur_routes[self[h]], r) \/ r \in Range(todo[h].list)
  /\ LoopsDone(h) =>
       /\ Added(h)
       /\ \A r \in Range(del_queue[self[h]]) : ~ HasRoute(cur_routes[self[h]], r)

(* A handler is in the middle of the write whose insert was refused. *)
Owed(h) ==
  call[h] # NoCall =>
    \/ pc[h] \in {"drop_prv", "drop_cur", "put_neigh"}
    \/ pc[h] = "put_prv" /\ idx[h] <= Len(table[h].prv_nh)
    \/ pc[h] = "put_cur" /\ idx[h] <= Len(table[h].cur_nh)
    \/ pc[h] = "put_lpm" /\ call[h].key \in keys[h]

QueueInv == TypeInv /\ Steady /\ OneAtATime /\ \A h \in Handlers : Queued(h) /\ Owed(h)

LEMMA RangeOfTail ==
  ASSUME NEW S, NEW s \in Seq(S), s # <<>>
  PROVE  /\ Head(s) \in Range(s) /\ Range(Tail(s)) \subseteq Range(s)
         /\ \A x \in Range(s) : x = Head(s) \/ x \in Range(Tail(s))
<1>1. DOMAIN s = 1 .. Len(s) /\ DOMAIN Tail(s) = 1 .. Len(s) - 1 /\ Len(s) \in Nat \ {0}
  OBVIOUS
<1>2. s[1] = Head(s) /\ \A i \in 1 .. Len(s) - 1 : Tail(s)[i] = s[i + 1]
  OBVIOUS
<1>3. Head(s) \in Range(s)
  BY <1>1, <1>2 DEF Range
<1>4. ASSUME NEW i \in 1 .. Len(s) - 1  PROVE Tail(s)[i] \in Range(s)
  <2>1. i + 1 \in 1 .. Len(s)
    BY <1>1
  <2> QED
    BY <1>1, <1>2, <2>1 DEF Range
<1>5. ASSUME NEW i \in 1 .. Len(s)
      PROVE  s[i] = Head(s) \/ s[i] \in Range(Tail(s))
  <2>1. CASE i = 1
    BY <1>2, <2>1
  <2>2. CASE i # 1
    <3>1. i - 1 \in 1 .. Len(s) - 1 /\ (i - 1) + 1 = i
      BY <1>1, <2>2
    <3>2. Tail(s)[i - 1] = s[i]
      BY <1>2, <3>1
    <3> QED
      BY <1>1, <3>1, <3>2 DEF Range
  <2> QED
    BY <2>1, <2>2
<1> QED
  BY <1>1, <1>3, <1>4, <1>5 DEF Range

LEMMA RangeOfAppend ==
  ASSUME NEW S, NEW s \in Seq(S), NEW e \in S
  PROVE  Range(Append(s, e)) = Range(s) \cup {e}
<1>1. /\ DOMAIN s = 1 .. Len(s) /\ Len(s) \in Nat
      /\ DOMAIN Append(s, e) = 1 .. Len(s) + 1
      /\ Append(s, e)[Len(s) + 1] = e
      /\ \A i \in 1 .. Len(s) : Append(s, e)[i] = s[i]
  OBVIOUS
<1>2. 1 .. Len(s) + 1 = (1 .. Len(s)) \cup {Len(s) + 1}
  BY <1>1
<1> QED
  BY <1>1, <1>2 DEF Range

(* A route taken out of a RIB list that held it once is not in it. *)
LEMMA RangeOfWithout ==
  ASSUME NEW S, NEW s \in Seq(S), IsInjective(s), NEW i \in DOMAIN s
  PROVE  Range(Without(s, i)) = Range(s) \ {s[i]}
<1> DEFINE e == s[i]
           w == [k \in 1 .. Len(s) - 1 |-> IF k < i THEN s[k] ELSE s[k + 1]]
<1>1. /\ DOMAIN s = 1 .. Len(s) /\ Len(s) \in Nat
      /\ i \in 1 .. Len(s) /\ s[i] = e
  OBVIOUS
<1>2. Without(s, i) = w
  BY DEF Without
<1> HIDE DEF e
<1>3. ASSUME NEW k \in 1 .. Len(s) - 1  PROVE w[k] \in Range(s) \ {e}
  <2>1. CASE k < i
    <3>1. k \in DOMAIN s /\ k # i /\ w[k] = s[k]
      BY <1>1, <2>1
    <3> QED
      BY <1>1, <3>1 DEF Range, IsInjective
  <2>2. CASE ~ (k < i)
    <3>1. k + 1 \in DOMAIN s /\ k + 1 # i /\ w[k] = s[k + 1]
      BY <1>1, <2>2
    <3> QED
      BY <1>1, <3>1 DEF Range, IsInjective
  <2> QED
    BY <2>1, <2>2
<1>4. ASSUME NEW k \in 1 .. Len(s), s[k] # e  PROVE s[k] \in Range(w)
  <2>1. k # i
    BY <1>1, <1>4
  <2>2. CASE k < i
    <3>1. k \in 1 .. Len(s) - 1 /\ w[k] = s[k]
      BY <1>1, <2>2
    <3> QED
      BY <3>1 DEF Range
  <2>3. CASE k > i
    <3>1. k - 1 \in 1 .. Len(s) - 1 /\ ~ (k - 1 < i) /\ (k - 1) + 1 = k
      BY <1>1, <2>3
    <3>2. w[k - 1] = s[k]
      BY <3>1
    <3> QED
      BY <3>1, <3>2 DEF Range
  <2> QED
    BY <1>1, <2>1, <2>2, <2>3
<1>5. Range(w) \subseteq Range(s) \ {e}
  BY <1>3 DEF Range
<1>6. Range(s) \ {e} \subseteq Range(w)
  BY <1>1, <1>4 DEF Range
<1> QED
  BY <1>1, <1>2, <1>5, <1>6

LEMMA RequestQueued ==
  ASSUME Sequential, QueueInv, Request
  PROVE  OneAtATime' /\ \A h \in Handlers : Queued(h)' /\ Owed(h)'
<1>0. \A h \in Handlers : Owed(h)'
  <2> SUFFICES ASSUME NEW h \in Handlers PROVE Owed(h)'
    OBVIOUS
  <2>1. call[h] = NoCall /\ call \in [Handlers -> Calls] /\ pc \in [Handlers -> Labels]
    BY DEF QueueInv, Owed, TypeInv, TypeOK, HandlerTypeOK, Request, RequestAllowed, RestAdd,
           RestDel, RestInstall, RestClear, RestNeighAdd, RestNeighDel, StartJob
  <2>2. call' = call => call'[h] = NoCall
    BY <2>1
  <2>3. \/ call' = call
        \/ \E g \in Handlers : \E c :
             pc' = [pc EXCEPT ![g] = "put_neigh"] /\ call' = [call EXCEPT ![g] = c]
    BY DEF Request, RestAdd, RestDel, RestInstall, RestClear, RestNeighAdd, RestNeighDel,
           handlerVars, StartJob, Goto
  <2>4. call'[h] = NoCall \/ pc'[h] = "put_neigh"
    BY <2>1, <2>2, <2>3
  <2> QED
    BY <2>4 DEF Owed
<1>1. /\ pc \in [Handlers -> Labels]
      /\ job \in [Handlers -> {"none", "install", "clear", "neigh"}]
      /\ \A h \in Handlers : pc[h] = "idle"
  BY DEF QueueInv, TypeInv, TypeOK, HandlerTypeOK, Request, RequestAllowed, RestAdd, RestDel,
         RestInstall, RestClear, RestNeighAdd, RestNeighDel, StartJob
<1>2. CASE pc' = pc
  BY <1>0, <1>1, <1>2 DEF OneAtATime, Queued, LoopsDone
<1>3. ASSUME NEW h \in Handlers, NEW label \in {"snapshot", "read", "put_neigh"},
             NEW name, name = "clear" \/ label # "read", StartJob(h, name, label)
      PROVE  OneAtATime' /\ \A g \in Handlers : Queued(g)'
  <2>1. pc' = [pc EXCEPT ![h] = label] /\ job' = [job EXCEPT ![h] = name]
    BY <1>3 DEF StartJob, Goto
  <2>2. OneAtATime'
    BY <1>1, <2>1 DEF OneAtATime
  <2>3. ASSUME NEW g \in Handlers
        PROVE  pc'[g] \in {"idle", "snapshot", "put_neigh"} \/ (pc'[g] = "read" /\ job'[g] = "clear")
    BY <1>1, <1>3, <2>1
  <2> QED
    BY <2>2, <2>3 DEF Queued, LoopsDone
<1>4. ASSUME NEW h \in Handlers, RestInstall(h) \/ RestClear(h)
      PROVE  OneAtATime' /\ \A g \in Handlers : Queued(g)'
  BY <1>3, <1>4 DEF RestInstall, RestClear
<1>5. ASSUME NEW h \in Handlers, NEW a \in NeighAddrs, NEW action \in NeighPorts,
             RestNeighAdd(h, a, action)
      PROVE  OneAtATime' /\ \A g \in Handlers : Queued(g)'
  BY <1>3, <1>5 DEF RestNeighAdd
<1>6. (\/ \E r \in Routes : RestAdd(r) \/ RestDel(r)
       \/ \E a \in NeighAddrs : RestNeighDel(a))
      => pc' = pc
  BY DEF RestAdd, RestDel, RestNeighDel, handlerVars
<1> QED
  BY <1>0, <1>2, <1>4, <1>5, <1>6 DEF Request

(* The loop over add_queue. *)
LEMMA AddsQueued ==
  ASSUME QueueInv, NEW h \in Handlers, TakeSnapshot(h) \/ AddRoute(h) \/ AddsDone(h)
  PROVE  Queued(h)'
<1> DEFINE i == self[h]  list == todo[h].list
<1>1. /\ pc \in [Handlers -> Labels] /\ todo \in [Handlers -> Loops] /\ i \in Installers
      /\ list \in Seq(Routes) /\ cur_routes \in [Installers -> Rib]
      /\ add_queue[i] \in Seq(Routes)
  BY DEF QueueInv, TypeInv, TypeOK, HandlerTypeOK, RibTypeOK, Loops
<1>2. Queued(h)
  BY DEF QueueInv
<1>3. UNCHANGED <<self, add_queue, del_queue>>
  BY DEF TakeSnapshot, AddRoute, NextRoute, AddsDone, ribVars
<1>4. CASE TakeSnapshot(h)
  <2>1. pc'[h] = "adds" /\ todo'[h].list = add_queue[i]
    BY <1>1, <1>4 DEF TakeSnapshot, Goto, LoopOver
  <2> QED
    BY <1>3, <2>1 DEF Queued, LoopsDone
<1>5. CASE AddRoute(h)
  <2> DEFINE r == Head(list)  rib == cur_routes[i]  rib1 == cur_routes'[i]
  <2>1. /\ pc[h] = "adds" /\ pc' = pc /\ list # <<>> /\ todo'[h].list = Tail(list)
        /\ cur_routes' = IF r.nexthop \in Range(rib[r.prefix]) THEN cur_routes
                         ELSE [cur_routes EXCEPT ![i][r.prefix] = Append(@, r.nexthop)]
    BY <1>1, <1>5 DEF AddRoute, NextRoute, AppendRoute, HasRoute, Loops
  <2>2. r \in Routes /\ r.prefix \in Prefixes /\ r.nexthop \in Nexthops /\ rib \in Rib
    <3>1. list \in Seq(Routes) /\ list # <<>>
      BY <1>1, <2>1
    <3>2. r \in Routes
      <4> HIDE DEF list
      <4> QED
        BY <3>1
    <3>3. rib \in Rib
      BY <1>1
    <3> QED
      BY <3>2, <3>3 DEF Routes
  <2>3. \A p \in Prefixes : rib[p] \in Seq(Nexthops)
    BY <2>2, RibType
  <2>4. \A x \in Range(list) : x = r \/ x \in Range(Tail(list))
    BY <1>1, <2>1, RangeOfTail
  <2> HIDE DEF r, list
  <2>5. ASSUME NEW x \in Routes
        PROVE  HasRoute(rib1, x) <=> HasRoute(rib, x) \/ x = r
    <3>1. CASE r.nexthop \in Range(rib[r.prefix])
      <4>1. rib1 = rib
        BY <2>1, <3>1
      <4> QED
        BY <3>1, <4>1 DEF HasRoute
    <3>2. CASE r.nexthop \notin Range(rib[r.prefix])
      <4>1. /\ DOMAIN rib = Prefixes
            /\ rib1 = [rib EXCEPT ![r.prefix] = Append(@, r.nexthop)]
        BY <1>1, <2>1, <2>2, <3>2 DEF Rib
      <4> HIDE DEF rib, rib1
      <4>2. Range(Append(rib[r.prefix], r.nexthop)) = Range(rib[r.prefix]) \cup {r.nexthop}
        BY <2>2, <2>3, RangeOfAppend
      <4>3. x = r <=> x.prefix = r.prefix /\ x.nexthop = r.nexthop
        BY <2>2 DEF Routes
      <4>4. x.prefix \in Prefixes
        BY DEF Routes
      <4>5. CASE x.prefix = r.prefix
        <5>1. rib1[x.prefix] = Append(rib[r.prefix], r.nexthop)
          BY <2>2, <4>1, <4>5
        <5> QED
          BY <4>2, <4>3, <4>5, <5>1 DEF HasRoute
      <4>6. CASE x.prefix # r.prefix
        <5>1. rib1[x.prefix] = rib[x.prefix]
          BY <4>1, <4>4, <4>6
        <5> QED
          BY <4>3, <4>6, <5>1 DEF HasRoute
      <4> QED
        BY <4>5, <4>6
    <3> QED
      BY <3>1, <3>2
  <2>6. ASSUME NEW x \in Range(add_queue[i])
        PROVE  HasRoute(rib1, x) \/ x \in Range(Tail(list))
    <3>1. x \in Routes
      BY <1>1 DEF Range
    <3>2. HasRoute(rib, x) \/ x \in Range(list)
      BY <1>2, <2>1 DEF Queued, list
    <3> QED
      BY <2>4, <2>5, <3>1, <3>2
  <2> HIDE DEF rib1
  <2>7. pc'[h] = "adds" /\ \A x \in Range(add_queue'[self'[h]]) :
          HasRoute(rib1, x) \/ x \in Range(todo'[h].list)
    BY <1>3, <2>1, <2>6
  <2> QED
    BY <1>3, <2>7 DEF Queued, LoopsDone, HasRoute, rib1
<1>6. CASE AddsDone(h)
  <2>1. /\ pc[h] = "adds" /\ list = <<>> /\ pc'[h] = "dels"
        /\ todo'[h].list = del_queue[i] /\ cur_routes' = cur_routes
    BY <1>1, <1>6 DEF AddsDone, Goto, LoopOver, ribVars
  <2>2. \A r \in Range(add_queue[i]) : HasRoute(cur_routes[i], r)
    BY <1>2, <2>1 DEF Queued, Range
  <2> QED
    BY <1>3, <2>1, <2>2 DEF Queued, LoopsDone, Added, HasRoute
<1> QED
  BY <1>4, <1>5, <1>6

(* The loop over del_queue. *)
LEMMA DelsQueued ==
  ASSUME QueueInv, NEW h \in Handlers, DelRoute(h) \/ DelsDone(h)
  PROVE  Queued(h)'
<1> DEFINE i == self[h]  list == todo[h].list
<1>1. /\ pc \in [Handlers -> Labels] /\ todo \in [Handlers -> Loops] /\ i \in Installers
      /\ list \in Seq(Routes) /\ cur_routes \in [Installers -> Rib]
      /\ add_queue[i] \in Seq(Routes) /\ del_queue[i] \in Seq(Routes)
      /\ \A p \in Prefixes : IsInjective(cur_routes[i][p])
  BY DEF QueueInv, Steady, TypeInv, TypeOK, HandlerTypeOK, RibTypeOK, NoRouteTwice, Loops
<1>2. Queued(h)
  BY DEF QueueInv
<1>3. UNCHANGED <<self, add_queue, del_queue>>
  BY DEF DelRoute, NextRoute, DelsDone, ribVars
<1>4. CASE DelRoute(h)
  <2> DEFINE r == Head(list)  rib == cur_routes[i]  rib1 == cur_routes'[i]
             n == FirstAt(rib[r.prefix], r.nexthop)
  <2>1. /\ pc[h] = "dels" /\ pc' = pc /\ list # <<>> /\ todo'[h].list = Tail(list)
        /\ cur_routes' = IF r.nexthop \notin Range(rib[r.prefix]) THEN cur_routes
                         ELSE [cur_routes EXCEPT ![i][r.prefix] = Without(@, n)]
    BY <1>1, <1>4 DEF DelRoute, NextRoute, RemoveRoute, HasRoute, Loops
  <2>2. r \in Routes /\ r.prefix \in Prefixes /\ r.nexthop \in Nexthops /\ rib \in Rib
    <3>1. list \in Seq(Routes) /\ list # <<>>
      BY <1>1, <2>1
    <3>2. r \in Routes
      <4> HIDE DEF list
      <4> QED
        BY <3>1
    <3>3. rib \in Rib
      BY <1>1
    <3> QED
      BY <3>2, <3>3 DEF Routes
  <2>3. \A p \in Prefixes : rib[p] \in Seq(Nexthops) /\ IsInjective(rib[p])
    BY <1>1, <2>2, RibType
  <2>4. /\ r \in Range(list) /\ Range(Tail(list)) \subseteq Range(list)
        /\ \A x \in Range(list) : x = r \/ x \in Range(Tail(list))
    BY <1>1, <2>1, RangeOfTail
  <2>5. /\ Added(h) /\ Range(list) \subseteq Range(del_queue[i])
        /\ \A x \in Range(del_queue[i]) : ~ HasRoute(rib, x) \/ x \in Range(list)
    BY <1>2, <2>1 DEF Queued
  <2> HIDE DEF r, list
  <2>6. ASSUME NEW x \in Routes
        PROVE  HasRoute(rib1, x) <=> HasRoute(rib, x) /\ x # r
    <3>1. CASE r.nexthop \notin Range(rib[r.prefix])
      <4>1. rib1 = rib
        BY <2>1, <3>1
      <4> QED
        BY <3>1, <4>1 DEF HasRoute
    <3>2. CASE r.nexthop \in Range(rib[r.prefix])
      <4>1. /\ DOMAIN rib = Prefixes
            /\ rib1 = [rib EXCEPT ![r.prefix] = Without(@, n)]
        BY <1>1, <2>1, <2>2, <3>2 DEF Rib
      <4> HIDE DEF rib, rib1
      <4>2. Range(Without(rib[r.prefix], n)) = Range(rib[r.prefix]) \ {r.nexthop}
        <5>1. n \in DOMAIN rib[r.prefix] /\ rib[r.prefix][n] = r.nexthop
          BY <2>2, <2>3, <3>2, FirstAtType
        <5> HIDE DEF n
        <5> QED
          BY <2>2, <2>3, <5>1, RangeOfWithout
      <4>3. x = r <=> x.prefix = r.prefix /\ x.nexthop = r.nexthop
        BY <2>2 DEF Routes
      <4>4. x.prefix \in Prefixes
        BY DEF Routes
      <4>5. CASE x.prefix = r.prefix
        <5>1. rib1[x.prefix] = Without(rib[r.prefix], n)
          BY <2>2, <4>1, <4>5
        <5> QED
          BY <4>2, <4>3, <4>5, <5>1 DEF HasRoute
      <4>6. CASE x.prefix # r.prefix
        <5>1. rib1[x.prefix] = rib[x.prefix]
          BY <4>1, <4>4, <4>6
        <5> QED
          BY <4>3, <4>6, <5>1 DEF HasRoute
      <4> QED
        BY <4>5, <4>6
    <3> QED
      BY <3>1, <3>2
  <2> HIDE DEF rib1
  <2>7. ASSUME NEW x \in Range(add_queue[i]) \ Range(del_queue[i])
        PROVE  HasRoute(rib1, x)
    <3>1. x \in Routes
      BY <1>1 DEF Range
    <3>2. HasRoute(rib, x) /\ x # r
      BY <2>4, <2>5 DEF Added
    <3> QED
      BY <2>6, <3>1, <3>2
  <2>8. ASSUME NEW x \in Range(del_queue[i])
        PROVE  ~ HasRoute(rib1, x) \/ x \in Range(Tail(list))
    <3>1. x \in Routes
      BY <1>1 DEF Range
    <3> QED
      BY <2>4, <2>5, <2>6, <3>1
  <2>9. Added(h)'
    BY <1>3, <2>7 DEF Added, HasRoute, rib1
  <2>10. /\ Range(todo'[h].list) \subseteq Range(del_queue'[self'[h]])
         /\ \A x \in Range(del_queue'[self'[h]]) :
              ~ HasRoute(cur_routes'[self'[h]], x) \/ x \in Range(todo'[h].list)
    BY <1>3, <2>1, <2>4, <2>5, <2>8 DEF rib1
  <2>11. pc'[h] = "dels"
    BY <2>1
  <2> QED
    BY <2>9, <2>10, <2>11 DEF Queued, LoopsDone, HasRoute
<1>5. CASE DelsDone(h)
  <2>1. pc[h] = "dels" /\ list = <<>> /\ pc'[h] = "build" /\ cur_routes' = cur_routes
    BY <1>1, <1>5 DEF DelsDone, Goto, ribVars
  <2>2. Added(h) /\ \A r \in Range(del_queue[i]) : ~ HasRoute(cur_routes[i], r)
    BY <1>2, <2>1 DEF Queued, Range
  <2>3. Added(h)'
    BY <1>3, <2>1, <2>2 DEF Added, HasRoute
  <2> QED
    BY <1>3, <2>1, <2>2, <2>3 DEF Queued, LoopsDone, HasRoute
<1> QED
  BY <1>4, <1>5

(* What the rest of a job leaves alone. *)
LEMMA RestQueued ==
  ASSUME QueueInv, NEW h \in Handlers, HandlerStep(h),
         ~ (TakeSnapshot(h) \/ AddRoute(h) \/ AddsDone(h) \/ DelRoute(h) \/ DelsDone(h))
  PROVE  Queued(h)'
<1>0. MemoryStep(h) => BuildPrv(h) \/ BuildCur(h) \/ Encode(h) \/ EncodeDone(h)
  BY SteadyMemory DEF QueueInv
<1>1. pc \in [Handlers -> Labels]
  BY DEF QueueInv, TypeInv, TypeOK, HandlerTypeOK
<1>2. CASE Finish(h) \/ Renew(h) \/ Reply(h)
  <2>1. pc'[h] \in {"reply", "idle"}
    BY <1>1, <1>2 DEF Finish, Renew, Reply, Goto
  <2> QED
    BY <2>1 DEF Queued, LoopsDone
<1>3. CASE ~ (Finish(h) \/ Renew(h) \/ Reply(h))
  <2>1. UNCHANGED <<add_queue, del_queue, cur_routes, self, job>>
    BY <1>0, <1>3
    DEF HandlerStep, MemoryStep, BuildPrv, BuildCur, Encode, EncodeDone, ReadTable, DeleteEntry,
        DeleteFails, TableCleared, PutDrop, PutPrv, PrvDone, PutCur, CurDone, PutLpm, LpmDone,
        Modify, PutNeigh, ribVars
  <2>2. pc'[h] \notin {"adds", "dels"} /\ (LoopsDone(h)' => LoopsDone(h))
    <3>1. CASE BuildPrv(h) \/ BuildCur(h) \/ Encode(h) \/ EncodeDone(h)
      BY <1>1, <2>1, <3>1 DEF BuildPrv, BuildCur, Encode, EncodeDone, Goto, LoopsDone
    <3>2. CASE ReadTable(h) \/ DeleteEntry(h) \/ DeleteFails(h) \/ TableCleared(h)
      BY <1>1, <2>1, <3>2
      DEF ReadTable, DeleteEntry, DeleteFails, TableCleared, Goto, LoopsDone
    <3>3. CASE PrvDone(h) \/ CurDone(h) \/ LpmDone(h)
      BY <1>1, <2>1, <3>3 DEF PrvDone, CurDone, LpmDone, Goto, LoopsDone
    <3>4. ASSUME NEW k, Proceed(h, k)
          PROVE  pc'[h] \notin {"adds", "dels"} /\ (LoopsDone(h)' => LoopsDone(h))
      BY <1>1, <2>1, <3>4 DEF Proceed, Goto, LoopsDone
    <3>5. ASSUME Abort(h)
          PROVE  pc'[h] \notin {"adds", "dels"} /\ (LoopsDone(h)' => LoopsDone(h))
      BY <1>1, <3>5 DEF Abort, Goto, LoopsDone
    <3>6. ASSUME NEW t, NEW k, NEW v, Insert(h, t, k, v), pc[h] \notin {"adds", "dels"}
          PROVE  pc'[h] \notin {"adds", "dels"} /\ (LoopsDone(h)' => LoopsDone(h))
      BY <2>1, <3>4, <3>5, <3>6 DEF Insert, LoopsDone
    <3>7. CASE PutDrop(h) \/ PutPrv(h) \/ PutCur(h) \/ PutLpm(h)
      BY <3>6, <3>7 DEF PutDrop, PutPrv, PutCur, PutLpm
    <3>8. CASE Modify(h) \/ PutNeigh(h)
      BY <3>4, <3>5, <3>8 DEF Modify, PutNeigh
    <3> QED
      BY <1>0, <1>3, <3>1, <3>2, <3>3, <3>7, <3>8 DEF HandlerStep, MemoryStep
  <2>3. CASE LoopsDone(h)'
    <3>1. Added(h) /\ \A r \in Range(del_queue[self[h]]) : ~ HasRoute(cur_routes[self[h]], r)
      BY <2>2, <2>3 DEF QueueInv, Queued
    <3>2. Added(h)' /\ \A r \in Range(del_queue'[self'[h]]) : ~ HasRoute(cur_routes'[self'[h]], r)
      BY <2>1, <3>1 DEF Added, HasRoute
    <3> QED
      BY <2>2, <3>2 DEF Queued, HasRoute
  <2>4. CASE ~ LoopsDone(h)'
    BY <2>2, <2>4 DEF Queued
  <2> QED
    BY <2>3, <2>4
<1> QED
  BY <1>2, <1>3

(* A handler that takes a step is serving a request, and its step leaves   *)
(* the other handlers alone.                                               *)
LEMMA StepLocal ==
  ASSUME TypeInv, NEW h \in Handlers, Owed(h), HandlerStep(h)
  PROVE  /\ Owed(h)' /\ pc[h] # "idle"
         /\ \A g \in Handlers \ {h} : pc'[g] = pc[g] /\ call'[g] = call[g]
<1> DEFINE Others == \A g \in Handlers \ {h} : pc'[g] = pc[g] /\ call'[g] = call[g]
<1>1. /\ pc \in [Handlers -> Labels] /\ call \in [Handlers -> Calls]
      /\ table[h] \in ECMPerTables /\ idx[h] \in Nat
      /\ idx \in [Handlers -> Nat \ {0}]
      /\ keys \in [Handlers -> SUBSET UNION {Keys(t) : t \in Tables}]
  BY DEF TypeInv, TypeOK, HandlerTypeOK
<1>2. Len(table[h].prv_nh) \in Nat /\ Len(table[h].cur_nh) \in Nat
  BY <1>1 DEF ECMPerTables
<1>3. CASE MemoryStep(h)
  <2>1. /\ pc[h] \in {"snapshot", "adds", "dels", "build", "build_cur", "encode"} /\ call' = call
        /\ \A g \in Handlers \ {h} : pc'[g] = pc[g]
    BY <1>3, MemoryFrame
  <2> QED
    BY <1>1, <2>1 DEF Owed
<1>4. CASE ReadTable(h) \/ DeleteEntry(h) \/ DeleteFails(h) \/ TableCleared(h)
  <2>1. /\ pc[h] \in {"read", "delete"} /\ call' = call
        /\ pc' = pc \/ \E label : pc' = [pc EXCEPT ![h] = label]
    BY <1>4 DEF ReadTable, DeleteEntry, DeleteFails, TableCleared, Goto
  <2> QED
    BY <1>1, <2>1 DEF Owed
<1>5. CASE PrvDone(h) \/ CurDone(h) \/ LpmDone(h)
  <2>1. /\ call' = call /\ \E label : pc' = [pc EXCEPT ![h] = label]
        /\ \/ pc[h] = "put_prv" /\ idx[h] > Len(table[h].prv_nh)
           \/ pc[h] = "put_cur" /\ idx[h] > Len(table[h].cur_nh)
           \/ pc[h] = "put_lpm" /\ keys[h] = {}
    BY <1>5 DEF PrvDone, CurDone, LpmDone, Goto
  <2>2. call[h] = NoCall
    BY <1>1, <1>2, <2>1 DEF Owed
  <2> QED
    BY <1>1, <2>1, <2>2 DEF Owed
<1>6. CASE Finish(h) \/ Renew(h) \/ Reply(h)
  <2>1. /\ pc[h] \in {"finish", "renew", "reply"} /\ call' = call
        /\ \E label : pc' = [pc EXCEPT ![h] = label]
    BY <1>6 DEF Finish, Renew, Reply, Goto
  <2> QED
    BY <1>1, <2>1 DEF Owed
<1>7. ASSUME NEW k, Proceed(h, k) \/ Abort(h), pc[h] # "idle"
      PROVE  \A g \in Handlers \ {h} : pc'[g] = pc[g]
  BY <1>1, <1>7 DEF Proceed, Abort, Goto
<1>8. ASSUME NEW t, NEW k, NEW v, Insert(h, t, k, v), call[h] = NoCall, pc[h] # "idle",
             call[h] = NoCall,
             UNCHANGED table,
             \/ pc[h] \in {"drop_prv", "drop_cur"}
             \/ pc[h] = "put_prv" /\ idx[h] <= Len(table[h].prv_nh)
             \/ pc[h] = "put_cur" /\ idx[h] <= Len(table[h].cur_nh)
             \/ pc[h] = "put_lpm" /\ k \in keys[h]
      PROVE  Owed(h)' /\ pc[h] # "idle" /\ Others
  <2>1. CASE /\ call' = [call EXCEPT ![h] = [tab |-> t, key |-> k, value |-> v]]
             /\ UNCHANGED <<pc, idx, keys>>
    <3>1. call'[h].key = k
      BY <1>1, <2>1
    <3> QED
      BY <1>1, <1>8, <2>1, <3>1 DEF Owed
  <2>2. CASE Proceed(h, k) /\ call' = [call EXCEPT ![h] = NoCall]
    <3>1. call'[h] = NoCall
      BY <1>1, <2>2
    <3> QED
      BY <1>1, <1>7, <1>8, <2>2, <3>1 DEF Owed
  <2>3. CASE Abort(h) /\ call' = call
    BY <1>1, <1>7, <1>8, <2>3 DEF Owed
  <2> QED
    BY <1>8, <2>1, <2>2, <2>3 DEF Insert
<1>9. CASE PutDrop(h) \/ PutPrv(h) \/ PutCur(h) \/ PutLpm(h)
  BY <1>8, <1>9 DEF PutDrop, PutPrv, PutCur, PutLpm
<1>10. CASE Modify(h) \/ PutNeigh(h)
  <2>1. call' = [call EXCEPT ![h] = NoCall] /\ \E k : Proceed(h, k) \/ Abort(h)
    BY <1>10 DEF Modify, PutNeigh
  <2>2. pc[h] # "idle"
    BY <1>10 DEF Modify, PutNeigh, Owed
  <2> QED
    BY <1>1, <1>7, <2>1, <2>2 DEF Owed
<1> QED
  BY <1>3, <1>4, <1>5, <1>6, <1>9, <1>10 DEF HandlerStep, MemoryStep

LEMMA NextQueued ==
  ASSUME Sequential, QueueInv, [Next]_vars
  PROVE  QueueInv'
<1>0. ASSUME NEW h \in Handlers, HandlerStep(h)
      PROVE  \A g \in Handlers \ {h} : pc[g] = "idle"
  BY <1>0, StepLocal DEF QueueInv, OneAtATime
<1>1. TypeInv' /\ Steady'
  BY <1>0, NextType, SteadyStep DEF QueueInv
<1>2. CASE Request
  BY <1>1, <1>2, RequestQueued DEF QueueInv
<1>3. ASSUME NEW h \in Handlers, HandlerStep(h)
      PROVE  QueueInv'
  <2>1. /\ Owed(h)' /\ pc[h] # "idle"
        /\ \A g \in Handlers \ {h} : pc'[g] = pc[g] /\ call'[g] = call[g]
    BY <1>3, StepLocal DEF QueueInv
  <2>2. \A g \in Handlers \ {h} : pc[g] = "idle"
    BY <2>1 DEF QueueInv, OneAtATime
  <2>3. OneAtATime'
    BY <2>1, <2>2 DEF OneAtATime
  <2>4. ASSUME NEW g \in Handlers \ {h}
        PROVE  Queued(g)' /\ Owed(g)'
    <3>1. pc'[g] = "idle" /\ call'[g] = NoCall
      BY <2>1, <2>2 DEF QueueInv, Owed
    <3> QED
      BY <3>1 DEF Queued, LoopsDone, Owed
  <2>5. Queued(h)'
    BY <1>3, AddsQueued, DelsQueued, RestQueued DEF QueueInv
  <2> QED
    BY <1>1, <2>1, <2>3, <2>4, <2>5 DEF QueueInv
<1>4. CASE Restart
  <2>1. \A h \in Handlers : pc'[h] = "idle" /\ call'[h] = NoCall
    BY <1>4 DEF Restart
  <2> QED
    BY <1>1, <2>1 DEF QueueInv, OneAtATime, Queued, LoopsDone, Owed
<1>5. CASE UNCHANGED vars
  BY <1>1, <1>5
  DEF vars, ribVars, handlerVars, QueueInv, OneAtATime, Queued, LoopsDone, Added, HasRoute, Owed
<1> QED
  BY <1>2, <1>3, <1>4, <1>5 DEF Next

(* When requests are sent one at a time, /install discards no route: at    *)
(* the end of process_routes every queued addition is in cur_routes, and   *)
(* every queued deletion out of it, however long the queues and for every  *)
(* number of handlers; refused writes and deletes change nothing in that.  *)
THEOREM QueuesWorkedIn ==
  ASSUME Sequential
  PROVE  Spec => InstallDeploysQueued
<1>1. Init => QueueInv
  <2> SUFFICES ASSUME Init PROVE QueueInv
    OBVIOUS
  <2>1. \A h \in Handlers : pc[h] = "idle" /\ call[h] = NoCall
    BY DEF Init
  <2> QED
    BY <2>1, InitType, InitSteady DEF QueueInv, OneAtATime, Queued, LoopsDone, Owed
<1>2. QueueInv /\ [Next]_vars => QueueInv'
  BY NextQueued
<1>3. QueueInv => \A h \in Handlers : Finish(h) =>
                    LET i == self[h] IN
                    /\ \A r \in Range(del_queue[i]) : ~ HasRoute(cur_routes[i], r)
                    /\ \A r \in Range(add_queue[i]) \ Range(del_queue[i]) :
                         HasRoute(cur_routes[i], r)
  BY DEF QueueInv, Queued, LoopsDone, Added, Finish
<1> QED
  BY <1>1, <1>2, <1>3, PTL DEF Spec, InstallDeploysQueued

-----------------------------------------------------------------------------
(***************************************************************************)
(* What /clear leaves.                                                     *)
(***************************************************************************)
EmptyTab(t) == Present(t) = {}
DropOnly(t) == Present(t) = {0} /\ Entries(t)[0] = Drop

(* How far table_all_clear and install_nh_drop_entry have got. *)
Wiping(h) ==
  job[h] = "clear" =>
    /\ pc[h] \in {"read", "delete", "drop_prv", "drop_cur", "renew", "reply"}
    /\ pc[h] \in {"read", "delete"} =>
         /\ tab[h] # "ipv4_lpm" => EmptyTab("ipv4_lpm")
         /\ tab[h] \in {"prv_nh", "neigh"} => EmptyTab("cur_nh")
         /\ tab[h] = "neigh" => EmptyTab("prv_nh")
    /\ pc[h] = "delete" => keys[h] = Present(tab[h])
    /\ pc[h] \in {"drop_prv", "drop_cur"} => call[h] = NoCall
    /\ pc[h] \in {"drop_prv", "drop_cur", "renew"} => EmptyTab("ipv4_lpm") /\ EmptyTab("neigh")
    /\ pc[h] \in {"drop_prv", "drop_cur"} => EmptyTab("cur_nh")
    /\ pc[h] = "drop_prv" => EmptyTab("prv_nh")
    /\ pc[h] \in {"drop_cur", "renew"} => DropOnly("prv_nh")
    /\ pc[h] = "renew" => DropOnly("cur_nh")

LEMMA WriteFrame ==
  ASSUME SwitchTypeOK, NEW t \in Tables, NEW k \in Keys(t), NEW v, Write(t, k, v)
  PROVE  /\ \A u \in Tables \ {t} : Present(u)' = Present(u) /\ Entries(u)' = Entries(u)
         /\ v = Absent => Present(t)' = Present(t) \ {k}
         /\ v # Absent => Present(t)' = Present(t) \cup {k} /\ Entries(t)'[k] = v
<1>1. Tables = {"ipv4_lpm", "cur_nh", "prv_nh", "neigh"}
  BY DEF Tables
<1>2. \A u \in Tables \ {t} : Entries(u)' = Entries(u)
  BY <1>1 DEF Entries, Write
<1>3. \A u \in Tables \ {t} : Present(u)' = Present(u)
  BY <1>2 DEF Present
<1>4. DOMAIN Entries(t) = Keys(t) /\ Entries(t)' = [Entries(t) EXCEPT ![k] = v]
  BY <1>1 DEF Entries, Write, Keys, SwitchTypeOK
<1>5. /\ v = Absent => Present(t)' = Present(t) \ {k}
      /\ v # Absent => Present(t)' = Present(t) \cup {k} /\ Entries(t)'[k] = v
  <2> HIDE DEF Entries
  <2> QED
    BY <1>4 DEF Present
<1> QED
  BY <1>2, <1>3, <1>5

LEMMA SwitchKept ==
  ASSUME UNCHANGED switchVars
  PROVE  \A t : Present(t)' = Present(t) /\ Entries(t)' = Entries(t)
BY DEF switchVars, Present, Entries

(* The order of /clear. *)
LEMMA WipedNext ==
  ASSUME NEW h \in Handlers, tab \in [Handlers -> Tables], pc \in [Handlers -> Labels],
         job[h] = "clear", TableCleared(h)
  PROVE  \/ tab[h] = "ipv4_lpm" /\ tab'[h] = "cur_nh" /\ pc'[h] = "read"
         \/ tab[h] = "cur_nh" /\ tab'[h] = "prv_nh" /\ pc'[h] = "read"
         \/ tab[h] = "prv_nh" /\ tab'[h] = "neigh" /\ pc'[h] = "read"
         \/ tab[h] = "neigh" /\ pc'[h] = "drop_prv"
<1> DEFINE order == ClearOrder(job[h])
           n == CHOOSE n \in DOMAIN order : order[n] = tab[h]
<1>1. order = <<"ipv4_lpm", "cur_nh", "prv_nh", "neigh">>
  BY DEF ClearOrder
<1>2. tab[h] \in {"ipv4_lpm", "cur_nh", "prv_nh", "neigh"}
  BY DEF Tables
<1>3. \/ n < Len(order) /\ tab' = [tab EXCEPT ![h] = order[n + 1]] /\ Goto(h, "read")
      \/ ~ (n < Len(order)) /\ tab' = tab /\ Goto(h, "drop_prv")
  BY DEF TableCleared
<1> HIDE DEF order
<1>4. DOMAIN order = 1 .. 4 /\ Len(order) = 4
      /\ order[1] = "ipv4_lpm" /\ order[2] = "cur_nh" /\ order[3] = "prv_nh" /\ order[4] = "neigh"
  BY <1>1
<1>5. n \in 1 .. 4 /\ order[n] = tab[h]
  BY <1>2, <1>4
<1> HIDE DEF n
<1>6. n \in {1, 2, 3, 4}
  BY <1>5
<1> QED
  BY <1>3, <1>4, <1>5, <1>6 DEF Goto

(* table_all_clear, table by table. *)
LEMMA TablesWiped ==
  ASSUME Faults = {}, TypeInv, NEW h \in Handlers, job[h] = "clear", Owed(h),
         Wiping(h),
         ReadTable(h) \/ DeleteEntry(h) \/ DeleteFails(h) \/ TableCleared(h)
  PROVE  Wiping(h)'
<1>1. /\ tab[h] \in Tables /\ pc \in [Handlers -> Labels] /\ tab \in [Handlers -> Tables]
      /\ SwitchTypeOK /\ DOMAIN keys = Handlers
      /\ pc[h] = "delete" => keys[h] \subseteq Keys(tab[h])
  BY DEF TypeInv, TypeOK, HandlerTypeOK, KeysOK
<1>2. job' = job
  BY DEF ReadTable, DeleteEntry, DeleteFails, TableCleared
<1>3. CASE ReadTable(h)
  <2>1. /\ UNCHANGED switchVars /\ UNCHANGED tab /\ pc[h] = "read" /\ pc'[h] = "delete"
        /\ keys'[h] = Present(tab[h])
    BY <1>1, <1>3 DEF ReadTable, Goto
  <2> QED
    BY <1>2, <2>1, SwitchKept DEF Wiping, EmptyTab
<1>4. CASE DeleteEntry(h)
  <2>1. PICK k \in keys[h] : Write(tab[h], k, Absent) /\ keys' = [keys EXCEPT ![h] = @ \ {k}]
    BY <1>4 DEF DeleteEntry
  <2>2. pc[h] = "delete" /\ pc' = pc /\ tab' = tab
    BY <1>4 DEF DeleteEntry
  <2>3. k \in Keys(tab[h])
    BY <1>1, <2>1, <2>2
  <2>4. PICK t \in Tables : t = tab[h]
    BY <1>1
  <2>5. /\ \A u \in Tables \ {t} : Present(u)' = Present(u)
        /\ Present(t)' = Present(t) \ {k}
    BY <1>1, <2>1, <2>3, <2>4, WriteFrame
  <2>6. Present(tab[h])' = Present(t)' /\ Present(tab[h]) = Present(t)
    BY <2>2, <2>4 DEF Present, Entries
  <2>7. keys'[h] = Present(tab[h])'
    <3>1. keys[h] = Present(t) /\ keys'[h] = keys[h] \ {k}
      BY <1>1, <2>1, <2>2, <2>6 DEF Wiping
    <3> QED
      BY <2>5, <2>6, <3>1
  <2>8. \A u \in Tables \ {t} : EmptyTab(u) => EmptyTab(u)'
    BY <2>5 DEF EmptyTab
  <2> QED
    BY <1>2, <2>2, <2>4, <2>7, <2>8 DEF Wiping, Tables
<1>5. CASE DeleteFails(h)
  BY <1>5 DEF DeleteFails, Wiping
<1>6. CASE TableCleared(h)
  <2>1. /\ UNCHANGED switchVars /\ pc[h] = "delete" /\ call'[h] = NoCall
        /\ Present(tab[h]) = {}
    BY <1>6 DEF TableCleared, Wiping, Owed
  <2>2. \A u \in Tables : Present(u)' = Present(u)
    BY <2>1, SwitchKept
  <2>3. \/ tab[h] = "ipv4_lpm" /\ tab'[h] = "cur_nh" /\ pc'[h] = "read"
        \/ tab[h] = "cur_nh" /\ tab'[h] = "prv_nh" /\ pc'[h] = "read"
        \/ tab[h] = "prv_nh" /\ tab'[h] = "neigh" /\ pc'[h] = "read"
        \/ tab[h] = "neigh" /\ pc'[h] = "drop_prv"
    BY <1>1, <1>6, WipedNext
  <2> QED
    BY <1>2, <2>1, <2>2, <2>3 DEF Wiping, EmptyTab, Tables
<1> QED
  BY <1>3, <1>4, <1>5, <1>6

(* install_nh_drop_entry: no insert into an empty table is refused. *)
LEMMA DropsPut ==
  ASSUME Faults = {}, TypeInv, NEW h \in Handlers, job[h] = "clear", Wiping(h), PutDrop(h)
  PROVE  Wiping(h)'
<1> DEFINE t == IF pc[h] = "drop_prv" THEN "prv_nh" ELSE "cur_nh"
<1>1. /\ pc \in [Handlers -> Labels] /\ call \in [Handlers -> Calls] /\ SwitchTypeOK
      /\ pc[h] \in {"drop_prv", "drop_cur"} /\ job' = job
      /\ t \in Tables /\ t \in {"prv_nh", "cur_nh"} /\ 0 \in Keys(t)
      /\ Insert(h, t, 0, Drop)
  BY ZeroIsHash DEF TypeInv, TypeOK, HandlerTypeOK, PutDrop, Tables, Keys
<1>2. Present(t) = {}
  BY <1>1 DEF Wiping, EmptyTab
<1>3. Encodable(t, 0, Drop) /\ ~ Full(t) /\ Drop # Absent
  <2>1. Encodable(t, 0, Drop)
    BY ZeroIsHash, ControllerAssumption DEF Encodable
  <2>2. Cardinality(Present(t)) = 0 /\ Size(t) = NhSize
    BY <1>1, <1>2, FS_EmptySet DEF Size
  <2>3. Drop # Absent /\ NhSize \in Nat \ {0}
    BY ControllerAssumption
  <2> QED
    BY <2>1, <2>2, <2>3 DEF Full
<1>4. Write(t, 0, Drop) /\ Proceed(h, 0) /\ call' = [call EXCEPT ![h] = NoCall]
  <2>1. Insert(h, t, 0, Drop) /\ 0 \notin Present(t) /\ "write" \notin Faults
    BY <1>1, <1>2
  <2> HIDE DEF t
  <2> QED
    BY <1>3, <2>1 DEF Insert
<1>5. \/ pc[h] = "drop_prv" /\ pc'[h] = "drop_cur"
      \/ pc[h] = "drop_cur" /\ pc'[h] = "renew"
  BY <1>1, <1>4 DEF Proceed, Goto
<1>6. call'[h] = NoCall
  BY <1>1, <1>4
<1>7. PICK u \in {"prv_nh", "cur_nh"} : u = t
  BY <1>1
<1>8. /\ \A w \in Tables \ {u} : Present(w)' = Present(w) /\ Entries(w)' = Entries(w)
      /\ Present(u)' = {0} /\ Entries(u)'[0] = Drop
  <2>1. u \in Tables /\ 0 \in Keys(u) /\ Write(u, 0, Drop) /\ Present(u) = {}
    BY <1>1, <1>2, <1>4, <1>7 DEF Tables
  <2> QED
    BY <1>1, <1>3, <2>1, WriteFrame
<1>9. CASE pc[h] = "drop_prv"
  <2>1. u = "prv_nh" /\ pc'[h] = "drop_cur"
    BY <1>5, <1>7, <1>9
  <2>2. EmptyTab("ipv4_lpm")' /\ EmptyTab("neigh")' /\ EmptyTab("cur_nh")'
    BY <1>8, <1>9, <2>1 DEF Wiping, EmptyTab, Tables
  <2>3. DropOnly("prv_nh")'
    BY <1>8, <2>1 DEF DropOnly
  <2> QED
    BY <1>6, <2>1, <2>2, <2>3 DEF Wiping
<1>10. CASE pc[h] = "drop_cur"
  <2>1. u = "cur_nh" /\ pc'[h] = "renew"
    BY <1>5, <1>7, <1>10
  <2>2. EmptyTab("ipv4_lpm")' /\ EmptyTab("neigh")'
    BY <1>8, <1>10, <2>1 DEF Wiping, EmptyTab, Tables
  <2>3. DropOnly("cur_nh")' /\ DropOnly("prv_nh")'
    BY <1>8, <1>10, <2>1 DEF Wiping, DropOnly, Tables
  <2> QED
    BY <2>1, <2>2, <2>3 DEF Wiping
<1> QED
  BY <1>1, <1>9, <1>10

LEMMA StepWiping ==
  ASSUME Faults = {}, TypeInv, NEW h \in Handlers, Owed(h), Wiping(h), HandlerStep(h)
  PROVE  Wiping(h)'
<1>1. job \in [Handlers -> {"none", "install", "clear", "neigh"}] /\ pc \in [Handlers -> Labels]
  BY DEF TypeInv, TypeOK, HandlerTypeOK
<1>2. job' = job \/ job' = [job EXCEPT ![h] = "none"]
  BY MemoryFrame
  DEF HandlerStep, MemoryStep, ReadTable, DeleteEntry, DeleteFails, TableCleared, PutDrop, PutPrv,
      PrvDone, PutCur, CurDone, PutLpm, LpmDone, Modify, Finish, PutNeigh, Renew, Reply
<1>3. CASE job[h] # "clear"
  BY <1>1, <1>2, <1>3 DEF Wiping
<1>4. CASE job[h] = "clear"
  <2>1. pc[h] \in {"read", "delete", "drop_prv", "drop_cur", "renew", "reply"}
    BY <1>4 DEF Wiping
  <2>2. CASE ReadTable(h) \/ DeleteEntry(h) \/ DeleteFails(h) \/ TableCleared(h)
    BY <1>4, <2>2, TablesWiped
  <2>3. CASE PutDrop(h)
    BY <1>4, <2>3, DropsPut
  <2>4. CASE Renew(h)
    BY <1>1, <2>4 DEF Renew, Goto, Wiping
  <2>5. CASE Reply(h)
    BY <1>1, <2>5 DEF Reply, Wiping
  <2>6. ~ Modify(h)
    BY <1>4, <2>1 DEF Modify, Owed, Wiping
  <2> QED
    BY <2>1, <2>2, <2>3, <2>4, <2>5, <2>6, MemoryFrame
    DEF HandlerStep, MemoryStep, PutPrv, PrvDone, PutCur, CurDone, PutLpm, LpmDone, Finish, PutNeigh
<1> QED
  BY <1>3, <1>4

(* Only /clear creates an installer. *)
Renewing(h) == pc[h] = "renew" => job[h] = "clear"

LEMMA StepRenewing ==
  ASSUME TypeInv, NEW h \in Handlers, Renewing(h), HandlerStep(h)
  PROVE  Renewing(h)'
<1>1. pc \in [Handlers -> Labels]
  BY DEF TypeInv, TypeOK, HandlerTypeOK
<1>2. CASE MemoryStep(h)
  BY <1>2, MemoryFrame DEF Renewing
<1>3. CASE ReadTable(h) \/ DeleteEntry(h) \/ DeleteFails(h) \/ TableCleared(h)
  <2>1. \/ pc' = pc /\ job' = job
        \/ \E label \in {"delete", "read", "drop_prv"} : pc' = [pc EXCEPT ![h] = label]
    BY <1>3 DEF ReadTable, DeleteEntry, DeleteFails, TableCleared, Goto
  <2> QED
    BY <1>1, <2>1 DEF Renewing
<1>4. ASSUME NEW k, job' = job, Proceed(h, k) \/ Abort(h) \/ pc' = pc
      PROVE  Renewing(h)'
  BY <1>1, <1>4 DEF Proceed, Abort, Goto, Renewing
<1>5. CASE PutDrop(h) \/ PutPrv(h) \/ PutCur(h) \/ PutLpm(h) \/ Modify(h) \/ PutNeigh(h)
  <2>1. job' = job
    BY <1>5 DEF PutDrop, PutPrv, PutCur, PutLpm, Modify, PutNeigh
  <2>2. ASSUME NEW t, NEW k, NEW v, Insert(h, t, k, v)
        PROVE  Proceed(h, k) \/ Abort(h) \/ pc' = pc
    BY <2>2 DEF Insert
  <2>3. \E k : Proceed(h, k) \/ Abort(h) \/ pc' = pc
    BY <1>5, <2>2 DEF PutDrop, PutPrv, PutCur, PutLpm, Modify, PutNeigh
  <2> QED
    BY <1>4, <2>1, <2>3
<1>6. CASE \/ PrvDone(h) \/ CurDone(h) \/ LpmDone(h) \/ Finish(h) \/ Renew(h) \/ Reply(h)
  <2>1. \E label \in {"put_cur", "put_lpm", "finish", "reply", "idle"} :
           pc' = [pc EXCEPT ![h] = label]
    BY <1>6 DEF PrvDone, CurDone, LpmDone, Finish, Renew, Reply, Goto
  <2> QED
    BY <1>1, <2>1 DEF Renewing
<1> QED
  BY <1>2, <1>3, <1>5, <1>6 DEF HandlerStep, MemoryStep

WipeInv == QueueInv /\ \A h \in Handlers : Wiping(h) /\ Renewing(h)

LEMMA NextWiping ==
  ASSUME Sequential, Faults = {}, WipeInv, [Next]_vars
  PROVE  WipeInv'
<1>1. QueueInv'
  BY NextQueued DEF WipeInv
<1>2. job \in [Handlers -> {"none", "install", "clear", "neigh"}] /\ pc \in [Handlers -> Labels]
  BY DEF WipeInv, QueueInv, TypeInv, TypeOK, HandlerTypeOK
<1>3. CASE Request
  <2> SUFFICES ASSUME NEW g \in Handlers PROVE Wiping(g)' /\ Renewing(g)'
    BY <1>1 DEF WipeInv
  <2>1. pc[g] = "idle"
    BY <1>3 DEF Request, RequestAllowed, RestAdd, RestDel, RestInstall, RestClear, RestNeighAdd,
                RestNeighDel, StartJob
  <2>2. job[g] # "clear"
    BY <2>1 DEF WipeInv, Wiping
  <2>3. ASSUME job' = job  PROVE Wiping(g)'
    BY <2>2, <2>3 DEF Wiping
  <2>4. ASSUME NEW h \in Handlers, RestClear(h)
        PROVE  Wiping(g)'
    <3>1. /\ job' = [job EXCEPT ![h] = "clear"] /\ pc' = [pc EXCEPT ![h] = "read"]
          /\ tab' = [tab EXCEPT ![h] = "ipv4_lpm"]
      BY <2>4 DEF RestClear, StartJob, Goto
    <3>2. tab \in [Handlers -> Tables]
      BY DEF WipeInv, QueueInv, TypeInv, TypeOK, HandlerTypeOK
    <3>3. job'[g] = "clear" => pc'[g] = "read" /\ tab'[g] = "ipv4_lpm"
      BY <1>2, <2>2, <3>1, <3>2
    <3> QED
      BY <3>3 DEF Wiping
  <2>5. ASSUME NEW h \in Handlers, NEW name, name # "clear", job' = [job EXCEPT ![h] = name]
        PROVE  Wiping(g)'
    BY <1>2, <2>2, <2>5 DEF Wiping
  <2>6. \/ job' = job \/ \E h \in Handlers : RestClear(h)
        \/ \E h \in Handlers : \/ job' = [job EXCEPT ![h] = "install"]
                               \/ job' = [job EXCEPT ![h] = "neigh"]
    BY <1>3 DEF Request, RestAdd, RestDel, RestInstall, RestNeighAdd, RestNeighDel, StartJob,
                handlerVars
  <2>7. Wiping(g)'
    BY <2>3, <2>4, <2>5, <2>6
  <2>8. pc' = pc \/ \E h \in Handlers, label \in {"snapshot", "read", "put_neigh"} :
                      pc' = [pc EXCEPT ![h] = label]
    BY <1>3 DEF Request, RestAdd, RestDel, RestInstall, RestClear, RestNeighAdd, RestNeighDel,
                StartJob, Goto, handlerVars
  <2>9. pc'[g] # "renew"
    BY <1>2, <2>1, <2>8
  <2> QED
    BY <2>7, <2>9 DEF Renewing
<1>4. ASSUME NEW h \in Handlers, HandlerStep(h)
      PROVE  WipeInv'
  <2>1. /\ pc[h] # "idle"
        /\ \A g \in Handlers \ {h} : pc'[g] = pc[g] /\ call'[g] = call[g]
    BY <1>4, StepLocal DEF WipeInv, QueueInv
  <2>2. job' = job \/ job' = [job EXCEPT ![h] = "none"]
    BY <1>4, MemoryFrame
    DEF WipeInv, QueueInv, HandlerStep, MemoryStep, ReadTable, DeleteEntry, DeleteFails,
        TableCleared, PutDrop, PutPrv, PrvDone, PutCur, CurDone, PutLpm, LpmDone, Modify, Finish, PutNeigh, Renew, Reply
  <2>3. ASSUME NEW g \in Handlers \ {h}
        PROVE  Wiping(g)' /\ Renewing(g)'
    <3>1. pc[g] = "idle" /\ pc'[g] = "idle"
      BY <2>1 DEF WipeInv, QueueInv, OneAtATime
    <3>2. job[g] # "clear"
      BY <3>1 DEF WipeInv, Wiping
    <3>3. job'[g] # "clear"
      BY <1>2, <2>2, <3>2
    <3> QED
      BY <3>1, <3>3 DEF Wiping, Renewing
  <2>4. Wiping(h)' /\ Renewing(h)'
    BY <1>4, StepWiping, StepRenewing DEF WipeInv, QueueInv
  <2> QED
    BY <1>1, <2>3, <2>4 DEF WipeInv
<1>5. CASE Restart
  <2>1. \A g \in Handlers : pc'[g] = "idle" /\ job'[g] = "none"
    BY <1>5 DEF Restart
  <2> QED
    BY <1>1, <2>1 DEF WipeInv, Wiping, Renewing
<1>6. CASE UNCHANGED vars
  <2> SUFFICES ASSUME NEW g \in Handlers PROVE Wiping(g)' /\ Renewing(g)'
    BY <1>1 DEF WipeInv
  <2>1. UNCHANGED <<ipv4_lpm, cur_nh, prv_nh, neigh, pc, job, tab, keys, call>>
    BY <1>6 DEF vars, switchVars, handlerVars
  <2>2. Wiping(g) /\ Renewing(g)
    BY DEF WipeInv
  <2>3. Renewing(g)'
    BY <2>1, <2>2 DEF Renewing
  <2>4. Wiping(g)'
    BY <2>1, <2>2 DEF Wiping, EmptyTab, DropOnly, Present, Entries
  <2> QED
    BY <2>3, <2>4
<1> QED
  BY <1>3, <1>4, <1>5, <1>6 DEF Next

(* When requests are sent one at a time and no call fails, /clear leaves   *)
(* nothing in the switch but the two drop entries, whatever the tables     *)
(* held: nothing of an installer outlives it.                              *)
THEOREM ClearsAll ==
  ASSUME Sequential, Faults = {}
  PROVE  Spec => []ClearEmpties
<1>1. Init => WipeInv
  <2> SUFFICES ASSUME Init PROVE WipeInv
    OBVIOUS
  <2>1. \A h \in Handlers : pc[h] = "idle" /\ call[h] = NoCall /\ job[h] = "none"
    BY DEF Init
  <2> QED
    BY <2>1, InitType, InitSteady
    DEF WipeInv, Wiping, Renewing, QueueInv, OneAtATime, Queued, LoopsDone, Owed
<1>2. WipeInv /\ [Next]_vars => WipeInv'
  BY NextWiping
<1>3. WipeInv => ClearEmpties
  <2> SUFFICES ASSUME WipeInv, NEW h \in Handlers, pc[h] = "renew"
               PROVE  /\ \A t \in {"ipv4_lpm", "neigh"} : Present(t) = {}
                      /\ \A t \in {"cur_nh", "prv_nh"} : Present(t) = {0} /\ Entries(t)[0] = Drop
    BY DEF ClearEmpties
  <2>1. Wiping(h) /\ job[h] = "clear"
    BY DEF WipeInv, Renewing
  <2>2. /\ EmptyTab("ipv4_lpm") /\ EmptyTab("neigh")
        /\ DropOnly("prv_nh") /\ DropOnly("cur_nh")
    BY <2>1 DEF Wiping
  <2> QED
    BY <2>2 DEF EmptyTab, DropOnly
<1> QED
  BY <1>1, <1>2, <1>3, PTL DEF Spec
=============================================================================
