------------------------------ MODULE RouteLoops ------------------------------
(***************************************************************************)
(* The loops of process_routes (tools/c4bmv2.py) at the grain at which     *)
(* Python switches threads.  Controller takes an iteration in one step, of *)
(* which it leaves the outcome open if another handler has changed the     *)
(* list; here "route in cur_routes", append and remove are apart, and so   *)
(* are the comparisons of the first and of the last: Route.__eq__ is       *)
(* Python code, which another thread may interrupt amid a scan.            *)
(*                                                                         *)
(* One installer, no /clear; routes are queued while no install runs.      *)
(* Controller has requests at any moment, and the calls to the switch.     *)
(***************************************************************************)
EXTENDS Integers, SequencesExt

CONSTANTS
  Handlers,      \* threads that can serve /install at the same time
  Routes,
  NoRoute,       \* nothing read yet
  MaxQueue,      \* bound: length of add_queue and of del_queue
  MaxRoutes      \* bound: length of cur_routes when a route is queued

VARIABLES
  add_queue, del_queue, cur_routes, prv_routes,  \* attributes of the installer
  pc,
  todo,          \* routes that the running loop over a queue has not done
  at, item,      \* a scan of cur_routes: the index, and the Route read there
  alone          \* history: no other install has run since this one started

queues == <<add_queue, del_queue>>
vars == <<queues, cur_routes, prv_routes, pc, todo, at, item, alone>>

ASSUME RouteLoopsAssumption ==
  Handlers # {} /\ NoRoute \notin Routes /\ MaxQueue \in Nat /\ MaxRoutes \in Nat

Init ==
  /\ add_queue = <<>> /\ del_queue = <<>> /\ cur_routes = <<>> /\ prv_routes = <<>>
  /\ pc = [h \in Handlers |-> "idle"]
  /\ todo = [h \in Handlers |-> <<>>]
  /\ at = [h \in Handlers |-> 0]
  /\ item = [h \in Handlers |-> NoRoute]
  /\ alone = [h \in Handlers |-> TRUE]

Idle == \A h \in Handlers : pc[h] = "idle"

(* /add and /del: _queue_append. *)
RestAdd(r) ==
  /\ Idle /\ Len(add_queue) < MaxQueue /\ Len(cur_routes) < MaxRoutes
  /\ r \notin Range(add_queue)
  /\ add_queue' = Append(add_queue, r)
  /\ UNCHANGED <<del_queue, cur_routes, prv_routes, pc, todo, at, item, alone>>

RestDel(r) ==
  /\ Idle /\ Len(del_queue) < MaxQueue
  /\ r \notin Range(del_queue)
  /\ del_queue' = Append(del_queue, r)
  /\ UNCHANGED <<add_queue, cur_routes, prv_routes, pc, todo, at, item, alone>>

-----------------------------------------------------------------------------
Goto(h, label) == pc' = [pc EXCEPT ![h] = label]

(* A scan starts before the first element. *)
Rewind(h) ==
  /\ at' = [at EXCEPT ![h] = 0]
  /\ item' = [item EXCEPT ![h] = NoRoute]

Wanted(h) == Head(todo[h])
Scanning(h) == pc[h] \in {"adds", "dels", "remove"} /\ todo[h] # <<>>
Equal(h) == at[h] > 0 /\ item[h] = Wanted(h)

(* The length is read anew for each element: the list may have changed.    *)
Found(h) == Scanning(h) /\ Equal(h)
NotFound(h) == Scanning(h) /\ ~ Equal(h) /\ at[h] >= Len(cur_routes)

(* The next element is read, and then compared, by Route.__eq__. *)
ReadItem(h) ==
  /\ Scanning(h) /\ ~ Equal(h) /\ at[h] < Len(cur_routes)
  /\ at' = [at EXCEPT ![h] = @ + 1]
  /\ item' = [item EXCEPT ![h] = cur_routes[at[h] + 1]]
  /\ UNCHANGED <<queues, cur_routes, prv_routes, pc, todo, alone>>

(* /install. *)
Install(h) ==
  /\ pc[h] = "idle"
  /\ prv_routes' = cur_routes
  /\ todo' = [todo EXCEPT ![h] = add_queue]
  /\ Goto(h, "adds") /\ Rewind(h)
  /\ alone' = [g \in Handlers |-> IF g = h THEN Idle ELSE FALSE]
  /\ UNCHANGED <<queues, cur_routes>>

NextRoute(h) == todo' = [todo EXCEPT ![h] = Tail(@)] /\ Rewind(h)

(* Mutant of AddPresent: a route that is there is added again. *)
AddPresentAnyway(h) ==
  /\ pc[h] = "adds" /\ Found(h)
  /\ Goto(h, "append") /\ Rewind(h)
  /\ UNCHANGED <<queues, cur_routes, prv_routes, todo, alone>>

AddPresent(h) ==
  /\ pc[h] = "adds" /\ Found(h)
  /\ NextRoute(h)
  /\ UNCHANGED <<queues, cur_routes, prv_routes, pc, alone>>

AddAbsent(h) ==
  /\ pc[h] = "adds" /\ NotFound(h)
  /\ Goto(h, "append") /\ Rewind(h)
  /\ UNCHANGED <<queues, cur_routes, prv_routes, todo, alone>>

AppendRoute(h) ==
  /\ pc[h] = "append"
  /\ cur_routes' = Append(cur_routes, Wanted(h))
  /\ Goto(h, "adds") /\ NextRoute(h)
  /\ UNCHANGED <<queues, prv_routes, alone>>

AddsDone(h) ==
  /\ pc[h] = "adds" /\ todo[h] = <<>>
  /\ todo' = [todo EXCEPT ![h] = del_queue]
  /\ Goto(h, "dels")
  /\ UNCHANGED <<queues, cur_routes, prv_routes, at, item, alone>>

(* Mutant of DelAbsent: remove is called for a route that is not there. *)
DelAbsentAnyway(h) ==
  /\ pc[h] = "dels" /\ NotFound(h)
  /\ Goto(h, "remove") /\ Rewind(h)
  /\ UNCHANGED <<queues, cur_routes, prv_routes, todo, alone>>

DelAbsent(h) ==
  /\ pc[h] = "dels" /\ NotFound(h)
  /\ NextRoute(h)
  /\ UNCHANGED <<queues, cur_routes, prv_routes, pc, alone>>

(* list.remove scans the list once more. *)
DelPresent(h) ==
  /\ pc[h] = "dels" /\ Found(h)
  /\ Goto(h, "remove") /\ Rewind(h)
  /\ UNCHANGED <<queues, cur_routes, prv_routes, todo, alone>>

(* list.remove takes out what is at the index by now; past the end nothing. *)
RemoveRoute(h) ==
  /\ pc[h] = "remove" /\ Found(h)
  /\ cur_routes' = IF at[h] <= Len(cur_routes) THEN RemoveAt(cur_routes, at[h]) ELSE cur_routes
  /\ Goto(h, "dels") /\ NextRoute(h)
  /\ UNCHANGED <<queues, prv_routes, alone>>

(* Mutant of RemoveFails: remove is tried again. *)
RemoveFailsRetries(h) ==
  /\ pc[h] = "remove" /\ NotFound(h)
  /\ Rewind(h)
  /\ UNCHANGED <<queues, cur_routes, prv_routes, pc, todo, alone>>

(* ValueError: 500, and the queues stay as they are. *)
RemoveFails(h) ==
  /\ pc[h] = "remove" /\ NotFound(h)
  /\ Goto(h, "idle") /\ Rewind(h)
  /\ todo' = [todo EXCEPT ![h] = <<>>]
  /\ UNCHANGED <<queues, cur_routes, prv_routes, alone>>

DelsDone(h) ==
  /\ pc[h] = "dels" /\ todo[h] = <<>>
  /\ Goto(h, "finish")
  /\ UNCHANGED <<queues, cur_routes, prv_routes, todo, at, item, alone>>

(* The switch is written; if it refuses, the queues are kept as well. *)
Finish(h) ==
  /\ pc[h] = "finish"
  /\ \/ add_queue' = <<>> /\ del_queue' = <<>>
     \/ UNCHANGED queues
  /\ Goto(h, "idle")
  /\ UNCHANGED <<cur_routes, prv_routes, todo, at, item, alone>>

HandlerStep(h) ==
  \/ ReadItem(h) \/ AddPresent(h) \/ AddAbsent(h) \/ AppendRoute(h) \/ AddsDone(h)
  \/ DelAbsent(h) \/ DelPresent(h) \/ RemoveRoute(h) \/ RemoveFails(h) \/ DelsDone(h)
  \/ Finish(h)

Next ==
  \/ \E r \in Routes : RestAdd(r) \/ RestDel(r)
  \/ \E h \in Handlers : Install(h) \/ HandlerStep(h)

Spec == Init /\ [][Next]_vars

(* Threads that serve a request are scheduled; nothing makes requests come. *)
FairSpec == Spec /\ \A h \in Handlers : WF_vars(HandlerStep(h))

-----------------------------------------------------------------------------
(* What an iteration does where no other thread comes in between, which is *)
(* what Controller has it do if nobody disturbs it; and the loops of such  *)
(* iterations, over the first n routes of a queue.                         *)
Added(list, r) == IF r \in Range(list) THEN list ELSE Append(list, r)

AfterAdds(list, queue, n) ==
  LET after[k \in 0 .. n] == IF k = 0 THEN list ELSE Added(after[k - 1], queue[k])
  IN after[n]

AfterDels(list, queue, n) ==
  LET after[k \in 0 .. n] == IF k = 0 THEN list ELSE RemoveFirst(after[k - 1], queue[k])
  IN after[n]

AllAdded(list) == AfterAdds(list, add_queue, Len(add_queue))

Worked(list) == AfterDels(AllAdded(list), del_queue, Len(del_queue))

(* An install that no other overlapped has made of the previous routes, in *)
(* the order of the list, just what iterations in one step make of them:   *)
(* also of a list that an overlap before it has left with a route twice.   *)
AsAtomic ==
  \A h \in Handlers : pc[h] = "finish" /\ alone[h] => cur_routes = Worked(prv_routes)

(* "if route in self.cur_routes" is there to keep list.remove from raising *)
(* ValueError: only an overlap can make it fail, whatever the queues hold. *)
RemoveFailsOverlapped == [][\A h \in Handlers : RemoveFails(h) => ~ alone[h]]_vars

(* The scans end although other threads lengthen and shorten the list: an  *)
(* install is answered, be it with a ValueError.                           *)
Answered == \A h \in Handlers : pc[h] # "idle" ~> pc[h] = "idle"

(* What the /del requests asked for that the running installs work on.     *)
ToDelete == Range(del_queue) \cup UNION {Range(todo[h]) : h \in {h \in Handlers : pc[h] = "remove"}}

(* c4bmv2-readme.md: "/install deploy queued routes to be appended or      *)
(* deleted": no route leaves cur_routes that no /del has queued.           *)
OnlyQueuedLeave ==
  [][\A r \in Routes :
       r \in Range(cur_routes) /\ r \notin Range(cur_routes') => r \in ToDelete]_vars
=============================================================================
