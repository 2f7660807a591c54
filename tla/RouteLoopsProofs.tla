-------------------------- MODULE RouteLoopsProofs --------------------------
(***************************************************************************)
(* What an install that no other overlaps makes of cur_routes, scan by     *)
(* scan: what whole iterations make of it, one after the other, for queues *)
(* and lists of every length and any number of threads.                    *)
(***************************************************************************)
EXTENDS RouteLoops, SequenceTheorems, WellFoundedInduction, TLAPS

-----------------------------------------------------------------------------
(***************************************************************************)
(* Loops over a queue.  Induction goes by the least counterexample.        *)
(***************************************************************************)
LEMMA LeastElement ==
  ASSUME NEW S \in SUBSET Nat, S # {}
  PROVE  \E m \in S : \A k \in S : m <= k
<1>1. PICK m \in S : \A k \in S : ~ (<<k, m>> \in OpToRel(<, Nat))
  BY WFMin, NatLessThanWellFounded
<1>2. \A k \in S : <<k, m>> \in OpToRel(<, Nat) <=> k < m
  BY DEF OpToRel
<1>3. \A k \in S : ~ (k < m)
  BY <1>1, <1>2, Zenon
<1> HIDE <1>1, <1>2
<1> QED
  BY <1>3

(* A set of naturals that has 0 and, up to N, the successors of its        *)
(* elements.                                                               *)
LEMMA NatSet ==
  ASSUME NEW S \in SUBSET Nat, NEW N \in Nat,
         0 \in S, \A n \in S : n < N => n + 1 \in S
  PROVE  0 .. N \subseteq S
<1> SUFFICES ASSUME (0 .. N) \ S # {} PROVE FALSE
  OBVIOUS
<1>1. PICK m \in (0 .. N) \ S : \A k \in (0 .. N) \ S : m <= k
  <2>1. (0 .. N) \ S \in SUBSET Nat
    OBVIOUS
  <2> QED
    BY <2>1, LeastElement
<1>2. m - 1 \in S /\ m - 1 < N
  BY <1>1
<1> QED
  BY <1>1, <1>2

(* s has the list before the loop and after each of n iterations; step is  *)
(* what an iteration makes of the list and its element of the queue.       *)
Iterates(step, list, queue, n, s) ==
  s = [k \in 0 .. n |-> IF k = 0 THEN list ELSE step[<<s[k - 1], queue[k]>>]]

LEMMA LoopExists ==
  ASSUME NEW step, NEW list, NEW queue, NEW N \in Nat
  PROVE  \A n \in 0 .. N : \E s : Iterates(step, list, queue, n, s)
<1> DEFINE S == {n \in Nat : \E s : Iterates(step, list, queue, n, s)}
<1>1. 0 \in S
  <2>1. Iterates(step, list, queue, 0, [k \in 0 .. 0 |-> list])
    BY DEF Iterates
  <2> QED
    BY <2>1
<1>2. ASSUME NEW n \in S  PROVE n + 1 \in S
  <2>1. PICK s : Iterates(step, list, queue, n, s)
    BY <1>2
  <2> DEFINE new == step[<<s[n], queue[n + 1]>>]
             t == [k \in 0 .. n + 1 |-> IF k = n + 1 THEN new ELSE s[k]]
             u == [k \in 0 .. n + 1 |->
                     IF k = 0 THEN list ELSE step[<<t[k - 1], queue[k]>>]]
  <2>2. \A k \in 0 .. n : s[k] = IF k = 0 THEN list ELSE step[<<s[k - 1], queue[k]>>]
    BY <2>1 DEF Iterates
  <2>3. ASSUME NEW k \in 0 .. n + 1  PROVE t[k] = u[k]
    <3>1. CASE k = n + 1
      <4>1. k - 1 = n /\ k # 0 /\ n \in 0 .. n + 1 /\ n # n + 1
        BY <3>1
      <4>2. t[k] = new /\ t[n] = s[n]
        BY <3>1, <4>1
      <4>3. u[k] = step[<<t[n], queue[n + 1]>>]
        BY <3>1, <4>1
      <4> QED
        BY <4>2, <4>3
    <3>2. CASE k = 0
      <4>1. 0 \in 0 .. n /\ 0 \in 0 .. n + 1 /\ 0 # n + 1
        OBVIOUS
      <4>2. s[0] = list
        BY <2>2, <4>1
      <4>3. t[0] = s[0] /\ u[0] = list
        BY <4>1
      <4> QED
        BY <3>2, <4>2, <4>3
    <3>3. CASE k \in 1 .. n
      <4>1. k - 1 \in 0 .. n /\ k # n + 1 /\ k - 1 # n + 1 /\ k # 0
        BY <3>3
      <4>2. t[k] = s[k] /\ t[k - 1] = s[k - 1]
        BY <4>1
      <4> QED
        BY <2>2, <4>1, <4>2
    <3> QED
      BY <3>1, <3>2, <3>3
  <2>4. t = u
    BY <2>3
  <2>5. Iterates(step, list, queue, n + 1, t)
    BY <2>4, Zenon DEF Iterates
  <2>6. n + 1 \in Nat
    OBVIOUS
  <2> HIDE DEF t
  <2> QED
    BY <2>5, <2>6
<1>3. S \in SUBSET Nat
  OBVIOUS
<1> HIDE DEF S
<1>4. 0 .. N \subseteq S
  BY <1>1, <1>2, <1>3, NatSet
<1> QED
  BY <1>4 DEF S

(* The lists do not depend on how many there are. *)
LEMMA LoopsAgree ==
  ASSUME NEW step, NEW list, NEW queue, NEW n \in Nat, NEW s, NEW t,
         Iterates(step, list, queue, n, s), Iterates(step, list, queue, n + 1, t)
  PROVE  s[n] = t[n]
<1>1. /\ \A k \in 0 .. n : s[k] = IF k = 0 THEN list ELSE step[<<s[k - 1], queue[k]>>]
      /\ \A k \in 0 .. n + 1 : t[k] = IF k = 0 THEN list ELSE step[<<t[k - 1], queue[k]>>]
  BY DEF Iterates
<1> DEFINE S == {k \in Nat : k <= n => s[k] = t[k]}
<1>2. 0 \in S
  <2>1. 0 \in 0 .. n /\ 0 \in 0 .. n + 1
    OBVIOUS
  <2>2. s[0] = list /\ t[0] = list
    BY <1>1, <2>1
  <2> QED
    BY <2>2
<1>3. ASSUME NEW k \in S  PROVE k + 1 \in S
  <2> SUFFICES ASSUME k + 1 <= n  PROVE s[k + 1] = t[k + 1]
    OBVIOUS
  <2>1. k + 1 \in 0 .. n /\ k + 1 \in 0 .. n + 1 /\ k + 1 # 0 /\ (k + 1) - 1 = k
    OBVIOUS
  <2>2. /\ s[k + 1] = step[<<s[k], queue[k + 1]>>]
        /\ t[k + 1] = step[<<t[k], queue[k + 1]>>]
    BY <1>1, <2>1
  <2>3. s[k] = t[k]
    BY <1>3
  <2> QED
    BY <2>2, <2>3
<1>4. S \in SUBSET Nat
  OBVIOUS
<1>5. 0 .. n \subseteq S
  <2> HIDE DEF S
  <2> QED
    BY <1>2, <1>3, <1>4, NatSet
<1> QED
  BY <1>5

(* Step by step, for a step that makes lists of routes of lists of routes. *)
AfterLoop(step, list, queue, n) == (CHOOSE s : Iterates(step, list, queue, n, s))[n]

LEMMA LoopSteps ==
  ASSUME NEW step \in [Seq(Routes) \X Routes -> Seq(Routes)],
         NEW list \in Seq(Routes), NEW queue \in Seq(Routes)
  PROVE  /\ AfterLoop(step, list, queue, 0) = list
         /\ \A n \in 0 .. Len(queue) : AfterLoop(step, list, queue, n) \in Seq(Routes)
         /\ \A n \in 0 .. Len(queue) - 1 :
              AfterLoop(step, list, queue, n + 1)
                = step[<<AfterLoop(step, list, queue, n), queue[n + 1]>>]
<1> DEFINE f(n) == CHOOSE s : Iterates(step, list, queue, n, s)
           after(n) == AfterLoop(step, list, queue, n)
<1>0. Len(queue) \in Nat
  OBVIOUS
<1>1. ASSUME NEW n \in 0 .. Len(queue)
      PROVE  Iterates(step, list, queue, n, f(n)) /\ after(n) = f(n)[n]
  <2>1. \E s : Iterates(step, list, queue, n, s)
    BY <1>0, LoopExists
  <2> QED
    BY <2>1, Zenon DEF AfterLoop
<1> HIDE DEF f, after
<1>2. after(0) = list
  <2>1. 0 \in 0 .. Len(queue)
    BY <1>0
  <2>2. Iterates(step, list, queue, 0, f(0)) /\ after(0) = f(0)[0]
    BY <1>1, <2>1
  <2>3. f(0)[0] = list
    BY <2>2 DEF Iterates
  <2> QED
    BY <2>2, <2>3
<1>3. ASSUME NEW n \in 0 .. Len(queue) - 1
      PROVE  after(n + 1) = step[<<after(n), queue[n + 1]>>]
  <2>1. n \in 0 .. Len(queue) /\ n + 1 \in 0 .. Len(queue) /\ n \in Nat
    BY <1>0
  <2>2. Iterates(step, list, queue, n, f(n)) /\ Iterates(step, list, queue, n + 1, f(n + 1))
    BY <1>1, <2>1
  <2>3. after(n) = f(n)[n] /\ after(n + 1) = f(n + 1)[n + 1]
    BY <1>1, <2>1
  <2>4. f(n)[n] = f(n + 1)[n]
    BY <2>1, <2>2, LoopsAgree
  <2>5. f(n + 1)[n + 1] = step[<<f(n + 1)[n], queue[n + 1]>>]
    <3>1. n + 1 \in 0 .. n + 1 /\ n + 1 # 0 /\ (n + 1) - 1 = n
      BY <2>1
    <3> QED
      BY <2>2, <3>1 DEF Iterates
  <2> QED
    BY <2>3, <2>4, <2>5
<1>4. ASSUME NEW n \in 0 .. Len(queue)  PROVE after(n) \in Seq(Routes)
  <2> DEFINE U == {k \in Nat : k <= Len(queue) => after(k) \in Seq(Routes)}
  <2>1. 0 \in U
    BY <1>2
  <2>2. ASSUME NEW k \in U, k < Len(queue)  PROVE k + 1 \in U
    <3>1. k \in 0 .. Len(queue) - 1 /\ after(k) \in Seq(Routes) /\ queue[k + 1] \in Routes
      BY <1>0, <2>2
    <3>2. step[<<after(k), queue[k + 1]>>] \in Seq(Routes)
      BY <3>1
    <3>3. after(k + 1) \in Seq(Routes)
      BY <1>3, <3>1, <3>2
    <3> QED
      BY <3>3
  <2>3. U \in SUBSET Nat
    OBVIOUS
  <2>4. 0 .. Len(queue) \subseteq U
    <3> HIDE DEF U
    <3> QED
      BY <1>0, <2>1, <2>2, <2>3, NatSet
  <2> QED
    BY <2>4
<1> QED
  BY <1>2, <1>3, <1>4 DEF after

-----------------------------------------------------------------------------
(***************************************************************************)
(* Lists and what an iteration makes of them.                              *)
(***************************************************************************)
LEMMA RangeOfList ==
  ASSUME NEW list \in Seq(Routes), NEW r
  PROVE  r \in Range(list) <=> \E x \in 1 .. Len(list) : list[x] = r
BY DEF Range

LEMMA AddedType ==
  ASSUME NEW list \in Seq(Routes), NEW r \in Routes
  PROVE  Added(list, r) \in Seq(Routes)
BY DEF Added

LEMMA RemoveAtType ==
  ASSUME NEW list \in Seq(Routes), NEW x \in 1 .. Len(list)
  PROVE  RemoveAt(list, x) \in Seq(Routes)
<1>1. \A y \in 1 .. Len(list) : list[y] \in Routes
  OBVIOUS
<1>2. SubSeq(list, 1, x - 1) \in Seq(Routes)
  BY <1>1, SubSeqProperties
<1>3. SubSeq(list, x + 1, Len(list)) \in Seq(Routes)
  BY <1>1, SubSeqProperties
<1> QED
  BY <1>2, <1>3 DEF RemoveAt

(* list.remove takes out the first that is equal. *)
LEMMA RemoveFirstIsRemoveAt ==
  ASSUME NEW list \in Seq(Routes), NEW x \in 1 .. Len(list),
         \A y \in 1 .. x - 1 : list[y] # list[x]
  PROVE  RemoveFirst(list, list[x]) = RemoveAt(list, x)
<1> DEFINE I == {i \in 1 .. Len(list) : list[i] = list[x]}
<1>1. x \in I /\ \A i \in I : x <= i
  OBVIOUS
<1>2. \A m \in I : (\A i \in I : m <= i) => m = x
  <2>1. I \subseteq Int
    OBVIOUS
  <2> HIDE DEF I
  <2> QED
    BY <1>1, <2>1
<1>3. Min(I) = x
  <2> HIDE DEF I
  <2> QED
    BY <1>1, <1>2 DEF Min
<1>4. SelectInSeq(list, LAMBDA v : v = list[x]) = x
  BY <1>1, <1>3 DEF SelectInSeq
<1> QED
  BY <1>4 DEF RemoveFirst

LEMMA RemoveFirstAbsent ==
  ASSUME NEW list \in Seq(Routes), NEW r, r \notin Range(list)
  PROVE  RemoveFirst(list, r) = list
BY RangeOfList DEF RemoveFirst

LEMMA RemoveFirstType ==
  ASSUME NEW list \in Seq(Routes), NEW r
  PROVE  RemoveFirst(list, r) \in Seq(Routes)
<1>1. CASE r \notin Range(list)
  BY <1>1, RemoveFirstAbsent
<1>2. CASE r \in Range(list)
  <2> DEFINE I == {i \in 1 .. Len(list) : list[i] = r}
  <2>1. I # {} /\ I \in SUBSET Nat
    BY <1>2, RangeOfList
  <2>2. PICK x \in I : \A i \in I : x <= i
    <3> HIDE DEF I
    <3> QED
      BY <2>1, LeastElement
  <2>3. x \in 1 .. Len(list) /\ list[x] = r /\ \A y \in 1 .. x - 1 : list[y] # r
    BY <2>2
  <2>4. RemoveFirst(list, r) = RemoveAt(list, x)
    BY <2>3, RemoveFirstIsRemoveAt
  <2> QED
    BY <2>3, <2>4, RemoveAtType
<1> QED
  BY <1>1, <1>2

(* The loops of RouteLoops, iteration by iteration. *)
IsAdds(list, queue, n, s) ==
  s = [k \in 0 .. n |-> IF k = 0 THEN list ELSE Added(s[k - 1], queue[k])]

LEMMA AddsSteps ==
  ASSUME NEW list \in Seq(Routes), NEW queue \in Seq(Routes)
  PROVE  /\ AfterAdds(list, queue, 0) = list
         /\ \A n \in 0 .. Len(queue) : AfterAdds(list, queue, n) \in Seq(Routes)
         /\ \A n \in 0 .. Len(queue) - 1 :
              AfterAdds(list, queue, n + 1) = Added(AfterAdds(list, queue, n), queue[n + 1])
<1> DEFINE step == [p \in Seq(Routes) \X Routes |-> Added(p[1], p[2])]
           after(n) == AfterLoop(step, list, queue, n)
           f(n) == CHOOSE s : IsAdds(list, queue, n, s)
<1>0. Len(queue) \in Nat
  OBVIOUS
<1>1. step \in [Seq(Routes) \X Routes -> Seq(Routes)]
  BY AddedType
<1>2. \A l \in Seq(Routes), r \in Routes : step[<<l, r>>] = Added(l, r)
  OBVIOUS
<1> HIDE DEF step
<1>3. /\ after(0) = list
      /\ \A n \in 0 .. Len(queue) : after(n) \in Seq(Routes)
      /\ \A n \in 0 .. Len(queue) - 1 : after(n + 1) = step[<<after(n), queue[n + 1]>>]
  BY <1>1, LoopSteps
<1> HIDE DEF after
<1>4. \A k \in 1 .. Len(queue) : after(k) = Added(after(k - 1), queue[k])
  <2> TAKE k \in 1 .. Len(queue)
  <2>1. k - 1 \in 0 .. Len(queue) - 1 /\ k - 1 \in 0 .. Len(queue) /\ (k - 1) + 1 = k
    OBVIOUS
  <2>2. after(k) = step[<<after(k - 1), queue[k]>>]
    BY <1>3, <2>1
  <2>3. after(k - 1) \in Seq(Routes) /\ queue[k] \in Routes
    BY <1>3, <2>1
  <2> QED
    BY <1>2, <2>2, <2>3
<1>5. ASSUME NEW n \in 0 .. Len(queue)
      PROVE  AfterAdds(list, queue, n) = after(n)
  <2> DEFINE s == [k \in 0 .. n |-> after(k)]
             t == [k \in 0 .. n |-> IF k = 0 THEN list ELSE Added(s[k - 1], queue[k])]
  <2>1. ASSUME NEW k \in 0 .. n  PROVE s[k] = t[k]
    <3>1. CASE k = 0
      BY <1>3, <3>1
    <3>2. CASE k # 0
      <4>1. k \in 1 .. Len(queue) /\ k - 1 \in 0 .. n
        BY <3>2
      <4>2. s[k - 1] = after(k - 1) /\ s[k] = after(k)
        BY <4>1
      <4> QED
        BY <1>4, <3>2, <4>1, <4>2
    <3> QED
      BY <3>1, <3>2
  <2>2. s = t
    BY <2>1
  <2>3. IsAdds(list, queue, n, s)
    BY <2>2, Zenon DEF IsAdds
  <2>4. IsAdds(list, queue, n, f(n)) /\ AfterAdds(list, queue, n) = f(n)[n]
    BY <2>3, Zenon DEF AfterAdds, IsAdds
  <2> HIDE DEF f
  <2>5. \A k \in 0 .. n : f(n)[k] = IF k = 0 THEN list ELSE Added(f(n)[k - 1], queue[k])
    BY <2>4 DEF IsAdds
  <2> DEFINE U == {k \in Nat : k <= n => f(n)[k] = after(k)}
  <2>6. 0 \in U
    <3>1. 0 \in 0 .. n
      OBVIOUS
    <3>2. f(n)[0] = list
      BY <2>5, <3>1
    <3> QED
      BY <1>3, <3>2
  <2>7. ASSUME NEW k \in U, k < n  PROVE k + 1 \in U
    <3>1. /\ k + 1 \in 0 .. n /\ k + 1 # 0 /\ (k + 1) - 1 = k
          /\ k + 1 \in 1 .. Len(queue) /\ f(n)[k] = after(k)
      BY <2>7
    <3>2. f(n)[k + 1] = Added(f(n)[k], queue[k + 1])
      BY <2>5, <3>1
    <3>3. after(k + 1) = Added(after(k), queue[k + 1])
      BY <1>4, <3>1
    <3> QED
      BY <3>1, <3>2, <3>3
  <2>8. U \in SUBSET Nat
    OBVIOUS
  <2>9. 0 .. n \subseteq U
    <3> HIDE DEF U
    <3> QED
      BY <2>6, <2>7, <2>8, NatSet
  <2> QED
    BY <2>4, <2>9
<1>6. ASSUME NEW n \in 0 .. Len(queue) - 1
      PROVE  AfterAdds(list, queue, n + 1) = Added(AfterAdds(list, queue, n), queue[n + 1])
  <2>1. /\ n \in 0 .. Len(queue) /\ n + 1 \in 0 .. Len(queue)
        /\ n + 1 \in 1 .. Len(queue) /\ (n + 1) - 1 = n
    OBVIOUS
  <2> QED
    BY <1>4, <1>5, <2>1
<1>7. 0 \in 0 .. Len(queue)
  BY <1>0
<1> QED
  BY <1>3, <1>5, <1>6, <1>7

IsDels(list, queue, n, s) ==
  s = [k \in 0 .. n |-> IF k = 0 THEN list ELSE RemoveFirst(s[k - 1], queue[k])]

LEMMA DelsSteps ==
  ASSUME NEW list \in Seq(Routes), NEW queue \in Seq(Routes)
  PROVE  /\ AfterDels(list, queue, 0) = list
         /\ \A n \in 0 .. Len(queue) : AfterDels(list, queue, n) \in Seq(Routes)
         /\ \A n \in 0 .. Len(queue) - 1 :
              AfterDels(list, queue, n + 1) = RemoveFirst(AfterDels(list, queue, n), queue[n + 1])
<1> DEFINE step == [p \in Seq(Routes) \X Routes |-> RemoveFirst(p[1], p[2])]
           after(n) == AfterLoop(step, list, queue, n)
           f(n) == CHOOSE s : IsDels(list, queue, n, s)
<1>0. Len(queue) \in Nat
  OBVIOUS
<1>1. step \in [Seq(Routes) \X Routes -> Seq(Routes)]
  BY RemoveFirstType
<1>2. \A l \in Seq(Routes), r \in Routes : step[<<l, r>>] = RemoveFirst(l, r)
  OBVIOUS
<1> HIDE DEF step
<1>3. /\ after(0) = list
      /\ \A n \in 0 .. Len(queue) : after(n) \in Seq(Routes)
      /\ \A n \in 0 .. Len(queue) - 1 : after(n + 1) = step[<<after(n), queue[n + 1]>>]
  BY <1>1, LoopSteps
<1> HIDE DEF after
<1>4. \A k \in 1 .. Len(queue) : after(k) = RemoveFirst(after(k - 1), queue[k])
  <2> TAKE k \in 1 .. Len(queue)
  <2>1. k - 1 \in 0 .. Len(queue) - 1 /\ k - 1 \in 0 .. Len(queue) /\ (k - 1) + 1 = k
    OBVIOUS
  <2>2. after(k) = step[<<after(k - 1), queue[k]>>]
    BY <1>3, <2>1
  <2>3. after(k - 1) \in Seq(Routes) /\ queue[k] \in Routes
    BY <1>3, <2>1
  <2> QED
    BY <1>2, <2>2, <2>3
<1>5. ASSUME NEW n \in 0 .. Len(queue)
      PROVE  AfterDels(list, queue, n) = after(n)
  <2> DEFINE s == [k \in 0 .. n |-> after(k)]
             t == [k \in 0 .. n |-> IF k = 0 THEN list ELSE RemoveFirst(s[k - 1], queue[k])]
  <2>1. ASSUME NEW k \in 0 .. n  PROVE s[k] = t[k]
    <3>1. CASE k = 0
      BY <1>3, <3>1
    <3>2. CASE k # 0
      <4>1. k \in 1 .. Len(queue) /\ k - 1 \in 0 .. n
        BY <3>2
      <4>2. s[k - 1] = after(k - 1) /\ s[k] = after(k)
        BY <4>1
      <4> QED
        BY <1>4, <3>2, <4>1, <4>2
    <3> QED
      BY <3>1, <3>2
  <2>2. s = t
    BY <2>1
  <2>3. IsDels(list, queue, n, s)
    BY <2>2, Zenon DEF IsDels
  <2>4. IsDels(list, queue, n, f(n)) /\ AfterDels(list, queue, n) = f(n)[n]
    BY <2>3, Zenon DEF AfterDels, IsDels
  <2> HIDE DEF f
  <2>5. \A k \in 0 .. n : f(n)[k] = IF k = 0 THEN list ELSE RemoveFirst(f(n)[k - 1], queue[k])
    BY <2>4 DEF IsDels
  <2> DEFINE U == {k \in Nat : k <= n => f(n)[k] = after(k)}
  <2>6. 0 \in U
    <3>1. 0 \in 0 .. n
      OBVIOUS
    <3>2. f(n)[0] = list
      BY <2>5, <3>1
    <3> QED
      BY <1>3, <3>2
  <2>7. ASSUME NEW k \in U, k < n  PROVE k + 1 \in U
    <3>1. /\ k + 1 \in 0 .. n /\ k + 1 # 0 /\ (k + 1) - 1 = k
          /\ k + 1 \in 1 .. Len(queue) /\ f(n)[k] = after(k)
      BY <2>7
    <3>2. f(n)[k + 1] = RemoveFirst(f(n)[k], queue[k + 1])
      BY <2>5, <3>1
    <3>3. after(k + 1) = RemoveFirst(after(k), queue[k + 1])
      BY <1>4, <3>1
    <3> QED
      BY <3>1, <3>2, <3>3
  <2>8. U \in SUBSET Nat
    OBVIOUS
  <2>9. 0 .. n \subseteq U
    <3> HIDE DEF U
    <3> QED
      BY <2>6, <2>7, <2>8, NatSet
  <2> QED
    BY <2>4, <2>9
<1>6. ASSUME NEW n \in 0 .. Len(queue) - 1
      PROVE  AfterDels(list, queue, n + 1) = RemoveFirst(AfterDels(list, queue, n), queue[n + 1])
  <2>1. /\ n \in 0 .. Len(queue) /\ n + 1 \in 0 .. Len(queue)
        /\ n + 1 \in 1 .. Len(queue) /\ (n + 1) - 1 = n
    OBVIOUS
  <2> QED
    BY <1>4, <1>5, <2>1
<1>7. 0 \in 0 .. Len(queue)
  BY <1>0
<1> QED
  BY <1>3, <1>5, <1>6, <1>7

(* What is left of a queue after n iterations. *)
Remaining(queue, n) == SubSeq(queue, n + 1, Len(queue))

LEMMA RemainingAll ==
  ASSUME NEW queue \in Seq(Routes)
  PROVE  Remaining(queue, 0) = queue
BY SubSeqFull DEF Remaining

LEMMA RemainingNext ==
  ASSUME NEW queue \in Seq(Routes), NEW n \in 0 .. Len(queue), Remaining(queue, n) # <<>>
  PROVE  /\ n \in 0 .. Len(queue) - 1
         /\ Head(Remaining(queue, n)) = queue[n + 1]
         /\ Tail(Remaining(queue, n)) = Remaining(queue, n + 1)
<1>0. Len(queue) \in Nat
  OBVIOUS
<1>1. n # Len(queue)
  <2> SUFFICES ASSUME n = Len(queue) PROVE FALSE
    OBVIOUS
  <2>1. n + 1 \in Int /\ Len(queue) \in Int /\ Len(queue) < n + 1
    BY <1>0
  <2>2. Remaining(queue, n) = <<>>
    BY <2>1, SubSeqEmpty, Zenon DEF Remaining
  <2> QED
    BY <2>2
<1>2. n + 1 \in 1 .. Len(queue) /\ Len(queue) \in n + 1 .. Len(queue)
  BY <1>0, <1>1
<1> QED
  BY <1>0, <1>1, <1>2, HeadTailOfSubSeq DEF Remaining

LEMMA RemainingNone ==
  ASSUME NEW queue \in Seq(Routes), NEW n \in 0 .. Len(queue), Remaining(queue, n) = <<>>
  PROVE  n = Len(queue)
<1>0. Len(queue) \in Nat /\ \A i \in 1 .. Len(queue) : queue[i] \in Routes
  OBVIOUS
<1>1. Len(SubSeq(queue, n + 1, Len(queue)))
        = IF n + 1 <= Len(queue) THEN Len(queue) - (n + 1) + 1 ELSE 0
  <2>1. \A i \in n + 1 .. Len(queue) : queue[i] \in Routes
    BY <1>0
  <2> QED
    BY <1>0, <2>1, SubSeqProperties
<1>2. Len(Remaining(queue, n)) = 0
  OBVIOUS
<1> DEFINE m == Len(SubSeq(queue, n + 1, Len(queue)))
<1>3. m = 0
  BY <1>2 DEF Remaining
<1>4. m = IF n + 1 <= Len(queue) THEN Len(queue) - (n + 1) + 1 ELSE 0
  BY <1>1
<1> HIDE DEF m
<1> QED
  BY <1>0, <1>3, <1>4

-----------------------------------------------------------------------------
(***************************************************************************)
(* The invariant.                                                          *)
(***************************************************************************)
Labels == {"idle", "adds", "append", "dels", "remove", "finish"}

Typed ==
  /\ add_queue \in Seq(Routes) /\ del_queue \in Seq(Routes)
  /\ cur_routes \in Seq(Routes) /\ prv_routes \in Seq(Routes)
  /\ pc \in [Handlers -> Labels]
  /\ todo \in [Handlers -> Seq(Routes)]
  /\ at \in [Handlers -> Nat]
  /\ item \in [Handlers -> Routes \cup {NoRoute}]
  /\ alone \in [Handlers -> BOOLEAN]
  /\ \A h \in Handlers : pc[h] \in {"append", "remove"} => todo[h] # <<>>

(* What a scan has passed is not what it looks for, and item is what is at *)
(* the index; no scan runs behind the end of a loop.                       *)
Scanned(h) ==
  /\ at[h] \in 0 .. Len(cur_routes)
  /\ at[h] > 0 =>
       /\ todo[h] # <<>> /\ pc[h] \in {"adds", "dels", "remove"}
       /\ item[h] = cur_routes[at[h]]
  /\ \A x \in 1 .. at[h] - 1 : cur_routes[x] # Wanted(h)

(* The list is the previous one after some iterations over each queue, and *)
(* todo is what is left of the queue.                                      *)
Adding(h) ==
  \E n \in 0 .. Len(add_queue) :
    /\ todo[h] = Remaining(add_queue, n)
    /\ cur_routes = AfterAdds(prv_routes, add_queue, n)

Deleting(h) ==
  \E n \in 0 .. Len(del_queue) :
    /\ todo[h] = Remaining(del_queue, n)
    /\ cur_routes = AfterDels(AllAdded(prv_routes), del_queue, n)

Undisturbed(h) ==
  /\ \A g \in Handlers \ {h} : pc[g] = "idle"
  /\ Scanned(h)
  /\ pc[h] \in {"adds", "append"} => Adding(h)
  /\ pc[h] = "append" => Wanted(h) \notin Range(cur_routes)
  /\ pc[h] \in {"dels", "remove"} => Deleting(h)
  /\ pc[h] = "remove" => Wanted(h) \in Range(cur_routes)
  /\ pc[h] = "finish" => cur_routes = Worked(prv_routes)

AloneInv == \A h \in Handlers : alone[h] /\ pc[h] # "idle" => Undisturbed(h)

LEMMA TypedHolds == Spec => []Typed
<1>1. Init => Typed
  BY DEF Init, Typed, Labels
<1>2. Typed /\ [Next]_vars => Typed'
  <2> SUFFICES ASSUME Typed, [Next]_vars PROVE Typed'
    OBVIOUS
  <2> USE DEF Typed, Labels
  <2>1. ASSUME NEW r \in Routes, RestAdd(r)  PROVE Typed'
    BY <2>1 DEF RestAdd
  <2>2. ASSUME NEW r \in Routes, RestDel(r)  PROVE Typed'
    BY <2>2 DEF RestDel
  <2>3. ASSUME NEW h \in Handlers, Install(h)  PROVE Typed'
    <3>1. Idle \in BOOLEAN
      BY DEF Idle
    <3> QED
      BY <2>3, <3>1 DEF Install, Goto, Rewind, queues
  <2>4. ASSUME NEW h \in Handlers, ReadItem(h)  PROVE Typed'
    <3>1. at[h] + 1 \in 1 .. Len(cur_routes)
      BY <2>4 DEF ReadItem
    <3>2. cur_routes[at[h] + 1] \in Routes
      BY <3>1
    <3> QED
      BY <2>4, <3>2 DEF ReadItem, queues
  <2>5. ASSUME NEW h \in Handlers, AddPresent(h)  PROVE Typed'
    <3>1. todo[h] # <<>> /\ Tail(todo[h]) \in Seq(Routes)
      BY <2>5 DEF AddPresent, Found, Scanning
    <3> QED
      BY <2>5, <3>1 DEF AddPresent, NextRoute, Rewind, queues
  <2>6. ASSUME NEW h \in Handlers, AddAbsent(h)  PROVE Typed'
    BY <2>6 DEF AddAbsent, NotFound, Scanning, Goto, Rewind, queues
  <2>7. ASSUME NEW h \in Handlers, AppendRoute(h)  PROVE Typed'
    <3>1. todo[h] # <<>> /\ Tail(todo[h]) \in Seq(Routes) /\ Head(todo[h]) \in Routes
      BY <2>7 DEF AppendRoute
    <3> QED
      BY <2>7, <3>1 DEF AppendRoute, Goto, NextRoute, Rewind, Wanted, queues
  <2>8. ASSUME NEW h \in Handlers, AddsDone(h)  PROVE Typed'
    BY <2>8 DEF AddsDone, Goto, queues
  <2>9. ASSUME NEW h \in Handlers, DelAbsent(h)  PROVE Typed'
    <3>1. todo[h] # <<>> /\ Tail(todo[h]) \in Seq(Routes)
      BY <2>9 DEF DelAbsent, NotFound, Scanning
    <3> QED
      BY <2>9, <3>1 DEF DelAbsent, NextRoute, Rewind, queues
  <2>10. ASSUME NEW h \in Handlers, DelPresent(h)  PROVE Typed'
    BY <2>10 DEF DelPresent, Found, Scanning, Goto, Rewind, queues
  <2>11. ASSUME NEW h \in Handlers, RemoveRoute(h)  PROVE Typed'
    <3>1. todo[h] # <<>> /\ Tail(todo[h]) \in Seq(Routes)
      BY <2>11 DEF RemoveRoute
    <3>2. cur_routes' \in Seq(Routes)
      <4>1. CASE at[h] <= Len(cur_routes)
        <5>1. at[h] \in 1 .. Len(cur_routes)
          BY <2>11, <4>1 DEF RemoveRoute, Found, Equal
        <5>2. cur_routes' = RemoveAt(cur_routes, at[h])
          BY <2>11, <4>1 DEF RemoveRoute
        <5> QED
          BY <5>1, <5>2, RemoveAtType
      <4>2. CASE ~ (at[h] <= Len(cur_routes))
        BY <2>11, <4>2 DEF RemoveRoute
      <4> QED
        BY <4>1, <4>2
    <3> QED
      BY <2>11, <3>1, <3>2 DEF RemoveRoute, Goto, NextRoute, Rewind, queues
  <2>12. ASSUME NEW h \in Handlers, RemoveFails(h)  PROVE Typed'
    BY <2>12 DEF RemoveFails, Goto, Rewind, queues
  <2>13. ASSUME NEW h \in Handlers, DelsDone(h)  PROVE Typed'
    BY <2>13 DEF DelsDone, Goto, queues
  <2>14. ASSUME NEW h \in Handlers, Finish(h)  PROVE Typed'
    <3>1. <<>> \in Seq(Routes)
      OBVIOUS
    <3>2. add_queue' \in Seq(Routes) /\ del_queue' \in Seq(Routes)
      <4>1. CASE add_queue' = <<>> /\ del_queue' = <<>>
        BY <3>1, <4>1
      <4>2. CASE UNCHANGED queues
        BY <4>2 DEF queues
      <4> QED
        BY <2>14, <4>1, <4>2 DEF Finish
    <3> QED
      BY <2>14, <3>2 DEF Finish, Goto
  <2>15. CASE UNCHANGED vars
    BY <2>15 DEF vars, queues
  <2> QED
    BY <2>1, <2>2, <2>3, <2>4, <2>5, <2>6, <2>7, <2>8, <2>9, <2>10, <2>11, <2>12,
       <2>13, <2>14, <2>15 DEF Next, HandlerStep
<1> QED
  BY <1>1, <1>2, PTL DEF Spec

-----------------------------------------------------------------------------
(***************************************************************************)
(* What a scan finds.                                                      *)
(***************************************************************************)
LEMMA FoundIsFirst ==
  ASSUME Typed, NEW h \in Handlers, Scanned(h), Found(h)
  PROVE  /\ at[h] \in 1 .. Len(cur_routes)
         /\ cur_routes[at[h]] = Wanted(h)
         /\ \A x \in 1 .. at[h] - 1 : cur_routes[x] # Wanted(h)
         /\ Wanted(h) \in Range(cur_routes)
<1>1. at[h] \in 1 .. Len(cur_routes) /\ cur_routes[at[h]] = Wanted(h)
  BY DEF Typed, Scanned, Found, Equal
<1>2. Wanted(h) \in Range(cur_routes)
  BY <1>1, RangeOfList DEF Typed
<1> QED
  BY <1>1, <1>2 DEF Scanned

LEMMA NotFoundIsAbsent ==
  ASSUME Typed, NEW h \in Handlers, Scanned(h), NotFound(h)
  PROVE  Wanted(h) \notin Range(cur_routes)
<1>1. cur_routes \in Seq(Routes) /\ Len(cur_routes) \in Nat
  BY DEF Typed
<1>2. at[h] = Len(cur_routes)
  BY <1>1 DEF Scanned, NotFound
<1>3. ASSUME NEW x \in 1 .. Len(cur_routes)  PROVE cur_routes[x] # Wanted(h)
  <2>1. CASE x = at[h]
    BY <1>2, <2>1 DEF Scanned, NotFound, Equal
  <2>2. CASE x # at[h]
    BY <1>1, <1>2, <2>2 DEF Scanned
  <2> QED
    BY <2>1, <2>2
<1> QED
  BY <1>1, <1>3, RangeOfList

(* A scan that starts. *)
LEMMA RewindScans ==
  ASSUME Typed, Typed', NEW h \in Handlers, Rewind(h)
  PROVE  Scanned(h)'
<1>1. at'[h] = 0 /\ Len(cur_routes') \in Nat
  BY DEF Typed, Rewind
<1> QED
  BY <1>1 DEF Scanned

(* Only h goes on; whoever else was idle still is. *)
LEMMA OthersIdle ==
  ASSUME Typed, NEW h \in Handlers, NEW label, Goto(h, label),
         \A g \in Handlers \ {h} : pc[g] = "idle"
  PROVE  /\ pc'[h] = label
         /\ \A g \in Handlers \ {h} : pc'[g] = "idle"
BY DEF Typed, Goto

(* The next element of a queue. *)
LEMMA AddsOneMore ==
  ASSUME Typed, NEW h \in Handlers, Adding(h), todo[h] # <<>>,
         todo'[h] = Tail(todo[h]), cur_routes' = Added(cur_routes, Wanted(h)),
         UNCHANGED <<queues, prv_routes>>
  PROVE  Adding(h)'
<1>1. PICK n \in 0 .. Len(add_queue) :
        todo[h] = Remaining(add_queue, n) /\ cur_routes = AfterAdds(prv_routes, add_queue, n)
  BY DEF Adding
<1>2. /\ n \in 0 .. Len(add_queue) - 1
      /\ Wanted(h) = add_queue[n + 1]
      /\ Tail(todo[h]) = Remaining(add_queue, n + 1)
  BY <1>1, RemainingNext DEF Typed, Wanted
<1>3. AfterAdds(prv_routes, add_queue, n + 1) = Added(cur_routes, Wanted(h))
  BY <1>1, <1>2, AddsSteps DEF Typed
<1>4. n + 1 \in 0 .. Len(add_queue) /\ add_queue' = add_queue /\ prv_routes' = prv_routes
  BY <1>2 DEF queues
<1> QED
  BY <1>2, <1>3, <1>4 DEF Adding

LEMMA DelsOneMore ==
  ASSUME Typed, NEW h \in Handlers, Deleting(h), todo[h] # <<>>,
         todo'[h] = Tail(todo[h]), cur_routes' = RemoveFirst(cur_routes, Wanted(h)),
         UNCHANGED <<queues, prv_routes>>
  PROVE  Deleting(h)'
<1> DEFINE base == AllAdded(prv_routes)
<1>0. base \in Seq(Routes)
  <2>1. Len(add_queue) \in 0 .. Len(add_queue)
    BY DEF Typed
  <2> QED
    BY <2>1, AddsSteps DEF Typed, AllAdded
<1>1. PICK n \in 0 .. Len(del_queue) :
        todo[h] = Remaining(del_queue, n) /\ cur_routes = AfterDels(base, del_queue, n)
  BY DEF Deleting
<1>2. /\ n \in 0 .. Len(del_queue) - 1
      /\ Wanted(h) = del_queue[n + 1]
      /\ Tail(todo[h]) = Remaining(del_queue, n + 1)
  BY <1>1, RemainingNext DEF Typed, Wanted
<1>3. AfterDels(base, del_queue, n + 1) = RemoveFirst(cur_routes, Wanted(h))
  <2> HIDE DEF base
  <2> QED
    BY <1>0, <1>1, <1>2, DelsSteps DEF Typed
<1>4. n + 1 \in 0 .. Len(del_queue) /\ del_queue' = del_queue /\ base' = base
  BY <1>2 DEF queues, AllAdded
<1> QED
  BY <1>2, <1>3, <1>4 DEF Deleting

(* Where the loops begin and end. *)
LEMMA AddsBegin ==
  ASSUME Typed, NEW h \in Handlers, todo'[h] = add_queue, cur_routes' = prv_routes',
         prv_routes' = cur_routes, UNCHANGED queues
  PROVE  Adding(h)'
<1>1. 0 \in 0 .. Len(add_queue) /\ Remaining(add_queue, 0) = add_queue
  BY RemainingAll DEF Typed
<1>2. AfterAdds(cur_routes, add_queue, 0) = cur_routes
  BY AddsSteps DEF Typed
<1>3. add_queue' = add_queue
  BY DEF queues
<1> QED
  BY <1>1, <1>2, <1>3 DEF Adding

LEMMA DelsBegin ==
  ASSUME Typed, NEW h \in Handlers, Adding(h), todo[h] = <<>>, todo'[h] = del_queue,
         UNCHANGED <<queues, cur_routes, prv_routes>>
  PROVE  Deleting(h)'
<1>1. PICK n \in 0 .. Len(add_queue) :
        todo[h] = Remaining(add_queue, n) /\ cur_routes = AfterAdds(prv_routes, add_queue, n)
  BY DEF Adding
<1>2. n = Len(add_queue)
  BY <1>1, RemainingNone DEF Typed
<1>3. cur_routes = AllAdded(prv_routes) /\ cur_routes \in Seq(Routes)
  BY <1>1, <1>2 DEF AllAdded, Typed
<1>4. AfterDels(cur_routes, del_queue, 0) = cur_routes
  BY <1>3, DelsSteps DEF Typed
<1>5. 0 \in 0 .. Len(del_queue) /\ Remaining(del_queue, 0) = del_queue
  BY RemainingAll DEF Typed
<1>6. del_queue' = del_queue /\ AllAdded(prv_routes)' = AllAdded(prv_routes)
  BY DEF queues, AllAdded
<1> QED
  BY <1>3, <1>4, <1>5, <1>6 DEF Deleting

LEMMA DelsEnd ==
  ASSUME Typed, NEW h \in Handlers, Deleting(h), todo[h] = <<>>
  PROVE  cur_routes = Worked(prv_routes)
<1>1. PICK n \in 0 .. Len(del_queue) :
        /\ todo[h] = Remaining(del_queue, n)
        /\ cur_routes = AfterDels(AllAdded(prv_routes), del_queue, n)
  BY DEF Deleting
<1>2. n = Len(del_queue)
  BY <1>1, RemainingNone DEF Typed
<1> QED
  BY <1>1, <1>2 DEF Worked

-----------------------------------------------------------------------------
(***************************************************************************)
(* Each step of an install that no other overlaps.                         *)
(***************************************************************************)
LEMMA ReadItemKeeps ==
  ASSUME Typed, Typed', NEW h \in Handlers, Undisturbed(h), ReadItem(h)
  PROVE  Undisturbed(h)'
<1>0. /\ at'[h] = at[h] + 1 /\ item'[h] = cur_routes[at[h] + 1]
      /\ at[h] \in Nat /\ at[h] < Len(cur_routes) /\ Len(cur_routes) \in Nat
      /\ todo[h] # <<>> /\ pc[h] \in {"adds", "dels", "remove"}
  BY DEF Typed, ReadItem, Scanning
<1>1. UNCHANGED <<add_queue, del_queue, cur_routes, prv_routes, pc, todo>>
  BY DEF ReadItem, queues
<1>2. ASSUME NEW x \in 1 .. at'[h] - 1  PROVE cur_routes[x] # Wanted(h)
  <2>1. CASE x = at[h]
    <3>1. at[h] > 0 /\ item[h] = cur_routes[at[h]] /\ item[h] # Wanted(h)
      BY <1>0, <2>1 DEF Undisturbed, Scanned, ReadItem, Equal
    <3> QED
      BY <2>1, <3>1
  <2>2. CASE x # at[h]
    BY <1>0, <2>2 DEF Undisturbed, Scanned
  <2> QED
    BY <2>1, <2>2
<1>3. Scanned(h)'
  <2>1. at'[h] \in 0 .. Len(cur_routes)
    BY <1>0
  <2> QED
    BY <1>0, <1>1, <1>2, <2>1 DEF Scanned, Wanted
<1> QED
  BY <1>1, <1>3 DEF Undisturbed, Adding, Deleting, Worked, AllAdded, Wanted

LEMMA AddPresentKeeps ==
  ASSUME Typed, Typed', NEW h \in Handlers, Undisturbed(h), AddPresent(h)
  PROVE  Undisturbed(h)'
<1>1. /\ pc[h] = "adds" /\ pc' = pc /\ todo[h] # <<>> /\ todo'[h] = Tail(todo[h])
      /\ UNCHANGED <<queues, cur_routes, prv_routes>>
  BY DEF AddPresent, Found, Scanning, NextRoute, Typed
<1>2. Wanted(h) \in Range(cur_routes)
  BY FoundIsFirst DEF AddPresent, Undisturbed
<1>3. cur_routes' = Added(cur_routes, Wanted(h))
  BY <1>1, <1>2 DEF Added
<1>4. Adding(h)'
  BY <1>1, <1>3, AddsOneMore DEF Undisturbed
<1>5. Scanned(h)'
  BY RewindScans DEF AddPresent, NextRoute
<1> QED
  BY <1>1, <1>4, <1>5 DEF Undisturbed

LEMMA AddAbsentKeeps ==
  ASSUME Typed, Typed', NEW h \in Handlers, Undisturbed(h), AddAbsent(h)
  PROVE  Undisturbed(h)'
<1>1. /\ pc[h] = "adds" /\ UNCHANGED <<queues, cur_routes, prv_routes, todo>>
  BY DEF AddAbsent
<1>2. pc'[h] = "append" /\ \A g \in Handlers \ {h} : pc'[g] = "idle"
  BY OthersIdle DEF AddAbsent, Undisturbed
<1>3. Wanted(h) \notin Range(cur_routes)
  BY NotFoundIsAbsent DEF AddAbsent, Undisturbed
<1>4. Scanned(h)'
  BY RewindScans DEF AddAbsent
<1>5. Adding(h)'
  BY <1>1 DEF Undisturbed, Adding, queues
<1> QED
  BY <1>1, <1>2, <1>3, <1>4, <1>5 DEF Undisturbed, Wanted

LEMMA AppendRouteKeeps ==
  ASSUME Typed, Typed', NEW h \in Handlers, Undisturbed(h), AppendRoute(h)
  PROVE  Undisturbed(h)'
<1>1. /\ pc[h] = "append" /\ todo[h] # <<>> /\ todo'[h] = Tail(todo[h])
      /\ UNCHANGED <<queues, prv_routes>>
  BY DEF AppendRoute, NextRoute, Typed
<1>2. pc'[h] = "adds" /\ \A g \in Handlers \ {h} : pc'[g] = "idle"
  BY OthersIdle DEF AppendRoute, Undisturbed
<1>3. cur_routes' = Added(cur_routes, Wanted(h))
  BY <1>1 DEF AppendRoute, Undisturbed, Added
<1>4. Adding(h)'
  BY <1>1, <1>3, AddsOneMore DEF Undisturbed
<1>5. Scanned(h)'
  BY RewindScans DEF AppendRoute, NextRoute
<1> QED
  BY <1>2, <1>4, <1>5 DEF Undisturbed

LEMMA AddsDoneKeeps ==
  ASSUME Typed, Typed', NEW h \in Handlers, Undisturbed(h), AddsDone(h)
  PROVE  Undisturbed(h)'
<1>1. /\ pc[h] = "adds" /\ todo[h] = <<>> /\ todo'[h] = del_queue
      /\ UNCHANGED <<queues, cur_routes, prv_routes, at, item>>
  BY DEF AddsDone, Typed
<1>2. pc'[h] = "dels" /\ \A g \in Handlers \ {h} : pc'[g] = "idle"
  BY OthersIdle DEF AddsDone, Undisturbed
<1>3. Deleting(h)'
  BY <1>1, DelsBegin DEF Undisturbed
<1>4. at'[h] = 0 /\ Len(cur_routes') \in Nat
  BY <1>1 DEF Undisturbed, Scanned, Typed
<1>5. Scanned(h)'
  BY <1>4 DEF Scanned
<1> QED
  BY <1>2, <1>3, <1>5 DEF Undisturbed

LEMMA DelAbsentKeeps ==
  ASSUME Typed, Typed', NEW h \in Handlers, Undisturbed(h), DelAbsent(h)
  PROVE  Undisturbed(h)'
<1>1. /\ pc[h] = "dels" /\ pc' = pc /\ todo[h] # <<>> /\ todo'[h] = Tail(todo[h])
      /\ UNCHANGED <<queues, cur_routes, prv_routes>>
  BY DEF DelAbsent, NotFound, Scanning, NextRoute, Typed
<1>2. Wanted(h) \notin Range(cur_routes)
  BY NotFoundIsAbsent DEF DelAbsent, Undisturbed
<1>3. cur_routes' = RemoveFirst(cur_routes, Wanted(h))
  BY <1>1, <1>2, RemoveFirstAbsent DEF Typed
<1>4. Deleting(h)'
  BY <1>1, <1>3, DelsOneMore DEF Undisturbed
<1>5. Scanned(h)'
  BY RewindScans DEF DelAbsent, NextRoute
<1> QED
  BY <1>1, <1>4, <1>5 DEF Undisturbed

LEMMA DelPresentKeeps ==
  ASSUME Typed, Typed', NEW h \in Handlers, Undisturbed(h), DelPresent(h)
  PROVE  Undisturbed(h)'
<1>1. /\ pc[h] = "dels" /\ UNCHANGED <<queues, cur_routes, prv_routes, todo>>
  BY DEF DelPresent
<1>2. pc'[h] = "remove" /\ \A g \in Handlers \ {h} : pc'[g] = "idle"
  BY OthersIdle DEF DelPresent, Undisturbed
<1>3. Wanted(h) \in Range(cur_routes)
  BY FoundIsFirst DEF DelPresent, Undisturbed
<1>4. Scanned(h)'
  BY RewindScans DEF DelPresent
<1>5. Deleting(h)'
  BY <1>1 DEF Undisturbed, Deleting, AllAdded, queues
<1> QED
  BY <1>1, <1>2, <1>3, <1>4, <1>5 DEF Undisturbed, Wanted

LEMMA RemoveRouteKeeps ==
  ASSUME Typed, Typed', NEW h \in Handlers, Undisturbed(h), RemoveRoute(h)
  PROVE  Undisturbed(h)'
<1>1. /\ pc[h] = "remove" /\ todo[h] # <<>> /\ todo'[h] = Tail(todo[h])
      /\ UNCHANGED <<queues, prv_routes>>
  BY DEF RemoveRoute, NextRoute, Typed
<1>2. pc'[h] = "dels" /\ \A g \in Handlers \ {h} : pc'[g] = "idle"
  BY OthersIdle DEF RemoveRoute, Undisturbed
<1>3. /\ at[h] \in 1 .. Len(cur_routes)
      /\ cur_routes[at[h]] = Wanted(h)
      /\ \A x \in 1 .. at[h] - 1 : cur_routes[x] # Wanted(h)
  BY FoundIsFirst DEF RemoveRoute, Undisturbed
<1>4. cur_routes' = RemoveAt(cur_routes, at[h])
  BY <1>3 DEF RemoveRoute
<1>5. cur_routes' = RemoveFirst(cur_routes, Wanted(h))
  BY <1>3, <1>4, RemoveFirstIsRemoveAt DEF Typed
<1>6. Deleting(h)'
  BY <1>1, <1>5, DelsOneMore DEF Undisturbed
<1>7. Scanned(h)'
  BY RewindScans DEF RemoveRoute, NextRoute
<1> QED
  BY <1>2, <1>6, <1>7 DEF Undisturbed

LEMMA DelsDoneKeeps ==
  ASSUME Typed, Typed', NEW h \in Handlers, Undisturbed(h), DelsDone(h)
  PROVE  Undisturbed(h)'
<1>1. /\ pc[h] = "dels" /\ todo[h] = <<>>
      /\ UNCHANGED <<add_queue, del_queue, cur_routes, prv_routes, todo, at, item>>
  BY DEF DelsDone, queues
<1>2. pc'[h] = "finish" /\ \A g \in Handlers \ {h} : pc'[g] = "idle"
  BY OthersIdle DEF DelsDone, Undisturbed
<1>3. cur_routes = Worked(prv_routes)
  BY <1>1, DelsEnd DEF Undisturbed
<1>4. Worked(prv_routes)' = Worked(prv_routes)
  BY <1>1 DEF Worked, AllAdded
<1>5. at'[h] = 0 /\ Len(cur_routes') \in Nat
  BY <1>1 DEF Undisturbed, Scanned, Typed
<1>6. Scanned(h)'
  BY <1>5 DEF Scanned
<1> QED
  BY <1>1, <1>2, <1>3, <1>4, <1>6 DEF Undisturbed

-----------------------------------------------------------------------------
(* A step of one thread leaves alone, and whoever is undisturbed is that   *)
(* thread: any other one would be idle.                                    *)
LEMMA StepKeepsAlone ==
  ASSUME Typed, Typed', AloneInv, NEW h \in Handlers, HandlerStep(h)
  PROVE  AloneInv'
<1>1. pc[h] # "idle" /\ alone' = alone /\ \A g \in Handlers \ {h} : pc'[g] = pc[g]
  <2> USE DEF Typed, Goto
  <2>1. CASE ReadItem(h) \/ AddPresent(h) \/ DelAbsent(h)
    BY <2>1 DEF ReadItem, Scanning, AddPresent, DelAbsent
  <2>2. CASE AddAbsent(h) \/ AppendRoute(h) \/ AddsDone(h) \/ DelPresent(h)
    BY <2>2 DEF AddAbsent, AppendRoute, AddsDone, DelPresent
  <2>3. CASE RemoveRoute(h) \/ RemoveFails(h) \/ DelsDone(h) \/ Finish(h)
    BY <2>3 DEF RemoveRoute, RemoveFails, DelsDone, Finish
  <2> QED
    BY <2>1, <2>2, <2>3 DEF HandlerStep
<1>2. ASSUME NEW g \in Handlers, g # h, alone'[g], pc'[g] # "idle"
      PROVE  FALSE
  <2>1. Undisturbed(g)
    BY <1>1, <1>2 DEF AloneInv
  <2> QED
    BY <1>1, <1>2, <2>1 DEF Undisturbed
<1>3. ASSUME alone'[h], pc'[h] # "idle"
      PROVE  Undisturbed(h)'
  <2>1. Undisturbed(h)
    BY <1>1, <1>3 DEF AloneInv
  <2>2. ~ RemoveFails(h) /\ ~ Finish(h)
    BY <1>3 DEF RemoveFails, Finish, Goto, Typed
  <2> QED
    BY <2>1, <2>2, ReadItemKeeps, AddPresentKeeps, AddAbsentKeeps, AppendRouteKeeps,
       AddsDoneKeeps, DelAbsentKeeps, DelPresentKeeps, RemoveRouteKeeps, DelsDoneKeeps
       DEF HandlerStep
<1>4. ASSUME NEW g \in Handlers, alone'[g] /\ pc'[g] # "idle"  PROVE Undisturbed(g)'
  BY <1>2, <1>3, <1>4
<1> QED
  BY <1>4 DEF AloneInv

(* An install that begins makes every other one overlapped, and is not     *)
(* alone itself unless all others are idle.                                *)
LEMMA InstallKeepsAlone ==
  ASSUME Typed, Typed', AloneInv, NEW h \in Handlers, Install(h)
  PROVE  AloneInv'
<1>1. /\ \A g \in Handlers \ {h} : alone'[g] = FALSE
      /\ alone'[h] = Idle
  BY DEF Install
<1>2. ASSUME alone'[h]  PROVE Undisturbed(h)'
  <2>1. \A g \in Handlers \ {h} : pc[g] = "idle"
    BY <1>1, <1>2 DEF Idle
  <2>2. pc'[h] = "adds" /\ \A g \in Handlers \ {h} : pc'[g] = "idle"
    BY <2>1, OthersIdle DEF Install
  <2>3. Adding(h)'
    <3>1. /\ todo'[h] = add_queue /\ prv_routes' = cur_routes
          /\ cur_routes' = prv_routes' /\ UNCHANGED queues
      BY DEF Install, Typed
    <3> QED
      BY <3>1, AddsBegin
  <2>4. Scanned(h)'
    BY RewindScans DEF Install
  <2> QED
    BY <2>2, <2>3, <2>4 DEF Undisturbed
<1>3. ASSUME NEW g \in Handlers, alone'[g] /\ pc'[g] # "idle"  PROVE Undisturbed(g)'
  <2>1. g = h
    BY <1>1, <1>3
  <2> QED
    BY <1>2, <1>3, <2>1
<1> QED
  BY <1>3 DEF AloneInv

LEMMA AloneHolds == Spec => []AloneInv
<1>1. Init => AloneInv
  BY DEF Init, AloneInv
<1>2. Typed /\ Typed' /\ AloneInv /\ [Next]_vars => AloneInv'
  <2> SUFFICES ASSUME Typed, Typed', AloneInv, [Next]_vars PROVE AloneInv'
    OBVIOUS
  <2>1. ASSUME NEW r \in Routes, RestAdd(r) \/ RestDel(r)  PROVE AloneInv'
    <3>1. \A h \in Handlers : pc'[h] = "idle"
      BY <2>1 DEF RestAdd, RestDel, Idle
    <3> QED
      BY <3>1 DEF AloneInv
  <2>2. ASSUME NEW h \in Handlers, Install(h)  PROVE AloneInv'
    BY <2>2, InstallKeepsAlone
  <2>3. ASSUME NEW h \in Handlers, HandlerStep(h)  PROVE AloneInv'
    BY <2>3, StepKeepsAlone
  <2>4. CASE UNCHANGED vars
    BY <2>4 DEF vars, queues, AloneInv, Undisturbed, Scanned, Adding, Deleting, Worked,
                AllAdded, Wanted
  <2> QED
    BY <2>1, <2>2, <2>3, <2>4 DEF Next
<1> QED
  BY <1>1, <1>2, TypedHolds, PTL DEF Spec

(***************************************************************************)
(* Theorem: an install that no other overlaps has, at the end of its loops,*)
(* made of the previous routes what whole iterations make of them, for     *)
(* every number of threads, every length of the queues and of the list.    *)
(***************************************************************************)
THEOREM ScansAreAtomic == Spec => []AsAtomic
<1>1. AloneInv => AsAtomic
  BY DEF AloneInv, AsAtomic, Undisturbed
<1> QED
  BY <1>1, AloneHolds, PTL

(***************************************************************************)
(* Theorem: list.remove raises ValueError in no install that no other      *)
(* overlaps: the "in" before it has found the route, and it is still there.*)
(***************************************************************************)
THEOREM RemoveFindsItsRoute == Spec => RemoveFailsOverlapped
<1>1. Typed /\ AloneInv => [\A h \in Handlers : RemoveFails(h) => ~ alone[h]]_vars
  <2> SUFFICES ASSUME Typed, AloneInv, NEW h \in Handlers, RemoveFails(h), alone[h]
               PROVE  FALSE
    OBVIOUS
  <2>1. pc[h] = "remove" /\ NotFound(h)
    BY DEF RemoveFails
  <2>2. Undisturbed(h)
    BY <2>1 DEF AloneInv
  <2>3. Wanted(h) \notin Range(cur_routes)
    BY <2>1, <2>2, NotFoundIsAbsent DEF Undisturbed
  <2> QED
    BY <2>1, <2>2, <2>3 DEF Undisturbed
<1> QED
  BY <1>1, TypedHolds, AloneHolds, PTL DEF RemoveFailsOverlapped
=============================================================================
