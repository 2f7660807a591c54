------------------------ MODULE ConsistentHashProofs ------------------------
(***************************************************************************)
(* What flows find in the blocks that _expand_nh and _expand_nh_with_chash *)
(* make of the list of a prefix, for lists of every length, hashes of      *)
(* every width and any choice of the buckets.                              *)
(***************************************************************************)
EXTENDS ConsistentHash, NhExpansionProofs, FiniteSetTheorems

-----------------------------------------------------------------------------
(***************************************************************************)
(* Taking turns: of the numbers 1 to p, Share(p, n, x) fall on the x-th of *)
(* n participants.                                                         *)
(***************************************************************************)
Share(p, n, x) == (p \div n) + (IF x <= p % n THEN 1 ELSE 0)

LEMMA DivMod ==
  ASSUME NEW p \in Nat, NEW n \in Nat \ {0}
  PROVE  /\ p = n * (p \div n) + (p % n)
         /\ p % n \in 0 .. n - 1
         /\ p \div n \in Nat
BY SMT

LEMMA FirstTurn ==
  ASSUME NEW n \in Nat \ {0}, NEW x \in 1 .. n
  PROVE  (x - 1) % n = x - 1
OBVIOUS

LEMMA Quotient ==
  ASSUME NEW p \in Nat, NEW q \in Nat, NEW n \in Nat \ {0}, n * q <= p, p < n * q + n
  PROVE  p \div n = q
BY SMT

LEMMA QuotientAtLeast ==
  ASSUME NEW p \in Nat, NEW k \in Nat, NEW n \in Nat \ {0}, n * k <= p
  PROVE  k <= p \div n
<1> DEFINE q == p \div n
<1>1. q \in Nat /\ p < n * q + n
  BY DivMod
<1> HIDE DEF q
<1> SUFFICES ASSUME q + 1 <= k PROVE FALSE
  BY <1>1 DEF q
<1>2. PICK d \in Nat : k = q + 1 + d
  BY <1>1
<1>3. n * k = n * q + n + n * d /\ n * d \in Nat /\ n * q \in Nat
  BY <1>1, <1>2
<1> QED
  BY <1>1, <1>3

LEMMA DivModStep ==
  ASSUME NEW p \in Nat, NEW n \in Nat \ {0}
  PROVE  /\ p % n = n - 1 => (p + 1) % n = 0 /\ (p + 1) \div n = (p \div n) + 1
         /\ p % n # n - 1 => (p + 1) % n = (p % n) + 1 /\ (p + 1) \div n = p \div n
<1> DEFINE q == p \div n  r == p % n  qq == (p + 1) \div n  rr == (p + 1) % n
<1>1. p = n * q + r /\ r \in 0 .. n - 1 /\ q \in Nat
  BY DivMod
<1>2. p + 1 = n * qq + rr /\ rr \in 0 .. n - 1 /\ qq \in Nat
  <2> DEFINE next == p + 1
  <2>1. next \in Nat
    OBVIOUS
  <2> HIDE DEF next
  <2>2. /\ next = n * (next \div n) + (next % n)
        /\ next % n \in 0 .. n - 1
        /\ next \div n \in Nat
    BY <2>1, DivMod
  <2> QED
    BY <2>2 DEF next
<1>3. ASSUME r = n - 1  PROVE qq = q + 1
  <2> HIDE DEF q, r
  <2>1. n * (q + 1) = n * q + n /\ n * q \in Nat
    BY <1>1
  <2>2. n * (q + 1) <= p + 1 /\ p + 1 < n * (q + 1) + n
    BY <1>1, <1>3, <2>1
  <2> QED
    BY <1>1, <2>2, Quotient
<1>4. ASSUME r # n - 1  PROVE qq = q
  <2> HIDE DEF q, r
  <2>1. n * q <= p + 1 /\ p + 1 < n * q + n
    BY <1>1, <1>4
  <2> QED
    BY <1>1, <2>1, Quotient
<1> HIDE DEF q, r, qq, rr
<1>5. n * q \in Nat /\ n * qq \in Nat /\ n * (q + 1) = n * q + n
  BY <1>1, <1>2
<1>6. r = n - 1 => rr = 0 /\ qq = q + 1
  BY <1>1, <1>2, <1>3, <1>5
<1>7. r # n - 1 => rr = r + 1 /\ qq = q
  BY <1>1, <1>2, <1>4, <1>5
<1> QED
  BY <1>6, <1>7 DEF q, r, qq, rr

LEMMA ShareStep ==
  ASSUME NEW p \in Nat, NEW n \in Nat \ {0}, NEW x \in 1 .. n
  PROVE  Share(p + 1, n, x) = Share(p, n, x) + (IF (p % n) + 1 = x THEN 1 ELSE 0)
<1> DEFINE q == p \div n  r == p % n  qq == (p + 1) \div n  rr == (p + 1) % n
<1>1. r \in 0 .. n - 1 /\ q \in Nat
  BY DivMod
<1>2. /\ r = n - 1 => rr = 0 /\ qq = q + 1
      /\ r # n - 1 => rr = r + 1 /\ qq = q
  BY DivModStep
<1>3. /\ Share(p, n, x) = q + (IF x <= r THEN 1 ELSE 0)
      /\ Share(p + 1, n, x) = qq + (IF x <= rr THEN 1 ELSE 0)
  BY Zenon DEF Share
<1> HIDE DEF q, r, qq, rr
<1>4. qq + (IF x <= rr THEN 1 ELSE 0)
        = q + (IF x <= r THEN 1 ELSE 0) + (IF r + 1 = x THEN 1 ELSE 0)
  BY <1>1, <1>2
<1> QED
  BY <1>3, <1>4 DEF r

LEMMA ShareOfNone ==
  ASSUME NEW n \in Nat \ {0}, NEW x \in 1 .. n
  PROVE  Share(0, n, x) = 0
<1>1. 0 \div n = 0 /\ 0 % n = 0
  OBVIOUS
<1> QED
  BY <1>1 DEF Share

(* The shares are even. *)
LEMMA ShareBounds ==
  ASSUME NEW p \in Nat, NEW n \in Nat \ {0}, NEW x \in 1 .. n
  PROVE  /\ Share(p, n, x) \in Nat
         /\ p \div n <= Share(p, n, x)
         /\ Share(p, n, x) <= (p \div n) + 1
<1> DEFINE q == p \div n  r == p % n
<1>1. r \in 0 .. n - 1 /\ q \in Nat
  BY DivMod
<1>2. Share(p, n, x) = q + (IF x <= r THEN 1 ELSE 0)
  BY Zenon DEF Share
<1>3. Share(p, n, x) \in Nat /\ q <= Share(p, n, x) /\ Share(p, n, x) <= q + 1
  <2> HIDE DEF q, r
  <2> QED
    BY <1>1, <1>2
<1> QED
  BY <1>3

(* A set of naturals that has 0 and the successors of its elements has all *)
(* of them.                                                                *)
LEMMA NatSet ==
  ASSUME NEW S \in SUBSET Nat, 0 \in S, \A n \in S : n + 1 \in S
  PROVE  S = Nat
<1> SUFFICES ASSUME Nat \ S # {} PROVE FALSE
  OBVIOUS
<1>1. PICK m \in Nat \ S : \A k \in Nat \ S : m <= k
  BY LeastElement
<1>2. m - 1 \in S
  BY <1>1
<1> QED
  BY <1>1, <1>2

LEMMA Turns ==
  ASSUME NEW n \in Nat \ {0}, NEW x \in 1 .. n
  PROVE  \A p \in Nat :
           Cardinality({y \in 1 .. p : ((y - 1) % n) + 1 = x}) = Share(p, n, x)
<1> DEFINE turn(y) == ((y - 1) % n) + 1
           T(p) == {y \in 1 .. p : turn(y) = x}
           S == {p \in Nat : Cardinality(T(p)) = Share(p, n, x)}
<1>1. 0 \in S
  <2>1. T(0) = {}
    OBVIOUS
  <2> QED
    BY <2>1, FS_EmptySet, ShareOfNone, Zenon
<1>2. ASSUME NEW p \in S  PROVE p + 1 \in S
  <2>1. p \in Nat /\ Cardinality(T(p)) = Share(p, n, x)
    BY <1>2
  <2>2. IsFiniteSet(T(p))
    <3>1. IsFiniteSet(1 .. p) /\ T(p) \in SUBSET (1 .. p)
      BY <2>1, FS_Interval
    <3> HIDE DEF T
    <3> QED
      BY <3>1, FS_Subset
  <2>3. p + 1 \notin T(p)
    BY <2>1
  <2>4. 1 .. p + 1 = (1 .. p) \cup {p + 1} /\ turn(p + 1) = (p % n) + 1
    <3>1. (p + 1) - 1 = p
      BY <2>1
    <3> QED
      BY <2>1, <3>1
  <2>5. /\ (p % n) + 1 = x => T(p + 1) = T(p) \cup {p + 1}
        /\ (p % n) + 1 # x => T(p + 1) = T(p)
    <3> HIDE DEF turn
    <3> QED
      BY <2>4
  <2>6. Share(p + 1, n, x) = Share(p, n, x) + (IF (p % n) + 1 = x THEN 1 ELSE 0)
    BY <2>1, ShareStep
  <2>7. Share(p, n, x) \in Nat
    BY <2>1, ShareBounds
  <2>8. Cardinality(T(p) \cup {p + 1}) = Cardinality(T(p)) + 1
    <3> HIDE DEF T
    <3> QED
      BY <2>2, <2>3, FS_AddElement
  <2>9. Cardinality(T(p + 1)) = Share(p + 1, n, x)
    <3> HIDE DEF T
    <3>1. CASE (p % n) + 1 = x
      BY <2>1, <2>5, <2>6, <2>8, <3>1
    <3>2. CASE (p % n) + 1 # x
      <4>1. T(p + 1) = T(p)
        BY <2>5, <3>2
      <4>2. Share(p + 1, n, x) = Share(p, n, x) + 0
        BY <2>6, <3>2
      <4> QED
        BY <2>1, <2>7, <4>1, <4>2
    <3> QED
      BY <3>1, <3>2
  <2> QED
    BY <2>1, <2>9
<1>3. S \in SUBSET Nat
  OBVIOUS
<1> HIDE DEF S
<1>4. S = Nat
  BY <1>1, <1>2, <1>3, NatSet
<1> QED
  BY <1>4 DEF S

-----------------------------------------------------------------------------
(***************************************************************************)
(* The list of a prefix, and the block that _expand_nh makes of it.        *)
(***************************************************************************)
Listed == nh \in Seq(Nexthops) /\ IsInjective(nh)

(* A list names no more nexthops than there are. *)
LEMMA ListLength ==
  ASSUME Listed
  PROVE  Len(nh) \in Nat /\ Len(nh) + 1 <= 2^HashBits /\ DOMAIN nh = 1 .. Len(nh)
<1> DEFINE n == Len(nh)
<1>1. n \in Nat /\ DOMAIN nh = 1 .. n
  BY DEF Listed
<1>2. nh \in Injection(1 .. n, Nexthops)
  <2>1. nh \in [1 .. n -> Nexthops]
    BY DEF Listed
  <2> QED
    BY <1>1, <2>1 DEF Listed, IsInjective, Injection
<1> HIDE DEF n
<1>3. Cardinality(1 .. n) = n
  BY <1>1, FS_Interval
<1>4. Cardinality(1 .. n) <= Cardinality(Nexthops)
  BY <1>2, FS_Injection, ExpansionFits
<1>5. Cardinality(Nexthops) \in Nat /\ 2^HashBits \in Nat
  BY FS_CardinalityType, ExpansionFits, PowersAreNat
<1>6. n + 1 <= 2^HashBits
  BY <1>1, <1>3, <1>4, <1>5, ExpansionFits
<1> QED
  BY <1>1, <1>6 DEF n

LEMMA AppendKeepsListed ==
  ASSUME Listed, NEW m \in Nexthops, AppendNexthop(m)
  PROVE  Listed'
BY DEF Listed, AppendNexthop, IsInjective, Range

(* The slots of the block, and the nexthops they lead to. *)
LEMMA Slots ==
  ASSUME Listed, nh # <<>>
  PROVE  /\ BlockSize(Len(nh)) \in Nat \ {0}
         /\ Len(nh) <= BlockSize(Len(nh))
         /\ Len(BlockOfList) = BlockSize(Len(nh))
         /\ DOMAIN BlockOfList = 1 .. BlockSize(Len(nh))
         /\ \A y \in 1 .. BlockSize(Len(nh)) :
              /\ ((y - 1) % Len(nh)) + 1 \in 1 .. Len(nh)
              /\ BlockOfList[y] = nh[((y - 1) % Len(nh)) + 1]
         /\ Range(BlockOfList) = Range(nh)
<1> DEFINE n == Len(nh)  b == BlockSize(n)  e == BlockOfList
<1>1. n \in Nat \ {0} /\ n <= 2^HashBits
  <2>1. n \in Nat /\ n + 1 <= 2^HashBits /\ 2^HashBits \in Nat
    BY ListLength, PowersAreNat
  <2>2. n # 0
    BY DEF Listed
  <2> HIDE DEF n
  <2> QED
    BY <2>1, <2>2
<1>2. b \in Nat \ {0} /\ n <= b
  <2> HIDE DEF n
  <2> QED
    BY <1>1, BlockSizeFits
<1>3. e = [x \in 1 .. b |-> nh[((x - 1) % n) + 1]]
  BY Zenon DEF BlockOfList, ExpandNh
<1>4. e \in Seq(Nexthops) /\ Range(e) = Range(nh)
  BY <1>1, ExpansionType, ExpansionRange, Zenon DEF BlockOfList, Listed
<1> HIDE DEF n, b, e
<1>5. \A y \in 1 .. b : ((y - 1) % n) + 1 \in 1 .. n /\ e[y] = nh[((y - 1) % n) + 1]
  BY <1>1, <1>2, <1>3, SlotInList
<1>6. DOMAIN e = 1 .. b
  BY <1>3
<1>7. Len(e) = b
  BY <1>2, <1>4, <1>6
<1> QED
  BY <1>2, <1>4, <1>5, <1>6, <1>7 DEF n, b, e

(* The remainder of a hash is an index of the block; each slot that holds  *)
(* the first turn of a nexthop is the remainder of some hash.              *)
LEMMA FlowsReachTheList ==
  ASSUME Listed
  PROVE  EveryNexthopReached
<1> SUFFICES ASSUME nh # <<>>
             PROVE  {BlockOfList[Masked(hash, Len(BlockOfList)) + 1] : hash \in Bmv2Hashes}
                      = Range(nh)
  BY DEF EveryNexthopReached
<1> DEFINE n == Len(nh)  b == BlockSize(n)  e == BlockOfList
<1>1. /\ n \in Nat /\ n + 1 <= 2^HashBits /\ DOMAIN nh = 1 .. n
      /\ 2^HashBits \in Nat
  BY ListLength, PowersAreNat
<1>2. /\ b \in Nat \ {0} /\ n <= b /\ Len(e) = b /\ DOMAIN e = 1 .. b
      /\ \A y \in 1 .. b : e[y] = nh[((y - 1) % n) + 1]
      /\ Range(e) = Range(nh)
  BY Slots
<1> HIDE DEF n, b, e
<1>3. \A hash : Masked(hash, b) = hash % b
  BY <1>2 DEF Masked
<1>4. ASSUME NEW hash \in Bmv2Hashes  PROVE e[Masked(hash, b) + 1] \in Range(nh)
  <2>1. hash \in Nat
    BY DEF Bmv2Hashes
  <2>2. (hash % b) + 1 \in 1 .. b
    BY <1>2, <2>1
  <2> QED
    BY <1>2, <1>3, <2>2 DEF Range
<1>5. ASSUME NEW x \in 1 .. n
      PROVE  \E hash \in Bmv2Hashes : nh[x] = e[Masked(hash, b) + 1]
  <2>1. x - 1 \in Bmv2Hashes
    BY <1>1 DEF Bmv2Hashes
  <2>2. (x - 1) % b = x - 1 /\ (x - 1) % n = x - 1 /\ x \in 1 .. b
    <3>1. n \in Nat \ {0} /\ x \in 1 .. b
      BY <1>1, <1>2
    <3> QED
      BY <1>2, <3>1, FirstTurn
  <2>3. Masked(x - 1, b) + 1 = x /\ e[x] = nh[x]
    BY <1>2, <1>3, <2>2
  <2> QED
    BY <2>1, <2>3
<1>6. {e[Masked(hash, b) + 1] : hash \in Bmv2Hashes} = Range(nh)
  BY <1>1, <1>4, <1>5 DEF Range
<1> QED
  BY <1>2, <1>6 DEF e

LEMMA BlockIsFourTimesTheList ==
  ASSUME NEW n \in Nat \ {0}, n # 1, n <= 2^HashBits
  PROVE  4 <= BlockSize(n) \div n
<1> DEFINE m == LeastPowerOfTwo(n)
<1>1. m \in Nat \ {0} /\ n <= m
  BY LeastPowerOfTwoFits, PowersAreNat
<1>2. BlockSize(n) = 4 * m
  BY DEF BlockSize
<1> HIDE DEF m
<1>3. 4 * m \in Nat /\ n * 4 <= 4 * m /\ 4 \in Nat
  BY <1>1
<1> QED
  BY <1>2, <1>3, QuotientAtLeast

(* The slots of the x-th nexthop of a list are its turns. *)
LEMMA SlotsAreShares ==
  ASSUME Listed, nh # <<>>, NEW x \in 1 .. Len(nh)
  PROVE  Cardinality({y \in DOMAIN BlockOfList : BlockOfList[y] = nh[x]})
           = Share(BlockSize(Len(nh)), Len(nh), x)
<1> DEFINE n == Len(nh)  b == BlockSize(n)  e == BlockOfList
           turn(y) == ((y - 1) % n) + 1
<1>1. /\ b \in Nat /\ n \in Nat \ {0} /\ DOMAIN e = 1 .. b
      /\ \A y \in 1 .. b : turn(y) \in 1 .. n /\ e[y] = nh[turn(y)]
  BY Slots, ListLength
<1>2. \A i, j \in 1 .. n : nh[i] = nh[j] => i = j
  BY ListLength DEF Listed, IsInjective
<1>3. Cardinality({y \in 1 .. b : turn(y) = x}) = Share(b, n, x)
  <2> HIDE DEF n, b
  <2> QED
    BY <1>1, Turns DEF n
<1> HIDE DEF e, turn, b
<1>4. {y \in DOMAIN e : e[y] = nh[x]} = {y \in 1 .. b : turn(y) = x}
  BY <1>1, <1>2
<1> QED
  BY <1>3, <1>4 DEF e, b

LEMMA SharesAreFair ==
  ASSUME Listed
  PROVE  FairShares
<1> DEFINE n == Len(nh)
           q == BlockSize(n) \div n
           slots == [m \in Range(nh) |->
                       Cardinality({y \in DOMAIN BlockOfList : BlockOfList[y] = m})]
<1> SUFFICES ASSUME NEW i \in Range(nh), NEW j \in Range(nh)
             PROVE  slots[i] <= slots[j] + 1 /\ 4 * (slots[i] - slots[j]) <= slots[j]
  BY DEF FairShares
<1>1. DOMAIN nh = 1 .. n /\ n \in Nat /\ n <= 2^HashBits
  BY ListLength, PowersAreNat
<1>2. PICK x \in 1 .. n, y \in 1 .. n : i = nh[x] /\ j = nh[y]
  BY <1>1 DEF Range
<1>3. n \in Nat \ {0} /\ nh # <<>>
  BY <1>1, <1>2
<1>4. BlockSize(n) \in Nat
  BY <1>3, Slots
<1>5. /\ slots[i] \in Nat /\ q <= slots[i] /\ slots[i] <= q + 1
      /\ slots[j] \in Nat /\ q <= slots[j] /\ slots[j] <= q + 1
  <2>1. /\ slots[i] = Share(BlockSize(n), n, x)
        /\ slots[j] = Share(BlockSize(n), n, y)
    BY <1>2, <1>3, SlotsAreShares
  <2> HIDE DEF slots, n
  <2> QED
    BY <1>2, <1>3, <1>4, <2>1, ShareBounds
<1>6. q \in Nat
  BY <1>3, <1>4, DivMod
<1>7. CASE n = 1
  <2>1. i = j
    BY <1>2, <1>7
  <2> HIDE DEF slots
  <2> QED
    BY <1>5, <2>1
<1>8. CASE n # 1
  <2>1. 4 <= q
    BY <1>1, <1>3, <1>8, BlockIsFourTimesTheList
  <2> HIDE DEF slots, q
  <2> QED
    BY <1>5, <1>6, <2>1
<1> QED
  BY <1>7, <1>8

-----------------------------------------------------------------------------
(***************************************************************************)
(* The table of consistent hashing and its virtual nodes.                  *)
(***************************************************************************)
LEMMA LeastOf ==
  ASSUME NEW S \in SUBSET Nat, S # {}
  PROVE  Min(S) \in S /\ \A k \in S : Min(S) <= k
<1>1. \E m \in S : \A k \in S : m <= k
  BY LeastElement
<1>2. Min(S) \in S /\ \A k \in S : Min(S) =< k
  BY <1>1, Zenon DEF Min
<1> QED
  BY <1>2

LEMMA LeastIs ==
  ASSUME NEW S \in SUBSET Nat, NEW m \in S, \A k \in S : m <= k
  PROVE  Min(S) = m
<1> DEFINE least == Min(S)
<1>1. least \in S /\ \A k \in S : least <= k
  BY LeastOf
<1> HIDE DEF least
<1>2. least = m
  BY <1>1
<1> QED
  BY <1>2 DEF least

(* The table has a bucket for each nexthop, and each bucket has a hash. *)
LEMMA TableFits ==
  ASSUME NEW n \in Nat \ {0}, n <= MaxHashed
  PROVE  /\ Buckets(n) \in Nat \ {0}
         /\ n <= Buckets(n)
         /\ Buckets(n) + 1 <= 2^HashBits
<1> DEFINE Sizes(k) == {m \in PowersOfTwo : m >= k /\ m >= MinBuckets}
<1>1. /\ \A k : Sizes(k) \in SUBSET Nat
      /\ 2^HashBits \in Nat /\ MinBuckets \in Nat /\ MaxHashed \in Nat
  BY PowersAreNat, BucketsAssumption
<1>2. Sizes(MaxHashed) # {}
  <2>1. CASE MaxHashed <= MinBuckets
    BY <1>1, <2>1, BucketsAssumption
  <2>2. CASE ~ (MaxHashed <= MinBuckets)
    <3>1. 2^HashBits >= MaxHashed /\ 2^HashBits >= MinBuckets
      BY <1>1, <2>2, BucketsAssumption
    <3> QED
      BY <3>1, PowersAreNat
  <2> QED
    BY <2>1, <2>2
<1>3. \A k : Buckets(k) = Min(Sizes(k))
  BY DEF Buckets
<1>4. Buckets(MaxHashed) \in Sizes(MaxHashed)
  <2> HIDE DEF Sizes
  <2> QED
    BY <1>1, <1>2, <1>3, LeastOf
<1>5. Buckets(MaxHashed) \in Sizes(n)
  BY <1>1, <1>4, PowersAreNat
<1>6. Buckets(n) \in Sizes(n) /\ Buckets(n) <= Buckets(MaxHashed)
  <2> HIDE DEF Sizes
  <2> QED
    BY <1>1, <1>3, <1>5, LeastOf
<1>7. Buckets(n) \in Nat \ {0} /\ n <= Buckets(n) /\ Buckets(MaxHashed) \in Nat
  BY <1>4, <1>6, PowersAreNat
<1>8. Buckets(n) + 1 <= 2^HashBits
  <2> HIDE DEF Sizes
  <2> QED
    BY <1>1, <1>6, <1>7, BucketsAssumption
<1> QED
  BY <1>7, <1>8

LEMMA NodesFit ==
  ASSUME NEW n \in Nat \ {0}, n <= MaxHashed
  PROVE  NhNodes(n) \in Nat /\ n <= NhNodes(n)
<1>1. NrVirtual(n) \in Nat
  <2>1. Buckets(n) \in Nat
    BY TableFits
  <2>2. Buckets(n) * 95 \in Nat /\ 100 \in Nat \ {0}
    BY <2>1
  <2> DEFINE p == Buckets(n) * 95
  <2>3. p \div 100 \in Nat
    <3> HIDE DEF p
    <3> QED
      BY <2>2, DivMod DEF p
  <2> QED
    BY <2>3 DEF NrVirtual
<1> HIDE DEF NrVirtual
<1> QED
  BY <1>1 DEF NhNodes

(* The nexthop of each virtual node, and how many each nexthop has: the    *)
(* nexthops take turns.                                                    *)
OwnedBy(m) == {v \in DOMAIN owner : owner[v] = m}

TurnsTaken ==
  /\ stage \in {"listing", "placing", "populated"}
  /\ stage = "listing" => owner = <<>>
  /\ stage # "listing" =>
       /\ Len(nh) \in 2 .. MaxHashed
       /\ DOMAIN owner \subseteq 0 .. Buckets(Len(nh)) - 1
       /\ \A v \in DOMAIN owner : owner[v] \in Range(nh)
       /\ \A x \in 1 .. Len(nh) : Cardinality(OwnedBy(nh[x])) = Share(Placed, Len(nh), x)
  /\ stage = "populated" => Placed = NhNodes(Len(nh))

IInv == Listed /\ TurnsTaken

LEMMA NodesFinite ==
  ASSUME TurnsTaken
  PROVE  IsFiniteSet(DOMAIN owner) /\ Placed \in Nat
<1>1. IsFiniteSet(DOMAIN owner)
  <2>1. CASE stage = "listing"
    <3>1. DOMAIN owner = {}
      BY <2>1 DEF TurnsTaken
    <3> QED
      BY <3>1, FS_EmptySet
  <2>2. CASE stage # "listing"
    <3>1. Len(nh) \in Nat \ {0} /\ Len(nh) <= MaxHashed
      BY <2>2, BucketsAssumption DEF TurnsTaken
    <3>2. Buckets(Len(nh)) - 1 \in Int
      BY <3>1, TableFits
    <3>3. IsFiniteSet(0 .. Buckets(Len(nh)) - 1)
      BY <3>2, FS_Interval
    <3>4. DOMAIN owner \in SUBSET (0 .. Buckets(Len(nh)) - 1)
      BY <2>2 DEF TurnsTaken
    <3> QED
      BY <3>3, <3>4, FS_Subset
  <2> QED
    BY <2>1, <2>2
<1> QED
  BY <1>1, FS_CardinalityType DEF Placed

LEMMA ListKeeps ==
  ASSUME IInv, NEW m \in Nexthops, List(m)
  PROVE  IInv'
<1>1. Listed'
  BY AppendKeepsListed DEF IInv, List
<1>2. stage = "listing" /\ stage' = stage /\ owner' = owner
  BY DEF List
<1> QED
  BY <1>1, <1>2 DEF IInv, TurnsTaken

LEMMA PopulateKeeps ==
  ASSUME IInv, Populate
  PROVE  IInv'
<1>1. /\ stage' = "placing" /\ nh' = nh /\ owner' = <<>>
      /\ Len(nh) \in 2 .. MaxHashed
  BY DEF Populate, IInv, TurnsTaken
<1>2. Listed'
  BY <1>1 DEF IInv, Listed
<1>3. DOMAIN owner' = {}
  BY <1>1
<1>4. Placed' = 0
  BY <1>3, FS_EmptySet DEF Placed
<1>5. \A x \in 1 .. Len(nh') : Cardinality(OwnedBy(nh[x])') = Share(Placed', Len(nh'), x)
  <2> TAKE x \in 1 .. Len(nh')
  <2>1. OwnedBy(nh[x])' = {}
    BY <1>3 DEF OwnedBy
  <2>2. Len(nh') \in Nat \ {0} /\ Len(nh') = Len(nh)
    BY <1>1
  <2>3. Share(0, Len(nh'), x) = 0
    BY <2>2, ShareOfNone
  <2> QED
    BY <1>4, <2>1, <2>3, FS_EmptySet
<1>6. TurnsTaken'
  BY <1>1, <1>3, <1>5 DEF TurnsTaken
<1> QED
  BY <1>2, <1>6 DEF IInv

(* The next virtual node is one of the nexthop whose turn it is. *)
LEMMA PlaceKeeps ==
  ASSUME IInv, Place
  PROVE  IInv'
<1> DEFINE n == Len(nh)  p == Placed  b == Buckets(n)  turn == (p % n) + 1
<1>1. PICK v \in 0 .. b - 1 :
        /\ v \notin DOMAIN owner
        /\ owner' = [w \in DOMAIN owner \cup {v} |->
                       IF w = v THEN nh[turn] ELSE owner[w]]
  BY DEF Place
<1>2. stage = "placing" /\ stage' = stage /\ nh' = nh
  BY DEF Place
<1>3. Listed'
  BY <1>2 DEF IInv, Listed
<1>4. /\ n \in 2 .. MaxHashed /\ DOMAIN owner \subseteq 0 .. b - 1
      /\ \A w \in DOMAIN owner : owner[w] \in Range(nh)
      /\ \A x \in 1 .. n : Cardinality(OwnedBy(nh[x])) = Share(p, n, x)
  BY <1>2 DEF IInv, TurnsTaken
<1>5. /\ n \in Nat \ {0} /\ p \in Nat /\ IsFiniteSet(DOMAIN owner)
      /\ DOMAIN nh = 1 .. n
  BY <1>4, NodesFinite, ListLength DEF IInv
<1>6. DOMAIN owner' = DOMAIN owner \cup {v} /\ owner'[v] = nh[turn]
      /\ \A w \in DOMAIN owner : owner'[w] = owner[w]
  BY <1>1
<1>7. Placed' = p + 1
  BY <1>1, <1>5, <1>6, FS_AddElement DEF Placed
<1>8. turn \in 1 .. n
  <2> HIDE DEF n, p
  <2> QED
    BY <1>5
<1>9. \A i, j \in 1 .. n : nh[i] = nh[j] => i = j
  BY <1>5 DEF IInv, Listed, IsInjective
<1>10. ASSUME NEW x \in 1 .. n
       PROVE  Cardinality(OwnedBy(nh[x])') = Share(p + 1, n, x)
  <2> DEFINE O == OwnedBy(nh[x])
  <2>1. Cardinality(O) = Share(p, n, x)
    BY <1>4
  <2>2. IsFiniteSet(O)
    BY <1>5, FS_Subset DEF OwnedBy
  <2>3. Share(p + 1, n, x) = Share(p, n, x) + (IF turn = x THEN 1 ELSE 0)
    <3> HIDE DEF n, p
    <3> QED
      BY <1>5, ShareStep
  <2>4. Share(p, n, x) \in Nat
    <3> HIDE DEF n, p
    <3> QED
      BY <1>5, ShareBounds
  <2>5. v \notin O
    BY <1>1 DEF OwnedBy
  <2>6. CASE turn = x
    <3>1. OwnedBy(nh[x])' = O \cup {v}
      BY <1>1, <1>2, <1>6, <2>6 DEF OwnedBy
    <3>2. Cardinality(O \cup {v}) = Cardinality(O) + 1
      BY <2>2, <2>5, FS_AddElement
    <3> QED
      BY <2>1, <2>3, <2>6, <3>1, <3>2
  <2>7. CASE turn # x
    <3>1. nh[turn] # nh[x]
      BY <1>8, <1>9, <2>7
    <3>2. OwnedBy(nh[x])' = O
      BY <1>1, <1>2, <1>6, <3>1 DEF OwnedBy
    <3>3. Share(p + 1, n, x) = Share(p, n, x) + 0
      BY <2>3, <2>7
    <3> QED
      BY <2>1, <2>4, <3>2, <3>3
  <2> QED
    BY <2>6, <2>7
<1>11. /\ DOMAIN owner' \subseteq 0 .. b - 1
       /\ \A w \in DOMAIN owner' : owner'[w] \in Range(nh)
  BY <1>1, <1>4, <1>5, <1>6, <1>8 DEF Range
<1> HIDE DEF p, turn
<1>12. TurnsTaken'
  BY <1>2, <1>4, <1>7, <1>10, <1>11 DEF TurnsTaken
<1> QED
  BY <1>3, <1>12 DEF IInv

LEMMA PlacingDoneKeeps ==
  ASSUME IInv, PlacingDone
  PROVE  IInv'
<1>1. /\ stage = "placing" /\ stage' = "populated" /\ nh' = nh /\ owner' = owner
      /\ Placed = NhNodes(Len(nh))
  BY DEF PlacingDone
<1>2. Placed' = Placed /\ \A m : OwnedBy(m)' = OwnedBy(m)
  BY <1>1 DEF Placed, OwnedBy
<1> QED
  BY <1>1, <1>2 DEF IInv, Listed, TurnsTaken

(* While populate places the virtual nodes, the nexthops take turns: each  *)
(* has its share of the nodes placed so far.                               *)
THEOREM TurnsAreTaken == ChSpec => []IInv
<1>1. ChInit => IInv
  BY DEF ChInit, Init, IInv, Listed, TurnsTaken, IsInjective
<1>2. IInv /\ [ChNext]_chVars => IInv'
  <2> SUFFICES ASSUME IInv, [ChNext]_chVars
               PROVE  IInv'
    OBVIOUS
  <2>1. ASSUME NEW m \in Nexthops, List(m)  PROVE IInv'
    BY <2>1, ListKeeps
  <2>2. CASE Populate
    BY <2>2, PopulateKeeps
  <2>3. CASE Place
    BY <2>3, PlaceKeeps
  <2>4. CASE PlacingDone
    BY <2>4, PlacingDoneKeeps
  <2>5. CASE UNCHANGED chVars
    <3>1. nh' = nh /\ stage' = stage /\ owner' = owner
      BY <2>5 DEF chVars
    <3>2. Placed' = Placed /\ \A m : OwnedBy(m)' = OwnedBy(m)
      BY <3>1 DEF Placed, OwnedBy
    <3> QED
      BY <3>1, <3>2 DEF IInv, Listed, TurnsTaken
  <2> QED
    BY <2>1, <2>2, <2>3, <2>4, <2>5 DEF ChNext
<1> QED
  BY <1>1, <1>2, PTL DEF ChSpec

-----------------------------------------------------------------------------
(***************************************************************************)
(* The populated table.  A virtual node owns the bucket below its own, and *)
(* the one in the first bucket the last of the table.                      *)
(***************************************************************************)
BucketOf(v) == IF v = 0 THEN Buckets(Len(nh)) - 1 ELSE v - 1

Populated ==
  /\ Listed /\ TurnsTaken
  /\ stage = "populated"

LEMMA PopulatedFacts ==
  ASSUME Populated
  PROVE  /\ Len(nh) \in Nat \ {0} /\ Len(nh) <= MaxHashed
         /\ Buckets(Len(nh)) \in Nat \ {0}
         /\ Buckets(Len(nh)) + 1 <= 2^HashBits
         /\ 2^HashBits \in Nat
         /\ DOMAIN owner # {} /\ DOMAIN owner \subseteq 0 .. Buckets(Len(nh)) - 1
         /\ \A v \in DOMAIN owner : owner[v] \in Range(nh)
         /\ DOMAIN nh = 1 .. Len(nh)
<1> DEFINE n == Len(nh)
<1>1. /\ n \in Nat \ {0} /\ n <= MaxHashed
      /\ DOMAIN owner \subseteq 0 .. Buckets(n) - 1
      /\ \A v \in DOMAIN owner : owner[v] \in Range(nh)
      /\ Placed = NhNodes(n)
  BY BucketsAssumption DEF Populated, TurnsTaken
<1>2. DOMAIN nh = 1 .. n /\ 2^HashBits \in Nat
  BY ListLength, PowersAreNat DEF Populated
<1> HIDE DEF n
<1>3. Buckets(n) \in Nat \ {0} /\ Buckets(n) + 1 <= 2^HashBits
  BY <1>1, TableFits
<1>4. Placed # 0
  BY <1>1, NodesFit
<1>5. DOMAIN owner # {}
  BY <1>4, FS_EmptySet DEF Placed
<1> QED
  BY <1>1, <1>2, <1>3, <1>5 DEF n

LEMMA BucketIsOwned ==
  ASSUME Populated
  PROVE  \A b \in DOMAIN Bucket : Bucket[b] \in Range(nh)
<1> SUFFICES ASSUME NEW b \in DOMAIN Bucket PROVE Bucket[b] \in Range(nh)
  OBVIOUS
<1> DEFINE above == {v \in DOMAIN owner : v > b}
           from == IF above = {} THEN DOMAIN owner ELSE above
<1>1. Bucket[b] = owner[Min(from)]
  BY DEF Bucket
<1>2. /\ DOMAIN owner \in SUBSET Nat /\ DOMAIN owner # {}
      /\ \A v \in DOMAIN owner : owner[v] \in Range(nh)
  BY PopulatedFacts
<1>3. from \in SUBSET Nat /\ from # {} /\ from \subseteq DOMAIN owner
  BY <1>2
<1> HIDE DEF from
<1>4. Min(from) \in DOMAIN owner
  BY <1>3, LeastOf
<1> QED
  BY <1>1, <1>2, <1>4

LEMMA BucketOfNode ==
  ASSUME Populated, NEW v \in DOMAIN owner
  PROVE  /\ BucketOf(v) \in 0 .. Buckets(Len(nh)) - 1
         /\ BucketOf(v) \in DOMAIN Bucket
         /\ Bucket[BucketOf(v)] = owner[v]
<1> DEFINE B == Buckets(Len(nh))  b == BucketOf(v)
           above == {w \in DOMAIN owner : w > b}
           from == IF above = {} THEN DOMAIN owner ELSE above
<1>1. B \in Nat \ {0} /\ DOMAIN owner \subseteq 0 .. B - 1
  BY PopulatedFacts
<1>2. b = IF v = 0 THEN B - 1 ELSE v - 1
  BY DEF BucketOf
<1>3. b \in 0 .. B - 1
  <2> HIDE DEF B, b
  <2> QED
    BY <1>1, <1>2
<1>4. DOMAIN Bucket = 0 .. B - 1
  BY DEF Bucket
<1>5. Bucket[b] = owner[Min(from)]
  BY <1>3 DEF Bucket
<1>6. v \in from /\ from \in SUBSET Nat /\ \A k \in from : v <= k
  <2> HIDE DEF B, b
  <2>1. CASE v = 0
    <3>1. above = {}
      BY <1>1, <1>2, <2>1
    <3> QED
      BY <1>1, <2>1, <3>1
  <2>2. CASE v # 0
    <3>1. v \in above
      BY <1>1, <1>2, <2>2
    <3>2. from = above
      BY <3>1
    <3> QED
      BY <1>1, <1>2, <2>2, <3>1, <3>2
  <2> QED
    BY <2>1, <2>2
<1> HIDE DEF from, b
<1>7. Min(from) = v
  BY <1>6, LeastIs
<1> QED
  BY <1>3, <1>4, <1>5, <1>7 DEF b

(* A nexthop has as many buckets as virtual nodes, at least. *)
LEMMA SlotForEachNode ==
  ASSUME Populated, NEW m
  PROVE  LET slots == {b \in DOMAIN Bucket : Bucket[b] = m}
         IN IsFiniteSet(slots) /\ Cardinality(OwnedBy(m)) <= Cardinality(slots)
<1> DEFINE slots == {b \in DOMAIN Bucket : Bucket[b] = m}
           f == [v \in OwnedBy(m) |-> BucketOf(v)]
           B == Buckets(Len(nh))
<1>1. B \in Nat \ {0} /\ DOMAIN owner \subseteq 0 .. B - 1
  BY PopulatedFacts
<1>2. IsFiniteSet(slots)
  <2>1. DOMAIN Bucket = 0 .. B - 1
    BY DEF Bucket
  <2> HIDE DEF B
  <2>2. IsFiniteSet(0 .. B - 1)
    BY <1>1, FS_Interval
  <2> QED
    BY <2>1, <2>2, FS_Subset
<1>3. f \in [OwnedBy(m) -> slots]
  <2> SUFFICES ASSUME NEW v \in OwnedBy(m) PROVE BucketOf(v) \in slots
    OBVIOUS
  <2>1. v \in DOMAIN owner /\ owner[v] = m
    BY DEF OwnedBy
  <2> QED
    BY <2>1, BucketOfNode
<1>4. ASSUME NEW v \in OwnedBy(m), NEW w \in OwnedBy(m), f[v] = f[w]  PROVE v = w
  <2>1. v \in 0 .. B - 1 /\ w \in 0 .. B - 1
    BY <1>1 DEF OwnedBy
  <2>2. (IF v = 0 THEN B - 1 ELSE v - 1) = (IF w = 0 THEN B - 1 ELSE w - 1)
    BY <1>4 DEF BucketOf
  <2> HIDE DEF B
  <2> QED
    BY <1>1, <2>1, <2>2
<1>5. f \in Injection(OwnedBy(m), slots)
  <2> HIDE DEF f, slots
  <2> QED
    BY <1>3, <1>4 DEF Injection, IsInjective
<1> HIDE DEF f, slots
<1>6. Cardinality(OwnedBy(m)) <= Cardinality(slots)
  BY <1>2, <1>5, FS_Injection
<1> QED
  BY <1>2, <1>6 DEF slots

(* The even share is at least one, because populate places a node for each *)
(* nexthop of the list.                                                    *)
LEMMA EvenShare ==
  ASSUME Populated, NEW x \in 1 .. Len(nh)
  PROVE  /\ Cardinality(OwnedBy(nh[x])) \in Nat
         /\ 1 <= Cardinality(OwnedBy(nh[x]))
         /\ Max({1, NhNodes(Len(nh)) \div Len(nh)}) <= Cardinality(OwnedBy(nh[x]))
<1> DEFINE n == Len(nh)  q == NhNodes(n) \div n  c == Cardinality(OwnedBy(nh[x]))
<1>1. n \in Nat \ {0} /\ n <= MaxHashed
  BY PopulatedFacts
<1>2. c = Share(Placed, n, x) /\ Placed = NhNodes(n)
  BY DEF Populated, TurnsTaken
<1> HIDE DEF n, c
<1>3. NhNodes(n) \in Nat /\ n <= NhNodes(n)
  BY <1>1, NodesFit
<1>4. q \in Nat
  BY <1>1, <1>3, DivMod
<1>5. 1 <= q
  <2>1. n * 1 <= NhNodes(n)
    BY <1>1, <1>3
  <2> QED
    BY <1>1, <1>3, <2>1, QuotientAtLeast
<1>6. c \in Nat /\ q <= c
  BY <1>1, <1>2, <1>3, ShareBounds DEF n
<1> HIDE DEF q
<1>7. Max({1, q}) = q
  <2>1. \E i \in {1, q} : \A j \in {1, q} : i >= j
    BY <1>4, <1>5
  <2>2. Max({1, q}) \in {1, q} /\ \A j \in {1, q} : Max({1, q}) >= j
    BY <2>1, Zenon DEF Max
  <2> QED
    BY <1>4, <1>5, <2>2
<1>8. 1 <= c /\ Max({1, q}) <= c
  BY <1>4, <1>5, <1>6, <1>7
<1> QED
  BY <1>6, <1>8 DEF n, q, c

LEMMA FlowsReachTheTable ==
  ASSUME Populated
  PROVE  {Bucket[Masked(hash, Buckets(Len(nh)))] : hash \in Bmv2Hashes} = Range(nh)
<1> DEFINE n == Len(nh)  B == Buckets(n)
<1>1. /\ B \in Nat \ {0} /\ B + 1 <= 2^HashBits /\ 2^HashBits \in Nat
      /\ DOMAIN nh = 1 .. n
  BY PopulatedFacts
<1>2. DOMAIN Bucket = 0 .. B - 1
  BY DEF Bucket
<1>3. \A hash : Masked(hash, B) = hash % B
  <2> HIDE DEF B
  <2> QED
    BY <1>1 DEF Masked
<1>4. ASSUME NEW hash \in Bmv2Hashes  PROVE Bucket[Masked(hash, B)] \in Range(nh)
  <2>1. hash \in Nat
    BY DEF Bmv2Hashes
  <2> HIDE DEF B
  <2>2. hash % B \in 0 .. B - 1
    BY <1>1, <2>1
  <2> QED
    BY <1>2, <1>3, <2>2, BucketIsOwned
<1>5. ASSUME NEW x \in 1 .. n
      PROVE  \E hash \in Bmv2Hashes : nh[x] = Bucket[Masked(hash, B)]
  <2>1. OwnedBy(nh[x]) # {}
    <3>1. 1 <= Cardinality(OwnedBy(nh[x]))
      BY EvenShare
    <3> QED
      BY <3>1, FS_EmptySet
  <2>2. PICK v \in DOMAIN owner : owner[v] = nh[x]
    BY <2>1 DEF OwnedBy
  <2> DEFINE b == BucketOf(v)
  <2>3. b \in 0 .. B - 1 /\ Bucket[b] = nh[x]
    BY <2>2, BucketOfNode
  <2> HIDE DEF b, B
  <2>4. b \in Bmv2Hashes
    BY <1>1, <2>3 DEF Bmv2Hashes
  <2>5. b % B = b
    <3>1. b + 1 \in 1 .. B /\ (b + 1) - 1 = b
      BY <1>1, <2>3
    <3>2. ((b + 1) - 1) % B = (b + 1) - 1
      BY <1>1, <3>1, FirstTurn
    <3> QED
      BY <3>1, <3>2
  <2> QED
    BY <1>3, <2>3, <2>4, <2>5
<1> HIDE DEF B, n
<1>6. {Bucket[Masked(hash, B)] : hash \in Bmv2Hashes} = Range(nh)
  BY <1>1, <1>4, <1>5 DEF Range
<1> QED
  BY <1>6 DEF B, n

LEMMA TableIsFair ==
  ASSUME IInv
  PROVE  NoStarvation
<1> SUFFICES ASSUME stage = "populated"  PROVE NoStarvation
  BY DEF NoStarvation
<1>1. Populated
  BY DEF IInv, Populated
<1>2. ASSUME NEW x \in DOMAIN nh
      PROVE  Cardinality({b \in DOMAIN Bucket : Bucket[b] = nh[x]})
               >= Max({1, NhNodes(Len(nh)) \div Len(nh)})
  <2> DEFINE slots == {b \in DOMAIN Bucket : Bucket[b] = nh[x]}
             least == Max({1, NhNodes(Len(nh)) \div Len(nh)})
             c == Cardinality(OwnedBy(nh[x]))
  <2>1. x \in 1 .. Len(nh)
    BY <1>1, PopulatedFacts
  <2>2. IsFiniteSet(slots) /\ c <= Cardinality(slots)
    BY <1>1, SlotForEachNode
  <2>3. c \in Nat /\ least <= c
    BY <1>1, <2>1, EvenShare
  <2>4. least \in Int
    <3> DEFINE q == NhNodes(Len(nh)) \div Len(nh)
    <3>1. Len(nh) \in Nat \ {0} /\ NhNodes(Len(nh)) \in Nat
      BY <1>1, PopulatedFacts, NodesFit
    <3>2. q \in Nat
      BY <3>1, DivMod
    <3> HIDE DEF q
    <3>3. \E i \in {1, q} : \A j \in {1, q} : i >= j
      BY <3>2
    <3>4. Max({1, q}) \in {1, q}
      BY <3>3, Zenon DEF Max
    <3>5. Max({1, q}) \in Int
      BY <3>2, <3>4
    <3> QED
      BY <3>5 DEF q
  <2>5. Cardinality(slots) \in Nat
    BY <2>2, FS_CardinalityType
  <2> HIDE DEF slots, least, c
  <2>6. Cardinality(slots) >= least
    BY <2>2, <2>3, <2>4, <2>5
  <2> QED
    BY <2>6 DEF slots, least
<1> QED
  BY <1>1, <1>2, FlowsReachTheTable, Zenon DEF NoStarvation

-----------------------------------------------------------------------------
(* Whatever list append_cur_nexthop has made, the block of _expand_nh      *)
(* sends each flow to a nexthop of the list, and leaves none of them out.  *)
THEOREM FlowsReachEveryNexthop == ChSpec => []EveryNexthopReached
<1>1. IInv => EveryNexthopReached
  BY FlowsReachTheList DEF IInv
<1> QED
  BY <1>1, TurnsAreTaken, PTL

(* The block of _expand_nh, four times the list rounded up to a power of   *)
(* two, favours no nexthop by more than a slot, a fourth of a share.       *)
THEOREM BlocksAreFair == ChSpec => []FairShares
<1>1. IInv => FairShares
  BY SharesAreFair DEF IInv
<1> QED
  BY <1>1, TurnsAreTaken, PTL

(* Wherever md5 puts the virtual nodes of _expand_nh_with_chash, each      *)
(* nexthop has its even share of the table and gets flows.                 *)
THEOREM NobodyStarves == ChSpec => []NoStarvation
<1>1. IInv => NoStarvation
  BY TableIsFair
<1> QED
  BY <1>1, TurnsAreTaken, PTL
=============================================================================
