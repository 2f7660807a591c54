-------------------------- MODULE NhExpansionProofs --------------------------
(***************************************************************************)
(* What _expand_nh returns, for lists of every length.                     *)
(***************************************************************************)
EXTENDS NhExpansion, Functions, WellFoundedInduction, TLAPS

(* A set of naturals that is not empty has a least element. *)
LEMMA LeastElement ==
  ASSUME NEW S \in SUBSET Nat, S # {}
  PROVE  \E m \in S : \A k \in S : m <= k
<1>1. PICK m \in S : \A k \in S : ~ (<<k, m>> \in OpToRel(<, Nat))
  BY WFMin, NatLessThanWellFounded
<1>2. \A k \in S : <<k, m>> \in OpToRel(<, Nat) <=> k < m
  BY DEF OpToRel
<1>3. \A k \in S : ~ (k < m)
  BY <1>1, <1>2, Zenon
<1> HIDE <1>1, <1>2
<1> QED
  BY <1>3

LEMMA PowersAreNat ==
  /\ \A m \in PowersOfTwo : m \in Nat \ {0}
  /\ 2^HashBits \in PowersOfTwo
BY HashBitsAssumption, PowersAssumption DEF PowersOfTwo

(* The loop "while m < n" of _expand_nh ends at a power of two that is at  *)
(* least n, unless n exceeds the number of hash values.                    *)
LEMMA LeastPowerOfTwoFits ==
  ASSUME NEW n \in Nat, n <= 2^HashBits
  PROVE  LeastPowerOfTwo(n) \in PowersOfTwo /\ n <= LeastPowerOfTwo(n)
<1> DEFINE S == {m \in PowersOfTwo : n <= m}
<1>1. S \in SUBSET Nat /\ S # {}
  BY PowersAreNat
<1>2. PICK m \in S : \A k \in S : m <= k
  <2> HIDE DEF S
  <2> QED BY <1>1, LeastElement
<1>3. \E i \in PowersOfTwo : i >= n /\ \A k \in PowersOfTwo : k >= n => i <= k
  BY <1>2, PowersAreNat
<1> QED
  BY <1>3, PowersAreNat DEF LeastPowerOfTwo

LEMMA BlockSizeFits ==
  ASSUME NEW n \in Nat \ {0}, n <= 2^HashBits
  PROVE  BlockSize(n) \in Nat \ {0} /\ n <= BlockSize(n)
<1>1. LeastPowerOfTwo(n) \in Nat \ {0} /\ n <= LeastPowerOfTwo(n)
  BY LeastPowerOfTwoFits, PowersAreNat
<1> HIDE DEF LeastPowerOfTwo
<1> QED
  BY <1>1 DEF BlockSize

(* Slot x of a block holds an element of the list it was made of. *)
LEMMA SlotInList ==
  ASSUME NEW n \in Nat \ {0}, NEW x \in Nat \ {0}
  PROVE  ((x - 1) % n) + 1 \in 1 .. n
OBVIOUS

(* The block of a list consists of the nexthops of the list. *)
THEOREM ExpansionType ==
  ASSUME NEW S, NEW nh \in Seq(S), Len(nh) <= 2^HashBits
  PROVE  ExpandNh(nh) \in Seq(S)
<1>1. CASE nh = <<>>
  BY <1>1 DEF ExpandNh
<1>2. CASE nh # <<>>
  <2> DEFINE b == BlockSize(Len(nh))
  <2>1. Len(nh) \in Nat \ {0}
    BY <1>2
  <2>2. b \in Nat \ {0}
    BY <2>1, BlockSizeFits
  <2> HIDE DEF b
  <2>3. \A x \in 1 .. b : nh[((x - 1) % Len(nh)) + 1] \in S
    <3> TAKE x \in 1 .. b
    <3>1. ((x - 1) % Len(nh)) + 1 \in 1 .. Len(nh)
      BY <2>1, <2>2, SlotInList
    <3> QED
      BY <3>1
  <2>4. [x \in 1 .. b |-> nh[((x - 1) % Len(nh)) + 1]] \in Seq(S)
    BY <2>2, <2>3
  <2> QED
    BY <1>2, <2>4 DEF ExpandNh, b
<1> QED
  BY <1>1, <1>2

(* No nexthop is lost and none is added: each has a slot of the block.     *)
THEOREM ExpansionRange ==
  ASSUME NEW S, NEW nh \in Seq(S), Len(nh) <= 2^HashBits
  PROVE  Range(ExpandNh(nh)) = Range(nh)
<1>1. CASE nh = <<>>
  BY <1>1 DEF ExpandNh
<1>2. CASE nh # <<>>
  <2> DEFINE n == Len(nh)  b == BlockSize(n)  e == ExpandNh(nh)
  <2>1. n \in Nat \ {0} /\ DOMAIN nh = 1 .. n
    BY <1>2
  <2>2. b \in Nat \ {0} /\ n <= b
    BY <2>1, BlockSizeFits
  <2>3. e = [x \in 1 .. b |-> nh[((x - 1) % n) + 1]]
    BY <1>2 DEF ExpandNh
  <2> HIDE DEF b, n, e
  <2>4. \A x \in 1 .. b : ((x - 1) % n) + 1 \in 1 .. n
    BY <2>1, <2>2, SlotInList
  <2>5. \A x \in 1 .. n : ((x - 1) % n) + 1 = x
    BY <2>1
  <2>6. DOMAIN e = 1 .. b /\ \A x \in 1 .. b : e[x] = nh[((x - 1) % n) + 1]
    BY <2>3
  <2>7. Range(e) \subseteq Range(nh)
    BY <2>1, <2>4, <2>6 DEF Range
  <2>8. ASSUME NEW x \in 1 .. n  PROVE nh[x] \in Range(e)
    <3>1. x \in 1 .. b
      BY <2>1, <2>2
    <3>2. e[x] = nh[x]
      BY <2>5, <2>6, <3>1
    <3> QED
      BY <2>6, <3>1, <3>2 DEF Range
  <2>9. Range(nh) \subseteq Range(e)
    BY <2>1, <2>8 DEF Range
  <2> QED
    BY <2>7, <2>9 DEF e
<1> QED
  BY <1>1, <1>2
=============================================================================
