----------------------------- MODULE ErStatProofs -----------------------------
(***************************************************************************)
(* What er-stat shows, for any number of CPUs, interfaces, frames and      *)
(* processes.                                                              *)
(***************************************************************************)
EXTENDS ErStat, SequenceTheorems, WellFoundedInduction, TLAPS

-----------------------------------------------------------------------------
(***************************************************************************)
(* Sums over CPUs.  Induction goes by the least counterexample.            *)
(***************************************************************************)
LEMMA LeastElement ==
  ASSUME NEW S \in SUBSET Nat, S # {}
  PROVE  \E m \in S : \A k \in S : m <= k
<1>1. PICK m \in S : \A k \in S : ~ (<<k, m>> \in OpToRel(<, Nat))
  BY WFMin, NatLessThanWellFounded
<1>2. \A k \in S : <<k, m>> \in OpToRel(<, Nat) <=> k < m
  BY DEF OpToRel
<1>3. \A k \in S : ~ (k < m)
  BY <1>1, <1>2, Zenon
<1> HIDE <1>1, <1>2
<1> QED
  BY <1>3

(* A set of naturals that has 0 and the successors of its elements. *)
LEMMA NatSet ==
  ASSUME NEW S \in SUBSET Nat, 0 \in S, \A n \in S : n + 1 \in S
  PROVE  S = Nat
<1> SUFFICES ASSUME Nat \ S # {} PROVE FALSE
  OBVIOUS
<1>1. PICK m \in Nat \ S : \A k \in Nat \ S : m <= k
  BY LeastElement
<1>2. m - 1 \in S
  BY <1>1
<1> QED
  BY <1>1, <1>2

Sums(v, n, s) == s = [k \in 0 .. n |-> IF k = 0 THEN 0 ELSE s[k - 1] + v[k - 1]]

LEMMA SumsExist ==
  ASSUME NEW v
  PROVE  \A n \in Nat : \E s : Sums(v, n, s)
<1> DEFINE S == {n \in Nat : \E s : Sums(v, n, s)}
<1>1. 0 \in S
  <2>1. Sums(v, 0, [k \in 0 .. 0 |-> 0])
    BY DEF Sums
  <2> QED
    BY <2>1
<1>2. ASSUME NEW n \in S  PROVE n + 1 \in S
  <2>1. PICK s : Sums(v, n, s)
    BY <1>2
  <2> DEFINE t == [k \in 0 .. n + 1 |-> IF k = n + 1 THEN s[n] + v[n] ELSE s[k]]
             u == [k \in 0 .. n + 1 |-> IF k = 0 THEN 0 ELSE t[k - 1] + v[k - 1]]
  <2>2. \A k \in 0 .. n : s[k] = IF k = 0 THEN 0 ELSE s[k - 1] + v[k - 1]
    BY <2>1 DEF Sums
  <2>3. ASSUME NEW k \in 0 .. n + 1  PROVE t[k] = u[k]
    <3>1. CASE k = n + 1
      BY <3>1
    <3>2. CASE k = 0
      BY <2>2, <3>2
    <3>3. CASE k \in 1 .. n
      <4>1. k - 1 \in 0 .. n /\ k # n + 1 /\ k - 1 # n + 1 /\ k # 0
        BY <3>3
      <4>2. t[k] = s[k] /\ t[k - 1] = s[k - 1]
        BY <4>1
      <4> QED
        BY <2>2, <4>1, <4>2
    <3> QED
      BY <3>1, <3>2, <3>3
  <2>4. t = u
    BY <2>3
  <2>5. Sums(v, n + 1, t)
    BY <2>4, Zenon DEF Sums
  <2>6. n + 1 \in Nat
    OBVIOUS
  <2> HIDE DEF t
  <2> QED
    BY <2>5, <2>6
<1>3. S = Nat
  <2>1. S \in SUBSET Nat
    OBVIOUS
  <2> HIDE DEF S
  <2> QED
    BY <1>1, <1>2, <2>1, NatSet
<1> QED
  BY <1>3

(* The sums do not depend on how many there are. *)
LEMMA SumsAgree ==
  ASSUME NEW v, NEW n \in Nat, NEW s, NEW t, Sums(v, n, s), Sums(v, n + 1, t)
  PROVE  s[n] = t[n]
<1>1. /\ \A k \in 0 .. n : s[k] = IF k = 0 THEN 0 ELSE s[k - 1] + v[k - 1]
      /\ \A k \in 0 .. n + 1 : t[k] = IF k = 0 THEN 0 ELSE t[k - 1] + v[k - 1]
  BY DEF Sums
<1> DEFINE S == {k \in Nat : k <= n => s[k] = t[k]}
<1>2. 0 \in S
  BY <1>1
<1>3. ASSUME NEW k \in S  PROVE k + 1 \in S
  BY <1>1, <1>3
<1>4. S = Nat
  <2>1. S \in SUBSET Nat
    OBVIOUS
  <2> HIDE DEF S
  <2> QED
    BY <1>2, <1>3, <2>1, NatSet
<1> QED
  BY <1>4

LEMMA SumSteps ==
  ASSUME NEW v
  PROVE  /\ SumOf(v, 0) = 0
         /\ \A n \in Nat : SumOf(v, n + 1) = SumOf(v, n) + v[n]
<1> DEFINE f(n) == CHOOSE s : Sums(v, n, s)
<1>1. ASSUME NEW n \in Nat  PROVE Sums(v, n, f(n)) /\ SumOf(v, n) = f(n)[n]
  <2>1. \E s : Sums(v, n, s)
    BY SumsExist
  <2>2. Sums(v, n, f(n))
    BY <2>1, Zenon
  <2>3. SumOf(v, n) = f(n)[n]
    BY Zenon DEF SumOf, Sums
  <2> QED
    BY <2>2, <2>3, Zenon
<1> HIDE DEF f
<1>2. SumOf(v, 0) = 0
  BY <1>1 DEF Sums
<1>3. ASSUME NEW n \in Nat  PROVE SumOf(v, n + 1) = SumOf(v, n) + v[n]
  <2>1. n + 1 \in Nat
    OBVIOUS
  <2>2. Sums(v, n, f(n)) /\ Sums(v, n + 1, f(n + 1))
    BY <1>1, <2>1
  <2>3. SumOf(v, n) = f(n)[n] /\ SumOf(v, n + 1) = f(n + 1)[n + 1]
    BY <1>1, <2>1
  <2>4. f(n)[n] = f(n + 1)[n]
    BY <2>2, SumsAgree
  <2>5. f(n + 1)[n + 1] = f(n + 1)[n] + v[n]
    BY <2>2 DEF Sums
  <2> QED
    BY <2>3, <2>4, <2>5
<1> QED
  BY <1>2, <1>3

Values == [Cpus -> Int]

LEMMA SumType ==
  ASSUME NEW v \in Values, NEW n \in 0 .. NrPossibleCpus
  PROVE  SumOf(v, n) \in Int
<1> DEFINE S == {k \in Nat : k <= NrPossibleCpus => SumOf(v, k) \in Int}
<1>1. 0 \in S
  BY SumSteps
<1>2. ASSUME NEW k \in S  PROVE k + 1 \in S
  <2>1. SumOf(v, k + 1) = SumOf(v, k) + v[k]
    BY SumSteps
  <2> QED
    BY <1>2, <2>1, CountersAssumption DEF Values, Cpus
<1>3. S = Nat
  <2>1. S \in SUBSET Nat
    OBVIOUS
  <2> HIDE DEF S
  <2> QED
    BY <1>1, <1>2, <2>1, NatSet
<1> QED
  BY <1>3, CountersAssumption

LEMMA SumMonotone ==
  ASSUME NEW v \in Values, NEW w \in Values, \A c \in Cpus : v[c] <= w[c],
         NEW n \in 0 .. NrPossibleCpus
  PROVE  SumOf(v, n) <= SumOf(w, n)
<1> DEFINE S == {k \in Nat : k <= NrPossibleCpus => SumOf(v, k) <= SumOf(w, k)}
<1>1. 0 \in S
  BY SumSteps
<1>2. ASSUME NEW k \in S  PROVE k + 1 \in S
  <2> SUFFICES ASSUME k + 1 <= NrPossibleCpus
               PROVE  SumOf(v, k + 1) <= SumOf(w, k + 1)
    OBVIOUS
  <2>1. k \in Cpus /\ k \in 0 .. NrPossibleCpus
    BY CountersAssumption DEF Cpus
  <2>2. v[k] \in Int /\ w[k] \in Int /\ v[k] <= w[k]
    BY <2>1 DEF Values
  <2>3. SumOf(v, k) \in Int /\ SumOf(w, k) \in Int /\ SumOf(v, k) <= SumOf(w, k)
    BY <1>2, <2>1, SumType
  <2>4. SumOf(v, k + 1) = SumOf(v, k) + v[k] /\ SumOf(w, k + 1) = SumOf(w, k) + w[k]
    BY SumSteps
  <2> QED
    BY <2>2, <2>3, <2>4
<1>3. S = Nat
  <2>1. S \in SUBSET Nat
    OBVIOUS
  <2> HIDE DEF S
  <2> QED
    BY <1>1, <1>2, <2>1, NatSet
<1> QED
  BY <1>3, CountersAssumption

(* The sum up to n, and what of it lies behind the first d values, are not *)
(* negative if no value is.                                                *)
LEMMA SumOfNaturals ==
  ASSUME NEW v \in [Cpus -> Nat], NEW n \in 0 .. NrPossibleCpus, NEW d \in 0 .. n
  PROVE  SumOf(v, d) \in Nat /\ SumOf(v, n) \in Nat /\ SumOf(v, d) <= SumOf(v, n)
<1> DEFINE S == {k \in Nat : d <= k /\ k <= NrPossibleCpus => SumOf(v, d) <= SumOf(v, k)}
           Z == [c \in Cpus |-> 0]
<1>1. v \in Values /\ Z \in Values /\ d \in 0 .. NrPossibleCpus
  BY CountersAssumption DEF Values
<1>2. 0 \in S
  BY <1>1, SumType
<1>3. ASSUME NEW k \in S  PROVE k + 1 \in S
  <2> SUFFICES ASSUME d <= k + 1, k + 1 <= NrPossibleCpus
               PROVE  SumOf(v, d) <= SumOf(v, k + 1)
    OBVIOUS
  <2>1. k \in Cpus /\ k \in 0 .. NrPossibleCpus /\ k + 1 \in 0 .. NrPossibleCpus
    BY CountersAssumption DEF Cpus
  <2>2. v[k] \in Nat /\ SumOf(v, k) \in Int /\ SumOf(v, d) \in Int
    BY <1>1, <2>1, SumType
  <2>3. SumOf(v, k + 1) = SumOf(v, k) + v[k]
    BY SumSteps
  <2>4. CASE d = k + 1
    BY <2>2, <2>3, <2>4
  <2>5. CASE d <= k
    <3>1. SumOf(v, d) <= SumOf(v, k)
      BY <1>3, <2>1, <2>5
    <3> QED
      BY <2>2, <2>3, <3>1
  <2> QED
    BY <2>4, <2>5
<1>4. S = Nat
  <2>1. S \in SUBSET Nat
    OBVIOUS
  <2> HIDE DEF S
  <2> QED
    BY <1>2, <1>3, <2>1, NatSet
<1>5. SumOf(v, d) <= SumOf(v, n)
  BY <1>4, CountersAssumption
<1>6. ASSUME NEW k \in 0 .. NrPossibleCpus  PROVE SumOf(v, k) \in Nat
  <2>1. SumOf(v, k) \in Int
    BY <1>1, SumType
  <2> DEFINE T == {j \in Nat : j <= NrPossibleCpus => SumOf(v, j) \in Nat}
  <2>2. 0 \in T
    BY SumSteps
  <2>3. ASSUME NEW j \in T  PROVE j + 1 \in T
    <3>1. SumOf(v, j + 1) = SumOf(v, j) + v[j]
      BY SumSteps
    <3>2. j + 1 <= NrPossibleCpus => j \in Cpus
      BY CountersAssumption DEF Cpus
    <3> QED
      BY <2>3, <3>1, <3>2, CountersAssumption
  <2>4. T \in SUBSET Nat
    OBVIOUS
  <2>5. T = Nat
    <3> HIDE DEF T
    <3> QED
      BY <2>2, <2>3, <2>4, NatSet
  <2> QED
    BY <2>5, CountersAssumption
<1> QED
  BY <1>1, <1>5, <1>6

(* Growth of one value. *)
Increased(v, w, c, a) == \A g \in Cpus : w[g] = v[g] + IF g = c THEN a ELSE 0

Share(c, n, a) == IF c < n THEN a ELSE 0

LEMMA SumGrows ==
  ASSUME NEW v \in Values, NEW w \in Values, NEW c \in Cpus, NEW a \in Int,
         Increased(v, w, c, a), NEW n \in 0 .. NrPossibleCpus
  PROVE  SumOf(w, n) = SumOf(v, n) + Share(c, n, a)
<1> DEFINE S == {k \in Nat : k <= NrPossibleCpus =>
                               SumOf(w, k) = SumOf(v, k) + Share(c, k, a)}
<1>1. 0 \in S
  BY SumSteps, CountersAssumption DEF Cpus, Share
<1>2. ASSUME NEW k \in S  PROVE k + 1 \in S
  <2> SUFFICES ASSUME k + 1 <= NrPossibleCpus
               PROVE  SumOf(w, k + 1) = SumOf(v, k + 1) + Share(c, k + 1, a)
    OBVIOUS
  <2>1. k \in Cpus /\ k \in 0 .. NrPossibleCpus /\ c \in Int
    BY CountersAssumption DEF Cpus
  <2>2. SumOf(v, k) \in Int /\ SumOf(w, k) = SumOf(v, k) + Share(c, k, a)
    BY <1>2, <2>1, SumType
  <2>3. SumOf(v, k + 1) = SumOf(v, k) + v[k] /\ SumOf(w, k + 1) = SumOf(w, k) + w[k]
    BY SumSteps
  <2>4. v[k] \in Int /\ w[k] = v[k] + IF c = k THEN a ELSE 0
    BY <2>1 DEF Values, Increased
  <2> QED
    BY <2>1, <2>2, <2>3, <2>4 DEF Share
<1>3. S = Nat
  <2>1. S \in SUBSET Nat
    OBVIOUS
  <2> HIDE DEF S
  <2> QED
    BY <1>1, <1>2, <2>1, NatSet
<1>4. n \in Nat /\ n <= NrPossibleCpus
  BY CountersAssumption
<1>5. n \in S
  <2> HIDE DEF S
  <2> QED
    BY <1>3, <1>4
<1> QED
  BY <1>4, <1>5

-----------------------------------------------------------------------------
(***************************************************************************)
(* Congruence modulo the range of an unsigned long.                        *)
(***************************************************************************)
Cong(a, b) == \E q \in Int : a = b + q * 2^WordBits

LEMMA CongItself ==
  ASSUME NEW a \in Int
  PROVE  Cong(a, a)
<1>1. a = a + 0 * 2^WordBits
  BY CountersAssumption
<1> QED
  BY <1>1 DEF Cong

LEMMA CongBack ==
  ASSUME NEW a \in Int, NEW b \in Int, Cong(a, b)
  PROVE  Cong(b, a)
<1> DEFINE W == 2^WordBits
<1>1. W \in Int
  BY CountersAssumption
<1>2. PICK q \in Int : a = b + q * W
  BY DEF Cong
<1> HIDE DEF W
<1>3. b = a + (-q) * W
  BY <1>1, <1>2
<1> QED
  BY <1>3 DEF Cong, W

LEMMA CongAdd ==
  ASSUME NEW a \in Int, NEW b \in Int, NEW c \in Int, NEW d \in Int, Cong(a, b), Cong(c, d)
  PROVE  Cong(a + c, b + d) /\ Cong(a - c, b - d)
<1> DEFINE W == 2^WordBits
<1>1. W \in Int
  BY CountersAssumption
<1>2. PICK q \in Int : a = b + q * W
  BY DEF Cong
<1>3. PICK r \in Int : c = d + r * W
  BY DEF Cong
<1> HIDE DEF W
<1>4. a + c = (b + d) + (q + r) * W /\ a - c = (b - d) + (q - r) * W
  BY <1>1, <1>2, <1>3
<1>5. q + r \in Int /\ q - r \in Int
  OBVIOUS
<1> QED
  BY <1>4, <1>5 DEF Cong, W

LEMMA CongChain ==
  ASSUME NEW a \in Int, NEW b \in Int, NEW c \in Int, Cong(a, b), Cong(b, c)
  PROVE  Cong(a, c)
<1> DEFINE W == 2^WordBits
<1>1. W \in Int
  BY CountersAssumption
<1>2. PICK q \in Int : a = b + q * W
  BY DEF Cong
<1>3. PICK r \in Int : b = c + r * W
  BY DEF Cong
<1> HIDE DEF W
<1>4. a = c + (q + r) * W
  BY <1>1, <1>2, <1>3
<1>5. q + r \in Int
  OBVIOUS
<1> QED
  BY <1>4, <1>5 DEF Cong, W

LEMMA WrapCong ==
  ASSUME NEW a \in Int
  PROVE  Wrap(a) \in Word /\ Cong(Wrap(a), a)
<1> DEFINE W == 2^WordBits
<1>1. W \in Nat \ {0}
  BY CountersAssumption
<1>2. Wrap(a) = a % W /\ Word = 0 .. W - 1
  BY DEF Wrap, Word
<1> HIDE DEF W
<1>3. a % W \in 0 .. W - 1 /\ a = W * (a \div W) + (a % W) /\ a \div W \in Int
  BY <1>1
<1>4. a % W = a + (-(a \div W)) * W
  BY <1>1, <1>3
<1>5. -(a \div W) \in Int
  BY <1>3
<1>6. \E q \in Int : a % W = a + q * W
  BY <1>4, <1>5
<1> QED
  BY <1>2, <1>3, <1>6 DEF Cong, W

(* Two numbers that are congruent and not far apart are the same. *)
LEMMA CongNear ==
  ASSUME NEW a \in Int, NEW b \in Int, Cong(a, b), a - b < 2^WordBits, b - a < 2^WordBits
  PROVE  a = b
<1> DEFINE W == 2^WordBits
<1>1. W \in Nat \ {0}
  BY CountersAssumption
<1>2. PICK q \in Int : a = b + q * W
  BY DEF Cong
<1>3. a - b < W /\ b - a < W
  OBVIOUS
<1> HIDE DEF W
<1>4. CASE q >= 1
  <2>1. q * W >= W
    BY <1>1, <1>4
  <2> QED
    BY <1>1, <1>2, <1>3, <2>1
<1>5. CASE q <= -1
  <2>1. q * W <= -W
    BY <1>1, <1>5
  <2> QED
    BY <1>1, <1>2, <1>3, <2>1
<1>6. CASE q = 0
  BY <1>1, <1>2, <1>6
<1> QED
  BY <1>4, <1>5, <1>6

(* The remainder of a natural number is not larger than the number. *)
LEMMA WrapBelow ==
  ASSUME NEW a \in Nat, NEW r \in Word, Cong(r, a)
  PROVE  r <= a /\ (a < 2^WordBits => r = a)
<1> DEFINE W == 2^WordBits
<1>1. W \in Nat \ {0} /\ r \in 0 .. W - 1
  BY CountersAssumption DEF Word
<1>2. r \in Int
  BY <1>1
<1>3. a < W => r = a
  <2> SUFFICES ASSUME a < W PROVE r = a
    OBVIOUS
  <2>1. r - a < W /\ a - r < W
    <3> HIDE DEF W
    <3> QED
      BY <1>1
  <2> QED
    BY <1>2, <2>1, CongNear
<1> HIDE DEF W
<1> QED
  BY <1>1, <1>3 DEF W

LEMMA SumsCong ==
  ASSUME NEW v \in Values, NEW w \in Values, \A c \in Cpus : Cong(v[c], w[c]),
         NEW n \in 0 .. NrPossibleCpus
  PROVE  Cong(SumOf(v, n), SumOf(w, n))
<1> DEFINE S == {k \in Nat : k <= NrPossibleCpus => Cong(SumOf(v, k), SumOf(w, k))}
<1>1. 0 \in S
  BY SumSteps, CongItself
<1>2. ASSUME NEW k \in S  PROVE k + 1 \in S
  <2> SUFFICES ASSUME k + 1 <= NrPossibleCpus
               PROVE  Cong(SumOf(v, k + 1), SumOf(w, k + 1))
    OBVIOUS
  <2>1. k \in Cpus /\ k \in 0 .. NrPossibleCpus
    BY CountersAssumption DEF Cpus
  <2>2. v[k] \in Int /\ w[k] \in Int /\ Cong(v[k], w[k])
    BY <2>1 DEF Values
  <2>3. SumOf(v, k) \in Int /\ SumOf(w, k) \in Int /\ Cong(SumOf(v, k), SumOf(w, k))
    BY <1>2, <2>1, SumType
  <2>4. SumOf(v, k + 1) = SumOf(v, k) + v[k] /\ SumOf(w, k + 1) = SumOf(w, k) + w[k]
    BY SumSteps
  <2>5. Cong(SumOf(v, k) + v[k], SumOf(w, k) + w[k])
    BY <2>2, <2>3, CongAdd
  <2> QED
    BY <2>4, <2>5
<1>3. S = Nat
  <2>1. S \in SUBSET Nat
    OBVIOUS
  <2> HIDE DEF S
  <2> QED
    BY <1>1, <1>2, <2>1, NatSet
<1>4. n \in Nat /\ n <= NrPossibleCpus
  BY CountersAssumption
<1>5. n \in S
  <2> HIDE DEF S
  <2> QED
    BY <1>3, <1>4
<1> QED
  BY <1>4, <1>5

-----------------------------------------------------------------------------
(***************************************************************************)
(* The order of the cells.                                                 *)
(***************************************************************************)
Base(m, i) == ((m - 1) * 4 + i) * NrPossibleCpus

(* How many values of a counter come before cell k. *)
Passed(k, m, i) ==
  IF k <= Base(m, i) THEN 0
  ELSE IF k >= Base(m, i) + NrPossibleCpus THEN NrPossibleCpus
  ELSE k - Base(m, i)

LEMMA Quotients ==
  ASSUME NEW k \in Nat, NEW n \in Nat \ {0}
  PROVE  /\ k \div n \in Nat /\ k % n \in 0 .. n - 1 /\ k = n * (k \div n) + (k % n)
         /\ k \div (4 * n) = (k \div n) \div 4
<1> DEFINE q == k \div n  r == k % n  e == q \div 4  s == q % 4
<1>1. q \in Nat /\ r \in 0 .. n - 1 /\ k = n * q + r
  OBVIOUS
<1> HIDE DEF q, r
<1>2. e \in Nat /\ s \in 0 .. 3 /\ q = 4 * e + s
  BY <1>1
<1> HIDE DEF e, s
<1>3. k = (4 * n) * e + (n * s + r)
  BY <1>1, <1>2
<1>4. n * s + r \in 0 .. 4 * n - 1
  <2>1. n * s + r < n * s + n /\ n * s >= 0
    BY <1>1, <1>2
  <2>2. n * s + n <= 4 * n
    BY <1>2
  <2> QED
    BY <1>1, <1>2, <2>1, <2>2
<1> DEFINE f == 4 * n  t == n * s + r
<1>5. f \in Nat \ {0} /\ t \in 0 .. f - 1 /\ k = f * e + t
  BY <1>3, <1>4
<1> HIDE DEF f, t
<1>6. k \div f = e
  <2> DEFINE g == k \div f
  <2>1. g \in Int /\ f * g <= k /\ k < f * g + f
    BY <1>5
  <2> HIDE DEF g
  <2>2. CASE g > e
    <3>1. f * g >= f * (e + 1)
      BY <1>2, <1>5, <2>1, <2>2
    <3> QED
      BY <1>2, <1>5, <2>1, <3>1
  <2>3. CASE g < e
    <3>1. f * (g + 1) <= f * e
      BY <1>2, <1>5, <2>1, <2>3
    <3> QED
      BY <1>2, <1>5, <2>1, <3>1
  <2> QED
    BY <1>2, <2>1, <2>2, <2>3 DEF g
<1> QED
  BY <1>1, <1>6 DEF q, r, e, f

LEMMA Coordinates ==
  ASSUME NEW k \in 0 .. LastCell
  PROVE  /\ MapAt(k) \in Maps /\ IdxAt(k) \in Counters /\ CpuAt(k) \in Cpus
         /\ k = Base(MapAt(k), IdxAt(k)) + CpuAt(k)
<1> DEFINE n == NrPossibleCpus  q == k \div n  r == k % n  e == q \div 4  s == q % 4
<1>1. n \in Nat \ {0} /\ NrMaps \in Nat \ {0} /\ k \in Nat /\ k < NrMaps * 4 * n
  BY CountersAssumption DEF LastCell
<1>2. MapAt(k) = e + 1 /\ IdxAt(k) = s /\ CpuAt(k) = r
  BY <1>1, Quotients DEF MapAt, IdxAt, CpuAt
<1>3. q \in Nat /\ r \in 0 .. n - 1 /\ k = n * q + r
  BY <1>1, Quotients
<1>4. e \in Nat /\ s \in 0 .. 3 /\ q = 4 * e + s
  BY <1>3
<1>5. Base(e + 1, s) = (e * 4 + s) * n
  BY <1>4 DEF Base
<1> HIDE DEF n, q, r, e, s
<1>6. k = (e * 4 + s) * n + r
  BY <1>1, <1>3, <1>4
<1>7. e < NrMaps
  <2> SUFFICES ASSUME e >= NrMaps PROVE FALSE
    BY <1>1, <1>4
  <2>1. 4 * e * n >= NrMaps * 4 * n
    BY <1>1, <1>4
  <2>2. s * n >= 0
    BY <1>1, <1>4
  <2>3. k = 4 * e * n + s * n + r
    BY <1>1, <1>3, <1>4, <1>6
  <2> QED
    BY <1>1, <1>3, <1>4, <2>1, <2>2, <2>3
<1> QED
  BY <1>1, <1>2, <1>3, <1>4, <1>5, <1>6, <1>7
  DEF Maps, Counters, Cpus, RedirectedPkts, ReceivedBytes, n

LEMMA BaseSteps ==
  ASSUME NEW m \in Maps, NEW i \in Counters, NEW l \in Maps, NEW j \in Counters
  PROVE  /\ Base(m, i) \in Nat /\ Base(m, i) + NrPossibleCpus <= LastCell + 1
         /\ <<l, j>> # <<m, i>> => \/ Base(l, j) + NrPossibleCpus <= Base(m, i)
                                   \/ Base(m, i) + NrPossibleCpus <= Base(l, j)
<1> DEFINE n == NrPossibleCpus  a == (m - 1) * 4 + i  b == (l - 1) * 4 + j
<1>1. /\ n \in Nat \ {0} /\ NrMaps \in Nat \ {0} /\ m \in 1 .. NrMaps /\ l \in 1 .. NrMaps
      /\ i \in 0 .. 3 /\ j \in 0 .. 3
  BY CountersAssumption DEF Maps, Counters, RedirectedPkts, ReceivedBytes
<1>2. a \in Nat /\ b \in Nat /\ a + 1 <= 4 * NrMaps
  BY <1>1
<1>3. <<l, j>> # <<m, i>> => b + 1 <= a \/ a + 1 <= b
  BY <1>1
<1>4. Base(m, i) = a * n /\ Base(l, j) = b * n /\ LastCell + 1 = (4 * NrMaps) * n
  BY <1>1 DEF Base, LastCell
<1> HIDE DEF n, a, b
<1>5. \A x, y \in Nat : x + 1 <= y => x * n + n <= y * n
  <2> SUFFICES ASSUME NEW x \in Nat, NEW y \in Nat, x + 1 <= y
               PROVE  x * n + n <= y * n
    OBVIOUS
  <2>1. (x + 1) * n <= y * n
    BY <1>1
  <2> QED
    BY <1>1, <2>1
<1>6. a * n \in Nat /\ a * n + n <= (4 * NrMaps) * n
  BY <1>1, <1>2, <1>5
<1>7. <<l, j>> # <<m, i>> => b * n + n <= a * n \/ a * n + n <= b * n
  BY <1>2, <1>3, <1>5
<1> QED
  BY <1>4, <1>6, <1>7 DEF n

LEMMA PassedSteps ==
  ASSUME NEW k \in 0 .. LastCell, NEW m \in Maps, NEW i \in Counters
  PROVE  /\ Passed(k, m, i) \in 0 .. NrPossibleCpus
         /\ Passed(k + 1, m, i) \in 0 .. NrPossibleCpus
         /\ m = MapAt(k) /\ i = IdxAt(k) =>
              Passed(k, m, i) = CpuAt(k) /\ Passed(k + 1, m, i) = CpuAt(k) + 1
         /\ m # MapAt(k) \/ i # IdxAt(k) => Passed(k + 1, m, i) = Passed(k, m, i)
<1> DEFINE l == MapAt(k)  j == IdxAt(k)  c == CpuAt(k)
<1>1. l \in Maps /\ j \in Counters /\ c \in 0 .. NrPossibleCpus - 1 /\ k = Base(l, j) + c
  BY Coordinates DEF Cpus
<1> HIDE DEF l, j, c
<1>2. NrPossibleCpus \in Nat \ {0} /\ k \in Nat
  BY CountersAssumption DEF LastCell
<1>3. /\ Base(m, i) \in Nat /\ Base(l, j) \in Nat
      /\ <<l, j>> # <<m, i>> => \/ Base(l, j) + NrPossibleCpus <= Base(m, i)
                                \/ Base(m, i) + NrPossibleCpus <= Base(l, j)
  BY <1>1, BaseSteps
<1>4. m = l /\ i = j => Passed(k, m, i) = c /\ Passed(k + 1, m, i) = c + 1
  BY <1>1, <1>2, <1>3 DEF Passed
<1>5. m # l \/ i # j => Passed(k + 1, m, i) = Passed(k, m, i)
  BY <1>1, <1>2, <1>3 DEF Passed
<1>6. Passed(k, m, i) \in 0 .. NrPossibleCpus /\ Passed(k + 1, m, i) \in 0 .. NrPossibleCpus
  BY <1>2, <1>3 DEF Passed
<1> QED
  BY <1>4, <1>5, <1>6 DEF l, j, c

LEMMA PassedEnds ==
  ASSUME NEW m \in Maps, NEW i \in Counters
  PROVE  Passed(0, m, i) = 0 /\ Passed(LastCell + 1, m, i) = NrPossibleCpus
<1>1. Base(m, i) \in Nat /\ Base(m, i) + NrPossibleCpus <= LastCell + 1
  BY BaseSteps
<1>2. NrPossibleCpus \in Nat \ {0} /\ NrMaps * 4 * NrPossibleCpus \in Nat
  BY CountersAssumption
<1>3. LastCell \in Int
  BY <1>2 DEF LastCell
<1> QED
  BY <1>1, <1>2, <1>3 DEF Passed

(* What is redirected is passed before what is received. *)
LEMMA RedirectedPassedFirst ==
  ASSUME NEW k \in Nat, NEW m \in Maps, NEW i \in Redirected
  PROVE  Passed(k, m, i) = NrPossibleCpus \/ Passed(k, m, i + 2) = 0
<1>1. i \in Counters /\ i + 2 \in Counters
  BY DEF Redirected, Counters, RedirectedPkts, RedirectedBytes, ReceivedBytes
<1>2. Base(m, i) \in Nat /\ Base(m, i + 2) = Base(m, i) + 2 * NrPossibleCpus
  <2>1. i \in Int /\ m \in Int /\ NrPossibleCpus \in Nat \ {0}
    BY CountersAssumption DEF Redirected, Maps, RedirectedPkts, RedirectedBytes
  <2>2. Base(m, i) \in Nat
    BY <1>1, BaseSteps
  <2> DEFINE a == (m - 1) * 4 + i
  <2>3. Base(m, i) = a * NrPossibleCpus /\ Base(m, i + 2) = (a + 2) * NrPossibleCpus
    BY <2>1 DEF Base
  <2>4. a \in Int
    BY <2>1
  <2> HIDE DEF a
  <2> QED
    BY <2>1, <2>2, <2>3, <2>4
<1>3. NrPossibleCpus \in Nat \ {0}
  BY CountersAssumption
<1> QED
  BY <1>2, <1>3 DEF Passed

LEMMA ReceivedAtPassed ==
  ASSUME NEW k \in 0 .. LastCell, NEW i \in Redirected, IdxAt(k) = i + 2
  PROVE  Passed(k, MapAt(k), i) = NrPossibleCpus
<1>1. MapAt(k) \in Maps /\ CpuAt(k) \in Cpus /\ k = Base(MapAt(k), i + 2) + CpuAt(k)
  BY Coordinates
<1>2. i \in Counters /\ i + 2 \in Counters
  BY DEF Redirected, Counters, RedirectedPkts, RedirectedBytes, ReceivedBytes
<1> DEFINE m == MapAt(k)
<1>3. Base(m, i) \in Nat /\ Base(m, i + 2) = Base(m, i) + 2 * NrPossibleCpus
  <2>1. i \in Int /\ m \in Int /\ NrPossibleCpus \in Nat \ {0}
    BY <1>1, CountersAssumption DEF Redirected, Maps, RedirectedPkts, RedirectedBytes
  <2>2. Base(m, i) \in Nat
    BY <1>1, <1>2, BaseSteps
  <2> HIDE DEF m
  <2> DEFINE a == (m - 1) * 4 + i
  <2>3. Base(m, i) = a * NrPossibleCpus /\ Base(m, i + 2) = (a + 2) * NrPossibleCpus
    BY <2>1 DEF Base
  <2>4. a \in Int
    BY <2>1
  <2> HIDE DEF a
  <2> QED
    BY <2>1, <2>2, <2>3, <2>4
<1>4. NrPossibleCpus \in Nat \ {0} /\ CpuAt(k) \in Nat
  BY <1>1, CountersAssumption DEF Cpus
<1> HIDE DEF m
<1>5. k >= Base(m, i) + NrPossibleCpus
  BY <1>1, <1>3, <1>4 DEF m
<1> QED
  BY <1>3, <1>4, <1>5 DEF Passed, m

-----------------------------------------------------------------------------
(***************************************************************************)
(* Types.                                                                  *)
(***************************************************************************)
Tallies == [Maps -> [Counters -> [Cpus -> Nat]]]
Arrays == [Maps -> [Counters -> [Cpus -> Word]]]
Additions == [map : Maps, idx : Counters, add : Nat]
Samples == [Maps -> [Counters -> Word]]
Marks == [Maps -> [Redirected -> Nat]]
Phases == {"off", "clear", "before", "after", "show", "done"}
AllOptions == [zero_clear : BOOLEAN, interval : Nat, timeout : Nat, nr_cpus : 1 .. NrPossibleCpus]

XdpTypeOK ==
  /\ counter \in Arrays
  /\ stored \in Tallies
  /\ todo \in [Cpus -> Seq(Additions)]
  /\ loaded \in [Cpus -> Word \cup {NotLoaded}]
  /\ frames \in Nat
  /\ \A c \in Cpus : loaded[c] # NotLoaded => Busy(c)

StatTypeOK ==
  /\ phase \in [Procs -> Phases]
  /\ at \in [Procs -> 0 .. LastCell]
  /\ args \in [Procs -> AllOptions]
  /\ sums \in [Procs -> [before : Samples, after : Samples]]
  /\ mark \in [Procs -> Seq(Marks)]

TypeOK == XdpTypeOK /\ StatTypeOK

LEMMA WordFacts ==
  /\ 0 \in Word /\ Word \subseteq Nat /\ NotLoaded \notin Word
  /\ \A a \in Int : Wrap(a) \in Word
<1>1. 2^WordBits \in Nat \ {0}
  BY CountersAssumption
<1>2. \A a \in Int : Wrap(a) \in Word
  BY WrapCong
<1> QED
  BY <1>1, <1>2 DEF Word, NotLoaded

LEMMA CounterFacts ==
  /\ Counters = 0 .. 3 /\ Redirected = {0, 1} /\ Redirected \subseteq Counters
  /\ \A i \in Redirected : i + 2 \in Counters /\ i + 2 \notin Redirected
  /\ LastCell \in Nat /\ 0 < LastCell
<1>1. LastCell \in Nat /\ 0 < LastCell
  <2>1. \A x, y \in Nat \ {0} : x * 4 * y >= 4
    <3> SUFFICES ASSUME NEW x \in Nat \ {0}, NEW y \in Nat \ {0} PROVE x * 4 * y >= 4
      OBVIOUS
    <3>1. x * y >= 1
      OBVIOUS
    <3>2. x * 4 * y = 4 * (x * y)
      OBVIOUS
    <3> QED
      BY <3>1, <3>2
  <2>2. NrMaps * 4 * NrPossibleCpus >= 4 /\ NrMaps * 4 * NrPossibleCpus \in Int
    BY <2>1, CountersAssumption
  <2> QED
    BY <2>2 DEF LastCell
<1> QED
  BY <1>1 DEF Counters, Redirected, RedirectedPkts, RedirectedBytes, ReceivedPkts, ReceivedBytes

LEMMA UpdatesType ==
  ASSUME NEW m \in Maps, NEW f \in Frames
  PROVE  Updates(m, f) \in Seq(Additions) /\ Updates(m, f) # <<>>
<1>1. f.len \in Nat
  BY CountersAssumption
<1>2. UpdateReceived(m, f) \in Seq(Additions) /\ UpdateRedirected(m, f) \in Seq(Additions)
  BY <1>1, CounterFacts
  DEF UpdateReceived, UpdateRedirected, Additions, RedirectedPkts, RedirectedBytes, ReceivedPkts,
      ReceivedBytes
<1>3. Len(UpdateReceived(m, f)) = 2
  BY DEF UpdateReceived
<1> DEFINE head == UpdateReceived(m, f)
           tail == IF Verdict(f) = "tx" THEN UpdateRedirected(m, f) ELSE <<>>
<1>4. head \in Seq(Additions) /\ Len(head) = 2 /\ tail \in Seq(Additions)
  BY <1>2, <1>3
<1>5. Updates(m, f) = head \o tail
  BY DEF Updates
<1> HIDE DEF head, tail
<1>6. head \o tail \in Seq(Additions) /\ Len(head \o tail) = Len(head) + Len(tail)
  BY <1>4, ConcatProperties
<1>7. Len(head \o tail) # 0
  BY <1>4, <1>6
<1> QED
  BY <1>5, <1>6, <1>7

LEMMA IncreaseType ==
  ASSUME TypeOK, NEW c \in Cpus, NEW value \in Word, Busy(c), Increase(c, value)
  PROVE  /\ counter' \in Arrays /\ stored' \in Tallies /\ todo' \in [Cpus -> Seq(Additions)]
         /\ todo[c] \in Seq(Additions) /\ Head(todo[c]) \in Additions
         /\ \A g \in Cpus \ {c} : todo'[g] = todo[g]
<1> DEFINE u == Head(todo[c])
<1>1. todo[c] \in Seq(Additions) /\ todo[c] # <<>>
  BY DEF TypeOK, XdpTypeOK, Busy
<1>2. u \in Additions /\ Tail(todo[c]) \in Seq(Additions)
  BY <1>1
<1>3. /\ counter' = [counter EXCEPT ![u.map][u.idx][c] = Wrap(value + u.add)]
      /\ stored' = [stored EXCEPT ![u.map][u.idx][c] = @ + u.add]
      /\ todo' = [todo EXCEPT ![c] = Tail(@)]
  BY DEF Increase
<1> HIDE DEF u
<1>4. u.map \in Maps /\ u.idx \in Counters /\ u.add \in Nat
  BY <1>2 DEF Additions
<1>5. Wrap(value + u.add) \in Word
  BY <1>4, WordFacts
<1>6. counter \in Arrays /\ stored \in Tallies /\ todo \in [Cpus -> Seq(Additions)]
  BY DEF TypeOK, XdpTypeOK
<1>7. counter' \in Arrays
  BY <1>3, <1>4, <1>5, <1>6 DEF Arrays
<1>8. stored' \in Tallies
  <2>1. stored[u.map][u.idx][c] + u.add \in Nat
    BY <1>4, <1>6 DEF Tallies
  <2> QED
    BY <1>3, <1>4, <1>6, <2>1 DEF Tallies
<1>9. todo' \in [Cpus -> Seq(Additions)] /\ \A g \in Cpus \ {c} : todo'[g] = todo[g]
  BY <1>2, <1>3, <1>6
<1> QED
  BY <1>1, <1>2, <1>7, <1>8, <1>9 DEF u

LEMMA XdpType ==
  ASSUME TypeOK, Xdp
  PROVE  XdpTypeOK'
<1>1. counter \in Arrays /\ stored \in Tallies /\ todo \in [Cpus -> Seq(Additions)]
      /\ loaded \in [Cpus -> Word \cup {NotLoaded}] /\ frames \in Nat
      /\ \A c \in Cpus : loaded[c] # NotLoaded => Busy(c)
  BY DEF TypeOK, XdpTypeOK
<1>2. ASSUME NEW c \in Cpus, Add(c)  PROVE XdpTypeOK'
  <2> DEFINE u == Head(todo[c])  value == counter[u.map][u.idx][c]
  <2>1. u \in Additions
    BY <1>1, <1>2 DEF Add, Busy
  <2> HIDE DEF u
  <2>2. u.map \in Maps /\ u.idx \in Counters
    BY <2>1 DEF Additions
  <2>3. value \in Word
    BY <1>1, <2>2 DEF Arrays
  <2>4. Increase(c, value) /\ Busy(c) /\ loaded' = loaded /\ loaded[c] = NotLoaded
    BY <1>2 DEF Add, u
  <2>6. frames' = frames
    BY <1>2 DEF Add, Increase
  <2> HIDE DEF value
  <2>5. /\ counter' \in Arrays /\ stored' \in Tallies /\ todo' \in [Cpus -> Seq(Additions)]
        /\ \A g \in Cpus \ {c} : todo'[g] = todo[g]
    BY <2>3, <2>4, IncreaseType
  <2> QED
    BY <1>1, <2>4, <2>5, <2>6 DEF XdpTypeOK, Busy
<1>3. ASSUME NEW c \in Cpus, Store(c)  PROVE XdpTypeOK'
  <2>1. loaded[c] \in Word /\ Busy(c) /\ Increase(c, loaded[c])
        /\ loaded' = [loaded EXCEPT ![c] = NotLoaded] /\ frames' = frames
    BY <1>1, <1>3 DEF Store, Increase
  <2>2. /\ counter' \in Arrays /\ stored' \in Tallies /\ todo' \in [Cpus -> Seq(Additions)]
        /\ \A g \in Cpus \ {c} : todo'[g] = todo[g]
    BY <2>1, IncreaseType
  <2> QED
    BY <1>1, <2>1, <2>2 DEF XdpTypeOK, Busy
<1>4. ASSUME NEW c \in Cpus, Load(c)  PROVE XdpTypeOK'
  <2> DEFINE u == Head(todo[c])  value == counter[u.map][u.idx][c]
  <2>1. u \in Additions
    BY <1>1, <1>4 DEF Load, Busy
  <2>2. loaded' = [loaded EXCEPT ![c] = value] /\ UNCHANGED <<counter, todo, stored, frames>> /\ Busy(c)
    BY <1>4 DEF Load
  <2> HIDE DEF u
  <2>3. u.map \in Maps /\ u.idx \in Counters
    BY <2>1 DEF Additions
  <2>4. value \in Word
    BY <1>1, <2>3 DEF Arrays
  <2> HIDE DEF value
  <2> QED
    BY <1>1, <2>2, <2>4 DEF XdpTypeOK, Busy
<1>5. ASSUME NEW c \in Cpus, NEW m \in Maps, NEW f \in Frames, Receive(c, m, f)
      PROVE  XdpTypeOK'
  <2>1. Updates(m, f) \in Seq(Additions) /\ Updates(m, f) # <<>>
    BY UpdatesType
  <2>2. /\ todo' = [todo EXCEPT ![c] = Updates(m, f)] /\ ~ Busy(c)
        /\ UNCHANGED <<counter, loaded, stored>> /\ frames' = frames + 1
    BY <1>5 DEF Receive
  <2> QED
    BY <1>1, <2>1, <2>2 DEF XdpTypeOK, Busy
<1> QED
  BY <1>2, <1>3, <1>4, <1>5 DEF Xdp

LEMMA CellFacts ==
  ASSUME TypeOK, NEW p \in Procs
  PROVE  /\ MapAt(at[p]) \in Maps /\ IdxAt(at[p]) \in Counters /\ CpuAt(at[p]) \in Cpus
         /\ at[p] \in 0 .. LastCell /\ args[p].nr_cpus \in 1 .. NrPossibleCpus
         /\ NrPossibleCpus \in Nat
<1>1. at[p] \in 0 .. LastCell
  BY DEF TypeOK, StatTypeOK
<1> QED
  BY <1>1, Coordinates, CountersAssumption DEF TypeOK, StatTypeOK, AllOptions

LEMMA NextCellType ==
  ASSUME TypeOK, NEW p \in Procs, NEW then \in Phases, NextCell(p, then)
  PROVE  /\ phase' \in [Procs -> Phases] /\ at' \in [Procs -> 0 .. LastCell]
         /\ \A q \in Procs \ {p} : phase'[q] = phase[q] /\ at'[q] = at[q]
         /\ \/ at[p] < LastCell /\ at'[p] = at[p] + 1 /\ phase'[p] = phase[p]
            \/ at[p] = LastCell /\ at'[p] = 0 /\ phase'[p] = then
<1>1. phase \in [Procs -> Phases] /\ at \in [Procs -> 0 .. LastCell] /\ LastCell \in Nat
  BY CounterFacts DEF TypeOK, StatTypeOK
<1>2. CASE at[p] < LastCell
  <2>1. at' = [at EXCEPT ![p] = @ + 1] /\ phase' = phase
    BY <1>2 DEF NextCell
  <2> QED
    BY <1>1, <1>2, <2>1
<1>3. CASE ~ (at[p] < LastCell)
  <2>1. at' = [at EXCEPT ![p] = 0] /\ phase' = [phase EXCEPT ![p] = then]
    BY <1>3 DEF NextCell
  <2> QED
    BY <1>1, <1>3, <2>1
<1> QED
  BY <1>2, <1>3

LEMMA TotalsType ==
  ASSUME TypeOK, NEW p \in Procs
  PROVE  Totals(p) \in Marks
<1>1. ASSUME NEW m \in Maps, NEW i \in Redirected  PROVE Total(p, m, i) \in Nat
  <2> DEFINE n == args[p].nr_cpus
  <2>1. stored[m][i] \in [Cpus -> Nat]
    BY CounterFacts DEF TypeOK, XdpTypeOK, Tallies
  <2>2. n \in 1 .. NrPossibleCpus /\ NrPossibleCpus \in Nat
    BY CellFacts
  <2> HIDE DEF n
  <2>3. n \in 0 .. NrPossibleCpus /\ n \in 0 .. n
    BY <2>2
  <2>4. SumOf(stored[m][i], n) \in Nat
    BY <2>1, <2>3, SumOfNaturals
  <2> QED
    BY <2>4 DEF Total, n
<1> QED
  BY <1>1 DEF Totals, Marks

LEMMA ClearCellType ==
  ASSUME TypeOK, NEW p \in Procs, ClearCell(p)
  PROVE  TypeOK'
<1> DEFINE m == MapAt(at[p])  i == IdxAt(at[p])  c == CpuAt(at[p])
<1>1. m \in Maps /\ i \in Counters /\ c \in Cpus
  BY CellFacts
<1>2. PICK v \in Cleared(p, c) : counter' = [counter EXCEPT ![m][i][c] = v]
  BY DEF ClearCell
<1>3. stored' = [stored EXCEPT ![m][i][c] = 0]
  BY DEF ClearCell
<1>4. v \in Word
  BY <1>2, WordFacts, StatAssumption DEF Cleared
<1>5. UNCHANGED <<todo, loaded, frames, args, sums, mark>> /\ NextCell(p, "before")
  BY DEF ClearCell
<1> HIDE DEF m, i, c
<1>6. counter' \in Arrays
  BY <1>1, <1>2, <1>4 DEF TypeOK, XdpTypeOK, Arrays
<1>7. stored' \in Tallies
  BY <1>1, <1>3 DEF TypeOK, XdpTypeOK, Tallies
<1>8. phase' \in [Procs -> Phases] /\ at' \in [Procs -> 0 .. LastCell]
  BY <1>5, NextCellType DEF Phases
<1> QED
  BY <1>5, <1>6, <1>7, <1>8 DEF TypeOK, XdpTypeOK, StatTypeOK, Busy

LEMMA ReadType ==
  ASSUME TypeOK, NEW p \in Procs, Read(p)
  PROVE  TypeOK'
<1>1. PICK s \in {"before", "after"}, then \in {"after", "show"} : ReadCell(p, s, then)
  BY DEF Read
<1>2. UNCHANGED <<xdpVars, args>> /\ sums' = Added(p, s) /\ NextCell(p, then)
      /\ mark' = IF at[p] \in {0, LastCell} THEN [mark EXCEPT ![p] = Append(@, Totals(p))] ELSE mark
  BY <1>1 DEF ReadCell
<1>3. phase' \in [Procs -> Phases] /\ at' \in [Procs -> 0 .. LastCell]
  BY <1>2, NextCellType DEF Phases
<1>4. mark' \in [Procs -> Seq(Marks)]
  BY <1>2, TotalsType DEF TypeOK, StatTypeOK
<1>5. sums' \in [Procs -> [before : Samples, after : Samples]]
  <2> DEFINE m == MapAt(at[p])  i == IdxAt(at[p])  c == CpuAt(at[p])
             total == Wrap(sums[p][s][m][i] + counter[m][i][c])
  <2>1. m \in Maps /\ i \in Counters /\ c \in Cpus
    BY CellFacts
  <2>2. sums' = sums \/ sums' = [sums EXCEPT ![p][s][m][i] = total]
    BY <1>2 DEF Added
  <2> HIDE DEF m, i, c
  <2>3. sums[p][s][m][i] \in Nat /\ counter[m][i][c] \in Nat
    <3>1. sums[p][s] \in Samples /\ counter \in Arrays
      BY DEF TypeOK, XdpTypeOK, StatTypeOK
    <3>2. sums[p][s][m][i] \in Word /\ counter[m][i][c] \in Word
      BY <2>1, <3>1 DEF Arrays, Samples
    <3> QED
      BY <3>2, WordFacts
  <2>4. total \in Word
    BY <2>3, WordFacts
  <2> HIDE DEF total
  <2>5. sums \in [Procs -> [before : Samples, after : Samples]]
    BY DEF TypeOK, StatTypeOK
  <2> DEFINE sample == [sums[p][s] EXCEPT ![m][i] = total]
             both == [sums[p] EXCEPT ![s] = sample]
  <2>6. sums[p][s] \in Samples
    BY <2>5
  <2>7. sample \in Samples
    BY <2>1, <2>4, <2>6 DEF Samples
  <2>8. sums' = sums \/ sums' = [sums EXCEPT ![p] = both]
    BY <2>2
  <2> HIDE DEF sample
  <2>9. both \in [before : Samples, after : Samples]
    BY <2>5, <2>7
  <2> HIDE DEF both
  <2> QED
    BY <2>5, <2>8, <2>9
<1> QED
  BY <1>2, <1>3, <1>4, <1>5 DEF TypeOK, XdpTypeOK, StatTypeOK, xdpVars, Busy

LEMMA TypeNext == TypeOK /\ [Next]_vars => TypeOK'
<1> SUFFICES ASSUME TypeOK, [Next]_vars PROVE TypeOK'
  OBVIOUS
<1>1. CASE Xdp
  <2>1. UNCHANGED <<phase, at, args, sums, mark>>
    BY <1>1 DEF Xdp
  <2> QED
    BY <1>1, <2>1, XdpType DEF TypeOK, StatTypeOK
<1>2. ASSUME NEW p \in Procs, Start(p)  PROVE TypeOK'
  BY <1>2 DEF Start, TypeOK, XdpTypeOK, StatTypeOK, Phases, xdpVars, Busy
<1>3. ASSUME NEW p \in Procs, Show(p)  PROVE TypeOK'
  <2>1. /\ phase' \in [Procs -> Phases]
        /\ UNCHANGED <<xdpVars, at>>
        /\ sums' = [sums EXCEPT ![p] = [before |-> Zero, after |-> Zero]]
        /\ mark' = [mark EXCEPT ![p] = <<>>]
    BY <1>3 DEF Show, TypeOK, StatTypeOK, Phases
  <2>2. Zero \in Samples
    BY WordFacts DEF Zero, Samples
  <2>3. args' \in [Procs -> AllOptions]
    <3>1. args[p] \in AllOptions /\ args \in [Procs -> AllOptions]
      BY DEF TypeOK, StatTypeOK
    <3>2. \/ args' = args
          \/ /\ args[p].timeout > args[p].interval
             /\ args' = [args EXCEPT ![p].timeout = @ - args[p].interval]
      BY <1>3, <3>1 DEF Show, AllOptions
    <3> QED
      BY <3>1, <3>2 DEF AllOptions
  <2>4. mark' \in [Procs -> Seq(Marks)]
    BY <2>1 DEF TypeOK, StatTypeOK
  <2>5. sums' \in [Procs -> [before : Samples, after : Samples]]
    BY <2>1, <2>2 DEF TypeOK, StatTypeOK
  <2> QED
    BY <2>1, <2>3, <2>4, <2>5 DEF TypeOK, XdpTypeOK, StatTypeOK, xdpVars, Busy
<1>4. ASSUME NEW p \in Procs, Fail(p)  PROVE TypeOK'
  BY <1>4 DEF Fail, TypeOK, XdpTypeOK, StatTypeOK, Phases, xdpVars, Busy
<1>5. CASE UNCHANGED vars
  BY <1>5 DEF vars, statVars, xdpVars, TypeOK, XdpTypeOK, StatTypeOK, Busy
<1> QED
  BY <1>1, <1>2, <1>3, <1>4, <1>5, ClearCellType, ReadType DEF Next, Runs

-----------------------------------------------------------------------------
(***************************************************************************)
(* The inductive invariant, first what the program has counted.            *)
(***************************************************************************)
Adding(m, i, n) == [map |-> m, idx |-> i, add |-> n]

(* A frame is counted as received before it is as redirected. *)
ToCount(c, m, l) ==
  \/ todo[c] = <<Adding(m, 2, 1), Adding(m, 3, l)>>
  \/ todo[c] = <<Adding(m, 3, l)>>
  \/ todo[c] = <<Adding(m, 2, 1), Adding(m, 3, l), Adding(m, 0, 1), Adding(m, 1, l)>>
  \/ /\ todo[c] = <<Adding(m, 3, l), Adding(m, 0, 1), Adding(m, 1, l)>>
     /\ stored[m][0][c] + 1 <= stored[m][2][c]
  \/ /\ todo[c] = <<Adding(m, 0, 1), Adding(m, 1, l)>>
     /\ stored[m][0][c] + 1 <= stored[m][2][c]
     /\ stored[m][1][c] + l <= stored[m][3][c]
  \/ /\ todo[c] = <<Adding(m, 1, l)>>
     /\ stored[m][1][c] + l <= stored[m][3][c]

Within(c) ==
  /\ todo[c] = <<>> \/ \E m \in Maps, l \in Nat : ToCount(c, m, l)
  /\ \A m \in Maps, i \in Redirected : stored[m][i][c] <= stored[m][i + 2][c]

(* While a process clears, no frame is counted, and what it has passed is  *)
(* zero: of each CPU the redirected before the received.                   *)
Counted ==
  /\ \A m \in Maps, i \in Counters, c \in Cpus : Cong(counter[m][i][c], stored[m][i][c])
  /\ Clearing => \A c \in Cpus : ~ Busy(c)
  /\ \A p \in Procs : phase[p] = "clear" =>
       \A m \in Maps, i \in Counters, c \in Cpus :
         c < Passed(at[p], m, i) => stored[m][i][c] = 0
  /\ \A c \in Cpus : Within(c)

(* What was loaded is still there unless a clear came in between. *)
Fresh ==
  \A c \in Cpus :
    loaded[c] # NotLoaded => loaded[c] = counter[Head(todo[c]).map][Head(todo[c]).idx][c]

(* No received counter had wrapped around before the redirected one.       *)
InStep == \A v \in Before, i \in Redirected : v[i] <= v[i + 2]

Clean == clears = {} /\ InStep

CpuInv ==
  /\ "lost" \notin clears => Fresh
  /\ Clean => Counted

-----------------------------------------------------------------------------
(***************************************************************************)
(* Then what a process has sampled.  Of a counter, v on each CPU, it has   *)
(* added the values of the first d CPUs, and r of the w that were stored   *)
(* had been when each was read.  Counters are off what was stored by the   *)
(* same amount throughout: nobody clears them.                             *)
(***************************************************************************)
Off(v, w, d) == SumOf(v, d) - SumOf(w, d)

IsSum(sum, r, v, w, d) == r <= SumOf(w, d) /\ Cong(sum, r + Off(v, w, d))

(* What is stored on the CPUs that are still to be read. *)
Rest(w, d, n) == SumOf(w, n) - SumOf(w, d)

Seen(k, n, m, i) == IF Passed(k, m, i) <= n THEN Passed(k, m, i) ELSE n

Position(p) == IF phase[p] = "show" THEN LastCell + 1 ELSE at[p]

FirstSample(p) ==
  LET n == args[p].nr_cpus IN
  /\ at[p] = 0 => mark[p] = <<>>
  /\ at[p] > 0 => Len(mark[p]) = 1
  /\ sums[p].after = Zero
  /\ \A m \in Maps, i \in Redirected : \E r \in Nat :
       LET d == Seen(at[p], n, m, i) IN
       /\ IsSum(sums[p].before[m][i], r, counter[m][i], stored[m][i], d)
       /\ at[p] > 0 => mark[p][1][m][i] <= r + Rest(stored[m][i], d, n)

FirstSampleDone(p) ==
  LET n == args[p].nr_cpus IN
  \A m \in Maps, i \in Redirected : \E r \in Nat :
    /\ mark[p][1][m][i] <= r /\ r <= mark[p][2][m][i]
    /\ mark[p][2][m][i] <= SumOf(stored[m][i], n)
    /\ Cong(sums[p].before[m][i], r + Off(counter[m][i], stored[m][i], n))

(* The second sample of a map. *)
Sampled(p, m, r) ==
  LET n == args[p].nr_cpus
      d(i) == Seen(Position(p), n, m, i)
  IN /\ \A i \in Counters : IsSum(sums[p].after[m][i], r[i], counter[m][i], stored[m][i], d(i))
     /\ \A i \in Redirected :
          /\ Position(p) > 0 => /\ mark[p][2][m][i] <= mark[p][3][m][i]
                                /\ mark[p][3][m][i] <= r[i] + Rest(stored[m][i], d(i), n)
          /\ phase[p] = "show" => r[i] <= mark[p][4][m][i]
          /\ Clean => r[i] <= r[i + 2] + Rest(stored[m][i + 2], d(i + 2), n)

SecondSample(p) ==
  /\ Len(mark[p]) = IF Position(p) = 0 THEN 2 ELSE IF phase[p] = "show" THEN 4 ELSE 3
  /\ \A m \in Maps : \E r \in [Counters -> Nat] : Sampled(p, m, r)

SampleInv(p) ==
  /\ phase[p] \in {"off", "clear"} =>
       sums[p] = [before |-> Zero, after |-> Zero] /\ mark[p] = <<>>
  /\ phase[p] \in {"off", "show"} => at[p] = 0
  /\ p \notin torn /\ "lost" \notin clears =>
       /\ phase[p] = "before" => FirstSample(p)
       /\ phase[p] \in {"after", "show"} => FirstSampleDone(p) /\ SecondSample(p)

Inv == TypeOK /\ CpuInv /\ \A p \in Procs : SampleInv(p)

-----------------------------------------------------------------------------
(***************************************************************************)
(* Steps of the program.                                                   *)
(***************************************************************************)
LEMMA IncreaseEffect ==
  ASSUME TypeOK, NEW c \in Cpus, NEW value \in Word, Busy(c), Increase(c, value),
         NEW u, u = Head(todo[c])
  PROVE  /\ u \in Additions /\ u.map \in Maps /\ u.idx \in Counters /\ u.add \in Nat
         /\ todo'[c] = Tail(todo[c])
         /\ \A g \in Cpus \ {c} : todo'[g] = todo[g]
         /\ \A m \in Maps, i \in Counters, g \in Cpus :
              IF m = u.map /\ i = u.idx /\ g = c
              THEN /\ counter'[m][i][g] = Wrap(value + u.add)
                   /\ stored'[m][i][g] = stored[m][i][g] + u.add
              ELSE counter'[m][i][g] = counter[m][i][g] /\ stored'[m][i][g] = stored[m][i][g]
<1>1. /\ counter \in Arrays /\ stored \in Tallies /\ todo \in [Cpus -> Seq(Additions)]
      /\ u \in Additions
  BY IncreaseType DEF TypeOK, XdpTypeOK
<1>2. u.map \in Maps /\ u.idx \in Counters /\ u.add \in Nat
  BY <1>1 DEF Additions
<1>3. /\ counter' = [counter EXCEPT ![u.map][u.idx][c] = Wrap(value + u.add)]
      /\ stored' = [stored EXCEPT ![u.map][u.idx][c] = @ + u.add]
      /\ todo' = [todo EXCEPT ![c] = Tail(@)]
  BY DEF Increase
<1>4. ASSUME NEW m \in Maps, NEW i \in Counters, NEW g \in Cpus
      PROVE  IF m = u.map /\ i = u.idx /\ g = c
             THEN counter'[m][i][g] = Wrap(value + u.add)
             ELSE counter'[m][i][g] = counter[m][i][g]
  BY <1>1, <1>2, <1>3 DEF Arrays
<1>5. ASSUME NEW m \in Maps, NEW i \in Counters, NEW g \in Cpus
      PROVE  IF m = u.map /\ i = u.idx /\ g = c
             THEN stored'[m][i][g] = stored[m][i][g] + u.add
             ELSE stored'[m][i][g] = stored[m][i][g]
  BY <1>1, <1>2, <1>3 DEF Tallies
<1>6. ASSUME NEW m \in Maps, NEW i \in Counters, NEW g \in Cpus
      PROVE  IF m = u.map /\ i = u.idx /\ g = c
             THEN /\ counter'[m][i][g] = Wrap(value + u.add)
                  /\ stored'[m][i][g] = stored[m][i][g] + u.add
             ELSE counter'[m][i][g] = counter[m][i][g] /\ stored'[m][i][g] = stored[m][i][g]
  BY <1>4, <1>5
<1>7. /\ todo'[c] = Tail(todo[c])
      /\ \A g \in Cpus \ {c} : todo'[g] = todo[g]
  BY <1>1, <1>3
<1> QED
  BY <1>1, <1>2, <1>6, <1>7

LEMMA IncreaseWithin ==
  ASSUME TypeOK, NEW c \in Cpus, NEW value \in Word, Busy(c), Increase(c, value), Within(c)
  PROVE  Within(c)'
<1> DEFINE u == Head(todo[c])
<1>1. /\ u.map \in Maps /\ u.idx \in Counters /\ u.add \in Nat
      /\ todo'[c] = Tail(todo[c])
      /\ \A m \in Maps, i \in Counters :
           stored'[m][i][c] = stored[m][i][c] + IF m = u.map /\ i = u.idx THEN u.add ELSE 0
  <2>1. \A m \in Maps, i \in Counters : stored[m][i][c] \in Nat
    BY DEF TypeOK, XdpTypeOK, Tallies
  <2> QED
    BY <2>1, IncreaseEffect
<1>2. PICK m \in Maps, l \in Nat : ToCount(c, m, l)
  BY DEF Within, Busy
<1>3. \A n \in Maps, i \in Counters : stored[n][i][c] \in Nat /\ stored'[n][i][c] \in Nat
  BY IncreaseType DEF TypeOK, XdpTypeOK, Tallies
<1>4. \A n \in Maps : /\ stored[n][0][c] <= stored[n][2][c] /\ stored[n][1][c] <= stored[n][3][c]
  BY CounterFacts DEF Within
<1>5. 0 \in Counters /\ 1 \in Counters /\ 2 \in Counters /\ 3 \in Counters
  BY CounterFacts
<1> DEFINE Kept == \A n \in Maps : /\ stored'[n][0][c] <= stored'[n][2][c]
                                   /\ stored'[n][1][c] <= stored'[n][3][c]
           Form == todo'[c] = <<>> \/ ToCount(c, m, l)'
<1>6. ASSUME todo[c] = <<Adding(m, 2, 1), Adding(m, 3, l)>>
      PROVE  Kept /\ Form
  <2>1. u = Adding(m, 2, 1) /\ todo'[c] = <<Adding(m, 3, l)>>
    BY <1>1, <1>6
  <2>2. u.map = m /\ u.idx = 2 /\ u.add = 1
    BY <2>1 DEF Adding
  <2> HIDE DEF u
  <2>3. Kept
    BY <1>1, <1>3, <1>4, <1>5, <2>2
  <2> QED
    BY <2>1, <2>3 DEF ToCount
<1>7. ASSUME todo[c] = <<Adding(m, 3, l)>>
      PROVE  Kept /\ Form
  <2>1. u = Adding(m, 3, l) /\ todo'[c] = <<>>
    BY <1>1, <1>7
  <2>2. u.map = m /\ u.idx = 3 /\ u.add = l
    BY <2>1 DEF Adding
  <2> HIDE DEF u
  <2>3. Kept
    BY <1>1, <1>3, <1>4, <1>5, <2>2
  <2> QED
    BY <2>1, <2>3
<1>8. ASSUME todo[c] = <<Adding(m, 2, 1), Adding(m, 3, l), Adding(m, 0, 1), Adding(m, 1, l)>>
      PROVE  Kept /\ Form
  <2>1. u = Adding(m, 2, 1) /\ todo'[c] = <<Adding(m, 3, l), Adding(m, 0, 1), Adding(m, 1, l)>>
    BY <1>1, <1>8
  <2>2. u.map = m /\ u.idx = 2 /\ u.add = 1
    BY <2>1 DEF Adding
  <2> HIDE DEF u
  <2>3. Kept /\ stored'[m][0][c] + 1 <= stored'[m][2][c]
    BY <1>1, <1>3, <1>4, <1>5, <2>2
  <2> QED
    BY <2>1, <2>3 DEF ToCount
<1>9. ASSUME /\ todo[c] = <<Adding(m, 3, l), Adding(m, 0, 1), Adding(m, 1, l)>>
             /\ stored[m][0][c] + 1 <= stored[m][2][c]
      PROVE  Kept /\ Form
  <2>1. u = Adding(m, 3, l) /\ todo'[c] = <<Adding(m, 0, 1), Adding(m, 1, l)>>
    BY <1>1, <1>9
  <2>2. u.map = m /\ u.idx = 3 /\ u.add = l
    BY <2>1 DEF Adding
  <2> HIDE DEF u
  <2>3. Kept /\ stored'[m][0][c] + 1 <= stored'[m][2][c] /\ stored'[m][1][c] + l <= stored'[m][3][c]
    BY <1>1, <1>3, <1>4, <1>5, <1>9, <2>2
  <2> QED
    BY <2>1, <2>3 DEF ToCount
<1>10. ASSUME /\ todo[c] = <<Adding(m, 0, 1), Adding(m, 1, l)>>
              /\ stored[m][0][c] + 1 <= stored[m][2][c]
              /\ stored[m][1][c] + l <= stored[m][3][c]
       PROVE  Kept /\ Form
  <2>1. u = Adding(m, 0, 1) /\ todo'[c] = <<Adding(m, 1, l)>>
    BY <1>1, <1>10
  <2>2. u.map = m /\ u.idx = 0 /\ u.add = 1
    BY <2>1 DEF Adding
  <2> HIDE DEF u
  <2>3. Kept /\ stored'[m][1][c] + l <= stored'[m][3][c]
    BY <1>1, <1>3, <1>4, <1>5, <1>10, <2>2
  <2> QED
    BY <2>1, <2>3 DEF ToCount
<1>11. ASSUME /\ todo[c] = <<Adding(m, 1, l)>>
              /\ stored[m][1][c] + l <= stored[m][3][c]
       PROVE  Kept /\ Form
  <2>1. u = Adding(m, 1, l) /\ todo'[c] = <<>>
    BY <1>1, <1>11
  <2>2. u.map = m /\ u.idx = 1 /\ u.add = l
    BY <2>1 DEF Adding
  <2> HIDE DEF u
  <2>3. Kept
    BY <1>1, <1>3, <1>4, <1>5, <1>11, <2>2
  <2> QED
    BY <2>1, <2>3
<1>12. Kept /\ Form
  BY <1>2, <1>6, <1>7, <1>8, <1>9, <1>10, <1>11 DEF ToCount
<1> HIDE DEF u
<1>13. \A n \in Maps, i \in Redirected : stored'[n][i][c] <= stored'[n][i + 2][c]
  BY <1>12, CounterFacts
<1> QED
  BY <1>12, <1>13 DEF Within

LEMMA PairsConcatenated ==
  ASSUME NEW S, NEW a \in S, NEW b \in S, NEW d \in S, NEW e \in S
  PROVE  <<a, b>> \o <<>> = <<a, b>> /\ <<a, b>> \o <<d, e>> = <<a, b, d, e>>
<1> DEFINE v == <<a, b>>  w == <<d, e>>
<1>1. v \in Seq(S) /\ w \in Seq(S) /\ Len(v) = 2 /\ Len(w) = 2
      /\ v[1] = a /\ v[2] = b /\ w[1] = d /\ w[2] = e
  OBVIOUS
<1>2. <<>> \in Seq(S) /\ Len(<<>>) = 0
  OBVIOUS
<1> HIDE DEF v, w
<1>3. v \o <<>> = v
  BY <1>1, ConcatEmptySeq
<1>4. v \o w \in Seq(S) /\ Len(v \o w) = 4
      /\ (v \o w)[1] = a /\ (v \o w)[2] = b /\ (v \o w)[3] = d /\ (v \o w)[4] = e
  <2>1. /\ v \o w \in Seq(S) /\ Len(v \o w) = Len(v) + Len(w)
        /\ \A i \in 1 .. Len(v) + Len(w) :
             (v \o w)[i] = IF i <= Len(v) THEN v[i] ELSE w[i - Len(v)]
    BY <1>1, ConcatProperties
  <2> QED
    BY <1>1, <2>1
<1> DEFINE x == v \o w
<1>5. x \in Seq(S) /\ Len(x) = 4 /\ x[1] = a /\ x[2] = b /\ x[3] = d /\ x[4] = e
  BY <1>4
<1> HIDE DEF x
<1>6. x = <<a, b, d, e>>
  BY <1>5
<1> QED
  BY <1>3, <1>6 DEF v, w, x

LEMMA UpdatesForm ==
  ASSUME NEW m \in Maps, NEW f \in Frames
  PROVE  /\ f.len \in Nat
         /\ \/ Updates(m, f) = <<Adding(m, 2, 1), Adding(m, 3, f.len)>>
            \/ Updates(m, f) = <<Adding(m, 2, 1), Adding(m, 3, f.len),
                                 Adding(m, 0, 1), Adding(m, 1, f.len)>>
<1> DEFINE a == Adding(m, 2, 1)  b == Adding(m, 3, f.len)
           d == Adding(m, 0, 1)  e == Adding(m, 1, f.len)
<1>1. UpdateReceived(m, f) = <<a, b>> /\ UpdateRedirected(m, f) = <<d, e>>
  BY DEF UpdateReceived, UpdateRedirected, Adding, RedirectedPkts, RedirectedBytes, ReceivedPkts,
         ReceivedBytes
<1>2. Updates(m, f) = <<a, b>> \o <<>> \/ Updates(m, f) = <<a, b>> \o <<d, e>>
  BY <1>1 DEF Updates
<1> HIDE DEF a, b, d, e
<1>3. <<a, b>> \o <<>> = <<a, b>> /\ <<a, b>> \o <<d, e>> = <<a, b, d, e>>
  <2> DEFINE S == {a, b, d, e}
  <2>1. a \in S /\ b \in S /\ d \in S /\ e \in S
    OBVIOUS
  <2> HIDE DEF S
  <2> QED
    BY <2>1, PairsConcatenated
<1>4. f.len \in Nat
  BY CountersAssumption
<1> QED
  BY <1>2, <1>3, <1>4 DEF a, b, d, e

(* The addition of a value that is still in the array. *)
LEMMA IncreaseCounted ==
  ASSUME TypeOK, NEW c \in Cpus, Busy(c), Fresh,
         NEW u, u = Head(todo[c]), Increase(c, counter[u.map][u.idx][c]),
         loaded' = loaded \/ loaded' = [loaded EXCEPT ![c] = NotLoaded],
         loaded'[c] = NotLoaded, UNCHANGED <<phase, at>>
  PROVE  /\ Fresh'
         /\ Counted => Counted'
<1> DEFINE value == counter[u.map][u.idx][c]
<1>1. u \in Additions
  BY DEF TypeOK, XdpTypeOK, Busy
<1>2. value \in Word
  BY <1>1 DEF TypeOK, XdpTypeOK, Arrays, Additions
<1>3. Increase(c, value)
  OBVIOUS
<1>4. /\ u.map \in Maps /\ u.idx \in Counters /\ u.add \in Nat
      /\ \A g \in Cpus \ {c} : todo'[g] = todo[g]
      /\ \A m \in Maps, i \in Counters, g \in Cpus :
           IF m = u.map /\ i = u.idx /\ g = c
           THEN /\ counter'[m][i][g] = Wrap(value + u.add)
                /\ stored'[m][i][g] = stored[m][i][g] + u.add
           ELSE counter'[m][i][g] = counter[m][i][g] /\ stored'[m][i][g] = stored[m][i][g]
  <2> HIDE DEF value
  <2> QED
    BY <1>2, <1>3, IncreaseEffect
<1> HIDE DEF value
<1>5. Fresh'
  <2> SUFFICES ASSUME NEW g \in Cpus, loaded'[g] # NotLoaded
               PROVE  loaded'[g] = counter'[Head(todo'[g]).map][Head(todo'[g]).idx][g]
    BY DEF Fresh
  <2>1. g # c
    OBVIOUS
  <2>2. loaded'[g] = loaded[g] /\ loaded[g] # NotLoaded
    BY <2>1 DEF TypeOK, XdpTypeOK
  <2>3. loaded[g] = counter[Head(todo[g]).map][Head(todo[g]).idx][g] /\ todo'[g] = todo[g]
    BY <1>4, <2>1, <2>2 DEF Fresh
  <2>4. Head(todo[g]) \in Additions
    BY <2>2 DEF TypeOK, XdpTypeOK, Busy
  <2>5. PICK v \in Additions : v = Head(todo[g])
    BY <2>4
  <2>6. \A m \in Maps, i \in Counters : counter'[m][i][g] = counter[m][i][g]
    BY <1>4, <2>1
  <2>7. counter'[v.map][v.idx][g] = counter[v.map][v.idx][g]
    BY <2>6 DEF Additions
  <2> QED
    BY <2>2, <2>3, <2>5, <2>7
<1>6. ASSUME Counted  PROVE Counted'
  <2>1. ~ Clearing
    BY <1>6 DEF Counted
  <2>2. ~ Clearing' /\ \A p \in Procs : phase'[p] # "clear"
    BY <2>1 DEF Clearing
  <2>3. ASSUME NEW m \in Maps, NEW i \in Counters, NEW g \in Cpus
        PROVE  Cong(counter'[m][i][g], stored'[m][i][g])
    <3>1. Cong(counter[m][i][g], stored[m][i][g])
      BY <1>6 DEF Counted
    <3>2. CASE m = u.map /\ i = u.idx /\ g = c
      <4>1. counter'[m][i][g] = Wrap(value + u.add) /\ stored'[m][i][g] = stored[m][i][g] + u.add
        BY <1>4, <3>2
      <4>2. /\ value \in Int /\ u.add \in Int /\ stored[m][i][g] \in Int
            /\ Cong(value, stored[m][i][g])
        <5>1. stored[m][i][g] \in Int
          BY DEF TypeOK, XdpTypeOK, Tallies
        <5>2. Cong(value, stored[m][i][g])
          BY <3>1, <3>2 DEF value
        <5>3. value \in Int /\ u.add \in Int
          BY <1>2, <1>4, WordFacts
        <5> QED
          BY <5>1, <5>2, <5>3
      <4> DEFINE s == stored[m][i][g]  a == u.add
      <4> HIDE DEF s, a
      <4>3. Cong(value + a, s + a)
        BY <4>2, CongItself, CongAdd DEF s, a
      <4>4. Cong(Wrap(value + a), value + a) /\ Wrap(value + a) \in Int
        <5> DEFINE t == value + a
        <5>1. t \in Int
          BY <4>2 DEF a
        <5> HIDE DEF t
        <5>2. Cong(Wrap(t), t) /\ Wrap(t) \in Word
          BY <5>1, WrapCong
        <5>3. \A x \in Word : x \in Int
          BY WordFacts
        <5>4. Wrap(t) \in Int
          BY <5>2, <5>3
        <5> QED
          BY <5>2, <5>4 DEF t
      <4>5. Cong(Wrap(value + a), s + a)
        BY <4>2, <4>3, <4>4, CongChain DEF s, a
      <4> QED
        BY <4>1, <4>5 DEF s, a
    <3>3. CASE ~ (m = u.map /\ i = u.idx /\ g = c)
      <4>1. counter'[m][i][g] = counter[m][i][g] /\ stored'[m][i][g] = stored[m][i][g]
        BY <1>4, <3>3
      <4> QED
        BY <3>1, <4>1
    <3> QED
      BY <3>2, <3>3
  <2>4. ASSUME NEW g \in Cpus  PROVE Within(g)'
    <3>1. Within(g)
      BY <1>6 DEF Counted
    <3>2. CASE g = c
      BY <1>2, <1>3, <3>1, <3>2, IncreaseWithin
    <3>3. CASE g # c
      <4>1. /\ todo'[g] = todo[g]
            /\ \A m \in Maps, i \in Counters : stored'[m][i][g] = stored[m][i][g]
        BY <1>4, <3>3
      <4>2. ASSUME NEW m \in Maps, NEW l \in Nat, ToCount(g, m, l)  PROVE ToCount(g, m, l)'
        BY <4>1, <4>2, CounterFacts DEF ToCount
      <4>3. \A m \in Maps, i \in Redirected : stored'[m][i][g] <= stored'[m][i + 2][g]
        BY <3>1, <4>1, CounterFacts DEF Within
      <4> QED
        BY <3>1, <4>1, <4>2, <4>3 DEF Within
    <3> QED
      BY <3>2, <3>3
  <2> QED
    BY <2>2, <2>3, <2>4 DEF Counted
<1> QED
  BY <1>5, <1>6

LEMMA XdpCpu ==
  ASSUME TypeOK, CpuInv, Xdp
  PROVE  CpuInv'
<1>1. /\ UNCHANGED <<phase, at>>
      /\ clears' = Noting("overlapped", Clearing /\ frames' # frames)
      /\ clears \subseteq clears'
  BY DEF Xdp, Noting
<1>2. /\ "lost" \notin clears' => Fresh
      /\ Clean' => Clean /\ Counted /\ Fresh
  BY <1>1, Zenon DEF CpuInv, Clean
<1>3. ASSUME NEW c \in Cpus, Add(c)  PROVE CpuInv'
  <2> DEFINE u == Head(todo[c])
  <2>1. Busy(c) /\ Increase(c, counter[u.map][u.idx][c]) /\ loaded' = loaded
        /\ loaded[c] = NotLoaded
    BY <1>3 DEF Add
  <2> HIDE DEF u
  <2>2. Fresh => Fresh' /\ (Counted => Counted')
    BY <1>1, <2>1, IncreaseCounted DEF u
  <2> QED
    BY <1>2, <2>2 DEF CpuInv
<1>4. ASSUME NEW c \in Cpus, Store(c)  PROVE CpuInv'
  <2> DEFINE u == Head(todo[c])
  <2>1. Busy(c) /\ Increase(c, loaded[c]) /\ loaded' = [loaded EXCEPT ![c] = NotLoaded]
        /\ loaded[c] # NotLoaded /\ loaded'[c] = NotLoaded
    BY <1>4 DEF Store, TypeOK, XdpTypeOK
  <2>2. Fresh => Increase(c, counter[u.map][u.idx][c])
    BY <2>1 DEF Fresh
  <2> HIDE DEF u
  <2>3. Fresh => Fresh' /\ (Counted => Counted')
    BY <1>1, <2>1, <2>2, IncreaseCounted DEF u
  <2> QED
    BY <1>2, <2>3 DEF CpuInv
<1>5. ASSUME NEW c \in Cpus, Load(c), Clearing  PROVE CpuInv'
  <2>1. /\ Busy(c) /\ UNCHANGED <<counter, todo>>
        /\ loaded' = [loaded EXCEPT ![c] = counter[Head(todo[c]).map][Head(todo[c]).idx][c]]
    BY <1>5 DEF Load
  <2>2. Fresh => Fresh'
    BY <2>1 DEF Fresh, TypeOK, XdpTypeOK
  <2>3. ~ Counted
    BY <1>5, <2>1 DEF Counted
  <2> QED
    BY <1>2, <2>2, <2>3 DEF CpuInv
<1>6. ASSUME NEW c \in Cpus, NEW m \in Maps, NEW f \in Frames, Receive(c, m, f)
      PROVE  CpuInv'
  <2>1. /\ ~ Busy(c) /\ todo' = [todo EXCEPT ![c] = Updates(m, f)] /\ frames' = frames + 1
        /\ UNCHANGED <<counter, loaded, stored>> /\ loaded[c] = NotLoaded
    BY <1>6 DEF Receive, TypeOK, XdpTypeOK
  <2>2. todo'[c] = Updates(m, f) /\ \A g \in Cpus \ {c} : todo'[g] = todo[g]
    BY <2>1 DEF TypeOK, XdpTypeOK
  <2>3. Fresh => Fresh'
    BY <2>1, <2>2 DEF Fresh
  <2>4. ASSUME Clean', Counted  PROVE Counted'
    <3>1. ~ Clearing
      <4>1. frames' # frames
        BY <2>1 DEF TypeOK, XdpTypeOK
      <4> QED
        BY <1>1, <2>4, <4>1 DEF Clean, Noting
    <3>2. ~ Clearing' /\ \A p \in Procs : phase'[p] # "clear"
      BY <1>1, <3>1 DEF Clearing
    <3>3. ASSUME NEW g \in Cpus  PROVE Within(g)'
      <4>1. Within(g)
        BY <2>4 DEF Counted
      <4>2. \A n \in Maps, i \in Redirected : stored'[n][i][g] <= stored'[n][i + 2][g]
        BY <2>1, <4>1 DEF Within
      <4>3. CASE g = c
        <5>1. f.len \in Nat /\ ToCount(c, m, f.len)'
          BY <2>2, UpdatesForm DEF ToCount
        <5> QED
          BY <4>2, <4>3, <5>1 DEF Within
      <4>4. CASE g # c
        <5>1. todo'[g] = todo[g]
          BY <2>2, <4>4
        <5>2. ASSUME NEW n \in Maps, NEW l \in Nat, ToCount(g, n, l)  PROVE ToCount(g, n, l)'
          BY <2>1, <5>1, <5>2 DEF ToCount
        <5> QED
          BY <4>1, <4>2, <5>1, <5>2 DEF Within
      <4> QED
        BY <4>3, <4>4
    <3>4. \A n \in Maps, i \in Counters, g \in Cpus : Cong(counter'[n][i][g], stored'[n][i][g])
      BY <2>1, <2>4 DEF Counted
    <3> QED
      BY <3>2, <3>3, <3>4 DEF Counted
  <2> QED
    BY <1>2, <2>3, <2>4 DEF CpuInv
<1> QED
  BY <1>3, <1>4, <1>5, <1>6 DEF Xdp

(* A clear of one value, while no frame is being counted. *)
LEMMA ClearCounted ==
  ASSUME TypeOK, NEW p \in Procs, ClearCell(p), Counted,
         CpuAt(at[p]) < args[p].nr_cpus
  PROVE  Counted'
<1> DEFINE m == MapAt(at[p])  i == IdxAt(at[p])  c == CpuAt(at[p])
<1>1. m \in Maps /\ i \in Counters /\ c \in Cpus /\ at[p] \in 0 .. LastCell
  BY CellFacts
<1>2. counter' = [counter EXCEPT ![m][i][c] = 0] /\ stored' = [stored EXCEPT ![m][i][c] = 0]
  BY DEF ClearCell, Cleared
<1>3. counter \in Arrays /\ stored \in Tallies
  BY DEF TypeOK, XdpTypeOK
<1>4. phase[p] = "clear" /\ todo' = todo /\ NextCell(p, "before")
  BY DEF ClearCell
<1>5. \A g \in Cpus : todo[g] = <<>> /\ todo'[g] = <<>>
  BY <1>4 DEF Counted, Clearing, Busy
<1>6. /\ \A n \in Maps, j \in Redirected : j + 2 = i /\ n = m =>
           Passed(at[p], n, j) = NrPossibleCpus
      /\ \A n \in Maps, j \in Counters :
           IF n = m /\ j = i
           THEN Passed(at[p], n, j) = c /\ Passed(at[p] + 1, n, j) = c + 1
           ELSE Passed(at[p] + 1, n, j) = Passed(at[p], n, j)
  BY <1>1, ReceivedAtPassed, PassedSteps
<1>7. /\ \A q \in Procs \ {p} : phase'[q] = phase[q] /\ at'[q] = at[q]
      /\ phase'[p] = "clear" => at'[p] = at[p] + 1
  BY <1>4, NextCellType DEF Phases
<1> HIDE DEF m, i, c
<1>8. \A n \in Maps, j \in Counters, g \in Cpus :
        IF n = m /\ j = i /\ g = c
        THEN counter'[n][j][g] = 0 /\ stored'[n][j][g] = 0
        ELSE counter'[n][j][g] = counter[n][j][g] /\ stored'[n][j][g] = stored[n][j][g]
  <2>1. \A n \in Maps, j \in Counters, g \in Cpus :
          counter'[n][j][g] = IF n = m /\ j = i /\ g = c THEN 0 ELSE counter[n][j][g]
    BY <1>1, <1>2, <1>3 DEF Arrays
  <2>2. \A n \in Maps, j \in Counters, g \in Cpus :
          stored'[n][j][g] = IF n = m /\ j = i /\ g = c THEN 0 ELSE stored[n][j][g]
    BY <1>1, <1>2, <1>3 DEF Tallies
  <2> QED
    BY <2>1, <2>2
<1>9. \A n \in Maps, j \in Counters, g \in Cpus : stored[n][j][g] \in Nat
  BY <1>3 DEF Tallies
<1>10. ASSUME NEW n \in Maps, NEW j \in Counters, NEW g \in Cpus
       PROVE  Cong(counter'[n][j][g], stored'[n][j][g])
  <2>1. Cong(0, 0)
    BY CongItself
  <2>2. Cong(counter[n][j][g], stored[n][j][g])
    BY DEF Counted
  <2> QED
    BY <1>8, <2>1, <2>2
<1>11. ASSUME NEW q \in Procs, phase'[q] = "clear",
              NEW n \in Maps, NEW j \in Counters, NEW g \in Cpus, g < Passed(at'[q], n, j)
       PROVE  stored'[n][j][g] = 0
  <2>1. CASE q = p
    <3>1. g < Passed(at[p] + 1, n, j)
      BY <1>7, <1>11, <2>1
    <3>2. CASE n = m /\ j = i /\ g = c
      BY <1>8, <3>2
    <3>3. CASE ~ (n = m /\ j = i /\ g = c)
      <4>1. g < Passed(at[p], n, j)
        BY <1>1, <1>6, <3>1, <3>3 DEF Cpus
      <4>2. stored[n][j][g] = 0
        BY <1>4, <4>1 DEF Counted
      <4> QED
        BY <1>8, <3>3, <4>2
    <3> QED
      BY <3>2, <3>3
  <2>2. CASE q # p
    <3>1. stored[n][j][g] = 0
      BY <1>7, <1>11, <2>2 DEF Counted
    <3> QED
      BY <1>8, <3>1
  <2> QED
    BY <2>1, <2>2
<1>12. ASSUME NEW g \in Cpus  PROVE Within(g)'
  <2>1. ASSUME NEW n \in Maps, NEW j \in Redirected
        PROVE  stored'[n][j][g] <= stored'[n][j + 2][g]
    <3>1. j \in Counters /\ j + 2 \in Counters /\ j # j + 2
      BY CounterFacts
    <3>2. stored[n][j][g] <= stored[n][j + 2][g]
      BY DEF Counted, Within
    <3>3. stored'[n][j][g] = stored[n][j][g] \/ stored'[n][j][g] = 0
      BY <1>8, <3>1
    <3>4. CASE n = m /\ j + 2 = i /\ g = c
      <4>1. g < Passed(at[p], n, j)
        BY <1>1, <1>6, <3>4, CountersAssumption DEF Cpus
      <4>2. stored[n][j][g] = 0
        BY <1>4, <3>1, <4>1 DEF Counted
      <4> QED
        BY <1>8, <3>1, <3>3, <3>4, <4>2
    <3>5. CASE ~ (n = m /\ j + 2 = i /\ g = c)
      <4>1. stored'[n][j + 2][g] = stored[n][j + 2][g]
        BY <1>8, <3>1, <3>5
      <4> QED
        BY <1>9, <3>1, <3>2, <3>3, <4>1
    <3> QED
      BY <3>4, <3>5
  <2> QED
    BY <1>5, <2>1 DEF Within
<1>13. \A g \in Cpus : ~ Busy(g)'
  BY <1>5 DEF Busy
<1> QED
  BY <1>10, <1>11, <1>12, <1>13 DEF Counted

LEMMA ClearCpu ==
  ASSUME TypeOK, CpuInv, NEW p \in Procs, ClearCell(p)
  PROVE  CpuInv'
<1> DEFINE m == MapAt(at[p])  i == IdxAt(at[p])  c == CpuAt(at[p])
<1>1. m \in Maps /\ i \in Counters /\ c \in Cpus
  BY CellFacts
<1>2. clears' = Noting("overrun", c >= args[p].nr_cpus) \cup Noting("lost", Pending(m, i, c))
  BY DEF ClearCell
<1>3. PICK v \in Cleared(p, c) : counter' = [counter EXCEPT ![m][i][c] = v]
  BY DEF ClearCell
<1>4. UNCHANGED <<todo, loaded>>
  BY DEF ClearCell
<1>5. args[p].nr_cpus \in Int /\ c \in Int
  BY <1>1, CellFacts, CountersAssumption DEF Cpus
<1>6. ASSUME Clean'  PROVE Clean /\ c < args[p].nr_cpus
  <2>1. clears' = {} /\ InStep
    BY <1>6 DEF Clean
  <2>2. clears = {} /\ ~ (c >= args[p].nr_cpus)
    BY <1>2, <2>1 DEF Noting
  <2> QED
    BY <1>5, <2>1, <2>2 DEF Clean
<1>7. ASSUME "lost" \notin clears'  PROVE Fresh'
  <2>1. "lost" \notin clears /\ ~ Pending(m, i, c)
    BY <1>2, <1>7 DEF Noting
  <2>2. Fresh
    BY <2>1 DEF CpuInv
  <2>3. ASSUME NEW g \in Cpus, loaded'[g] # NotLoaded
        PROVE  loaded'[g] = counter'[Head(todo'[g]).map][Head(todo'[g]).idx][g]
    <3>1. loaded[g] # NotLoaded /\ todo'[g] = todo[g] /\ loaded'[g] = loaded[g]
      BY <1>4, <2>3
    <3>2. PICK u \in Additions : u = Head(todo[g])
      BY <3>1 DEF TypeOK, XdpTypeOK, Busy
    <3>3. loaded[g] = counter[u.map][u.idx][g] /\ u.map \in Maps /\ u.idx \in Counters
      BY <2>2, <3>1, <3>2 DEF Fresh, Additions
    <3>4. ~ (u.map = m /\ u.idx = i /\ g = c)
      BY <2>1, <3>1, <3>2 DEF Pending
    <3>5. counter'[u.map][u.idx][g] = counter[u.map][u.idx][g]
      <4>1. counter \in Arrays
        BY DEF TypeOK, XdpTypeOK
      <4> HIDE DEF m, i, c
      <4> QED
        BY <1>1, <1>3, <3>3, <3>4, <4>1 DEF Arrays
    <3> QED
      BY <3>1, <3>2, <3>3, <3>5
  <2> QED
    BY <2>3 DEF Fresh
<1> QED
  BY <1>6, <1>7, ClearCounted DEF CpuInv

LEMMA StartCpu ==
  ASSUME TypeOK, CpuInv, NEW p \in Procs, SampleInv(p), Start(p)
  PROVE  CpuInv'
<1>1. /\ phase[p] = "off" /\ at' = at /\ at[p] = 0 /\ UNCHANGED xdpVars
      /\ phase' = [phase EXCEPT ![p] = IF args[p].zero_clear THEN "clear" ELSE "before"]
      /\ clears' = Noting("overlapped", args[p].zero_clear /\ \E c \in Cpus : Busy(c))
  BY DEF Start, SampleInv
<1>2. UNCHANGED <<counter, todo, loaded, stored>>
  BY <1>1 DEF xdpVars
<1>3. Fresh => Fresh'
  BY <1>2 DEF Fresh
<1>4. ASSUME Clean', Counted  PROVE Counted'
  <2>1. args[p].zero_clear => \A c \in Cpus : ~ Busy(c)
    BY <1>1, <1>4 DEF Clean, Noting
  <2>2. /\ \A q \in Procs : phase'[q] = "clear" => phase[q] = "clear" \/ q = p
        /\ phase'[p] = "clear" => args[p].zero_clear
    BY <1>1 DEF TypeOK, StatTypeOK
  <2>3. Clearing' => \A c \in Cpus : ~ Busy(c)'
    BY <1>2, <1>4, <2>1, <2>2 DEF Counted, Clearing, Busy
  <2>4. ASSUME NEW q \in Procs, phase'[q] = "clear",
               NEW m \in Maps, NEW i \in Counters, NEW c \in Cpus, c < Passed(at'[q], m, i)
        PROVE  stored'[m][i][c] = 0
    <3>1. CASE q = p
      BY <1>1, <2>4, <3>1, PassedEnds, CountersAssumption DEF Cpus
    <3>2. CASE q # p
      BY <1>1, <1>2, <1>4, <2>2, <2>4, <3>2 DEF Counted
    <3> QED
      BY <3>1, <3>2
  <2>5. \A m \in Maps, i \in Counters, c \in Cpus : Cong(counter'[m][i][c], stored'[m][i][c])
    BY <1>2, <1>4 DEF Counted
  <2>6. \A c \in Cpus : Within(c)'
    BY <1>2, <1>4 DEF Counted, Within, ToCount
  <2> QED
    BY <2>3, <2>4, <2>5, <2>6 DEF Counted
<1>5. clears \subseteq clears'
  BY <1>1 DEF Noting
<1> QED
  BY <1>3, <1>4, <1>5 DEF CpuInv, Clean

(* Steps that neither count nor clear. *)
LEMMA OtherCpu ==
  ASSUME CpuInv, UNCHANGED <<counter, todo, loaded, stored, clears>>,
         \A q \in Procs : phase'[q] = "clear" => phase[q] = "clear" /\ at'[q] = at[q]
  PROVE  CpuInv'
<1>1. Fresh => Fresh'
  BY DEF Fresh
<1>2. ASSUME Counted  PROVE Counted'
  <2>1. Clearing' => \A c \in Cpus : ~ Busy(c)'
    BY <1>2 DEF Counted, Clearing, Busy
  <2>2. \A q \in Procs : phase'[q] = "clear" =>
         \A m \in Maps, i \in Counters, c \in Cpus :
           c < Passed(at'[q], m, i) => stored'[m][i][c] = 0
    BY <1>2 DEF Counted
  <2>3. \A m \in Maps, i \in Counters, c \in Cpus : Cong(counter'[m][i][c], stored'[m][i][c])
    BY <1>2 DEF Counted
  <2>4. \A c \in Cpus : Within(c)'
    BY <1>2 DEF Counted, Within, ToCount
  <2> QED
    BY <2>1, <2>2, <2>3, <2>4 DEF Counted
<1> QED
  BY <1>1, <1>2 DEF CpuInv, Clean

LEMMA CpuNext ==
  ASSUME TypeOK, CpuInv, \A p \in Procs : SampleInv(p), [Next]_vars
  PROVE  CpuInv'
<1>1. ASSUME NEW p \in Procs, Read(p)  PROVE CpuInv'
  <2>1. PICK s \in {"before", "after"}, then \in {"after", "show"} : ReadCell(p, s, then)
    BY <1>1 DEF Read
  <2>2. phase[p] = s /\ NextCell(p, then) /\ UNCHANGED <<xdpVars, clears>>
    BY <2>1 DEF ReadCell
  <2>3. /\ \A q \in Procs \ {p} : phase'[q] = phase[q] /\ at'[q] = at[q]
        /\ phase'[p] # "clear"
    BY <2>2, NextCellType DEF Phases
  <2>4. UNCHANGED <<counter, todo, loaded, stored, clears>>
    BY <2>2 DEF xdpVars
  <2>5. \A q \in Procs : phase'[q] = "clear" => phase[q] = "clear" /\ at'[q] = at[q]
    BY <2>3
  <2> QED
    BY <2>4, <2>5, OtherCpu
<1>2. ASSUME NEW p \in Procs, Show(p) \/ Fail(p)  PROVE CpuInv'
  <2>1. UNCHANGED <<xdpVars, at, clears>>
    BY <1>2 DEF Show, Fail
  <2>2. UNCHANGED <<counter, todo, loaded, stored, clears>>
    BY <2>1 DEF xdpVars
  <2>3. \A q \in Procs : phase'[q] = "clear" => phase[q] = "clear" /\ at'[q] = at[q]
    BY <1>2, <2>1 DEF Show, Fail, TypeOK, StatTypeOK
  <2> QED
    BY <2>2, <2>3, OtherCpu
<1>3. CASE UNCHANGED vars
  <2>1. UNCHANGED <<counter, todo, loaded, stored, clears, phase, at>>
    BY <1>3 DEF vars, xdpVars, statVars
  <2> QED
    BY <2>1, OtherCpu
<1> QED
  BY <1>1, <1>2, <1>3, XdpCpu, ClearCpu, StartCpu DEF Next, Runs

-----------------------------------------------------------------------------
(***************************************************************************)
(* Samples, one counter at a time: what the program counts meanwhile ...   *)
(***************************************************************************)
Grown(v, w, x, y) ==
  \A n \in 0 .. NrPossibleCpus, d \in 0 .. NrPossibleCpus :
    /\ SumOf(w, d) <= SumOf(y, d)
    /\ Cong(Off(x, y, d), Off(v, w, d))
    /\ d <= n => Rest(w, d, n) <= Rest(y, d, n)

LEMMA AreValues ==
  /\ \A v \in [Cpus -> Word] : v \in Values /\ \A c \in Cpus : v[c] \in Int
  /\ \A w \in [Cpus -> Nat] : w \in Values /\ \A c \in Cpus : w[c] \in Int
<1>1. ASSUME NEW v \in [Cpus -> Word], NEW c \in Cpus  PROVE v[c] \in Int
  <2>1. v[c] \in Word
    OBVIOUS
  <2>2. \A x \in Word : x \in Int
    BY WordFacts
  <2> QED
    BY <2>1, <2>2
<1> QED
  BY <1>1 DEF Values

LEMMA NotGrown ==
  ASSUME NEW v \in [Cpus -> Word], NEW w \in [Cpus -> Nat]
  PROVE  Grown(v, w, v, w)
<1>1. v \in Values /\ w \in Values
  BY AreValues
<1> SUFFICES ASSUME NEW n \in 0 .. NrPossibleCpus, NEW d \in 0 .. NrPossibleCpus
             PROVE  /\ SumOf(w, d) <= SumOf(w, d)
                    /\ Cong(Off(v, w, d), Off(v, w, d))
                    /\ d <= n => Rest(w, d, n) <= Rest(w, d, n)
  BY DEF Grown
<1>2. SumOf(v, d) \in Int /\ SumOf(w, d) \in Int /\ SumOf(w, n) \in Int
  BY <1>1, SumType
<1>3. Off(v, w, d) \in Int /\ Rest(w, d, n) \in Int
  BY <1>2 DEF Off, Rest
<1> QED
  BY <1>2, <1>3, CongItself

Adds(v, w, x, y, c, a) ==
  \A g \in Cpus : IF g = c THEN x[g] = Wrap(v[g] + a) /\ y[g] = w[g] + a
                           ELSE x[g] = v[g] /\ y[g] = w[g]

LEMMA GrownOne ==
  ASSUME NEW v \in [Cpus -> Word], NEW w \in [Cpus -> Nat], NEW c \in Cpus, NEW a \in Nat,
         NEW x \in [Cpus -> Word], NEW y \in [Cpus -> Nat], Adds(v, w, x, y, c, a)
  PROVE  Grown(v, w, x, y)
<1> DEFINE z == [v EXCEPT ![c] = v[c] + a]
<1>1. \A g \in Cpus : v[g] \in Int /\ x[g] \in Int
  BY AreValues
<1>2. v \in Values /\ w \in Values /\ x \in Values /\ y \in Values /\ z \in Values
  BY <1>1, AreValues DEF Values
<1>3. \A g \in Cpus : Cong(x[g], z[g])
  <2> SUFFICES ASSUME NEW g \in Cpus PROVE Cong(x[g], z[g])
    OBVIOUS
  <2>1. CASE g = c
    <3> DEFINE t == v[c] + a
    <3>1. t \in Int
      BY <1>1
    <3>2. x[g] = Wrap(t) /\ z[g] = t
      BY <2>1 DEF Adds
    <3> HIDE DEF t, z
    <3> QED
      BY <3>1, <3>2, WrapCong
  <2>2. CASE g # c
    <3>1. x[g] = v[g] /\ z[g] = v[g]
      BY <2>2 DEF Adds
    <3> HIDE DEF z
    <3> QED
      BY <1>1, <3>1, CongItself
  <2> QED
    BY <2>1, <2>2
<1>4. ASSUME NEW d \in 0 .. NrPossibleCpus
      PROVE  /\ SumOf(y, d) = SumOf(w, d) + Share(c, d, a)
             /\ SumOf(z, d) = SumOf(v, d) + Share(c, d, a)
             /\ Cong(SumOf(x, d), SumOf(z, d))
  <2>1. /\ SumOf(y, d) = SumOf(w, d) + Share(c, d, a)
        /\ SumOf(z, d) = SumOf(v, d) + Share(c, d, a)
    <3>1. /\ a \in Int
          /\ Increased(v, z, c, a) /\ Increased(w, y, c, a)
      BY <1>1, AreValues DEF Increased, Adds
    <3> HIDE DEF z
    <3>2. SumOf(y, d) = SumOf(w, d) + Share(c, d, a)
      BY <1>2, <3>1, SumGrows
    <3>3. SumOf(z, d) = SumOf(v, d) + Share(c, d, a)
      BY <1>2, <3>1, SumGrows
    <3> QED
      BY <3>2, <3>3
  <2> HIDE DEF z
  <2> QED
    BY <1>2, <1>3, <2>1, SumsCong
<1> HIDE DEF z
<1> SUFFICES ASSUME NEW n \in 0 .. NrPossibleCpus, NEW d \in 0 .. NrPossibleCpus
             PROVE  /\ SumOf(w, d) <= SumOf(y, d)
                    /\ Cong(Off(x, y, d), Off(v, w, d))
                    /\ d <= n => Rest(w, d, n) <= Rest(y, d, n)
  BY DEF Grown
<1>5. /\ SumOf(v, d) \in Int /\ SumOf(w, d) \in Int /\ SumOf(w, n) \in Int /\ SumOf(x, d) \in Int
      /\ SumOf(y, d) \in Int /\ SumOf(z, d) \in Int
  BY <1>2, SumType
<1> DEFINE b == Share(c, d, a)
<1>9. b \in Nat /\ SumOf(y, d) = SumOf(w, d) + b /\ SumOf(z, d) = SumOf(v, d) + b
      /\ Cong(SumOf(x, d), SumOf(z, d))
  BY <1>4 DEF Share
<1> HIDE DEF b
<1>6. SumOf(w, d) <= SumOf(y, d)
  BY <1>5, <1>9
<1>7. Cong(Off(x, y, d), Off(v, w, d))
  <2>1. Cong(SumOf(x, d) - SumOf(y, d), SumOf(z, d) - SumOf(y, d))
    BY <1>5, <1>9, CongItself, CongAdd
  <2>2. SumOf(z, d) - SumOf(y, d) = SumOf(v, d) - SumOf(w, d)
    BY <1>5, <1>9
  <2> QED
    BY <2>1, <2>2 DEF Off
<1>8. d <= n => Rest(w, d, n) <= Rest(y, d, n)
  <2>1. c \in Int /\ d \in Int /\ n \in Int
    BY CountersAssumption DEF Cpus
  <2>2. /\ SumOf(y, d) = SumOf(w, d) + Share(c, d, a)
        /\ SumOf(y, n) = SumOf(w, n) + Share(c, n, a)
    BY <1>4
  <2> QED
    BY <1>5, <2>1, <2>2 DEF Rest, Share
<1> QED
  BY <1>6, <1>7, <1>8

LEMMA IsSumGrown ==
  ASSUME NEW v \in [Cpus -> Word], NEW w \in [Cpus -> Nat],
         NEW x \in [Cpus -> Word], NEW y \in [Cpus -> Nat], Grown(v, w, x, y),
         NEW sum \in Word, NEW r \in Nat, NEW d \in 0 .. NrPossibleCpus, IsSum(sum, r, v, w, d)
  PROVE  IsSum(sum, r, x, y, d)
<1>1. v \in Values /\ w \in Values /\ x \in Values /\ y \in Values
  BY AreValues
<1>2. /\ SumOf(v, d) \in Int /\ SumOf(w, d) \in Int /\ SumOf(x, d) \in Int /\ SumOf(y, d) \in Int
  BY <1>1, SumType
<1>3. SumOf(w, d) <= SumOf(y, d) /\ Cong(Off(x, y, d), Off(v, w, d))
  BY CountersAssumption DEF Grown
<1>4. Off(v, w, d) \in Int /\ Off(x, y, d) \in Int /\ sum \in Int
  BY <1>2, WordFacts DEF Off
<1>5. Cong(Off(v, w, d), Off(x, y, d))
  BY <1>3, <1>4, CongBack
<1>6. Cong(r + Off(v, w, d), r + Off(x, y, d))
  BY <1>4, <1>5, CongItself, CongAdd
<1>7. Cong(sum, r + Off(x, y, d))
  <2>1. Cong(sum, r + Off(v, w, d))
    BY DEF IsSum
  <2> QED
    BY <1>4, <1>6, <2>1, CongChain
<1>8. r <= SumOf(y, d)
  <2>1. r <= SumOf(w, d)
    BY DEF IsSum
  <2> QED
    BY <1>2, <1>3, <2>1
<1> QED
  BY <1>7, <1>8 DEF IsSum

(* ... and what is read. *)
Gain(k, n, m, i, v) ==
  IF m = MapAt(k) /\ i = IdxAt(k) /\ CpuAt(k) < n THEN v[CpuAt(k)] ELSE 0

LEMMA SeenSteps ==
  ASSUME NEW k \in 0 .. LastCell, NEW n \in 1 .. NrPossibleCpus, NEW m \in Maps,
         NEW i \in Counters, NEW v \in Values
  PROVE  /\ Seen(k, n, m, i) \in 0 .. n /\ Seen(k + 1, n, m, i) \in 0 .. n
         /\ Gain(k, n, m, i, v) \in Int
         /\ SumOf(v, Seen(k + 1, n, m, i)) = SumOf(v, Seen(k, n, m, i)) + Gain(k, n, m, i, v)
<1> DEFINE c == CpuAt(k)  d == Passed(k, m, i)  e == Passed(k + 1, m, i)
<1>1. /\ d \in 0 .. NrPossibleCpus /\ e \in 0 .. NrPossibleCpus
      /\ m = MapAt(k) /\ i = IdxAt(k) => d = c /\ e = c + 1
      /\ m # MapAt(k) \/ i # IdxAt(k) => e = d
  BY PassedSteps
<1>2. c \in Cpus /\ NrPossibleCpus \in Nat \ {0}
  BY Coordinates, CountersAssumption
<1>3. v[c] \in Int /\ c \in Nat
  BY <1>2 DEF Values, Cpus
<1>4. Seen(k, n, m, i) = IF d <= n THEN d ELSE n
  BY DEF Seen
<1>5. Seen(k + 1, n, m, i) = IF e <= n THEN e ELSE n
  BY DEF Seen
<1>6. Gain(k, n, m, i, v) = IF m = MapAt(k) /\ i = IdxAt(k) /\ c < n THEN v[c] ELSE 0
  BY DEF Gain
<1> HIDE DEF c, d, e
<1>7. Seen(k, n, m, i) \in 0 .. n /\ Seen(k + 1, n, m, i) \in 0 .. n
  BY <1>1, <1>2, <1>4, <1>5
<1>8. n \in Nat /\ \A g \in 0 .. n : SumOf(v, g) \in Int
  BY <1>2, SumType
<1>9. CASE m = MapAt(k) /\ i = IdxAt(k) /\ c < n
  <2>1. Seen(k, n, m, i) = c /\ Seen(k + 1, n, m, i) = c + 1
    BY <1>1, <1>3, <1>4, <1>5, <1>8, <1>9
  <2>2. SumOf(v, c + 1) = SumOf(v, c) + v[c]
    BY <1>3, SumSteps
  <2> QED
    BY <1>3, <1>6, <1>7, <1>9, <2>1, <2>2
<1>10. CASE ~ (m = MapAt(k) /\ i = IdxAt(k) /\ c < n)
  <2>1. Seen(k + 1, n, m, i) = Seen(k, n, m, i)
    BY <1>1, <1>3, <1>4, <1>5, <1>8, <1>10
  <2> QED
    BY <1>6, <1>7, <1>8, <1>10, <2>1
<1> QED
  BY <1>9, <1>10

LEMMA SeenEnds ==
  ASSUME NEW n \in 1 .. NrPossibleCpus, NEW m \in Maps, NEW i \in Counters
  PROVE  Seen(0, n, m, i) = 0 /\ Seen(LastCell + 1, n, m, i) = n
BY PassedEnds, CountersAssumption DEF Seen

LEMMA ReadOne ==
  ASSUME NEW k \in 0 .. LastCell, NEW n \in 1 .. NrPossibleCpus, NEW m \in Maps,
         NEW i \in Counters, NEW v \in [Cpus -> Word], NEW w \in [Cpus -> Nat],
         NEW sum \in Word, NEW next \in Word, NEW r \in Nat,
         IsSum(sum, r, v, w, Seen(k, n, m, i)), Cong(next, sum + Gain(k, n, m, i, v))
  PROVE  LET s == r + Gain(k, n, m, i, w) IN
         /\ s \in Nat
         /\ IsSum(next, s, v, w, Seen(k + 1, n, m, i))
         /\ s + Rest(w, Seen(k + 1, n, m, i), n) = r + Rest(w, Seen(k, n, m, i), n)
<1> DEFINE d == Seen(k, n, m, i)  e == Seen(k + 1, n, m, i)
           a == Gain(k, n, m, i, v)  b == Gain(k, n, m, i, w)  s == r + b
<1>1. v \in Values /\ w \in Values /\ sum \in Int /\ next \in Int
  BY AreValues, WordFacts
<1>2. /\ d \in 0 .. n /\ e \in 0 .. n /\ a \in Int /\ b \in Int
      /\ SumOf(v, e) = SumOf(v, d) + a /\ SumOf(w, e) = SumOf(w, d) + b
  BY <1>1, SeenSteps
<1>3. b \in Nat
  BY <1>2, Coordinates DEF Gain
<1>4. r <= SumOf(w, d) /\ Cong(sum, r + Off(v, w, d)) /\ Cong(next, sum + a)
  BY DEF IsSum
<1> HIDE DEF a, b, d, e
<1>5. SumOf(v, d) \in Int /\ SumOf(w, d) \in Int /\ SumOf(w, n) \in Int
  <2>1. d \in 0 .. NrPossibleCpus /\ n \in 0 .. NrPossibleCpus
    BY <1>2, CountersAssumption
  <2> QED
    BY <1>1, <2>1, SumType
<1>6. s \in Nat /\ s <= SumOf(w, e)
  BY <1>2, <1>3, <1>4, <1>5
<1>7. s + Rest(w, e, n) = r + Rest(w, d, n)
  BY <1>2, <1>3, <1>5 DEF Rest
<1>8. Off(v, w, d) \in Int /\ Off(v, w, e) = Off(v, w, d) + a - b
  BY <1>2, <1>5 DEF Off
<1> DEFINE t == r + Off(v, w, d)
<1>9. t \in Int /\ Cong(sum, t) /\ t + a = s + Off(v, w, e)
  BY <1>2, <1>4, <1>8
<1> HIDE DEF t
<1>10. Cong(sum + a, t + a)
  <2>1. Cong(a, a)
    BY <1>2, CongItself
  <2> QED
    BY <1>1, <1>2, <1>9, <2>1, CongAdd
<1>11. Cong(next, t + a)
  <2>1. sum + a \in Int /\ t + a \in Int
    BY <1>1, <1>2, <1>9
  <2> QED
    BY <1>1, <1>4, <1>10, <2>1, CongChain
<1>12. IsSum(next, s, v, w, e)
  BY <1>6, <1>9, <1>11 DEF IsSum
<1> QED
  BY <1>6, <1>7, <1>12 DEF b, d, e

-----------------------------------------------------------------------------
(***************************************************************************)
(* A process that stays where it is while others do something.             *)
(***************************************************************************)
Kept(p) ==
  /\ phase'[p] = phase[p] /\ at'[p] = at[p] /\ args'[p].nr_cpus = args[p].nr_cpus
  /\ sums'[p] = sums[p] /\ mark'[p] = mark[p]

AllGrown ==
  \A m \in Maps, i \in Counters :
    Grown(counter[m][i], stored[m][i], counter'[m][i], stored'[m][i])

LEMMA CounterType ==
  /\ \A v \in Arrays, m \in Maps, i \in Counters : v[m][i] \in [Cpus -> Word]
  /\ \A w \in Tallies, m \in Maps, i \in Counters : w[m][i] \in [Cpus -> Nat]
BY DEF Arrays, Tallies

LEMMA ProcType ==
  ASSUME TypeOK, NEW p \in Procs
  PROVE  /\ at[p] \in 0 .. LastCell /\ Position(p) \in 0 .. LastCell + 1
         /\ args[p].nr_cpus \in 1 .. NrPossibleCpus
         /\ mark[p] \in Seq(Marks)
         /\ sums[p] \in [before : Samples, after : Samples]
         /\ \A m \in Maps, i \in Counters :
              sums[p].before[m][i] \in Word /\ sums[p].after[m][i] \in Word
<1>1. sums[p] \in [before : Samples, after : Samples]
  BY DEF TypeOK, StatTypeOK
<1>2. \A m \in Maps, i \in Counters :
        sums[p].before[m][i] \in Word /\ sums[p].after[m][i] \in Word
  BY <1>1 DEF Samples
<1>3. at[p] \in 0 .. LastCell /\ LastCell \in Nat
  BY CounterFacts DEF TypeOK, StatTypeOK
<1>4. Position(p) \in 0 .. LastCell + 1
  BY <1>3 DEF Position
<1> QED
  BY <1>1, <1>2, <1>3, <1>4, CellFacts DEF TypeOK, StatTypeOK

LEMMA SeenType ==
  ASSUME NEW k \in 0 .. LastCell + 1, NEW n \in 1 .. NrPossibleCpus, NEW m \in Maps,
         NEW i \in Counters
  PROVE  /\ Seen(k, n, m, i) \in 0 .. n /\ Seen(k, n, m, i) \in 0 .. NrPossibleCpus
         /\ n \in 0 .. NrPossibleCpus /\ n \in Nat
<1>1. NrPossibleCpus \in Nat /\ LastCell \in Nat /\ n \in Nat
  BY CountersAssumption, CounterFacts
<1>2. CASE k = LastCell + 1
  BY <1>1, <1>2, SeenEnds
<1>3. CASE k \in 0 .. LastCell
  <2> DEFINE Z == [c \in Cpus |-> 0]
  <2>1. Z \in Values
    BY DEF Values
  <2> HIDE DEF Z
  <2>2. Seen(k, n, m, i) \in 0 .. n
    BY <1>3, <2>1, SeenSteps
  <2> QED
    BY <1>1, <2>2
<1> QED
  BY <1>1, <1>2, <1>3

LEMMA FirstKept ==
  ASSUME TypeOK, TypeOK', NEW p \in Procs, Kept(p), AllGrown, FirstSample(p)
  PROVE  FirstSample(p)'
<1> DEFINE n == args[p].nr_cpus
<1>1. /\ at'[p] = at[p] /\ args'[p].nr_cpus = n /\ sums'[p] = sums[p] /\ mark'[p] = mark[p]
      /\ at[p] \in 0 .. LastCell + 1 /\ n \in 1 .. NrPossibleCpus
  BY ProcType, CounterFacts DEF Kept
<1>2. ASSUME NEW m \in Maps, NEW i \in Redirected
      PROVE  \E r \in Nat :
               LET d == Seen(at[p], n, m, i) IN
               /\ IsSum(sums[p].before[m][i], r, counter'[m][i], stored'[m][i], d)
               /\ at[p] > 0 => mark[p][1][m][i] <= r + Rest(stored'[m][i], d, n)
  <2> DEFINE d == Seen(at[p], n, m, i)
             v == counter[m][i]  w == stored[m][i]  x == counter'[m][i]  y == stored'[m][i]
             sum == sums[p].before[m][i]
  <2>1. i \in Counters
    BY CounterFacts
  <2>2. d \in 0 .. n /\ d \in 0 .. NrPossibleCpus /\ n \in 0 .. NrPossibleCpus /\ n \in Nat
    BY <1>1, <2>1, SeenType
  <2>3. /\ v \in [Cpus -> Word] /\ w \in [Cpus -> Nat] /\ x \in [Cpus -> Word]
        /\ y \in [Cpus -> Nat] /\ sum \in Word
    BY <2>1, CounterType, ProcType DEF TypeOK, XdpTypeOK
  <2>4. Grown(v, w, x, y)
    BY <2>1 DEF AllGrown
  <2>5. PICK r \in Nat : /\ IsSum(sum, r, v, w, d)
                         /\ at[p] > 0 => mark[p][1][m][i] <= r + Rest(w, d, n)
    BY DEF FirstSample
  <2>6. at[p] > 0 => mark[p][1][m][i] \in Nat
    BY ProcType DEF FirstSample, Marks
  <2> HIDE DEF n, d, v, w, x, y, sum
  <2>7. IsSum(sum, r, x, y, d)
    BY <2>2, <2>3, <2>4, <2>5, IsSumGrown
  <2>8. Rest(w, d, n) <= Rest(y, d, n) /\ Rest(w, d, n) \in Int /\ Rest(y, d, n) \in Int
    <3>1. Rest(w, d, n) <= Rest(y, d, n)
      BY <2>2, <2>4 DEF Grown
    <3>2. /\ SumOf(w, d) \in Int /\ SumOf(w, n) \in Int /\ SumOf(y, d) \in Int
          /\ SumOf(y, n) \in Int
      BY <2>2, <2>3, AreValues, SumType
    <3> QED
      BY <3>1, <3>2 DEF Rest
  <2>9. at[p] > 0 => mark[p][1][m][i] <= r + Rest(y, d, n)
    BY <2>5, <2>6, <2>8
  <2> QED
    BY <2>7, <2>9 DEF n, d, x, y, sum
<1> HIDE DEF n
<1>3. /\ at[p] = 0 => mark[p] = <<>>
      /\ at[p] > 0 => Len(mark[p]) = 1
      /\ sums[p].after = Zero
  BY DEF FirstSample
<1> QED
  BY <1>1, <1>2, <1>3 DEF FirstSample

LEMMA RestGrown ==
  ASSUME NEW v \in [Cpus -> Word], NEW w \in [Cpus -> Nat], NEW x \in [Cpus -> Word],
         NEW y \in [Cpus -> Nat], Grown(v, w, x, y),
         NEW n \in 0 .. NrPossibleCpus, NEW d \in 0 .. NrPossibleCpus, d <= n
  PROVE  /\ Rest(w, d, n) <= Rest(y, d, n) /\ SumOf(w, n) <= SumOf(y, n)
         /\ Rest(w, d, n) \in Nat /\ Rest(y, d, n) \in Nat
         /\ SumOf(w, n) \in Nat /\ SumOf(y, n) \in Nat
<1>1. Rest(w, d, n) <= Rest(y, d, n) /\ SumOf(w, n) <= SumOf(y, n)
  BY DEF Grown
<1>2. d \in 0 .. n
  BY CountersAssumption
<1>3. /\ SumOf(w, d) \in Nat /\ SumOf(w, n) \in Nat /\ SumOf(w, d) <= SumOf(w, n)
      /\ SumOf(y, d) \in Nat /\ SumOf(y, n) \in Nat /\ SumOf(y, d) <= SumOf(y, n)
  BY <1>2, SumOfNaturals
<1> QED
  BY <1>1, <1>3 DEF Rest

LEMMA MarkType ==
  ASSUME NEW s \in Seq(Marks), NEW k \in 1 .. Len(s), NEW m \in Maps, NEW i \in Redirected
  PROVE  s[k][m][i] \in Nat
<1>1. s[k] \in Marks
  OBVIOUS
<1> QED
  BY <1>1 DEF Marks

LEMMA DoneKept ==
  ASSUME TypeOK, TypeOK', NEW p \in Procs, Kept(p), AllGrown, FirstSampleDone(p),
         Len(mark[p]) >= 2
  PROVE  FirstSampleDone(p)'
<1> DEFINE n == args[p].nr_cpus
<1>1. /\ args'[p].nr_cpus = n /\ sums'[p] = sums[p] /\ mark'[p] = mark[p]
      /\ n \in 1 .. NrPossibleCpus /\ n \in 0 .. NrPossibleCpus
  BY ProcType, CountersAssumption DEF Kept
<1>2. ASSUME NEW m \in Maps, NEW i \in Redirected
      PROVE  \E r \in Nat :
               /\ mark[p][1][m][i] <= r /\ r <= mark[p][2][m][i]
               /\ mark[p][2][m][i] <= SumOf(stored'[m][i], n)
               /\ Cong(sums[p].before[m][i], r + Off(counter'[m][i], stored'[m][i], n))
  <2> DEFINE v == counter[m][i]  w == stored[m][i]  x == counter'[m][i]  y == stored'[m][i]
             sum == sums[p].before[m][i]  low == mark[p][1][m][i]  high == mark[p][2][m][i]
  <2>1. i \in Counters
    BY CounterFacts
  <2>2. /\ v \in [Cpus -> Word] /\ w \in [Cpus -> Nat] /\ x \in [Cpus -> Word]
        /\ y \in [Cpus -> Nat] /\ sum \in Word
    BY <2>1, CounterType, ProcType DEF TypeOK, XdpTypeOK
  <2>3. Grown(v, w, x, y)
    BY <2>1 DEF AllGrown
  <2>4. PICK r \in Nat : /\ low <= r /\ r <= high /\ high <= SumOf(w, n)
                         /\ Cong(sum, r + Off(v, w, n))
    BY DEF FirstSampleDone
  <2>5. high \in Nat
    <3>1. mark[p] \in Seq(Marks) /\ 2 \in 1 .. Len(mark[p])
      BY ProcType
    <3> QED
      BY <3>1, MarkType
  <2> HIDE DEF n, v, w, x, y, sum, low, high
  <2>6. SumOf(w, n) <= SumOf(y, n) /\ SumOf(w, n) \in Nat /\ SumOf(y, n) \in Nat
    <3>1. n <= n
      BY <1>1, CountersAssumption
    <3> QED
      BY <1>1, <2>2, <2>3, <3>1, RestGrown
  <2>7. r <= SumOf(w, n)
    BY <2>4, <2>5, <2>6
  <2>8. IsSum(sum, r, v, w, n)
    BY <2>4, <2>7 DEF IsSum
  <2>9. IsSum(sum, r, x, y, n)
    <3>1. n \in 0 .. NrPossibleCpus
      BY <1>1
    <3> QED
      BY <2>2, <2>3, <2>8, <3>1, IsSumGrown
  <2>10. high <= SumOf(y, n) /\ Cong(sum, r + Off(x, y, n))
    BY <2>4, <2>5, <2>6, <2>9 DEF IsSum
  <2> QED
    BY <2>4, <2>10 DEF x, y, sum, low, high
<1> HIDE DEF n
<1> QED
  BY <1>1, <1>2 DEF FirstSampleDone

LEMMA SecondKept ==
  ASSUME TypeOK, TypeOK', NEW p \in Procs, Kept(p), AllGrown, Clean' => Clean, SecondSample(p)
  PROVE  SecondSample(p)'
<1> DEFINE n == args[p].nr_cpus  k == Position(p)
<1>1. /\ args'[p].nr_cpus = n /\ sums'[p] = sums[p] /\ mark'[p] = mark[p]
      /\ phase'[p] = phase[p] /\ Position(p)' = k
      /\ n \in 1 .. NrPossibleCpus /\ k \in 0 .. LastCell + 1
  BY ProcType DEF Kept, Position
<1>2. ASSUME NEW m \in Maps, NEW r \in [Counters -> Nat], Sampled(p, m, r)
      PROVE  Sampled(p, m, r)'
  <2> DEFINE d(i) == Seen(k, n, m, i)
  <2>1. ASSUME NEW i \in Counters
        PROVE  /\ d(i) \in 0 .. n /\ d(i) \in 0 .. NrPossibleCpus /\ n \in 0 .. NrPossibleCpus
               /\ d(i) <= n
               /\ counter[m][i] \in [Cpus -> Word] /\ stored[m][i] \in [Cpus -> Nat]
               /\ counter'[m][i] \in [Cpus -> Word] /\ stored'[m][i] \in [Cpus -> Nat]
               /\ Grown(counter[m][i], stored[m][i], counter'[m][i], stored'[m][i])
               /\ sums[p].after[m][i] \in Word /\ r[i] \in Nat
    <3>1. d(i) \in 0 .. n /\ d(i) \in 0 .. NrPossibleCpus /\ n \in 0 .. NrPossibleCpus
          /\ n \in Nat
      BY <1>1, SeenType
    <3>2. d(i) <= n
      BY <3>1
    <3>3. /\ counter[m][i] \in [Cpus -> Word] /\ stored[m][i] \in [Cpus -> Nat]
          /\ counter'[m][i] \in [Cpus -> Word] /\ stored'[m][i] \in [Cpus -> Nat]
      BY CounterType DEF TypeOK, XdpTypeOK
    <3> QED
      BY <3>1, <3>2, <3>3, ProcType DEF AllGrown
  <2>2. /\ \A i \in Counters :
             IsSum(sums[p].after[m][i], r[i], counter[m][i], stored[m][i], d(i))
        /\ \A i \in Redirected :
             /\ k > 0 => /\ mark[p][2][m][i] <= mark[p][3][m][i]
                         /\ mark[p][3][m][i] <= r[i] + Rest(stored[m][i], d(i), n)
             /\ phase[p] = "show" => r[i] <= mark[p][4][m][i]
             /\ Clean => r[i] <= r[i + 2] + Rest(stored[m][i + 2], d(i + 2), n)
    BY <1>2 DEF Sampled
  <2> HIDE DEF n, k, d
  <2>3. ASSUME NEW i \in Counters
        PROVE  /\ IsSum(sums[p].after[m][i], r[i], counter'[m][i], stored'[m][i], d(i))
               /\ Rest(stored[m][i], d(i), n) <= Rest(stored'[m][i], d(i), n)
               /\ Rest(stored[m][i], d(i), n) \in Nat /\ Rest(stored'[m][i], d(i), n) \in Nat
    <3>1. IsSum(sums[p].after[m][i], r[i], counter'[m][i], stored'[m][i], d(i))
      BY <2>1, <2>2, IsSumGrown
    <3> QED
      BY <2>1, <3>1, RestGrown
  <2>4. ASSUME NEW i \in Redirected
        PROVE  /\ k > 0 => /\ mark[p][2][m][i] <= mark[p][3][m][i]
                           /\ mark[p][3][m][i] <= r[i] + Rest(stored'[m][i], d(i), n)
               /\ Clean' => r[i] <= r[i + 2] + Rest(stored'[m][i + 2], d(i + 2), n)
    <3>1. i \in Counters /\ i + 2 \in Counters
      BY CounterFacts
    <3>2. k > 0 => mark[p][3][m][i] \in Nat
      <4>1. k > 0 => mark[p] \in Seq(Marks) /\ 3 \in 1 .. Len(mark[p])
        BY ProcType DEF SecondSample, k
      <4> QED
        BY <4>1, MarkType
    <3> DEFINE e == Rest(stored[m][i], d(i), n)  f == Rest(stored'[m][i], d(i), n)
               g == Rest(stored[m][i + 2], d(i + 2), n)  h == Rest(stored'[m][i + 2], d(i + 2), n)
    <3>3. e <= f /\ g <= h /\ e \in Nat /\ f \in Nat /\ g \in Nat /\ h \in Nat
          /\ r[i] \in Nat /\ r[i + 2] \in Nat
      BY <2>1, <2>3, <3>1
    <3>4. /\ k > 0 => /\ mark[p][2][m][i] <= mark[p][3][m][i]
                      /\ mark[p][3][m][i] <= r[i] + e
          /\ Clean => r[i] <= r[i + 2] + g
      BY <2>2
    <3> HIDE DEF e, f, g, h
    <3>5. k > 0 => mark[p][3][m][i] <= r[i] + f
      BY <3>2, <3>3, <3>4
    <3>6. Clean' => r[i] <= r[i + 2] + h
      BY <3>3, <3>4
    <3> QED
      BY <3>4, <3>5, <3>6 DEF f, h
  <2>5. \A i \in Redirected : phase[p] = "show" => r[i] <= mark[p][4][m][i]
    BY <2>2
  <2> QED
    BY <1>1, <2>3, <2>4, <2>5 DEF Sampled, d, n, k
<1>3. Len(mark[p]) = IF Position(p) = 0 THEN 2 ELSE IF phase[p] = "show" THEN 4 ELSE 3
  BY DEF SecondSample
<1>4. \A m \in Maps : \E r \in [Counters -> Nat] : Sampled(p, m, r)
  BY DEF SecondSample
<1> QED
  BY <1>1, <1>2, <1>3, <1>4 DEF SecondSample

LEMMA SampleKept ==
  ASSUME TypeOK, TypeOK', NEW p \in Procs, SampleInv(p), Kept(p), Clean' => Clean,
         p \notin torn' /\ "lost" \notin clears' /\ phase[p] \in Sampling =>
           p \notin torn /\ "lost" \notin clears /\ AllGrown
  PROVE  SampleInv(p)'
<1>1. phase'[p] = phase[p] /\ at'[p] = at[p] /\ sums'[p] = sums[p] /\ mark'[p] = mark[p]
  BY DEF Kept
<1>2. SecondSample(p) => Len(mark[p]) >= 2
  BY DEF SecondSample
<1>3. FirstSample(p) /\ AllGrown => FirstSample(p)'
  BY FirstKept
<1>4. FirstSampleDone(p) /\ SecondSample(p) /\ AllGrown => FirstSampleDone(p)' /\ SecondSample(p)'
  BY <1>2, DoneKept, SecondKept
<1> QED
  BY <1>1, <1>3, <1>4 DEF SampleInv, Sampling

LEMMA StaysGrown ==
  ASSUME TypeOK, UNCHANGED <<counter, stored>>
  PROVE  AllGrown
<1> SUFFICES ASSUME NEW m \in Maps, NEW i \in Counters
             PROVE  Grown(counter[m][i], stored[m][i], counter[m][i], stored[m][i])
  BY DEF AllGrown
<1>1. counter[m][i] \in [Cpus -> Word] /\ stored[m][i] \in [Cpus -> Nat]
  BY CounterType DEF TypeOK, XdpTypeOK
<1> QED
  BY <1>1, NotGrown

(* What the program adds is the same for both, if its value was not lost. *)
LEMMA IncreaseGrown ==
  ASSUME TypeOK, TypeOK', NEW c \in Cpus, NEW u \in Additions, NEW value \in Word,
         value = counter[u.map][u.idx][c], u.add \in Nat,
         \A m \in Maps, i \in Counters, g \in Cpus :
           IF m = u.map /\ i = u.idx /\ g = c
           THEN /\ counter'[m][i][g] = Wrap(value + u.add)
                /\ stored'[m][i][g] = stored[m][i][g] + u.add
           ELSE counter'[m][i][g] = counter[m][i][g] /\ stored'[m][i][g] = stored[m][i][g]
  PROVE  AllGrown
<1> SUFFICES ASSUME NEW m \in Maps, NEW i \in Counters
             PROVE  Grown(counter[m][i], stored[m][i], counter'[m][i], stored'[m][i])
  BY DEF AllGrown
<1> DEFINE v == counter[m][i]  w == stored[m][i]  x == counter'[m][i]  y == stored'[m][i]
<1>1. /\ v \in [Cpus -> Word] /\ w \in [Cpus -> Nat] /\ x \in [Cpus -> Word]
      /\ y \in [Cpus -> Nat]
  BY CounterType DEF TypeOK, XdpTypeOK
<1>2. CASE m = u.map /\ i = u.idx
  <2>1. Adds(v, w, x, y, c, u.add)
    BY <1>2 DEF Adds
  <2> HIDE DEF v, w, x, y
  <2> QED
    BY <1>1, <2>1, GrownOne DEF v, w, x, y
<1>3. CASE ~ (m = u.map /\ i = u.idx)
  <2>1. \A g \in Cpus : x[g] = v[g] /\ y[g] = w[g]
    BY <1>3
  <2> HIDE DEF v, w, x, y
  <2>2. x = v
    BY <1>1, <2>1
  <2>3. y = w
    BY <1>1, <2>1
  <2> QED
    BY <1>1, <2>2, <2>3, NotGrown DEF v, w, x, y
<1> QED
  BY <1>2, <1>3

LEMMA XdpSample ==
  ASSUME TypeOK, TypeOK', CpuInv, NEW p \in Procs, SampleInv(p), Xdp
  PROVE  SampleInv(p)'
<1>1. UNCHANGED <<phase, at, args, sums, mark, torn>> /\ clears \subseteq clears'
  BY DEF Xdp, Noting
<1>2. Kept(p) /\ (Clean' => Clean)
  BY <1>1 DEF Kept, Clean
<1>3. ASSUME "lost" \notin clears'  PROVE AllGrown
  <2>1. Fresh
    BY <1>1, <1>3 DEF CpuInv
  <2>2. ASSUME NEW c \in Cpus, Add(c) \/ Store(c)  PROVE AllGrown
    <3>1. Busy(c)
      BY <2>2 DEF Add, Store, TypeOK, XdpTypeOK
    <3>2. PICK u \in Additions : u = Head(todo[c])
      BY <3>1 DEF TypeOK, XdpTypeOK, Busy
    <3> DEFINE value == counter[u.map][u.idx][c]
    <3>3. Increase(c, value)
      BY <2>1, <2>2, <3>2 DEF Add, Store, Fresh
    <3>4. value \in Word
      BY DEF TypeOK, XdpTypeOK, Arrays, Additions
    <3>5. value = counter[u.map][u.idx][c]
      OBVIOUS
    <3> HIDE DEF value
    <3>6. /\ u.add \in Nat
          /\ \A m \in Maps, i \in Counters, g \in Cpus :
               IF m = u.map /\ i = u.idx /\ g = c
               THEN /\ counter'[m][i][g] = Wrap(value + u.add)
                    /\ stored'[m][i][g] = stored[m][i][g] + u.add
               ELSE counter'[m][i][g] = counter[m][i][g] /\ stored'[m][i][g] = stored[m][i][g]
      BY <3>1, <3>2, <3>3, <3>4, IncreaseEffect
    <3> QED
      BY <3>4, <3>5, <3>6, IncreaseGrown
  <2>4. ASSUME NEW c \in Cpus, NEW m \in Maps, NEW f \in Frames, Load(c) \/ Receive(c, m, f)
        PROVE  AllGrown
    BY <2>4, StaysGrown DEF Load, Receive
  <2>5. ASSUME NEW c \in Cpus, Load(c)  PROVE AllGrown
    BY <2>5, StaysGrown DEF Load
  <2> QED
    BY <2>2, <2>4, <2>5 DEF Xdp
<1> QED
  BY <1>1, <1>2, <1>3, SampleKept

-----------------------------------------------------------------------------
(***************************************************************************)
(* A process that takes a step itself.                                     *)
(***************************************************************************)
LEMMA SumOfNone ==
  ASSUME NEW v \in [Cpus -> Word], NEW w \in [Cpus -> Nat]
  PROVE  IsSum(0, 0, v, w, 0)
<1>1. SumOf(v, 0) = 0 /\ SumOf(w, 0) = 0
  BY SumSteps
<1>2. Cong(0, 0)
  BY CongItself
<1> QED
  BY <1>1, <1>2 DEF IsSum, Off

LEMMA Begins ==
  ASSUME TypeOK', NEW p \in Procs, phase'[p] = "before", at'[p] = 0, mark'[p] = <<>>,
         sums'[p] = [before |-> Zero, after |-> Zero]
  PROVE  SampleInv(p)'
<1> DEFINE n == args'[p].nr_cpus
<1>1. n \in 1 .. NrPossibleCpus
  BY DEF TypeOK, StatTypeOK, AllOptions
<1>2. ASSUME NEW m \in Maps, NEW i \in Redirected
      PROVE  IsSum(sums'[p].before[m][i], 0, counter'[m][i], stored'[m][i], Seen(at'[p], n, m, i))
  <2> HIDE DEF n
  <2>1. i \in Counters
    BY CounterFacts
  <2>2. sums'[p].before[m][i] = 0
    BY <2>1 DEF Zero
  <2>3. Seen(at'[p], n, m, i) = 0
    BY <1>1, <2>1, SeenEnds
  <2>4. counter'[m][i] \in [Cpus -> Word] /\ stored'[m][i] \in [Cpus -> Nat]
    BY <2>1, CounterType DEF TypeOK, XdpTypeOK
  <2> QED
    BY <2>2, <2>3, <2>4, SumOfNone
<1>3. sums'[p].after = Zero
  OBVIOUS
<1>4. FirstSample(p)'
  BY <1>2, <1>3 DEF FirstSample
<1> QED
  BY <1>4 DEF SampleInv

LEMMA StartSample ==
  ASSUME TypeOK, TypeOK', NEW p \in Procs, SampleInv(p), Start(p)
  PROVE  SampleInv(p)'
<1>1. /\ phase[p] = "off" /\ UNCHANGED <<at, sums, mark>>
      /\ phase' = [phase EXCEPT ![p] = IF args[p].zero_clear THEN "clear" ELSE "before"]
  BY DEF Start
<1>2. at'[p] = 0 /\ sums'[p] = [before |-> Zero, after |-> Zero] /\ mark'[p] = <<>>
  BY <1>1 DEF SampleInv
<1>3. phase'[p] = "clear" \/ phase'[p] = "before"
  BY <1>1 DEF TypeOK, StatTypeOK
<1>4. CASE phase'[p] = "clear"
  BY <1>2, <1>4 DEF SampleInv
<1> QED
  BY <1>2, <1>3, <1>4, Begins

LEMMA ClearSample ==
  ASSUME TypeOK, TypeOK', NEW p \in Procs, SampleInv(p), ClearCell(p)
  PROVE  SampleInv(p)'
<1>1. phase[p] = "clear" /\ UNCHANGED <<sums, mark>> /\ NextCell(p, "before")
  BY DEF ClearCell
<1>2. sums'[p] = [before |-> Zero, after |-> Zero] /\ mark'[p] = <<>>
  BY <1>1 DEF SampleInv
<1>3. phase'[p] = "clear" \/ (phase'[p] = "before" /\ at'[p] = 0)
  BY <1>1, NextCellType DEF Phases
<1>4. CASE phase'[p] = "clear"
  BY <1>2, <1>4 DEF SampleInv
<1> QED
  BY <1>2, <1>3, <1>4, Begins

LEMMA ShowSample ==
  ASSUME TypeOK, TypeOK', NEW p \in Procs, SampleInv(p), Show(p)
  PROVE  SampleInv(p)'
<1>1. /\ phase[p] = "show" /\ at' = at
      /\ phase'[p] = "done" \/ phase'[p] = "before"
      /\ sums'[p] = [before |-> Zero, after |-> Zero] /\ mark'[p] = <<>>
  BY DEF Show, TypeOK, StatTypeOK
<1>2. at'[p] = 0
  BY <1>1 DEF SampleInv
<1>3. CASE phase'[p] = "done"
  BY <1>3 DEF SampleInv
<1> QED
  BY <1>1, <1>2, <1>3, Begins

LEMMA FailSample ==
  ASSUME TypeOK, NEW p \in Procs, Fail(p)
  PROVE  SampleInv(p)'
<1>1. phase'[p] = "done"
  BY DEF Fail, TypeOK, StatTypeOK
<1> QED
  BY <1>1 DEF SampleInv

(* What the others do. *)
LEMMA OthersSample ==
  ASSUME TypeOK, TypeOK', NEW p \in Procs, SampleInv(p), NEW q \in Procs \ {p},
         Start(q) \/ Runs(q) \/ Fail(q)
  PROVE  SampleInv(p)'
<1>1. Kept(p) /\ clears \subseteq clears'
  <2>1. CASE Start(q)
    BY <2>1 DEF Start, Kept, TypeOK, StatTypeOK, Noting
  <2>2. CASE ClearCell(q)
    <3>1. UNCHANGED <<args, sums, mark>> /\ NextCell(q, "before") /\ clears \subseteq clears'
      BY <2>2 DEF ClearCell, Noting
    <3>2. phase'[p] = phase[p] /\ at'[p] = at[p]
      BY <3>1, NextCellType DEF Phases
    <3> QED
      BY <3>1, <3>2 DEF Kept
  <2>3. CASE Read(q)
    <3>1. PICK s \in {"before", "after"}, then \in {"after", "show"} : ReadCell(q, s, then)
      BY <2>3 DEF Read
    <3>2. UNCHANGED <<args, clears>> /\ NextCell(q, then) /\ sums' = Added(q, s)
          /\ mark' = IF at[q] \in {0, LastCell} THEN [mark EXCEPT ![q] = Append(@, Totals(q))]
                     ELSE mark
      BY <3>1 DEF ReadCell
    <3>3. phase'[p] = phase[p] /\ at'[p] = at[p]
      BY <3>2, NextCellType DEF Phases
    <3>4. sums'[p] = sums[p]
      BY <3>2 DEF Added, TypeOK, StatTypeOK
    <3>5. mark'[p] = mark[p]
      BY <3>2 DEF TypeOK, StatTypeOK
    <3> QED
      BY <3>2, <3>3, <3>4, <3>5 DEF Kept
  <2>4. CASE Show(q)
    <3>1. /\ UNCHANGED <<at, clears>> /\ phase'[p] = phase[p]
          /\ sums'[p] = sums[p] /\ mark'[p] = mark[p]
      BY <2>4 DEF Show, TypeOK, StatTypeOK
    <3>2. args'[p] = args[p]
      BY <2>4 DEF Show, TypeOK, StatTypeOK
    <3> QED
      BY <3>1, <3>2 DEF Kept
  <2>5. CASE Fail(q)
    BY <2>5 DEF Fail, Kept, TypeOK, StatTypeOK
  <2> QED
    BY <2>1, <2>2, <2>3, <2>4, <2>5 DEF Runs
<1>2. Clean' => Clean
  BY <1>1 DEF Clean
<1>3. \/ p \in torn' \/ phase[p] \notin Sampling
      \/ (p \notin torn' => p \notin torn) /\ UNCHANGED <<counter, stored>>
  <2>1. CASE ClearCell(q)
    BY <2>1 DEF ClearCell
  <2>2. CASE ~ ClearCell(q)
    BY <2>2 DEF Start, Runs, Read, ReadCell, Show, Fail, xdpVars
  <2> QED
    BY <2>1, <2>2
<1> QED
  BY <1>1, <1>2, <1>3, StaysGrown, SampleKept

-----------------------------------------------------------------------------
(***************************************************************************)
(* A process that reads a value.                                           *)
(***************************************************************************)
LEMMA TotalsAt ==
  ASSUME NEW p \in Procs, NEW m \in Maps, NEW i \in Redirected
  PROVE  Totals(p)[m][i] = SumOf(stored[m][i], args[p].nr_cpus)
BY DEF Totals, Total

LEMMA ReadFacts ==
  ASSUME TypeOK, TypeOK', NEW p \in Procs, NEW s \in {"before", "after"},
         NEW then \in {"after", "show"}, ReadCell(p, s, then)
  PROVE  /\ phase[p] = s /\ UNCHANGED <<counter, stored, args, torn, clears>>
         /\ mark'[p] = IF at[p] \in {0, LastCell} THEN Append(mark[p], Totals(p)) ELSE mark[p]
         /\ \A o \in {"before", "after"} \ {s} : sums'[p][o] = sums[p][o]
         /\ \A m \in Maps, i \in Counters : s = "after" \/ i \in Redirected =>
              Cong(sums'[p][s][m][i],
                   sums[p][s][m][i] + Gain(at[p], args[p].nr_cpus, m, i, counter[m][i]))
         /\ \/ at[p] < LastCell /\ at'[p] = at[p] + 1 /\ phase'[p] = s
            \/ at[p] = LastCell /\ at'[p] = 0 /\ phase'[p] = then
<1>1. /\ phase[p] = s /\ UNCHANGED <<xdpVars, args, torn, clears>> /\ NextCell(p, then)
      /\ mark' = IF at[p] \in {0, LastCell} THEN [mark EXCEPT ![p] = Append(@, Totals(p))] ELSE mark
      /\ sums' = Added(p, s)
  BY DEF ReadCell
<1>2. mark'[p] = IF at[p] \in {0, LastCell} THEN Append(mark[p], Totals(p)) ELSE mark[p]
  BY <1>1 DEF TypeOK, StatTypeOK
<1>3. \/ at[p] < LastCell /\ at'[p] = at[p] + 1 /\ phase'[p] = s
      \/ at[p] = LastCell /\ at'[p] = 0 /\ phase'[p] = then
  BY <1>1, NextCellType DEF Phases
<1>4. UNCHANGED <<counter, stored>>
  BY <1>1 DEF xdpVars
<1> DEFINE m == MapAt(at[p])  i == IdxAt(at[p])  c == CpuAt(at[p])  n == args[p].nr_cpus
           total == Wrap(sums[p][s][m][i] + counter[m][i][c])
<1>5. /\ m \in Maps /\ i \in Counters /\ c \in Cpus
      /\ sums \in [Procs -> [before : Samples, after : Samples]]
  BY CellFacts DEF TypeOK, StatTypeOK
<1>6. /\ c < n /\ (s = "after" \/ i \in Redirected) => sums' = [sums EXCEPT ![p][s][m][i] = total]
      /\ ~ (c < n /\ (s = "after" \/ i \in Redirected)) => sums' = sums
  BY <1>1 DEF Added
<1>7. \A l \in Maps, j \in Counters : Gain(at[p], n, l, j, counter[l][j]) =
        IF l = m /\ j = i /\ c < n THEN counter[m][i][c] ELSE 0
  BY DEF Gain
<1>8. \A l \in Maps, j \in Counters : sums[p][s][l][j] \in Int /\ counter[l][j][c] \in Int
  <2> SUFFICES ASSUME NEW l \in Maps, NEW j \in Counters
               PROVE  sums[p][s][l][j] \in Int /\ counter[l][j][c] \in Int
    OBVIOUS
  <2> HIDE DEF c
  <2>1. counter[l][j] \in [Cpus -> Word]
    BY CounterType DEF TypeOK, XdpTypeOK
  <2>2. counter[l][j][c] \in Word
    BY <1>5, <2>1
  <2>3. sums[p][s][l][j] \in Word
    BY ProcType
  <2>4. \A x \in Word : x \in Int
    BY WordFacts
  <2> QED
    BY <2>2, <2>3, <2>4
<1>9. total \in Word /\ Cong(total, sums[p][s][m][i] + counter[m][i][c])
  <2> DEFINE t == sums[p][s][m][i] + counter[m][i][c]
  <2>1. t \in Int
    BY <1>5, <1>8
  <2> HIDE DEF t
  <2>2. Wrap(t) \in Word /\ Cong(Wrap(t), t)
    BY <2>1, WrapCong
  <2> QED
    BY <2>2 DEF t
<1> HIDE DEF m, i, c, n, total
<1>10. \A o \in {"before", "after"} \ {s} : sums'[p][o] = sums[p][o]
  BY <1>5, <1>6
<1>11. \A l \in Maps, j \in Counters :
         sums'[p][s][l][j] = IF l = m /\ j = i /\ c < n /\ (s = "after" \/ i \in Redirected)
                             THEN total ELSE sums[p][s][l][j]
  <2> DEFINE sample == [sums[p][s] EXCEPT ![m][i] = total]
             both == [sums[p] EXCEPT ![s] = sample]
  <2>1. sums[p][s] \in Samples
    BY <1>5
  <2>2. \A l \in Maps, j \in Counters :
          sample[l][j] = IF l = m /\ j = i THEN total ELSE sums[p][s][l][j]
    BY <1>5, <2>1 DEF Samples
  <2>3. CASE c < n /\ (s = "after" \/ i \in Redirected)
    <3>1. sums' = [sums EXCEPT ![p] = both]
      BY <1>6, <2>3
    <3> HIDE DEF sample
    <3>2. sums'[p][s] = sample
      BY <1>5, <3>1
    <3> QED
      BY <2>2, <2>3, <3>2
  <2>4. CASE ~ (c < n /\ (s = "after" \/ i \in Redirected))
    BY <1>6, <2>4
  <2> QED
    BY <2>3, <2>4
<1>12. ASSUME NEW l \in Maps, NEW j \in Counters, s = "after" \/ j \in Redirected
       PROVE  Cong(sums'[p][s][l][j], sums[p][s][l][j] + Gain(at[p], n, l, j, counter[l][j]))
  <2>1. CASE l = m /\ j = i /\ c < n
    <3>1. sums'[p][s][l][j] = total
      BY <1>11, <1>12, <2>1
    <3>2. Gain(at[p], n, l, j, counter[l][j]) = counter[m][i][c]
      BY <1>7, <2>1
    <3> QED
      BY <1>9, <2>1, <3>1, <3>2
  <2>2. CASE ~ (l = m /\ j = i /\ c < n)
    <3>1. sums'[p][s][l][j] = sums[p][s][l][j] /\ Gain(at[p], n, l, j, counter[l][j]) = 0
      BY <1>7, <1>11, <2>2
    <3> DEFINE t == sums[p][s][l][j]
    <3>2. t \in Int
      BY <1>8
    <3> HIDE DEF t
    <3>3. Cong(t, t + 0)
      BY <3>2, CongItself
    <3> QED
      BY <3>1, <3>3 DEF t
  <2> QED
    BY <2>1, <2>2
<1> QED
  BY <1>1, <1>2, <1>3, <1>4, <1>10, <1>12 DEF n

LEMMA MarkAppended ==
  ASSUME NEW s \in Seq(Marks), NEW t \in Marks
  PROVE  /\ Append(s, t) \in Seq(Marks) /\ Len(Append(s, t)) = Len(s) + 1
         /\ Append(s, t)[Len(s) + 1] = t
         /\ \A j \in 1 .. Len(s) : Append(s, t)[j] = s[j]
BY AppendProperties

(* What is added to the first sample, and how it was marked. *)
LEMMA FirstRead ==
  ASSUME TypeOK, TypeOK', NEW p \in Procs, NEW then \in {"after", "show"},
         ReadCell(p, "before", then), FirstSample(p)
  PROVE  /\ Len(mark'[p]) = IF at[p] = LastCell THEN 2 ELSE 1
         /\ at[p] = LastCell => mark'[p][2] = Totals(p)
         /\ \A m \in Maps, i \in Redirected : \E r \in Nat :
              LET n == args[p].nr_cpus
                  d == Seen(at[p] + 1, n, m, i)
              IN /\ IsSum(sums'[p].before[m][i], r, counter[m][i], stored[m][i], d)
                 /\ mark'[p][1][m][i] <= r + Rest(stored[m][i], d, n)
<1> DEFINE n == args[p].nr_cpus
<1>1. /\ mark'[p] = IF at[p] \in {0, LastCell} THEN Append(mark[p], Totals(p)) ELSE mark[p]
      /\ \A m \in Maps, i \in Redirected :
           Cong(sums'[p].before[m][i],
                sums[p].before[m][i] + Gain(at[p], n, m, i, counter[m][i]))
  BY ReadFacts, CounterFacts
<1>2. /\ mark[p] \in Seq(Marks) /\ Totals(p) \in Marks /\ LastCell # 0
      /\ at[p] \in 0 .. LastCell /\ n \in 1 .. NrPossibleCpus
  BY ProcType, TotalsType, CounterFacts
<1>3. /\ at[p] = 0 => mark[p] = <<>>
      /\ at[p] > 0 => Len(mark[p]) = 1
      /\ \A m \in Maps, i \in Redirected : \E r \in Nat :
           /\ IsSum(sums[p].before[m][i], r, counter[m][i], stored[m][i], Seen(at[p], n, m, i))
           /\ at[p] > 0 => mark[p][1][m][i] <= r + Rest(stored[m][i], Seen(at[p], n, m, i), n)
  BY DEF FirstSample
<1>4. /\ Len(mark'[p]) = IF at[p] = LastCell THEN 2 ELSE 1
      /\ mark'[p][1] = IF at[p] = 0 THEN Totals(p) ELSE mark[p][1]
      /\ at[p] = LastCell => mark'[p][2] = Totals(p)
  <2> DEFINE s == mark[p]  t == Totals(p)
  <2>1. /\ Append(s, t) \in Seq(Marks) /\ Len(Append(s, t)) = Len(s) + 1
        /\ Append(s, t)[Len(s) + 1] = t
        /\ \A j \in 1 .. Len(s) : Append(s, t)[j] = s[j]
    BY <1>2, MarkAppended
  <2>2. /\ mark'[p] = IF at[p] \in {0, LastCell} THEN Append(s, t) ELSE s
        /\ at[p] = 0 => s = <<>>
        /\ at[p] > 0 => Len(s) = 1
        /\ LastCell # 0 /\ at[p] \in 0 .. LastCell
    BY <1>1, <1>2, <1>3
  <2> HIDE DEF s, t
  <2>3. CASE at[p] = 0
    <3>1. Len(s) = 0
      BY <2>2, <2>3
    <3> QED
      BY <2>1, <2>2, <2>3, <3>1 DEF t
  <2>4. CASE at[p] > 0
    <3>1. Len(s) = 1 /\ at[p] # 0
      BY <2>2, <2>4
    <3>2. Len(Append(s, t)) = 2 /\ Append(s, t)[1] = s[1] /\ Append(s, t)[2] = t
      BY <2>1, <3>1
    <3>3. CASE at[p] = LastCell
      BY <2>2, <3>1, <3>2, <3>3 DEF s, t
    <3>4. CASE at[p] # LastCell
      BY <2>2, <3>1, <3>4 DEF s
    <3> QED
      BY <3>3, <3>4
  <2> QED
    BY <2>2, <2>3, <2>4
<1> HIDE DEF n
<1>5. ASSUME NEW m \in Maps, NEW i \in Redirected
      PROVE  \E r \in Nat :
               /\ IsSum(sums'[p].before[m][i], r, counter[m][i], stored[m][i],
                        Seen(at[p] + 1, n, m, i))
               /\ mark'[p][1][m][i] <= r + Rest(stored[m][i], Seen(at[p] + 1, n, m, i), n)
  <2> DEFINE v == counter[m][i]  w == stored[m][i]
             sum == sums[p].before[m][i]  next == sums'[p].before[m][i]
             k == at[p]  d == Seen(k, n, m, i)  e == Seen(k + 1, n, m, i)
  <2>1. i \in Counters
    BY CounterFacts
  <2>2. v \in [Cpus -> Word] /\ w \in [Cpus -> Nat] /\ sum \in Word /\ next \in Word
    <3>1. next \in Word
      <4>1. sums'[p] \in [before : Samples, after : Samples]
        BY DEF TypeOK, StatTypeOK
      <4> QED
        BY <2>1, <4>1 DEF Samples
    <3> QED
      BY <2>1, <3>1, CounterType, ProcType DEF TypeOK, XdpTypeOK
  <2>3. PICK r \in Nat : IsSum(sum, r, v, w, d) /\ (k > 0 => mark[p][1][m][i] <= r + Rest(w, d, n))
    BY <1>3
  <2>4. Cong(next, sum + Gain(k, n, m, i, v))
    BY <1>1 DEF n
  <2>5. k \in 0 .. LastCell
    BY <1>2
  <2>6. k = 0 => mark'[p][1][m][i] = SumOf(w, n)
    BY <1>4, TotalsAt DEF n
  <2>7. k > 0 => mark'[p][1][m][i] = mark[p][1][m][i]
    BY <1>4
  <2>8. d = Seen(k, n, m, i) /\ e = Seen(k + 1, n, m, i)
    OBVIOUS
  <2> HIDE DEF v, w, sum, next, k, d, e
  <2> DEFINE s == r + Gain(k, n, m, i, w)
  <2>9. /\ s \in Nat /\ IsSum(next, s, v, w, e) /\ s + Rest(w, e, n) = r + Rest(w, d, n)
    BY <1>2, <2>1, <2>2, <2>3, <2>4, <2>5, <2>8, ReadOne
  <2> HIDE DEF s
  <2>10. k = 0 => SumOf(w, n) <= r + Rest(w, d, n)
    <3> SUFFICES ASSUME k = 0 PROVE SumOf(w, n) <= r + Rest(w, d, n)
      OBVIOUS
    <3>1. d = 0
      BY <1>2, <2>1, <2>8, SeenEnds
    <3>2. SumOf(w, 0) = 0 /\ SumOf(w, n) \in Int
      <4>1. n \in 0 .. NrPossibleCpus
        BY <1>2, CountersAssumption
      <4> QED
        BY <2>2, <4>1, SumSteps, SumType, AreValues
    <3> QED
      BY <3>1, <3>2 DEF Rest
  <2>11. mark'[p][1][m][i] <= s + Rest(w, e, n)
    <3>1. CASE k = 0
      BY <2>6, <2>9, <2>10, <3>1
    <3>2. CASE k > 0
      BY <2>3, <2>7, <2>9, <3>2
    <3> QED
      BY <2>5, <3>1, <3>2
  <2> QED
    BY <2>9, <2>11 DEF v, w, next, k, e
<1> QED
  BY <1>4, <1>5 DEF n

LEMMA FirstSampleEnds ==
  ASSUME TypeOK, TypeOK', NEW p \in Procs, ReadCell(p, "before", "after"), FirstSample(p),
         at[p] = LastCell
  PROVE  FirstSampleDone(p)' /\ SecondSample(p)'
<1> DEFINE n == args[p].nr_cpus
<1>1. /\ UNCHANGED <<counter, stored, args>> /\ at'[p] = 0 /\ phase'[p] = "after"
      /\ sums'[p].after = Zero
  BY ReadFacts, ProcType, CounterFacts DEF FirstSample
<1>2. /\ Len(mark'[p]) = 2 /\ mark'[p][2] = Totals(p)
      /\ \A m \in Maps, i \in Redirected : \E r \in Nat :
           LET d == Seen(LastCell + 1, n, m, i)
           IN /\ IsSum(sums'[p].before[m][i], r, counter[m][i], stored[m][i], d)
              /\ mark'[p][1][m][i] <= r + Rest(stored[m][i], d, n)
  BY FirstRead
<1>3. n \in 1 .. NrPossibleCpus /\ n \in 0 .. NrPossibleCpus
  BY ProcType, CountersAssumption
<1>4. \A m \in Maps, i \in Redirected : mark'[p][2][m][i] = SumOf(stored[m][i], n)
  BY <1>2, TotalsAt
<1> HIDE DEF n
<1>5. ASSUME NEW m \in Maps, NEW i \in Counters
      PROVE  /\ counter[m][i] \in [Cpus -> Word] /\ stored[m][i] \in [Cpus -> Nat]
             /\ SumOf(stored[m][i], n) \in Int
  <2>1. counter[m][i] \in [Cpus -> Word] /\ stored[m][i] \in [Cpus -> Nat]
    BY CounterType DEF TypeOK, XdpTypeOK
  <2>2. stored[m][i] \in Values
    BY <2>1, AreValues
  <2> QED
    BY <1>3, <2>1, <2>2, SumType
<1>6. ASSUME NEW m \in Maps, NEW i \in Redirected
      PROVE  \E r \in Nat :
               /\ mark'[p][1][m][i] <= r /\ r <= mark'[p][2][m][i]
               /\ mark'[p][2][m][i] <= SumOf(stored[m][i], n)
               /\ Cong(sums'[p].before[m][i], r + Off(counter[m][i], stored[m][i], n))
  <2> DEFINE v == counter[m][i]  w == stored[m][i]  next == sums'[p].before[m][i]
             low == mark'[p][1][m][i]  high == mark'[p][2][m][i]
  <2>1. i \in Counters /\ Seen(LastCell + 1, n, m, i) = n
    BY <1>3, CounterFacts, SeenEnds
  <2>2. PICK r \in Nat : IsSum(next, r, v, w, n) /\ low <= r + Rest(w, n, n)
    BY <1>2, <2>1 DEF n
  <2>3. high = SumOf(w, n) /\ SumOf(w, n) \in Int
    BY <1>4, <1>5, <2>1
  <2> HIDE DEF v, w, next, low, high
  <2>4. r + Rest(w, n, n) = r
    BY <2>3 DEF Rest
  <2> QED
    BY <2>2, <2>3, <2>4 DEF IsSum, v, w, next, low, high
<1>7. FirstSampleDone(p)'
  BY <1>1, <1>6 DEF FirstSampleDone, n
<1>8. Position(p)' = 0
  BY <1>1 DEF Position
<1>9. ASSUME NEW m \in Maps
      PROVE  \E r \in [Counters -> Nat] : Sampled(p, m, r)'
  <2> DEFINE r == [i \in Counters |-> 0]
  <2>1. ASSUME NEW i \in Counters
        PROVE  /\ IsSum(sums'[p].after[m][i], r[i], counter[m][i], stored[m][i],
                        Seen(0, n, m, i))
               /\ r[i] = 0 /\ 0 <= Rest(stored[m][i], Seen(0, n, m, i), n)
    <3>1. Seen(0, n, m, i) = 0 /\ r[i] = 0 /\ sums'[p].after[m][i] = 0
      BY <1>1, <1>3, SeenEnds DEF Zero
    <3>2. 0 <= SumOf(stored[m][i], n) - SumOf(stored[m][i], 0)
      <4> DEFINE w == stored[m][i]
      <4>1. w \in [Cpus -> Nat] /\ 0 \in 0 .. n
        BY <1>3, <1>5
      <4> HIDE DEF w
      <4>2. SumOf(w, 0) \in Nat /\ SumOf(w, n) \in Nat /\ SumOf(w, 0) <= SumOf(w, n)
        BY <1>3, <4>1, SumOfNaturals
      <4> QED
        BY <4>2 DEF w
    <3>3. IsSum(0, 0, counter[m][i], stored[m][i], 0)
      BY <1>5, SumOfNone
    <3> QED
      BY <3>1, <3>2, <3>3 DEF Rest
  <2>2. r \in [Counters -> Nat]
    OBVIOUS
  <2> HIDE DEF r
  <2>3. \A i \in Redirected : i \in Counters /\ i + 2 \in Counters
    BY CounterFacts
  <2>4. ASSUME NEW i \in Redirected
        PROVE  r[i] <= r[i + 2] + Rest(stored[m][i + 2], Seen(0, n, m, i + 2), n)
    <3> DEFINE e == Rest(stored[m][i + 2], Seen(0, n, m, i + 2), n)
    <3>1. r[i] = 0 /\ r[i + 2] = 0 /\ 0 <= e
      BY <2>1, <2>3
    <3>2. e \in Int
      <4>1. Seen(0, n, m, i + 2) = 0 /\ SumOf(stored[m][i + 2], 0) = 0
        BY <1>3, <2>3, SeenEnds, SumSteps
      <4> QED
        BY <1>5, <2>3, <4>1 DEF Rest
    <3> HIDE DEF e
    <3> QED
      BY <3>1, <3>2 DEF e
  <2>5. Sampled(p, m, r)'
    BY <1>1, <1>8, <2>1, <2>4 DEF Sampled, n
  <2> QED
    BY <2>2, <2>5
<1>10. Len(mark'[p]) = IF Position(p)' = 0 THEN 2 ELSE IF phase'[p] = "show" THEN 4 ELSE 3
  BY <1>2, <1>8
<1>11. SecondSample(p)'
  BY <1>9, <1>10 DEF SecondSample
<1> QED
  BY <1>7, <1>11

LEMMA ReadFirstSample ==
  ASSUME TypeOK, TypeOK', NEW p \in Procs, SampleInv(p), ReadCell(p, "before", "after")
  PROVE  SampleInv(p)'
<1>1. /\ phase[p] = "before" /\ UNCHANGED <<counter, stored, args, torn, clears>>
      /\ sums'[p].after = sums[p].after
      /\ \/ at[p] < LastCell /\ at'[p] = at[p] + 1 /\ phase'[p] = "before"
         \/ at[p] = LastCell /\ at'[p] = 0 /\ phase'[p] = "after"
  BY ReadFacts
<1>2. p \notin torn' /\ "lost" \notin clears' => FirstSample(p)
  BY <1>1 DEF SampleInv
<1>3. CASE at[p] < LastCell /\ at'[p] = at[p] + 1 /\ phase'[p] = "before"
  <2>1. ASSUME FirstSample(p)  PROVE FirstSample(p)'
    <3>1. \A m \in Maps, i \in Redirected : \E r \in Nat :
            LET n == args[p].nr_cpus
                d == Seen(at[p] + 1, n, m, i)
            IN /\ IsSum(sums'[p].before[m][i], r, counter[m][i], stored[m][i], d)
               /\ mark'[p][1][m][i] <= r + Rest(stored[m][i], d, n)
      BY <2>1, FirstRead, Zenon
    <3>3. Len(mark'[p]) = 1
      <4>1. Len(mark'[p]) = IF at[p] = LastCell THEN 2 ELSE 1
        BY <2>1, FirstRead, Zenon
      <4>2. at[p] # LastCell
        BY <1>3, ProcType, CounterFacts
      <4> QED
        BY <4>1, <4>2
    <3>2. at'[p] = at[p] + 1 /\ at'[p] # 0 /\ sums'[p].after = Zero
      BY <1>1, <1>3, <2>1, ProcType DEF FirstSample
    <3> QED
      BY <1>1, <3>1, <3>2, <3>3 DEF FirstSample
  <2> QED
    BY <1>2, <1>3, <2>1 DEF SampleInv
<1>4. CASE at[p] = LastCell /\ at'[p] = 0 /\ phase'[p] = "after"
  BY <1>2, <1>4, FirstSampleEnds DEF SampleInv
<1> QED
  BY <1>1, <1>3, <1>4

(* What was redirected is read first, so it is not more than what will     *)
(* have been received.                                                     *)
LEMMA ReadOrder ==
  ASSUME NEW k \in 0 .. LastCell, NEW n \in 1 .. NrPossibleCpus, NEW m \in Maps,
         NEW i \in Redirected, NEW w \in [Cpus -> Nat], NEW z \in [Cpus -> Nat],
         \A c \in Cpus : w[c] <= z[c], NEW r \in Nat, NEW t \in Nat,
         r <= t + Rest(z, Seen(k, n, m, i + 2), n),
         r + Gain(k, n, m, i, w) <= SumOf(w, Seen(k + 1, n, m, i))
  PROVE  r + Gain(k, n, m, i, w) <= t + Rest(z, Seen(k, n, m, i + 2), n)
<1>1. i \in Counters /\ i + 2 \in Counters /\ LastCell \in Nat /\ NrPossibleCpus \in Nat \ {0}
  BY CounterFacts, CountersAssumption
<1>2. CASE m = MapAt(k) /\ i = IdxAt(k)
  <2>1. Passed(k, m, i) # NrPossibleCpus
    BY <1>1, <1>2, PassedSteps, Coordinates DEF Cpus
  <2>2. Passed(k, m, i + 2) = 0
    BY <1>1, <2>1, RedirectedPassedFirst
  <2>3. Seen(k, n, m, i + 2) = 0
    BY <2>2 DEF Seen
  <2> DEFINE e == Seen(k + 1, n, m, i)
  <2>4. e \in 0 .. n /\ n \in 0 .. NrPossibleCpus
    BY <1>1, SeenType
  <2> HIDE DEF e
  <2>5. SumOf(w, e) <= SumOf(w, n) /\ SumOf(w, e) \in Nat /\ SumOf(w, n) \in Nat
    BY <2>4, SumOfNaturals
  <2>6. SumOf(w, n) <= SumOf(z, n) /\ SumOf(z, n) \in Int
    BY <2>4, AreValues, SumMonotone, SumType
  <2>7. Rest(z, Seen(k, n, m, i + 2), n) = SumOf(z, n)
    BY <2>3, <2>6, SumSteps DEF Rest
  <2> DEFINE s == r + Gain(k, n, m, i, w)
  <2>8. s <= SumOf(w, e)
    BY DEF e
  <2>9. s \in Int
    BY <1>1, AreValues, SeenSteps
  <2> HIDE DEF s
  <2> QED
    BY <2>5, <2>6, <2>7, <2>8, <2>9 DEF s
<1>3. CASE ~ (m = MapAt(k) /\ i = IdxAt(k))
  <2>1. Gain(k, n, m, i, w) = 0
    BY <1>3 DEF Gain
  <2> QED
    BY <2>1
<1> QED
  BY <1>2, <1>3

LEMMA SecondMarks ==
  ASSUME TypeOK, TypeOK', NEW p \in Procs, ReadCell(p, "after", "show"), SecondSample(p)
  PROVE  /\ Len(mark'[p]) = IF at[p] = LastCell THEN 4 ELSE 3
         /\ mark'[p][1] = mark[p][1] /\ mark'[p][2] = mark[p][2]
         /\ mark'[p][3] = IF at[p] = 0 THEN Totals(p) ELSE mark[p][3]
         /\ at[p] = LastCell => mark'[p][4] = Totals(p)
<1> DEFINE s == mark[p]  t == Totals(p)  k == at[p]
<1>1. /\ mark'[p] = IF k \in {0, LastCell} THEN Append(s, t) ELSE s
      /\ phase[p] = "after"
  BY ReadFacts
<1>2. s \in Seq(Marks) /\ t \in Marks /\ LastCell # 0 /\ k \in 0 .. LastCell
  BY ProcType, TotalsType, CounterFacts
<1>3. Len(s) = IF k = 0 THEN 2 ELSE 3
  BY <1>1 DEF SecondSample, Position
<1>4. /\ Append(s, t) \in Seq(Marks) /\ Len(Append(s, t)) = Len(s) + 1
      /\ Append(s, t)[Len(s) + 1] = t
      /\ \A j \in 1 .. Len(s) : Append(s, t)[j] = s[j]
  BY <1>2, MarkAppended
<1> HIDE DEF s, t, k
<1>5. CASE k = 0
  <2>1. Len(s) = 2 /\ mark'[p] = Append(s, t) /\ k # LastCell
    BY <1>1, <1>2, <1>3, <1>5
  <2> QED
    BY <1>4, <1>5, <2>1 DEF s, t, k
<1>6. CASE k = LastCell
  <2>1. Len(s) = 3 /\ mark'[p] = Append(s, t) /\ k # 0
    BY <1>1, <1>2, <1>3, <1>6
  <2> QED
    BY <1>4, <1>6, <2>1 DEF s, t, k
<1>7. CASE k # 0 /\ k # LastCell
  BY <1>1, <1>3, <1>7 DEF s, k
<1> QED
  BY <1>5, <1>6, <1>7

LEMMA ReadSecondSample ==
  ASSUME TypeOK, TypeOK', CpuInv, NEW p \in Procs, SampleInv(p), ReadCell(p, "after", "show")
  PROVE  SampleInv(p)'
<1> DEFINE n == args[p].nr_cpus  k == at[p]
<1>1. /\ phase[p] = "after" /\ UNCHANGED <<counter, stored, args, torn, clears>>
      /\ sums'[p].before = sums[p].before
      /\ \A m \in Maps, i \in Counters :
           Cong(sums'[p].after[m][i], sums[p].after[m][i] + Gain(k, n, m, i, counter[m][i]))
      /\ \/ k < LastCell /\ at'[p] = k + 1 /\ phase'[p] = "after"
         \/ k = LastCell /\ at'[p] = 0 /\ phase'[p] = "show"
  BY ReadFacts
<1>2. k \in 0 .. LastCell /\ n \in 1 .. NrPossibleCpus /\ LastCell \in Nat /\ LastCell # 0
      /\ n \in 0 .. NrPossibleCpus
  BY ProcType, CounterFacts, CountersAssumption
<1>3. Position(p) = k /\ Position(p)' = k + 1
  BY <1>1, <1>2 DEF Position
<1>4. (Clean' => Clean) /\ (Clean => Counted)
  BY <1>1 DEF Clean, CpuInv
<1>5. ASSUME FirstSampleDone(p), SecondSample(p)
      PROVE  FirstSampleDone(p)' /\ SecondSample(p)'
  <2>1. /\ Len(mark'[p]) = IF k = LastCell THEN 4 ELSE 3
        /\ mark'[p][1] = mark[p][1] /\ mark'[p][2] = mark[p][2]
        /\ mark'[p][3] = IF k = 0 THEN Totals(p) ELSE mark[p][3]
        /\ k = LastCell => mark'[p][4] = Totals(p)
    BY <1>5, SecondMarks
  <2>2. FirstSampleDone(p)'
    BY <1>1, <1>5, <2>1 DEF FirstSampleDone
  <2>3. ASSUME NEW m \in Maps  PROVE \E s \in [Counters -> Nat] : Sampled(p, m, s)'
    <3>1. PICK r \in [Counters -> Nat] : Sampled(p, m, r)
      BY <1>5 DEF SecondSample
    <3> DEFINE d(i) == Seen(k, n, m, i)  e(i) == Seen(k + 1, n, m, i)
               gain(i) == Gain(k, n, m, i, stored[m][i])
    <3>2. /\ \A i \in Counters :
               IsSum(sums[p].after[m][i], r[i], counter[m][i], stored[m][i], d(i))
          /\ \A i \in Redirected :
               /\ k > 0 => /\ mark[p][2][m][i] <= mark[p][3][m][i]
                           /\ mark[p][3][m][i] <= r[i] + Rest(stored[m][i], d(i), n)
               /\ Clean => r[i] <= r[i + 2] + Rest(stored[m][i + 2], d(i + 2), n)
      BY <1>3, <3>1 DEF Sampled
    <3>3. ASSUME NEW i \in Counters
          PROVE  /\ counter[m][i] \in [Cpus -> Word] /\ stored[m][i] \in [Cpus -> Nat]
                 /\ sums[p].after[m][i] \in Word /\ sums'[p].after[m][i] \in Word
                 /\ SumOf(stored[m][i], n) \in Int
      <4>1. counter[m][i] \in [Cpus -> Word] /\ stored[m][i] \in [Cpus -> Nat]
        BY CounterType DEF TypeOK, XdpTypeOK
      <4>2. sums'[p].after[m][i] \in Word
        <5>1. sums'[p] \in [before : Samples, after : Samples]
          BY DEF TypeOK, StatTypeOK
        <5> QED
          BY <5>1 DEF Samples
      <4>3. SumOf(stored[m][i], n) \in Int
        <5>1. stored[m][i] \in Values
          BY <4>1, AreValues
        <5> QED
          BY <1>2, <5>1, SumType
      <4> QED
        BY <4>1, <4>2, <4>3, ProcType
    <3>4. ASSUME NEW i \in Counters
          PROVE  /\ r[i] + gain(i) \in Nat
                 /\ IsSum(sums'[p].after[m][i], r[i] + gain(i), counter[m][i], stored[m][i], e(i))
                 /\ r[i] + gain(i) + Rest(stored[m][i], e(i), n)
                      = r[i] + Rest(stored[m][i], d(i), n)
      <4> DEFINE v == counter[m][i]  w == stored[m][i]
                 sum == sums[p].after[m][i]  next == sums'[p].after[m][i]  x == r[i]
      <4>1. /\ v \in [Cpus -> Word] /\ w \in [Cpus -> Nat] /\ sum \in Word /\ next \in Word
            /\ x \in Nat
        BY <3>3
      <4>2. Cong(next, sum + Gain(k, n, m, i, v)) /\ IsSum(sum, x, v, w, Seen(k, n, m, i))
        BY <1>1, <3>2
      <4> HIDE DEF v, w, sum, next, n, k, x
      <4>3. LET y == x + Gain(k, n, m, i, w) IN
            /\ y \in Nat
            /\ IsSum(next, y, v, w, Seen(k + 1, n, m, i))
            /\ y + Rest(w, Seen(k + 1, n, m, i), n) = x + Rest(w, Seen(k, n, m, i), n)
        BY <1>2, <4>1, <4>2, ReadOne
      <4> QED
        BY <4>3 DEF v, w, next, x
    <3>5. PICK s \in [Counters -> Nat] : \A i \in Counters : s[i] = r[i] + gain(i)
      <4> DEFINE x == [i \in Counters |-> r[i] + gain(i)]
      <4>1. x \in [Counters -> Nat]
        BY <3>4
      <4>2. \A i \in Counters : x[i] = r[i] + gain(i)
        OBVIOUS
      <4> HIDE DEF x
      <4> QED
        BY <4>1, <4>2
    <3>6. \A i \in Redirected : i \in Counters /\ i + 2 \in Counters
      BY CounterFacts
    <3>7. ASSUME NEW i \in Redirected
          PROVE  /\ mark'[p][2][m][i] <= mark'[p][3][m][i]
                 /\ mark'[p][3][m][i] <= s[i] + Rest(stored[m][i], e(i), n)
      <4> DEFINE w == stored[m][i]
      <4>1. i \in Counters
        BY <3>6
      <4>2. s[i] + Rest(w, e(i), n) = r[i] + Rest(w, d(i), n)
        BY <3>4, <3>5, <4>1
      <4>3. CASE k > 0
        BY <2>1, <3>2, <4>2, <4>3
      <4>4. CASE k = 0
        <5>1. mark'[p][3][m][i] = SumOf(w, n)
          BY <2>1, <4>4, TotalsAt
        <5>2. mark'[p][2][m][i] <= SumOf(w, n)
          BY <1>5, <2>1 DEF FirstSampleDone
        <5>3. d(i) = 0 /\ SumOf(w, 0) = 0
          BY <1>2, <4>1, <4>4, SeenEnds, SumSteps
        <5>4. SumOf(w, n) \in Int /\ r[i] \in Nat
          BY <3>3, <4>1
        <5> HIDE DEF w, d, e
        <5>5. SumOf(w, n) <= r[i] + Rest(w, d(i), n)
          BY <5>3, <5>4 DEF Rest
        <5> QED
          BY <4>2, <5>1, <5>2, <5>5 DEF w
      <4> QED
        BY <1>2, <4>3, <4>4
    <3>8. ASSUME NEW i \in Redirected, phase'[p] = "show"
          PROVE  s[i] <= mark'[p][4][m][i]
      <4>1. k = LastCell
        BY <1>1, <3>8
      <4>2. mark'[p][4][m][i] = SumOf(stored[m][i], n)
        BY <2>1, <4>1, TotalsAt
      <4>3. e(i) = n
        BY <1>2, <3>6, <4>1, SeenEnds
      <4> QED
        BY <3>4, <3>5, <3>6, <4>2, <4>3 DEF IsSum
    <3>9. ASSUME NEW i \in Redirected, Clean'
          PROVE  s[i] <= s[i + 2] + Rest(stored[m][i + 2], e(i + 2), n)
      <4> DEFINE w == stored[m][i]  z == stored[m][i + 2]  x == r[i]  y == r[i + 2]
      <4>1. i \in Counters /\ i + 2 \in Counters
        BY <3>6
      <4>2. w \in [Cpus -> Nat] /\ z \in [Cpus -> Nat] /\ x \in Nat /\ y \in Nat
        BY <3>3, <4>1
      <4>3. \A c \in Cpus : w[c] <= z[c]
        BY <1>4, <3>9 DEF Counted, Within
      <4>4. x <= y + Rest(z, d(i + 2), n)
        BY <1>4, <3>2, <3>9
      <4>5. x + Gain(k, n, m, i, w) <= SumOf(w, Seen(k + 1, n, m, i))
        BY <3>4, <4>1 DEF IsSum
      <4>6. s[i + 2] + Rest(z, e(i + 2), n) = y + Rest(z, d(i + 2), n)
        BY <3>4, <3>5, <4>1
      <4>7. s[i] = x + Gain(k, n, m, i, w)
        BY <3>5, <4>1
      <4> HIDE DEF w, z, x, y, n, k
      <4>8. x + Gain(k, n, m, i, w) <= y + Rest(z, Seen(k, n, m, i + 2), n)
        BY <1>2, <4>2, <4>3, <4>4, <4>5, ReadOrder
      <4> QED
        BY <4>6, <4>7, <4>8 DEF z
    <3>10. Sampled(p, m, s)'
      <4> HIDE DEF gain
      <4>1. \A i \in Counters :
              IsSum(sums'[p].after[m][i], s[i], counter'[m][i], stored'[m][i], e(i))
        BY <1>1, <3>4, <3>5
      <4> QED
        BY <1>1, <1>3, <3>7, <3>8, <3>9, <4>1 DEF Sampled
    <3> QED
      BY <3>10
  <2>4. Len(mark'[p]) = IF Position(p)' = 0 THEN 2 ELSE IF phase'[p] = "show" THEN 4 ELSE 3
    BY <1>1, <1>2, <1>3, <2>1
  <2> HIDE DEF n, k
  <2> QED
    BY <2>2, <2>3, <2>4 DEF SecondSample
<1>6. p \notin torn' /\ "lost" \notin clears' => FirstSampleDone(p) /\ SecondSample(p)
  BY <1>1 DEF SampleInv
<1>7. phase'[p] = "after" \/ (phase'[p] = "show" /\ at'[p] = 0)
  BY <1>1
<1> HIDE DEF n, k
<1> QED
  BY <1>5, <1>6, <1>7 DEF SampleInv

LEMMA UnchangedSample ==
  ASSUME TypeOK, TypeOK', NEW p \in Procs, SampleInv(p), UNCHANGED vars
  PROVE  SampleInv(p)'
<1>1. UNCHANGED <<counter, stored, phase, at, args, sums, mark, torn, clears>>
  BY DEF vars, xdpVars, statVars
<1> QED
  BY <1>1, StaysGrown, SampleKept DEF Kept, Clean

LEMMA InvNext == Inv /\ [Next]_vars => Inv'
<1> SUFFICES ASSUME Inv, [Next]_vars PROVE Inv'
  OBVIOUS
<1>1. TypeOK /\ TypeOK' /\ CpuInv /\ \A p \in Procs : SampleInv(p)
  BY TypeNext DEF Inv
<1>2. CpuInv'
  BY <1>1, CpuNext
<1>3. ASSUME NEW p \in Procs  PROVE SampleInv(p)'
  <2>1. CASE Xdp
    BY <1>1, <2>1, XdpSample
  <2>2. CASE Start(p) \/ Show(p) \/ Fail(p) \/ ClearCell(p)
    BY <1>1, <2>2, StartSample, ShowSample, FailSample, ClearSample
  <2>3. CASE Read(p)
    BY <1>1, <2>3, ReadFirstSample, ReadSecondSample DEF Read
  <2>4. ASSUME NEW q \in Procs \ {p}, Start(q) \/ Runs(q) \/ Fail(q)  PROVE SampleInv(p)'
    BY <1>1, <2>4, OthersSample
  <2>5. CASE UNCHANGED vars
    BY <1>1, <2>5, UnchangedSample
  <2> QED
    BY <2>1, <2>2, <2>3, <2>4, <2>5 DEF Next, Runs
<1> QED
  BY <1>1, <1>2, <1>3 DEF Inv

LEMMA InvInit == Init => Inv
<1> SUFFICES ASSUME Init PROVE Inv
  OBVIOUS
<1>1. PICK v \in Before : counter = Everywhere(v) /\ stored = Everywhere(v)
  BY DEF Init, XdpInit
<1>2. /\ todo = [c \in Cpus |-> <<>>] /\ loaded = [c \in Cpus |-> NotLoaded] /\ frames = 0
      /\ phase = [p \in Procs |-> "off"] /\ at = [p \in Procs |-> 0]
      /\ args \in [Procs -> Options]
      /\ sums = [p \in Procs |-> [before |-> Zero, after |-> Zero]]
      /\ mark = [p \in Procs |-> <<>>]
  BY DEF Init, XdpInit
<1>3. v \in [Counters -> Word]
  BY CountersAssumption
<1>4. \A m \in Maps, i \in Counters, c \in Cpus :
        /\ counter[m][i][c] = v[i] /\ stored[m][i][c] = v[i] /\ v[i] \in Word /\ v[i] \in Nat
  BY <1>1, <1>3, WordFacts DEF Everywhere
<1>5. XdpTypeOK
  <2>1. counter \in Arrays
    BY <1>1, <1>3 DEF Everywhere, Arrays
  <2>2. stored \in Tallies
    BY <1>1, <1>4 DEF Everywhere, Tallies
  <2> QED
    BY <1>2, <2>1, <2>2 DEF XdpTypeOK, NotLoaded
<1>6. StatTypeOK
  <2>1. Zero \in Samples
    BY WordFacts DEF Zero, Samples
  <2>2. args \in [Procs -> AllOptions]
    BY <1>2, StatAssumption DEF AllOptions
  <2>3. \A p \in Procs : <<>> \in Seq(Marks)
    OBVIOUS
  <2>4. 0 \in 0 .. LastCell
    BY CounterFacts
  <2> QED
    BY <1>2, <2>1, <2>2, <2>3, <2>4 DEF StatTypeOK, Phases
<1>7. Fresh
  BY <1>2 DEF Fresh
<1>8. ASSUME InStep  PROVE Counted
  <2>1. \A m \in Maps, i \in Counters, c \in Cpus : Cong(counter[m][i][c], stored[m][i][c])
    BY <1>4, CongItself
  <2>2. ~ Clearing /\ \A p \in Procs : phase[p] # "clear"
    BY <1>2 DEF Clearing
  <2>3. ASSUME NEW c \in Cpus  PROVE Within(c)
    <3>1. \A i \in Redirected : v[i] <= v[i + 2]
      BY <1>8 DEF InStep
    <3>2. \A m \in Maps, i \in Redirected : stored[m][i][c] <= stored[m][i + 2][c]
      BY <1>4, <3>1, CounterFacts
    <3> QED
      BY <1>2, <3>2 DEF Within
  <2> QED
    BY <2>1, <2>2, <2>3 DEF Counted
<1>9. CpuInv
  BY <1>7, <1>8 DEF CpuInv, Clean
<1>10. \A p \in Procs : SampleInv(p)
  BY <1>2 DEF SampleInv
<1> QED
  BY <1>5, <1>6, <1>9, <1>10 DEF Inv, TypeOK

LEMMA InvHolds == Spec => []Inv
BY InvInit, InvNext, PTL DEF Spec

-----------------------------------------------------------------------------
(***************************************************************************)
(* What is shown.                                                          *)
(***************************************************************************)
LEMMA DifferenceIsTraffic ==
  ASSUME NEW b \in Word, NEW a \in Word, NEW r \in Nat, NEW s \in Nat, NEW o \in Int, r <= s,
         Cong(b, r + o), Cong(a, s + o)
  PROVE  Delta(b, a) \in Nat /\ Delta(b, a) <= s - r
         /\ (s - r < 2^WordBits => Delta(b, a) = s - r)
<1>1. a \in Int /\ b \in Int
  BY WordFacts
<1> DEFINE x == r + o  y == s + o  t == a - b  u == s - r
<1>2. x \in Int /\ y \in Int /\ t \in Int /\ u \in Nat /\ y - x = u
  BY <1>1
<1>3. Cong(b, x) /\ Cong(a, y) /\ Delta(b, a) = Wrap(t)
  BY DEF Delta
<1>4. Cong(t, u)
  <2>1. t = a - b
    OBVIOUS
  <2> HIDE DEF x, y, t, u
  <2>2. Cong(a - b, y - x)
    BY <1>1, <1>2, <1>3, CongAdd
  <2> QED
    BY <1>2, <2>1, <2>2
<1>5. Wrap(t) \in Word /\ Cong(Wrap(t), t)
  BY <1>2, WrapCong
<1>6. u = s - r
  OBVIOUS
<1> HIDE DEF x, y, t, u
<1>7. Wrap(t) \in Int /\ Wrap(t) \in Nat
  <2> DEFINE q == Wrap(t)
  <2>1. q \in Word
    BY <1>5
  <2> HIDE DEF q
  <2>2. q \in Nat
    BY <2>1, WordFacts
  <2>3. q \in Int
    BY <2>2
  <2> QED
    BY <2>2, <2>3 DEF q
<1>8. Cong(Wrap(t), u)
  BY <1>2, <1>4, <1>5, <1>7, CongChain
<1>9. Wrap(t) <= u /\ (u < 2^WordBits => Wrap(t) = u)
  BY <1>2, <1>5, <1>8, WrapBelow
<1> QED
  BY <1>3, <1>6, <1>7, <1>9

LEMMA RateFromInv == Inv => RateWithinTraffic
<1> SUFFICES ASSUME Inv, NEW p \in Procs,
                    phase[p] = "show", p \notin torn, "lost" \notin clears,
                    NEW m \in Maps, NEW i \in Redirected
             PROVE  LET most == mark[p][4][m][i] - mark[p][1][m][i] IN
                    /\ Rate(p, m, i) <= most
                    /\ most < 2^WordBits => mark[p][3][m][i] - mark[p][2][m][i] <= Rate(p, m, i)
  BY DEF RateWithinTraffic
<1> DEFINE n == args[p].nr_cpus  v == counter[m][i]  w == stored[m][i]
           b == sums[p].before[m][i]  a == sums[p].after[m][i]
           m1 == mark[p][1][m][i]  m2 == mark[p][2][m][i]
           m3 == mark[p][3][m][i]  m4 == mark[p][4][m][i]
<1>1. TypeOK /\ FirstSampleDone(p) /\ SecondSample(p)
  BY DEF Inv, SampleInv
<1>2. i \in Counters /\ n \in 1 .. NrPossibleCpus /\ n \in 0 .. NrPossibleCpus
      /\ LastCell + 1 > 0 /\ Position(p) = LastCell + 1 /\ LastCell \in Nat
  BY <1>1, CounterFacts, ProcType, CountersAssumption DEF Position
<1>3. v \in [Cpus -> Word] /\ w \in [Cpus -> Nat] /\ a \in Word /\ b \in Word
  BY <1>1, <1>2, CounterType, ProcType DEF TypeOK, XdpTypeOK
<1>4. mark[p] \in Seq(Marks) /\ Len(mark[p]) = 4
  BY <1>1, <1>2, ProcType DEF SecondSample
<1>5. m1 \in Nat /\ m2 \in Nat /\ m3 \in Nat /\ m4 \in Nat
  BY <1>4, MarkType
<1>6. PICK r \in Nat : m1 <= r /\ r <= m2 /\ Cong(b, r + Off(v, w, n))
  BY <1>1 DEF FirstSampleDone
<1>7. Seen(LastCell + 1, n, m, i) = n
  BY <1>2, SeenEnds
<1>8. PICK s \in Nat : /\ m2 <= m3 /\ m3 <= s + Rest(w, n, n) /\ s <= m4
                       /\ Cong(a, s + Off(v, w, n))
  <2>1. PICK x \in [Counters -> Nat] : Sampled(p, m, x)
    BY <1>1 DEF SecondSample
  <2>2. x[i] \in Nat
    BY <1>2
  <2> QED
    BY <1>2, <1>7, <2>1, <2>2 DEF Sampled, IsSum
<1>9. SumOf(v, n) \in Int /\ SumOf(w, n) \in Int
  BY <1>2, <1>3, AreValues, SumType
<1>10. Rate(p, m, i) = Delta(b, a)
  BY DEF Rate
<1> HIDE DEF n, v, w, b, a, m1, m2, m3, m4
<1>11. Off(v, w, n) \in Int /\ m3 <= s /\ r <= s
  BY <1>5, <1>6, <1>8, <1>9 DEF Off, Rest
<1>12. Delta(b, a) \in Nat /\ Delta(b, a) <= s - r
       /\ (s - r < 2^WordBits => Delta(b, a) = s - r)
  BY <1>3, <1>6, <1>8, <1>11, DifferenceIsTraffic
<1>13. Delta(b, a) <= m4 - m1
  BY <1>5, <1>6, <1>8, <1>12
<1>14. ASSUME m4 - m1 < 2^WordBits  PROVE m3 - m2 <= Delta(b, a)
  <2> DEFINE W == 2^WordBits
  <2>1. W \in Int /\ m4 - m1 < W /\ (s - r < W => Delta(b, a) = s - r)
    BY <1>12, <1>14, CountersAssumption
  <2> HIDE DEF W
  <2> QED
    BY <1>5, <1>6, <1>8, <1>11, <2>1
<1> QED
  BY <1>10, <1>13, <1>14 DEF m1, m2, m3, m4

LEMMA OrderFromInv ==
  ASSUME InStep
  PROVE  Inv => RedirectedWithinReceived
<1> SUFFICES ASSUME Inv, NEW p \in Procs, phase[p] = "show", p \notin torn, clears = {},
                    NEW m \in Maps, NEW i \in Redirected, Total(p, m, i + 2) < 2^WordBits
             PROVE  sums[p].after[m][i] <= sums[p].after[m][i + 2]
  BY DEF RedirectedWithinReceived
<1> DEFINE n == args[p].nr_cpus
<1>1. TypeOK /\ SecondSample(p) /\ Counted /\ Clean
  BY DEF Inv, SampleInv, CpuInv, Clean
<1>2. /\ i \in Counters /\ i + 2 \in Counters
      /\ n \in 1 .. NrPossibleCpus /\ n \in 0 .. NrPossibleCpus /\ Position(p) = LastCell + 1
  BY <1>1, CounterFacts, ProcType, CountersAssumption DEF Position
<1>3. PICK r \in [Counters -> Nat] : Sampled(p, m, r)
  BY <1>1 DEF SecondSample
<1>4. ASSUME NEW j \in Counters
      PROVE  /\ r[j] \in Nat /\ r[j] <= SumOf(stored[m][j], n)
             /\ SumOf(stored[m][j], n) \in Nat
             /\ sums[p].after[m][j] \in Word
             /\ Cong(sums[p].after[m][j], r[j])
             /\ Seen(LastCell + 1, n, m, j) = n
  <2> DEFINE v == counter[m][j]  w == stored[m][j]  a == sums[p].after[m][j]  x == r[j]
  <2>1. v \in [Cpus -> Word] /\ w \in [Cpus -> Nat] /\ a \in Word /\ x \in Nat
    BY <1>1, CounterType, ProcType DEF TypeOK, XdpTypeOK
  <2>2. Seen(LastCell + 1, n, m, j) = n
    BY <1>2, SeenEnds
  <2>3. IsSum(a, x, v, w, n)
    BY <1>2, <1>3, <2>2 DEF Sampled
  <2>4. \A c \in Cpus : Cong(v[c], w[c])
    BY <1>1 DEF Counted
  <2> HIDE DEF n, v, w, a, x
  <2>5. v \in Values /\ w \in Values /\ a \in Int
    BY <2>1, AreValues, WordFacts
  <2>6. Cong(SumOf(v, n), SumOf(w, n)) /\ SumOf(v, n) \in Int /\ SumOf(w, n) \in Int
    BY <1>2, <2>4, <2>5, SumsCong, SumType
  <2>7. Cong(SumOf(w, n), SumOf(w, n)) /\ Cong(x, x)
    BY <2>1, <2>6, CongItself
  <2>8. Cong(Off(v, w, n), 0) /\ Off(v, w, n) \in Int
    <3>1. Cong(SumOf(v, n) - SumOf(w, n), SumOf(w, n) - SumOf(w, n))
      BY <2>6, <2>7, CongAdd
    <3>2. SumOf(w, n) - SumOf(w, n) = 0
      BY <2>6
    <3> QED
      BY <2>6, <3>1, <3>2 DEF Off
  <2>9. Cong(x + Off(v, w, n), x)
    <3>1. Cong(x + Off(v, w, n), x + 0)
      BY <2>1, <2>7, <2>8, CongAdd
    <3> QED
      BY <2>1, <3>1
  <2>10. Cong(a, x)
    <3>1. Cong(a, x + Off(v, w, n)) /\ x + Off(v, w, n) \in Int
      BY <2>1, <2>3, <2>8 DEF IsSum
    <3> QED
      BY <2>1, <2>5, <2>9, <3>1, CongChain
  <2>11. SumOf(w, n) \in Nat
    <3>1. n \in 0 .. n
      BY <1>2, CountersAssumption
    <3> QED
      BY <1>2, <2>1, <3>1, SumOfNaturals
  <2> QED
    BY <2>1, <2>2, <2>3, <2>10, <2>11 DEF IsSum, v, w, a, x
<1>5. r[i] <= r[i + 2] + Rest(stored[m][i + 2], n, n)
  BY <1>1, <1>2, <1>3, <1>4 DEF Sampled
<1>6. SumOf(stored[m][i + 2], n) < 2^WordBits
  BY DEF Total
<1> DEFINE a == sums[p].after[m][i]  b == sums[p].after[m][i + 2]  x == r[i]  y == r[i + 2]
           t == SumOf(stored[m][i + 2], n)  W == 2^WordBits
<1>7. /\ x \in Nat /\ y \in Nat /\ y <= t /\ t \in Nat /\ a \in Word /\ b \in Word
      /\ Cong(a, x) /\ Cong(b, y) /\ W \in Nat
  BY <1>2, <1>4, CountersAssumption
<1>8. x <= y
  BY <1>5, <1>7 DEF Rest
<1>9. (x < W => a = x) /\ (y < W => b = y)
  <2> HIDE DEF a, b, x, y, t
  <2> QED
    BY <1>7, WrapBelow
<1>10. t < W
  BY <1>6
<1> HIDE DEF a, b, x, y, t, W
<1>11. a <= b
  BY <1>7, <1>8, <1>9, <1>10
<1> QED
  BY <1>11 DEF a, b

(* Whatever the program counts meanwhile, and whatever had been counted or *)
(* overwritten before, what er-stat shows as redirected lies between what  *)
(* was redirected between its samples and what was while it took them.     *)
THEOREM RatesWithinTraffic == Spec => []RateWithinTraffic
BY InvHolds, RateFromInv, PTL

(* No more is shown as redirected than as received, as long as no counter  *)
(* had wrapped around when the processes were started.                     *)
THEOREM RedirectedStaysWithinReceived ==
  ASSUME InStep
  PROVE  Spec => []RedirectedWithinReceived
BY InvHolds, OrderFromInv, PTL
=============================================================================
