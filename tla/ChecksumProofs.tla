---------------------------- MODULE ChecksumProofs ----------------------------
(* Proofs about Checksum, for every header. *)
EXTENDS Checksum, TLAPS

(***************************************************************************)
(* Division with remainder.                                                *)
(***************************************************************************)
LEMMA Quotient ==
  ASSUME NEW x \in Nat, NEW q \in Nat, NEW n \in Nat \ {0}, n * q <= x, x < n * q + n
  PROVE  x \div n = q
BY SMT

LEMMA DivMod ==
  ASSUME NEW x \in Int, NEW n \in Nat \ {0}
  PROVE  x = n * (x \div n) + (x % n)
BY SMT

LEMMA RemainderRange ==
  ASSUME NEW x \in Int, NEW n \in Nat \ {0}
  PROVE  x % n \in Int /\ 0 <= x % n /\ x % n <= n - 1 /\ x \div n \in Int
BY SMT

LEMMA Remainder ==
  ASSUME NEW x \in Nat, NEW q \in Nat, NEW n \in Nat \ {0}, n * q <= x, x < n * q + n
  PROVE  x % n = x - n * q
<1>1. x \div n = q
  BY Quotient, SMT
<1>2. x = n * q + (x % n)
  BY DivMod, <1>1, SMT
<1>3. x % n \in Int /\ n * q \in Int
  BY SMT
<1> HIDE <1>1
<1> DEFINE m == x % n  p == n * q
<1> HIDE DEF m, p
<1>4. x = p + m /\ p \in Int /\ m \in Int
  BY <1>2, <1>3, SMT DEF m, p
<1>5. m = x - p
  BY <1>4, SMT
<1> QED
  BY <1>5, SMT DEF m, p

LEMMA Word0 ==
  ASSUME NEW x \in Nat, x < 65536
  PROVE  x \div 65536 = 0 /\ x % 65536 = x
<1>1. 65536 * 0 <= x /\ x < 65536 * 0 + 65536 /\ 65536 \in Nat \ {0}
  BY SMT
<1>2. x % 65536 = x - 65536 * 0
  BY <1>1, Remainder, SMT
<1>3. x \div 65536 = 0
  BY <1>1, Quotient, SMT
<1> QED
  BY <1>2, <1>3, SMT

LEMMA Word1 ==
  ASSUME NEW x \in Nat, 65536 <= x, x < 131072
  PROVE  x \div 65536 = 1 /\ x % 65536 = x - 65536
<1>1. 65536 * 1 <= x /\ x < 65536 * 1 + 65536 /\ 65536 \in Nat \ {0}
  BY SMT
<1>2. x % 65536 = x - 65536 * 1
  BY <1>1, Remainder, SMT
<1>3. x \div 65536 = 1
  BY <1>1, Quotient, SMT
<1> QED
  BY <1>2, <1>3, SMT

LEMMA Word2 ==
  ASSUME NEW x \in Nat, 131072 <= x, x < 196608
  PROVE  x \div 65536 = 2 /\ x % 65536 = x - 131072
<1>1. 65536 * 2 <= x /\ x < 65536 * 2 + 65536 /\ 65536 \in Nat \ {0}
  BY SMT
<1>2. x % 65536 = x - 65536 * 2
  BY <1>1, Remainder, SMT
<1>3. x \div 65536 = 2
  BY <1>1, Quotient, SMT
<1> QED
  BY <1>2, <1>3, SMT

(* A header's one's complement sum is a multiple of 65535. *)
LEMMA MultipleHasNoRemainder ==
  ASSUME NEW k \in Int, NEW n \in Nat \ {0}
  PROVE  (k * n) % n = 0
BY SMT

LEMMA DivisibleBy ==
  ASSUME NEW x \in Int, NEW n \in Nat \ {0}
  PROVE  x % n = 0 <=> \E k \in Int : x = k * n
<1>1. ASSUME x % n = 0 PROVE \E k \in Int : x = k * n
  <2> DEFINE k == x \div n
  <2>1. x = n * k + (x % n) /\ k \in Int
    BY DivMod, RemainderRange, SMT
  <2> HIDE DEF k
  <2>2. x = k * n
    BY <1>1, <2>1, SMT
  <2> QED
    BY <2>1, <2>2, SMT
<1>2. ASSUME NEW k \in Int, x = k * n PROVE x % n = 0
  BY <1>2, MultipleHasNoRemainder, SMT
<1> QED
  BY <1>1, <1>2, Zenon

LEMMA Divisible ==
  ASSUME NEW x \in Int
  PROVE  x % 65535 = 0 <=> \E k \in Int : x = k * 65535
<1>1. 65535 \in Nat \ {0}
  BY SMT
<1> QED
  BY <1>1, DivisibleBy, SMT

(***************************************************************************)
(* The sum that the code folds, and its result, case by case.              *)
(***************************************************************************)
LEMMA FoldNothing ==
  ASSUME NEW s \in Nat, s < 65536
  PROVE  Complement(Folded(s) % 65536) = 65535 - s
<1>1. Folded(s) = s
  BY Word0, SMT DEF Folded
<1>2. s % 65536 = s
  BY Word0, SMT
<1> QED
  BY <1>1, <1>2, SMT DEF Complement

LEMMA FoldOne ==
  ASSUME NEW s \in Nat, 65536 <= s, s < 131071
  PROVE  Complement(Folded(s) % 65536) = 131070 - s
<1>1. Folded(s) = s - 65535
  BY Word1, SMT DEF Folded
<1> DEFINE f == s - 65535
<1>2. f \in Nat /\ f < 65536
  BY SMT
<1>3. Folded(s) = f
  BY <1>1, SMT
<1> HIDE DEF f
<1>4. f % 65536 = f
  BY <1>2, Word0, SMT
<1>5. Complement(Folded(s) % 65536) = 65535 - f
  BY <1>3, <1>4, SMT DEF Complement
<1> QED
  BY <1>5, SMT DEF f

(* The fold of 131071 leaves a carry, which the cut to 16 bits loses. *)
LEMMA FoldCarry == Complement(Folded(131071) % 65536) = 65535
<1>1. 131071 \div 65536 = 1 /\ 131071 % 65536 = 65535
  BY Word1, SMT
<1>2. Folded(131071) = 65536
  BY <1>1, SMT DEF Folded
<1>3. 65536 % 65536 = 0
  BY Word1, SMT
<1> QED
  BY <1>2, <1>3, SMT DEF Complement

LEMMA FoldTwo ==
  ASSUME NEW s \in Nat, 131072 <= s, s < 196606
  PROVE  Complement(Folded(s) % 65536) = 196605 - s
<1>1. Folded(s) = s - 131070
  BY Word2, SMT DEF Folded
<1> DEFINE f == s - 131070
<1>2. f \in Nat /\ f < 65536
  BY SMT
<1>3. Folded(s) = f
  BY <1>1, SMT
<1> HIDE DEF f
<1>4. f % 65536 = f
  BY <1>2, Word0, SMT
<1>5. Complement(Folded(s) % 65536) = 65535 - f
  BY <1>3, <1>4, SMT DEF Complement
<1> QED
  BY <1>5, SMT DEF f

(* The sum that is folded, for checksum c and ToS t. *)
UpdateSum(c, t) == 131326 - c - 256 * t

LEMMA WordsAreInt ==
  /\ \A c \in Words : c \in Int /\ 0 <= c /\ c <= 65535
  /\ \A t \in Bytes : t \in Int /\ 0 <= t /\ t <= 255
BY SMT DEF Words, Bytes

LEMMA UpdateSumRange ==
  ASSUME NEW c \in Int, 0 <= c, c <= 65535, NEW t \in Int, 0 <= t, t <= 255
  PROVE  UpdateSum(c, t) \in Nat /\ UpdateSum(c, t) < 196606
BY SMT DEF UpdateSum

LEMMA UpdateIsFold ==
  ASSUME NEW c \in Int, NEW t \in Int
  PROVE  UpdateChecksum(c, FirstWord(t), FirstWord(Retransmitted))
           = Complement(Folded(UpdateSum(c, t)) % 65536)
<1>1. Complement(c) + Complement(FirstWord(t)) + FirstWord(Retransmitted) = UpdateSum(c, t)
  BY SMT DEF Complement, FirstWord, Retransmitted, VersionIhl, UpdateSum
<1> QED
  BY <1>1, SMT DEF UpdateChecksum

LEMMA UpdateCases ==
  ASSUME NEW s \in Nat, s < 196606, NEW u, u = Complement(Folded(s) % 65536)
  PROVE  /\ s < 65536 => u = 65535 - s
         /\ s >= 65536 /\ s < 131071 => u = 131070 - s
         /\ s = 131071 => u = 65535
         /\ s >= 131072 => u = 196605 - s
<1>1. ASSUME s < 65536 PROVE u = 65535 - s
  BY <1>1, FoldNothing, SMT
<1>2. ASSUME s >= 65536, s < 131071 PROVE u = 131070 - s
  BY <1>2, FoldOne, SMT
<1>3. ASSUME s = 131071 PROVE u = 65535
  BY <1>3, FoldCarry, SMT
<1>4. ASSUME s >= 131072 PROVE u = 196605 - s
  BY <1>4, FoldTwo, SMT
<1> QED
  BY <1>1, <1>2, <1>3, <1>4, SMT

(***************************************************************************)
(* The checksum update keeps a header acceptable, except for the checksum  *)
(* 0x00FF with ToS 0.                                                      *)
(***************************************************************************)
LEMMA UpdateExact ==
  ASSUME NEW c \in Int, 0 <= c, c <= 65535, NEW t \in Int, 0 <= t, t <= 255,
         NEW r \in Int, 0 <= r, r <= 65534, Accepted(t, c, r)
  PROVE  Accepted(Retransmitted, UpdateChecksum(c, FirstWord(t), FirstWord(Retransmitted)), r)
           <=> ~ (t = 0 /\ c = 255)
<1> DEFINE s == UpdateSum(c, t)
           u == UpdateChecksum(c, FirstWord(t), FirstWord(Retransmitted))
<1>1. s \in Nat /\ s < 196606
  BY UpdateSumRange, SMT
<1>2. s = 131071 <=> t = 0 /\ c = 255
  BY SMT DEF UpdateSum
<1>3. PICK k \in Int : 131395 - s + r = k * 65535
  <2>1. FirstWord(t) + c + r = 131395 - s + r /\ FirstWord(t) + c + r \in Int
    BY SMT DEF FirstWord, VersionIhl, UpdateSum
  <2>2. \E k \in Int : FirstWord(t) + c + r = k * 65535
    BY <2>1, Divisible, SMT DEF Accepted
  <2> QED
    BY <2>1, <2>2, SMT
<1>4. u = Complement(Folded(s) % 65536)
  BY UpdateIsFold, SMT
<1> HIDE DEF s, u
<1>5. /\ s < 65536 => u = 65535 - s
      /\ s >= 65536 /\ s < 131071 => u = 131070 - s
      /\ s = 131071 => u = 65535
      /\ s >= 131072 => u = 196605 - s
  BY <1>1, <1>4, UpdateCases, SMT
<1>6. u \in Int
  BY <1>1, <1>5, SMT
<1>7. Accepted(Retransmitted, u, r) <=> \E j \in Int : 325 + u + r = j * 65535
  <2>1. FirstWord(Retransmitted) + u + r = 325 + u + r /\ 325 + u + r \in Int
    BY <1>6, SMT DEF FirstWord, Retransmitted, VersionIhl
  <2>2. Accepted(Retransmitted, u, r) <=> (325 + u + r) % 65535 = 0
    BY <2>1, SMT DEF Accepted
  <2> QED
    BY <2>1, <2>2, Divisible, SMT
<1> DEFINE v == 325 + u + r
           Acc == Accepted(Retransmitted, u, r)
<1>8. v \in Int /\ (Acc <=> \E j \in Int : v = j * 65535)
  BY <1>6, <1>7, SMT
<1> HIDE DEF Acc
<1>9. ASSUME NEW j \in Int, v = j * 65535 PROVE Acc
  BY <1>8, <1>9, SMT
<1>10. ASSUME s < 131071 \/ s > 131071 PROVE Acc
  <2>1. CASE s < 65536
    <3>1. k - 1 \in Int /\ v = (k - 1) * 65535
      BY <1>1, <1>3, <1>5, <2>1, SMT
    <3> HIDE DEF v
    <3> DEFINE j == k - 1
    <3>2. j \in Int /\ v = j * 65535
      BY <3>1, SMT
    <3> HIDE DEF j
    <3> QED
      BY <1>9, <3>2, SMT
  <2>2. CASE s >= 65536 /\ s < 131071
    <3>1. v = k * 65535
      BY <1>1, <1>3, <1>5, <2>2, SMT
    <3> HIDE DEF v
    <3> QED
      BY <1>9, <3>1, SMT
  <2>3. CASE s >= 131072
    <3>1. k + 1 \in Int /\ v = (k + 1) * 65535
      BY <1>1, <1>3, <1>5, <2>3, SMT
    <3> HIDE DEF v
    <3> DEFINE j == k + 1
    <3>2. j \in Int /\ v = j * 65535
      BY <3>1, SMT
    <3> HIDE DEF j
    <3> QED
      BY <1>9, <3>2, SMT
  <2> QED
    BY <1>1, <1>10, <2>1, <2>2, <2>3, SMT
<1>11. ASSUME s = 131071, Acc PROVE FALSE
  <2>1. PICK j \in Int : v = j * 65535
    BY <1>8, <1>11, SMT
  <2>2. 65860 + r = j * 65535 /\ 324 + r = k * 65535
    BY <1>3, <1>5, <1>11, <2>1, SMT
  <2> QED
    BY <2>2, SMT
<1>12. Acc <=> s # 131071
  BY <1>1, <1>10, <1>11, SMT
<1> QED
  BY <1>2, <1>12, SMT DEF u, Acc

-----------------------------------------------------------------------------
(***************************************************************************)
(* The inductive invariant: until it is sent back a header is acceptable.  *)
(***************************************************************************)
Inv ==
  /\ tos \in Int /\ 0 <= tos /\ tos <= 255
  /\ check \in Int /\ 0 <= check /\ check <= 65535
  /\ rest \in Int /\ 0 <= rest /\ rest <= 65534
  /\ ~ marked => Accepted(tos, check, rest)

LEMMA InitInv == Init => Inv
<1> SUFFICES ASSUME Init PROVE Inv
  BY SMT
<1> DEFINE y == 3 * 65535 - FirstWord(tos) - check
<1>1. tos \in Bytes /\ check \in Words /\ rest = y % 65535
  BY TosValuesAssumption, SMT DEF Init
<1>2. /\ tos \in Int /\ 0 <= tos /\ tos <= 255
      /\ check \in Int /\ 0 <= check /\ check <= 65535
  BY <1>1, WordsAreInt, SMT
<1>3. y \in Int /\ FirstWord(tos) \in Int /\ FirstWord(tos) + check = 3 * 65535 - y
  BY <1>2, SMT DEF FirstWord, VersionIhl
<1> HIDE DEF y
<1> DEFINE q == y \div 65535
<1>4. 65535 \in Nat \ {0}
  BY SMT
<1>5. y = 65535 * q + rest /\ rest \in Int /\ 0 <= rest /\ rest <= 65534 /\ q \in Int
  <2>1. y = 65535 * q + (y % 65535)
    BY <1>3, <1>4, DivMod, SMT
  <2>2. y % 65535 \in Int /\ 0 <= y % 65535 /\ y % 65535 <= 65534 /\ q \in Int
    BY <1>3, <1>4, RemainderRange, SMT
  <2> QED
    BY <1>1, <2>1, <2>2, SMT
<1> HIDE DEF q
<1>6. 3 - q \in Int /\ rest \in Int /\ FirstWord(tos) + check + rest = (3 - q) * 65535
  BY <1>2, <1>3, <1>5, SMT
<1>7. FirstWord(tos) + check + rest \in Int
  BY <1>2, <1>3, <1>6, SMT
<1>8. Accepted(tos, check, rest)
  BY <1>6, <1>7, Divisible, SMT DEF Accepted
<1> QED
  BY <1>2, <1>5, <1>8, SMT DEF Inv

LEMMA UpdateType ==
  ASSUME NEW c \in Int, 0 <= c, c <= 65535, NEW t \in Int, 0 <= t, t <= 255
  PROVE  LET u == UpdateChecksum(c, FirstWord(t), FirstWord(Retransmitted))
         IN  u \in Int /\ 0 <= u /\ u <= 65535
<1> DEFINE s == UpdateSum(c, t)
           u == UpdateChecksum(c, FirstWord(t), FirstWord(Retransmitted))
<1>1. s \in Nat /\ s < 196606
  BY UpdateSumRange, SMT
<1>2. u = Complement(Folded(s) % 65536)
  BY UpdateIsFold, SMT
<1> HIDE DEF s, u
<1>3. u \in Int /\ 0 <= u /\ u <= 65535
  BY <1>1, <1>2, UpdateCases, SMT
<1> QED
  BY <1>3, SMT DEF u

LEMMA NextInv == Inv /\ [Next]_vars => Inv'
<1> SUFFICES ASSUME Inv, [Next]_vars PROVE Inv'
  BY SMT
<1>1. CASE Xfrm
  <2>1. /\ tos \in Int /\ 0 <= tos /\ tos <= 255
        /\ check \in Int /\ 0 <= check /\ check <= 65535
    BY SMT DEF Inv
  <2>2. check' \in Int /\ 0 <= check' /\ check' <= 65535
    BY <1>1, <2>1, UpdateType, SMT DEF Xfrm
  <2>3. tos' \in Int /\ 0 <= tos' /\ tos' <= 255
    BY <1>1, SMT DEF Xfrm, Retransmitted
  <2>4. rest' \in Int /\ 0 <= rest' /\ rest' <= 65534 /\ marked'
    BY <1>1, SMT DEF Inv, Xfrm
  <2> QED
    BY <2>2, <2>3, <2>4, SMT DEF Inv
<1>2. CASE UNCHANGED vars
  <2>1. tos' = tos /\ check' = check /\ rest' = rest /\ marked' = marked
    BY <1>2, SMT DEF vars
  <2>2. Accepted(tos, check, rest)' <=> Accepted(tos, check, rest)
    BY <2>1, SMT DEF Accepted
  <2> QED
    BY <2>1, <2>2, SMT DEF Inv
<1> QED
  BY <1>1, <1>2, SMT DEF Next

LEMMA StepIsExact ==
  ASSUME Inv, Xfrm
  PROVE  Accepted(tos, check, rest)' <=> ~ (tos = 0 /\ check = 255)
<1>1. /\ tos \in Int /\ 0 <= tos /\ tos <= 255
      /\ check \in Int /\ 0 <= check /\ check <= 65535
  BY SMT DEF Inv
<1>2. rest \in Int /\ 0 <= rest /\ rest <= 65534
  BY SMT DEF Inv
<1>3. Accepted(tos, check, rest)
  BY SMT DEF Inv, Xfrm
<1>4. /\ tos' = Retransmitted /\ rest' = rest
      /\ check' = UpdateChecksum(check, FirstWord(tos), FirstWord(Retransmitted))
  BY SMT DEF Xfrm
<1>5. Accepted(Retransmitted, UpdateChecksum(check, FirstWord(tos), FirstWord(Retransmitted)),
               rest) <=> ~ (tos = 0 /\ check = 255)
  BY <1>1, <1>2, <1>3, UpdateExact, SMT
<1>6. Accepted(tos, check, rest)' <=> Accepted(tos', check', rest')
  BY SMT DEF Accepted
<1> QED
  BY <1>4, <1>5, <1>6, SMT

(* For every header that a router accepts, the update yields a header that *)
(* it accepts, unless the ToS was 0 and the checksum 0x00FF.               *)
THEOREM OneBadChecksumHolds == Spec => OneBadChecksum
<1>1. Inv /\ [Next]_vars =>
        [Xfrm => (Accepted(tos, check, rest)' <=> ~ (tos = 0 /\ check = 255))]_vars
  BY StepIsExact, Zenon
<1> QED
  BY InitInv, NextInv, <1>1, PTL DEF Spec, OneBadChecksum
=============================================================================
