---------------------------- MODULE ProbeTheorems -----------------------------
(* Facts about natural numbers that the proofs about the hash table need: the *)
(* least and the greatest element of a set, induction, remainders, and that   *)
(* steps of a fixed width around a table of prime size visit every slot.      *)
EXTENDS Integers, FiniteSets, FiniteSetsExt, FiniteSetTheorems, WellFoundedInduction, TLAPS

(************************** Least and greatest *******************************)
LEMMA LeastNatural ==
  ASSUME NEW S \in SUBSET Nat, S # {}
  PROVE  \E m \in S : \A n \in S : m <= n
<1> DEFINE R == OpToRel(<, Nat)
<1>1. IsWellFoundedOn(R, Nat)
  BY NatLessThanWellFounded
<1>2. \A x, y \in Nat : x < y => <<x, y>> \in R
  BY DEF OpToRel
<1> HIDE DEF R
<1>3. \E x \in S : \A y \in S : ~ (<<y, x>> \in R)
  BY <1>1, WFMin
<1>4. \A x, y \in S : ~ (<<y, x>> \in R) => x <= y
  BY <1>2
<1> QED BY <1>3, <1>4

(* What holds at 0 and is handed on holds of every number.                    *)
LEMMA Induction ==
  ASSUME NEW S, 0 \in S, \A n \in Nat : n \in S => n + 1 \in S
  PROVE  Nat \subseteq S
<1> SUFFICES ASSUME Nat \ S # {} PROVE FALSE
  OBVIOUS
<1>1. PICK m \in Nat \ S : \A n \in Nat \ S : m <= n
  <2>1. Nat \ S \in SUBSET Nat
    OBVIOUS
  <2> QED BY <2>1, LeastNatural
<1>2. m # 0 /\ m - 1 \in Nat
  BY <1>1
<1>3. m - 1 \in S
  BY <1>1, <1>2
<1>4. (m - 1) + 1 \in S
  BY <1>2, <1>3
<1> QED BY <1>1, <1>4

LEMMA MinProperties ==
  ASSUME NEW S \in SUBSET Nat, S # {}
  PROVE  Min(S) \in S /\ \A n \in S : Min(S) <= n
BY LeastNatural DEF Min

LEMMA MaxProperties ==
  ASSUME NEW S \in SUBSET Nat, S # {}, NEW b \in Nat, \A n \in S : n <= b
  PROVE  Max(S) \in S /\ \A n \in S : n <= Max(S)
<1> DEFINE T == {b - n : n \in S}
<1>1. T \in SUBSET Nat /\ T # {}
  <2>1. \A n \in S : b - n \in Nat
    OBVIOUS
  <2> QED BY <2>1
<1>2. PICK m \in T : \A n \in T : m <= n
  <2> HIDE DEF T
  <2> QED BY <1>1, LeastNatural
<1>3. PICK g \in S : m = b - g
  BY <1>2
<1>4. \A n \in S : g >= n
  <2> TAKE n \in S
  <2>1. m <= b - n
    BY <1>2
  <2> QED BY <1>3, <2>1
<1>5. \E x \in S : \A y \in S : x >= y
  BY <1>3, <1>4
<1>6. Max(S) \in S /\ \A y \in S : Max(S) >= y
  BY <1>5 DEF Max
<1> QED BY <1>6

(****************************** Remainders ***********************************)
LEMMA Division ==
  ASSUME NEW x \in Nat, NEW a \in Nat \ {0}
  PROVE  x % a \in 0 .. (a - 1) /\ x \div a \in Nat /\ x = a * (x \div a) + (x % a)
OBVIOUS

LEMMA Remainder ==
  ASSUME NEW q \in Int, NEW r \in Nat, NEW a \in Nat \ {0}, r < a
  PROVE  (a * q + r) % a = r
OBVIOUS

LEMMA RemainderAdd ==
  ASSUME NEW x \in Nat, NEW y \in Nat, NEW a \in Nat \ {0}
  PROVE  ((x % a) + y) % a = (x + y) % a
<1> DEFINE q == x \div a
           r == x % a
           z == r + y
<1>1. x = a * q + r /\ q \in Nat /\ r \in Nat
  BY Division
<1> HIDE DEF q, r
<1>2. z = a * (z \div a) + (z % a) /\ z \div a \in Nat /\ z % a \in 0 .. (a - 1)
  <2>1. z \in Nat
    BY <1>1
  <2> HIDE DEF z
  <2> QED BY <2>1, Division
<1> HIDE DEF z
<1> DEFINE p == z \div a
           t == z % a
<1>3. x + y = a * (q + p) + t
  <2>1. a * (q + p) = a * q + a * p
    BY <1>1, <1>2
  <2>2. x + y = a * q + z
    BY <1>1 DEF z
  <2> QED BY <1>1, <1>2, <2>1, <2>2
<1>4. q + p \in Int /\ t \in Nat /\ t < a
  BY <1>1, <1>2
<1> HIDE DEF p, t
<1>5. (a * (q + p) + t) % a = t
  BY <1>4, Remainder
<1> QED BY <1>3, <1>5 DEF t, z, r

(* A multiple of the divisor does not count.                                  *)
LEMMA RemainderMultiple ==
  ASSUME NEW x \in Nat, NEW y \in Nat, NEW a \in Nat \ {0}
  PROVE  (x + a * y) % a = x % a
<1>1. a * y \in Nat /\ (a * y) % a = 0
  <2>1. a * y \in Nat /\ a * y = a * y + 0
    OBVIOUS
  <2> QED BY <2>1, Remainder
<1>2. (((a * y) % a) + x) % a = (a * y + x) % a
  BY <1>1, RemainderAdd
<1> QED BY <1>1, <1>2

(* Equal remainders differ by a multiple.                                     *)
LEMMA RemainderEqual ==
  ASSUME NEW x \in Nat, NEW y \in Nat, NEW a \in Nat \ {0}, x % a = y % a, x <= y
  PROVE  \E d \in Nat : y - x = a * d
<1> DEFINE p == x \div a
           q == y \div a
           r == x % a
<1>1. x = a * p + r /\ y = a * q + r /\ p \in Nat /\ q \in Nat /\ r \in Nat
  <2>1. x = a * p + r /\ p \in Nat /\ r \in 0 .. (a - 1)
    BY Division, Zenon
  <2>2. y = a * q + (y % a) /\ q \in Nat
    BY Division, Zenon
  <2> HIDE DEF p, q
  <2> QED BY <2>1, <2>2
<1> HIDE DEF p, q, r
<1>2. y - x = a * (q - p)
  <2>1. a * (q - p) = a * q - a * p
    BY <1>1
  <2> QED BY <1>1, <2>1
<1>3. q - p \in Nat
  <2>1. a * (q - p) >= 0 /\ q - p \in Int
    BY <1>1, <1>2
  <2> QED BY <2>1
<1> QED BY <1>2, <1>3

(* A prime that divides a product of two smaller numbers: there is none.      *)
LEMMA PrimeProduct ==
  ASSUME NEW p \in Nat, p > 1, \A d \in 2 .. (p - 1) : p % d # 0,
         NEW x \in 1 .. (p - 1), NEW y \in 1 .. (p - 1)
  PROVE  ~ \E d \in Nat : x * y = p * d
<1> DEFINE S == {n \in 1 .. (p - 1) : \E d \in Nat : n * y = p * d}
<1> SUFFICES ASSUME x \in S PROVE FALSE
  OBVIOUS
<1>1. PICK m \in S : \A n \in S : m <= n
  <2>1. S \in SUBSET Nat /\ S # {}
    <3>1. S \subseteq 1 .. (p - 1) /\ 1 .. (p - 1) \subseteq Nat
      OBVIOUS
    <3> QED BY <3>1, Zenon
  <2> HIDE DEF S
  <2> QED BY <2>1, LeastNatural
<1>2. PICK d \in Nat : m * y = p * d
  BY <1>1
<1>3. m \in 1 .. (p - 1) /\ m \in Nat \ {0}
  BY <1>1
<1>4. m # 1
  <2> SUFFICES ASSUME m = 1 PROVE FALSE
    OBVIOUS
  <2>1. y = p * d
    BY <1>2
  <2>2. CASE d = 0
    BY <2>1, <2>2
  <2>3. CASE d >= 1
    <3>1. p * d >= p
      BY <2>3
    <3> QED BY <2>1, <3>1
  <2> QED BY <2>2, <2>3
<1> DEFINE q == p \div m
           r == p % m
<1>5. q \in Nat /\ r \in 0 .. (m - 1) /\ p = m * q + r
  BY <1>3, Division
<1>6. r # 0
  <2>1. m \in 2 .. (p - 1)
    BY <1>3, <1>4
  <2> QED BY <2>1
<1> HIDE DEF q, r, S
<1>7. r \in 1 .. (p - 1) /\ r < m
  BY <1>3, <1>5, <1>6
<1>8. r * y = p * (y - q * d)
  <2>1. r = p - m * q
    BY <1>5, <1>3
  <2>2. r * y = p * y - (m * y) * q
    <3>1. (p - m * q) * y = p * y - (m * q) * y
      BY <1>3, <1>5
    <3>2. (m * q) * y = (m * y) * q
      BY <1>3, <1>5
    <3> QED BY <2>1, <3>1, <3>2
  <2>3. (m * y) * q = p * (q * d)
    BY <1>2, <1>3, <1>5
  <2>4. p * (y - q * d) = p * y - p * (q * d)
    BY <1>3, <1>5
  <2> QED BY <2>2, <2>3, <2>4
<1>9. y - q * d \in Nat
  <2>1. r * y \in Nat /\ y - q * d \in Int
    BY <1>5, <1>7
  <2>2. ASSUME NEW z \in Int, z < 0 PROVE p * z < 0
    BY <2>2
  <2> QED BY <1>8, <2>1, <2>2
<1>10. r \in S
  BY <1>7, <1>8, <1>9 DEF S
<1> QED BY <1>1, <1>7, <1>10, <1>3

(* From any slot, steps of any width around a table of prime size reach every *)
(* slot.                                                                      *)
LEMMA PrimeCycle ==
  ASSUME NEW p \in Nat, p > 1, \A d \in 2 .. (p - 1) : p % d # 0,
         NEW h \in Nat, NEW w \in 1 .. (p - 1), NEW t \in 0 .. (p - 1)
  PROVE  \E n \in 0 .. (p - 1) : (h + n * w) % p = t
<1> DEFINE D == 0 .. (p - 1)
           f == [n \in D |-> (h + n * w) % p]
<1>p. p \in Nat \ {0} /\ p > 1
  OBVIOUS
<1>1. \A n \in D : h + n * w \in Nat
  BY <1>p
<1>2. f \in [D -> D]
  BY <1>1, <1>p, Division
<1>3. ASSUME NEW m \in D, NEW n \in D, m < n, f[m] = f[n] PROVE FALSE
  <2>1. h + m * w <= h + n * w /\ (h + n * w) - (h + m * w) = (n - m) * w
    <3>1. (n - m) * w = n * w - m * w /\ (n - m) * w >= 0
      BY <1>3, <1>p
    <3> QED BY <1>p, <3>1
  <2>2. (h + m * w) % p = (h + n * w) % p
    BY <1>3
  <2>3. PICK d \in Nat : (h + n * w) - (h + m * w) = p * d
    <3> DEFINE u == h + m * w
               v == h + n * w
    <3>1. u \in Nat /\ v \in Nat /\ u <= v /\ u % p = v % p
      BY <1>1, <2>1, <2>2
    <3> HIDE DEF u, v
    <3>2. \E d \in Nat : v - u = p * d
      BY <1>p, <3>1, RemainderEqual
    <3> QED BY <3>2 DEF u, v
  <2>4. n - m \in 1 .. (p - 1)
    BY <1>3, <1>p
  <2> QED BY <2>1, <2>3, <2>4, PrimeProduct
<1>4. f \in Injection(D, D)
  <2>1. \A m, n \in D : f[m] = f[n] => m = n
    <3> TAKE m, n \in D
    <3>1. m < n \/ n < m \/ m = n
      BY <1>p
    <3> QED BY <1>3, <3>1
  <2> HIDE DEF f
  <2> QED BY <1>2, <2>1 DEF Injection, IsInjective
<1>5. IsFiniteSet(D)
  BY <1>p, FS_Interval
<1>6. f \in Surjection(D, D)
  <2> HIDE DEF f, D
  <2> QED BY <1>4, <1>5, FS_Injection
<1>7. \E n \in D : f[n] = t
  <2> HIDE DEF f
  <2> QED BY <1>6 DEF Surjection
<1> QED BY <1>7
===============================================================================
