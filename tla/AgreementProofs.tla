---------------------------- MODULE AgreementProofs ---------------------------
(* Theorems about conversions that go over a text position by position and    *)
(* are compared with a definition that looks at it as a whole, for texts of   *)
(* every length: the substitution of capture groups, cookies folded into one  *)
(* header and split again, and the fields of a query string.                  *)
EXTENDS Args, Cookies, Paths, ProbeTheorems, SequenceTheorems

(**************************** Concatenation **********************************)
IsLists(ls, S) == ls \in Seq(Seq(S))

LEMMA ListsProperties ==
  ASSUME NEW S, NEW ls, IsLists(ls, S)
  PROVE  Len(ls) \in Nat /\ \A j \in 1 .. Len(ls) : ls[j] \in Seq(S)
<1> DEFINE T == Seq(S)
<1>1. ls \in Seq(T)
  BY DEF IsLists
<1> HIDE DEF T
<1>2. Len(ls) \in Nat /\ \A j \in 1 .. Len(ls) : ls[j] \in T
  BY <1>1
<1> QED BY <1>2 DEF T

(* f holds the concatenations of the first lists of ls.                       *)
Concatenates(f, ls, S, n) ==
  /\ f \in [1 .. n -> Seq(S)]
  /\ \A j \in 1 .. n : f[j] = IF j = 1 THEN ls[j] ELSE f[j - 1] \o ls[j]

LEMMA OneMore ==
  ASSUME NEW S, NEW ls, IsLists(ls, S), NEW n \in Nat, n < Len(ls), NEW f, Concatenates(f, ls, S, n)
  PROVE  \E g : Concatenates(g, ls, S, n + 1)
<1> DEFINE x == IF n = 0 THEN ls[1] ELSE f[n] \o ls[n + 1]
           g == [j \in 1 .. (n + 1) |-> IF j <= n THEN f[j] ELSE x]
<1>0. /\ Len(ls) \in Nat /\ ls[n + 1] \in Seq(S) /\ (n = 0 => ls[1] \in Seq(S))
  <2>1. Len(ls) \in Nat /\ n + 1 \in 1 .. Len(ls)
    BY ListsProperties
  <2> QED BY <2>1, ListsProperties
<1>1. /\ \A j \in 1 .. n : f[j] \in Seq(S) /\ f[j] = IF j = 1 THEN ls[j] ELSE f[j - 1] \o ls[j]
  BY DEF Concatenates
<1>2. x \in Seq(S)
  <2>1. CASE n = 0
    BY <1>0, <2>1
  <2>2. CASE n # 0
    <3>1. f[n] \in Seq(S)
      BY <1>1, <2>2
    <3>2. f[n] \o ls[n + 1] \in Seq(S)
      BY <1>0, <3>1
    <3> QED BY <2>2, <3>2
  <2> QED BY <2>1, <2>2
<1> HIDE DEF x
<1>3. g \in [1 .. (n + 1) -> Seq(S)]
  <2> SUFFICES ASSUME NEW j \in 1 .. (n + 1) PROVE (IF j <= n THEN f[j] ELSE x) \in Seq(S)
    OBVIOUS
  <2>1. CASE j <= n
    BY <1>1, <2>1
  <2>2. CASE ~(j <= n)
    BY <1>2, <2>2
  <2> QED BY <2>1, <2>2
<1>4. ASSUME NEW j \in 1 .. (n + 1) PROVE g[j] = IF j = 1 THEN ls[j] ELSE g[j - 1] \o ls[j]
  <2>1. CASE j <= n
    <3>1. j \in 1 .. n /\ (j # 1 => j - 1 \in 1 .. n)
      BY <2>1
    <3>2. g[j] = f[j] /\ (j # 1 => g[j - 1] = f[j - 1])
      BY <3>1
    <3> QED BY <1>1, <3>1, <3>2
  <2>2. CASE ~(j <= n)
    <3>1. j = n + 1 /\ g[j] = x /\ (n # 0 => g[n] = f[n]) /\ (n = 0 <=> j = 1) /\ j - 1 = n
      BY <2>2
    <3> HIDE DEF g
    <3> QED BY <3>1 DEF x
  <2> QED BY <2>1, <2>2
<1> HIDE DEF g
<1>5. Concatenates(g, ls, S, n + 1)
  BY <1>3, <1>4 DEF Concatenates
<1> QED BY <1>5

LEMMA ConcatenationExists ==
  ASSUME NEW S, NEW ls, IsLists(ls, S)
  PROVE  \E f : Concatenates(f, ls, S, Len(ls))
<1> DEFINE n == Len(ls)
           M == {m \in Nat : m <= n => \E f : Concatenates(f, ls, S, m)}
<1>1. n \in Nat
  BY ListsProperties
<1>2. 0 \in M
  <2> DEFINE f == [j \in 1 .. 0 |-> <<>>]
  <2>1. f \in [1 .. 0 -> Seq(S)] /\ \A j \in 1 .. 0 : f[j] = IF j = 1 THEN ls[j] ELSE f[j - 1] \o ls[j]
    OBVIOUS
  <2> HIDE DEF f
  <2>2. Concatenates(f, ls, S, 0)
    BY <2>1 DEF Concatenates
  <2> QED BY <2>2
<1>3. \A m \in Nat : m \in M => m + 1 \in M
  <2> SUFFICES ASSUME NEW m \in Nat, m \in M PROVE m + 1 \in M
    OBVIOUS
  <2>1. ASSUME m + 1 <= n PROVE \E f : Concatenates(f, ls, S, m + 1)
    <3>1. m < n /\ m <= n
      BY <1>1, <2>1
    <3>2. PICK f : Concatenates(f, ls, S, m)
      BY <3>1
    <3> HIDE DEF M
    <3> QED BY <3>1, <3>2, OneMore
  <2> QED BY <2>1
<1> HIDE DEF M, n
<1>4. n \in M
  BY <1>1, <1>2, <1>3, Induction
<1> QED BY <1>1, <1>4 DEF M, n

LEMMA FlattenIs ==
  ASSUME NEW S, NEW ls, IsLists(ls, S)
  PROVE  \E f : Concatenates(f, ls, S, Len(ls)) /\ FlattenSeq(ls) = IF Len(ls) = 0 THEN <<>> ELSE f[Len(ls)]
<1> DEFINE n == Len(ls)
           Is(f) == f = [j \in 1 .. n |-> IF j = 1 THEN ls[j] ELSE f[j - 1] \o ls[j]]
           g == CHOOSE f : Is(f)
<1>1. n \in Nat /\ \A j \in 1 .. n : ls[j] \in Seq(S)
  BY ListsProperties
<1>2. PICK f : Concatenates(f, ls, S, n)
  BY ConcatenationExists
<1>3. Is(f)
  <2>1. f \in [1 .. n -> Seq(S)] /\ \A j \in 1 .. n : f[j] = IF j = 1 THEN ls[j] ELSE f[j - 1] \o ls[j]
    BY <1>2 DEF Concatenates
  <2> HIDE DEF n
  <2> QED BY <2>1
<1>4. Is(g)
  <2> HIDE DEF Is
  <2> QED BY <1>3
<1>5. FlattenSeq(ls) = IF n = 0 THEN ls ELSE g[n]
  BY DEF FlattenSeq
<1> HIDE DEF g
<1>6. Concatenates(g, ls, S, n)
  <2> DEFINE M == {m \in Nat : m = 0 \/ m > n \/ g[m] = f[m]}
  <2>1. \A j \in 1 .. n : g[j] = IF j = 1 THEN ls[j] ELSE g[j - 1] \o ls[j]
    BY <1>4
  <2>2. \A j \in 1 .. n : f[j] \in Seq(S) /\ f[j] = IF j = 1 THEN ls[j] ELSE f[j - 1] \o ls[j]
    BY <1>2 DEF Concatenates
  <2>3. \A m \in Nat : m \in M => m + 1 \in M
    <3> SUFFICES ASSUME NEW m \in Nat, m \in M, m + 1 <= n PROVE g[m + 1] = f[m + 1]
      BY <1>1
    <3> HIDE DEF n
    <3>1. m + 1 \in 1 .. n /\ (m = 0 <=> m + 1 = 1) /\ m + 1 - 1 = m
      BY <1>1
    <3>2. m # 0 => g[m] = f[m]
      BY <1>1
    <3> HIDE DEF M
    <3>3. /\ g[m + 1] = IF m + 1 = 1 THEN ls[m + 1] ELSE g[m + 1 - 1] \o ls[m + 1]
          /\ f[m + 1] = IF m + 1 = 1 THEN ls[m + 1] ELSE f[m + 1 - 1] \o ls[m + 1]
      BY <2>1, <2>2, <3>1
    <3> QED BY <3>1, <3>2, <3>3
  <2>4. 0 \in M
    OBVIOUS
  <2> HIDE DEF M
  <2>5. Nat \subseteq M
    BY <2>3, <2>4, Induction
  <2>6. \A j \in 1 .. n : g[j] = f[j]
    BY <1>1, <2>5 DEF M
  <2>7. g = [j \in 1 .. n |-> g[j]]
    BY <1>4
  <2>8. g \in [1 .. n -> Seq(S)]
    <3> HIDE DEF n, Is
    <3> QED BY <2>2, <2>6, <2>7
  <2> HIDE DEF n, Is
  <2> QED BY <2>1, <2>8 DEF Concatenates
<1>7. n = 0 => ls = <<>>
  <2> DEFINE T == Seq(S)
  <2>1. ls \in Seq(T)
    BY DEF IsLists
  <2> HIDE DEF T
  <2> QED BY <2>1
<1> HIDE DEF Is
<1> QED BY <1>5, <1>6, <1>7 DEF n

Agree(ls, t, n) == \A j \in 1 .. n : ls[j] = t[j]

(* Concatenations of the same lists are the same.                             *)
LEMMA ConcatenationUnique ==
  ASSUME NEW S, NEW ls, NEW t, NEW n \in Nat, NEW f, NEW g, NEW m \in Nat, m >= n,
         Concatenates(f, ls, S, m), Concatenates(g, t, S, n), Agree(ls, t, n)
  PROVE  Agree(f, g, n)
<1> DEFINE M == {j \in Nat : j = 0 \/ j > n \/ f[j] = g[j]}
<1>1. /\ \A j \in 1 .. n : f[j] = IF j = 1 THEN ls[j] ELSE f[j - 1] \o ls[j]
      /\ \A j \in 1 .. n : g[j] = IF j = 1 THEN t[j] ELSE g[j - 1] \o t[j]
  <2>1. \A j \in 1 .. m : f[j] = IF j = 1 THEN ls[j] ELSE f[j - 1] \o ls[j]
    BY DEF Concatenates
  <2>2. \A j \in 1 .. n : g[j] = IF j = 1 THEN t[j] ELSE g[j - 1] \o t[j]
    BY DEF Concatenates
  <2>3. \A j \in 1 .. n : j \in 1 .. m
    OBVIOUS
  <2> QED BY <2>1, <2>2, <2>3
<1>2. \A j \in Nat : j \in M => j + 1 \in M
  <2> SUFFICES ASSUME NEW j \in Nat, j \in M, j + 1 <= n PROVE f[j + 1] = g[j + 1]
    OBVIOUS
  <2>1. j + 1 \in 1 .. n /\ (j = 0 <=> j + 1 = 1) /\ j + 1 - 1 = j
    OBVIOUS
  <2>2. j # 0 => f[j] = g[j]
    OBVIOUS
  <2> HIDE DEF M
  <2>3. /\ f[j + 1] = IF j + 1 = 1 THEN ls[j + 1] ELSE f[j + 1 - 1] \o ls[j + 1]
        /\ g[j + 1] = IF j + 1 = 1 THEN t[j + 1] ELSE g[j + 1 - 1] \o t[j + 1]
        /\ ls[j + 1] = t[j + 1]
    BY <1>1, <2>1 DEF Agree
  <2> QED BY <2>1, <2>2, <2>3
<1>3. 0 \in M
  OBVIOUS
<1> HIDE DEF M
<1>4. Nat \subseteq M
  BY <1>2, <1>3, Induction
<1> QED BY <1>4 DEF M, Agree

(* The concatenation of one list more.                                        *)
LEMMA FlattenExtend ==
  ASSUME NEW S, NEW ls, IsLists(ls, S), NEW t, IsLists(t, S), Len(ls) = Len(t) + 1,
         \A j \in 1 .. Len(t) : ls[j] = t[j]
  PROVE  FlattenSeq(ls) \in Seq(S) /\ FlattenSeq(t) \in Seq(S) /\ FlattenSeq(ls) = FlattenSeq(t) \o ls[Len(t) + 1]
<1> DEFINE n == Len(t)
<1>0. n \in Nat /\ Len(ls) = n + 1 /\ ls[n + 1] \in Seq(S)
  <2>1. Len(t) \in Nat /\ Len(t) + 1 \in 1 .. Len(ls)
    BY ListsProperties
  <2> QED BY <2>1, ListsProperties
<1>1. PICK f : Concatenates(f, ls, S, n + 1) /\ FlattenSeq(ls) = IF Len(ls) = 0 THEN <<>> ELSE f[Len(ls)]
  BY <1>0, FlattenIs
<1>2. PICK g : Concatenates(g, t, S, n) /\ FlattenSeq(t) = IF Len(t) = 0 THEN <<>> ELSE g[Len(t)]
  BY FlattenIs
<1>3. \A j \in 1 .. n : f[j] = g[j]
  <2>1. Agree(ls, t, n)
    BY DEF Agree
  <2> HIDE DEF n
  <2>2. n + 1 \in Nat /\ n + 1 >= n
    BY <1>0
  <2>3. Concatenates(f, ls, S, n + 1) /\ Concatenates(g, t, S, n)
    BY <1>1, <1>2
  <2>4. Agree(f, g, n)
    BY <1>0, <2>1, <2>2, <2>3, ConcatenationUnique
  <2> QED BY <2>4 DEF Agree
<1>4. /\ f[n + 1] \in Seq(S) /\ f[n + 1] = IF n = 0 THEN ls[n + 1] ELSE f[n] \o ls[n + 1]
      /\ n # 0 => g[n] \in Seq(S)
  <2> HIDE DEF n
  <2>1. n + 1 \in 1 .. (n + 1) /\ (n = 0 <=> n + 1 = 1) /\ n + 1 - 1 = n /\ (n # 0 => n \in 1 .. n)
    BY <1>0
  <2>2. /\ \A j \in 1 .. (n + 1) : f[j] \in Seq(S) /\ f[j] = IF j = 1 THEN ls[j] ELSE f[j - 1] \o ls[j]
        /\ \A j \in 1 .. n : g[j] \in Seq(S)
    BY <1>1, <1>2 DEF Concatenates
  <2>3. f[n + 1] = IF n + 1 = 1 THEN ls[n + 1] ELSE f[n + 1 - 1] \o ls[n + 1]
    BY <2>1, <2>2
  <2>4. f[n + 1] \in Seq(S) /\ (n # 0 => g[n] \in Seq(S))
    BY <2>1, <2>2
  <2> QED BY <2>1, <2>3, <2>4
<1>5. /\ FlattenSeq(ls) = f[n + 1] /\ FlattenSeq(t) = IF n = 0 THEN <<>> ELSE g[n]
  BY <1>0, <1>1, <1>2
<1>6. n # 0 => f[n] = g[n]
  <2> HIDE DEF n
  <2> QED BY <1>0, <1>3
<1> HIDE DEF n
<1>7. ls[n + 1] \in Seq(S) => <<>> \o ls[n + 1] = ls[n + 1]
  OBVIOUS
<1>8. CASE n = 0
  <2>1. <<>> \in Seq(S)
    OBVIOUS
  <2> QED BY <1>0, <1>4, <1>5, <1>7, <1>8, <2>1 DEF n
<1>9. CASE n # 0
  BY <1>0, <1>4, <1>5, <1>6, <1>9 DEF n
<1> QED BY <1>8, <1>9

(* The first n elements of ls.                                                *)
Leading(ls, n) == [j \in 1 .. n |-> ls[j]]

LEMMA FrontType ==
  ASSUME NEW S, NEW ls, IsLists(ls, S), NEW n \in Nat, n <= Len(ls)
  PROVE  IsLists(Leading(ls, n), S) /\ Len(Leading(ls, n)) = n /\ \A j \in 1 .. n : Leading(ls, n)[j] = ls[j]
<1> DEFINE T == Seq(S)
<1>1. \A j \in 1 .. n : ls[j] \in T
  <2>1. \A j \in 1 .. n : j \in 1 .. Len(ls)
    BY ListsProperties
  <2> QED BY <2>1, ListsProperties
<1> HIDE DEF T
<1>2. Leading(ls, n) \in Seq(T) /\ Len(Leading(ls, n)) = n /\ \A j \in 1 .. n : Leading(ls, n)[j] = ls[j]
  BY <1>1 DEF Leading
<1> QED BY <1>2 DEF IsLists, T

LEMMA FrontExtend ==
  ASSUME NEW S, NEW ls, IsLists(ls, S), NEW n \in Nat, n < Len(ls)
  PROVE  /\ FlattenSeq(Leading(ls, n)) \in Seq(S) /\ FlattenSeq(Leading(ls, n + 1)) \in Seq(S) /\ ls[n + 1] \in Seq(S)
         /\ FlattenSeq(Leading(ls, n + 1)) = FlattenSeq(Leading(ls, n)) \o ls[n + 1]
<1> DEFINE u == Leading(ls, n)
           v == Leading(ls, n + 1)
<1>0. n + 1 \in Nat /\ n + 1 <= Len(ls) /\ n <= Len(ls) /\ n + 1 \in 1 .. (n + 1) /\ n + 1 \in 1 .. Len(ls)
  BY ListsProperties
<1>1. IsLists(u, S) /\ Len(u) = n /\ \A j \in 1 .. n : u[j] = ls[j]
  BY <1>0, FrontType
<1>2. IsLists(v, S) /\ Len(v) = n + 1 /\ \A j \in 1 .. (n + 1) : v[j] = ls[j]
  BY <1>0, FrontType
<1> HIDE DEF u, v
<1>3. Len(v) = Len(u) + 1 /\ \A j \in 1 .. Len(u) : v[j] = u[j]
  BY <1>1, <1>2
<1>4. FlattenSeq(v) \in Seq(S) /\ FlattenSeq(u) \in Seq(S) /\ FlattenSeq(v) = FlattenSeq(u) \o v[Len(u) + 1]
  BY SMTT(20), <1>1, <1>2, <1>3, FlattenExtend
<1>5. v[n + 1] = ls[n + 1] /\ ls[n + 1] \in Seq(S)
  BY <1>0, <1>2, ListsProperties
<1> QED BY <1>1, <1>4, <1>5 DEF u, v

LEMMA FrontEnds ==
  ASSUME NEW S, NEW ls, IsLists(ls, S)
  PROVE  FlattenSeq(Leading(ls, 0)) = <<>> /\ Leading(ls, Len(ls)) = ls
<1> DEFINE T == Seq(S)
           e == <<>>
<1>1. ls \in Seq(T)
  BY DEF IsLists
<1>2. Leading(ls, 0) = e /\ Len(e) = 0
  BY DEF Leading
<1>3. FlattenSeq(e) = e
  BY <1>2 DEF FlattenSeq
<1> HIDE DEF T
<1>4. Leading(ls, Len(ls)) = ls
  BY <1>1 DEF Leading
<1> QED BY <1>2, <1>3, <1>4

Shifted(ls, t, m, n) == \A j \in 1 .. n : ls[m + j] = t[j]

Joins(ls, t, u, m, n, S) ==
  /\ m \in Nat /\ n \in Nat /\ IsLists(ls, S) /\ IsLists(t, S) /\ IsLists(u, S)
  /\ Len(ls) = m + n /\ Len(t) = m /\ Len(u) = n /\ Agree(ls, t, m) /\ Shifted(ls, u, m, n)

(* The concatenation of two sequences of lists, one behind the other.         *)
LEMMA FlattenParts ==
  ASSUME NEW S, NEW m, NEW n, NEW ls, NEW t, NEW u, Joins(ls, t, u, m, n, S)
  PROVE  FlattenSeq(ls) = FlattenSeq(t) \o FlattenSeq(u) /\ FlattenSeq(t) \in Seq(S)
<1> SUFFICES ASSUME m \in Nat, n \in Nat, IsLists(ls, S), Len(ls) = m + n, IsLists(t, S), Len(t) = m,
                    Agree(ls, t, m), IsLists(u, S), Len(u) = n, Shifted(ls, u, m, n)
             PROVE  FlattenSeq(ls) = FlattenSeq(t) \o FlattenSeq(u) /\ FlattenSeq(t) \in Seq(S)
  BY DEF Joins
<1> DEFINE Q(k) == FlattenSeq(Leading(ls, m + k)) = FlattenSeq(t) \o FlattenSeq(Leading(u, k))
           M == {k \in Nat : k <= n => Q(k)}
<1>1. Leading(ls, m) = t /\ FlattenSeq(t) \in Seq(S)
  <2> DEFINE T == Seq(S)
  <2>1. t \in Seq(T) /\ \A j \in 1 .. m : ls[j] = t[j]
    BY DEF IsLists, Agree
  <2>2. FlattenSeq(t) \in Seq(S)
    <3>1. CASE m = 0
      <4>1. t = Leading(t, 0)
        BY <3>1, FrontEnds
      <4>2. FlattenSeq(t) = <<>>
        BY <4>1, FrontEnds
      <4>3. <<>> \in Seq(S)
        OBVIOUS
      <4> QED BY <4>2, <4>3
    <3>2. CASE m # 0
      <4>1. m - 1 \in Nat /\ m - 1 < Len(t) /\ m - 1 + 1 = m
        BY <3>2
      <4>2. FlattenSeq(Leading(t, m - 1 + 1)) \in Seq(S)
        BY <4>1, FrontExtend
      <4> QED BY <4>1, <4>2, FrontEnds
    <3> QED BY <3>1, <3>2
  <2> HIDE DEF T
  <2>3. Leading(ls, m) = t
    BY <2>1 DEF Leading
  <2> QED BY <2>2, <2>3
<1>2. \A x \in Seq(S) : x \o <<>> = x
  OBVIOUS
<1>3. 0 \in M
  <2>1. m + 0 = m /\ FlattenSeq(Leading(u, 0)) = <<>>
    BY FrontEnds
  <2>2. FlattenSeq(Leading(ls, m)) = FlattenSeq(t) \o FlattenSeq(Leading(u, 0))
    BY <1>1, <1>2, <2>1
  <2>3. FlattenSeq(Leading(ls, m + 0)) = FlattenSeq(t) \o FlattenSeq(Leading(u, 0))
    BY <2>1, <2>2
  <2> QED BY <2>3
<1>4. \A k \in Nat : k \in M => k + 1 \in M
  <2> SUFFICES ASSUME NEW k \in Nat, k \in M, k + 1 <= n
               PROVE  Q(k + 1)
    <3>1. \A k \in Nat : k + 1 \in Nat
      OBVIOUS
    <3> HIDE DEF Q
    <3> QED BY <3>1
  <2>1. Q(k)
    <3>1. k <= n
      OBVIOUS
    <3> HIDE DEF Q
    <3> QED BY <3>1
  <2> HIDE DEF M
  <2>2. m + k \in Nat /\ m + k < Len(ls) /\ k < Len(u) /\ k + 1 \in 1 .. n /\ m + (k + 1) = m + k + 1
    OBVIOUS
  <2>3. /\ FlattenSeq(Leading(ls, m + k + 1)) = FlattenSeq(Leading(ls, m + k)) \o ls[m + k + 1]
        /\ ls[m + k + 1] \in Seq(S)
    BY <2>2, FrontExtend
  <2>4. /\ FlattenSeq(Leading(u, k + 1)) = FlattenSeq(Leading(u, k)) \o u[k + 1]
        /\ FlattenSeq(Leading(u, k)) \in Seq(S)
    BY <2>2, FrontExtend
  <2>5. ls[m + k + 1] = u[k + 1]
    BY <2>2 DEF Shifted
  <2>6. \A x, y, z \in Seq(S) : (x \o y) \o z = x \o (y \o z)
    BY SMTT(20), ConcatAssociative
  <2> DEFINE a == FlattenSeq(t)
             b == FlattenSeq(Leading(u, k))
             c == u[k + 1]
  <2>7. a \in Seq(S) /\ b \in Seq(S) /\ c \in Seq(S)
    BY <1>1, <2>3, <2>4, <2>5
  <2>8. FlattenSeq(Leading(ls, m + k + 1)) = (a \o b) \o c
    BY <2>1, <2>3, <2>5
  <2>9. FlattenSeq(Leading(u, k + 1)) = b \o c
    BY <2>4
  <2> HIDE DEF a, b, c
  <2>10. (a \o b) \o c = a \o (b \o c)
    BY <2>6, <2>7
  <2>11. FlattenSeq(Leading(ls, m + k + 1)) = a \o FlattenSeq(Leading(u, k + 1))
    BY <2>8, <2>9, <2>10
  <2> QED BY <2>2, <2>11 DEF a
<1>5. n \in M
  <2> HIDE DEF M
  <2>1. Nat \subseteq M
    BY <1>3, <1>4, Induction
  <2> QED BY <2>1
<1>6. FlattenSeq(Leading(ls, m + n)) = FlattenSeq(t) \o FlattenSeq(Leading(u, n))
  BY <1>5
<1>7. Leading(ls, m + n) = ls /\ Leading(u, n) = u
  <2>1. Leading(ls, Len(ls)) = ls /\ Leading(u, Len(u)) = u
    BY FrontEnds
  <2> QED BY <2>1
<1> QED BY <1>1, <1>6, <1>7

(******************************** Paths **************************************)
LEMMA NumberRange == ASSUME NEW c PROVE Number(c) \in -1 .. 9
<1> DEFINE I == {j \in 1 .. Len(Digits10) : Digits10[j] = c}
<1>1. Number(c) = (IF I # {} THEN Min(I) ELSE 0) - 1
  BY DEF Number, SelectInSeq
<1>2. I \subseteq 1 .. 10
  BY DEF Digits10
<1>3. CASE I = {}
  <2> HIDE DEF I
  <2> QED BY <1>1, <1>3
<1>4. CASE I # {}
  <2> HIDE DEF I
  <2>1. I \in SUBSET Nat
    BY <1>2
  <2>2. Min(I) \in I
    BY <1>4, <2>1, MinProperties
  <2>3. Min(I) \in 1 .. 10
    BY <1>2, <2>2
  <2> QED BY <1>1, <1>4, <2>3
<1> QED BY <1>3, <1>4

LEMMA DollarIsNoDigit == Number("$") = -1
<1> DEFINE I == {j \in 1 .. Len(Digits10) : Digits10[j] = "$"}
<1>1. Number("$") = (IF I # {} THEN Min(I) ELSE 0) - 1
  BY DEF Number, SelectInSeq
<1>2. I = {}
  BY DEF Digits10
<1> HIDE DEF I
<1> QED BY <1>1, <1>2

IsText(t) == t \in Seq(STRING)

LEMMA GroupProperties ==
  ASSUME NEW gs, GroupTypes(gs), NEW t, IsText(t), NEW k \in 1 .. Len(t), GroupAt(t, k)
  PROVE  /\ Number(t[k + 1]) \in 0 .. 9 /\ GroupOf(gs, t, k) \in Spans
         /\ k + 1 \in 1 .. Len(t) /\ ~GroupAt(t, k + 1)
<1>1. Len(t) \in Nat /\ t[k] = "$" /\ k < Len(t) /\ Number(t[k + 1]) >= 0
  BY DEF IsText, GroupAt
<1>2. Number(t[k + 1]) \in 0 .. 9
  <2>1. Number(t[k + 1]) \in -1 .. 9
    BY NumberRange
  <2> QED BY <1>1, <2>1
<1>3. GroupOf(gs, t, k) \in Spans
  BY <1>2 DEF GroupTypes, GroupOf
<1>4. t[k + 1] # "$"
  BY <1>1, DollarIsNoDigit
<1> QED BY <1>1, <1>2, <1>3, <1>4 DEF GroupAt

(* What a span of the path holds.                                             *)
LEMMA SpanProperties ==
  ASSUME NEW g \in Spans
  PROVE  /\ SubSeq(Path, g[1] + 1, g[2]) \in Seq(STRING)
         /\ g # Unset => g[1] >= 0 /\ g[2] - g[1] \in Nat /\ Len(SubSeq(Path, g[1] + 1, g[2])) = g[2] - g[1]
<1>1. Path \in Seq(STRING) /\ Len(Path) \in Nat
  BY PathAssumption
<1>2. CASE g = Unset
  <2>1. g[1] + 1 = 0 /\ g[2] = -1
    BY <1>2 DEF Unset
  <2>2. SubSeq(Path, 0, -1) = <<>>
    BY <1>1
  <2>3. <<>> \in Seq(STRING)
    OBVIOUS
  <2> QED BY <1>2, <2>1, <2>2, <2>3
<1>3. CASE g # Unset
  <2>1. g[1] \in Int /\ g[2] \in Int /\ 0 <= g[1] /\ g[1] <= g[2] /\ g[2] <= Len(Path)
    BY <1>3 DEF Spans
  <2> DEFINE a == g[1]
             b == g[2]
  <2>2. a \in Int /\ b \in Int /\ 0 <= a /\ a <= b /\ b <= Len(Path)
    BY <2>1
  <2> HIDE DEF a, b
  <2>3. SubSeq(Path, a + 1, b) \in Seq(STRING)
    BY <1>1, <2>2, SubSeqProperties
  <2>4. Len(SubSeq(Path, a + 1, b)) = b - a
    BY <1>1, <2>2, SubSeqProperties
  <2> QED BY <2>2, <2>3, <2>4 DEF a, b
<1> QED BY <1>2, <1>3

LEMMA StandsType ==
  ASSUME NEW gs, GroupTypes(gs), NEW t, IsText(t), NEW k \in 1 .. Len(t)
  PROVE  Stands(gs, t, k) \in Seq(STRING)
<1>1. CASE GroupAt(t, k)
  <2> DEFINE g == GroupOf(gs, t, k)
  <2>1. Stands(gs, t, k) = SubSeq(Path, g[1] + 1, g[2])
    <3>1. ~(k > 1 /\ GroupAt(t, k - 1))
      <4>1. k > 1 => k - 1 \in 1 .. Len(t) /\ k - 1 + 1 = k
        BY DEF IsText
      <4> QED BY <1>1, <4>1, GroupProperties
    <3> DEFINE y == SubSeq(Path, g[1] + 1, g[2])
               e == <<>>
               x == <<t[k]>>
    <3>2. Stands(gs, t, k) = CASE GroupAt(t, k) -> y [] k > 1 /\ GroupAt(t, k - 1) -> e [] OTHER -> x
      BY DEF Stands
    <3> HIDE DEF y, e, x
    <3>3. Stands(gs, t, k) = y
      BY <1>1, <3>1, <3>2
    <3> QED BY <3>3 DEF y
  <2>2. g \in Spans
    BY <1>1, GroupProperties
  <2> HIDE DEF g
  <2> QED BY <2>1, <2>2, SpanProperties
<1>2. CASE ~GroupAt(t, k)
  <2> DEFINE e == <<>>
             x == <<t[k]>>
  <2>1. Stands(gs, t, k) = e \/ Stands(gs, t, k) = x
    BY <1>2 DEF Stands
  <2>2. e \in Seq(STRING)
    OBVIOUS
  <2>3. x \in Seq(STRING)
    <3>1. t[k] \in STRING
      BY DEF IsText
    <3> QED BY <3>1
  <2> HIDE DEF e, x
  <2> QED BY <2>1, <2>2, <2>3
<1> QED BY <1>1, <1>2

LEMMA UpToExtend ==
  ASSUME NEW gs, GroupTypes(gs), NEW t, IsText(t), NEW n \in Nat, n < Len(t)
  PROVE  /\ UpTo(gs, t, n) \in Seq(STRING) /\ UpTo(gs, t, n + 1) \in Seq(STRING)
         /\ UpTo(gs, t, n + 1) = UpTo(gs, t, n) \o Stands(gs, t, n + 1)
<1> DEFINE S == Seq(STRING)
           x(m) == [k \in 1 .. m |-> Stands(gs, t, k)]
<1>0. Len(t) \in Nat
  BY DEF IsText
<1>1. ASSUME NEW m \in Nat, m <= Len(t)
      PROVE  IsLists(x(m), STRING) /\ Len(x(m)) = m /\ \A k \in 1 .. m : x(m)[k] = Stands(gs, t, k)
  <2>1. \A k \in 1 .. m : Stands(gs, t, k) \in S
    <3>1. \A k \in 1 .. m : k \in 1 .. Len(t)
      BY <1>0, <1>1
    <3> QED BY <3>1, StandsType
  <2> HIDE DEF S
  <2>2. x(m) \in Seq(S) /\ Len(x(m)) = m /\ \A k \in 1 .. m : x(m)[k] = Stands(gs, t, k)
    BY <2>1
  <2> HIDE DEF x
  <2> QED BY <2>2 DEF IsLists, S
<1> DEFINE u == x(n)
           v == x(n + 1)
<1>2. /\ IsLists(u, STRING) /\ Len(u) = n /\ IsLists(v, STRING) /\ Len(v) = n + 1
      /\ v[n + 1] = Stands(gs, t, n + 1) /\ \A k \in 1 .. n : u[k] = v[k]
  <2> HIDE DEF x
  <2>1. n + 1 \in Nat /\ n + 1 <= Len(t) /\ n <= Len(t) /\ n + 1 \in 1 .. (n + 1)
    BY <1>0
  <2>2. /\ IsLists(u, STRING) /\ Len(u) = n /\ \A k \in 1 .. n : u[k] = Stands(gs, t, k)
    BY <1>1, <2>1
  <2>3. /\ IsLists(v, STRING) /\ Len(v) = n + 1 /\ \A k \in 1 .. (n + 1) : v[k] = Stands(gs, t, k)
    BY <1>1, <2>1
  <2> HIDE DEF u, v
  <2> QED BY <2>1, <2>2, <2>3
<1>3. UpTo(gs, t, n) = FlattenSeq(u) /\ UpTo(gs, t, n + 1) = FlattenSeq(v)
  BY DEF UpTo
<1> HIDE DEF u, v, x
<1>4. /\ FlattenSeq(v) \in Seq(STRING) /\ FlattenSeq(u) \in Seq(STRING)
      /\ FlattenSeq(v) = FlattenSeq(u) \o v[Len(u) + 1]
  <2>1. \A k \in 1 .. Len(u) : v[k] = u[k]
    BY <1>2
  <2>2. Len(v) = Len(u) + 1
    BY <1>2
  <2> QED BY <1>2, <2>1, <2>2, FlattenExtend
<1> QED BY <1>2, <1>3, <1>4

LEMMA UpToZero == ASSUME NEW gs, NEW t PROVE UpTo(gs, t, 0) = <<>>
<1> DEFINE x == [k \in 1 .. 0 |-> Stands(gs, t, k)]
           y == <<>>
<1>1. x = y /\ Len(y) = 0
  OBVIOUS
<1>2. FlattenSeq(y) = y
  BY <1>1 DEF FlattenSeq
<1> QED BY <1>1, <1>2 DEF UpTo

LEMMA UpToType ==
  ASSUME NEW gs, GroupTypes(gs), NEW t, IsText(t), NEW n \in Nat, n <= Len(t)
  PROVE  UpTo(gs, t, n) \in Seq(STRING)
<1>0. Len(t) \in Nat
  BY DEF IsText
<1>1. CASE n < Len(t)
  BY <1>1, UpToExtend
<1>2. CASE n = Len(t) /\ n = 0
  <2>1. <<>> \in Seq(STRING)
    OBVIOUS
  <2> QED BY <1>2, <2>1, UpToZero
<1>3. CASE n = Len(t) /\ n # 0
  <2>1. n - 1 \in Nat /\ n - 1 < Len(t) /\ n - 1 + 1 = n
    BY <1>3
  <2>2. UpTo(gs, t, n - 1 + 1) \in Seq(STRING)
    BY <2>1, UpToExtend
  <2> QED BY <2>1, <2>2
<1> QED BY <1>0, <1>1, <1>2, <1>3

LEMMA UpToMonotone ==
  ASSUME NEW gs, GroupTypes(gs), NEW t, IsText(t), NEW m \in Nat, NEW n \in Nat, m <= n, n <= Len(t)
  PROVE  Len(UpTo(gs, t, m)) <= Len(UpTo(gs, t, n))
<1> DEFINE u(j) == Len(UpTo(gs, t, j))
           M == {j \in Nat : m + j <= Len(t) => u(m) <= u(m + j)}
<1>0. Len(t) \in Nat /\ \A j \in Nat : j <= Len(t) => u(j) \in Nat
  <2>1. \A j \in Nat : j <= Len(t) => UpTo(gs, t, j) \in Seq(STRING)
    BY UpToType
  <2> QED BY <2>1 DEF IsText
<1>1. 0 \in M
  BY <1>0
<1>2. \A j \in Nat : j \in M => j + 1 \in M
  <2> SUFFICES ASSUME NEW j \in Nat, j \in M, m + (j + 1) <= Len(t) PROVE u(m) <= u(m + (j + 1))
    OBVIOUS
  <2>1. m + j \in Nat /\ m + j < Len(t) /\ m + j <= Len(t) /\ m + (j + 1) = (m + j) + 1
    BY <1>0
  <2>2. u(m) <= u(m + j)
    BY <2>1
  <2>3. /\ UpTo(gs, t, m + j) \in Seq(STRING) /\ Stands(gs, t, m + j + 1) \in Seq(STRING)
        /\ UpTo(gs, t, m + j + 1) = UpTo(gs, t, m + j) \o Stands(gs, t, m + j + 1)
    <3>1. m + j + 1 \in 1 .. Len(t)
      BY <1>0, <2>1
    <3> QED BY <2>1, <3>1, UpToExtend, StandsType
  <2>4. u(m + j) <= u(m + j + 1)
    BY <2>3
  <2>5. u(m) \in Nat /\ u(m + j) \in Nat /\ u(m + j + 1) \in Nat
    BY <1>0, <2>1
  <2> HIDE DEF u
  <2> QED BY <2>1, <2>2, <2>4, <2>5
<1> HIDE DEF M
<1>3. n - m \in M
  <2>1. Nat \subseteq M
    BY <1>1, <1>2, Induction
  <2> QED BY <2>1
<1>4. m + (n - m) = n
  OBVIOUS
<1> HIDE DEF u
<1>5. u(m) <= u(n)
  BY <1>3, <1>4 DEF M
<1> QED BY <1>5 DEF u

(* A character that is no part of a reference stands for itself.              *)
LEMMA PlainStep ==
  ASSUME NEW gs, GroupTypes(gs), NEW t, IsText(t), NEW k \in 1 .. Len(t),
         ~GroupAt(t, k), k > 1 => ~GroupAt(t, k - 1)
  PROVE  /\ UpTo(gs, t, k) = Append(UpTo(gs, t, k - 1), t[k]) /\ t[k] \in STRING
         /\ SetUpTo(gs, t, k - 1) => SetUpTo(gs, t, k)
<1>0. k - 1 \in Nat /\ k - 1 < Len(t) /\ k - 1 + 1 = k /\ t[k] \in STRING /\ Len(t) \in Nat
  BY DEF IsText
<1>1. Stands(gs, t, k) = <<t[k]>>
  <2> DEFINE y == LET g == GroupOf(gs, t, k) IN SubSeq(Path, g[1] + 1, g[2])
             e == <<>>
             x == <<t[k]>>
  <2>1. Stands(gs, t, k) = CASE GroupAt(t, k) -> y [] k > 1 /\ GroupAt(t, k - 1) -> e [] OTHER -> x
    BY DEF Stands
  <2> HIDE DEF y, e, x
  <2>2. Stands(gs, t, k) = x
    BY <2>1
  <2> QED BY <2>2 DEF x
<1>2. UpTo(gs, t, k) = UpTo(gs, t, k - 1) \o Stands(gs, t, k) /\ UpTo(gs, t, k - 1) \in Seq(STRING)
  <2>1. /\ UpTo(gs, t, k - 1 + 1) = UpTo(gs, t, k - 1) \o Stands(gs, t, k - 1 + 1)
        /\ UpTo(gs, t, k - 1) \in Seq(STRING)
    BY <1>0, UpToExtend
  <2> QED BY <1>0, <2>1
<1>3. \A ls \in Seq(STRING), c \in STRING : ls \o <<c>> = Append(ls, c)
  BY AppendIsConcat
<1>4. SetUpTo(gs, t, k - 1) => SetUpTo(gs, t, k)
  BY <1>0 DEF SetUpTo
<1> QED BY <1>0, <1>1, <1>2, <1>3, <1>4

(* The two characters of a reference stand for the group.                     *)
LEMMA GroupStep ==
  ASSUME NEW gs, GroupTypes(gs), NEW t, IsText(t), NEW k \in 1 .. Len(t),
         GroupAt(t, k), NEW g, g = GroupOf(gs, t, k)
  PROVE  /\ k + 1 \in 1 .. Len(t) /\ ~GroupAt(t, k + 1) /\ g \in Spans
         /\ UpTo(gs, t, k + 1) = UpTo(gs, t, k - 1) \o SubSeq(Path, g[1] + 1, g[2])
         /\ SetUpTo(gs, t, k - 1) /\ g # Unset => SetUpTo(gs, t, k + 1)
         /\ g = Unset => ~SetUpTo(gs, t, k)
<1>0. k - 1 \in Nat /\ k - 1 < Len(t) /\ k - 1 + 1 = k /\ Len(t) \in Nat /\ k \in Nat
  BY DEF IsText
<1>1. k + 1 \in 1 .. Len(t) /\ ~GroupAt(t, k + 1) /\ g \in Spans
  BY GroupProperties
<1>2. k < Len(t) /\ k + 1 > 1 /\ k + 1 - 1 = k
  BY <1>0, <1>1
<1>3. Stands(gs, t, k) = SubSeq(Path, g[1] + 1, g[2])
  <2>1. ~(k > 1 /\ GroupAt(t, k - 1))
    <3>1. k > 1 => k - 1 \in 1 .. Len(t) /\ k - 1 + 1 = k
      BY <1>0
    <3> QED BY <3>1, GroupProperties
  <2> DEFINE y == LET h == GroupOf(gs, t, k) IN SubSeq(Path, h[1] + 1, h[2])
             e == <<>>
             x == <<t[k]>>
  <2>2. Stands(gs, t, k) = CASE GroupAt(t, k) -> y [] k > 1 /\ GroupAt(t, k - 1) -> e [] OTHER -> x
    BY DEF Stands
  <2> HIDE DEF y, e, x
  <2>3. Stands(gs, t, k) = y
    BY <2>1, <2>2
  <2> QED BY <2>3 DEF y
<1>4. Stands(gs, t, k + 1) = <<>>
  <2> DEFINE y == LET h == GroupOf(gs, t, k + 1) IN SubSeq(Path, h[1] + 1, h[2])
             e == <<>>
             x == <<t[k + 1]>>
  <2>1. Stands(gs, t, k + 1) = CASE GroupAt(t, k + 1) -> y [] k + 1 > 1 /\ GroupAt(t, k + 1 - 1) -> e [] OTHER -> x
    BY DEF Stands
  <2> HIDE DEF y, e, x
  <2>2. Stands(gs, t, k + 1) = e
    BY <1>1, <1>2, <2>1
  <2> QED BY <2>2 DEF e
<1>5. UpTo(gs, t, k) = UpTo(gs, t, k - 1) \o Stands(gs, t, k) /\ UpTo(gs, t, k) \in Seq(STRING)
  <2>1. /\ UpTo(gs, t, k - 1 + 1) = UpTo(gs, t, k - 1) \o Stands(gs, t, k - 1 + 1)
        /\ UpTo(gs, t, k - 1 + 1) \in Seq(STRING)
    BY <1>0, UpToExtend
  <2> QED BY <1>0, <2>1
<1>6. UpTo(gs, t, k + 1) = UpTo(gs, t, k) \o Stands(gs, t, k + 1)
  BY <1>0, <1>2, UpToExtend
<1>7. \A ls \in Seq(STRING) : ls \o <<>> = ls
  OBVIOUS
<1>8. SetUpTo(gs, t, k - 1) /\ g # Unset => SetUpTo(gs, t, k + 1)
  <2> SUFFICES ASSUME SetUpTo(gs, t, k - 1), g # Unset, NEW j \in 1 .. (k + 1), GroupAt(t, j)
               PROVE  GroupOf(gs, t, j) # Unset
    BY DEF SetUpTo
  <2>1. j \in 1 .. (k - 1) \/ j = k \/ j = k + 1
    BY <1>0
  <2> QED BY <1>1, <2>1 DEF SetUpTo
<1>9. g = Unset => ~SetUpTo(gs, t, k)
  <2>1. k \in 1 .. k
    BY <1>0
  <2> QED BY <2>1 DEF SetUpTo
<1> QED BY <1>1, <1>3, <1>4, <1>5, <1>6, <1>7, <1>8, <1>9

(***************************** The invariant *********************************)
LEMMA MatchTypes ==
  /\ GroupTypes(NoMatch) /\ GroupTypes(TheWholePath)
  /\ \A m \in Expressions : m # None /\ m.re_nsub > 0 /\ m.result # None => GroupTypes(m.result)
<1>1. GroupTypes(NoMatch)
  BY DEF GroupTypes, NoMatch, Spans
<1>2. GroupTypes(TheWholePath)
  <2> DEFINE w == <<0, Len(Path)>>
  <2>1. w \in Spans
    <3>1. Len(Path) \in Nat
      BY PathAssumption
    <3> QED BY <3>1 DEF Spans
  <2>2. Unset \in Spans
    BY DEF Spans
  <2> HIDE DEF w
  <2>3. TheWholePath = [d \in 0 .. 9 |-> IF d = 0 THEN w ELSE Unset]
    BY DEF TheWholePath, w
  <2> QED BY <2>1, <2>2, <2>3 DEF GroupTypes
<1>3. \A m \in Expressions : m # None /\ m.re_nsub > 0 /\ m.result # None => GroupTypes(m.result)
  BY GroupsAssumption DEF GroupTypes
<1> QED BY <1>1, <1>2, <1>3

LEMMA PathStarts == PathsInit => PathInv
<1> SUFFICES ASSUME PathsInit PROVE PathInv
  OBVIOUS
<1>1. PICK m \in Expressions, t \in Templates : PathsStart(m, t) /\ pass = "match"
  BY DEF PathsInit
<1>2. t[1] \in Seq(STRING) /\ t[2] \in Seq(STRING) /\ <<>> \in Seq(STRING)
  BY TemplatesAssumption
<1>3. PathTypes
  BY <1>1, <1>2, MatchTypes DEF PathTypes, PathsStart
<1> QED BY <1>1, <1>3 DEF PathInv, PositionInv, MeasureInv, WriteInv

(* lws_string_sub begins with nothing measured.                               *)
LEMMA SubstituteBegins ==
  ASSUME PathTypes', NEW t, Substitute(t), rc' # "failed"
  PROVE  PathInv'
<1>1. pass' = "measure" /\ tmpl' = t /\ i' = 1 /\ len' = 0 /\ dest' = <<>>
  BY DEF Substitute
<1>2. UpTo(path_match', tmpl', i' - 1) = <<>>
  <2>1. i' - 1 = 0
    BY <1>1
  <2> QED BY <2>1, UpToZero
<1>3. SetUpTo(path_match', tmpl', i' - 1)
  BY <1>1 DEF SetUpTo
<1>4. Len(<<>>) = 0 /\ Len(t) \in Nat
  <2>1. Len(t) \in Nat
    <3>1. tmpl' \in Seq(STRING)
      BY DEF PathTypes
    <3> QED BY <1>1, <3>1
  <2> QED BY <2>1
<1>5. rc' # "failed"
  OBVIOUS
<1>6. PositionInv'
  BY <1>1, <1>4 DEF PositionInv
<1>7. MeasureInv'
  BY <1>1, <1>2, <1>3, <1>4, <1>5 DEF MeasureInv
<1>8. WriteInv'
  BY <1>1 DEF WriteInv
<1> QED BY <1>6, <1>7, <1>8 DEF PathInv

LEMMA MatchPathKeeps == PathInv /\ MatchPath => PathInv'
<1> SUFFICES ASSUME PathInv, MatchPath PROVE PathInv'
  OBVIOUS
<1>0. /\ PathTypes /\ Busy /\ pass = "match"
      /\ UNCHANGED <<match, main, path_info, req_main, req_path_info>>
  BY DEF PathInv, MatchPath
<1>1. CASE Applied /\ match.result = None
  <2>1. FinishWith("404") /\ UNCHANGED path_match
    BY <1>1 DEF MatchPath
  <2>2. PathTypes'
    BY <1>0, <2>1 DEF PathTypes, FinishWith
  <2>3. pass' = "match"
    BY <1>0, <2>1 DEF FinishWith
  <2> QED BY <2>2, <2>3 DEF PathInv, PositionInv, MeasureInv, WriteInv
<1>2. CASE ~(Applied /\ match.result = None)
  <2>1. /\ path_match' = IF Applied THEN match.result ELSE TheWholePath
        /\ Substitute(main) /\ UNCHANGED rc
    BY <1>2 DEF MatchPath
  <2>2. GroupTypes(path_match')
    BY <1>0, <1>2, <2>1, MatchTypes DEF PathTypes, Applied
  <2>3. PathTypes'
    BY <1>0, <2>1, <2>2 DEF PathTypes, Substitute
  <2>4. rc' # "failed"
    BY <1>0, <2>1 DEF Busy
  <2> QED BY <2>1, <2>3, <2>4, SubstituteBegins
<1> QED BY <1>1, <1>2

LEMMA MeasureKeeps == PathInv /\ Measure => PathInv'
<1> SUFFICES ASSUME PathInv, Measure PROVE PathInv'
  OBVIOUS
<1> DEFINE gs == path_match
           t == tmpl
           g == GroupOf(gs, t, i)
<1>0. /\ PathTypes /\ pass = "measure" /\ rc = "busy" /\ i <= Len(t) /\ Len(t) \in Nat /\ i \in 1 .. (Len(t) + 1)
      /\ i > 1 => ~GroupAt(t, i - 1)
      /\ len = Len(UpTo(gs, t, i - 1)) /\ dest = <<>> /\ SetUpTo(gs, t, i - 1)
      /\ UNCHANGED <<match, main, path_info, path_match, req_main, req_path_info>>
      /\ pass' = "measure" /\ tmpl' = t /\ path_match' = gs /\ dest' = <<>>
  BY DEF PathInv, Measure, Scanning, Busy, PositionInv, MeasureInv, FinishWith, PathTypes
<1>1. /\ GroupTypes(gs) /\ IsText(t) /\ i \in 1 .. Len(t) /\ (AtGroup <=> GroupAt(t, i)) /\ Group = g
      /\ i - 1 \in Nat /\ i - 1 <= Len(t)
  BY <1>0 DEF PathTypes, IsText, AtGroup, GroupAt, Group, GroupOf
<1>2. PathTypes'
  BY <1>0 DEF PathTypes
<1>3. WriteInv'
  BY <1>0 DEF WriteInv
<1>4. UpTo(gs, t, i - 1) \in Seq(STRING) /\ len \in Nat
  <2>1. UpTo(gs, t, i - 1) \in Seq(STRING)
    BY <1>1, UpToType
  <2> QED BY <1>0, <2>1
<1> HIDE DEF gs, t, g
<1>5. CASE AtGroup /\ Group[1] < 0
  <2>1. rc' = "failed" /\ i' = i /\ len' = len
    BY <1>5 DEF Measure, FinishWith
  <2>2. GroupAt(t, i) /\ g[1] < 0
    BY <1>1, <1>5
  <2>3. ~SetUpTo(gs, t, i)
    <3>1. g \in Spans /\ (g = Unset => ~SetUpTo(gs, t, i))
      BY <1>1, <2>2, GroupStep DEF g
    <3>2. g = Unset
      BY <2>2, <3>1 DEF Spans
    <3> QED BY <3>1, <3>2
  <2>4. PositionInv'
    BY <1>0, <2>1 DEF PositionInv
  <2>5. MeasureInv'
    BY <1>0, <2>1, <2>3 DEF MeasureInv
  <2> QED BY <1>2, <1>3, <2>4, <2>5 DEF PathInv
<1>6. CASE AtGroup /\ ~(Group[1] < 0)
  <2>1. rc' = "busy" /\ i' = i + 2 /\ len' = len + (g[2] - g[1])
    BY <1>0, <1>1, <1>6 DEF Measure, Measured, GroupLen
  <2>2. GroupAt(t, i) /\ ~(g[1] < 0)
    BY <1>1, <1>6
  <2>3. /\ i + 1 \in 1 .. Len(t) /\ ~GroupAt(t, i + 1) /\ g \in Spans
        /\ UpTo(gs, t, i + 1) = UpTo(gs, t, i - 1) \o SubSeq(Path, g[1] + 1, g[2])
        /\ SetUpTo(gs, t, i - 1) /\ g # Unset => SetUpTo(gs, t, i + 1)
    BY <1>1, <2>2, GroupStep DEF g
  <2>4. g # Unset
    BY <2>2 DEF Unset
  <2>5. /\ SubSeq(Path, g[1] + 1, g[2]) \in Seq(STRING)
        /\ g[2] - g[1] \in Nat /\ Len(SubSeq(Path, g[1] + 1, g[2])) = g[2] - g[1]
    BY <2>3, <2>4, SpanProperties
  <2>6. len' = Len(UpTo(gs, t, i + 1))
    BY <1>0, <1>4, <2>1, <2>3, <2>5
  <2>7. i' - 1 = i + 1 /\ i' \in 1 .. (Len(t) + 1)
    BY <1>0, <2>1, <2>3
  <2>8. PositionInv'
    BY <1>0, <2>3, <2>7 DEF PositionInv
  <2>9. MeasureInv'
    BY <1>0, <2>1, <2>3, <2>4, <2>6, <2>7 DEF MeasureInv
  <2> QED BY <1>2, <1>3, <2>8, <2>9 DEF PathInv
<1>7. CASE ~AtGroup
  <2>1. rc' = "busy" /\ i' = i + 1 /\ len' = len + 1
    BY <1>0, <1>7 DEF Measure, Measured
  <2>2. /\ UpTo(gs, t, i) = Append(UpTo(gs, t, i - 1), t[i]) /\ t[i] \in STRING
        /\ SetUpTo(gs, t, i)
    BY <1>0, <1>1, <1>7, PlainStep
  <2>3. len' = Len(UpTo(gs, t, i))
    BY <1>0, <1>4, <2>1, <2>2
  <2>4. i' - 1 = i /\ i' \in 1 .. (Len(t) + 1)
    BY <1>0, <2>1
  <2>5. PositionInv'
    BY <1>0, <1>1, <1>7, <2>4 DEF PositionInv
  <2>6. MeasureInv'
    BY <1>0, <2>1, <2>2, <2>3, <2>4 DEF MeasureInv
  <2> QED BY <1>2, <1>3, <2>5, <2>6 DEF PathInv
<1> QED BY <1>5, <1>6, <1>7

LEMMA AllocateKeeps == ASSUME PathInv, NEW ok \in BOOLEAN, Allocate(ok) PROVE PathInv'
<1> DEFINE gs == path_match
           t == tmpl
<1>0. /\ PathTypes /\ pass = "measure" /\ rc = "busy" /\ i > Len(t) /\ Len(t) \in Nat /\ i \in 1 .. (Len(t) + 1)
      /\ i > 1 => ~GroupAt(t, i - 1)
      /\ len = Len(UpTo(gs, t, i - 1)) /\ dest = <<>> /\ SetUpTo(gs, t, i - 1)
      /\ UNCHANGED <<match, main, path_info, path_match, tmpl, len, dest, req_main, req_path_info>>
      /\ tmpl' = t /\ path_match' = gs
  BY DEF PathInv, Allocate, Busy, PositionInv, MeasureInv, PathTypes
<1>1. i - 1 = Len(t)
  BY <1>0
<1> HIDE DEF gs, t
<1>2. CASE ok
  <2>1. pass' = "write" /\ i' = 1
    BY <1>2 DEF Allocate
  <2>2. PathTypes'
    BY <1>0, <2>1 DEF PathTypes
  <2>3. UpTo(gs, t, i' - 1) = <<>>
    <3>1. i' - 1 = 0
      BY <2>1
    <3> QED BY <3>1, UpToZero
  <2>4. PositionInv' /\ MeasureInv'
    BY <1>0, <2>1 DEF PositionInv, MeasureInv
  <2>5. WriteInv'
    BY <1>0, <1>1, <2>3 DEF WriteInv
  <2> QED BY <2>2, <2>4, <2>5 DEF PathInv
<1>3. CASE ~ok
  <2>1. pass' = "measure" /\ i' = i
    BY <1>0, <1>3 DEF Allocate
  <2>2. PathTypes'
    BY <1>0, <2>1 DEF PathTypes
  <2>3. PositionInv' /\ WriteInv'
    BY <1>0, <2>1 DEF PositionInv, WriteInv
  <2>4. MeasureInv'
    <3>1. ~(i' <= Len(t))
      BY <1>0, <2>1
    <3> QED BY <1>0, <2>1, <3>1 DEF MeasureInv
  <2> QED BY <2>2, <2>3, <2>4 DEF PathInv
<1> QED BY <1>2, <1>3

LEMMA WriteKeeps == PathInv /\ Write => PathInv'
<1> SUFFICES ASSUME PathInv, Write PROVE PathInv'
  OBVIOUS
<1> DEFINE gs == path_match
           t == tmpl
           g == GroupOf(gs, t, i)
<1>0. /\ PathTypes /\ pass = "write" /\ i <= Len(t) /\ Len(t) \in Nat /\ i \in 1 .. (Len(t) + 1)
      /\ i > 1 => ~GroupAt(t, i - 1)
      /\ len = Len(UpTo(gs, t, Len(t))) /\ SetUpTo(gs, t, Len(t)) /\ dest = UpTo(gs, t, i - 1)
      /\ UNCHANGED <<match, main, path_info, path_match, pass, tmpl, len, req_main, req_path_info, rc>>
      /\ pass' = "write" /\ tmpl' = t /\ path_match' = gs /\ len' = len
  BY DEF PathInv, Write, Scanning, Busy, PositionInv, WriteInv, PathTypes
<1>1. /\ GroupTypes(gs) /\ IsText(t) /\ i \in 1 .. Len(t) /\ (AtGroup <=> GroupAt(t, i)) /\ Group = g
  BY <1>0 DEF PathTypes, IsText, AtGroup, GroupAt, Group, GroupOf
<1>2. PathTypes'
  BY <1>0 DEF PathTypes
<1>3. MeasureInv'
  BY <1>0 DEF MeasureInv
<1> HIDE DEF gs, t, g
<1>4. CASE AtGroup
  <2>1. dest' = dest \o SubSeq(Path, g[1] + 1, g[2]) /\ i' = i + 2
    BY <1>1, <1>4 DEF Write
  <2>2. /\ i + 1 \in 1 .. Len(t) /\ ~GroupAt(t, i + 1)
        /\ UpTo(gs, t, i + 1) = UpTo(gs, t, i - 1) \o SubSeq(Path, g[1] + 1, g[2])
    BY <1>1, <1>4, GroupStep DEF g
  <2>3. i' - 1 = i + 1 /\ i' \in 1 .. (Len(t) + 1)
    BY <1>0, <2>1, <2>2
  <2>4. PositionInv'
    BY <1>0, <2>2, <2>3 DEF PositionInv
  <2>5. WriteInv'
    BY <1>0, <2>1, <2>2, <2>3 DEF WriteInv
  <2> QED BY <1>2, <1>3, <2>4, <2>5 DEF PathInv
<1>5. CASE ~AtGroup
  <2>1. dest' = Append(dest, t[i]) /\ i' = i + 1
    BY <1>5 DEF Write, t
  <2>2. UpTo(gs, t, i) = Append(UpTo(gs, t, i - 1), t[i])
    BY <1>0, <1>1, <1>5, PlainStep
  <2>3. i' - 1 = i /\ i' \in 1 .. (Len(t) + 1)
    BY <1>0, <2>1
  <2>4. PositionInv'
    BY <1>0, <1>1, <1>5, <2>3 DEF PositionInv
  <2>5. WriteInv'
    BY <1>0, <2>1, <2>2, <2>3 DEF WriteInv
  <2> QED BY <1>2, <1>3, <2>4, <2>5 DEF PathInv
<1> QED BY <1>4, <1>5

(* The other steps begin another substitution or end this one.                *)
LEMMA OthersKeep ==
  ASSUME PathInv, NEW ok \in BOOLEAN,
         MainIsReady(ok) \/ Stat(ok) \/ PathInfoIsReady \/ OpenBody(ok)
  PROVE  PathInv'
<1>0. /\ PathTypes /\ UNCHANGED <<match, main, path_info, path_match>>
  BY DEF PathInv, MainIsReady, Stat, PathInfoIsReady, OpenBody
<1>1. ASSUME pass' \in {"stat", "body"}, tmpl' = tmpl PROVE PathInv'
  <2>1. PathTypes'
    BY <1>0, <1>1 DEF PathTypes
  <2> QED BY <1>1, <2>1 DEF PathInv, PositionInv, MeasureInv, WriteInv
<1>2. CASE MainIsReady(ok)
  <2>1. CASE ok
    BY <1>1, <1>2, <2>1 DEF MainIsReady
  <2>2. CASE ~ok
    <3>1. pass = "write" /\ UNCHANGED <<pass, tmpl, i, len, dest, path_match>>
      BY <1>0, <1>2, <2>2 DEF MainIsReady, FinishWith
    <3>2. PathTypes'
      BY <1>0, <3>1 DEF PathTypes
    <3>3. PositionInv' /\ MeasureInv' /\ WriteInv'
      BY <3>1 DEF PathInv, PositionInv, MeasureInv, WriteInv
    <3> QED BY <3>2, <3>3 DEF PathInv
  <2> QED BY <2>1, <2>2
<1>3. CASE Stat(ok)
  <2>0. pass = "stat" /\ rc = "busy"
    BY <1>3 DEF Stat, Busy
  <2>1. CASE ~ok
    BY <1>1, <1>3, <2>0, <2>1 DEF Stat, FinishWith
  <2>2. CASE ok /\ path_info # <<>>
    <3>1. Substitute(path_info) /\ UNCHANGED rc
      BY <1>3, <2>2 DEF Stat
    <3>2. PathTypes'
      BY <1>0, <3>1 DEF PathTypes, Substitute
    <3> QED BY <2>0, <3>1, <3>2, SubstituteBegins
  <2>3. CASE ok /\ path_info = <<>>
    BY <1>1, <1>3, <2>3 DEF Stat
  <2> QED BY <2>1, <2>2, <2>3
<1>4. CASE PathInfoIsReady
  BY <1>1, <1>4 DEF PathInfoIsReady
<1>5. CASE OpenBody(ok)
  BY <1>1, <1>5 DEF OpenBody, FinishWith
<1> QED BY <1>2, <1>3, <1>4, <1>5

LEMMA PathStep == PathInv /\ [PathsNext]_pathVars => PathInv'
<1> SUFFICES ASSUME PathInv, [PathsNext]_pathVars PROVE PathInv'
  OBVIOUS
<1>1. CASE MatchPath
  BY <1>1, MatchPathKeeps
<1>2. CASE Measure
  BY <1>2, MeasureKeeps
<1>3. CASE Write
  BY <1>3, WriteKeeps
<1>4. CASE PathInfoIsReady
  BY <1>4, OthersKeep
<1>5. ASSUME NEW ok \in BOOLEAN, Allocate(ok) PROVE PathInv'
  BY <1>5, AllocateKeeps
<1>6. ASSUME NEW ok \in BOOLEAN, MainIsReady(ok) \/ Stat(ok) \/ OpenBody(ok) PROVE PathInv'
  BY <1>6, OthersKeep
<1>7. CASE UNCHANGED pathVars
  BY <1>7 DEF pathVars, PathInv, PathTypes, PositionInv, MeasureInv, WriteInv
<1> QED BY <1>1, <1>2, <1>3, <1>4, <1>5, <1>6, <1>7 DEF PathsNext

LEMMA PathAgrees == PathInv => SubstitutionAgrees
<1> SUFFICES ASSUME PathInv PROVE SubstitutionAgrees
  OBVIOUS
<1> DEFINE gs == path_match
           t == tmpl
<1>0. GroupTypes(gs) /\ IsText(t) /\ Len(t) \in Nat /\ DOMAIN t = 1 .. Len(t)
  BY DEF PathInv, PathTypes, IsText
<1>1. (Unset \notin GroupsOf(gs, t)) <=> SetUpTo(gs, t, Len(t))
  <2> HIDE DEF gs, t
  <2> QED BY <1>0 DEF GroupsOf, SetUpTo
<1>2. ASSUME pass = "write" PROVE Len(dest) <= len /\ SetUpTo(gs, t, Len(t))
  <2>1. /\ len = Len(UpTo(gs, t, Len(t))) /\ SetUpTo(gs, t, Len(t)) /\ dest = UpTo(gs, t, i - 1)
        /\ i \in 1 .. (Len(t) + 1)
    BY <1>2 DEF PathInv, WriteInv, PositionInv
  <2> HIDE DEF gs, t
  <2>2. i - 1 \in Nat /\ i - 1 <= Len(t)
    BY <1>0, <2>1
  <2>3. Len(UpTo(gs, t, i - 1)) <= Len(UpTo(gs, t, Len(t)))
    BY <1>0, <2>2, UpToMonotone
  <2> QED BY <2>1, <2>3
<1>3. ASSUME pass = "write", i > Len(tmpl) PROVE Len(dest) = len /\ dest = Substituted(gs, t)
  <2>1. /\ len = Len(UpTo(gs, t, Len(t))) /\ dest = UpTo(gs, t, i - 1) /\ i \in 1 .. (Len(t) + 1)
    BY <1>3 DEF PathInv, WriteInv, PositionInv
  <2>2. i > Len(t)
    BY <1>3
  <2> HIDE DEF gs, t
  <2>3. i - 1 = Len(t)
    BY <1>0, <2>1, <2>2
  <2>4. Substituted(gs, t) = UpTo(gs, t, Len(t))
    BY <1>0 DEF Substituted, UpTo
  <2> QED BY <2>1, <2>3, <2>4
<1>4. ASSUME rc = "failed", pass = "measure", i <= Len(tmpl) PROVE ~SetUpTo(gs, t, Len(t))
  <2>1. ~SetUpTo(gs, t, i) /\ i \in 1 .. (Len(t) + 1) /\ i <= Len(t)
    BY <1>4 DEF PathInv, MeasureInv, PositionInv
  <2> HIDE DEF gs, t
  <2> QED BY <1>0, <2>1 DEF SetUpTo
<1> QED BY <1>1, <1>2, <1>3, <1>4 DEF SubstitutionAgrees

(* What lws_string_sub writes fits what it measured, fills it, and is the     *)
(* template with the groups put for their references once, for every path,    *)
(* every template and everything regexec may say; it gives up exactly on a    *)
(* reference to an unset group.                                               *)
THEOREM Substitutes == PathsSpec => []SubstitutionAgrees
<1>1. PathsInit => PathInv
  BY PathStarts
<1>2. PathInv /\ [PathsNext]_pathVars => PathInv'
  BY PathStep
<1>3. PathInv => SubstitutionAgrees
  BY PathAgrees
<1> QED BY <1>1, <1>2, <1>3, PTL DEF PathsSpec

(***************************** Cookies ***************************************)
IsHeader(v) == v \in Seq(CookieCharacter)

InsideOf(v, a, b) == {j \in a .. b : ~IsBlank(v[j])}

LEMMA TrimmedIs ==
  ASSUME NEW v, NEW a \in Nat, NEW b \in Nat
  PROVE  /\ InsideOf(v, a, b) = {} => Trimmed(v, a, b) = <<>>
         /\ InsideOf(v, a, b) # {} =>
              LET x == Min(InsideOf(v, a, b))
                  y == Max(InsideOf(v, a, b))
              IN  /\ x \in InsideOf(v, a, b) /\ y \in InsideOf(v, a, b)
                  /\ \A j \in InsideOf(v, a, b) : x <= j /\ j <= y
                  /\ Trimmed(v, a, b) = SubSeq(v, x, y)
<1> DEFINE S == InsideOf(v, a, b)
           e == <<>>
           w == SubSeq(v, Min(S), Max(S))
<1>1. Trimmed(v, a, b) = IF S = {} THEN e ELSE w
  BY DEF Trimmed, InsideOf
<1>2. S \in SUBSET Nat /\ \A j \in S : j <= b
  BY DEF InsideOf
<1>3. S # {} => Min(S) \in S /\ Max(S) \in S /\ \A j \in S : Min(S) <= j /\ j <= Max(S)
  <2> HIDE DEF S
  <2> QED BY <1>2, MinProperties, MaxProperties
<1> HIDE DEF S, e, w
<1>4. S = {} => Trimmed(v, a, b) = e
  BY <1>1
<1>5. S # {} => Trimmed(v, a, b) = w
  BY <1>1
<1> QED BY <1>3, <1>4, <1>5 DEF S, e, w

LEMMA TrimmedType ==
  ASSUME NEW v, IsHeader(v), NEW a \in Nat \ {0}, NEW b \in Nat, b <= Len(v)
  PROVE  Trimmed(v, a, b) \in Seq(CookieCharacter)
<1> DEFINE S == InsideOf(v, a, b)
           x == Min(S)
           y == Max(S)
<1>0. Len(v) \in Nat /\ \A j \in 1 .. Len(v) : v[j] \in CookieCharacter
  BY DEF IsHeader
<1>1. CASE S = {}
  <2>1. <<>> \in Seq(CookieCharacter)
    OBVIOUS
  <2> QED BY <1>1, <2>1, TrimmedIs
<1>2. CASE S # {}
  <2>1. x \in S /\ y \in S /\ Trimmed(v, a, b) = SubSeq(v, x, y)
    BY <1>2, TrimmedIs
  <2>2. x \in a .. b /\ y \in a .. b
    BY <2>1 DEF InsideOf
  <2> HIDE DEF x, y, S
  <2>3. x \in Int /\ y \in Int /\ \A j \in x .. y : v[j] \in CookieCharacter
    BY <1>0, <2>2
  <2>4. SubSeq(v, x, y) \in Seq(CookieCharacter)
    BY <2>3, SubSeqProperties
  <2> QED BY <2>1, <2>4
<1> QED BY <1>1, <1>2

Alike(v, w, a, b, d) == \A j \in a .. b : w[j + d] = v[j]

(* The same characters at another place, trimmed, are the same.               *)
LEMMA TrimmedShift ==
  ASSUME NEW v, NEW w, NEW a \in Nat, NEW b \in Nat, NEW d \in Nat, Alike(v, w, a, b, d)
  PROVE  Trimmed(w, a + d, b + d) = Trimmed(v, a, b)
<1> DEFINE S == InsideOf(v, a, b)
           T == InsideOf(w, a + d, b + d)
<1>0. a + d \in Nat /\ b + d \in Nat
  OBVIOUS
<1>1. /\ \A j \in a .. b : j \in S <=> j + d \in T
      /\ S \subseteq a .. b /\ T \subseteq (a + d) .. (b + d)
      /\ \A k \in (a + d) .. (b + d) : k - d \in a .. b /\ k - d + d = k
  <2>1. \A j \in a .. b : j + d \in (a + d) .. (b + d)
    OBVIOUS
  <2>2. \A j \in a .. b : IsBlank(v[j]) <=> IsBlank(w[j + d])
    BY DEF Alike
  <2>3. \A k \in (a + d) .. (b + d) : k - d \in a .. b /\ k - d + d = k
    OBVIOUS
  <2> QED BY <2>1, <2>2, <2>3 DEF InsideOf
<1>2. S = {} <=> T = {}
  <2> HIDE DEF S, T
  <2>1. ASSUME NEW k \in T PROVE S # {}
    <3>1. k - d \in a .. b /\ k - d + d \in T
      BY <1>1
    <3> QED BY <1>1, <3>1
  <2> QED BY <1>1, <2>1
<1>3. CASE S = {}
  BY <1>0, <1>2, <1>3, TrimmedIs
<1>4. CASE S # {}
  <2> DEFINE x == Min(S)
             y == Max(S)
             p == Min(T)
             q == Max(T)
  <2>1. x \in S /\ y \in S /\ (\A j \in S : x <= j /\ j <= y) /\ Trimmed(v, a, b) = SubSeq(v, x, y)
    BY <1>4, TrimmedIs
  <2>2. p \in T /\ q \in T /\ (\A j \in T : p <= j /\ j <= q) /\ Trimmed(w, a + d, b + d) = SubSeq(w, p, q)
    BY <1>0, <1>2, <1>4, TrimmedIs
  <2> HIDE DEF S, T, x, y, p, q
  <2>3. x \in a .. b /\ y \in a .. b /\ p - d \in a .. b /\ q - d \in a .. b
    BY <1>1, <2>1, <2>2
  <2>4. x + d \in T /\ y + d \in T /\ p - d \in S /\ q - d \in S
    BY <1>1, <2>1, <2>2, <2>3
  <2>5. p = x + d /\ q = y + d
    <3>1. p <= x + d /\ x <= p - d /\ q - d <= y /\ y + d <= q
      BY <2>1, <2>2, <2>4
    <3>2. p \in Int /\ q \in Int /\ x \in Int /\ y \in Int
      BY <1>1, <2>2, <2>3
    <3> QED BY <3>1, <3>2
  <2>6. SubSeq(w, x + d, y + d) = SubSeq(v, x, y)
    <3>1. /\ SubSeq(w, x + d, y + d) = [j \in 1 .. (1 + (y + d) - (x + d)) |-> w[j + (x + d) - 1]]
          /\ SubSeq(v, x, y) = [j \in 1 .. (1 + y - x) |-> v[j + x - 1]]
      BY SMTT(20), <2>3 DEF SubSeq
    <3>2. 1 + (y + d) - (x + d) = 1 + y - x
      BY <2>3
    <3>3. ASSUME NEW j \in 1 .. (1 + y - x) PROVE w[j + (x + d) - 1] = v[j + x - 1]
      <4>1. j + x - 1 \in a .. b /\ j + (x + d) - 1 = (j + x - 1) + d
        BY <2>3
      <4> QED BY <4>1 DEF Alike
    <3> QED BY <3>1, <3>2, <3>3
  <2> QED BY <2>1, <2>2, <2>5, <2>6
<1> QED BY <1>3, <1>4

(* A blank at the front does not count.                                       *)
LEMMA TrimmedBlank ==
  ASSUME NEW v, NEW a \in Nat, NEW b \in Nat, IsBlank(v[a])
  PROVE  Trimmed(v, a, b) = Trimmed(v, a + 1, b)
<1>1. InsideOf(v, a, b) = InsideOf(v, a + 1, b)
  BY DEF InsideOf
<1>2. /\ Trimmed(v, a, b) = IF InsideOf(v, a, b) = {} THEN <<>>
                            ELSE SubSeq(v, Min(InsideOf(v, a, b)), Max(InsideOf(v, a, b)))
      /\ Trimmed(v, a + 1, b) = IF InsideOf(v, a + 1, b) = {} THEN <<>>
                                ELSE SubSeq(v, Min(InsideOf(v, a + 1, b)), Max(InsideOf(v, a + 1, b)))
  BY DEF Trimmed, InsideOf
<1> DEFINE f(T) == IF T = {} THEN <<>> ELSE SubSeq(v, Min(T), Max(T))
<1>3. Trimmed(v, a, b) = f(InsideOf(v, a, b)) /\ Trimmed(v, a + 1, b) = f(InsideOf(v, a + 1, b))
  BY <1>2
<1> HIDE DEF f
<1> QED BY <1>1, <1>3

CommasBefore(v, p) == {j \in 1 .. (p - 1) : v[j] = ","}

LEMMA StartOfIs ==
  ASSUME NEW v, NEW p \in Nat \ {0}
  PROVE  /\ StartOf(v, p) \in 1 .. p
         /\ CommasBefore(v, p) = {} => StartOf(v, p) = 1
         /\ \A j \in CommasBefore(v, p) : j < StartOf(v, p)
         /\ CommasBefore(v, p) # {} => StartOf(v, p) - 1 \in CommasBefore(v, p)
<1> DEFINE C == CommasBefore(v, p)
           S == {0} \cup C
<1>1. StartOf(v, p) = Max(S) + 1
  BY DEF StartOf, CommasBefore
<1>2. C \subseteq 1 .. (p - 1)
  BY DEF CommasBefore
<1>3. S \in SUBSET Nat /\ S # {} /\ p - 1 \in Nat /\ \A n \in S : n <= p - 1
  <2> HIDE DEF C
  <2> QED BY <1>2
<1>4. Max(S) \in S /\ \A n \in S : n <= Max(S)
  <2> HIDE DEF S
  <2> QED BY <1>3, MaxProperties
<1> HIDE DEF C
<1>5. Max(S) \in 0 .. (p - 1)
  BY <1>3, <1>4
<1>6. C = {} => Max(S) = 0
  BY <1>4
<1>7. C # {} => Max(S) \in C
  <2> SUFFICES ASSUME C # {} PROVE Max(S) \in C
    OBVIOUS
  <2>1. PICK j \in C : TRUE
    OBVIOUS
  <2>2. j <= Max(S) /\ j >= 1
    BY <1>2, <1>4
  <2>3. Max(S) # 0
    BY <1>2, <1>5, <2>2
  <2> QED BY <1>4, <2>3
<1>8. \A j \in C : j <= Max(S)
  BY <1>4
<1> HIDE DEF S
<1> QED BY <1>1, <1>2, <1>5, <1>6, <1>7, <1>8 DEF C

(* Where a part begins depends on the commas before it only.                  *)
LEMMA StartOfSame ==
  ASSUME NEW v, NEW w, NEW p \in Nat \ {0}, \A j \in 1 .. (p - 1) : v[j] = w[j]
  PROVE  StartOf(v, p) = StartOf(w, p)
<1>1. {j \in 1 .. (p - 1) : v[j] = ","} = {j \in 1 .. (p - 1) : w[j] = ","}
  OBVIOUS
<1> QED BY <1>1 DEF StartOf

(* A comma follows the part, and the next one begins there.                   *)
LEMMA StartOfNext ==
  ASSUME NEW v, NEW p \in Nat \ {0}
  PROVE  StartOf(v, p + 1) = IF v[p] = "," THEN p + 1 ELSE StartOf(v, p)
<1>0. p + 1 \in Nat \ {0} /\ p + 1 - 1 = p
  OBVIOUS
<1>1. CASE v[p] = ","
  <2>1. p \in CommasBefore(v, p + 1)
    <3>1. p \in 1 .. (p + 1 - 1)
      BY <1>0
    <3> DEFINE I == 1 .. (p + 1 - 1)
    <3>2. p \in I /\ CommasBefore(v, p + 1) = {j \in I : v[j] = ","}
      BY <3>1 DEF CommasBefore
    <3> HIDE DEF I, CommasBefore
    <3>3. p \in {j \in I : v[j] = ","}
      BY <1>1, <3>2
    <3> QED BY <3>2, <3>3
  <2>2. p < StartOf(v, p + 1) /\ StartOf(v, p + 1) \in 1 .. (p + 1)
    BY <1>0, <2>1, StartOfIs
  <2> HIDE DEF CommasBefore
  <2>3. p + 1 = StartOf(v, p + 1)
    BY <2>2
  <2> QED BY <1>1, <2>3
<1>2. CASE v[p] # ","
  <2>1. {j \in 1 .. (p + 1 - 1) : v[j] = ","} = {j \in 1 .. (p - 1) : v[j] = ","}
    <3>1. ASSUME NEW j PROVE j \in 1 .. (p + 1 - 1) /\ v[j] = "," <=> j \in 1 .. (p - 1) /\ v[j] = ","
      <4>1. j \in 1 .. (p + 1 - 1) => j \in 1 .. (p - 1) \/ j = p
        OBVIOUS
      <4>2. j \in 1 .. (p - 1) => j \in 1 .. (p + 1 - 1)
        OBVIOUS
      <4> QED BY <1>2, <4>1, <4>2
    <3> QED BY <3>1
  <2> DEFINE A == {j \in 1 .. (p + 1 - 1) : v[j] = ","}
             B == {j \in 1 .. (p - 1) : v[j] = ","}
  <2>a. StartOf(v, p + 1) = Max({0} \cup A) + 1 /\ StartOf(v, p) = Max({0} \cup B) + 1
    BY DEF StartOf
  <2>b. A = B
    BY <2>1
  <2> HIDE DEF A, B
  <2>2. StartOf(v, p + 1) = StartOf(v, p)
    BY <2>a, <2>b
  <2> QED BY <1>2, <2>2
<1> QED BY <1>1, <1>2

LEMMA PartType ==
  ASSUME NEW v, IsHeader(v), NEW p \in 1 .. (Len(v) + 1)
  PROVE  Part(v, p) \in Seq(Seq(CookieCharacter))
<1> DEFINE t == Trimmed(v, StartOf(v, p), p - 1)
           S == Seq(CookieCharacter)
           e == <<>>
           f == <<t>>
<1>1. t \in S
  <2>1. p \in Nat \ {0} /\ p - 1 \in Nat /\ p - 1 <= Len(v)
    BY DEF IsHeader
  <2>2. StartOf(v, p) \in Nat \ {0}
    <3>1. StartOf(v, p) \in 1 .. p
      BY <2>1, StartOfIs
    <3> QED BY <3>1
  <2> QED BY <2>1, <2>2, TrimmedType
<1>2. Part(v, p) = IF EndsPart(v, p) /\ t # <<>> THEN f ELSE e
  BY DEF Part
<1> HIDE DEF t, S
<1>3. f \in Seq(S) /\ e \in Seq(S)
  BY <1>1
<1> HIDE DEF e, f
<1> QED BY <1>2, <1>3 DEF S

LEMMA PartIs ==
  ASSUME NEW v, NEW w, NEW p, NEW q,
         EndsPart(v, p) <=> EndsPart(w, q),
         Trimmed(v, StartOf(v, p), p - 1) = Trimmed(w, StartOf(w, q), q - 1)
  PROVE  Part(v, p) = Part(w, q)
<1> DEFINE F(b, t) == IF b /\ t # <<>> THEN <<t>> ELSE <<>>
<1>1. /\ Part(v, p) = F(EndsPart(v, p), Trimmed(v, StartOf(v, p), p - 1))
      /\ Part(w, q) = F(EndsPart(w, q), Trimmed(w, StartOf(w, q), q - 1))
  BY DEF Part
<1>2. CASE EndsPart(v, p)
  <2>1. Part(v, p) = F(TRUE, Trimmed(v, StartOf(v, p), p - 1)) /\ Part(w, q) = F(TRUE, Trimmed(w, StartOf(w, q), q - 1))
    BY <1>2 DEF Part
  <2> HIDE DEF F
  <2> QED BY <2>1
<1>3. CASE ~EndsPart(v, p)
  BY <1>3 DEF Part
<1> QED BY <1>2, <1>3

IsFolded(w, v, c) ==
  /\ IsHeader(w) /\ Len(w) = Len(v) + 2 + Len(c) /\ Len(v) \in Nat /\ Len(c) \in Nat
  /\ \A j \in 1 .. Len(v) : w[j] = v[j]
  /\ w[Len(v) + 1] = "," /\ w[Len(v) + 2] = " "
  /\ \A j \in 1 .. Len(c) : w[j + (Len(v) + 2)] = c[j]

(* The header that folds v and c: where its characters come from.             *)
LEMMA FoldedIs ==
  ASSUME NEW v, IsHeader(v), NEW c, IsHeader(c), NEW w, w = v \o Separator \o c
  PROVE  IsFolded(w, v, c)
<1> DEFINE S == CookieCharacter
           x == ","
           y == " "
<1>0. x \in S /\ y \in S /\ Separator = <<x, y>>
  BY DEF CookieCharacter, Separator
<1> HIDE DEF S, x, y
<1>1. Separator \in Seq(S) /\ Len(Separator) = 2 /\ Separator[1] = x /\ Separator[2] = y
  BY <1>0
<1>v. v \in Seq(S) /\ c \in Seq(S) /\ Len(v) \in Nat /\ Len(c) \in Nat
  BY DEF IsHeader, S
<1> DEFINE u == v \o Separator
           n == Len(v)
<1>2. /\ u \in Seq(S) /\ Len(u) = n + 2 /\ n \in Nat
      /\ \A j \in 1 .. n : u[j] = v[j]
      /\ u[n + 1] = x /\ u[n + 2] = y
  <2>1. /\ u \in Seq(S) /\ Len(u) = Len(v) + Len(Separator)
        /\ \A j \in 1 .. (Len(v) + Len(Separator)) :
             u[j] = IF j <= Len(v) THEN v[j] ELSE Separator[j - Len(v)]
    BY <1>1, <1>v, ConcatProperties
  <2>2. n \in Nat /\ Len(v) = n
    BY <1>v
  <2> HIDE DEF n, u
  <2>3. /\ u[n + 1] = Separator[1] /\ u[n + 2] = Separator[2]
        /\ \A j \in 1 .. n : u[j] = v[j]
    <3>1. Len(v) + Len(Separator) = n + 2
      BY <1>1, <2>2
    <3>2. \A j \in 1 .. (n + 2) : u[j] = IF j <= n THEN v[j] ELSE Separator[j - n]
      BY <2>1, <2>2, <3>1
    <3>3. \A j \in 1 .. n : j \in 1 .. (n + 2) /\ j <= n
      BY <2>2
    <3>4. \A j \in 1 .. n : u[j] = v[j]
      BY <3>2, <3>3
    <3>5. \A k \in 1 .. 2 : u[n + k] = Separator[k]
      <4> SUFFICES ASSUME NEW k \in 1 .. 2 PROVE u[n + k] = Separator[k]
        OBVIOUS
      <4> DEFINE l == n + k
      <4>1. l \in 1 .. (n + 2) /\ ~(l <= n) /\ l - n = k
        BY <2>2
      <4> HIDE DEF l
      <4>2. u[l] = Separator[k]
        BY <3>2, <4>1
      <4> QED BY <4>2 DEF l
    <3> QED BY <3>4, <3>5
  <2>4. Len(u) = n + 2
    BY <1>1, <2>1, <2>2
  <2> QED BY <1>1, <2>1, <2>2, <2>3, <2>4
<1>3. w = u \o c
  OBVIOUS
<1> HIDE DEF u
<1>4. /\ w \in Seq(S) /\ Len(w) = Len(u) + Len(c)
      /\ \A j \in 1 .. (Len(u) + Len(c)) : w[j] = IF j <= Len(u) THEN u[j] ELSE c[j - Len(u)]
  <2>1. u \in Seq(S) /\ c \in Seq(S)
    BY <1>v, <1>2
  <2>2. /\ u \o c \in Seq(S) /\ Len(u \o c) = Len(u) + Len(c)
        /\ \A j \in 1 .. (Len(u) + Len(c)) : (u \o c)[j] = IF j <= Len(u) THEN u[j] ELSE c[j - Len(u)]
    BY <2>1, ConcatProperties
  <2> QED BY <1>3, <2>2
<1>n. n = Len(v)
  OBVIOUS
<1> HIDE DEF n
<1>5. \A j \in 1 .. (n + 2) : w[j] = u[j]
  BY <1>v, <1>2, <1>4
<1>6. ASSUME NEW j \in 1 .. Len(c) PROVE w[j + (n + 2)] = c[j]
  <2>1. n \in Nat /\ Len(u) = n + 2 /\ Len(c) \in Nat /\ j \in 1 .. Len(c)
    BY <1>v, <1>2
  <2> DEFINE k == j + (n + 2)
  <2>2. k \in 1 .. (Len(u) + Len(c)) /\ ~(k <= Len(u)) /\ k - Len(u) = j
    BY ONLY <2>1
  <2> HIDE DEF k
  <2>3. w[k] = IF k <= Len(u) THEN u[k] ELSE c[k - Len(u)]
    BY <1>4, <2>2
  <2>4. w[k] = c[j]
    BY <2>2, <2>3
  <2> QED BY <2>4 DEF k
<1>7. /\ \A j \in 1 .. n : w[j] = v[j]
      /\ w[n + 1] = x /\ w[n + 2] = y
  <2>1. n + 1 \in 1 .. (n + 2) /\ n + 2 \in 1 .. (n + 2) /\ \A j \in 1 .. n : j \in 1 .. (n + 2)
    BY <1>2
  <2>2. w[n + 1] = u[n + 1] /\ w[n + 2] = u[n + 2] /\ \A j \in 1 .. n : w[j] = u[j]
    BY <1>5, <2>1
  <2> QED BY <1>2, <2>2
<1> QED BY <1>v, <1>n, <1>2, <1>4, <1>6, <1>7 DEF IsFolded, IsHeader, S, x, y

LEMMA FoldedParts ==
  ASSUME NEW v, IsHeader(v), NEW c, IsHeader(c), NEW w, IsFolded(w, v, c)
  PROVE  /\ \A p \in 1 .. (Len(v) + 1) : Part(w, p) = Part(v, p)
         /\ Part(w, Len(v) + 2) = <<>>
         /\ \A q \in 1 .. (Len(c) + 1) : Part(w, Len(v) + 2 + q) = Part(c, q)
<1> DEFINE n == Len(v)
           m == Len(c)
<1>0. Len(w) = n + 2 + m /\ n \in Nat /\ m \in Nat
  BY DEF IsFolded
<1>w. /\ \A j \in 1 .. n : w[j] = v[j]
      /\ \A j \in 1 .. m : w[j + (n + 2)] = c[j]
  BY DEF IsFolded
<1>ls. w[n + 1] = "," /\ w[n + 2] = " "
  BY DEF IsFolded
<1>l. n = Len(v) /\ m = Len(c)
  OBVIOUS
<1> HIDE DEF n, m
<1>1. ASSUME NEW p \in 1 .. (n + 1) PROVE Part(w, p) = Part(v, p)
  <2>0. p \in Nat \ {0} /\ p - 1 \in Nat
    BY <1>0
  <2>1. EndsPart(w, p) <=> EndsPart(v, p)
    <3>1. CASE p = n + 1
      <4>1. p > n
        BY <1>0, <3>1
      <4>2. w[p] = ","
        BY <1>ls, <3>1
      <4> QED BY <1>l, <4>1, <4>2 DEF EndsPart
    <3>2. CASE p # n + 1
      <4>1. p \in 1 .. n /\ ~(p > n) /\ ~(p > Len(w))
        BY <1>0, <3>2
      <4>2. w[p] = v[p]
        BY <1>w, <4>1
      <4> QED BY <1>l, <4>1, <4>2 DEF EndsPart
    <3> QED BY <3>1, <3>2
  <2>2. \A j \in 1 .. (p - 1) : w[j] = v[j]
    <3>1. \A j \in 1 .. (p - 1) : j \in 1 .. n
      BY <1>0
    <3> QED BY <1>w, <3>1
  <2>3. StartOf(w, p) = StartOf(v, p)
    BY <2>0, <2>2, StartOfSame
  <2>4. StartOf(v, p) \in Nat \ {0}
    <3>1. StartOf(v, p) \in 1 .. p
      BY <2>0, StartOfIs
    <3> QED BY <3>1
  <2> DEFINE a == StartOf(v, p)
             b == p - 1
  <2>5. a \in Nat /\ b \in Nat /\ \A j \in a .. b : w[j + 0] = v[j]
    <3>1. \A j \in a .. b : j \in 1 .. (p - 1) /\ j + 0 = j
      BY <2>0, <2>4
    <3> QED BY <2>0, <2>2, <2>4, <3>1
  <2> HIDE DEF a, b
  <2>6. Trimmed(w, a + 0, b + 0) = Trimmed(v, a, b)
    <3>1. Alike(v, w, a, b, 0)
      BY <2>5 DEF Alike
    <3> QED BY <2>5, <3>1, TrimmedShift
  <2>7. Trimmed(w, a, b) = Trimmed(v, a, b)
    BY <2>5, <2>6
  <2>8. Trimmed(w, StartOf(w, p), p - 1) = Trimmed(v, StartOf(v, p), p - 1)
    BY <2>3, <2>7 DEF a, b
  <2> QED BY <2>1, <2>8, PartIs
<1>2. Part(w, n + 2) = <<>>
  <2>1. ~EndsPart(w, n + 2)
    <3>1. ~(n + 2 > Len(w))
      BY <1>0
    <3>2. w[n + 2] # ","
      BY <1>ls
    <3> QED BY <3>1, <3>2 DEF EndsPart
  <2> QED BY <2>1 DEF Part
<1>3. ASSUME NEW q \in 1 .. (m + 1) PROVE Part(w, n + 2 + q) = Part(c, q)
  <2> DEFINE d == n + 2
             p == d + q
  <2>0. /\ p \in Nat \ {0} /\ q \in Nat \ {0} /\ d \in Nat /\ q - 1 \in Nat /\ p = q + d /\ p - 1 = (q - 1) + d
        /\ d = n + 2 /\ Len(w) = d + m
    BY <1>0
  <2>p. n + 2 + q = p
    BY <1>0
  <2> HIDE DEF d, p
  <2>1. EndsPart(w, p) <=> EndsPart(c, q)
    <3>1. CASE q = m + 1
      <4>1. p > Len(w) /\ q > m
        BY <1>0, <2>0, <3>1
      <4> QED BY <1>l, <4>1 DEF EndsPart
    <3>2. CASE q # m + 1
      <4>1. q \in 1 .. m /\ ~(q > m) /\ ~(p > Len(w))
        BY <1>0, <2>0, <3>2
      <4>2. w[q + d] = c[q]
        BY <1>w, <2>0, <4>1
      <4> QED BY <1>l, <2>0, <4>1, <4>2 DEF EndsPart
    <3> QED BY <3>1, <3>2
  <2>2. \A j \in 1 .. (q - 1) : w[j + d] = c[j]
    <3>1. \A j \in 1 .. (q - 1) : j \in 1 .. m
      BY <1>0
    <3> QED BY <1>w, <2>0, <3>1
  <2>3. \A j \in 1 .. (q - 1) : j \in CommasBefore(c, q) <=> j + d \in CommasBefore(w, p)
    <3>1. \A j \in 1 .. (q - 1) : j + d \in 1 .. (p - 1)
      BY <2>0
    <3> QED BY <2>2, <3>1 DEF CommasBefore
  <2>4. CommasBefore(c, q) \subseteq 1 .. (q - 1) /\ CommasBefore(w, p) \subseteq 1 .. (p - 1)
    BY DEF CommasBefore
  <2>5. n + 1 \in CommasBefore(w, p)
    <3>1. n + 1 \in 1 .. (p - 1)
      BY <1>0, <2>0
    <3> QED BY <1>ls, <3>1 DEF CommasBefore
  <2> DEFINE a == StartOf(c, q)
             x == StartOf(w, p)
             b == q - 1
  <2>6. /\ a \in 1 .. q /\ (CommasBefore(c, q) = {} => a = 1)
        /\ \A j \in CommasBefore(c, q) : j < a
        /\ CommasBefore(c, q) # {} => a - 1 \in CommasBefore(c, q)
    BY <2>0, StartOfIs
  <2>7. /\ x \in 1 .. p
        /\ \A j \in CommasBefore(w, p) : j < x
        /\ x - 1 \in CommasBefore(w, p)
    BY <2>0, <2>5, StartOfIs
  <2>b. b \in Nat /\ b = q - 1
    BY <2>0
  <2> HIDE DEF a, b, x
  <2>8. Trimmed(w, a + d, b + d) = Trimmed(c, a, b)
    <3>1. \A j \in a .. b : j \in 1 .. (q - 1)
      BY <2>6, <2>b
    <3>2. \A j \in a .. b : w[j + d] = c[j]
      BY <2>2, <3>1
    <3>3. a \in Nat
      BY <2>6
    <3>4. Alike(c, w, a, b, d)
      BY <3>2 DEF Alike
    <3> QED BY <2>0, <2>b, <3>3, <3>4, TrimmedShift
  <2>9. Trimmed(w, x, p - 1) = Trimmed(w, a + d, b + d)
    <3>0. p - 1 = b + d
      BY <2>0, <2>b
    <3>1. CASE CommasBefore(c, q) # {}
      <4>1. a - 1 + d \in CommasBefore(w, p)
        BY <2>3, <2>4, <2>6, <3>1
      <4>2. a - 1 + d < x
        BY <2>7, <4>1
      <4>3. x - 1 > n + 1
        <5>1. a - 1 >= 1
          BY <2>4, <2>6, <3>1
        <5> QED BY <1>0, <2>0, <2>6, <2>7, <4>2, <5>1
      <4>4. x - 1 - d \in 1 .. (q - 1)
        <5>1. x - 1 # d
          BY <1>ls, <2>0, <2>7 DEF CommasBefore
        <5> QED BY <1>0, <2>0, <2>7, <4>3, <5>1
      <4>5. x - 1 - d \in CommasBefore(c, q)
        <5>1. x - 1 - d + d = x - 1
          BY <2>0, <2>7
        <5> QED BY <2>3, <2>7, <4>4, <5>1
      <4>6. x - 1 - d < a
        BY <2>6, <4>5
      <4>7. x = a + d
        <5>1. x \in Int /\ a \in Int /\ d \in Int
          BY <2>0, <2>6, <2>7
        <5> QED BY <4>2, <4>6, <5>1
      <4> QED BY <3>0, <4>7
    <3>2. CASE CommasBefore(c, q) = {}
      <4>1. a = 1
        BY <2>6, <3>2
      <4>2. x = d
        <5>1. x >= d
          <6>1. n + 1 < x
            BY <2>5, <2>7
          <6> QED BY <1>0, <2>0, <2>7, <6>1
        <5>2. ASSUME x > d PROVE FALSE
          <6>1. x - 1 # d
            BY <1>ls, <2>0, <2>7 DEF CommasBefore
          <6>2. x - 1 - d \in 1 .. (q - 1) /\ x - 1 - d + d = x - 1
            BY <1>0, <2>0, <2>7, <5>2, <6>1
          <6>3. x - 1 - d \in CommasBefore(c, q)
            BY <2>3, <2>7, <6>2
          <6> QED BY <3>2, <6>3
        <5> QED BY <2>0, <2>7, <5>1, <5>2
      <4>3. Trimmed(w, d, b + d) = Trimmed(w, d + 1, b + d)
        <5>1. IsBlank(w[d])
          BY <1>ls, <2>0 DEF IsBlank
        <5>2. b + d \in Nat
          BY <2>0, <2>b
        <5> QED BY <2>0, <5>1, <5>2, TrimmedBlank
      <4>4. a + d = d + 1
        BY <2>0, <4>1
      <4> QED BY <3>0, <4>2, <4>3, <4>4
    <3> QED BY <3>1, <3>2
  <2>10. Trimmed(w, StartOf(w, p), p - 1) = Trimmed(c, StartOf(c, q), q - 1)
    BY <2>8, <2>9, <2>b DEF a, x
  <2>11. Part(w, p) = Part(c, q)
    BY <2>1, <2>10, PartIs
  <2> QED BY <2>p, <2>11
<1> QED BY <1>1, <1>2, <1>3 DEF n, m

PartList(v, n) == [p \in 1 .. n |-> Part(v, p)]

LEMMA PartListType ==
  ASSUME NEW v, IsHeader(v), NEW n \in Nat, n <= Len(v) + 1
  PROVE  /\ IsLists(PartList(v, n), Seq(CookieCharacter)) /\ Len(PartList(v, n)) = n
         /\ \A p \in 1 .. n : PartList(v, n)[p] = Part(v, p)
<1> DEFINE S == Seq(CookieCharacter)
           T == Seq(S)
<1>1. \A p \in 1 .. n : Part(v, p) \in T
  <2>1. \A p \in 1 .. n : p \in 1 .. (Len(v) + 1)
    BY DEF IsHeader
  <2> QED BY <2>1, PartType
<1> HIDE DEF T
<1>2. PartList(v, n) \in Seq(T) /\ Len(PartList(v, n)) = n /\ \A p \in 1 .. n : PartList(v, n)[p] = Part(v, p)
  BY <1>1 DEF PartList
<1> QED BY <1>2 DEF IsLists, T

LEMMA PartsExtend ==
  ASSUME NEW v, IsHeader(v), NEW n \in Nat, n <= Len(v)
  PROVE  /\ PartsUpTo(v, n) \in Seq(Seq(CookieCharacter)) /\ PartsUpTo(v, n + 1) \in Seq(Seq(CookieCharacter))
         /\ PartsUpTo(v, n + 1) = PartsUpTo(v, n) \o Part(v, n + 1)
<1> DEFINE x == PartList(v, n)
           y == PartList(v, n + 1)
           S == Seq(CookieCharacter)
<1>0. n + 1 \in Nat /\ n <= Len(v) + 1 /\ n + 1 <= Len(v) + 1 /\ n + 1 \in 1 .. (n + 1) /\ \A p \in 1 .. n : p \in 1 .. (n + 1)
  BY DEF IsHeader
<1>1. IsLists(x, S) /\ Len(x) = n /\ \A p \in 1 .. n : x[p] = Part(v, p)
  BY <1>0, PartListType
<1>2. IsLists(y, S) /\ Len(y) = n + 1 /\ \A p \in 1 .. (n + 1) : y[p] = Part(v, p)
  BY <1>0, PartListType
<1>3. PartsUpTo(v, n) = FlattenSeq(x) /\ PartsUpTo(v, n + 1) = FlattenSeq(y)
  BY DEF PartsUpTo, PartList
<1> HIDE DEF x, y, S
<1>4. Len(y) = Len(x) + 1 /\ \A p \in 1 .. Len(x) : y[p] = x[p]
  BY <1>0, <1>1, <1>2
<1>5. FlattenSeq(y) \in Seq(S) /\ FlattenSeq(x) \in Seq(S) /\ FlattenSeq(y) = FlattenSeq(x) \o y[Len(x) + 1]
  BY <1>1, <1>2, <1>4, FlattenExtend
<1>6. y[Len(x) + 1] = Part(v, n + 1)
  BY <1>0, <1>1, <1>2
<1> QED BY <1>3, <1>5, <1>6 DEF S

LEMMA PartsOfType == ASSUME NEW v, IsHeader(v) PROVE PartsOf(v) \in Seq(Seq(CookieCharacter))
<1>1. Len(v) \in Nat /\ Len(v) <= Len(v)
  BY DEF IsHeader
<1>2. PartsUpTo(v, Len(v) + 1) \in Seq(Seq(CookieCharacter))
  BY <1>1, PartsExtend
<1> QED BY <1>2 DEF PartsOf

LEMMA NoParts == ASSUME NEW v PROVE PartsUpTo(v, 0) = <<>>
<1> DEFINE x == [p \in 1 .. 0 |-> Part(v, p)]
           e == <<>>
<1>1. x = e /\ Len(e) = 0
  OBVIOUS
<1>2. FlattenSeq(e) = e
  BY <1>1 DEF FlattenSeq
<1> QED BY <1>1, <1>2 DEF PartsUpTo

LEMMA EmptyHasNoParts == PartsOf(<<>>) = <<>>
<1> DEFINE e == <<>>
<1>1. IsHeader(e) /\ Len(e) = 0
  BY DEF IsHeader
<1> HIDE DEF e
<1>2. Part(e, 0 + 1) = <<>>
  <2>1. StartOf(e, 1) = 1
    <3>1. StartOf(e, 1) \in 1 .. 1
      BY StartOfIs
    <3> QED BY <3>1
  <2>2. Trimmed(e, 1, 0) = <<>>
    <3>1. InsideOf(e, 1, 0) = {}
      BY DEF InsideOf
    <3> QED BY <3>1, TrimmedIs
  <2>3. 0 + 1 = 1 /\ 1 - 1 = 0
    OBVIOUS
  <2>4. Trimmed(e, StartOf(e, 0 + 1), 0 + 1 - 1) = <<>>
    BY <2>1, <2>2, <2>3
  <2> QED BY <2>4 DEF Part
<1>3. PartsUpTo(e, 0 + 1) = PartsUpTo(e, 0) \o Part(e, 0 + 1)
  BY <1>1, PartsExtend
<1>4. <<>> \o <<>> = <<>>
  OBVIOUS
<1>5. PartsUpTo(e, 0 + 1) = <<>>
  BY <1>2, <1>3, <1>4, NoParts
<1>6. PartsOf(e) = <<>>
  BY <1>1, <1>5 DEF PartsOf
<1> QED BY <1>6 DEF e

(* Folding concatenates the parts.                                            *)
LEMMA FoldedPartsOf ==
  ASSUME NEW v, IsHeader(v), NEW c, IsHeader(c), NEW w, IsFolded(w, v, c)
  PROVE  PartsOf(w) = PartsOf(v) \o PartsOf(c)
<1> DEFINE n == Len(v)
           m == Len(c)
           S == Seq(CookieCharacter)
           x == PartList(v, n + 1)
           y == PartList(w, n + 2)
           z == PartList(c, m + 1)
           ls == PartList(w, n + 2 + (m + 1))
<1>0. /\ Len(w) = n + 2 + m /\ n \in Nat /\ m \in Nat /\ IsHeader(w)
      /\ n = Len(v) /\ m = Len(c)
  BY DEF IsFolded
<1>1. /\ PartsOf(v) = FlattenSeq(x) /\ PartsOf(c) = FlattenSeq(z)
      /\ n + 2 + (m + 1) = Len(w) + 1
  BY <1>0 DEF PartsOf, PartsUpTo, PartList
<1>2. PartsOf(w) = FlattenSeq(ls)
  <2>1. PartsOf(w) = FlattenSeq(PartList(w, Len(w) + 1))
    BY DEF PartsOf, PartsUpTo, PartList
  <2> QED BY <1>1, <2>1
<1> HIDE DEF n, m
<1>3. /\ n + 1 \in Nat /\ n + 1 <= Len(v) + 1 /\ n + 2 \in Nat /\ n + 2 <= Len(w) + 1
      /\ m + 1 \in Nat /\ m + 1 <= Len(c) + 1
      /\ n + 2 + (m + 1) \in Nat /\ n + 2 + (m + 1) <= Len(w) + 1
  BY <1>0
<1>4. IsLists(x, S) /\ Len(x) = n + 1 /\ \A p \in 1 .. (n + 1) : x[p] = Part(v, p)
  BY <1>3, PartListType
<1>5. IsLists(y, S) /\ Len(y) = n + 2 /\ \A p \in 1 .. (n + 2) : y[p] = Part(w, p)
  BY <1>0, <1>3, PartListType
<1>6. IsLists(z, S) /\ Len(z) = m + 1 /\ \A p \in 1 .. (m + 1) : z[p] = Part(c, p)
  BY <1>3, PartListType
<1>7. IsLists(ls, S) /\ Len(ls) = n + 2 + (m + 1) /\ \A p \in 1 .. (n + 2 + (m + 1)) : ls[p] = Part(w, p)
  BY <1>0, <1>3, PartListType
<1>8. /\ \A p \in 1 .. (n + 1) : Part(w, p) = Part(v, p)
      /\ Part(w, n + 2) = <<>>
      /\ \A q \in 1 .. (m + 1) : Part(w, n + 2 + q) = Part(c, q)
  BY <1>0, FoldedParts
<1> HIDE DEF x, y, z, ls, S
<1>9. FlattenSeq(y) = FlattenSeq(x)
  <2>1. Len(y) = Len(x) + 1
    BY <1>0, <1>4, <1>5
  <2>2. \A p \in 1 .. Len(x) : y[p] = x[p]
    <3>1. \A p \in 1 .. (n + 1) : p \in 1 .. (n + 2)
      BY <1>0
    <3> QED BY <1>4, <1>5, <1>8, <3>1
  <2>3. /\ FlattenSeq(y) \in Seq(S) /\ FlattenSeq(x) \in Seq(S)
        /\ FlattenSeq(y) = FlattenSeq(x) \o y[Len(x) + 1]
    BY SMTT(20), <1>4, <1>5, <2>1, <2>2, FlattenExtend
  <2>4. y[Len(x) + 1] = <<>>
    <3>1. Len(x) + 1 = n + 2 /\ n + 2 \in 1 .. (n + 2)
      BY <1>0, <1>4
    <3> QED BY <1>5, <1>8, <3>1
  <2> QED BY <2>3, <2>4, ConcatEmptySeq
<1>10. FlattenSeq(ls) = FlattenSeq(y) \o FlattenSeq(z)
  <2>1. Agree(ls, y, n + 2)
    <3>1. \A p \in 1 .. (n + 2) : p \in 1 .. (n + 2 + (m + 1))
      BY <1>0
    <3> QED BY <1>5, <1>7, <3>1 DEF Agree
  <2>2. Shifted(ls, z, n + 2, m + 1)
    <3>1. \A q \in 1 .. (m + 1) : n + 2 + q \in 1 .. (n + 2 + (m + 1))
      BY <1>0
    <3> QED BY <1>6, <1>7, <1>8, <3>1 DEF Shifted
  <2> DEFINE a == n + 2
             b == m + 1
  <2>3. a \in Nat /\ b \in Nat /\ Len(ls) = a + b /\ Len(y) = a /\ Len(z) = b
    BY <1>3, <1>5, <1>6, <1>7
  <2>4. Agree(ls, y, a) /\ Shifted(ls, z, a, b) /\ IsLists(ls, S) /\ IsLists(y, S) /\ IsLists(z, S)
    BY <1>5, <1>6, <1>7, <2>1, <2>2
  <2> HIDE DEF a, b
  <2>5. Joins(ls, y, z, a, b, S)
    BY <2>3, <2>4 DEF Joins
  <2> QED BY <2>5, FlattenParts
<1> QED BY <1>1, <1>2, <1>9, <1>10

LEMMA CookiesExtend ==
  ASSUME NEW list \in Seq(Seq(CookieCharacter)), NEW n \in Nat, n < Len(list)
  PROVE  /\ CookiesUpTo(list, n) \in Seq(Seq(CookieCharacter)) /\ IsHeader(list[n + 1])
         /\ CookiesUpTo(list, n + 1) = CookiesUpTo(list, n) \o PartsOf(list[n + 1])
<1> DEFINE S == Seq(CookieCharacter)
           x == [k \in 1 .. n |-> PartsOf(list[k])]
           y == [k \in 1 .. (n + 1) |-> PartsOf(list[k])]
<1>0. /\ Len(list) \in Nat /\ \A k \in 1 .. Len(list) : IsHeader(list[k])
  BY DEF IsHeader
<1>1. \A k \in 1 .. (n + 1) : PartsOf(list[k]) \in Seq(S) /\ IsHeader(list[k])
  <2>1. \A k \in 1 .. (n + 1) : k \in 1 .. Len(list)
    BY <1>0
  <2> QED BY <1>0, <2>1, PartsOfType
<1> DEFINE T == Seq(S)
<1>2. x \in Seq(T) /\ y \in Seq(T) /\ Len(x) = n /\ Len(y) = n + 1 /\ \A k \in 1 .. n : y[k] = x[k]
  <2>1. \A k \in 1 .. (n + 1) : PartsOf(list[k]) \in T
    BY <1>1
  <2> HIDE DEF T
  <2> QED BY <2>1
<1>3. y[n + 1] = PartsOf(list[n + 1]) /\ IsHeader(list[n + 1])
  BY <1>1
<1>4. CookiesUpTo(list, n) = FlattenSeq(x) /\ CookiesUpTo(list, n + 1) = FlattenSeq(y)
  BY DEF CookiesUpTo
<1> HIDE DEF x, y
<1>5. IsLists(x, S) /\ IsLists(y, S)
  BY <1>2 DEF IsLists
<1> HIDE DEF S, T
<1>6. Len(y) = Len(x) + 1 /\ \A k \in 1 .. Len(x) : y[k] = x[k]
  BY <1>2
<1>7. FlattenSeq(y) \in Seq(S) /\ FlattenSeq(x) \in Seq(S) /\ FlattenSeq(y) = FlattenSeq(x) \o y[Len(x) + 1]
  BY <1>5, <1>6, FlattenExtend
<1> QED BY <1>2, <1>3, <1>4, <1>7 DEF S

LEMMA NoCookies == ASSUME NEW list PROVE CookiesUpTo(list, 0) = <<>>
<1> DEFINE x == [k \in 1 .. 0 |-> PartsOf(list[k])]
           e == <<>>
<1>1. x = e /\ Len(e) = 0
  OBVIOUS
<1>2. FlattenSeq(e) = e
  BY <1>1 DEF FlattenSeq
<1> QED BY <1>1, <1>2 DEF CookiesUpTo

(* lws_add_cookie adds the part, if there is anything in it.                  *)
LEMMA PartAdds ==
  ASSUME NEW v, IsHeader(v), NEW p \in 1 .. (Len(v) + 1), NEW arr \in Seq(Seq(CookieCharacter)),
         NEW t, t = Trimmed(v, StartOf(v, p), p - 1)
  PROVE  /\ ~EndsPart(v, p) => arr \o Part(v, p) = arr
         /\ EndsPart(v, p) => arr \o Part(v, p) = IF t = <<>> THEN arr ELSE Append(arr, t)
<1> DEFINE S == Seq(CookieCharacter)
<1>1. arr \o <<>> = arr
  BY ConcatEmptySeq
<1>2. CASE ~EndsPart(v, p)
  <2>1. Part(v, p) = <<>>
    BY <1>2 DEF Part
  <2> QED BY <1>1, <1>2, <2>1
<1>3. CASE EndsPart(v, p) /\ t = <<>>
  <2>1. Part(v, p) = <<>>
    BY <1>3 DEF Part
  <2> QED BY <1>1, <1>3, <2>1
<1>4. CASE EndsPart(v, p) /\ t # <<>>
  <2>1. Part(v, p) = <<t>>
    BY <1>4 DEF Part
  <2>2. t \in S
    <3>1. p \in Nat \ {0} /\ p - 1 \in Nat /\ p - 1 <= Len(v)
      BY DEF IsHeader
    <3>2. StartOf(v, p) \in Nat \ {0}
      <4>1. StartOf(v, p) \in 1 .. p
        BY <3>1, StartOfIs
      <4> QED BY <4>1
    <3> QED BY <3>1, <3>2, TrimmedType
  <2> HIDE DEF S
  <2>3. arr \in Seq(S)
    BY DEF S
  <2>4. Append(arr, t) = arr \o <<t>>
    BY <2>2, <2>3, AppendIsConcat
  <2> QED BY <1>4, <2>1, <2>4
<1> QED BY <1>2, <1>3, <1>4

LEMMA PartsInit == CookiesInit => PartsInv
<1> SUFFICES ASSUME CookiesInit PROVE PartsInv
  OBVIOUS
<1>1. PICK list \in CookieLists : CookiesStart(list, "measure")
  BY DEF CookiesInit
<1>2. /\ cookies = list /\ phase = "measure" /\ idx = 1 /\ cookie_count = 0
      /\ value = <<>> /\ sc_start = 1 /\ sc_pos = 1 /\ cookies_arr = <<>>
  BY <1>1 DEF CookiesStart
<1>3. cookies \in Seq(Seq(CookieCharacter)) /\ Len(cookies) \in Nat
  <2>1. STRING \subseteq CookieCharacter
    BY DEF CookieCharacter
  <2> DEFINE S == Seq(STRING)
             T == Seq(CookieCharacter)
  <2>2. S \subseteq T
    BY <2>1, SeqMonotonic
  <2>3. list \in Seq(S)
    BY CookiesAssumption
  <2> HIDE DEF S, T
  <2>4. list \in Seq(T)
    BY <2>2, <2>3
  <2>5. cookies \in Seq(T) /\ Len(cookies) \in Nat
    BY <1>2, <2>4
  <2> QED BY <2>5 DEF T
<1>4. <<>> \in Seq(CookieCharacter)
  OBVIOUS
<1>5. CookiesUpTo(cookies, idx - 1) = <<>>
  <2>1. idx - 1 = 0
    BY <1>2
  <2> QED BY <2>1, NoCookies
<1> QED BY <1>2, <1>3, <1>4, <1>5 DEF PartsInv

LEMMA MeasureCookieKeeps == PartsInv /\ MeasureCookie => PartsInv'
<1> SUFFICES ASSUME PartsInv, MeasureCookie PROVE PartsInv'
  OBVIOUS
<1>0. /\ cookies \in Seq(Seq(CookieCharacter)) /\ value \in Seq(CookieCharacter) /\ cookie_count \in Nat
      /\ phase = "measure" /\ idx \in 1 .. (Len(cookies) + 1) /\ idx <= Len(cookies) /\ Len(cookies) \in Nat
      /\ sc_start = 1 /\ sc_pos = 1 /\ cookies_arr = <<>> /\ value = <<>>
      /\ cookie_count = 0 => CookiesUpTo(cookies, idx - 1) = <<>>
      /\ idx' = idx + 1
      /\ UNCHANGED <<cookies, phase, value, sc_start, sc_pos, cookies_arr>>
  BY DEF PartsInv, MeasureCookie
<1>1. idx' - 1 = idx /\ idx' \in 1 .. (Len(cookies) + 1)
  BY <1>0
<1>2. CookiesUpTo(cookies, idx) = CookiesUpTo(cookies, idx - 1) \o PartsOf(cookies[idx])
  <2>1. idx - 1 \in Nat /\ idx - 1 < Len(cookies) /\ idx - 1 + 1 = idx
    BY <1>0
  <2>2. CookiesUpTo(cookies, idx - 1 + 1) = CookiesUpTo(cookies, idx - 1) \o PartsOf(cookies[idx - 1 + 1])
    BY <1>0, <2>1, CookiesExtend
  <2> QED BY <2>1, <2>2
<1>3. cookie_count' \in Nat /\ (cookie_count' = 0 => cookie_count = 0 /\ cookies[idx] = <<>>)
  BY <1>0 DEF MeasureCookie, Cookie
<1>4. cookie_count' = 0 => CookiesUpTo(cookies, idx) = <<>>
  <2>1. <<>> \o <<>> = <<>>
    OBVIOUS
  <2> QED BY <1>0, <1>2, <1>3, <2>1, EmptyHasNoParts
<1> QED BY <1>0, <1>1, <1>3, <1>4 DEF PartsInv

LEMMA CookiesMeasuredKeeps == PartsInv /\ CookiesMeasured => PartsInv'
<1> SUFFICES ASSUME PartsInv, CookiesMeasured PROVE PartsInv'
  OBVIOUS
<1>0. /\ cookies \in Seq(Seq(CookieCharacter)) /\ value \in Seq(CookieCharacter) /\ cookie_count \in Nat
      /\ phase = "measure" /\ idx \in 1 .. (Len(cookies) + 1) /\ idx > Len(cookies) /\ Len(cookies) \in Nat
      /\ sc_start = 1 /\ sc_pos = 1 /\ cookies_arr = <<>> /\ value = <<>>
      /\ cookie_count = 0 => CookiesUpTo(cookies, idx - 1) = <<>>
      /\ phase' = (IF cookie_count > 0 THEN "write" ELSE "out")
      /\ idx' = 1 /\ cookie_count' = 0
      /\ UNCHANGED <<cookies, value, sc_start, sc_pos, cookies_arr>>
  BY DEF PartsInv, CookiesMeasured
<1>1. idx' \in 1 .. (Len(cookies) + 1) /\ idx - 1 = Len(cookies)
  BY <1>0
<1>2. PartsOf(value') = CookiesUpTo(cookies', idx' - 1)
  <2>1. idx' - 1 = 0
    BY <1>0
  <2> QED BY <1>0, <2>1, NoCookies, EmptyHasNoParts
<1>3. CASE cookie_count > 0
  BY <1>0, <1>1, <1>2, <1>3 DEF PartsInv
<1>4. CASE ~(cookie_count > 0)
  <2>1. phase' = "out" /\ cookies_arr' = CookiesUpTo(cookies', Len(cookies'))
    BY <1>0, <1>1, <1>4
  <2> QED BY <1>0, <2>1 DEF PartsInv
<1> QED BY <1>3, <1>4

LEMMA WriteCookieKeeps == PartsInv /\ WriteCookie => PartsInv'
<1> SUFFICES ASSUME PartsInv, WriteCookie PROVE PartsInv'
  OBVIOUS
<1>0. /\ cookies \in Seq(Seq(CookieCharacter)) /\ value \in Seq(CookieCharacter) /\ cookie_count \in Nat
      /\ phase = "write" /\ idx \in 1 .. (Len(cookies) + 1) /\ idx <= Len(cookies) /\ Len(cookies) \in Nat
      /\ sc_start = 1 /\ sc_pos = 1 /\ cookies_arr = <<>>
      /\ PartsOf(value) = CookiesUpTo(cookies, idx - 1) /\ (cookie_count = 0 => value = <<>>)
      /\ idx' = idx + 1
      /\ UNCHANGED <<cookies, phase, sc_start, sc_pos, cookies_arr>>
  BY DEF PartsInv, WriteCookie
<1>1. idx' - 1 = idx /\ idx' \in 1 .. (Len(cookies) + 1)
  BY <1>0
<1> DEFINE c == cookies[idx]
<1>2. CookiesUpTo(cookies, idx) = CookiesUpTo(cookies, idx - 1) \o PartsOf(c) /\ IsHeader(c)
  <2>1. idx - 1 \in Nat /\ idx - 1 < Len(cookies) /\ idx - 1 + 1 = idx
    BY <1>0
  <2>2. /\ CookiesUpTo(cookies, idx - 1 + 1) = CookiesUpTo(cookies, idx - 1) \o PartsOf(cookies[idx - 1 + 1])
        /\ IsHeader(cookies[idx - 1 + 1])
    BY <1>0, <2>1, CookiesExtend
  <2> QED BY <2>1, <2>2
<1>v. IsHeader(value) /\ PartsOf(value) \in Seq(Seq(CookieCharacter)) /\ PartsOf(c) \in Seq(Seq(CookieCharacter))
  <2>1. IsHeader(value)
    BY <1>0 DEF IsHeader
  <2> QED BY <1>2, <2>1, PartsOfType
<1>3. /\ IsHeader(value') /\ cookie_count' \in Nat /\ PartsOf(value') = CookiesUpTo(cookies, idx)
      /\ cookie_count' = 0 => value' = <<>>
  <2>1. CASE c = <<>>
    <3>1. value' = value /\ cookie_count' = cookie_count
      BY <2>1 DEF WriteCookie, Cookie
    <3>2. PartsOf(value) \o PartsOf(c) = PartsOf(value)
      BY <1>v, <2>1, EmptyHasNoParts, ConcatEmptySeq
    <3> QED BY <1>0, <1>2, <1>v, <3>1, <3>2
  <2>2. CASE c # <<>> /\ cookie_count > 0
    <3>1. value' = value \o Separator \o c /\ cookie_count' = cookie_count + 1
      BY <2>2 DEF WriteCookie, Cookie
    <3>2. IsFolded(value', value, c)
      BY <1>2, <1>v, <3>1, FoldedIs
    <3>3. PartsOf(value') = PartsOf(value) \o PartsOf(c)
      BY <1>2, <1>v, <3>2, FoldedPartsOf
    <3>4. cookie_count' \in Nat /\ cookie_count' # 0
      BY <1>0, <3>1
    <3>5. IsHeader(value')
      BY <3>2 DEF IsFolded
    <3> QED BY <1>0, <1>2, <3>3, <3>4, <3>5
  <2>3. CASE c # <<>> /\ ~(cookie_count > 0)
    <3>0. cookie_count = 0 /\ value = <<>>
      BY <1>0, <2>3
    <3>1. value' = value \o <<>> \o c /\ cookie_count' = cookie_count + 1
      BY <2>3 DEF WriteCookie, Cookie
    <3>2. <<>> \o <<>> = <<>> /\ <<>> \o c = c
      BY <1>2, ConcatEmptySeq DEF IsHeader
    <3>3. value' = c
      BY <3>0, <3>1, <3>2
    <3>4. PartsOf(value) \o PartsOf(c) = PartsOf(c)
      BY <1>v, <3>0, EmptyHasNoParts, ConcatEmptySeq
    <3>5. cookie_count' \in Nat /\ cookie_count' # 0
      BY <3>0, <3>1
    <3> QED BY <1>0, <1>2, <3>3, <3>4, <3>5
  <2> QED BY <1>0, <2>1, <2>2, <2>3
<1> HIDE DEF c
<1>4. value' \in Seq(CookieCharacter)
  BY <1>3 DEF IsHeader
<1> QED BY <1>0, <1>1, <1>3, <1>4 DEF PartsInv

LEMMA SendBackKeeps == PartsInv /\ SendBack => PartsInv'
<1> SUFFICES ASSUME PartsInv, SendBack PROVE PartsInv'
  OBVIOUS
<1>0. /\ cookies \in Seq(Seq(CookieCharacter)) /\ value \in Seq(CookieCharacter) /\ cookie_count \in Nat
      /\ phase = "write" /\ idx \in 1 .. (Len(cookies) + 1) /\ idx > Len(cookies) /\ Len(cookies) \in Nat
      /\ sc_start = 1 /\ sc_pos = 1 /\ cookies_arr = <<>> /\ PartsOf(value) = CookiesUpTo(cookies, idx - 1)
      /\ phase' = "split" /\ UNCHANGED <<cookies, idx, cookie_count, value, sc_start, sc_pos, cookies_arr>>
  BY DEF PartsInv, SendBack
<1>1. idx - 1 = Len(cookies) /\ Len(value) \in Nat
  BY <1>0
<1>2. StartOf(value, 1) = 1
  <2>1. StartOf(value, 1) \in 1 .. 1
    BY StartOfIs
  <2> QED BY <2>1
<1>3. PartsUpTo(value, sc_pos - 1) = <<>>
  <2>1. sc_pos - 1 = 0
    BY <1>0
  <2> QED BY <2>1, NoParts
<1>4. sc_pos \in 1 .. (Len(value) + 1)
  BY <1>0, <1>1
<1> QED BY <1>0, <1>1, <1>2, <1>3, <1>4 DEF PartsInv

(* Each character the split has looked at adds the part that ends at it.      *)
LEMMA SplitCookieKeeps == PartsInv /\ SplitCookie => PartsInv'
<1> SUFFICES ASSUME PartsInv, SplitCookie PROVE PartsInv'
  OBVIOUS
<1>0. /\ cookies \in Seq(Seq(CookieCharacter)) /\ value \in Seq(CookieCharacter) /\ cookie_count \in Nat
      /\ phase = "split" /\ PartsOf(value) = CookiesUpTo(cookies, Len(cookies))
      /\ sc_pos \in 1 .. (Len(value) + 1) /\ sc_pos <= Len(value) /\ Len(value) \in Nat
      /\ sc_start = StartOf(value, sc_pos) /\ cookies_arr = PartsUpTo(value, sc_pos - 1)
      /\ sc_pos' = sc_pos + 1 /\ UNCHANGED <<cookies, phase, idx, cookie_count, value>>
  <2>1. /\ phase = "split" /\ sc_pos <= Len(value)
        /\ sc_pos' = sc_pos + 1 /\ UNCHANGED <<cookies, phase, idx, cookie_count, value>>
    BY DEF SplitCookie
  <2>2. /\ cookies \in Seq(Seq(CookieCharacter)) /\ value \in Seq(CookieCharacter) /\ cookie_count \in Nat
        /\ PartsOf(value) = CookiesUpTo(cookies, Len(cookies))
        /\ sc_pos \in 1 .. (Len(value) + 1)
        /\ sc_start = StartOf(value, sc_pos) /\ cookies_arr = PartsUpTo(value, sc_pos - 1)
    BY <2>1 DEF PartsInv
  <2>3. Len(value) \in Nat
    BY <2>2
  <2> QED BY <2>1, <2>2, <2>3
<1>1. sc_pos \in Nat \ {0} /\ sc_pos' - 1 = sc_pos /\ sc_pos' \in 1 .. (Len(value) + 1)
  BY <1>0
<1>2. /\ PartsUpTo(value, sc_pos - 1) \in Seq(Seq(CookieCharacter))
      /\ PartsUpTo(value, sc_pos) = PartsUpTo(value, sc_pos - 1) \o Part(value, sc_pos)
  <2>1. sc_pos - 1 \in Nat /\ sc_pos - 1 <= Len(value) /\ sc_pos - 1 + 1 = sc_pos /\ IsHeader(value)
    BY <1>0 DEF IsHeader
  <2>2. /\ PartsUpTo(value, sc_pos - 1) \in Seq(Seq(CookieCharacter))
        /\ PartsUpTo(value, sc_pos - 1 + 1) = PartsUpTo(value, sc_pos - 1) \o Part(value, sc_pos - 1 + 1)
    BY <2>1, PartsExtend
  <2> QED BY <2>1, <2>2
<1>3. sc_start' = StartOf(value, sc_pos')
  <2>1. StartOf(value, sc_pos + 1) = IF value[sc_pos] = "," THEN sc_pos + 1 ELSE StartOf(value, sc_pos)
    BY <1>1, StartOfNext
  <2> QED BY <1>0, <2>1 DEF SplitCookie
<1>4. cookies_arr' = PartsUpTo(value, sc_pos)
  <2> DEFINE t == Trimmed(value, StartOf(value, sc_pos), sc_pos - 1)
             arr == PartsUpTo(value, sc_pos - 1)
  <2>1. /\ ~EndsPart(value, sc_pos) => arr \o Part(value, sc_pos) = arr
        /\ EndsPart(value, sc_pos) => arr \o Part(value, sc_pos) = IF t = <<>> THEN arr ELSE Append(arr, t)
    <3>1. IsHeader(value) /\ sc_pos \in 1 .. (Len(value) + 1) /\ arr \in Seq(Seq(CookieCharacter))
      BY <1>0, <1>2 DEF IsHeader
    <3> HIDE DEF arr
    <3> QED BY <3>1, PartAdds
  <2>2. EndsPart(value, sc_pos) <=> value[sc_pos] = ","
    <3>1. ~(sc_pos > Len(value))
      BY <1>0
    <3> QED BY <3>1 DEF EndsPart
  <2>3. value[sc_pos] = "," => cookies_arr' = IF t = <<>> THEN arr ELSE Append(arr, t)
    BY <1>0 DEF SplitCookie, AddCookie
  <2>4. value[sc_pos] # "," => cookies_arr' = arr
    BY <1>0 DEF SplitCookie
  <2> HIDE DEF t, arr
  <2>5. cookies_arr' = arr \o Part(value, sc_pos)
    BY <2>1, <2>2, <2>3, <2>4
  <2> QED BY <1>2, <2>5 DEF arr
<1> QED BY <1>0, <1>1, <1>3, <1>4 DEF PartsInv

LEMMA CookiesSplitKeeps == PartsInv /\ CookiesSplit => PartsInv'
<1> SUFFICES ASSUME PartsInv, CookiesSplit PROVE PartsInv'
  OBVIOUS
<1>0. /\ cookies \in Seq(Seq(CookieCharacter)) /\ value \in Seq(CookieCharacter) /\ cookie_count \in Nat
      /\ phase = "split" /\ PartsOf(value) = CookiesUpTo(cookies, Len(cookies))
      /\ sc_pos \in 1 .. (Len(value) + 1) /\ sc_pos > Len(value) /\ Len(value) \in Nat
      /\ sc_start = StartOf(value, sc_pos) /\ cookies_arr = PartsUpTo(value, sc_pos - 1)
      /\ phase' = "out" /\ UNCHANGED <<cookies, idx, cookie_count, value, sc_start, sc_pos>>
  BY DEF PartsInv, CookiesSplit
<1>1. sc_pos = Len(value) + 1 /\ sc_pos - 1 = Len(value)
  BY <1>0
<1> DEFINE p == Len(value) + 1
           t == Trimmed(value, StartOf(value, p), p - 1)
           arr == PartsUpTo(value, Len(value))
<1>2. arr \in Seq(Seq(CookieCharacter)) /\ PartsOf(value) = arr \o Part(value, p) /\ IsHeader(value)
  <2>1. IsHeader(value) /\ Len(value) <= Len(value)
    BY <1>0 DEF IsHeader
  <2>2. /\ PartsUpTo(value, Len(value)) \in Seq(Seq(CookieCharacter))
        /\ PartsUpTo(value, Len(value) + 1) = PartsUpTo(value, Len(value)) \o Part(value, Len(value) + 1)
    BY <1>0, <2>1, PartsExtend
  <2> QED BY <2>1, <2>2 DEF PartsOf
<1>3. cookies_arr' = IF t = <<>> THEN arr ELSE Append(arr, t)
  <2>1. p - 1 = Len(value)
    BY <1>0
  <2> QED BY <1>0, <1>1, <2>1 DEF CookiesSplit, LastCookie, AddCookie
<1>4. EndsPart(value, p) /\ p \in 1 .. (Len(value) + 1)
  <2>1. Len(value) \in Nat
    BY <1>0
  <2>2. p > Len(value) /\ p \in 1 .. (Len(value) + 1)
    BY <2>1
  <2> HIDE DEF p
  <2> QED BY <2>2 DEF EndsPart
<1> HIDE DEF arr, t
<1>5. arr \o Part(value, p) = IF t = <<>> THEN arr ELSE Append(arr, t)
  <2> HIDE DEF p
  <2>1. t = Trimmed(value, StartOf(value, p), p - 1)
    BY DEF t
  <2> QED BY <1>2, <1>4, <2>1, PartAdds
<1> HIDE DEF p
<1>6. cookies_arr' = CookiesUpTo(cookies', Len(cookies'))
  BY <1>0, <1>2, <1>3, <1>5
<1> QED BY <1>0, <1>6 DEF PartsInv

LEMMA PartsStep == PartsInv /\ [CookiesNext]_cookieVars => PartsInv'
<1> SUFFICES ASSUME PartsInv, [CookiesNext]_cookieVars PROVE PartsInv'
  OBVIOUS
<1>1. CASE UNCHANGED cookieVars
  BY <1>1 DEF cookieVars, PartsInv
<1> QED BY <1>1, MeasureCookieKeeps, CookiesMeasuredKeeps, WriteCookieKeeps, SendBackKeeps,
           SplitCookieKeeps, CookiesSplitKeeps DEF CookiesNext

(* The cookies a chunk that sends back the Cookie header sets are the parts   *)
(* of the invocation's cookies, in their order, for every list of cookies:    *)
(* folding with ", " and splitting at commas lose and add nothing but blanks. *)
THEOREM CookiesSentBack == CookiesSpec => []CookiesAgree
<1>1. CookiesInit => PartsInv
  BY PartsInit
<1>2. PartsInv /\ [CookiesNext]_cookieVars => PartsInv'
  BY PartsStep
<1>3. PartsInv => CookiesAgree
  <2> SUFFICES ASSUME PartsInv, phase = "out" PROVE cookies_arr = FlattenSeq([k \in DOMAIN cookies |-> PartsOf(cookies[k])])
    BY DEF CookiesAgree
  <2>1. cookies_arr = CookiesUpTo(cookies, Len(cookies)) /\ DOMAIN cookies = 1 .. Len(cookies)
    BY DEF PartsInv
  <2> QED BY <2>1 DEF CookiesUpTo
<1> QED BY <1>1, <1>2, <1>3, PTL DEF CookiesSpec

(************************* Fields of a query string **************************)
IsField(t) == t \in Seq(Character)

LEMMA DigitsProperties == \A c \in HexDigits : c \in Character /\ c # "%"
BY DigitsAssumption DEF Character

LEMMA FieldProperties ==
  ASSUME NEW t, IsField(t)
  PROVE  Len(t) \in Nat /\ DOMAIN t = 1 .. Len(t) /\ \A j \in 1 .. Len(t) : t[j] \in Character
<1> DEFINE T == Character
<1>1. t \in Seq(T)
  BY DEF IsField
<1> HIDE DEF T
<1>2. Len(t) \in Nat /\ DOMAIN t = 1 .. Len(t) /\ \A j \in 1 .. Len(t) : t[j] \in T
  BY <1>1
<1> QED BY <1>2 DEF T

(* Escapes do not overlap, as "%" is no digit.                                *)
LEMMA EscapesApart ==
  ASSUME NEW t, IsField(t), NEW j \in Escapes(t), NEW l \in Escapes(t), j < l
  PROVE  j + 2 < l
<1>1. j \in 1 .. Len(t) /\ l \in 1 .. Len(t) /\ t[l] = "%" /\ \A k \in (j + 1) .. (j + 2) : k <= Len(t) => t[k] \in HexDigits
  BY FieldProperties DEF Escapes
<1> SUFFICES ASSUME l <= j + 2 PROVE FALSE
  BY <1>1
<1>2. l \in (j + 1) .. (j + 2) /\ l <= Len(t)
  BY <1>1, FieldProperties
<1> QED BY <1>1, <1>2, DigitsProperties

(* The three things a position can stand for.                                 *)
LEMMA StoodIs ==
  ASSUME NEW t, IsField(t), NEW j \in Int
  PROVE  /\ j \in Escapes(t) /\ j + 2 <= Len(t) => Stood(t, j) = <<<<t[j + 1], t[j + 2]>>>>
         /\ j \in Escapes(t) /\ ~(j + 2 <= Len(t)) => Stood(t, j) = <<>>
         /\ j \notin Escapes(t) /\ (j - 1 \in Escapes(t) \/ j - 2 \in Escapes(t)) => Stood(t, j) = <<>>
         /\ j \notin Escapes(t) /\ j - 1 \notin Escapes(t) /\ j - 2 \notin Escapes(t)
              => Stood(t, j) = <<<<IF t[j] = "+" THEN " " ELSE t[j]>>>>
<1> DEFINE e == <<>>
           E == Escapes(t)
           x == <<<<t[j + 1], t[j + 2]>>>>
           y == <<<<IF t[j] = "+" THEN " " ELSE t[j]>>>>
           near == E \cap {j - 1, j - 2} # {}
           long == j + 2 <= Len(t)
<1>1. Stood(t, j) = CASE j \in E -> IF long THEN x ELSE e [] near -> e [] OTHER -> y
  BY DEF Stood
<1>2. near <=> j - 1 \in E \/ j - 2 \in E
  OBVIOUS
<1>4. j \in E => ~near
  <2> SUFFICES ASSUME j \in E, NEW k \in E, k \in {j - 1, j - 2} PROVE FALSE
    OBVIOUS
  <2>1. k \in Int /\ k < j /\ j <= k + 2 /\ k \in Escapes(t) /\ j \in Escapes(t)
    OBVIOUS
  <2> HIDE DEF E
  <2> QED BY <2>1, EscapesApart
<1> HIDE DEF e, E, x, y, near, long
<1>3. /\ j \in E /\ long => Stood(t, j) = x
      /\ j \in E /\ ~long => Stood(t, j) = e
      /\ j \notin E /\ near => Stood(t, j) = e
      /\ j \notin E /\ ~near => Stood(t, j) = y
  <2>2. CASE j \in E
    BY <1>1, <1>4, <2>2
  <2>3. CASE j \notin E
    BY <1>1, <2>3
  <2> QED BY <2>2, <2>3
<1> QED BY <1>2, <1>3 DEF e, E, x, y, long

LEMMA StoodEscape ==
  ASSUME NEW t, IsField(t), NEW j \in Escapes(t), j + 2 <= Len(t)
  PROVE  Stood(t, j) = <<<<t[j + 1], t[j + 2]>>>>
<1>1. j \in Int
  BY FieldProperties DEF Escapes
<1> QED BY <1>1, StoodIs

LEMMA StoodCut ==
  ASSUME NEW t, IsField(t), NEW j \in Escapes(t), Len(t) < j + 2
  PROVE  Stood(t, j) = <<>>
<1>1. j \in Int /\ ~(j + 2 <= Len(t))
  BY FieldProperties DEF Escapes
<1> QED BY <1>1, StoodIs

LEMMA StoodInner ==
  ASSUME NEW t, IsField(t), NEW j, NEW l \in Escapes(t), j = l + 1 \/ j = l + 2
  PROVE  Stood(t, j) = <<>>
<1>1. l \in Int /\ j \in Int
  BY FieldProperties DEF Escapes
<1>2. j - 1 = l \/ j - 2 = l
  BY <1>1
<1>3. j \notin Escapes(t)
  BY <1>1, EscapesApart
<1> QED BY <1>1, <1>2, <1>3, StoodIs

LEMMA StoodPlain ==
  ASSUME NEW t, IsField(t), NEW j \in Int, \A e \in Escapes(t) : e \in Int /\ (j < e \/ e + 2 < j)
  PROVE  Stood(t, j) = <<<<IF t[j] = "+" THEN " " ELSE t[j]>>>>
<1>1. j \notin Escapes(t)
  OBVIOUS
<1>2. j - 1 \notin Escapes(t)
  OBVIOUS
<1>3. j - 2 \notin Escapes(t)
  OBVIOUS
<1> QED BY <1>1, <1>2, <1>3, StoodIs

LEMMA StoodType ==
  ASSUME NEW t, IsField(t), NEW j \in 1 .. Len(t)
  PROVE  Stood(t, j) \in Seq(Seq(Character))
<1> DEFINE C == Character
<1>0. " " \in C /\ t[j] \in C /\ (j + 2 <= Len(t) => t[j + 1] \in C /\ t[j + 2] \in C)
  <2>1. j + 2 <= Len(t) => j + 1 \in 1 .. Len(t) /\ j + 2 \in 1 .. Len(t)
    BY FieldProperties
  <2>2. " " \in Character
    BY DEF Character
  <2> QED BY <2>1, <2>2, FieldProperties
<1> HIDE DEF C
<1>1. \A a, b \in C : <<<<a, b>>>> \in Seq(Seq(C)) /\ <<<<a>>>> \in Seq(Seq(C)) /\ <<>> \in Seq(Seq(C))
  <2> SUFFICES ASSUME NEW a \in C, NEW b \in C
               PROVE  <<<<a, b>>>> \in Seq(Seq(C)) /\ <<<<a>>>> \in Seq(Seq(C)) /\ <<>> \in Seq(Seq(C))
    OBVIOUS
  <2> DEFINE D == Seq(C)
  <2>1. <<a, b>> \in D /\ <<a>> \in D
    OBVIOUS
  <2> HIDE DEF D
  <2>2. <<<<a, b>>>> \in Seq(D) /\ <<<<a>>>> \in Seq(D) /\ <<>> \in Seq(D)
    BY <2>1
  <2> QED BY <2>2 DEF D
<1>2. (IF t[j] = "+" THEN " " ELSE t[j]) \in C
  BY <1>0
<1>3. <<<<IF t[j] = "+" THEN " " ELSE t[j]>>>> \in Seq(Seq(C)) /\ <<>> \in Seq(Seq(C))
  BY <1>1, <1>2
<1>4. j + 2 <= Len(t) => <<<<t[j + 1], t[j + 2]>>>> \in Seq(Seq(C))
  BY <1>0, <1>1
<1> DEFINE SC == Seq(Seq(C))
           x == <<<<t[j + 1], t[j + 2]>>>>
           y == <<<<IF t[j] = "+" THEN " " ELSE t[j]>>>>
           e == <<>>
<1>5. j \in Int
  OBVIOUS
<1>6. Stood(t, j) = y \/ Stood(t, j) = e \/ (j + 2 <= Len(t) /\ Stood(t, j) = x)
  BY <1>5, StoodIs
<1>7. y \in SC /\ e \in SC /\ (j + 2 <= Len(t) => x \in SC)
  BY <1>3, <1>4
<1> HIDE DEF SC, x, y, e
<1>8. Stood(t, j) \in SC
  BY <1>6, <1>7
<1> QED BY <1>8 DEF SC, C

StoodList(t) == [j \in DOMAIN t |-> Stood(t, j)]

LEMMA StoodListType ==
  ASSUME NEW t, IsField(t)
  PROVE  /\ IsLists(StoodList(t), Seq(Character)) /\ Len(StoodList(t)) = Len(t)
         /\ \A j \in 1 .. Len(t) : StoodList(t)[j] = Stood(t, j)
<1> DEFINE T == Seq(Seq(Character))
           n == Len(t)
<1>1. n \in Nat /\ StoodList(t) = [j \in 1 .. n |-> Stood(t, j)]
  BY FieldProperties DEF StoodList
<1>2. \A j \in 1 .. n : Stood(t, j) \in T
  BY StoodType
<1> HIDE DEF T, n
<1>3. StoodList(t) \in Seq(T) /\ Len(StoodList(t)) = n /\ \A j \in 1 .. n : StoodList(t)[j] = Stood(t, j)
  BY <1>1, <1>2
<1> QED BY <1>3 DEF T, n, IsLists

LEMMA UnescapeIs ==
  ASSUME NEW t, IsField(t), NEW n \in Nat, n <= Len(t)
  PROVE  UnescapeUpTo(t, n) = FlattenSeq(Leading(StoodList(t), n))
<1>1. [j \in 1 .. n |-> Stood(t, j)] = Leading(StoodList(t), n)
  <2>1. \A j \in 1 .. n : StoodList(t)[j] = Stood(t, j)
    <3>1. \A j \in 1 .. n : j \in 1 .. Len(t)
      BY FieldProperties
    <3> QED BY <3>1, StoodListType
  <2> QED BY <2>1 DEF Leading
<1> QED BY <1>1 DEF UnescapeUpTo

(* One position more is unescaped.                                            *)
LEMMA UnescapeExtend ==
  ASSUME NEW t, IsField(t), NEW n \in 1 .. Len(t)
  PROVE  /\ UnescapeUpTo(t, n - 1) \in Seq(Seq(Character)) /\ Stood(t, n) \in Seq(Seq(Character))
         /\ UnescapeUpTo(t, n) = UnescapeUpTo(t, n - 1) \o Stood(t, n)
<1> DEFINE S == Seq(Character)
           ls == StoodList(t)
           k == n - 1
<1>1. k \in Nat /\ k < Len(t) /\ k <= Len(t) /\ k + 1 = n /\ n \in Nat /\ n <= Len(t)
  BY FieldProperties
<1>2. IsLists(ls, S) /\ Len(ls) = Len(t) /\ ls[n] = Stood(t, n)
  BY StoodListType
<1>3. UnescapeUpTo(t, n) = FlattenSeq(Leading(ls, n)) /\ UnescapeUpTo(t, k) = FlattenSeq(Leading(ls, k))
  BY <1>1, UnescapeIs
<1>4. Stood(t, n) \in Seq(S)
  BY StoodType
<1> HIDE DEF S, ls, k
<1>5. /\ FlattenSeq(Leading(ls, k)) \in Seq(S)
      /\ FlattenSeq(Leading(ls, k + 1)) = FlattenSeq(Leading(ls, k)) \o ls[k + 1]
  BY <1>1, <1>2, FrontExtend
<1> QED BY <1>1, <1>2, <1>3, <1>4, <1>5 DEF S, k

LEMMA UnescapeEnds ==
  ASSUME NEW t, IsField(t)
  PROVE  UnescapeUpTo(t, 0) = <<>> /\ UnescapeUpTo(t, Len(t)) = Unescape(t)
<1>1. 0 \in Nat /\ 0 <= Len(t) /\ Len(t) \in Nat /\ Len(t) <= Len(t)
  BY FieldProperties
<1>2. /\ UnescapeUpTo(t, 0) = FlattenSeq(Leading(StoodList(t), 0))
      /\ UnescapeUpTo(t, Len(t)) = FlattenSeq(Leading(StoodList(t), Len(t)))
  BY <1>1, UnescapeIs
<1>3. FlattenSeq(Leading(StoodList(t), 0)) = <<>> /\ Leading(StoodList(t), Len(StoodList(t))) = StoodList(t)
  BY StoodListType, FrontEnds
<1>4. Len(StoodList(t)) = Len(t) /\ Unescape(t) = FlattenSeq(StoodList(t))
  BY StoodListType DEF Unescape, StoodList
<1> QED BY <1>2, <1>3, <1>4

(* What precedes m is unescaped and no escape reaches m: then m itself, if it *)
(* begins none, stands for itself.                                            *)
LEMMA ReadPlain ==
  ASSUME NEW t, IsField(t), NEW m \in 1 .. Len(t), NoneOpen(t, m), m \notin Escapes(t)
  PROVE  /\ NoneOpen(t, m + 1)
         /\ UnescapeUpTo(t, m) = UnescapeUpTo(t, m - 1) \o <<<<IF t[m] = "+" THEN " " ELSE t[m]>>>>
         /\ UnescapeUpTo(t, m - 1) \in Seq(Seq(Character))
<1>1. \A e \in Escapes(t) : e \in Int /\ (e < m => e + 2 < m)
  BY FieldProperties DEF NoneOpen, Escapes
<1>2. NoneOpen(t, m + 1)
  BY <1>1 DEF NoneOpen
<1>3. m \in Int /\ \A e \in Escapes(t) : e \in Int /\ (m < e \/ e + 2 < m)
  BY <1>1
<1>4. Stood(t, m) = <<<<IF t[m] = "+" THEN " " ELSE t[m]>>>>
  BY <1>3, StoodPlain
<1> QED BY <1>2, <1>4, UnescapeExtend

(* A whole escape.                                                            *)
LEMMA ReadEscape ==
  ASSUME NEW t, IsField(t), NEW m \in Escapes(t), m + 2 <= Len(t), NoneOpen(t, m)
  PROVE  /\ NoneOpen(t, m + 3)
         /\ UnescapeUpTo(t, m + 2) = UnescapeUpTo(t, m - 1) \o <<<<t[m + 1], t[m + 2]>>>>
         /\ UnescapeUpTo(t, m - 1) \in Seq(Seq(Character))
<1>0. m \in Int /\ m \in 1 .. Len(t) /\ m + 1 \in 1 .. Len(t) /\ m + 2 \in 1 .. Len(t)
  BY FieldProperties DEF Escapes
<1>1. \A e \in Escapes(t) : e \in Int /\ (e < m => e + 2 < m) /\ (m < e => m + 2 < e)
  <2>1. \A e \in Escapes(t) : e \in Int /\ (e < m => e + 2 < m)
    BY FieldProperties DEF NoneOpen, Escapes
  <2> QED BY <2>1, EscapesApart
<1>2. NoneOpen(t, m + 3)
  BY <1>0, <1>1 DEF NoneOpen
<1>4. Stood(t, m) = <<<<t[m + 1], t[m + 2]>>>>
  BY StoodEscape
<1>5. Stood(t, m + 1) = <<>>
  BY StoodInner
<1>6. Stood(t, m + 2) = <<>>
  BY StoodInner
<1> DEFINE S == Seq(Character)
           x == <<<<t[m + 1], t[m + 2]>>>>
<1>7. /\ UnescapeUpTo(t, m) = UnescapeUpTo(t, m - 1) \o x
      /\ UnescapeUpTo(t, m - 1) \in Seq(S) /\ x \in Seq(S)
  BY <1>0, <1>4, UnescapeExtend
<1>8. /\ UnescapeUpTo(t, m + 1) = UnescapeUpTo(t, m) \o <<>> /\ UnescapeUpTo(t, m) \in Seq(S)
  <2> DEFINE k == m + 1
  <2>2. k \in 1 .. Len(t) /\ k - 1 = m
    BY <1>0
  <2>4. Stood(t, k) = <<>>
    BY <1>5
  <2> HIDE DEF k, S
  <2>3. UnescapeUpTo(t, k) = UnescapeUpTo(t, k - 1) \o Stood(t, k) /\ UnescapeUpTo(t, k - 1) \in Seq(S)
    BY <2>2, UnescapeExtend DEF S
  <2>5. UnescapeUpTo(t, k) = UnescapeUpTo(t, m) \o <<>> /\ UnescapeUpTo(t, m) \in Seq(S)
    BY <2>2, <2>3, <2>4
  <2> QED BY <2>5 DEF k
<1>9. /\ UnescapeUpTo(t, m + 2) = UnescapeUpTo(t, m + 1) \o <<>> /\ UnescapeUpTo(t, m + 1) \in Seq(S)
  <2> DEFINE k == m + 2
  <2>2. k \in 1 .. Len(t) /\ k - 1 = m + 1
    BY <1>0
  <2>4. Stood(t, k) = <<>>
    BY <1>6
  <2> HIDE DEF k, S
  <2>3. UnescapeUpTo(t, k) = UnescapeUpTo(t, k - 1) \o Stood(t, k) /\ UnescapeUpTo(t, k - 1) \in Seq(S)
    BY <2>2, UnescapeExtend DEF S
  <2>5. UnescapeUpTo(t, k) = UnescapeUpTo(t, m + 1) \o <<>> /\ UnescapeUpTo(t, m + 1) \in Seq(S)
    BY <2>2, <2>3, <2>4
  <2> QED BY <2>5 DEF k
<1> HIDE DEF S
<1>10. \A a \in Seq(S) : a \o <<>> = a
  OBVIOUS
<1>11. UnescapeUpTo(t, m + 2) = UnescapeUpTo(t, m)
  BY <1>8, <1>9, <1>10
<1> QED BY <1>2, <1>7, <1>11 DEF S

(* An escape that the end cuts off.                                           *)
LEMMA ReadOpen ==
  ASSUME NEW t, IsField(t), NEW m \in Escapes(t), Len(t) < m + 2
  PROVE  UnescapeUpTo(t, m - 1) = Unescape(t)
<1>0. m \in Int /\ m \in 1 .. Len(t) /\ (Len(t) = m \/ Len(t) = m + 1) /\ m + 1 - 1 = m /\ Len(t) \in Nat
  BY FieldProperties DEF Escapes
<1> DEFINE S == Seq(Character)
<1>1. UnescapeUpTo(t, m) = UnescapeUpTo(t, m - 1) \o <<>> /\ UnescapeUpTo(t, m - 1) \in Seq(S)
  <2>1. Stood(t, m) = <<>>
    BY StoodCut
  <2> QED BY <1>0, <2>1, UnescapeExtend
<1>2. CASE Len(t) = m
  BY <1>1, <1>2, UnescapeEnds
<1>3. CASE Len(t) = m + 1
  <2>1. m + 1 \in 1 .. Len(t)
    BY <1>0, <1>3
  <2>2. Stood(t, m + 1) = <<>>
    BY StoodInner
  <2> DEFINE k == m + 1
  <2> HIDE DEF k
  <2>3. UnescapeUpTo(t, k) = UnescapeUpTo(t, k - 1) \o Stood(t, k) /\ UnescapeUpTo(t, k - 1) \in Seq(S)
    BY <2>1, UnescapeExtend DEF k
  <2>4. UnescapeUpTo(t, m + 1) = UnescapeUpTo(t, m) \o <<>> /\ UnescapeUpTo(t, m) \in Seq(S)
    BY <1>0, <2>2, <2>3 DEF k
  <2>5. UnescapeUpTo(t, m + 1) = Unescape(t)
    BY <1>3, UnescapeEnds
  <2> HIDE DEF S
  <2>6. \A a \in Seq(S) : a \o <<>> = a
    OBVIOUS
  <2> QED BY <1>1, <2>4, <2>5, <2>6
<1> QED BY <1>0, <1>2, <1>3

(**************************** Parts of a query *******************************)
(* No part ends in a .. b: it is <<a, b>> that ends there, if anything does.  *)
PartAt(t, a, b) ==
  /\ a \in 1 .. (Len(t) + 1) /\ (a > 1 => t[a - 1] = "&")
  /\ b \in (a - 1) .. Len(t) /\ (b < Len(t) => t[b + 1] = "&")
  /\ \A j \in a .. b : t[j] # "&"

Ended(t, n) == {p \in Parts(t) : p[2] < n}

LEMMA PartProperties ==
  ASSUME NEW t, IsField(t), NEW p \in Parts(t)
  PROVE  /\ p = <<p[1], p[2]>> /\ p[1] \in 1 .. Len(t) /\ p[2] \in 1 .. Len(t) /\ p[1] <= p[2]
         /\ \A j \in p[1] .. p[2] : t[j] # "&"
         /\ p[1] > 1 => t[p[1] - 1] = "&"
         /\ p[2] < Len(t) => t[p[2] + 1] = "&"
<1> DEFINE D == DOMAIN t
<1>1. p \in D \X D
  BY DEF Parts
<1>2. p = <<p[1], p[2]>> /\ p[1] \in D /\ p[2] \in D
  BY <1>1
<1> QED BY <1>2, FieldProperties DEF Parts

LEMMA PartEnds ==
  ASSUME NEW t, IsField(t), NEW a, NEW b, PartAt(t, a, b), NEW p \in Parts(t), p[2] < b + 2
  PROVE  p[2] < a \/ (p = <<a, b>> /\ a <= b)
<1>0. Len(t) \in Nat /\ a \in Int /\ b \in Int /\ 1 <= a /\ a - 1 <= b /\ b <= Len(t)
  BY FieldProperties DEF PartAt
<1> DEFINE c == p[1]
           d == p[2]
<1>1. /\ p = <<c, d>> /\ c \in 1 .. Len(t) /\ d \in 1 .. Len(t) /\ c <= d
      /\ \A j \in c .. d : t[j] # "&"
      /\ c > 1 => t[c - 1] = "&"
      /\ d < Len(t) => t[d + 1] = "&"
  BY PartProperties
<1>2. d < b + 2
  OBVIOUS
<1> HIDE DEF c, d
<1> SUFFICES ASSUME a <= d PROVE p = <<a, b>> /\ a <= b
  BY <1>0, <1>1 DEF d
<1>3. d # b + 1
  <2> SUFFICES ASSUME d = b + 1 PROVE FALSE
    OBVIOUS
  <2>1. t[b + 1] = "&" /\ b + 1 \in c .. d
    BY <1>0, <1>1 DEF PartAt
  <2> QED BY <1>1, <2>1
<1>4. d = b
  <2> SUFFICES ASSUME d < b PROVE FALSE
    BY <1>0, <1>1, <1>2, <1>3
  <2>1. d + 1 \in a .. b /\ t[d + 1] = "&"
    BY <1>0, <1>1
  <2> QED BY <2>1 DEF PartAt
<1>5. ~(c < a)
  <2> SUFFICES ASSUME c < a PROVE FALSE
    OBVIOUS
  <2>1. a - 1 \in c .. d /\ t[a - 1] = "&"
    BY <1>0, <1>1 DEF PartAt
  <2> QED BY <1>1, <2>1
<1>6. ~(a < c)
  <2> SUFFICES ASSUME a < c PROVE FALSE
    OBVIOUS
  <2>1. c - 1 \in a .. b /\ t[c - 1] = "&"
    BY <1>0, <1>1, <1>4
  <2> QED BY <2>1 DEF PartAt
<1>7. c = a
  BY <1>0, <1>1, <1>5, <1>6
<1> QED BY <1>0, <1>1, <1>4, <1>7

LEMMA PartIsPart ==
  ASSUME NEW t, IsField(t), NEW a, NEW b, PartAt(t, a, b), a <= b
  PROVE  <<a, b>> \in Parts(t)
<1> DEFINE p == <<a, b>>
<1>1. a \in DOMAIN t /\ b \in DOMAIN t /\ p \in (DOMAIN t) \X (DOMAIN t)
  BY FieldProperties DEF PartAt
<1>2. p[1] = a /\ p[2] = b
  OBVIOUS
<1>3. /\ a <= b /\ \A j \in a .. b : t[j] # "&"
      /\ a > 1 => t[a - 1] = "&"
      /\ b < Len(t) => t[b + 1] = "&"
  BY DEF PartAt
<1> HIDE DEF p
<1> QED BY <1>1, <1>2, <1>3 DEF Parts, p

(* The parts that end before b + 2 are those that end before a and <<a, b>>.  *)
LEMMA EndedNext ==
  ASSUME NEW t, IsField(t), NEW a, NEW b, PartAt(t, a, b)
  PROVE  Ended(t, b + 2) = IF a <= b THEN Ended(t, a) \cup {<<a, b>>} ELSE Ended(t, a)
<1>0. a \in Int /\ b \in Int /\ a - 1 <= b
  BY FieldProperties DEF PartAt
<1>1. \A p \in Ended(t, b + 2) : p \in Ended(t, a) \/ (p = <<a, b>> /\ a <= b)
  BY PartEnds DEF Ended
<1>2. \A p \in Ended(t, a) : p \in Ended(t, b + 2)
  <2> SUFFICES ASSUME NEW p \in Parts(t), p[2] < a PROVE p[2] < b + 2
    BY DEF Ended
  <2>1. p[2] \in Int
    BY PartProperties
  <2> QED BY <1>0, <2>1
<1>3. a <= b => <<a, b>> \in Ended(t, b + 2)
  <2> SUFFICES ASSUME a <= b PROVE <<a, b>> \in Ended(t, b + 2)
    OBVIOUS
  <2>1. <<a, b>> \in Parts(t) /\ <<a, b>>[2] = b /\ b < b + 2
    BY <1>0, PartIsPart
  <2> QED BY <2>1 DEF Ended
<1> QED BY <1>1, <1>2, <1>3

LEMMA EndedAll ==
  ASSUME NEW t, IsField(t)
  PROVE  Ended(t, Len(t) + 1) = Ended(t, Len(t) + 2)
<1>1. \A p \in Parts(t) : p[2] < Len(t) + 1 /\ p[2] < Len(t) + 2
  BY PartProperties, FieldProperties
<1> QED BY <1>1 DEF Ended

LastOf(t, E, q) == \A o \in E : FieldOf(t, o).key = FieldOf(t, q).key => o[1] <= q[1]

LEMMA FieldsBeforeIs ==
  ASSUME NEW t, NEW n
  PROVE  FieldsBefore(t, n) = {FieldOf(t, p) : p \in {q \in Ended(t, n) : LastOf(t, Ended(t, n), q)}}
BY DEF FieldsBefore, Ended, LastOf

(* A part that comes after those ended takes the place of an earlier one with *)
(* the same key.                                                              *)
LEMMA FieldsNext ==
  ASSUME NEW t, IsField(t), NEW a, NEW b, PartAt(t, a, b), a <= b
  PROVE  FieldsBefore(t, b + 2) =
           {f \in FieldsBefore(t, a) : f.key # FieldOf(t, <<a, b>>).key} \cup {FieldOf(t, <<a, b>>)}
<1> DEFINE p == <<a, b>>
           g == FieldOf(t, p)
           E == Ended(t, a)
           F == Ended(t, b + 2)
<1>1. a \in Int /\ p[1] = a /\ F = E \cup {p}
  <2>1. a \in Int /\ p[1] = a
    BY FieldProperties DEF PartAt
  <2>2. F = IF a <= b THEN E \cup {p} ELSE E
    BY EndedNext
  <2> HIDE DEF F, E, p
  <2> QED BY <2>1, <2>2
<1>2. \A o \in E : o[1] \in Int /\ o[1] < a
  BY <1>1, PartProperties DEF Ended
<1>3. /\ FieldsBefore(t, a) = {FieldOf(t, q) : q \in {o \in E : LastOf(t, E, o)}}
      /\ FieldsBefore(t, b + 2) = {FieldOf(t, q) : q \in {o \in F : LastOf(t, F, o)}}
  BY FieldsBeforeIs
<1>4. LastOf(t, F, p)
  BY <1>1, <1>2 DEF LastOf
<1>5. \A q \in E : LastOf(t, F, q) <=> LastOf(t, E, q) /\ FieldOf(t, q).key # g.key
  <2> SUFFICES ASSUME NEW q \in E
               PROVE  LastOf(t, F, q) <=> LastOf(t, E, q) /\ FieldOf(t, q).key # g.key
    OBVIOUS
  <2>1. q[1] \in Int /\ q[1] < a
    BY <1>2
  <2> HIDE DEF p, E, F
  <2>2. LastOf(t, F, q) <=> LastOf(t, E, q) /\ (g.key = FieldOf(t, q).key => p[1] <= q[1])
    BY <1>1 DEF LastOf
  <2> HIDE DEF g
  <2> QED BY <1>1, <2>1, <2>2
<1> DEFINE A == FieldsBefore(t, a)
           B == FieldsBefore(t, b + 2)
<1> HIDE DEF p, g, E, F
<1>6. \A f \in B : (f \in A /\ f.key # g.key) \/ f = g
  <2> SUFFICES ASSUME NEW q \in F, LastOf(t, F, q)
               PROVE  (FieldOf(t, q) \in A /\ FieldOf(t, q).key # g.key) \/ FieldOf(t, q) = g
    BY <1>3
  <2>1. q \in E \/ q = p
    BY <1>1
  <2> QED BY <1>3, <1>5, <2>1 DEF g
<1>7. \A f \in A : f.key # g.key => f \in B
  <2> SUFFICES ASSUME NEW q \in E, LastOf(t, E, q), FieldOf(t, q).key # g.key
               PROVE  FieldOf(t, q) \in B
    BY <1>3
  <2> QED BY <1>1, <1>3, <1>5
<1>8. g \in B
  BY <1>1, <1>3, <1>4 DEF g
<1> HIDE DEF A, B
<1>9. B = {f \in A : f.key # g.key} \cup {g}
  BY <1>6, <1>7, <1>8
<1> QED BY <1>9 DEF A, B, g, p

LEMMA FieldsSame ==
  ASSUME NEW t, IsField(t), NEW a, NEW b, PartAt(t, a, b), ~(a <= b)
  PROVE  FieldsBefore(t, b + 2) = FieldsBefore(t, a)
BY EndedNext, FieldsBeforeIs

LEMMA FieldsAll ==
  ASSUME NEW t, IsField(t)
  PROVE  FieldsBefore(t, Len(t) + 1) = FieldsBefore(t, Len(t) + 2)
<1>1. Ended(t, Len(t) + 1) = Ended(t, Len(t) + 2)
  BY EndedAll
<1> DEFINE k == Len(t) + 1
           l == Len(t) + 2
<1> HIDE DEF k, l
<1>2. Ended(t, k) = Ended(t, l) => FieldsBefore(t, k) = FieldsBefore(t, l)
  BY FieldsBeforeIs
<1> QED BY <1>1, <1>2 DEF k, l

LEMMA NoFields == ASSUME NEW t, IsField(t) PROVE FieldsBefore(t, 1) = {}
<1>1. \A p \in Parts(t) : ~(p[2] < 1)
  BY PartProperties
<1>2. Ended(t, 1) = {}
  BY <1>1 DEF Ended
<1> QED BY <1>2, FieldsBeforeIs

(* What a part without a '=' and one with a single '=' stand for.             *)
LEMMA FieldWithout ==
  ASSUME NEW t, NEW a, NEW b, \A j \in a .. b : t[j] # "="
  PROVE  FieldOf(t, <<a, b>>) = [key |-> Unescape(SubSeq(t, a, b)), value |-> <<>>]
<1> DEFINE p == <<a, b>>
<1>1. p[1] = a /\ p[2] = b
  OBVIOUS
<1> HIDE DEF p
<1>2. Signs(t, p) = {}
  BY <1>1 DEF Signs
<1> QED BY <1>1, <1>2 DEF FieldOf, p

LEMMA FieldWith ==
  ASSUME NEW t, NEW a \in Int, NEW b \in Int, NEW c \in a .. b, t[c] = "=", \A j \in a .. b : j # c => t[j] # "="
  PROVE  FieldOf(t, <<a, b>>) =
           [key |-> Unescape(SubSeq(t, a, c - 1)), value |-> Unescape(SubSeq(t, c + 1, b))]
<1> DEFINE p == <<a, b>>
<1>1. p[1] = a /\ p[2] = b
  OBVIOUS
<1> HIDE DEF p
<1>2. Signs(t, p) = {c}
  BY <1>1 DEF Signs
<1>3. Min({c}) = c
  BY DEF Min
<1> QED BY <1>1, <1>2, <1>3 DEF FieldOf, p

(**************************** Reading a field ********************************)
LEMMA ReadsBegin ==
  ASSUME NEW t, IsField(t), NEW d
  PROVE  Reads(t, 1, 0, d, <<>>)
<1>1. 1 \in 1 .. (Len(t) + 1) /\ 0 \in 0 .. 2 /\ 0 < 1 /\ 1 - 0 = 1 /\ 1 - 0 - 1 = 0
  BY FieldProperties
<1>2. NoneOpen(t, 1)
  BY FieldProperties DEF NoneOpen, Escapes
<1>3. UnescapeUpTo(t, 1 - 0 - 1) = <<>>
  BY <1>1, UnescapeEnds
<1>4. ~(0 > 0) /\ 0 # 2
  OBVIOUS
<1> QED BY <1>1, <1>2, <1>3, <1>4 DEF Reads

LEMMA ReadsPercent ==
  ASSUME NEW t, IsField(t), NEW n, n <= Len(t), NEW d, NEW o, Reads(t, n, 0, d, o), t[n] = "%"
  PROVE  Reads(t, n + 1, 1, d, o)
<1>1. n \in Int /\ n \in 1 .. Len(t) /\ n - 0 = n /\ n - 0 - 1 = n - 1 /\ n + 1 - 1 = n /\ n + 1 - 1 - 1 = n - 1 /\ Len(t) \in Nat
  BY FieldProperties DEF Reads
<1>2. NoneOpen(t, n) /\ o = UnescapeUpTo(t, n - 1)
  BY <1>1 DEF Reads
<1>3. n + 1 \in 1 .. (Len(t) + 1) /\ 1 < n + 1 /\ 1 \in 0 .. 2
  BY <1>1
<1>4. NoneOpen(t, n + 1 - 1) /\ o = UnescapeUpTo(t, n + 1 - 1 - 1) /\ t[n + 1 - 1] = "%"
  BY <1>1, <1>2
<1> QED BY <1>3, <1>4 DEF Reads

(* What is put out when position m, which begins no escape, is read.          *)
LEMMA PutOut ==
  ASSUME NEW t, IsField(t), NEW m \in 1 .. Len(t), NoneOpen(t, m), m \notin Escapes(t), NEW d
  PROVE  Reads(t, m + 1, 0, d, UnescapeUpTo(t, m - 1) \o <<<<IF t[m] = "+" THEN " " ELSE t[m]>>>>)
<1>1. m \in Int /\ m + 1 \in 1 .. (Len(t) + 1) /\ 0 < m + 1 /\ 0 \in 0 .. 2 /\ m + 1 - 0 = m + 1 /\ m + 1 - 0 - 1 = m
  BY FieldProperties
<1> DEFINE o == UnescapeUpTo(t, m - 1) \o <<<<IF t[m] = "+" THEN " " ELSE t[m]>>>>
<1>2. NoneOpen(t, m + 1) /\ o = UnescapeUpTo(t, m)
  BY ReadPlain
<1> HIDE DEF o
<1>3. NoneOpen(t, m + 1 - 0) /\ o = UnescapeUpTo(t, m + 1 - 0 - 1) /\ ~(0 > 0) /\ 0 # 2
  BY <1>1, <1>2
<1>4. Reads(t, m + 1, 0, d, o)
  BY <1>1, <1>3 DEF Reads
<1> QED BY <1>4 DEF o

LEMMA ReadsPlain ==
  ASSUME NEW t, IsField(t), NEW n, n <= Len(t), NEW d, NEW o, Reads(t, n, 0, d, o), t[n] # "%"
  PROVE  Reads(t, n + 1, 0, d, Append(o, <<IF t[n] = "+" THEN " " ELSE t[n]>>))
<1>1. n \in Int /\ n \in 1 .. Len(t) /\ n - 0 = n /\ n - 0 - 1 = n - 1
  BY FieldProperties DEF Reads
<1>2. NoneOpen(t, n) /\ o = UnescapeUpTo(t, n - 1)
  BY <1>1 DEF Reads
<1>3. n \notin Escapes(t)
  BY DEF Escapes
<1>4. Reads(t, n + 1, 0, d, o \o <<<<IF t[n] = "+" THEN " " ELSE t[n]>>>>)
  BY <1>1, <1>2, <1>3, PutOut
<1> DEFINE S == Seq(Character)
           x == <<IF t[n] = "+" THEN " " ELSE t[n]>>
<1>5. o \in Seq(S)
  BY <1>1, <1>2, UnescapeExtend
<1>6. x \in S
  <2>1. t[n] \in Character /\ " " \in Character
    BY <1>1, FieldProperties DEF Character
  <2> DEFINE C == Character
             c == IF t[n] = "+" THEN " " ELSE t[n]
  <2>2. c \in C
    BY <2>1
  <2> HIDE DEF C, c
  <2>3. <<c>> \in Seq(C)
    BY <2>2
  <2> QED BY <2>3 DEF C, c
<1>7. Reads(t, n + 1, 0, d, o \o <<x>>)
  BY <1>4
<1> HIDE DEF S, x
<1>8. Append(o, x) = o \o <<x>>
  BY <1>5, <1>6
<1> QED BY <1>7, <1>8 DEF x

LEMMA ReadsFirst ==
  ASSUME NEW t, IsField(t), NEW n, n <= Len(t), NEW d, NEW o, Reads(t, n, 1, d, o), t[n] \in HexDigits
  PROVE  Reads(t, n + 1, 2, t[n], o)
<1>1. /\ n \in Int /\ n \in 1 .. Len(t) /\ n - 1 - 1 = n - 2 /\ n + 1 - 2 = n - 1 /\ n + 1 - 2 - 1 = n - 2 /\ Len(t) \in Nat
      /\ 1 < n /\ n + 1 - 1 = n
  BY FieldProperties DEF Reads
<1>2. NoneOpen(t, n - 1) /\ o = UnescapeUpTo(t, n - 2) /\ t[n - 1] = "%"
  BY <1>1 DEF Reads
<1>3. n + 1 \in 1 .. (Len(t) + 1) /\ 2 < n + 1 /\ 2 \in 0 .. 2
  BY <1>1
<1>4. NoneOpen(t, n + 1 - 2) /\ o = UnescapeUpTo(t, n + 1 - 2 - 1) /\ t[n + 1 - 2] = "%" /\ t[n + 1 - 1] = t[n]
  BY <1>1, <1>2
<1> QED BY <1>3, <1>4 DEF Reads

(* A "%" that begins no escape is put out, and what follows it read again.    *)
LEMMA PercentPutOut ==
  ASSUME NEW t, IsField(t), NEW m \in 1 .. Len(t), NoneOpen(t, m), m \notin Escapes(t), t[m] = "%", NEW d
  PROVE  Reads(t, m + 1, 0, d, UnescapeUpTo(t, m - 1) \o <<<<"%">>>>)
<1>1. (IF t[m] = "+" THEN " " ELSE t[m]) = "%"
  OBVIOUS
<1> QED BY <1>1, PutOut

LEMMA ReadsFirstNot ==
  ASSUME NEW t, IsField(t), NEW n, n <= Len(t), NEW d, NEW o, Reads(t, n, 1, d, o), t[n] \notin HexDigits
  PROVE  Reads(t, n, 0, d, o \o <<<<"%">>>>)
<1> DEFINE m == n - 1
<1>1. n \in Int /\ m \in 1 .. Len(t) /\ n - 1 - 1 = m - 1 /\ m + 1 = n
  BY FieldProperties DEF Reads
<1>2. NoneOpen(t, m) /\ o = UnescapeUpTo(t, m - 1) /\ t[m] = "%"
  BY <1>1 DEF Reads
<1> HIDE DEF m
<1>3. m \notin Escapes(t)
  <2>1. m + 1 \in (m + 1) .. (m + 2) /\ m + 1 <= Len(t) /\ t[m + 1] \notin HexDigits
    BY <1>1
  <2> QED BY <2>1 DEF Escapes
<1>4. Reads(t, m + 1, 0, d, UnescapeUpTo(t, m - 1) \o <<<<"%">>>>)
  BY <1>1, <1>2, <1>3, PercentPutOut
<1> QED BY <1>1, <1>2, <1>4

LEMMA ReadsSecondNot ==
  ASSUME NEW t, IsField(t), NEW n, n <= Len(t), NEW d, NEW o, Reads(t, n, 2, d, o), t[n] \notin HexDigits
  PROVE  Reads(t, n - 1, 0, d, o \o <<<<"%">>>>)
<1> DEFINE m == n - 2
<1>1. n \in Int /\ m \in 1 .. Len(t) /\ n - 2 - 1 = m - 1 /\ m + 1 = n - 1 /\ m + 2 = n
  BY FieldProperties DEF Reads
<1>2. NoneOpen(t, m) /\ o = UnescapeUpTo(t, m - 1) /\ t[m] = "%"
  BY <1>1 DEF Reads
<1> HIDE DEF m
<1>3. m \notin Escapes(t)
  <2>1. m + 2 \in (m + 1) .. (m + 2) /\ m + 2 <= Len(t) /\ t[m + 2] \notin HexDigits
    BY <1>1
  <2> QED BY <2>1 DEF Escapes
<1>4. Reads(t, m + 1, 0, d, UnescapeUpTo(t, m - 1) \o <<<<"%">>>>)
  BY <1>1, <1>2, <1>3, PercentPutOut
<1> QED BY <1>1, <1>2, <1>4

LEMMA ReadsSecond ==
  ASSUME NEW t, IsField(t), NEW n, n <= Len(t), NEW d, NEW o, Reads(t, n, 2, d, o), t[n] \in HexDigits
  PROVE  Reads(t, n + 1, 0, d, Append(o, <<d, t[n]>>))
<1> DEFINE m == n - 2
<1>1. /\ n \in Int /\ m \in 1 .. Len(t) /\ n - 2 - 1 = m - 1 /\ m + 1 = n - 1 /\ m + 2 = n /\ n + 1 = m + 3
      /\ n + 1 \in 1 .. (Len(t) + 1) /\ 0 < n + 1 /\ 0 \in 0 .. 2 /\ n + 1 - 0 = m + 3 /\ n + 1 - 0 - 1 = m + 2
  BY FieldProperties DEF Reads
<1>2. NoneOpen(t, m) /\ o = UnescapeUpTo(t, m - 1) /\ t[m] = "%" /\ t[m + 1] \in HexDigits /\ d = t[m + 1]
  BY <1>1 DEF Reads
<1> HIDE DEF m
<1>3. m \in Escapes(t)
  <2>1. \A j \in (m + 1) .. (m + 2) : t[j] \in HexDigits
    BY <1>1, <1>2
  <2> QED BY <1>1, <1>2, <2>1, FieldProperties DEF Escapes
<1>4. /\ NoneOpen(t, m + 3) /\ UnescapeUpTo(t, m + 2) = o \o <<<<d, t[n]>>>>
      /\ o \in Seq(Seq(Character))
  BY <1>1, <1>2, <1>3, ReadEscape
<1> DEFINE S == Seq(Character)
           x == <<d, t[n]>>
<1>5. x \in S
  BY <1>2, DigitsProperties
<1>6. UnescapeUpTo(t, m + 2) = o \o <<x>> /\ o \in Seq(S)
  BY <1>4
<1> HIDE DEF S, x
<1>7. Append(o, x) = o \o <<x>>
  BY <1>5, <1>6
<1>8. Append(o, x) = UnescapeUpTo(t, n + 1 - 0 - 1) /\ NoneOpen(t, n + 1 - 0) /\ ~(0 > 0) /\ 0 # 2
  BY <1>1, <1>4, <1>6, <1>7
<1>9. Reads(t, n + 1, 0, d, Append(o, x))
  BY <1>1, <1>8 DEF Reads
<1> QED BY <1>9 DEF x

LEMMA ReadsEnd ==
  ASSUME NEW t, IsField(t), NEW e, NEW d, NEW o, Reads(t, Len(t) + 1, e, d, o)
  PROVE  o = Unescape(t)
<1> DEFINE n == Len(t) + 1
           m == n - e
<1>1. e \in 0 .. 2 /\ Len(t) \in Nat /\ m \in 1 .. n /\ o = UnescapeUpTo(t, m - 1) /\ NoneOpen(t, m)
      /\ (e > 0 => t[m] = "%") /\ (e = 2 => t[n - 1] \in HexDigits)
  BY FieldProperties DEF Reads
<1>2. CASE e = 0
  <2>1. m - 1 = Len(t)
    BY <1>1, <1>2
  <2> QED BY <1>1, <2>1, UnescapeEnds
<1>3. CASE e # 0
  <2>1. m \in 1 .. Len(t) /\ Len(t) < m + 2 /\ e > 0
    BY <1>1, <1>3
  <2>2. \A j \in (m + 1) .. (m + 2) : j <= Len(t) => t[j] \in HexDigits
    <3> SUFFICES ASSUME NEW j \in (m + 1) .. (m + 2), j <= Len(t) PROVE t[j] \in HexDigits
      OBVIOUS
    <3>1. e = 2 /\ j = n - 1
      BY <1>1, <2>1
    <3> QED BY <1>1, <3>1
  <2>3. m \in Escapes(t)
    BY <1>1, <2>1, <2>2, FieldProperties DEF Escapes
  <2> HIDE DEF m
  <2> QED BY <1>1, <2>1, <2>3, ReadOpen
<1> QED BY <1>2, <1>3

(**************************** Query strings **********************************)
(* The field as a text of its own.                                            *)
Field == SubSeq(args, start, pos - 1)

LEMMA SubField ==
  ASSUME NEW t, IsField(t), NEW a \in 1 .. (Len(t) + 1), NEW b \in (a - 1) .. Len(t)
  PROVE  /\ IsField(SubSeq(t, a, b)) /\ Len(SubSeq(t, a, b)) = b - a + 1
         /\ \A j \in 1 .. (b - a + 1) : SubSeq(t, a, b)[j] = t[a + j - 1]
<1> DEFINE T == Character
           n == Len(t)
           u == SubSeq(t, a, b)
<1>1. t \in Seq(T) /\ n \in Nat /\ a \in Int /\ b \in Int /\ 1 <= a /\ a - 1 <= b /\ b <= n
  BY FieldProperties DEF IsField
<1>2. \A j \in 1 .. n : t[j] \in T
  BY FieldProperties
<1> HIDE DEF T
<1>3. u = [j \in 1 .. (b - a + 1) |-> t[a + j - 1]]
  BY <1>1
<1>4. \A j \in 1 .. (b - a + 1) : a + j - 1 \in 1 .. n
  BY <1>1
<1>5. b - a + 1 \in Nat /\ \A j \in 1 .. (b - a + 1) : t[a + j - 1] \in T
  BY <1>1, <1>2, <1>4
<1> HIDE DEF n, u
<1>6. u \in Seq(T) /\ Len(u) = b - a + 1 /\ \A j \in 1 .. (b - a + 1) : u[j] = t[a + j - 1]
  BY <1>3, <1>5
<1> QED BY <1>6 DEF T, u, IsField

LEMMA FieldIs ==
  ASSUME FieldsInv
  PROVE  /\ IsField(args) /\ Len(args) \in Nat /\ start \in Int /\ pos \in Int
         /\ IsField(Field) /\ Len(Field) = pos - start
         /\ \A j \in 1 .. (pos - start) : Field[j] = args[start + j - 1]
<1>1. /\ IsField(args) /\ start \in 1 .. (Len(args) + 1) /\ pos \in start .. (Len(args) + 1)
  BY DEF FieldsInv, IsField
<1>2. /\ Len(args) \in Nat /\ start \in Int /\ pos \in Int /\ pos - 1 \in (start - 1) .. Len(args)
      /\ pos - 1 - start + 1 = pos - start
  BY <1>1, FieldProperties
<1>3. /\ IsField(Field) /\ Len(Field) = pos - 1 - start + 1
      /\ \A j \in 1 .. (pos - 1 - start + 1) : Field[j] = args[start + j - 1]
  BY <1>1, <1>2, SubField DEF Field
<1> QED BY <1>1, <1>2, <1>3

(* What the unescaping of a field changes leaves the fields stored alone.     *)
LEMMA StoredSame ==
  ASSUME FieldsInv, UNCHANGED <<args, start, is_value, key, fields>>, mode # "done", mode' # "done"
  PROVE  OneSignEach(args') => StoredInv'
<1> SUFFICES ASSUME OneSignEach(args) PROVE StoredInv'
  OBVIOUS
<1>1. StoredInv
  BY DEF FieldsInv
<1>2. \A a : Waits(a) <=> Waits(a)'
  BY DEF Waits, BeginsPart, NoMark
<1>3. BeginsPart(start)' <=> BeginsPart(start)
  BY DEF BeginsPart
<1> QED BY <1>1, <1>2, <1>3 DEF StoredInv

LEMMA FieldsStart == ArgsInit => FieldsInv
<1> SUFFICES ASSUME ArgsInit PROVE FieldsInv
  OBVIOUS
<1>0. /\ args \in Strings /\ mode = (IF args = <<>> THEN "done" ELSE "scan")
      /\ start = 1 /\ pos = 1 /\ is_value = FALSE /\ fields = {}
  BY DEF ArgsInit, Quiet
<1>1. IsField(args)
  <2>1. args \in Seq(STRING)
    BY <1>0, StringsAssumption
  <2>2. STRING \subseteq Character
    BY DEF Character
  <2> DEFINE A == STRING
             B == Character
  <2> HIDE DEF A, B
  <2>3. args \in Seq(A) /\ A \subseteq B => args \in Seq(B)
    OBVIOUS
  <2> QED BY <2>1, <2>2, <2>3 DEF IsField, A, B
<1>2. Len(args) \in Nat /\ 1 \in 1 .. (Len(args) + 1)
  BY <1>1, FieldProperties
<1>3. NoMark(1, 1 - 1)
  BY DEF NoMark
<1>4. FieldsBefore(args, 1) = {} /\ BeginsPart(1)
  BY <1>1, <1>2, NoFields DEF BeginsPart
<1>5. mode = "done" => Len(args) = 0
  BY <1>0
<1>6. mode = "done" => Len(args) + 1 = 1
  BY <1>5
<1>7. StoredInv
  <2>1. mode = "done" => FieldsBefore(args, Len(args) + 1) = FieldsBefore(args, 1)
    BY <1>6
  <2> QED BY <1>0, <1>4, <2>1 DEF StoredInv
<1>8. mode \in {"scan", "unescape", "store", "done"} /\ mode # "unescape" /\ mode # "store"
  BY <1>0
<1>9. args \in Seq(Character)
  BY <1>1 DEF IsField
<1> QED BY <1>0, <1>2, <1>3, <1>7, <1>8, <1>9 DEF FieldsInv

LEMMA ScanReads == FieldsInv /\ Scan => FieldsInv'
<1> SUFFICES ASSUME FieldsInv, Scan PROVE FieldsInv'
  OBVIOUS
<1>0. mode = "scan" /\ UNCHANGED <<args, start, digit, is_value, key, fields>>
  BY DEF Scan
<1>1. /\ IsField(args) /\ Len(args) \in Nat /\ start \in Int /\ pos \in Int
      /\ IsField(Field) /\ Len(Field) = pos - start
  BY FieldIs
<1>2. /\ args \in Seq(Character) /\ is_value \in BOOLEAN
      /\ start \in 1 .. (Len(args) + 1) /\ pos \in start .. (Len(args) + 1) /\ NoMark(start, pos - 1)
  BY DEF FieldsInv
<1>3. CASE Ends(pos)
  <2>1. mode' = "unescape" /\ s' = start /\ expect' = 0 /\ out' = <<>> /\ pos' = pos
    BY <1>3 DEF Scan
  <2>2. OneSignEach(args') => StoredInv'
    BY <1>0, <2>1, StoredSame
  <2>3. start - start + 1 = 1
    BY <1>1
  <2>4. Reads(Field, start - start + 1, 0, digit, <<>>)
    BY <1>1, <2>3, ReadsBegin
  <2>5. Reads(SubSeq(args', start', pos' - 1), s' - start' + 1, expect', digit', out')
    BY <1>0, <2>1, <2>4 DEF Field
  <2>6. s' \in start' .. pos' /\ Ends(pos)' /\ NoMark(start, pos - 1)'
    BY <1>0, <1>1, <1>2, <1>3, <2>1 DEF Ends, NoMark
  <2> QED BY <1>0, <1>2, <2>1, <2>2, <2>5, <2>6 DEF FieldsInv
<1>4. CASE ~Ends(pos)
  <2>1. mode' = mode /\ pos' = pos + 1
    BY <1>4 DEF Scan
  <2>2. OneSignEach(args') => StoredInv'
    BY <1>0, <2>1, StoredSame
  <2>3. pos <= Len(args) /\ args[pos] \notin {"=", "&"}
    BY <1>1, <1>4 DEF Ends
  <2>4. pos' \in start .. (Len(args) + 1) /\ pos' - 1 = pos
    BY <1>1, <1>2, <2>1, <2>3
  <2>5. NoMark(start, pos - 1)'
    <3> SUFFICES ASSUME NEW j \in start .. pos PROVE args[j] \notin {"=", "&"}
      BY <1>0, <2>4 DEF NoMark
    <3>1. j = pos \/ j \in start .. (pos - 1)
      BY <1>1
    <3> QED BY <1>2, <2>3, <3>1 DEF NoMark
  <2> QED BY <1>0, <1>2, <2>1, <2>2, <2>4, <2>5 DEF FieldsInv
<1> QED BY <1>3, <1>4

LEMMA ReaderMoves ==
  ASSUME FieldsInv, mode = "unescape", UNCHANGED <<args, mode, start, pos, is_value, key, fields>>,
         s' \in start .. pos, Reads(Field, s' - start + 1, expect', digit', out')
  PROVE  FieldsInv'
<1>1. OneSignEach(args') => StoredInv'
  BY StoredSame
<1>2. /\ args \in Seq(Character) /\ is_value \in BOOLEAN /\ Ends(pos)
      /\ start \in 1 .. (Len(args) + 1) /\ pos \in start .. (Len(args) + 1) /\ NoMark(start, pos - 1)
  BY DEF FieldsInv
<1>3. Ends(pos)' /\ NoMark(start, pos - 1)'
  BY <1>2 DEF Ends, NoMark
<1>4. Reads(SubSeq(args', start', pos' - 1), s' - start' + 1, expect', digit', out')
  BY DEF Field
<1> QED BY <1>1, <1>2, <1>3, <1>4 DEF FieldsInv

(* Where the reader is.                                                       *)
LEMMA ReaderIs ==
  ASSUME FieldsInv, Unescaping
  PROVE  /\ mode = "unescape" /\ start \in Int /\ pos \in Int /\ s \in start .. (pos - 1)
         /\ IsField(Field) /\ s - start + 1 <= Len(Field) /\ s - start + 1 > expect /\ expect \in 0 .. 2
         /\ Field[s - start + 1] = args[s]
         /\ Reads(Field, s - start + 1, expect, digit, out)
<1>1. /\ mode = "unescape" /\ s < pos
      /\ s \in start .. pos /\ Reads(SubSeq(args, start, pos - 1), s - start + 1, expect, digit, out)
  BY DEF FieldsInv, Unescaping
<1>2. /\ start \in Int /\ pos \in Int /\ IsField(Field) /\ Len(Field) = pos - start
      /\ \A j \in 1 .. (pos - start) : Field[j] = args[start + j - 1]
  BY FieldIs
<1>3. s - start + 1 \in 1 .. (pos - start) /\ start + (s - start + 1) - 1 = s /\ s \in start .. (pos - 1)
  BY <1>1, <1>2
<1>4. Reads(Field, s - start + 1, expect, digit, out)
  BY <1>1 DEF Field
<1>5. expect < s - start + 1 /\ expect \in 0 .. 2
  BY <1>4 DEF Reads
<1>6. Field[s - start + 1] = args[s]
  BY <1>2, <1>3
<1> QED BY <1>1, <1>2, <1>3, <1>4, <1>5, <1>6

LEMMA PlainReads == FieldsInv /\ Plain => FieldsInv'
<1> SUFFICES ASSUME FieldsInv, Plain PROVE FieldsInv'
  OBVIOUS
<1>0. /\ Unescaping /\ expect = 0 /\ s' = s + 1
      /\ UNCHANGED <<args, mode, start, pos, digit, is_value, key, fields>>
  BY DEF Plain
<1> DEFINE n == s - start + 1
<1>1. /\ mode = "unescape" /\ start \in Int /\ pos \in Int /\ s \in start .. (pos - 1)
      /\ IsField(Field) /\ n <= Len(Field) /\ Field[n] = args[s] /\ Reads(Field, n, 0, digit, out)
  BY <1>0, ReaderIs
<1>2. s' - start + 1 = n + 1 /\ s' \in start .. pos
  BY <1>0, <1>1
<1> HIDE DEF n
<1>3. Reads(Field, n + 1, expect', digit', out')
  <2>1. CASE args[s] = "%"
    <3>1. expect' = 1 /\ out' = out /\ digit' = digit
      BY <1>0, <2>1 DEF Plain
    <3>2. Reads(Field, n + 1, 1, digit, out)
      BY <1>1, <2>1, ReadsPercent
    <3> QED BY <3>1, <3>2
  <2>2. CASE args[s] # "%"
    <3>1. expect' = 0 /\ out' = Append(out, <<IF args[s] = "+" THEN " " ELSE args[s]>>) /\ digit' = digit
      BY <1>0, <2>2 DEF Plain
    <3>2. Reads(Field, n + 1, 0, digit, Append(out, <<IF Field[n] = "+" THEN " " ELSE Field[n]>>))
      BY <1>1, <2>2, ReadsPlain
    <3>3. Reads(Field, n + 1, 0, digit, Append(out, <<IF args[s] = "+" THEN " " ELSE args[s]>>))
      BY <1>1, <3>2
    <3> QED BY <3>1, <3>3
  <2> QED BY <2>1, <2>2
<1> QED BY <1>0, <1>1, <1>2, <1>3, ReaderMoves

LEMMA FirstDigitReads == FieldsInv /\ FirstDigit => FieldsInv'
<1> SUFFICES ASSUME FieldsInv, FirstDigit PROVE FieldsInv'
  OBVIOUS
<1>0. /\ Unescaping /\ expect = 1
      /\ UNCHANGED <<args, mode, start, pos, is_value, key, fields>>
  BY DEF FirstDigit
<1> DEFINE n == s - start + 1
<1>1. /\ mode = "unescape" /\ start \in Int /\ pos \in Int /\ s \in start .. (pos - 1)
      /\ IsField(Field) /\ n <= Len(Field) /\ Field[n] = args[s] /\ Reads(Field, n, 1, digit, out)
  BY <1>0, ReaderIs
<1>2. n = s - start + 1 /\ s + 1 - start + 1 = n + 1 /\ s + 1 \in start .. pos /\ s \in start .. pos
  BY <1>1
<1> HIDE DEF n
<1>3. CASE args[s] \in HexDigits
  <2>1. expect' = 2 /\ out' = out /\ digit' = args[s] /\ s' = s + 1
    BY <1>3 DEF FirstDigit
  <2>2. Reads(Field, n + 1, 2, Field[n], out)
    BY <1>1, <1>3, ReadsFirst
  <2>3. Reads(Field, s' - start + 1, expect', digit', out') /\ s' \in start .. pos
    BY <1>1, <1>2, <2>1, <2>2
  <2> QED BY <1>0, <1>1, <2>3, ReaderMoves
<1>4. CASE args[s] \notin HexDigits
  <2>1. expect' = 0 /\ out' = out \o <<<<"%">>>> /\ digit' = digit /\ s' = s
    BY <1>4 DEF FirstDigit, Literal
  <2>2. Reads(Field, n, 0, digit, out \o <<<<"%">>>>)
    BY <1>1, <1>4, ReadsFirstNot
  <2>3. Reads(Field, s' - start + 1, expect', digit', out') /\ s' \in start .. pos
    BY <1>2, <2>1, <2>2
  <2> QED BY <1>0, <1>1, <2>3, ReaderMoves
<1> QED BY <1>3, <1>4

LEMMA SecondDigitReads == FieldsInv /\ SecondDigit => FieldsInv'
<1> SUFFICES ASSUME FieldsInv, SecondDigit PROVE FieldsInv'
  OBVIOUS
<1>0. /\ Unescaping /\ expect = 2 /\ expect' = 0 /\ digit' = digit
      /\ UNCHANGED <<args, mode, start, pos, is_value, key, fields>>
  BY DEF SecondDigit
<1> DEFINE n == s - start + 1
<1>1. /\ mode = "unescape" /\ start \in Int /\ pos \in Int /\ s \in start .. (pos - 1)
      /\ IsField(Field) /\ n <= Len(Field) /\ n > 2 /\ Field[n] = args[s] /\ Reads(Field, n, 2, digit, out)
  BY <1>0, ReaderIs
<1>2. /\ s + 1 - start + 1 = n + 1 /\ s - 1 - start + 1 = n - 1
      /\ s + 1 \in start .. pos /\ s - 1 \in start .. pos
  BY <1>1
<1> HIDE DEF n
<1>3. CASE args[s] \in HexDigits
  <2>1. out' = Append(out, <<digit, args[s]>>) /\ s' = s + 1
    BY <1>3 DEF SecondDigit
  <2>2. Reads(Field, n + 1, 0, digit, Append(out, <<digit, Field[n]>>))
    BY <1>1, <1>3, ReadsSecond
  <2>3. Reads(Field, n + 1, 0, digit, Append(out, <<digit, args[s]>>))
    BY <1>1, <2>2
  <2>4. s' - start + 1 = n + 1 /\ s' \in start .. pos
    BY <1>1, <1>2, <2>1
  <2>5. Reads(Field, n + 1, expect', digit', out')
    BY <1>0, <2>1, <2>3
  <2> QED BY <1>0, <1>1, <2>4, <2>5, ReaderMoves
<1>4. CASE args[s] \notin HexDigits
  <2>1. out' = out \o <<<<"%">>>> /\ s' = s - 1
    BY <1>4 DEF SecondDigit, Literal, Back
  <2>2. Reads(Field, n - 1, 0, digit, out \o <<<<"%">>>>)
    BY <1>1, <1>4, ReadsSecondNot
  <2>3. Reads(Field, s' - start + 1, expect', digit', out') /\ s' \in start .. pos
    BY <1>0, <1>2, <2>1, <2>2
  <2> QED BY <1>0, <1>1, <2>3, ReaderMoves
<1> QED BY <1>3, <1>4

LEMMA UnescapedReads == FieldsInv /\ Unescaped => FieldsInv'
<1> SUFFICES ASSUME FieldsInv, Unescaped PROVE FieldsInv'
  OBVIOUS
<1>0. /\ mode = "unescape" /\ s = pos /\ mode' = "store"
      /\ UNCHANGED <<args, start, pos, s, expect, digit, out, is_value, key, fields>>
  BY DEF Unescaped
<1>1. OneSignEach(args') => StoredInv'
  BY <1>0, StoredSame
<1>2. /\ args \in Seq(Character) /\ is_value \in BOOLEAN /\ Ends(pos)
      /\ start \in 1 .. (Len(args) + 1) /\ pos \in start .. (Len(args) + 1) /\ NoMark(start, pos - 1)
      /\ Reads(Field, s - start + 1, expect, digit, out)
  BY <1>0 DEF FieldsInv, Field
<1>3. Ends(pos)' /\ NoMark(start, pos - 1)'
  BY <1>0, <1>2 DEF Ends, NoMark
<1>4. IsField(Field) /\ s - start + 1 = Len(Field) + 1
  BY <1>0, FieldIs
<1>5. out = Unescape(Field)
  BY <1>2, <1>4, ReadsEnd
<1>6. out' = Unescape(SubSeq(args', start', pos' - 1))
  BY <1>0, <1>5 DEF Field
<1> QED BY <1>0, <1>1, <1>2, <1>3, <1>6 DEF FieldsInv

(* Where the field that ends at pos leaves the table.                         *)
LEMMA StoredNext ==
  ASSUME FieldsInv, Store, ~HasValue(pos), is_value' = FALSE, fields' = FieldsBefore(args, pos + 1)
  PROVE  StoredInv'
<1>0. mode = "store" /\ args' = args
  BY DEF Store
<1>1. IsField(args) /\ Len(args) \in Nat /\ pos \in 1 .. (Len(args) + 1) /\ start \in Int /\ pos \in Int /\ Ends(pos)
  BY <1>0, FieldIs DEF FieldsInv
<1>2. CASE pos > Len(args)
  <2>1. mode' = "done"
    BY <1>2 DEF Store
  <2>2. pos + 1 = Len(args) + 2
    BY <1>1, <1>2
  <2>3. fields' = FieldsBefore(args, Len(args) + 1)
    BY <1>1, <2>2, FieldsAll
  <2> QED BY <1>0, <2>1, <2>3 DEF StoredInv
<1>3. CASE ~(pos > Len(args))
  <2>1. mode' = "scan" /\ start' = pos + 1
    BY <1>3 DEF Store
  <2>2. args[pos] = "&"
    BY <1>1, <1>3 DEF Ends, HasValue
  <2>3. BeginsPart(start)'
    <3>1. start' \in 1 .. (Len(args) + 1) /\ start' - 1 = pos
      BY <1>1, <1>3, <2>1
    <3> QED BY <1>0, <2>2, <3>1 DEF BeginsPart
  <2> QED BY <1>0, <2>1, <2>3 DEF StoredInv
<1> QED BY <1>2, <1>3

LEMMA FieldEnds ==
  ASSUME FieldsInv, mode = "store", ~HasValue(pos), NEW a \in 1 .. start, BeginsPart(a),
         \A j \in a .. (start - 1) : args[j] # "&"
  PROVE  PartAt(args, a, pos - 1)
<1>1. /\ IsField(args) /\ Len(args) \in Nat /\ pos \in start .. (Len(args) + 1) /\ start \in Int /\ pos \in Int /\ Ends(pos)
      /\ NoMark(start, pos - 1)
  BY FieldIs DEF FieldsInv
<1>2. pos - 1 \in (a - 1) .. Len(args) /\ pos - 1 + 1 = pos
  BY <1>1
<1>3. pos - 1 < Len(args) => args[pos] = "&"
  BY <1>1 DEF Ends, HasValue
<1>4. \A j \in a .. (pos - 1) : args[j] # "&"
  <2> SUFFICES ASSUME NEW j \in a .. (pos - 1) PROVE args[j] # "&"
    OBVIOUS
  <2>1. j \in a .. (start - 1) \/ j \in start .. (pos - 1)
    BY <1>1
  <2> QED BY <1>1, <2>1 DEF NoMark
<1>5. a \in 1 .. (Len(args) + 1) /\ (a > 1 => args[a - 1] = "&")
  BY DEF BeginsPart
<1> QED BY <1>2, <1>3, <1>4, <1>5 DEF PartAt

(* A value is stored with the key that waited for it.                         *)
LEMMA ValueStored ==
  ASSUME FieldsInv, Store, OneSignEach(args), is_value
  PROVE  StoredInv'
<1>0. mode = "store" /\ is_value' = FALSE /\ fields' = With(key, out) /\ args' = args
  BY DEF Store
<1>1. /\ IsField(args) /\ Len(args) \in Nat /\ start \in Int /\ pos \in start .. (Len(args) + 1) /\ pos \in Int
      /\ Ends(pos) /\ NoMark(start, pos - 1) /\ out = Unescape(Field) /\ start \in 1 .. (Len(args) + 1)
  BY <1>0, FieldIs DEF FieldsInv, Field
<1>2. PICK a \in 1 .. Len(args) : Waits(a)
  BY <1>0 DEF FieldsInv, StoredInv
<1>3. /\ BeginsPart(a) /\ a < start /\ args[start - 1] = "=" /\ a \in 1 .. start
      /\ \A j \in a .. (start - 2) : args[j] \notin {"=", "&"}
      /\ key = Unescape(SubSeq(args, a, start - 2)) /\ fields = FieldsBefore(args, a)
  BY <1>1, <1>2 DEF Waits, NoMark
<1>4. ~HasValue(pos)
  <2> SUFFICES ASSUME pos <= Len(args), args[pos] = "=" PROVE FALSE
    BY DEF HasValue
  <2>1. start - 1 \in DOMAIN args /\ pos \in DOMAIN args /\ start - 1 < pos
    BY <1>1, <1>3, FieldProperties
  <2>2. PICK k \in (start - 1) .. pos : args[k] = "&"
    BY <1>3, <2>1 DEF OneSignEach
  <2>3. k = start - 1 \/ k = pos \/ k \in start .. (pos - 1)
    BY <1>1
  <2> QED BY <1>1, <1>3, <2>2, <2>3 DEF NoMark
<1>5. PartAt(args, a, pos - 1)
  <2>1. \A j \in a .. (start - 1) : args[j] # "&"
    <3> SUFFICES ASSUME NEW j \in a .. (start - 1) PROVE args[j] # "&"
      OBVIOUS
    <3>1. j = start - 1 \/ j \in a .. (start - 2)
      BY <1>1
    <3> QED BY <1>3, <3>1
  <2> QED BY <1>0, <1>3, <1>4, <2>1, FieldEnds
<1> DEFINE b == pos - 1
           c == start - 1
           g == [key |-> key, value |-> out]
<1>6. /\ a \in Int /\ b \in Int /\ c \in a .. b /\ a <= b /\ args[c] = "=" /\ b + 2 = pos + 1
      /\ c - 1 = start - 2 /\ c + 1 = start
  BY <1>1, <1>3
<1>7. \A j \in a .. b : j # c => args[j] # "="
  <2> SUFFICES ASSUME NEW j \in a .. b, j # c PROVE args[j] # "="
    OBVIOUS
  <2>1. j \in a .. (start - 2) \/ j \in start .. (pos - 1)
    BY <1>1, <1>3
  <2> QED BY <1>1, <1>3, <2>1 DEF NoMark
<1>8. Field = SubSeq(args, start, b)
  BY DEF Field
<1>9. PartAt(args, a, b)
  BY <1>5
<1> HIDE DEF b, c, g
<1>10. FieldOf(args, <<a, b>>) = g
  <2>1. FieldOf(args, <<a, b>>) = [key |-> Unescape(SubSeq(args, a, c - 1)), value |-> Unescape(SubSeq(args, c + 1, b))]
    BY <1>6, <1>7, FieldWith
  <2> QED BY <1>1, <1>3, <1>6, <1>8, <2>1 DEF g
<1>11. FieldsBefore(args, b + 2) = {f \in FieldsBefore(args, a) : f.key # FieldOf(args, <<a, b>>).key} \cup {FieldOf(args, <<a, b>>)}
  BY <1>1, <1>6, <1>9, FieldsNext
<1>12. fields' = FieldsBefore(args, pos + 1)
  <2>1. g.key = key
    BY DEF g
  <2>2. With(key, out) = {f \in fields : f.key # key} \cup {g}
    BY DEF With, g
  <2> QED BY <1>0, <1>3, <1>6, <1>10, <1>11, <2>1, <2>2
<1> QED BY <1>0, <1>4, <1>12, StoredNext

(* A key that a value follows waits for it.                                   *)
LEMMA KeyWaits ==
  ASSUME FieldsInv, Store, OneSignEach(args), ~is_value, HasValue(pos)
  PROVE  StoredInv'
<1>0. mode = "store" /\ is_value' = TRUE /\ key' = out /\ fields' = fields /\ args' = args
  BY DEF Store
<1>1. /\ IsField(args) /\ Len(args) \in Nat /\ start \in Int /\ pos \in start .. (Len(args) + 1) /\ pos \in Int
      /\ NoMark(start, pos - 1) /\ out = Unescape(Field)
  BY <1>0, FieldIs DEF FieldsInv, Field
<1>2. pos <= Len(args) /\ args[pos] = "="
  BY DEF HasValue
<1>3. mode' = "scan" /\ start' = pos + 1
  <2>1. ~(pos > Len(args))
    BY <1>1, <1>2
  <2> QED BY <2>1 DEF Store
<1>4. BeginsPart(start) /\ fields = FieldsBefore(args, start)
  BY <1>0 DEF FieldsInv, StoredInv
<1>5. start \in 1 .. Len(args) /\ start < start' /\ start' - 2 = pos - 1 /\ start' - 1 = pos
  BY <1>1, <1>2, <1>3, <1>4 DEF BeginsPart
<1>6. SubSeq(args, start, start' - 2) = Field
  BY <1>5 DEF Field
<1>7. PICK a \in 1 .. Len(args) : a = start
  BY <1>5
<1>8. Waits(a)'
  <2>1. BeginsPart(a)' /\ a < start'
    BY <1>0, <1>4, <1>5, <1>7 DEF BeginsPart
  <2>2. NoMark(a, start - 2)'
    BY <1>0, <1>1, <1>5, <1>7 DEF NoMark
  <2>3. args'[start' - 1] = "="
    BY <1>0, <1>2, <1>5
  <2>4. key' = Unescape(SubSeq(args', a, start' - 2))
    BY <1>0, <1>1, <1>6, <1>7
  <2>5. fields' = FieldsBefore(args', a)
    BY <1>0, <1>4, <1>7
  <2> QED BY <2>1, <2>2, <2>3, <2>4, <2>5 DEF Waits
<1>9. \E x \in 1 .. Len(args') : Waits(x)'
  BY <1>0, <1>8
<1> QED BY <1>0, <1>3, <1>9 DEF StoredInv

(* A key alone is stored without a value, and nothing leaves the table alone. *)
LEMMA KeyStored ==
  ASSUME FieldsInv, Store, OneSignEach(args), ~is_value, ~HasValue(pos)
  PROVE  StoredInv'
<1>0. /\ mode = "store" /\ is_value' = is_value /\ args' = args
      /\ fields' = IF pos > start THEN With(out, <<>>) ELSE fields
  BY DEF Store
<1>1. /\ IsField(args) /\ Len(args) \in Nat /\ start \in Int /\ pos \in start .. (Len(args) + 1) /\ pos \in Int
      /\ NoMark(start, pos - 1) /\ out = Unescape(Field) /\ is_value \in BOOLEAN
  BY <1>0, FieldIs DEF FieldsInv, Field
<1>2. BeginsPart(start) /\ fields = FieldsBefore(args, start)
  BY <1>0 DEF FieldsInv, StoredInv
<1> DEFINE b == pos - 1
           e == <<>>
           g == [key |-> out, value |-> e]
<1>3. start \in 1 .. start /\ b + 2 = pos + 1 /\ (pos > start <=> start <= b)
  BY <1>1, <1>2 DEF BeginsPart
<1>4. PartAt(args, start, b)
  <2>1. \A j \in start .. (start - 1) : args[j] # "&"
    BY <1>1
  <2> QED BY <1>0, <1>2, <1>3, <2>1, FieldEnds
<1>5. \A j \in start .. b : args[j] # "="
  BY <1>1 DEF NoMark
<1>6. FieldOf(args, <<start, b>>) = g
  <2>1. FieldOf(args, <<start, b>>) = [key |-> Unescape(SubSeq(args, start, b)), value |-> <<>>]
    BY <1>5, FieldWithout
  <2> QED BY <1>1, <2>1 DEF Field
<1> HIDE DEF b, e, g
<1>7. fields' = FieldsBefore(args, b + 2)
  <2>1. CASE start <= b
    <3>1. FieldsBefore(args, b + 2) = {f \in FieldsBefore(args, start) : f.key # FieldOf(args, <<start, b>>).key} \cup {FieldOf(args, <<start, b>>)}
      BY <1>1, <1>4, <2>1, FieldsNext
    <3>2. g.key = out
      BY DEF g
    <3>3. With(out, e) = {f \in fields : f.key # out} \cup {g}
      BY DEF With, g
    <3>4. fields' = With(out, e)
      BY <1>0, <1>3, <2>1 DEF e
    <3> QED BY <1>2, <1>6, <3>1, <3>2, <3>3, <3>4
  <2>2. CASE ~(start <= b)
    <3>1. fields' = fields
      BY <1>0, <1>3, <2>2
    <3> QED BY <1>1, <1>2, <1>4, <2>2, <3>1, FieldsSame
  <2> QED BY <2>1, <2>2
<1>8. is_value' = FALSE /\ fields' = FieldsBefore(args, pos + 1)
  BY <1>0, <1>1, <1>3, <1>7
<1> QED BY <1>8, StoredNext

LEMMA StoreKeeps == FieldsInv /\ Store => FieldsInv'
<1> SUFFICES ASSUME FieldsInv, Store PROVE FieldsInv'
  OBVIOUS
<1>0. mode = "store" /\ args' = args
  BY DEF Store
<1>1. /\ args \in Seq(Character) /\ Len(args) \in Nat /\ is_value \in BOOLEAN /\ start \in Int /\ pos \in Int
      /\ start \in 1 .. (Len(args) + 1) /\ pos \in start .. (Len(args) + 1) /\ NoMark(start, pos - 1)
  BY FieldIs DEF FieldsInv
<1>2. OneSignEach(args') => StoredInv'
  <2> SUFFICES ASSUME OneSignEach(args) PROVE StoredInv'
    BY <1>0
  <2>1. CASE is_value
    BY <2>1, ValueStored
  <2>2. CASE ~is_value /\ HasValue(pos)
    BY <2>2, KeyWaits
  <2>3. CASE ~is_value /\ ~HasValue(pos)
    BY <2>3, KeyStored
  <2> QED BY <2>1, <2>2, <2>3
<1>3. is_value' \in BOOLEAN
  <2>1. CASE is_value
    BY <2>1 DEF Store
  <2>2. CASE ~is_value /\ HasValue(pos)
    BY <2>2 DEF Store
  <2>3. CASE ~is_value /\ ~HasValue(pos)
    BY <1>1, <2>3 DEF Store
  <2> QED BY <2>1, <2>2, <2>3
<1>4. CASE pos > Len(args)
  <2>1. mode' = "done" /\ start' = start /\ pos' = pos
    BY <1>4 DEF Store
  <2>2. NoMark(start, pos - 1)'
    BY <1>0, <1>1, <2>1 DEF NoMark
  <2> QED BY <1>0, <1>1, <1>2, <1>3, <2>1, <2>2 DEF FieldsInv
<1>5. CASE ~(pos > Len(args))
  <2>1. mode' = "scan" /\ start' = pos + 1 /\ pos' = pos + 1
    BY <1>5 DEF Store
  <2>2. start' \in 1 .. (Len(args) + 1) /\ pos' \in start' .. (Len(args) + 1) /\ start' .. (pos' - 1) = {}
    BY <1>1, <1>5, <2>1
  <2>3. NoMark(start, pos - 1)'
    BY <2>2 DEF NoMark
  <2> QED BY <1>0, <1>1, <1>2, <1>3, <2>1, <2>2, <2>3 DEF FieldsInv
<1> QED BY <1>4, <1>5

LEMMA ArgsStep == FieldsInv /\ [ArgsNext]_argsVars => FieldsInv'
<1> SUFFICES ASSUME FieldsInv, [ArgsNext]_argsVars PROVE FieldsInv'
  OBVIOUS
<1>1. CASE Scan
  BY <1>1, ScanReads
<1>2. CASE Plain
  BY <1>2, PlainReads
<1>3. CASE FirstDigit
  BY <1>3, FirstDigitReads
<1>4. CASE SecondDigit
  BY <1>4, SecondDigitReads
<1>5. CASE Unescaped
  BY <1>5, UnescapedReads
<1>6. CASE Store
  BY <1>6, StoreKeeps
<1>7. CASE UNCHANGED argsVars
  BY <1>7 DEF FieldsInv, StoredInv, Waits, BeginsPart, NoMark, Ends, argsVars
<1> QED BY <1>1, <1>2, <1>3, <1>4, <1>5, <1>6, <1>7 DEF ArgsNext

(* The two nested automata of lws_parseargs and lws_unescape_url come, in one *)
(* pass over a query string of any length, to the fields that its parts are,  *)
(* unescaped as wholes, the last value of each key.                           *)
THEOREM ArgsParsed == ArgsSpec => []ArgsAgree
<1>1. FieldsInv => ArgsAgree
  BY DEF FieldsInv, StoredInv, ArgsAgree
<1> QED BY <1>1, FieldsStart, ArgsStep, PTL DEF ArgsSpec

================================================================================
