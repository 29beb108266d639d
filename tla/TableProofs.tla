----------------------------- MODULE TableProofs ------------------------------
(* Theorems about Table for every set of keys, every hash function, every     *)
(* list of prime sizes and every cap.                                         *)
EXTENDS Table, ProbeTheorems, SequenceTheorems, TLAPS

(******************************* Probing *************************************)
LEMMA AllocProperties ==
  ASSUME NEW es, Typed(es)
  PROVE  /\ Alloc(es) \in Nat /\ Alloc(es) > 2 /\ DOMAIN es = 0 .. (Alloc(es) - 1)
         /\ \A d \in 2 .. (Alloc(es) - 1) : Alloc(es) % d # 0
         /\ Steps(es) = DOMAIN es
<1>1. PICK i \in DOMAIN Sizes : DOMAIN es = 0 .. (Sizes[i] - 1)
  BY DEF Typed
<1>2. /\ Sizes[i] \in Nat /\ Sizes[i] > 2
      /\ \A d \in 2 .. (Sizes[i] - 1) : Sizes[i] % d # 0
  BY SizesAssumption
<1>3. Cardinality(0 .. (Sizes[i] - 1)) = Sizes[i]
  <2>1. Sizes[i] - 1 \in Int /\ 0 \in Int /\ ~(0 > Sizes[i] - 1)
    BY <1>2
  <2>2. Cardinality(0 .. (Sizes[i] - 1)) = (Sizes[i] - 1) - 0 + 1
    BY <2>1, FS_Interval
  <2> QED BY <1>2, <2>2
<1> QED BY <1>1, <1>2, <1>3 DEF Alloc, Steps

LEMMA StepProperties ==
  ASSUME hash \in Hashes, NEW k \in Keys, NEW a \in Nat, a > 2
  PROVE  Step(k, a) \in 1 .. (a - 1) /\ hash[k] \in Nat
<1>1. hash[k] \in Nat
  BY HashAssumption
<1>2. hash[k] % (a - 2) \in 0 .. (a - 2 - 1)
  <2>1. a - 2 \in Nat \ {0}
    OBVIOUS
  <2> QED BY <1>1, <2>1, Division
<1> QED BY <1>1, <1>2 DEF Step

(* The slots on a chain: they are slots of the table, walking on from a slot  *)
(* of the chain stays on it, and the chain reaches every slot.                *)
LEMMA AlongProperties ==
  ASSUME hash \in Hashes, NEW es, Typed(es), NEW k \in Keys, NEW s \in Nat
  PROVE  /\ \A n \in Nat : Along(es, s, k, n) \in DOMAIN es
         /\ s \in DOMAIN es => Along(es, s, k, 0) = s
         /\ \A m, n \in Nat : Along(es, Along(es, s, k, m), k, n) = Along(es, s, k, m + n)
         /\ \A n \in Nat : \E m \in Steps(es) : m <= n /\ Along(es, s, k, m) = Along(es, s, k, n)
         /\ \A t \in DOMAIN es : \E n \in Steps(es) : Along(es, s, k, n) = t
<1> DEFINE a == Alloc(es)
           w == Step(k, a)
           L(n) == (s + n * w) % a
<1>a. a \in Nat \ {0} /\ a > 2 /\ DOMAIN es = 0 .. (a - 1) /\ Steps(es) = 0 .. (a - 1)
  BY AllocProperties
<1>p. \A d \in 2 .. (a - 1) : a % d # 0
  BY AllocProperties
<1>l. \A n : Along(es, s, k, n) = L(n)
  BY DEF Along
<1>ll. \A m, n : Along(es, L(m), k, n) = (L(m) + n * w) % a
  BY DEF Along
<1> HIDE DEF a
<1>w. w \in 1 .. (a - 1)
  BY <1>a, StepProperties
<1> HIDE DEF w
<1>0. \A n \in Nat : n * w \in Nat /\ s + n * w \in Nat
  BY <1>w, <1>a
<1>1. \A n \in Nat : L(n) \in 0 .. (a - 1)
  BY <1>0, <1>a, Division
<1>2. s \in DOMAIN es => L(0) = s
  <2> SUFFICES ASSUME s \in 0 .. (a - 1) PROVE L(0) = s
    BY <1>a
  <2>1. s + 0 * w = a * 0 + s
    BY <1>w, <1>a
  <2>2. (a * 0 + s) % a = s
    BY <1>a, Remainder
  <2> QED BY <2>1, <2>2
<1>3. ASSUME NEW m \in Nat, NEW n \in Nat PROVE (L(m) + n * w) % a = L(m + n)
  <2>1. s + m * w \in Nat /\ n * w \in Nat
    BY <1>0
  <2>2. (((s + m * w) % a) + n * w) % a = ((s + m * w) + n * w) % a
    BY <1>a, <2>1, RemainderAdd
  <2>3. (s + m * w) + n * w = s + (m + n) * w
    BY <1>w, <1>a
  <2> QED BY <2>2, <2>3
<1>4. ASSUME NEW n \in Nat PROVE \E m \in 0 .. (a - 1) : m <= n /\ L(m) = L(n)
  <2> DEFINE q == n \div a
             r == n % a
  <2>1. r \in 0 .. (a - 1) /\ q \in Nat /\ n = a * q + r
    BY <1>a, Division
  <2> HIDE DEF q, r
  <2>2. s + n * w = (s + r * w) + a * (q * w)
    <3>1. n * w = (a * q) * w + r * w
      BY <2>1, <1>w, <1>a
    <3>2. (a * q) * w = a * (q * w)
      BY <2>1, <1>w, <1>a
    <3> QED BY <3>1, <3>2, <2>1, <1>w, <1>a
  <2>3. s + r * w \in Nat /\ q * w \in Nat
    BY <1>0, <2>1
  <2>4. L(n) = L(r)
    <3> DEFINE x == s + r * w
               y == q * w
    <3>1. L(n) = (x + a * y) % a /\ L(r) = x % a
      BY <2>2
    <3>2. x \in Nat /\ y \in Nat
      BY <2>3
    <3> HIDE DEF x, y
    <3>3. (x + a * y) % a = x % a
      BY <3>2, <1>a, RemainderMultiple
    <3> QED BY <3>1, <3>3
  <2>5. r <= n
    <3>1. a * q \in Nat
      BY <1>a, <2>1
    <3> QED BY <2>1, <3>1
  <2> QED BY <2>1, <2>4, <2>5
<1>5. ASSUME NEW t \in 0 .. (a - 1) PROVE \E n \in 0 .. (a - 1) : L(n) = t
  <2>1. a \in Nat /\ a > 1
    BY <1>a
  <2>2. \E n \in 0 .. (a - 1) : (s + n * w) % a = t
    BY <2>1, <1>p, <1>w, PrimeCycle
  <2> QED BY <2>2
<1> HIDE DEF L
<1>6. \A m, n \in Nat : Along(es, Along(es, s, k, m), k, n) = L(m + n)
  BY <1>l, <1>ll, <1>3
<1>7. \A n \in Nat : Along(es, s, k, n) \in DOMAIN es
  BY <1>a, <1>l, <1>1
<1>8. s \in DOMAIN es => Along(es, s, k, 0) = s
  BY <1>l, <1>2
<1>9. \A m, n \in Nat : Along(es, Along(es, s, k, m), k, n) = Along(es, s, k, m + n)
  BY <1>l, <1>6
<1>10. \A n \in Nat : \E m \in Steps(es) : m <= n /\ Along(es, s, k, m) = Along(es, s, k, n)
  <2> TAKE n \in Nat
  <2>1. PICK m \in 0 .. (a - 1) : m <= n /\ L(m) = L(n)
    BY <1>4
  <2>2. m \in Steps(es) /\ Along(es, s, k, m) = Along(es, s, k, n)
    BY <1>a, <1>l, <2>1
  <2> QED BY <2>1, <2>2
<1>11. \A t \in DOMAIN es : \E n \in Steps(es) : Along(es, s, k, n) = t
  BY <1>a, <1>l, <1>5
<1> QED BY <1>7, <1>8, <1>9, <1>10, <1>11

LEMMA ChainProperties ==
  ASSUME hash \in Hashes, NEW es, Typed(es), NEW k \in Keys
  PROVE  /\ \A n \in Nat : Chain(es, k, n) \in DOMAIN es
         /\ \A m, n \in Nat : Along(es, Chain(es, k, m), k, n) = Chain(es, k, m + n)
         /\ \A n \in Nat : \E m \in Steps(es) : m <= n /\ Chain(es, k, m) = Chain(es, k, n)
<1> DEFINE home == hash[k] % Alloc(es)
<1>1. home \in Nat
  <2>1. hash[k] \in Nat
    BY HashAssumption
  <2>2. Alloc(es) \in Nat \ {0}
    BY AllocProperties
  <2>3. home \in 0 .. (Alloc(es) - 1)
    BY <2>1, <2>2, Division
  <2> QED BY <2>2, <2>3
<1>2. \A n : Chain(es, k, n) = Along(es, home, k, n)
  BY DEF Chain
<1> HIDE DEF home
<1> QED BY <1>1, <1>2, AlongProperties

(* lws_table_insert walks past set entries to a slot that is free.            *)
LEMMA FreeProperties ==
  ASSUME hash \in Hashes, NEW es, Typed(es), NEW k \in Keys, NEW s \in Nat,
         \E t \in DOMAIN es : es[t].state # "set"
  PROVE  /\ Free(es, s, k) \in Nat
         /\ es[Along(es, s, k, Free(es, s, k))].state # "set"
         /\ \A m \in 0 .. (Free(es, s, k) - 1) : es[Along(es, s, k, m)].state = "set"
<1> DEFINE F == {n \in Steps(es) : es[Along(es, s, k, n)].state # "set"}
<1>0. Steps(es) \subseteq Nat /\ \A m, n \in Nat : n \in Steps(es) /\ m < n => m \in Steps(es)
  BY AllocProperties DEF Steps
<1>1. F \in SUBSET Nat
  BY <1>0
<1>2. F # {}
  <2>1. PICK t \in DOMAIN es : es[t].state # "set"
    OBVIOUS
  <2>2. PICK n \in Steps(es) : Along(es, s, k, n) = t
    BY AlongProperties
  <2> QED BY <2>1, <2>2
<1>3. Free(es, s, k) = Min(F)
  BY DEF Free
<1>4. Min(F) \in F /\ \A n \in F : Min(F) <= n
  <2> HIDE DEF F
  <2> QED BY <1>1, <1>2, MinProperties
<1> DEFINE f == Min(F)
<1>5. f \in F /\ \A n \in F : f <= n
  BY <1>4
<1> HIDE DEF f
<1>6. f \in Nat
  BY <1>1, <1>5
<1>7. ASSUME NEW m \in 0 .. (f - 1) PROVE es[Along(es, s, k, m)].state = "set"
  <2>1. m \notin F
    <3> HIDE DEF F
    <3> QED BY <1>5, <1>6
  <2>2. m \in Steps(es)
    BY <1>0, <1>5, <1>6
  <2> QED BY <2>1, <2>2
<1> QED BY <1>3, <1>5, <1>6, <1>7 DEF f

LEMMA BestMoveProperties ==
  ASSUME NEW b \in Nat, NEW moves \in SUBSET (0 .. b), moves # {}, NEW moveLen
  PROVE  BestMove(moves, moveLen) \in moves
<1> DEFINE B == {n \in moves : \A m \in moves : m < n =>
                   Min({x \in moves : x > m}) + 1 < moveLen[m]}
<1>1. moves \in SUBSET Nat
  OBVIOUS
<1>2. Min(moves) \in moves /\ \A n \in moves : Min(moves) <= n
  BY <1>1, MinProperties
<1>3. Min(moves) \in B
  <2> DEFINE least == Min(moves)
  <2>0. least \in moves /\ \A n \in moves : least <= n
    BY <1>2
  <2> HIDE DEF least
  <2>1. \A m \in moves : ~(m < least)
    BY <1>1, <2>0
  <2>2. least \in B
    BY <2>0, <2>1
  <2> QED BY <2>2 DEF least
<1>4. B \in SUBSET Nat /\ B # {} /\ \A n \in B : n <= b
  <2>1. B \subseteq moves
    OBVIOUS
  <2> HIDE DEF B
  <2> QED BY <1>3, <2>1
<1>5. Max(B) \in B
  <2> HIDE DEF B
  <2> QED BY <1>4, MaxProperties
<1> QED BY <1>5 DEF BestMove

(* Where lws_table_insert puts a new key: on its chain, behind set entries    *)
(* only, in a slot that is free or whose entry moves to a free slot farther   *)
(* along the entry's own chain.                                               *)
Moves(es, s, t) ==
  /\ t \in DOMAIN es /\ es[s].state = "set" /\ es[t].state # "set"
  /\ \E j \in Nat : /\ t = Along(es, s, es[s].key, j)
                    /\ \A m \in 0 .. (j - 1) : es[Along(es, s, es[s].key, m)].state = "set"

LEMMA PlaceProperties ==
  ASSUME hash \in Hashes, NEW es, Typed(es), NEW k \in Keys,
         \E t \in DOMAIN es : es[t].state # "set",
         NEW p, p = Place(es, k)
  PROVE  /\ \E n \in Nat : /\ p.slot = Chain(es, k, n)
                           /\ \A m \in 0 .. (n - 1) : es[Chain(es, k, m)].state = "set"
         /\ p.slot \in DOMAIN es
         /\ \/ p.to = None /\ es[p.slot].state # "set"
            \/ p.to # None /\ Moves(es, p.slot, p.to)
<1> DEFINE home == hash[k] % Alloc(es)
           f == Free(es, home, k)
           worst == f + 1
           at(n) == Chain(es, k, n)
           moveLen == [n \in 0 .. (worst - 3) |-> Free(es, at(n), es[at(n)].key)]
           moves == {n \in DOMAIN moveLen : n + 1 + moveLen[n] < worst}
           best == BestMove(moves, moveLen)
<1>0. /\ \A n \in Nat : at(n) \in DOMAIN es
      /\ DOMAIN es \subseteq Nat
  <2>1. \A n \in Nat : at(n) \in DOMAIN es
    BY ChainProperties
  <2>2. DOMAIN es \subseteq Nat
    BY AllocProperties
  <2> QED BY <2>1, <2>2
<1>1. home \in Nat
  <2>1. hash[k] \in Nat
    BY HashAssumption
  <2>2. Alloc(es) \in Nat \ {0}
    BY AllocProperties
  <2>3. home \in 0 .. (Alloc(es) - 1)
    BY <2>1, <2>2, Division
  <2> QED BY <2>2, <2>3
<1>2. /\ f \in Nat /\ es[at(f)].state # "set"
      /\ \A m \in 0 .. (f - 1) : es[at(m)].state = "set"
  <2>1. \A n : at(n) = Along(es, home, k, n)
    BY DEF Chain
  <2> HIDE DEF home, at
  <2> QED BY <1>1, <2>1, FreeProperties
<1>3. p = IF moves = {} THEN [slot |-> at(worst - 1), to |-> None]
          ELSE [slot |-> at(best), to |-> Along(es, at(best), es[at(best)].key, moveLen[best])]
  BY DEF Place
<1> HIDE DEF f, at
<1>4. CASE moves = {}
  <2>1. p.slot = at(f) /\ p.to = None
    <3>1. worst - 1 = f
      BY <1>2
    <3> QED BY <1>3, <1>4, <3>1
  <2> QED BY <1>0, <1>2, <2>1 DEF at
<1>5. CASE moves # {}
  <2>1. p.slot = at(best) /\ p.to = Along(es, at(best), es[at(best)].key, moveLen[best])
    <3> HIDE DEF moves, moveLen, best, worst
    <3> QED BY <1>3, <1>5
  <2>2. best \in moves
    <3>1. moves \in SUBSET (0 .. f)
      BY <1>2
    <3> HIDE DEF moves, moveLen
    <3> QED BY <1>2, <1>5, <3>1, BestMoveProperties
  <2> HIDE DEF best
  <2>3. best \in 0 .. (f - 2) /\ moveLen[best] = Free(es, at(best), es[at(best)].key)
    BY <1>2, <2>2
  <2> HIDE DEF moves, moveLen
  <2>4. best \in Nat /\ best \in 0 .. (f - 1) /\ \A m \in 0 .. (best - 1) : m \in 0 .. (f - 1)
    BY <1>2, <2>3
  <2>5. es[at(best)].state = "set" /\ at(best) \in DOMAIN es /\ at(best) \in Nat
    BY <1>0, <1>2, <2>4
  <2>6. es[at(best)].key \in Keys
    BY <2>5 DEF Typed
  <2> DEFINE j == Free(es, at(best), es[at(best)].key)
             s == at(best)
             key == es[at(best)].key
  <2>7. /\ j \in Nat /\ es[Along(es, s, key, j)].state # "set"
        /\ \A m \in 0 .. (j - 1) : es[Along(es, s, key, m)].state = "set"
    BY <2>5, <2>6, FreeProperties
  <2>8. Along(es, s, key, j) \in DOMAIN es
    BY <2>5, <2>6, <2>7, AlongProperties
  <2>9. p.slot = s /\ p.to = Along(es, s, key, j)
    BY <2>1, <2>3
  <2> HIDE DEF j
  <2>10. Moves(es, p.slot, p.to)
    BY <2>5, <2>7, <2>8, <2>9 DEF Moves
  <2>11. p.to # None
    BY <1>0, <2>8, <2>9, KeyAssumption
  <2>12. \A m \in 0 .. (best - 1) : es[at(m)].state = "set"
    BY <1>2, <2>4
  <2> QED BY <2>4, <2>5, <2>9, <2>10, <2>11, <2>12 DEF at
<1> QED BY <1>4, <1>5

(* What a step that frees no chain, insertion's move included, keeps.         *)
LEMMA ReachedProperties ==
  ASSUME hash \in Hashes, NEW es, Typed(es), NEW k \in Keys
  PROVE  /\ \A n \in Nat : (\A m \in 0 .. (n - 1) : es[Chain(es, k, m)].state # "unused")
                            => Reached(es, k, Chain(es, k, n))
         /\ \A s, j : /\ Reached(es, k, s) /\ j \in Nat
                      /\ \A m \in 0 .. (j - 1) : es[Along(es, s, k, m)].state = "set"
                      => Reached(es, k, Along(es, s, k, j))
<1>0. Steps(es) \subseteq Nat
  BY AllocProperties DEF Steps
<1>1. ASSUME NEW n \in Nat, \A m \in 0 .. (n - 1) : es[Chain(es, k, m)].state # "unused"
      PROVE  Reached(es, k, Chain(es, k, n))
  <2>1. PICK h \in Steps(es) : h <= n /\ Chain(es, k, h) = Chain(es, k, n)
    BY ChainProperties
  <2>2. \A m \in 0 .. (h - 1) : m \in 0 .. (n - 1)
    BY <1>0, <2>1
  <2> QED BY <1>1, <2>1, <2>2 DEF Reached
<1>2. ASSUME NEW s, NEW j \in Nat, Reached(es, k, s),
             \A m \in 0 .. (j - 1) : es[Along(es, s, k, m)].state = "set"
      PROVE  Reached(es, k, Along(es, s, k, j))
  <2>1. PICK n \in Steps(es) : /\ Chain(es, k, n) = s
                               /\ \A m \in 0 .. (n - 1) : es[Chain(es, k, m)].state # "unused"
    BY <1>2 DEF Reached
  <2>2. n \in Nat
    BY <1>0
  <2>3. \A m \in Nat : Along(es, s, k, m) = Chain(es, k, n + m)
    BY <2>1, <2>2, ChainProperties
  <2>4. ASSUME NEW m \in 0 .. (n + j - 1) PROVE es[Chain(es, k, m)].state # "unused"
    <3>1. CASE m < n
      <4>1. m \in 0 .. (n - 1)
        BY <2>2, <3>1
      <4> QED BY <2>1, <4>1
    <3>2. CASE n <= m
      <4>1. m - n \in 0 .. (j - 1) /\ m - n \in Nat /\ n + (m - n) = m
        BY <2>2, <3>2
      <4>2. es[Along(es, s, k, m - n)].state = "set"
        BY <1>2, <4>1
      <4>3. Along(es, s, k, m - n) = Chain(es, k, m)
        BY <2>3, <4>1
      <4> QED BY <4>2, <4>3
    <3>3. m \in Int
      OBVIOUS
    <3> QED BY <2>2, <3>1, <3>2, <3>3
  <2>5. n + j \in Nat /\ Along(es, s, k, j) = Chain(es, k, n + j)
    BY <2>2, <2>3
  <2> DEFINE l == n + j
  <2>6. l \in Nat /\ \A m \in 0 .. (l - 1) : es[Chain(es, k, m)].state # "unused"
    <3>1. l \in Nat
      BY <2>5
    <3>2. \A m \in 0 .. (l - 1) : es[Chain(es, k, m)].state # "unused"
      BY <2>2, <2>4
    <3> QED BY <3>1, <3>2
  <2> HIDE DEF l
  <2>7. Reached(es, k, Chain(es, k, l))
    BY <1>1, <2>6
  <2> QED BY <2>5, <2>7 DEF l
<1> QED BY <1>1, <1>2

LEMMA ReachedStays ==
  ASSUME NEW es, NEW es2, DOMAIN es2 = DOMAIN es, NEW k, NEW s, Reached(es, k, s),
         hash \in Hashes, k \in Keys, Typed(es),
         \A t \in DOMAIN es : es[t].state # "unused" => es2[t].state # "unused"
  PROVE  Reached(es2, k, s)
<1>1. \A n : Chain(es2, k, n) = Chain(es, k, n)
  BY DEF Chain, Along, Alloc
<1>2. Steps(es2) = Steps(es)
  BY DEF Steps, Alloc
<1>3. \A n \in Nat : Chain(es, k, n) \in DOMAIN es
  BY ChainProperties
<1>4. PICK n \in Steps(es) : /\ Chain(es, k, n) = s
                             /\ \A m \in 0 .. (n - 1) : es[Chain(es, k, m)].state # "unused"
  BY DEF Reached
<1>5. \A m \in 0 .. (n - 1) : es2[Chain(es, k, m)].state # "unused"
  BY <1>3, <1>4
<1> QED BY <1>1, <1>2, <1>4, <1>5 DEF Reached

(******************************* Insertion ***********************************)
LEMMA Put ==
  ASSUME NEW D, NEW R, NEW f \in [D -> R], NEW s \in D, NEW x \in R, NEW g, g = [f EXCEPT ![s] = x]
  PROVE  /\ DOMAIN g = D /\ g \in [D -> R] /\ g[s] = x
         /\ \A t \in D : t # s => g[t] = f[t]
OBVIOUS

LEMMA StillTyped ==
  ASSUME NEW es, Typed(es), NEW es2 \in [DOMAIN es -> Entry],
         \A s \in DOMAIN es : es2[s].state = "set" => es2[s].key \in Keys
  PROVE  Typed(es2)
<1>1. DOMAIN es2 = DOMAIN es
  OBVIOUS
<1> QED BY <1>1 DEF Typed

(* Entry e, of a key not in the table yet, goes where Place says.             *)
Inserts(es, q, e, p, es2) ==
  /\ Typed(es) /\ Placed(es) /\ Queued(es, q)
  /\ \E t \in DOMAIN es : es[t].state # "set"
  /\ e \in Entry /\ e.state = "set" /\ e.key \in Keys
  /\ \A i \in DOMAIN q : es[q[i]].key # e.key
  /\ p = Place(es, e.key) /\ es2 = [MovedEntries(es, p) EXCEPT ![p.slot] = e]

(* The move tells the queue: each of its places holds the entry it held.      *)
LEMMA Insertion ==
  ASSUME hash \in Hashes, NEW es, NEW q, NEW e, NEW p, NEW es2, Inserts(es, q, e, p, es2)
  PROVE  /\ DOMAIN es2 = DOMAIN es /\ Typed(es2) /\ Placed(es2)
         /\ MovedOrder(q, p) \in Seq(DOMAIN es2) /\ Len(MovedOrder(q, p)) = Len(q)
         /\ \A i \in 1 .. Len(q) : es2[MovedOrder(q, p)[i]] = es[q[i]]
         /\ p.slot \in DOMAIN es2 /\ es2[p.slot] = e
         /\ \A s \in DOMAIN es2 :
              es2[s].state = "set" <=>
                (s = p.slot \/ \E i \in DOMAIN MovedOrder(q, p) : MovedOrder(q, p)[i] = s)
<1> DEFINE k == e.key
           q2 == MovedOrder(q, p)
           D == DOMAIN es
<1> USE DEF Inserts
<1>p. /\ \E n \in Nat : /\ p.slot = Chain(es, k, n)
                        /\ \A m \in 0 .. (n - 1) : es[Chain(es, k, m)].state = "set"
      /\ p.slot \in D
      /\ \/ p.to = None /\ es[p.slot].state # "set"
         \/ p.to # None /\ Moves(es, p.slot, p.to)
  BY PlaceProperties
<1>e. es \in [D -> Entry] /\ \A s \in D : es[s].state = "set" => es[s].key \in Keys
  BY DEF Typed
<1>q. /\ q \in Seq(D) /\ \A i \in 1 .. Len(q) : q[i] \in D /\ es[q[i]].state = "set"
      /\ \A s \in D : es[s].state = "set" => \E i \in 1 .. Len(q) : q[i] = s
      /\ DOMAIN q = 1 .. Len(q) /\ Len(q) \in Nat
  BY DEF Queued
<1>i. \A i, j \in DOMAIN q : q[i] = q[j] => i = j
  BY DEF Queued
<1>r. Reached(es, k, p.slot)
  <2>1. PICK n \in Nat : /\ p.slot = Chain(es, k, n)
                         /\ \A m \in 0 .. (n - 1) : es[Chain(es, k, m)].state = "set"
    BY <1>p
  <2>2. \A m \in 0 .. (n - 1) : es[Chain(es, k, m)].state # "unused"
    BY <2>1
  <2> QED BY <2>1, <2>2, ReachedProperties
<1>1. CASE p.to = None
  <2>1. es2 = [es EXCEPT ![p.slot] = e] /\ q2 = q
    BY <1>1 DEF MovedEntries, MovedOrder
  <2>2. es[p.slot].state # "set"
    BY <1>1, <1>p
  <2>3. /\ DOMAIN es2 = D /\ es2 \in [D -> Entry] /\ es2[p.slot] = e
        /\ \A s \in D : s # p.slot => es2[s] = es[s]
    <3> DEFINE s == p.slot
    <3>1. s \in D /\ e \in Entry /\ es \in [D -> Entry] /\ es2 = [es EXCEPT ![s] = e]
      BY <1>e, <1>p, <2>1
    <3> HIDE DEF D, s
    <3>2. /\ DOMAIN es2 = D /\ es2 \in [D -> Entry] /\ es2[s] = e
          /\ \A t \in D : t # s => es2[t] = es[t]
      BY ONLY <3>1, Put
    <3> QED BY <3>2 DEF s
  <2>4. Typed(es2)
    <3>1. \A s \in D : es2[s].state = "set" => es2[s].key \in Keys
      BY <1>e, <2>3
    <3> QED BY <2>3, <3>1, StillTyped
  <2>5. \A t \in D : es[t].state # "unused" => es2[t].state # "unused"
    BY <2>3
  <2>6. Placed(es2)
    <3> SUFFICES ASSUME NEW s \in D, es2[s].state = "set" PROVE Reached(es2, es2[s].key, s)
      BY <2>3 DEF Placed
    <3>1. CASE s = p.slot
      BY <1>r, <2>3, <2>5, <3>1, ReachedStays
    <3>2. CASE s # p.slot
      <4>1. es[s].state = "set" /\ es2[s] = es[s] /\ es[s].key \in Keys
        BY <1>e, <2>3, <3>2
      <4>2. Reached(es, es[s].key, s)
        BY <4>1 DEF Placed
      <4> QED BY <2>3, <2>5, <4>1, <4>2, ReachedStays
    <3> QED BY <3>1, <3>2
  <2>7. \A i \in 1 .. Len(q) : q2[i] # p.slot /\ es2[q2[i]] = es[q[i]]
    BY <1>q, <2>1, <2>2, <2>3
  <2>8. \A s \in D : es2[s].state = "set" <=> (s = p.slot \/ \E i \in DOMAIN q2 : q2[i] = s)
    BY <1>q, <2>1, <2>3
  <2> QED BY <1>p, <1>q, <2>1, <2>3, <2>4, <2>6, <2>7, <2>8
<1>2. CASE p.to # None
  <2>0. Moves(es, p.slot, p.to)
    BY <1>2, <1>p
  <2>m. p.to \in D /\ es[p.slot].state = "set" /\ es[p.to].state # "set" /\ p.to # p.slot
    BY <2>0 DEF Moves
  <2>1. es2 = [[es EXCEPT ![p.to] = es[p.slot]] EXCEPT ![p.slot] = e]
    BY <1>2 DEF MovedEntries
  <2>2. q2 = [i \in 1 .. Len(q) |-> IF q[i] = p.slot THEN p.to ELSE q[i]]
    BY <1>2 DEF MovedOrder, ReplaceAll
  <2>3. /\ DOMAIN es2 = D /\ es2 \in [D -> Entry] /\ es2[p.slot] = e /\ es2[p.to] = es[p.slot]
        /\ \A s \in D : s # p.slot /\ s # p.to => es2[s] = es[s]
    <3> DEFINE es1 == [es EXCEPT ![p.to] = es[p.slot]]
    <3>1. es[p.slot] \in Entry
      BY <1>e, <1>p
    <3>2. /\ es1 \in [D -> Entry] /\ es1[p.to] = es[p.slot]
          /\ \A s \in D : s # p.to => es1[s] = es[s]
      <4> HIDE DEF D
      <4> QED BY <1>e, <2>m, <3>1, Put
    <3>3. es2 = [es1 EXCEPT ![p.slot] = e]
      BY <2>1
    <3> DEFINE u == p.slot
    <3>4. u \in D /\ e \in Entry /\ es2 = [es1 EXCEPT ![u] = e]
      BY <1>p, <3>3
    <3> HIDE DEF D, es1, u
    <3>5. /\ DOMAIN es2 = D /\ es2 \in [D -> Entry] /\ es2[u] = e
          /\ \A s \in D : s # u => es2[s] = es1[s]
      BY ONLY <3>2, <3>4, Put
    <3> QED BY <2>m, <3>2, <3>5 DEF u
  <2>4. Typed(es2)
    <3>1. \A s \in D : es2[s].state = "set" => es2[s].key \in Keys
      BY <1>e, <1>p, <2>m, <2>3
    <3> QED BY <2>3, <3>1, StillTyped
  <2>5. \A t \in D : es[t].state # "unused" => es2[t].state # "unused"
    BY <2>3, <2>m
  <2>6. Placed(es2)
    <3> SUFFICES ASSUME NEW s \in D, es2[s].state = "set" PROVE Reached(es2, es2[s].key, s)
      BY <2>3 DEF Placed
    <3>1. CASE s = p.slot
      BY <1>r, <2>3, <2>5, <3>1, ReachedStays
    <3>2. CASE s = p.to
      <4> DEFINE c == es[p.slot].key
      <4>1. c \in Keys /\ Reached(es, c, p.slot) /\ es2[s].key = c
        BY <1>e, <1>p, <2>m, <2>3, <3>2 DEF Placed
      <4>2. PICK j \in Nat : /\ p.to = Along(es, p.slot, c, j)
                             /\ \A m \in 0 .. (j - 1) : es[Along(es, p.slot, c, m)].state = "set"
        BY <2>0 DEF Moves
      <4>3. Reached(es, c, p.to)
        BY <4>1, <4>2, ReachedProperties
      <4> HIDE DEF c
      <4> QED BY <2>3, <2>5, <3>2, <4>1, <4>3, ReachedStays
    <3>3. CASE s # p.slot /\ s # p.to
      <4>1. es[s].state = "set" /\ es2[s] = es[s] /\ es[s].key \in Keys
        BY <1>e, <2>3, <3>3
      <4>2. Reached(es, es[s].key, s)
        BY <4>1 DEF Placed
      <4> QED BY <2>3, <2>5, <4>1, <4>2, ReachedStays
    <3> QED BY <3>1, <3>2, <3>3
  <2>7. q2 \in Seq(D) /\ Len(q2) = Len(q)
    BY <1>q, <2>2, <2>m
  <2>8. \A i \in 1 .. Len(q) : q2[i] = IF q[i] = p.slot THEN p.to ELSE q[i]
    BY <2>2
  <2>9. \A i \in 1 .. Len(q) : q2[i] # p.slot /\ es2[q2[i]] = es[q[i]]
    BY <1>q, <2>m, <2>3, <2>8
  <2>10. \A s \in D : es2[s].state = "set" <=> (s = p.slot \/ \E i \in DOMAIN q2 : q2[i] = s)
    <3> SUFFICES ASSUME NEW s \in D
                 PROVE  es2[s].state = "set" <=> (s = p.slot \/ \E i \in 1 .. Len(q) : q2[i] = s)
      BY <2>2
    <3>1. CASE s = p.slot
      BY <2>3, <3>1
    <3>2. CASE s = p.to
      <4>1. es2[s].state = "set"
        BY <2>3, <2>m, <3>2
      <4>2. PICK i \in 1 .. Len(q) : q[i] = p.slot
        BY <1>p, <1>q, <2>m
      <4> QED BY <2>8, <3>2, <4>1, <4>2
    <3>3. CASE s # p.slot /\ s # p.to
      <4>1. es2[s].state = "set" <=> es[s].state = "set"
        BY <2>3, <3>3
      <4>2. \A i \in 1 .. Len(q) : q2[i] = s <=> q[i] = s
        BY <2>8, <3>3
      <4> QED BY <1>q, <3>3, <4>1, <4>2
    <3> QED BY <3>1, <3>2, <3>3
  <2> QED BY <1>p, <2>3, <2>4, <2>6, <2>7, <2>9, <2>10
<1> QED BY <1>1, <1>2

(* Wherever the queue takes the new entry, at the place x, the others stay.   *)
Behind(x, i) == IF i < x THEN i ELSE i + 1

LEMMA BehindProperties ==
  ASSUME NEW n \in Nat, NEW x \in 1 .. (n + 1)
  PROVE  /\ \A i \in 1 .. n : Behind(x, i) \in 1 .. (n + 1) /\ Behind(x, i) # x
         /\ \A y \in 1 .. (n + 1) : y = x \/ \E i \in 1 .. n : y = Behind(x, i)
<1>1. \A i \in 1 .. n : Behind(x, i) \in 1 .. (n + 1) /\ Behind(x, i) # x
  BY DEF Behind
<1>2. ASSUME NEW y \in 1 .. (n + 1), y # x PROVE \E i \in 1 .. n : y = Behind(x, i)
  <2>1. CASE y < x
    <3>1. y \in 1 .. n /\ y = Behind(x, y)
      BY <2>1 DEF Behind
    <3> QED BY <3>1
  <2>2. CASE x < y
    <3>1. y - 1 \in 1 .. n /\ y = Behind(x, y - 1)
      BY <2>2 DEF Behind
    <3> QED BY <3>1
  <2> QED BY <1>2, <2>1, <2>2
<1> QED BY <1>1, <1>2

Grows(es, q, e, es2, r, s, x, q2) ==
  /\ Queued(es, q) /\ \A i \in DOMAIN q : es[q[i]].key # e.key
  /\ r \in Seq(DOMAIN es2) /\ Len(r) = Len(q) /\ s \in DOMAIN es2 /\ es2[s] = e
  /\ \A i \in 1 .. Len(q) : es2[r[i]] = es[q[i]]
  /\ \A t \in DOMAIN es2 : es2[t].state = "set" <=> (t = s \/ \E i \in DOMAIN r : r[i] = t)
  /\ q2 \in Seq(DOMAIN es2) /\ Len(q2) = Len(q) + 1
  /\ x \in 1 .. (Len(q) + 1) /\ q2[x] = s /\ \A i \in 1 .. Len(q) : q2[Behind(x, i)] = r[i]

LEMMA QueueGrows ==
  ASSUME NEW es, NEW q, NEW e, NEW es2, NEW r, NEW s, NEW x, NEW q2,
         Grows(es, q, e, es2, r, s, x, q2)
  PROVE  /\ Queued(es2, q2) /\ es2[q2[x]] = e
         /\ \A i \in 1 .. Len(q) : es2[q2[Behind(x, i)]] = es[q[i]]
<1> DEFINE n == Len(q)
           m == n + 1
           at(i) == Behind(x, i)
<1> USE DEF Grows
<1>0. q \in Seq(DOMAIN es) /\ r \in Seq(DOMAIN es2) /\ q2 \in Seq(DOMAIN es2)
  BY DEF Queued
<1>1. /\ n \in Nat /\ DOMAIN q = 1 .. n /\ DOMAIN r = 1 .. n /\ DOMAIN q2 = 1 .. m
      /\ x \in 1 .. m
  BY <1>0
<1>k. /\ \A i, j \in 1 .. n : es[q[i]].key = es[q[j]].key => i = j
      /\ \A i \in 1 .. n : es[q[i]].key # e.key
  BY <1>1 DEF Queued
<1>2. /\ \A i \in 1 .. n : at(i) \in 1 .. m /\ at(i) # x
      /\ \A y \in 1 .. m : y = x \/ \E i \in 1 .. n : y = at(i)
  BY <1>1, BehindProperties
<1>3. /\ es2[q2[x]] = e
      /\ \A i \in 1 .. n : q2[at(i)] = r[i] /\ es2[q2[at(i)]] = es[q[i]]
  OBVIOUS
<1>r. \A t \in DOMAIN es2 : es2[t].state = "set" <=> (t = s \/ \E i \in 1 .. n : r[i] = t)
  BY <1>1
<1>s. q2[x] = s
  OBVIOUS
<1> HIDE DEF n, m, at, Grows
<1>4. ASSUME NEW i \in 1 .. m, NEW j \in 1 .. m, es2[q2[i]].key = es2[q2[j]].key PROVE i = j
  <2>1. CASE i = x /\ j # x
    <3>1. PICK v \in 1 .. n : j = at(v)
      BY <1>2, <2>1
    <3>2. es2[q2[i]].key = e.key /\ es2[q2[j]].key = es[q[v]].key
      BY <1>3, <2>1, <3>1
    <3> QED BY <1>k, <1>4, <3>2
  <2>2. CASE i # x /\ j = x
    <3>1. PICK v \in 1 .. n : i = at(v)
      BY <1>2, <2>2
    <3>2. es2[q2[j]].key = e.key /\ es2[q2[i]].key = es[q[v]].key
      BY <1>3, <2>2, <3>1
    <3> QED BY <1>k, <1>4, <3>2
  <2>3. CASE i # x /\ j # x
    <3>1. PICK u \in 1 .. n : i = at(u)
      BY <1>2, <2>3
    <3>2. PICK v \in 1 .. n : j = at(v)
      BY <1>2, <2>3
    <3>3. es2[q2[i]].key = es[q[u]].key /\ es2[q2[j]].key = es[q[v]].key
      BY <1>3, <3>1, <3>2
    <3>4. u = v
      BY <1>k, <1>4, <3>3
    <3> QED BY <3>1, <3>2, <3>4
  <2> QED BY <2>1, <2>2, <2>3
<1>5. ASSUME NEW t \in DOMAIN es2
      PROVE  (t = s \/ \E i \in 1 .. n : r[i] = t) <=> \E i \in 1 .. m : q2[i] = t
  <2>1. ASSUME NEW i \in 1 .. n, r[i] = t PROVE \E y \in 1 .. m : q2[y] = t
    BY ONLY <1>2, <1>3, <2>1
  <2>2. ASSUME NEW y \in 1 .. m, q2[y] = t PROVE t = s \/ \E i \in 1 .. n : r[i] = t
    BY ONLY <1>2, <1>3, <1>s, <2>2
  <2>3. q2[x] = s /\ x \in 1 .. m
    BY <1>1, <1>s
  <2> QED BY <2>1, <2>2, <2>3
<1>6. \A t \in DOMAIN es2 : es2[t].state = "set" <=> \E i \in 1 .. m : q2[i] = t
  BY <1>r, <1>5
<1>7. Queued(es2, q2)
  BY <1>0, <1>1, <1>4, <1>6 DEF Queued
<1>8. \A i \in 1 .. n : es2[q2[at(i)]] = es[q[i]]
  BY <1>3
<1> QED BY <1>3, <1>7, <1>8 DEF n, at

InsertsLast(es, q, e, p, es2, q2) ==
  Inserts(es, q, e, p, es2) /\ q2 = Append(MovedOrder(q, p), p.slot)

LEMMA AddedLast ==
  ASSUME hash \in Hashes, NEW es, NEW q, NEW e, NEW p, NEW es2, NEW q2,
         InsertsLast(es, q, e, p, es2, q2)
  PROVE  /\ DOMAIN es2 = DOMAIN es /\ Typed(es2) /\ Placed(es2) /\ Queued(es2, q2)
         /\ Len(q2) = Len(q) + 1 /\ es2[q2[Len(q) + 1]] = e
         /\ \A i \in 1 .. Len(q) : es2[q2[i]] = es[q[i]]
<1> DEFINE r == MovedOrder(q, p)
           s == p.slot
           n == Len(q)
           x == n + 1
<1>1. /\ DOMAIN es2 = DOMAIN es /\ Typed(es2) /\ Placed(es2)
      /\ r \in Seq(DOMAIN es2) /\ Len(r) = n
      /\ \A i \in 1 .. n : es2[r[i]] = es[q[i]]
      /\ s \in DOMAIN es2 /\ es2[s] = e
      /\ \A t \in DOMAIN es2 : es2[t].state = "set" <=> (t = s \/ \E i \in DOMAIN r : r[i] = t)
  BY Insertion DEF InsertsLast
<1>2. /\ q2 = Append(r, s) /\ n \in Nat /\ Queued(es, q)
      /\ \A i \in DOMAIN q : es[q[i]].key # e.key
  BY DEF InsertsLast, Inserts, Queued
<1> HIDE DEF r, s
<1>3. /\ q2 \in Seq(DOMAIN es2) /\ Len(q2) = n + 1 /\ q2[x] = s
      /\ \A i \in 1 .. n : q2[Behind(x, i)] = r[i]
  <2>1. /\ q2 \in Seq(DOMAIN es2) /\ Len(q2) = n + 1
        /\ \A i \in 1 .. n : q2[i] = r[i]
        /\ q2[n + 1] = s
    BY ONLY <1>1, <1>2, AppendProperties
  <2>2. \A i \in 1 .. n : Behind(x, i) = i
    BY <1>2 DEF Behind
  <2> QED BY <2>1, <2>2
<1>4. x \in 1 .. (n + 1)
  BY <1>2
<1>5. /\ Queued(es2, q2) /\ es2[q2[x]] = e
      /\ \A i \in 1 .. n : es2[q2[Behind(x, i)]] = es[q[i]]
  <2> HIDE DEF x
  <2>1. Grows(es, q, e, es2, r, s, x, q2)
    BY <1>1, <1>2, <1>3, <1>4 DEF Grows
  <2>2. /\ Queued(es2, q2) /\ es2[q2[x]] = e
        /\ \A i \in 1 .. Len(q) : es2[q2[Behind(x, i)]] = es[q[i]]
    BY ONLY <2>1, QueueGrows
  <2> QED BY <2>2
<1>6. \A i \in 1 .. n : Behind(x, i) = i
  BY <1>2 DEF Behind
<1> QED BY <1>1, <1>3, <1>5, <1>6

InsertsFirst(es, q, e, p, es2, q2) ==
  Inserts(es, q, e, p, es2) /\ q2 = <<p.slot>> \o MovedOrder(q, p)

LEMMA AddedFirst ==
  ASSUME hash \in Hashes, NEW es, NEW q, NEW e, NEW p, NEW es2, NEW q2,
         InsertsFirst(es, q, e, p, es2, q2)
  PROVE  /\ DOMAIN es2 = DOMAIN es /\ Typed(es2) /\ Placed(es2) /\ Queued(es2, q2)
         /\ Len(q2) = Len(q) + 1 /\ es2[q2[1]] = e
         /\ \A i \in 1 .. Len(q) : es2[q2[i + 1]] = es[q[i]]
<1> DEFINE r == MovedOrder(q, p)
           s == p.slot
           n == Len(q)
           x == 1
<1>1. /\ DOMAIN es2 = DOMAIN es /\ Typed(es2) /\ Placed(es2)
      /\ r \in Seq(DOMAIN es2) /\ Len(r) = n
      /\ \A i \in 1 .. n : es2[r[i]] = es[q[i]]
      /\ s \in DOMAIN es2 /\ es2[s] = e
      /\ \A t \in DOMAIN es2 : es2[t].state = "set" <=> (t = s \/ \E i \in DOMAIN r : r[i] = t)
  BY Insertion DEF InsertsFirst
<1>2. /\ q2 = <<s>> \o r /\ n \in Nat /\ Queued(es, q)
      /\ \A i \in DOMAIN q : es[q[i]].key # e.key
  BY DEF InsertsFirst, Inserts, Queued
<1> HIDE DEF r, s
<1>3. /\ q2 \in Seq(DOMAIN es2) /\ Len(q2) = n + 1 /\ q2[x] = s
      /\ \A i \in 1 .. n : q2[Behind(x, i)] = r[i]
  <2>1. <<s>> \in Seq(DOMAIN es2) /\ Len(<<s>>) = 1 /\ <<s>>[1] = s
    BY ONLY <1>1
  <2>2. /\ q2 \in Seq(DOMAIN es2) /\ Len(q2) = 1 + n
        /\ \A i \in 1 .. (1 + n) : q2[i] = IF i <= 1 THEN <<s>>[i] ELSE r[i - 1]
    BY ONLY <1>1, <1>2, <2>1, ConcatProperties
  <2>3. \A i \in 1 .. n : Behind(x, i) = i + 1 /\ q2[i + 1] = r[i]
    BY ONLY <1>2, <2>2 DEF Behind
  <2>4. q2[1] = s /\ 1 + n = n + 1
    BY ONLY <1>2, <2>1, <2>2
  <2> QED BY <2>2, <2>3, <2>4
<1>4. x \in 1 .. (n + 1)
  BY <1>2
<1>5. /\ Queued(es2, q2) /\ es2[q2[x]] = e
      /\ \A i \in 1 .. n : es2[q2[Behind(x, i)]] = es[q[i]]
  <2> HIDE DEF x
  <2>1. Grows(es, q, e, es2, r, s, x, q2)
    BY <1>1, <1>2, <1>3, <1>4 DEF Grows
  <2>2. /\ Queued(es2, q2) /\ es2[q2[x]] = e
        /\ \A i \in 1 .. Len(q) : es2[q2[Behind(x, i)]] = es[q[i]]
    BY ONLY <2>1, QueueGrows
  <2> QED BY <2>2
<1>6. \A i \in 1 .. n : Behind(x, i) = i + 1
  BY <1>2 DEF Behind
<1> QED BY <1>1, <1>3, <1>5, <1>6

(* A step that only overwrites values, keys of free slots, or makes           *)
(* tombstones of set entries cuts no chain.                                   *)
LEMMA PlacedStays ==
  ASSUME hash \in Hashes, NEW es, Typed(es), Placed(es), NEW es2 \in [DOMAIN es -> Entry],
         \A s \in DOMAIN es :
           /\ es[s].state # "unused" => es2[s].state # "unused"
           /\ es2[s].state = "set" => es[s].state = "set" /\ es2[s].key = es[s].key
  PROVE  Typed(es2) /\ Placed(es2)
<1>1. DOMAIN es2 = DOMAIN es
  OBVIOUS
<1>2. \A s \in DOMAIN es : es[s].state = "set" => es[s].key \in Keys /\ Reached(es, es[s].key, s)
  BY DEF Typed, Placed
<1>3. Typed(es2)
  <2>1. \A s \in DOMAIN es : es2[s].state = "set" => es2[s].key \in Keys
    BY <1>2
  <2> QED BY <2>1, StillTyped
<1>4. ASSUME NEW s \in DOMAIN es, es2[s].state = "set" PROVE Reached(es2, es2[s].key, s)
  <2>1. es[s].key \in Keys /\ Reached(es, es[s].key, s) /\ es2[s].key = es[s].key
    BY <1>2, <1>4
  <2>2. \A t \in DOMAIN es : es[t].state # "unused" => es2[t].state # "unused"
    OBVIOUS
  <2> QED BY <1>1, <2>1, <2>2, ReachedStays
<1> QED BY <1>1, <1>3, <1>4 DEF Placed

(* The queue's length is the number of the set entries; there is a key for    *)
(* each of them; and as long as it is smaller than the table, a slot is free. *)
LEMMA QueueCount ==
  ASSUME NEW es, NEW q, Typed(es), Queued(es, q)
  PROVE  /\ Len(q) \in Nat /\ Cardinality({s \in DOMAIN es : es[s].state = "set"}) = Len(q)
         /\ Len(q) <= Cardinality(Keys)
         /\ Len(q) < Alloc(es) => \E t \in DOMAIN es : es[t].state # "set"
<1> DEFINE n == Len(q)
           S == {s \in DOMAIN es : es[s].state = "set"}
<1>1. /\ n \in Nat /\ DOMAIN q = 1 .. n /\ \A i \in 1 .. n : q[i] \in S
      /\ q \in [1 .. n -> S]
  BY DEF Queued
<1>2. \A i, j \in 1 .. n : q[i] = q[j] => i = j
  BY <1>1 DEF Queued
<1>3. \A s \in S : \E i \in 1 .. n : q[i] = s
  BY <1>1 DEF Queued
<1>4. Cardinality(S) = n
  <2> HIDE DEF S, n
  <2>1. q \in Bijection(1 .. n, S)
    BY <1>1, <1>2, <1>3 DEF Bijection, Injection, Surjection, IsInjective
  <2> QED BY <1>1, <2>1, FS_CountingElements DEF ExistsBijection
<1>5. IsFiniteSet(1 .. n) /\ Cardinality(1 .. n) = n
  <2>1. 1 \in Int /\ n \in Int /\ (1 > n <=> n = 0) /\ n - 1 + 1 = n
    BY <1>1
  <2> HIDE DEF n
  <2> QED BY <2>1, FS_Interval
<1>6. n <= Cardinality(Keys)
  <2> DEFINE f == [i \in 1 .. n |-> es[q[i]].key]
  <2>1. \A i \in 1 .. n : es[q[i]].key \in Keys
    BY <1>1 DEF Typed
  <2>2. \A i, j \in 1 .. n : es[q[i]].key = es[q[j]].key => i = j
    BY <1>1 DEF Queued
  <2>3. f \in [1 .. n -> Keys]
    BY <2>1
  <2>4. \A i, j \in 1 .. n : f[i] = f[j] => i = j
    BY <2>2
  <2> HIDE DEF f, n
  <2>5. f \in Injection(1 .. n, Keys)
    BY <2>3, <2>4 DEF Injection, IsInjective
  <2> QED BY <1>5, <2>5, KeyAssumption, FS_Injection
<1>7. n < Alloc(es) => \E t \in DOMAIN es : es[t].state # "set"
  <2>1. (\A t \in DOMAIN es : es[t].state = "set") => S = DOMAIN es
    OBVIOUS
  <2>2. Alloc(es) \in Nat
    BY AllocProperties
  <2>3. S = DOMAIN es => n = Alloc(es)
    BY <1>4 DEF Alloc
  <2> HIDE DEF S, n
  <2> QED BY <1>1, <2>1, <2>2, <2>3
<1> QED BY <1>1, <1>4, <1>6, <1>7

LEMMA LoadProperties ==
  ASSUME NEW a \in Nat, a > 2
  PROVE  /\ Load(a) \in Nat /\ Load(a) < a /\ 0 < Load(a)
         /\ \A b \in Nat : a < b /\ a % 2 # 0 /\ b % 2 # 0 => Load(a) < Load(b)
<1> DEFINE x == a \div 2
           y == a \div 4
           z == a \div 8
<1>1. x \in Nat /\ y \in Nat /\ z \in Nat /\ a = 2 * x + (a % 2) /\ a % 2 \in 0 .. 1
  OBVIOUS
<1>2. 4 * y <= a /\ a < 4 * y + 4 /\ 8 * z <= a /\ a < 8 * z + 8
  OBVIOUS
<1>3. Load(a) = x + y + z /\ x > 0
  BY DEF Load
<1>4. x + y + z < a
  <2> HIDE DEF x, y, z
  <2> QED BY <1>1, <1>2, <1>3
<1>5. ASSUME NEW b \in Nat, a < b, a % 2 # 0, b % 2 # 0 PROVE Load(a) < Load(b)
  <2> DEFINE u == b \div 2
             v == b \div 4
             w == b \div 8
  <2>1. /\ u \in Nat /\ v \in Nat /\ w \in Nat /\ b = 2 * u + 1 /\ a = 2 * x + 1
        /\ b < 4 * v + 4 /\ b < 8 * w + 8
    BY <1>5
  <2>2. Load(b) = u + v + w
    BY DEF Load
  <2> HIDE DEF x, y, z, u, v, w
  <2>3. x < u /\ y <= v /\ z <= w
    BY <1>1, <1>2, <1>5, <2>1
  <2> QED BY <1>1, <1>3, <2>1, <2>2, <2>3
<1> HIDE DEF x, y, z
<1> QED BY <1>1, <1>3, <1>4, <1>5

(******************************** Lookup *************************************)
(* As the key of a removed entry never matches, lws_table_find gets to the    *)
(* entry of the queue with the key, and to nothing else.                      *)
LEMMA FindProperties ==
  ASSUME ~FreedKeyIntact, hash \in Hashes, NEW k \in Keys,
         Typed(entries), Placed(entries), Queued(entries, order)
  PROVE  /\ \A i \in DOMAIN order : entries[order[i]].key = k => Find(k) = order[i]
         /\ Find(k) # None => \E i \in DOMAIN order : order[i] = Find(k) /\ entries[order[i]].key = k
<1> DEFINE at(n) == Chain(entries, k, n)
           set(s) == s \in DOMAIN entries /\ entries[s].state = "set" /\ entries[s].key = k
           hits == {n \in Steps(entries) :
                      /\ Matches(entries[at(n)], k)
                      /\ \A m \in 0 .. n : entries[at(m)].state # "unused"}
<1>1. Steps(entries) \subseteq Nat
  BY AllocProperties DEF Steps
<1>2. \A n \in Steps(entries) : at(n) \in DOMAIN entries
  BY <1>1, ChainProperties
<1>3. Find(k) = IF hits = {} THEN None ELSE at(Min(hits))
  BY DEF Find
<1>4. \A n \in hits : set(at(n)) /\ n \in Nat
  BY <1>1, <1>2 DEF Matches
<1>5. \A s : set(s) => \E n \in hits : at(n) = s
  <2> SUFFICES ASSUME NEW s, set(s) PROVE \E n \in hits : at(n) = s
    OBVIOUS
  <2>1. PICK n \in Steps(entries) :
          at(n) = s /\ \A m \in 0 .. (n - 1) : entries[at(m)].state # "unused"
    BY DEF Placed, Reached
  <2>2. \A m \in 0 .. n : m \in 0 .. (n - 1) \/ m = n
    BY <1>1
  <2>3. \A m \in 0 .. n : entries[at(m)].state # "unused"
    BY <2>1, <2>2
  <2>4. n \in hits
    BY <2>1, <2>3 DEF Matches
  <2> QED BY <2>1, <2>4
<1>6. \A s : set(s) => \E i \in DOMAIN order : order[i] = s
  BY DEF Queued
<1>7. \A i \in DOMAIN order : order[i] \in DOMAIN entries /\ entries[order[i]].state = "set"
  BY DEF Queued
<1>8. \A i, j \in DOMAIN order : entries[order[i]].key = entries[order[j]].key => i = j
  BY DEF Queued
<1>9. hits # {} => set(Find(k))
  <2> SUFFICES ASSUME hits # {} PROVE set(Find(k))
    OBVIOUS
  <2>1. hits \in SUBSET Nat
    BY <1>4
  <2>2. Min(hits) \in hits
    <3> HIDE DEF hits
    <3> QED BY <2>1, MinProperties
  <2>3. Find(k) = at(Min(hits))
    BY <1>3
  <2> HIDE DEF hits
  <2> QED BY <1>4, <2>2, <2>3
<1>10. ASSUME NEW i \in DOMAIN order, entries[order[i]].key = k PROVE Find(k) = order[i]
  <2>1. set(order[i])
    BY <1>7, <1>10
  <2>2. hits # {}
    <3> HIDE DEF hits, set
    <3> QED BY <1>5, <2>1
  <2>3. set(Find(k))
    BY <1>9, <2>2
  <2>4. PICK j \in DOMAIN order : order[j] = Find(k)
    <3> HIDE DEF set
    <3> QED BY <1>6, <2>3
  <2>5. i = j
    BY <1>8, <1>10, <2>3, <2>4
  <2> QED BY <2>4, <2>5
<1>11. ASSUME Find(k) # None
       PROVE  \E i \in DOMAIN order : order[i] = Find(k) /\ entries[order[i]].key = k
  <2>1. hits # {}
    <3> HIDE DEF hits
    <3> QED BY <1>3, <1>11
  <2>2. set(Find(k))
    BY <1>9, <2>1
  <2>3. PICK i \in DOMAIN order : order[i] = Find(k)
    <3> HIDE DEF set
    <3> QED BY <1>6, <2>2
  <2> QED BY <2>2, <2>3
<1> QED BY <1>10, <1>11

LEMMA OnlyIndex ==
  ASSUME NEW I, NEW i \in Nat, I = {i}
  PROVE  (IF I # {} THEN Min(I) ELSE 0) = i
<1>1. I \in SUBSET Nat /\ I # {}
  OBVIOUS
<1>2. Min(I) \in I
  BY <1>1, MinProperties
<1> QED BY <1>1, <1>2

(********************************* Removal ***********************************)
LEMMA EvictProperties ==
  ASSUME hash \in Hashes, NEW es, NEW q, Typed(es), Placed(es), Queued(es, q), q # <<>>,
         NEW es2, es2 = Removed(es, Head(q))
  PROVE  /\ DOMAIN es2 = DOMAIN es /\ Typed(es2) /\ Placed(es2) /\ Queued(es2, Tail(q))
         /\ Len(Tail(q)) = Len(q) - 1
         /\ \A i \in 1 .. (Len(q) - 1) : es2[Tail(q)[i]] = es[q[i + 1]]
<1> DEFINE n == Len(q)
           s == q[1]
           r == Tail(q)
           e == [es[s] EXCEPT !.state = "deleted"]
<1>1. /\ q \in Seq(DOMAIN es) /\ n \in Nat \ {0} /\ DOMAIN q = 1 .. n /\ 1 \in 1 .. n
      /\ Head(q) = s
  BY DEF Queued
<1>2. s \in DOMAIN es /\ es[s] \in Entry /\ es \in [DOMAIN es -> Entry]
  <2>1. s \in DOMAIN es
    BY <1>1
  <2>2. es \in [DOMAIN es -> Entry]
    BY DEF Typed
  <2> QED BY <2>1, <2>2
<1>3. e \in Entry /\ e.state = "deleted" /\ es2 = [es EXCEPT ![s] = e]
  BY <1>1, <1>2 DEF Entry, Removed
<1>k. /\ \A i, j \in 1 .. n : es[q[i]].key = es[q[j]].key => i = j
      /\ \A t \in DOMAIN es : es[t].state = "set" <=> \E i \in 1 .. n : q[i] = t
  BY <1>1 DEF Queued
<1> HIDE DEF e
<1>4. /\ DOMAIN es2 = DOMAIN es /\ es2 \in [DOMAIN es -> Entry] /\ es2[s] = e
      /\ \A t \in DOMAIN es : t # s => es2[t] = es[t]
  <2> HIDE DEF s
  <2> QED BY ONLY <1>2, <1>3, Put
<1>5. Typed(es2) /\ Placed(es2)
  <2>1. \A t \in DOMAIN es :
          /\ es[t].state # "unused" => es2[t].state # "unused"
          /\ es2[t].state = "set" => es[t].state = "set" /\ es2[t].key = es[t].key
    BY <1>3, <1>4
  <2> QED BY <1>4, <2>1, PlacedStays
<1>6. /\ r \in Seq(DOMAIN es) /\ Len(r) = n - 1 /\ DOMAIN r = 1 .. (n - 1)
      /\ \A i \in 1 .. (n - 1) : r[i] = q[i + 1]
  BY <1>1, HeadTailProperties
<1>7. \A i \in 1 .. (n - 1) : i + 1 \in 1 .. n /\ i + 1 # 1
  BY <1>1
<1>i. \A i \in 1 .. n : q[i] \in DOMAIN es /\ (q[i] = s => i = 1)
  BY <1>1, <1>k
<1> HIDE DEF n, s, r
<1>8. \A i \in 1 .. (n - 1) : es2[r[i]] = es[q[i + 1]]
  BY <1>4, <1>6, <1>7, <1>i
<1>9. \A i, j \in 1 .. (n - 1) : es2[r[i]].key = es2[r[j]].key => i = j
  <2> TAKE i, j \in 1 .. (n - 1)
  <2>1. es[q[i + 1]].key = es[q[j + 1]].key => i + 1 = j + 1
    BY <1>7, <1>k
  <2> QED BY <1>8, <2>1
<1>10. \A t \in DOMAIN es : es2[t].state = "set" <=> \E i \in 1 .. (n - 1) : r[i] = t
  <2> TAKE t \in DOMAIN es
  <2>1. CASE t = s
    <3>1. es2[t].state # "set"
      BY <1>3, <1>4, <2>1
    <3>2. \A i \in 1 .. (n - 1) : r[i] # t
      BY <1>6, <1>7, <1>i, <2>1
    <3> QED BY <3>1, <3>2
  <2>2. CASE t # s
    <3>1. es2[t].state = "set" <=> \E i \in 1 .. n : q[i] = t
      BY <1>4, <1>k, <2>2
    <3>2. \A i \in 1 .. n : q[i] = t => i - 1 \in 1 .. (n - 1) /\ r[i - 1] = t
      <4> SUFFICES ASSUME NEW i \in 1 .. n, q[i] = t PROVE i - 1 \in 1 .. (n - 1) /\ r[i - 1] = t
        OBVIOUS
      <4>1. i # 1
        BY <2>2 DEF s
      <4>2. i - 1 \in 1 .. (n - 1) /\ (i - 1) + 1 = i
        BY <1>1, <4>1
      <4> QED BY <1>6, <4>2
    <3>3. \A i \in 1 .. (n - 1) : r[i] = t => \E j \in 1 .. n : q[j] = t
      BY <1>6, <1>7
    <3> QED BY <3>1, <3>2, <3>3
  <2> QED BY <2>1, <2>2
<1>11. Queued(es2, r)
  BY <1>4, <1>6, <1>9, <1>10 DEF Queued
<1> QED BY <1>4, <1>5, <1>6, <1>8, <1>11 DEF n, r

(* The queue's tail is where an entry in use goes.                            *)
LEMMA RemoveAtProperties ==
  ASSUME NEW S, NEW s \in Seq(S), NEW i \in 1 .. Len(s)
  PROVE  /\ RemoveAt(s, i) \in Seq(S) /\ Len(RemoveAt(s, i)) = Len(s) - 1
         /\ \A j \in 1 .. (Len(s) - 1) : RemoveAt(s, i)[j] = IF j < i THEN s[j] ELSE s[j + 1]
<1> DEFINE n == Len(s)
           u == SubSeq(s, 1, i - 1)
           v == SubSeq(s, i + 1, n)
<1>1. n \in Nat /\ i \in 1 .. n
  OBVIOUS
<1>2. /\ u \in Seq(S) /\ Len(u) = i - 1 /\ \A j \in 1 .. (i - 1) : u[j] = s[j]
  <2>1. 1 \in 1 .. (n + 1) /\ i - 1 \in 0 .. n
    BY <1>1
  <2>2. /\ u \in Seq(S) /\ Len(u) = (IF 1 <= i - 1 THEN i - 1 - 1 + 1 ELSE 0)
        /\ \A j \in 1 .. (i - 1 - 1 + 1) : u[j] = s[1 + j - 1]
    BY <2>1, SubSeqProperties
  <2> QED BY <1>1, <2>2
<1>3. /\ v \in Seq(S) /\ Len(v) = n - i /\ \A j \in 1 .. (n - i) : v[j] = s[i + j]
  <2>1. i + 1 \in 1 .. (n + 1) /\ n \in 0 .. n
    BY <1>1
  <2>2. /\ v \in Seq(S) /\ Len(v) = (IF i + 1 <= n THEN n - (i + 1) + 1 ELSE 0)
        /\ \A j \in 1 .. (n - (i + 1) + 1) : v[j] = s[(i + 1) + j - 1]
    BY <2>1, SubSeqProperties
  <2>3. \A j \in 1 .. (n - i) : j \in 1 .. (n - (i + 1) + 1) /\ (i + 1) + j - 1 = i + j
    BY <1>1
  <2> QED BY <1>1, <2>2, <2>3
<1>4. RemoveAt(s, i) = u \o v
  BY DEF RemoveAt
<1> HIDE DEF u, v, n
<1>5. /\ u \o v \in Seq(S) /\ Len(u \o v) = Len(u) + Len(v)
      /\ \A j \in 1 .. (Len(u) + Len(v)) : (u \o v)[j] = IF j <= Len(u) THEN u[j] ELSE v[j - Len(u)]
  BY <1>2, <1>3, ConcatProperties
<1>6. Len(u) + Len(v) = n - 1
  BY <1>1, <1>2, <1>3
<1>7. ASSUME NEW j \in 1 .. (n - 1)
      PROVE  (u \o v)[j] = IF j < i THEN s[j] ELSE s[j + 1]
  <2>1. (u \o v)[j] = IF j <= i - 1 THEN u[j] ELSE v[j - (i - 1)]
    BY <1>2, <1>5, <1>6
  <2>2. CASE j < i
    BY <1>1, <1>2, <2>1, <2>2
  <2>3. CASE ~(j < i)
    <3>1. j - (i - 1) \in 1 .. (n - i) /\ i + (j - (i - 1)) = j + 1 /\ ~(j <= i - 1)
      BY <1>1, <2>3
    <3>2. v[j - (i - 1)] = s[j + 1]
      BY <1>3, <3>1
    <3> QED BY <2>1, <2>3, <3>1, <3>2
  <2> QED BY <2>2, <2>3
<1> QED BY <1>4, <1>5, <1>6, <1>7 DEF n

LEMMA ToTail ==
  ASSUME NEW S, NEW s \in Seq(S), NEW i \in 1 .. Len(s), NEW e \in S,
         NEW n, n = Len(s)
  PROVE  /\ Append(RemoveAt(s, i), e) \in Seq(S) /\ Len(Append(RemoveAt(s, i), e)) = n
         /\ \A j \in 1 .. n :
              Append(RemoveAt(s, i), e)[j] = IF j < i THEN s[j] ELSE IF j < n THEN s[j + 1] ELSE e
<1> DEFINE t == Append(RemoveAt(s, i), e)
           u == RemoveAt(s, i)
<1>1. n \in Nat /\ i \in 1 .. n
  OBVIOUS
<1>2. /\ u \in Seq(S) /\ Len(u) = n - 1
      /\ \A j \in 1 .. (n - 1) : u[j] = IF j < i THEN s[j] ELSE s[j + 1]
  BY RemoveAtProperties
<1>3. t = Append(u, e)
  OBVIOUS
<1> HIDE DEF u, t
<1>4. /\ t \in Seq(S) /\ Len(t) = Len(u) + 1
      /\ \A j \in 1 .. Len(u) : t[j] = u[j]
      /\ t[Len(u) + 1] = e
  BY <1>2, <1>3, AppendProperties
<1>5. Len(t) = n
  BY <1>1, <1>2, <1>4
<1>6. ASSUME NEW j \in 1 .. n
      PROVE  t[j] = IF j < i THEN s[j] ELSE IF j < n THEN s[j + 1] ELSE e
  <2>1. CASE j < n
    <3>1. j \in 1 .. (n - 1) /\ j \in 1 .. Len(u)
      BY <1>1, <1>2, <2>1
    <3> QED BY <1>2, <1>4, <2>1, <3>1
  <2>2. CASE ~(j < n)
    <3>1. j = Len(u) + 1 /\ ~(j < i)
      BY <1>1, <1>2, <2>2
    <3> QED BY <1>4, <2>2, <3>1
  <2> QED BY <2>1, <2>2
<1> QED BY <1>4, <1>5, <1>6 DEF t

GoesToTail(q, i, q2) == i \in 1 .. Len(q) /\ q2 = Append(Unlinked(q, q[i]), q[i])

LEMMA TouchProperties ==
  ASSUME NEW es, NEW q, Queued(es, q), NEW i, NEW q2, GoesToTail(q, i, q2)
  PROVE  /\ Queued(es, q2) /\ Len(q2) = Len(q)
         /\ \A j \in 1 .. Len(q) :
              q2[j] = IF j < i THEN q[j] ELSE IF j < Len(q) THEN q[j + 1] ELSE q[i]
<1> DEFINE n == Len(q)
           e == q[i]
<1> USE DEF GoesToTail
<1>1. /\ q \in Seq(DOMAIN es) /\ n \in Nat /\ DOMAIN q = 1 .. n /\ i \in 1 .. n /\ e \in DOMAIN es
      /\ \A j, l \in 1 .. n : es[q[j]].key = es[q[l]].key => j = l
      /\ \A t \in DOMAIN es : es[t].state = "set" <=> \E j \in 1 .. n : q[j] = t
  <2>1. /\ q \in Seq(DOMAIN es) /\ n \in Nat /\ DOMAIN q = 1 .. n
        /\ \A j, l \in 1 .. n : es[q[j]].key = es[q[l]].key => j = l
        /\ \A t \in DOMAIN es : es[t].state = "set" <=> \E j \in 1 .. n : q[j] = t
    BY DEF Queued
  <2>2. i \in 1 .. n
    OBVIOUS
  <2> QED BY <2>1, <2>2
<1>2. q2 = Append(RemoveAt(q, i), e)
  <2>1. {j \in 1 .. n : q[j] = e} = {i}
    BY <1>1
  <2>2. SelectInSeq(q, LAMBDA x : x = e) = i
    <3> DEFINE I == {j \in 1 .. n : q[j] = e}
    <3>1. SelectInSeq(q, LAMBDA x : x = e) = IF I # {} THEN Min(I) ELSE 0
      BY DEF SelectInSeq
    <3>2. I = {i} /\ i \in Nat
      BY <1>1, <2>1
    <3> HIDE DEF I
    <3> QED BY <3>1, <3>2, OnlyIndex
  <2>3. Unlinked(q, e) = RemoveAt(q, SelectInSeq(q, LAMBDA x : x = e))
    BY DEF Unlinked
  <2> QED BY <2>2, <2>3
<1>3. /\ q2 \in Seq(DOMAIN es) /\ Len(q2) = n
      /\ \A j \in 1 .. n : q2[j] = IF j < i THEN q[j] ELSE IF j < n THEN q[j + 1] ELSE e
  <2> DEFINE D == DOMAIN es
  <2>1. q \in Seq(D) /\ e \in D /\ n = Len(q) /\ i \in 1 .. Len(q)
    BY <1>1
  <2> HIDE DEF e, n, D
  <2>2. /\ Append(RemoveAt(q, i), e) \in Seq(D) /\ Len(Append(RemoveAt(q, i), e)) = n
        /\ \A j \in 1 .. n : Append(RemoveAt(q, i), e)[j] =
                               IF j < i THEN q[j] ELSE IF j < n THEN q[j + 1] ELSE e
    BY ONLY <2>1, ToTail
  <2> QED BY <1>2, <2>2 DEF D
<1> DEFINE old(j) == IF j < i THEN j ELSE IF j < n THEN j + 1 ELSE i
<1>4. /\ \A j \in 1 .. n : old(j) \in 1 .. n /\ q2[j] = q[old(j)]
      /\ \A j, l \in 1 .. n : old(j) = old(l) => j = l
      /\ \A l \in 1 .. n : \E j \in 1 .. n : old(j) = l
  <2> HIDE DEF n, e
  <2>1. \A j \in 1 .. n : old(j) \in 1 .. n
    BY <1>1
  <2>2. \A j \in 1 .. n : q2[j] = q[old(j)]
    BY <1>1, <1>3 DEF e
  <2>3. \A j, l \in 1 .. n : old(j) = old(l) => j = l
    BY <1>1
  <2>4. ASSUME NEW l \in 1 .. n PROVE \E j \in 1 .. n : old(j) = l
    <3>1. CASE l < i
      BY <1>1, <3>1
    <3>2. CASE l = i
      <4>1. n \in 1 .. n /\ old(n) = i
        BY <1>1, <3>2
      <4> QED BY <3>2, <4>1
    <3>3. CASE i < l
      <4>1. l - 1 \in 1 .. n /\ old(l - 1) = l
        BY <1>1, <3>3
      <4> QED BY <4>1
    <3> QED BY <1>1, <3>1, <3>2, <3>3
  <2> QED BY <2>1, <2>2, <2>3, <2>4
<1> HIDE DEF old, n, e
<1>5. \A j, l \in 1 .. n : es[q2[j]].key = es[q2[l]].key => j = l
  <2> TAKE j, l \in 1 .. n
  <2>1. es[q[old(j)]].key = es[q[old(l)]].key => old(j) = old(l)
    BY <1>1, <1>4
  <2> QED BY <1>4, <2>1
<1>6. \A t \in DOMAIN es : es[t].state = "set" <=> \E j \in 1 .. n : q2[j] = t
  <2> TAKE t \in DOMAIN es
  <2>1. ASSUME NEW j \in 1 .. n, q2[j] = t PROVE \E l \in 1 .. n : q[l] = t
    BY <1>4, <2>1
  <2>2. ASSUME NEW l \in 1 .. n, q[l] = t PROVE \E j \in 1 .. n : q2[j] = t
    BY <1>4, <2>2
  <2> QED BY <1>1, <2>1, <2>2
<1>7. DOMAIN q2 = 1 .. n
  BY <1>3
<1>8. Queued(es, q2)
  BY ONLY <1>3, <1>5, <1>6, <1>7 DEF Queued
<1> QED BY <1>3, <1>8 DEF n, e

(********************************* Rehashing *********************************)
LEMMA EmptyProperties ==
  ASSUME NEW i \in DOMAIN Sizes, NEW a, a = Sizes[i]
  PROVE  /\ Typed(Empty(a)) /\ Placed(Empty(a)) /\ Queued(Empty(a), <<>>)
         /\ Alloc(Empty(a)) = a /\ a \in Nat /\ a > 2
<1> DEFINE es == Empty(a)
<1>1. a \in Nat /\ a > 2
  BY SizesAssumption
<1>2. DOMAIN es = 0 .. (a - 1) /\ \A s \in DOMAIN es : es[s] = Unused
  BY DEF Empty
<1>3. Unused \in Entry /\ Unused.state # "set"
  BY DEF Unused, Entry
<1>4. es \in [DOMAIN es -> Entry]
  BY <1>2, <1>3 DEF Empty
<1> HIDE DEF es
<1>5. Typed(es)
  BY <1>2, <1>3, <1>4 DEF Typed
<1>6. Placed(es)
  BY <1>2, <1>3 DEF Placed
<1>7. Queued(es, <<>>)
  <2>1. <<>> \in Seq(DOMAIN es) /\ DOMAIN <<>> = {}
    OBVIOUS
  <2> QED BY <1>2, <1>3, <2>1 DEF Queued
<1>8. Alloc(es) = a
  <2>1. 0 \in Int /\ a - 1 \in Int /\ ~(0 > a - 1) /\ (a - 1) - 0 + 1 = a
    BY <1>1
  <2>2. Cardinality(0 .. (a - 1)) = a
    BY <2>1, FS_Interval
  <2> QED BY <1>2, <2>2 DEF Alloc
<1> QED BY <1>1, <1>5, <1>6, <1>7, <1>8 DEF es

LEMMA SameAlloc ==
  ASSUME NEW es, NEW es2, DOMAIN es2 = DOMAIN es
  PROVE  Alloc(es2) = Alloc(es)
BY DEF Alloc

(* The new table, when the last n entries of the queue q are back.            *)
Reinserted(es, q, n, new) ==
  /\ Typed(new.es) /\ Placed(new.es) /\ Queued(new.es, new.q) /\ Len(new.q) = n
  /\ \A i \in 1 .. n : new.es[new.q[i]] = es[q[Len(q) - n + i]]

LEMMA ReinsertProperties ==
  ASSUME hash \in Hashes, NEW es, NEW q, Typed(es), Queued(es, q),
         NEW n \in Nat, n < Len(q), NEW new, Reinserted(es, q, n, new), n < Alloc(new.es),
         NEW new2, new2 = Reinsert(es, q[Len(q) + 1 - (n + 1)], new)
  PROVE  Reinserted(es, q, n + 1, new2) /\ Alloc(new2.es) = Alloc(new.es)
<1> DEFINE N == Len(q)
           s == q[N + 1 - (n + 1)]
           e == es[s]
           p == Place(new.es, e.key)
           es1 == new.es
           q1 == new.q
           es2 == new2.es
           q2 == new2.q
<1>0. /\ q \in Seq(DOMAIN es) /\ N \in Nat /\ DOMAIN q = 1 .. N /\ \A i \in 1 .. N : q[i] \in DOMAIN es
      /\ \A i, j \in 1 .. N : es[q[i]].key = es[q[j]].key => i = j
      /\ \A i \in 1 .. N : es[q[i]].state = "set"
  BY DEF Queued
<1>1. N + 1 - (n + 1) \in 1 .. N /\ N + 1 - (n + 1) = N - n
  BY <1>0
<1>2. e \in Entry /\ e.state = "set" /\ e.key \in Keys /\ s = q[N - n]
  <2>1. s \in DOMAIN es /\ es[s].state = "set" /\ s = q[N - n]
    BY <1>0, <1>1
  <2>2. es \in [DOMAIN es -> Entry] /\ (es[s].state = "set" => es[s].key \in Keys)
    BY <2>1 DEF Typed
  <2> QED BY <2>1, <2>2
<1>3. /\ Typed(es1) /\ Placed(es1) /\ Queued(es1, q1) /\ Len(q1) = n /\ n < Alloc(es1)
      /\ \A i \in 1 .. n : es1[q1[i]] = es[q[N - n + i]]
  BY DEF Reinserted
<1>4. es2 = [MovedEntries(es1, p) EXCEPT ![p.slot] = e] /\ q2 = <<p.slot>> \o MovedOrder(q1, p)
  BY DEF Reinsert
<1> HIDE DEF N, s, e, p, es1, q1, es2, q2
<1>5. \E t \in DOMAIN es1 : es1[t].state # "set"
  BY <1>3, QueueCount
<1>6. \A i \in DOMAIN q1 : es1[q1[i]].key # e.key
  <2> SUFFICES ASSUME NEW i \in 1 .. n PROVE es1[q1[i]].key # e.key
    BY <1>3 DEF Queued
  <2>1. N - n + i \in 1 .. N /\ N - n \in 1 .. N /\ N - n + i # N - n
    BY <1>0, <1>1
  <2>2. es[q[N - n + i]].key # es[q[N - n]].key
    BY <1>0, <2>1
  <2> QED BY <1>2, <1>3, <2>2 DEF e
<1>7. Inserts(es1, q1, e, p, es2)
  <2>1. p = Place(es1, e.key)
    BY DEF p, es1
  <2> QED BY <1>2, <1>3, <1>4, <1>5, <1>6, <2>1 DEF Inserts
<1>8. /\ DOMAIN es2 = DOMAIN es1 /\ Typed(es2) /\ Placed(es2) /\ Queued(es2, q2)
      /\ Len(q2) = n + 1 /\ es2[q2[1]] = e
      /\ \A i \in 1 .. n : es2[q2[i + 1]] = es1[q1[i]]
  <2>1. hash \in Hashes /\ InsertsFirst(es1, q1, e, p, es2, q2)
    BY <1>4, <1>7 DEF InsertsFirst
  <2>2. /\ DOMAIN es2 = DOMAIN es1 /\ Typed(es2) /\ Placed(es2) /\ Queued(es2, q2)
        /\ Len(q2) = Len(q1) + 1 /\ es2[q2[1]] = e
        /\ \A i \in 1 .. Len(q1) : es2[q2[i + 1]] = es1[q1[i]]
    BY ONLY <2>1, AddedFirst
  <2> QED BY <1>3, <2>2
<1>9. ASSUME NEW i \in 1 .. (n + 1) PROVE es2[q2[i]] = es[q[N - (n + 1) + i]]
  <2>1. CASE i = 1
    <3>1. N - (n + 1) + 1 = N - n
      BY <1>0
    <3> QED BY <1>2, <1>8, <2>1, <3>1 DEF e
  <2>2. CASE i # 1
    <3>1. i - 1 \in 1 .. n /\ (i - 1) + 1 = i /\ N - n + (i - 1) = N - (n + 1) + i
      BY <1>0, <2>2
    <3>2. es2[q2[i]] = es1[q1[i - 1]] /\ es1[q1[i - 1]] = es[q[N - n + (i - 1)]]
      BY <1>3, <1>8, <3>1
    <3> QED BY <3>1, <3>2
  <2> QED BY <2>1, <2>2
<1>10. Alloc(es2) = Alloc(es1)
  BY <1>8, SameAlloc
<1> QED BY <1>8, <1>9, <1>10 DEF Reinserted, N, es1, es2, q2

LEMMA Odd ==
  ASSUME NEW i \in DOMAIN Sizes
  PROVE  Sizes[i] \in Nat /\ Sizes[i] > 2 /\ Sizes[i] % 2 # 0
<1>1. Sizes[i] \in Nat /\ Sizes[i] > 2 /\ \A d \in 2 .. (Sizes[i] - 1) : Sizes[i] % d # 0
  BY SizesAssumption
<1>2. 2 \in 2 .. (Sizes[i] - 1)
  BY <1>1
<1> QED BY <1>1, <1>2

(* lws_table_rehash keeps the queue, and there is room again.                 *)
LEMMA RehashProperties ==
  ASSUME hash \in Hashes, NEW t, Typed(t.es), Queued(t.es, t.q),
         Len(t.q) = Load(Alloc(t.es)), Larger(Alloc(t.es)) # {}, NEW u, u = Rehashed(t)
  PROVE  /\ Typed(u.es) /\ Placed(u.es) /\ Queued(u.es, u.q) /\ u.n = t.n
         /\ Len(u.q) = Len(t.q) /\ Len(u.q) < Load(Alloc(u.es))
         /\ \A i \in 1 .. Len(t.q) : u.es[u.q[i]] = t.es[t.q[i]]
<1> DEFINE es == t.es
           q == t.q
           N == Len(q)
           a == Sizes[Min(Larger(Alloc(es)))]
           empty == [es |-> Empty(a), q |-> <<>>]
           R(n, x) == Reinsert(es, q[N + 1 - n], x)
           G(m, g) == [n \in 0 .. m |-> IF n = 0 THEN empty ELSE R(n, g[n - 1])]
           new == CHOOSE g : g = G(N, g)
<1>1. u = [es |-> new[N].es, q |-> new[N].q, n |-> t.n]
  BY DEF Rehashed
<1>2. N \in Nat
  BY DEF Queued
<1>3. /\ Min(Larger(Alloc(es))) \in DOMAIN Sizes /\ a > Alloc(es)
  <2>1. Larger(Alloc(es)) \in SUBSET Nat
    BY SizesAssumption DEF Larger
  <2>2. Min(Larger(Alloc(es))) \in Larger(Alloc(es))
    BY <2>1, MinProperties
  <2> QED BY <2>2 DEF Larger
<1>4. /\ Typed(empty.es) /\ Placed(empty.es) /\ Queued(empty.es, empty.q) /\ Len(empty.q) = 0
      /\ Alloc(empty.es) = a
  <2>1. Typed(Empty(a)) /\ Placed(Empty(a)) /\ Queued(Empty(a), <<>>) /\ Alloc(Empty(a)) = a
    <3> HIDE DEF es
    <3> QED BY <1>3, EmptyProperties
  <2> QED BY <2>1
<1>5. N < Load(a) /\ N < a
  <2>1. PICK i \in DOMAIN Sizes : DOMAIN es = 0 .. (Sizes[i] - 1)
    BY DEF Typed
  <2>2. Alloc(es) = Sizes[i]
    <3>1. Sizes[i] \in Nat /\ Sizes[i] > 2
      BY Odd
    <3>2. 0 \in Int /\ Sizes[i] - 1 \in Int /\ ~(0 > Sizes[i] - 1) /\ (Sizes[i] - 1) - 0 + 1 = Sizes[i]
      BY <3>1
    <3>3. Cardinality(0 .. (Sizes[i] - 1)) = Sizes[i]
      BY <3>2, FS_Interval
    <3> QED BY <2>1, <3>3 DEF Alloc
  <2> DEFINE b == Alloc(es)
  <2>3. b \in Nat /\ b > 2 /\ b % 2 # 0 /\ a \in Nat /\ a > 2 /\ a % 2 # 0 /\ b < a /\ N = Load(b)
    <3> HIDE DEF es
    <3>1. b \in Nat /\ b > 2 /\ b % 2 # 0
      BY <2>2, Odd
    <3>2. a \in Nat /\ a > 2 /\ a % 2 # 0
      BY <1>3, Odd
    <3>3. b < a
      BY <1>3, <3>1, <3>2
    <3>4. N = Load(b)
      BY DEF es
    <3> QED BY <3>1, <3>2, <3>3, <3>4
  <2> HIDE DEF a, b, N
  <2> QED BY <1>2, <2>3, LoadProperties
<1> HIDE DEF empty, R
<1>6. \E g : g = G(N, g)
  <2> DEFINE S == {n \in Nat : \E g : g = G(n, g)}
  <2>1. 0 \in S
    <3> DEFINE g0 == [n \in 0 .. 0 |-> empty]
    <3>1. g0 = G(0, g0)
      OBVIOUS
    <3> QED BY <3>1
  <2>2. ASSUME NEW n \in Nat, n \in S PROVE n + 1 \in S
    <3>1. PICK g : g = G(n, g)
      BY <2>2
    <3> DEFINE h == [i \in 0 .. (n + 1) |-> IF i = n + 1 THEN R(n + 1, g[n]) ELSE g[i]]
    <3>2. ASSUME NEW i \in 0 .. (n + 1)
          PROVE  h[i] = IF i = 0 THEN empty ELSE R(i, h[i - 1])
      <4>1. CASE i = 0
        <5>1. h[0] = g[0] /\ g[0] = empty
          BY <3>1
        <5> QED BY <4>1, <5>1
      <4>2. CASE i \in 1 .. n
        <5>1. h[i] = g[i] /\ h[i - 1] = g[i - 1] /\ i # 0
          BY <4>2
        <5>2. g[i] = R(i, g[i - 1])
          BY <3>1, <4>2
        <5> QED BY <5>1, <5>2
      <4>3. CASE i = n + 1
        <5>1. h[n + 1] = R(n + 1, g[n]) /\ h[n] = g[n] /\ (n + 1) - 1 = n /\ n + 1 # 0
          OBVIOUS
        <5> HIDE DEF h
        <5> QED BY <4>3, <5>1
      <4> QED BY <4>1, <4>2, <4>3
    <3>3. h = G(n + 1, h)
      <4>1. h = [i \in 0 .. (n + 1) |-> h[i]]
        OBVIOUS
      <4> HIDE DEF h
      <4> QED BY <3>2, <4>1
    <3> HIDE DEF h, G
    <3> QED BY <3>3
  <2> HIDE DEF G
  <2>3. Nat \subseteq S
    <3> HIDE DEF S
    <3> QED BY <2>1, <2>2, Induction
  <2> QED BY <1>2, <2>3
<1>7. new = G(N, new)
  <2> HIDE DEF G, N
  <2> QED BY <1>6
<1> HIDE DEF new
<1>8. new[0] = empty /\ \A n \in Nat : n < N => new[n + 1] = R(n + 1, new[n])
  <2>1. \A n \in 0 .. N : new[n] = IF n = 0 THEN empty ELSE R(n, new[n - 1])
    BY <1>7
  <2>2. ASSUME NEW n \in Nat, n < N PROVE new[n + 1] = R(n + 1, new[n])
    <3>1. n + 1 \in 0 .. N /\ n + 1 # 0 /\ (n + 1) - 1 = n
      BY <1>2, <2>2
    <3> HIDE DEF N
    <3> QED BY <2>1, <3>1
  <2>3. 0 \in 0 .. N
    BY <1>2
  <2> HIDE DEF N
  <2> QED BY <2>1, <2>2, <2>3
<1> DEFINE I(n) == Reinserted(es, q, n, new[n]) /\ Alloc(new[n].es) = a
           S == {n \in Nat : n <= N => I(n)}
<1>9. 0 \in S
  <2>1. Reinserted(es, q, 0, empty)
    BY <1>4 DEF Reinserted
  <2> HIDE DEF es, q
  <2> QED BY <1>4, <1>8, <2>1
<1>10. ASSUME NEW n \in Nat, n \in S PROVE n + 1 \in S
  <2> SUFFICES ASSUME n + 1 <= N PROVE I(n + 1)
    OBVIOUS
  <2>1. I(n) /\ n < N
    BY <1>2, <1>10
  <2>2. new[n + 1] = Reinsert(es, q[Len(q) + 1 - (n + 1)], new[n])
    BY <1>8, <2>1 DEF R
  <2>3. n < Alloc(new[n].es)
    <3>1. n < a
      <4>1. a \in Nat
        BY <1>3, Odd
      <4> HIDE DEF a, N
      <4> QED BY <1>2, <1>5, <2>1, <4>1
    <3> QED BY <2>1, <3>1
  <2>4. Typed(es) /\ Queued(es, q) /\ n < Len(q) /\ Reinserted(es, q, n, new[n])
    BY <2>1
  <2> HIDE DEF es, q, a
  <2>5. Reinserted(es, q, n + 1, new[n + 1]) /\ Alloc(new[n + 1].es) = Alloc(new[n].es)
    BY <2>2, <2>3, <2>4, ReinsertProperties
  <2> QED BY <2>1, <2>5
<1>11. I(N)
  <2>1. Nat \subseteq S
    <3> HIDE DEF S
    <3> QED BY <1>9, <1>10, Induction
  <2>2. N \in S
    BY <1>2, <2>1
  <2>3. N <= N
    BY <1>2
  <2> HIDE DEF N, I
  <2> QED BY <2>2, <2>3
<1>12. /\ Typed(u.es) /\ Placed(u.es) /\ Queued(u.es, u.q) /\ Len(u.q) = N /\ Alloc(u.es) = a
       /\ \A i \in 1 .. N : u.es[u.q[i]] = es[q[N - N + i]]
  <2> HIDE DEF es, q, a
  <2>1. u.es = new[N].es /\ u.q = new[N].q
    BY <1>1
  <2> QED BY <1>11, <2>1 DEF Reinserted
<1>13. \A i \in 1 .. N : N - N + i = i
  BY <1>2
<1>14. u.n = t.n
  BY <1>1
<1> HIDE DEF a
<1> QED BY <1>5, <1>12, <1>13, <1>14

(************************ The steps of the table *****************************)
(* The two faults the runs table_freed and table_oom show are excluded here:  *)
(* the freed key of a removed entry that still reads as itself, and memory    *)
(* that runs out for the key after an entry was moved.                        *)
NoFaults == ~FreedKeyIntact /\ "key after a move" \notin MallocFails

(* A table of n entries, whatever holds it.                                   *)
Holds(es, q, n) ==
  /\ Typed(es) /\ Placed(es) /\ Queued(es, q)
  /\ n = Len(q) /\ n <= Load(Alloc(es))

(* The queue r holds the entries of the queue q, those after the first d.     *)
SameEntries(es, q, d, es2, r) ==
  /\ Len(r) = Len(q) - d
  /\ \A i \in 1 .. (Len(q) - d) : es2[r[i]] = es[q[i + d]]

LEMMA QueuedFacts ==
  ASSUME NEW es, NEW q, Queued(es, q)
  PROVE  /\ q \in Seq(DOMAIN es) /\ Len(q) \in Nat /\ DOMAIN q = 1 .. Len(q)
         /\ \A i \in 1 .. Len(q) : q[i] \in DOMAIN es /\ es[q[i]].state = "set"
         /\ \A i, j \in 1 .. Len(q) : es[q[i]].key = es[q[j]].key => i = j
<1>1. q \in Seq(DOMAIN es)
  BY DEF Queued
<1>2. Len(q) \in Nat /\ DOMAIN q = 1 .. Len(q) /\ \A i \in 1 .. Len(q) : q[i] \in DOMAIN es
  BY <1>1
<1>3. \A i, j \in 1 .. Len(q) : es[q[i]].key = es[q[j]].key => i = j
  BY <1>2 DEF Queued
<1>4. \A i \in 1 .. Len(q) : es[q[i]].state = "set"
  BY <1>2 DEF Queued
<1> QED BY <1>1, <1>2, <1>3, <1>4

Evictions == IF MustEvict THEN 1 ELSE 0

LEMMA EvictedProperties ==
  ASSUME TableInv, NEW t, t = Evicted
  PROVE  /\ Holds(t.es, t.q, t.n) /\ DOMAIN t.es = DOMAIN entries
         /\ SameEntries(entries, order, Evictions, t.es, t.q)
<1>0. /\ hash \in Hashes /\ cap \in Nat /\ count = Len(order) /\ Len(order) \in Nat
      /\ Typed(entries) /\ Placed(entries) /\ Queued(entries, order)
      /\ order \in Seq(DOMAIN entries) /\ count <= Load(Alloc(entries))
  BY CapAssumption, QueuedFacts DEF TableInv
<1>a. Alloc(entries) \in Nat /\ Load(Alloc(entries)) \in Nat
  <2>1. Alloc(entries) \in Nat /\ Alloc(entries) > 2
    BY <1>0, AllocProperties
  <2> QED BY <2>1, LoadProperties
<1>1. CASE MustEvict
  <2>1. t.es = Removed(entries, Head(order)) /\ t.q = Tail(order) /\ t.n = count - 1
    BY <1>1 DEF Evicted
  <2>2. order # <<>>
    <3>1. Len(order) > 0
      BY <1>0, <1>1 DEF MustEvict
    <3> QED BY <3>1
  <2>3. /\ DOMAIN t.es = DOMAIN entries /\ Typed(t.es) /\ Placed(t.es) /\ Queued(t.es, Tail(order))
        /\ Len(Tail(order)) = Len(order) - 1
        /\ \A i \in 1 .. (Len(order) - 1) : t.es[Tail(order)[i]] = entries[order[i + 1]]
    BY <1>0, <2>1, <2>2, EvictProperties
  <2>4. Alloc(t.es) = Alloc(entries)
    BY <2>3, SameAlloc
  <2>5. t.n = Len(t.q) /\ t.n <= Load(Alloc(t.es))
    BY <1>0, <1>a, <2>1, <2>3, <2>4
  <2>6. Evictions = 1
    BY <1>1 DEF Evictions
  <2>7. SameEntries(entries, order, 1, t.es, t.q)
    BY <2>1, <2>3 DEF SameEntries
  <2> QED BY <2>1, <2>3, <2>5, <2>6, <2>7 DEF Holds
<1>2. CASE ~MustEvict
  <2>1. t.es = entries /\ t.q = order /\ t.n = count
    BY <1>2 DEF Evicted
  <2>2. Evictions = 0
    BY <1>2 DEF Evictions
  <2>3. SameEntries(entries, order, 0, entries, order)
    BY <1>0 DEF SameEntries
  <2> QED BY <1>0, <2>1, <2>2, <2>3 DEF Holds
<1> QED BY <1>1, <1>2

LEMMA NotFoundProperties ==
  ASSUME TableInv, NoFaults, NEW k \in Keys, Find(k) = None
  PROVE  \A i \in 1 .. Len(order) : entries[order[i]].key # k
<1>0. hash \in Hashes /\ Typed(entries) /\ Placed(entries) /\ Queued(entries, order)
  BY DEF TableInv
<1> SUFFICES ASSUME NEW i \in 1 .. Len(order), entries[order[i]].key = k PROVE FALSE
  OBVIOUS
<1>1. i \in DOMAIN order /\ order[i] \in DOMAIN entries
  BY <1>0, QueuedFacts
<1>2. Find(k) = order[i]
  BY <1>0, <1>1, FindProperties DEF NoFaults
<1>3. order[i] \in Nat
  BY <1>0, <1>1, AllocProperties
<1> QED BY <1>2, <1>3, KeyAssumption

(* The key is not in the table, and there is room for it.                     *)
LEMMA RoomyProperties ==
  ASSUME TableInv, NoFaults, NEW k \in Keys, Find(k) = None, CanGrow(Evicted),
         NEW t, t = Roomy(Evicted)
  PROVE  /\ Holds(t.es, t.q, t.n) /\ t.n < Load(Alloc(t.es))
         /\ SameEntries(entries, order, Evictions, t.es, t.q)
         /\ \E s \in DOMAIN t.es : t.es[s].state # "set"
         /\ \A i \in DOMAIN t.q : t.es[t.q[i]].key # k
<1> DEFINE e == Evicted
<1>0. hash \in Hashes /\ Typed(entries) /\ Placed(entries) /\ Queued(entries, order)
  BY DEF TableInv
<1>1. Holds(e.es, e.q, e.n) /\ SameEntries(entries, order, Evictions, e.es, e.q)
  BY EvictedProperties
<1>2. t = IF MustRehash(e) THEN Rehashed(e) ELSE e
  BY DEF Roomy
<1>3. MustRehash(e) => Larger(Alloc(e.es)) # {}
  BY DEF CanGrow
<1>g. Evictions \in {0, 1}
  BY DEF Evictions
<1> HIDE DEF e
<1>b. Typed(e.es) /\ Placed(e.es) /\ Queued(e.es, e.q) /\ e.n = Len(e.q) /\ e.n <= Load(Alloc(e.es))
  BY <1>1 DEF Holds
<1>c. /\ Len(e.q) = Len(order) - Evictions
      /\ \A i \in 1 .. (Len(order) - Evictions) : e.es[e.q[i]] = entries[order[i + Evictions]]
  BY <1>1 DEF SameEntries
<1>4. Holds(t.es, t.q, t.n) /\ t.n < Load(Alloc(t.es)) /\ SameEntries(entries, order, Evictions, t.es, t.q)
  <2>1. CASE MustRehash(e)
    <3>1. Len(e.q) = Load(Alloc(e.es)) /\ Larger(Alloc(e.es)) # {} /\ t = Rehashed(e)
      BY <1>2, <1>3, <1>b, <2>1 DEF MustRehash
    <3>2. /\ Typed(t.es) /\ Placed(t.es) /\ Queued(t.es, t.q) /\ t.n = e.n
          /\ Len(t.q) = Len(e.q) /\ Len(t.q) < Load(Alloc(t.es))
          /\ \A i \in 1 .. Len(e.q) : t.es[t.q[i]] = e.es[e.q[i]]
      BY <1>0, <1>b, <3>1, RehashProperties
    <3>3. t.n = Len(t.q) /\ t.n < Load(Alloc(t.es)) /\ t.n <= Load(Alloc(t.es))
      <4>1. Len(t.q) \in Nat /\ Alloc(t.es) \in Nat /\ Alloc(t.es) > 2
        BY <3>2, AllocProperties, QueuedFacts
      <4>2. Load(Alloc(t.es)) \in Nat
        BY <4>1, LoadProperties
      <4> QED BY <1>b, <3>2, <4>1, <4>2
    <3>4. SameEntries(entries, order, Evictions, t.es, t.q)
      BY <1>c, <3>2 DEF SameEntries
    <3> QED BY <3>2, <3>3, <3>4 DEF Holds
  <2>2. CASE ~MustRehash(e)
    <3>1. t = e
      BY <1>2, <2>2
    <3>2. e.n # Load(Alloc(e.es))
      BY <2>2 DEF MustRehash
    <3>3. Len(e.q) \in Nat /\ Alloc(e.es) \in Nat /\ Alloc(e.es) > 2
      BY <1>b, AllocProperties, QueuedFacts
    <3>4. Load(Alloc(e.es)) \in Nat
      BY <3>3, LoadProperties
    <3>5. e.n < Load(Alloc(e.es))
      BY <1>b, <3>2, <3>3, <3>4
    <3> QED BY <1>1, <3>1, <3>5
  <2> QED BY <2>1, <2>2
<1>d. Typed(t.es) /\ Queued(t.es, t.q) /\ t.n = Len(t.q)
  BY <1>4 DEF Holds
<1>5. \E s \in DOMAIN t.es : t.es[s].state # "set"
  <2>1. Alloc(t.es) \in Nat /\ Alloc(t.es) > 2
    BY <1>d, AllocProperties
  <2>2. Load(Alloc(t.es)) < Alloc(t.es) /\ Load(Alloc(t.es)) \in Nat
    BY <2>1, LoadProperties
  <2>3. Len(t.q) \in Nat
    BY <1>d, QueuedFacts
  <2>4. Len(t.q) < Alloc(t.es)
    BY <1>4, <1>d, <2>1, <2>2, <2>3
  <2> QED BY <1>d, <2>4, QueueCount
<1>6. \A i \in 1 .. Len(order) : entries[order[i]].key # k
  BY NotFoundProperties
<1>7. \A i \in DOMAIN t.q : t.es[t.q[i]].key # k
  <2>1. /\ DOMAIN t.q = 1 .. (Len(order) - Evictions) /\ Len(order) \in Nat
    BY <1>0, <1>4, <1>d, QueuedFacts DEF SameEntries
  <2>2. \A i \in 1 .. (Len(order) - Evictions) :
          t.es[t.q[i]] = entries[order[i + Evictions]] /\ i + Evictions \in 1 .. Len(order)
    BY <1>4, <1>g, <2>1 DEF SameEntries
  <2> QED BY <1>6, <2>1, <2>2
<1> QED BY <1>4, <1>5, <1>7

LEMMA FoundProperties ==
  ASSUME TableInv, NoFaults, NEW k \in Keys, Find(k) # None
  PROVE  \E i \in 1 .. Len(order) : Find(k) = order[i] /\ entries[order[i]].key = k
<1>1. hash \in Hashes /\ Typed(entries) /\ Placed(entries) /\ Queued(entries, order)
  BY DEF TableInv
<1>2. DOMAIN order = 1 .. Len(order)
  BY <1>1, QueuedFacts
<1> QED BY <1>1, <1>2, FindProperties DEF NoFaults

(* The place that the entry at place j of the queue had before the entry at   *)
(* place i was used.                                                          *)
Before(i, j) == IF cap = 0 \/ j < i THEN j ELSE IF j < Len(order) THEN j + 1 ELSE i

LEMMA TouchedProperties ==
  ASSUME TableInv, NEW i \in 1 .. Len(order), NEW q2, q2 = Touched(order, order[i])
  PROVE  /\ Queued(entries, q2) /\ Len(q2) = Len(order)
         /\ \A j \in 1 .. Len(order) : q2[j] = order[Before(i, j)] /\ Before(i, j) \in 1 .. Len(order)
<1>1. Queued(entries, order) /\ cap \in Nat /\ Len(order) \in Nat
  BY CapAssumption, QueuedFacts DEF TableInv
<1>2. \A j \in 1 .. Len(order) : Before(i, j) \in 1 .. Len(order)
  BY <1>1 DEF Before
<1>3. CASE cap > 0
  <2>1. q2 = Append(Unlinked(order, order[i]), order[i])
    BY <1>3 DEF Touched
  <2>2. /\ Queued(entries, q2) /\ Len(q2) = Len(order)
        /\ \A j \in 1 .. Len(order) :
             q2[j] = IF j < i THEN order[j] ELSE IF j < Len(order) THEN order[j + 1] ELSE order[i]
    <3>1. GoesToTail(order, i, q2)
      BY <2>1 DEF GoesToTail
    <3> QED BY <1>1, <3>1, TouchProperties
  <2>3. \A j \in 1 .. Len(order) : q2[j] = order[Before(i, j)]
    BY <1>1, <1>3, <2>2 DEF Before
  <2> QED BY <1>2, <2>2, <2>3
<1>4. CASE ~(cap > 0)
  <2>1. q2 = order /\ cap = 0
    BY <1>1, <1>4 DEF Touched
  <2>2. \A j \in 1 .. Len(order) : Before(i, j) = j
    BY <2>1 DEF Before
  <2> QED BY <1>1, <1>2, <2>1, <2>2
<1> QED BY <1>3, <1>4

LEMMA GetStep ==
  ASSUME TableInv, NoFaults, NEW k \in Keys, Get(k)
  PROVE  \E i \in 1 .. Len(order) :
           /\ Find(k) = order[i] /\ entries[order[i]].key = k
           /\ Holds(entries', order', count') /\ Len(order') = Len(order)
           /\ \A j \in 1 .. Len(order) :
                entries'[order'[j]] = entries[order[Before(i, j)]] /\ Before(i, j) \in 1 .. Len(order)
<1>1. Find(k) # None /\ order' = Touched(order, Find(k)) /\ entries' = entries /\ count' = count
  BY DEF Get
<1>2. PICK i \in 1 .. Len(order) : Find(k) = order[i] /\ entries[order[i]].key = k
  BY <1>1, FoundProperties
<1>3. /\ Queued(entries, order') /\ Len(order') = Len(order)
      /\ \A j \in 1 .. Len(order) : order'[j] = order[Before(i, j)] /\ Before(i, j) \in 1 .. Len(order)
  <2>1. order' = Touched(order, order[i])
    BY <1>1, <1>2
  <2>2. TableInv /\ i \in 1 .. Len(order)
    OBVIOUS
  <2> QED BY ONLY ZenonT(40), <2>1, <2>2, TouchedProperties
<1>4. Holds(entries, order', count)
  BY <1>3 DEF TableInv, Holds
<1> QED BY <1>1, <1>2, <1>3, <1>4

LEMMA UpdateStep ==
  ASSUME TableInv, NoFaults, NEW k \in Keys, NEW v \in Values, Update(k, v)
  PROVE  \E i \in 1 .. Len(order) :
           /\ Find(k) = order[i] /\ entries[order[i]].key = k
           /\ Holds(entries', order', count') /\ Len(order') = Len(order)
           /\ \A j \in 1 .. Len(order) :
                /\ entries'[order'[j]] = IF Before(i, j) = i THEN [entries[order[i]] EXCEPT !.value = v]
                                         ELSE entries[order[Before(i, j)]]
                /\ Before(i, j) \in 1 .. Len(order)
<1>1. /\ Find(k) # None /\ order' = Touched(order, Find(k)) /\ count' = count
      /\ entries' = [entries EXCEPT ![Find(k)].value = v]
  BY DEF Update
<1>2. PICK i \in 1 .. Len(order) : Find(k) = order[i] /\ entries[order[i]].key = k
  BY <1>1, FoundProperties
<1> DEFINE s == order[i]
           e == [entries[s] EXCEPT !.value = v]
<1>0. /\ hash \in Hashes /\ Typed(entries) /\ Placed(entries) /\ Queued(entries, order)
      /\ count = Len(order) /\ count <= Load(Alloc(entries))
  BY DEF TableInv
<1>3. /\ Queued(entries, order') /\ Len(order') = Len(order)
      /\ \A j \in 1 .. Len(order) : order'[j] = order[Before(i, j)] /\ Before(i, j) \in 1 .. Len(order)
  <2>1. order' = Touched(order, order[i])
    BY <1>1, <1>2
  <2>2. TableInv /\ i \in 1 .. Len(order)
    OBVIOUS
  <2> QED BY ONLY ZenonT(40), <2>1, <2>2, TouchedProperties
<1>4. s \in DOMAIN entries /\ entries \in [DOMAIN entries -> Entry]
  <2>1. s \in DOMAIN entries
    BY <1>0, QueuedFacts
  <2>2. entries \in [DOMAIN entries -> Entry]
    BY <1>0 DEF Typed
  <2> QED BY <2>1, <2>2
<1>5. e \in Entry /\ e.state = entries[s].state /\ e.key = entries[s].key
  <2>1. entries[s] \in Entry
    BY <1>4
  <2> HIDE DEF s
  <2> QED BY <2>1 DEF Entry
<1>6. entries' = [entries EXCEPT ![s] = e]
  BY <1>1, <1>2
<1>u. \A j \in 1 .. Len(order) : order[j] = s => j = i
  BY <1>0, QueuedFacts
<1>s. s = order[i] /\ e = [entries[order[i]] EXCEPT !.value = v]
  OBVIOUS
<1> HIDE DEF s, e
<1>7. /\ DOMAIN entries' = DOMAIN entries /\ entries' \in [DOMAIN entries -> Entry] /\ entries'[s] = e
      /\ \A t \in DOMAIN entries : t # s => entries'[t] = entries[t]
  BY ONLY <1>4, <1>5, <1>6, Put
<1>8. \A t \in DOMAIN entries : entries'[t].state = entries[t].state /\ entries'[t].key = entries[t].key
  BY <1>5, <1>7
<1>9. Typed(entries') /\ Placed(entries')
  BY <1>0, <1>7, <1>8, PlacedStays
<1>10. Queued(entries', order')
  <2>1. /\ order' \in Seq(DOMAIN entries) /\ DOMAIN order' = 1 .. Len(order)
        /\ \A j \in 1 .. Len(order) : order'[j] \in DOMAIN entries
    BY <1>3, QueuedFacts
  <2>2. \A t \in DOMAIN entries : entries'[t].state = "set" <=> \E j \in DOMAIN order' : order'[j] = t
    BY <1>3, <1>8 DEF Queued
  <2>3. \A j, l \in DOMAIN order' : entries'[order'[j]].key = entries'[order'[l]].key => j = l
    BY <1>3, <1>8, <2>1 DEF Queued
  <2> QED BY <1>7, <2>1, <2>2, <2>3 DEF Queued
<1>11. Holds(entries', order', count')
  <2>1. Alloc(entries') = Alloc(entries)
    BY <1>7, SameAlloc
  <2> QED BY <1>0, <1>1, <1>3, <1>9, <1>10, <2>1 DEF Holds
<1>12. ASSUME NEW j \in 1 .. Len(order)
       PROVE  entries'[order'[j]] = IF Before(i, j) = i THEN e ELSE entries[order[Before(i, j)]]
  <2>1. order'[j] = order[Before(i, j)] /\ Before(i, j) \in 1 .. Len(order)
    BY <1>3
  <2>2. order[Before(i, j)] \in DOMAIN entries
    BY <1>0, <2>1, QueuedFacts
  <2>3. CASE Before(i, j) = i
    BY <1>7, <1>s, <2>1, <2>3
  <2>4. CASE Before(i, j) # i
    <3>1. order[Before(i, j)] # s
      BY <1>u, <2>1, <2>4
    <3> QED BY <1>7, <2>1, <2>2, <2>4, <3>1
  <2> QED BY <2>3, <2>4
<1> QED BY <1>2, <1>3, <1>11, <1>12, <1>s

LEMMA AddStep ==
  ASSUME TableInv, NoFaults, NEW k \in Keys, NEW v \in Values, Add(k, v)
  PROVE  /\ Holds(entries', order', count') /\ Len(order') = Len(order) - Evictions + 1
         /\ \A i \in 1 .. (Len(order) - Evictions) : entries'[order'[i]] = entries[order[i + Evictions]]
         /\ entries'[order'[Len(order) - Evictions + 1]] = [state |-> "set", key |-> k, value |-> v]
<1> DEFINE t == Roomy(Evicted)
           p == Place(t.es, k)
           e == [state |-> "set", key |-> k, value |-> v]
<1>1. /\ Find(k) = None /\ CanGrow(Evicted)
      /\ entries' = [MovedEntries(t.es, p) EXCEPT ![p.slot] = e]
      /\ order' = Append(MovedOrder(t.q, p), p.slot) /\ count' = t.n + 1
  BY DEF Add
<1>2. /\ Holds(t.es, t.q, t.n) /\ t.n < Load(Alloc(t.es))
      /\ SameEntries(entries, order, Evictions, t.es, t.q)
      /\ \E s \in DOMAIN t.es : t.es[s].state # "set"
      /\ \A i \in DOMAIN t.q : t.es[t.q[i]].key # k
  BY <1>1, RoomyProperties
<1>3. e \in Entry /\ e.state = "set" /\ e.key = k
  BY DEF Entry
<1>4. p = Place(t.es, e.key)
  BY <1>3
<1> HIDE DEF t, p, e
<1>5. /\ Typed(t.es) /\ Placed(t.es) /\ Queued(t.es, t.q) /\ t.n = Len(t.q)
      /\ Len(t.q) = Len(order) - Evictions
      /\ \A i \in 1 .. (Len(order) - Evictions) : t.es[t.q[i]] = entries[order[i + Evictions]]
  BY <1>2 DEF Holds, SameEntries
<1>6. hash \in Hashes /\ Inserts(t.es, t.q, e, p, entries')
  BY <1>1, <1>2, <1>3, <1>4, <1>5 DEF Inserts, TableInv
<1>7. InsertsLast(t.es, t.q, e, p, entries', order')
  BY <1>1, <1>6 DEF InsertsLast
<1>8. /\ DOMAIN entries' = DOMAIN t.es /\ Typed(entries') /\ Placed(entries') /\ Queued(entries', order')
      /\ Len(order') = Len(t.q) + 1 /\ entries'[order'[Len(t.q) + 1]] = e
      /\ \A i \in 1 .. Len(t.q) : entries'[order'[i]] = t.es[t.q[i]]
  BY <1>6, <1>7, AddedLast
<1>9. Holds(entries', order', count')
  <2>1. Alloc(entries') = Alloc(t.es)
    BY <1>8, SameAlloc
  <2>2. Alloc(t.es) \in Nat /\ Alloc(t.es) > 2 /\ Len(t.q) \in Nat
    BY <1>5, AllocProperties, QueuedFacts
  <2>3. Load(Alloc(t.es)) \in Nat
    BY <2>2, LoadProperties
  <2>4. t.n + 1 <= Load(Alloc(t.es))
    BY <1>2, <1>5, <2>2, <2>3
  <2> QED BY <1>1, <1>5, <1>8, <2>1, <2>4 DEF Holds
<1> QED BY <1>5, <1>8, <1>9 DEF e

LEMMA AddCannotRehashStep ==
  ASSUME TableInv, NEW k, AddCannotRehash(k)
  PROVE  Holds(entries', order', count') /\ SameEntries(entries, order, Evictions, entries', order')
<1>1. entries' = Evicted.es /\ order' = Evicted.q /\ count' = Evicted.n
  BY DEF AddCannotRehash
<1> QED BY <1>1, EvictedProperties

LEMMA AddCannotCopyKeyStep ==
  ASSUME TableInv, NoFaults, NEW k \in Keys, AddCannotCopyKey(k)
  PROVE  Holds(entries', order', count') /\ SameEntries(entries, order, Evictions, entries', order')
<1> DEFINE t == Roomy(Evicted)
           p == Place(t.es, k)
<1>1. /\ Find(k) = None /\ CanGrow(Evicted)
      /\ (IF p.to = None THEN "key" ELSE "key after a move") \in MallocFails
      /\ entries' = [MovedEntries(t.es, p) EXCEPT ![p.slot].key = None]
      /\ order' = MovedOrder(t.q, p) /\ count' = t.n
  BY DEF AddCannotCopyKey
<1>2. /\ Holds(t.es, t.q, t.n) /\ SameEntries(entries, order, Evictions, t.es, t.q)
      /\ \E s \in DOMAIN t.es : t.es[s].state # "set"
  BY <1>1, RoomyProperties
<1>3. p.to = None
  BY <1>1 DEF NoFaults
<1>4. entries' = [t.es EXCEPT ![p.slot].key = None] /\ order' = t.q
  BY <1>1, <1>3 DEF MovedEntries, MovedOrder
<1>p. p = Place(t.es, k)
  OBVIOUS
<1> HIDE DEF t, p
<1>5. /\ Typed(t.es) /\ Placed(t.es) /\ Queued(t.es, t.q) /\ hash \in Hashes
      /\ t.n = Len(t.q) /\ t.n <= Load(Alloc(t.es))
  BY <1>2 DEF Holds, TableInv
<1>6. p.slot \in DOMAIN t.es /\ t.es[p.slot].state # "set"
  BY <1>2, <1>3, <1>5, <1>p, PlaceProperties
<1> DEFINE s == p.slot
           e == [t.es[s] EXCEPT !.key = None]
<1>7. e \in Entry /\ e.state = t.es[s].state
  <2>1. t.es[s] \in Entry
    BY <1>5, <1>6 DEF Typed
  <2> HIDE DEF s
  <2> QED BY <2>1 DEF Entry
<1>8. entries' = [t.es EXCEPT ![s] = e] /\ s \in DOMAIN t.es /\ t.es \in [DOMAIN t.es -> Entry]
  <2>1. t.es \in [DOMAIN t.es -> Entry]
    BY <1>5 DEF Typed
  <2> QED BY <1>4, <1>6, <2>1
<1>9. t.es[s].state # "set"
  BY <1>6
<1> DEFINE es == t.es
<1> HIDE DEF s, e, es
<1>10. /\ DOMAIN entries' = DOMAIN es /\ entries' \in [DOMAIN es -> Entry] /\ entries'[s] = e
       /\ \A x \in DOMAIN es : x # s => entries'[x] = es[x]
  <2>1. entries' = [es EXCEPT ![s] = e] /\ s \in DOMAIN es /\ es \in [DOMAIN es -> Entry]
    BY <1>8 DEF es
  <2> QED BY ONLY <1>7, <2>1, Put
<1>11. es = t.es
  BY DEF es
<1>12. \A x \in DOMAIN es : entries'[x].state = es[x].state /\ (es[x].state = "set" => entries'[x] = es[x])
  BY <1>7, <1>9, <1>10, <1>11
<1>13. Typed(entries') /\ Placed(entries')
  <2>1. Typed(es) /\ Placed(es)
    BY <1>5, <1>11
  <2>2. \A x \in DOMAIN es :
          /\ es[x].state # "unused" => entries'[x].state # "unused"
          /\ entries'[x].state = "set" => es[x].state = "set" /\ entries'[x].key = es[x].key
    BY <1>12
  <2> QED BY <1>5, <1>10, <2>1, <2>2, PlacedStays
<1>14. \A i \in 1 .. Len(t.q) : entries'[t.q[i]] = t.es[t.q[i]]
  BY <1>5, <1>11, <1>12, QueuedFacts
<1>15. Queued(entries', t.q)
  <2>1. t.q \in Seq(DOMAIN es) /\ DOMAIN t.q = 1 .. Len(t.q)
    BY <1>5, <1>11, QueuedFacts
  <2>2. \A x \in DOMAIN es : entries'[x].state = "set" <=> \E j \in DOMAIN t.q : t.q[j] = x
    BY <1>5, <1>11, <1>12 DEF Queued
  <2>3. \A j, l \in DOMAIN t.q : entries'[t.q[j]].key = entries'[t.q[l]].key => j = l
    BY <1>5, <1>14, <2>1, QueuedFacts
  <2> QED BY <1>10, <2>1, <2>2, <2>3 DEF Queued
<1>16. Holds(entries', order', count')
  <2>1. Alloc(entries') = Alloc(es)
    BY <1>10, SameAlloc
  <2> QED BY <1>1, <1>4, <1>5, <1>11, <1>13, <1>15, <2>1 DEF Holds
<1>17. SameEntries(entries, order, Evictions, entries', order')
  BY <1>2, <1>4, <1>14 DEF SameEntries
<1> QED BY <1>16, <1>17

LEMMA ClearStep ==
  ASSUME TableInv, Clear
  PROVE  Holds(entries', order', count') /\ order' = <<>>
<1>1. entries' = Empty(Alloc(entries)) /\ order' = <<>> /\ count' = 0
  BY DEF Clear
<1>2. PICK i \in DOMAIN Sizes : DOMAIN entries = 0 .. (Sizes[i] - 1)
  BY DEF TableInv, Typed
<1>3. Alloc(entries) = Sizes[i]
  <2>1. /\ DOMAIN Empty(Sizes[i]) = 0 .. (Sizes[i] - 1) /\ Alloc(Empty(Sizes[i])) = Sizes[i]
    BY EmptyProperties DEF Empty
  <2> QED BY <1>2, <2>1, SameAlloc
<1>4. /\ Typed(entries') /\ Placed(entries') /\ Queued(entries', <<>>)
      /\ Alloc(entries') = Sizes[i] /\ Sizes[i] \in Nat /\ Sizes[i] > 2
  BY <1>1, <1>3, EmptyProperties
<1>5. 0 <= Load(Alloc(entries'))
  BY <1>4, LoadProperties
<1>6. Len(<<>>) = 0
  OBVIOUS
<1> QED BY <1>1, <1>4, <1>5, <1>6 DEF Holds

(*********************** The inductive invariants ****************************)
LEMMA HoldsPrimed ==
  ASSUME hash' = hash, hash \in Hashes, cap' \in Caps, used' \in Keys \cup {None},
         Holds(entries', order', count')
  PROVE  TableInv'
<1>1. Typed(entries)' /\ Queued(entries, order)'
  BY DEF Holds, Typed, Queued, Entry
<1>2. Placed(entries)'
  BY DEF Holds, Placed, Reached, Chain, Along, Step, Steps, Alloc
<1>3. (count = Len(order) /\ count <= Load(Alloc(entries)))'
  BY DEF Holds, Load, Alloc
<1> QED BY <1>1, <1>2, <1>3 DEF TableInv

LEMMA TableInvInitially ==
  Init => TableInv
<1> SUFFICES ASSUME Init PROVE TableInv
  OBVIOUS
<1> USE DEF Init
<1>1. 1 \in DOMAIN Sizes
  BY SizesAssumption
<1> DEFINE a == Sizes[1]
<1>2. /\ Typed(Empty(a)) /\ Placed(Empty(a)) /\ Queued(Empty(a), <<>>)
      /\ Alloc(Empty(a)) = a /\ a \in Nat /\ a > 2
  BY <1>1, EmptyProperties
<1>3. 0 <= Load(a) /\ Len(<<>>) = 0
  BY <1>2, LoadProperties
<1>4. entries = Empty(a) /\ order = <<>> /\ count = 0
  OBVIOUS
<1>5. hash \in Hashes /\ cap \in Caps /\ used \in Keys \cup {None}
  OBVIOUS
<1> HIDE DEF Init, a
<1> QED BY <1>2, <1>3, <1>4, <1>5 DEF TableInv

LEMMA TableInvKept ==
  ASSUME NoFaults, TableInv, [Next]_vars
  PROVE  TableInv'
<1>0. hash \in Hashes /\ cap \in Caps /\ used \in Keys \cup {None}
  BY DEF TableInv
<1>1. ASSUME NEW k \in Keys, Get(k) PROVE TableInv'
  <2>1. Holds(entries', order', count')
    BY <1>1, GetStep
  <2>2. hash' = hash /\ cap' = cap /\ used' \in Keys \cup {None}
    BY <1>1 DEF Get, Uses
  <2> QED BY <1>0, <2>1, <2>2, HoldsPrimed
<1>2. ASSUME NEW k \in Keys, AddCannotRehash(k) PROVE TableInv'
  <2>1. Holds(entries', order', count')
    BY <1>2, AddCannotRehashStep
  <2>2. hash' = hash /\ cap' = cap /\ used' = used
    BY <1>2 DEF AddCannotRehash
  <2> QED BY <1>0, <2>1, <2>2, HoldsPrimed
<1>3. ASSUME NEW k \in Keys, AddCannotCopyKey(k) PROVE TableInv'
  <2>1. Holds(entries', order', count')
    BY <1>3, AddCannotCopyKeyStep
  <2>2. hash' = hash /\ cap' = cap /\ used' = used
    BY <1>3 DEF AddCannotCopyKey
  <2> QED BY <1>0, <2>1, <2>2, HoldsPrimed
<1>4. ASSUME NEW k \in Keys, NEW v \in Values, Update(k, v) PROVE TableInv'
  <2>1. Holds(entries', order', count')
    BY <1>4, UpdateStep
  <2>2. hash' = hash /\ cap' = cap /\ used' \in Keys \cup {None}
    BY <1>4 DEF Update, Uses
  <2> QED BY <1>0, <2>1, <2>2, HoldsPrimed
<1>5. ASSUME NEW k \in Keys, NEW v \in Values, Add(k, v) PROVE TableInv'
  <2>1. Holds(entries', order', count')
    BY <1>5, AddStep
  <2>2. hash' = hash /\ cap' = cap /\ used' \in Keys \cup {None}
    BY <1>5 DEF Add, Uses
  <2> QED BY <1>0, <2>1, <2>2, HoldsPrimed
<1>6. CASE Clear
  <2>1. Holds(entries', order', count')
    BY <1>6, ClearStep
  <2>2. hash' = hash /\ cap' = cap /\ used' = used
    BY <1>6 DEF Clear
  <2> QED BY <1>0, <2>1, <2>2, HoldsPrimed
<1>7. CASE NextKey \/ NoNextKey \/ UNCHANGED vars
  <2>1. /\ entries' = entries /\ order' = order /\ count' = count
        /\ hash' = hash /\ cap' = cap /\ used' = used
    BY <1>7 DEF NextKey, NoNextKey, vars
  <2>2. Holds(entries, order, count)
    BY DEF TableInv, Holds
  <2>3. Holds(entries', order', count')
    BY <2>1, <2>2
  <2> QED BY <1>0, <2>1, <2>3, HoldsPrimed
<1> QED BY <1>1, <1>2, <1>3, <1>4, <1>5, <1>6, <1>7 DEF Next

(* A table of any size, with any hash function, keys and cap, keeps every     *)
(* entry where a lookup of its key gets, and its queue in step with it.       *)
THEOREM TableSound ==
  ASSUME NoFaults
  PROVE  Spec => []TableInv
BY TableInvInitially, TableInvKept, PTL DEF Spec

(* lws_table_next: the key it looks up again is still where it was in the     *)
(* queue.                                                                     *)
LEMMA NextSlotProperties ==
  ASSUME NoFaults, TableInv, VisitInv
  PROVE  NextSlot = IF Len(visited) < Len(order) THEN order[Len(visited) + 1] ELSE None
<1> DEFINE n == Len(visited)
           last == visited[n]
           f == Find(last)
           at == IF visited = <<>> THEN 0 ELSE SelectInSeq(order, LAMBDA s : s = f)
           found == visited = <<>> \/ f # None
<1>0. /\ hash \in Hashes /\ Typed(entries) /\ Placed(entries) /\ Queued(entries, order)
      /\ visited \in Seq(Keys) /\ n \in Nat /\ DOMAIN visited = 1 .. n /\ n <= Len(order)
      /\ \A i \in 1 .. n : visited[i] = entries[order[i]].key
      /\ Len(order) \in Nat /\ DOMAIN order = 1 .. Len(order)
  BY QueuedFacts DEF TableInv, VisitInv
<1>1. NextSlot = IF found /\ at < Len(order) THEN order[at + 1] ELSE None
  BY DEF NextSlot, Last
<1>2. found /\ at = n
  <2>1. CASE visited = <<>>
    BY <2>1
  <2>2. CASE visited # <<>>
    <3>1. n \in 1 .. n /\ n \in 1 .. Len(order) /\ n \in Nat
      BY <1>0, <2>2
    <3>2. last \in Keys /\ last = entries[order[n]].key
      BY <1>0, <3>1
    <3>3. f = order[n]
      <4> HIDE DEF n, last
      <4> QED BY <1>0, <3>1, <3>2, FindProperties DEF NoFaults
    <3>4. order[n] \in Nat /\ order[n] # None
      <4> HIDE DEF n
      <4>1. order[n] \in DOMAIN entries
        BY <1>0, <3>1, QueuedFacts
      <4>2. order[n] \in Nat
        BY <1>0, <4>1, AllocProperties
      <4> QED BY <4>2, KeyAssumption
    <3> DEFINE I == {j \in 1 .. Len(order) : order[j] = f}
    <3>5. I = {n}
      <4> HIDE DEF n, f
      <4>1. \A i, j \in 1 .. Len(order) : order[i] = order[j] => i = j
        BY <1>0, QueuedFacts
      <4> QED BY <3>1, <3>3, <4>1
    <3>6. SelectInSeq(order, LAMBDA s : s = f) = IF I # {} THEN Min(I) ELSE 0
      BY DEF SelectInSeq
    <3>7. (IF I # {} THEN Min(I) ELSE 0) = n
      <4> HIDE DEF I, n
      <4> QED BY <3>1, <3>5, OnlyIndex
    <3> HIDE DEF I, n, f
    <3> QED BY <2>2, <3>3, <3>4, <3>6, <3>7
  <2> QED BY <2>1, <2>2
<1> HIDE DEF at, found
<1> QED BY <1>0, <1>1, <1>2

LEMMA VisitInvStays ==
  ASSUME VisitInv, Len(order) \in Nat, visited' = visited, cap' = cap,
         visited # <<>> => /\ Len(order') \in Nat /\ Len(order) <= Len(order')
                           /\ \A i \in 1 .. Len(order) : entries'[order'[i]].key = entries[order[i]].key
  PROVE  VisitInv'
<1>1. CASE visited = <<>>
  BY <1>1, Len(visited) = 0 DEF VisitInv
<1>2. CASE visited # <<>>
  <2>1. Len(visited) \in Nat /\ DOMAIN visited = 1 .. Len(visited)
    BY DEF VisitInv
  <2> QED BY <1>2, <2>1 DEF VisitInv
<1> QED BY <1>1, <1>2

LEMMA VisitInvKept ==
  ASSUME NoFaults, TableInv, VisitInv, [Next]_vars
  PROVE  VisitInv'
<1>0. /\ Len(order) \in Nat /\ cap \in Nat /\ visited \in Seq(Keys) /\ Len(visited) \in Nat
      /\ DOMAIN visited = 1 .. Len(visited) /\ Queued(entries, order)
  BY QueuedFacts, CapAssumption DEF TableInv, VisitInv
<1>a. visited # <<>> => cap = 0 /\ Evictions = 0
  BY <1>0 DEF VisitInv, Evictions, MustEvict
<1>b. visited # <<>> => \A i, j : Before(i, j) = j
  BY <1>a DEF Before
<1>1. ASSUME NEW k \in Keys, Get(k) PROVE VisitInv'
  <2>1. visited' = visited /\ cap' = cap
    BY <1>1 DEF Get
  <2>2. PICK i \in 1 .. Len(order) :
          /\ Len(order') = Len(order)
          /\ \A j \in 1 .. Len(order) : entries'[order'[j]] = entries[order[Before(i, j)]]
    BY <1>1, GetStep
  <2>3. visited # <<>> => \A j \in 1 .. Len(order) : entries'[order'[j]].key = entries[order[j]].key
    BY <1>b, <2>2
  <2> QED BY <1>0, <2>1, <2>2, <2>3, VisitInvStays
<1>2. ASSUME NEW k \in Keys, AddCannotRehash(k) PROVE VisitInv'
  <2>1. visited' = visited /\ cap' = cap
    BY <1>2 DEF AddCannotRehash
  <2>2. SameEntries(entries, order, Evictions, entries', order')
    BY <1>2, AddCannotRehashStep
  <2> QED BY <1>0, <1>a, <2>1, <2>2, VisitInvStays DEF SameEntries
<1>3. ASSUME NEW k \in Keys, AddCannotCopyKey(k) PROVE VisitInv'
  <2>1. visited' = visited /\ cap' = cap
    BY <1>3 DEF AddCannotCopyKey
  <2>2. SameEntries(entries, order, Evictions, entries', order')
    BY <1>3, AddCannotCopyKeyStep
  <2> QED BY <1>0, <1>a, <2>1, <2>2, VisitInvStays DEF SameEntries
<1>4. ASSUME NEW k \in Keys, NEW v \in Values, Update(k, v) PROVE VisitInv'
  <2>1. visited' = visited /\ cap' = cap
    BY <1>4 DEF Update
  <2>2. PICK i \in 1 .. Len(order) :
           /\ Find(k) = order[i] /\ entries[order[i]].key = k
           /\ Holds(entries', order', count') /\ Len(order') = Len(order)
           /\ \A j \in 1 .. Len(order) :
                /\ entries'[order'[j]] = IF Before(i, j) = i THEN [entries[order[i]] EXCEPT !.value = v]
                                         ELSE entries[order[Before(i, j)]]
                /\ Before(i, j) \in 1 .. Len(order)
    BY <1>4, UpdateStep
  <2>3. \A j \in 1 .. Len(order) : entries[order[j]] \in Entry
    <3>1. entries \in [DOMAIN entries -> Entry]
      BY DEF TableInv, Typed
    <3> QED BY <1>0, <3>1, QueuedFacts
  <2>4. \A e \in Entry : [e EXCEPT !.value = v].key = e.key
    BY DEF Entry
  <2>5. visited # <<>> => \A j \in 1 .. Len(order) : entries'[order'[j]].key = entries[order[j]].key
    <3> SUFFICES ASSUME visited # <<>>, NEW j \in 1 .. Len(order)
                 PROVE  entries'[order'[j]].key = entries[order[j]].key
      OBVIOUS
    <3>1. entries'[order'[j]] = IF j = i THEN [entries[order[i]] EXCEPT !.value = v]
                                ELSE entries[order[j]]
      BY <1>b, <2>2
    <3> QED BY <2>3, <2>4, <3>1
  <2> QED BY <1>0, <2>1, <2>2, <2>5, VisitInvStays
<1>5. ASSUME NEW k \in Keys, NEW v \in Values, Add(k, v) PROVE VisitInv'
  <2>1. visited' = visited /\ cap' = cap
    BY <1>5 DEF Add
  <2>2. /\ Len(order') = Len(order) - Evictions + 1
        /\ \A i \in 1 .. (Len(order) - Evictions) : entries'[order'[i]] = entries[order[i + Evictions]]
    BY <1>5, AddStep
  <2> QED BY <1>0, <1>a, <2>1, <2>2, VisitInvStays
<1>6. CASE Clear
  <2>1. visited' = <<>> /\ cap' = cap /\ order' = <<>>
    BY <1>6 DEF Clear
  <2> QED BY <2>1 DEF VisitInv
<1>7. CASE NextKey
  <2>1. /\ cap = 0 /\ NextSlot # None /\ visited' = Append(visited, entries[NextSlot].key)
        /\ entries' = entries /\ order' = order /\ cap' = cap
    BY <1>7 DEF NextKey
  <2> DEFINE n == Len(visited)
             k == entries[order[n + 1]].key
  <2>2. n < Len(order) /\ NextSlot = order[n + 1]
    BY <2>1, NextSlotProperties
  <2>3. n + 1 \in 1 .. Len(order)
    BY <1>0, <2>2
  <2>4. k \in Keys
    <3> HIDE DEF n
    <3>1. order[n + 1] \in DOMAIN entries /\ entries[order[n + 1]].state = "set"
      BY <1>0, <2>3, QueuedFacts
    <3> QED BY <3>1 DEF TableInv, Typed
  <2>5. visited' = Append(visited, k)
    BY <2>1, <2>2
  <2>k. k = entries[order[n + 1]].key
    OBVIOUS
  <2> HIDE DEF k
  <2>6. /\ visited' \in Seq(Keys) /\ Len(visited') = n + 1
        /\ \A i \in 1 .. n : visited'[i] = visited[i]
        /\ visited'[n + 1] = k
    BY <1>0, <2>4, <2>5, AppendProperties
  <2>7. \A i \in 1 .. (n + 1) : visited'[i] = entries[order[i]].key
    <3> TAKE i \in 1 .. (n + 1)
    <3>1. CASE i \in 1 .. n
      BY <1>0, <2>6, <3>1 DEF VisitInv
    <3>2. CASE i = n + 1
      BY <2>6, <2>k, <3>2
    <3> QED BY <1>0, <3>1, <3>2
  <2>8. DOMAIN visited' = 1 .. (n + 1) /\ n + 1 <= Len(order)
    BY <1>0, <2>2, <2>6
  <2> QED BY <2>1, <2>6, <2>7, <2>8 DEF VisitInv
<1>8. CASE NoNextKey
  <2>1. visited' = <<>> /\ cap' = cap /\ order' = order
    BY <1>8 DEF NoNextKey
  <2> QED BY <1>0, <2>1 DEF VisitInv
<1>9. CASE UNCHANGED vars
  BY <1>9 DEF vars, VisitInv
<1> QED BY <1>1, <1>2, <1>3, <1>4, <1>5, <1>6, <1>7, <1>8, <1>9 DEF Next

LEMMA VisitInvInitially ==
  Init => VisitInv
BY Len(<<>>) = 0 /\ <<>> \in Seq(Keys) /\ DOMAIN <<>> = {} DEF Init, VisitInv

LEMMA TableInvariants ==
  ASSUME NoFaults
  PROVE  Spec => [](TableInv /\ VisitInv)
<1>1. Init => TableInv /\ VisitInv
  BY TableInvInitially, VisitInvInitially
<1>2. TableInv /\ VisitInv /\ [Next]_vars => (TableInv /\ VisitInv)'
  BY TableInvKept, VisitInvKept
<1> QED BY <1>1, <1>2, PTL DEF Spec

(* Every variable keeps its type, and there is at most one entry for a key.   *)
THEOREM TableTypes ==
  ASSUME NoFaults
  PROVE  Spec => []TypeOK
<1>1. TableInv /\ VisitInv => TypeOK
  <2> SUFFICES ASSUME TableInv, VisitInv PROVE TypeOK
    OBVIOUS
  <2>1. Typed(entries) /\ Queued(entries, order) /\ count = Len(order)
    BY DEF TableInv
  <2>2. \A s \in DOMAIN entries :
          /\ entries[s].state \in {"unused", "set", "deleted"}
          /\ entries[s].key \in Keys \cup {None} /\ entries[s].value \in Values \cup {None}
    <3> SUFFICES ASSUME NEW s \in DOMAIN entries, entries[s] \in Entry
                 PROVE  /\ entries[s].state \in {"unused", "set", "deleted"}
                        /\ entries[s].key \in Keys \cup {None} /\ entries[s].value \in Values \cup {None}
      BY <2>1 DEF Typed
    <3> QED BY DEF Entry
  <2>3. count \in 0 .. Cardinality(Keys)
    <3>1. Len(order) \in Nat /\ Len(order) <= Cardinality(Keys)
      BY <2>1, QueueCount
    <3>2. Cardinality(Keys) \in Nat
      BY KeyAssumption, FS_CardinalityType
    <3> QED BY <2>1, <3>1, <3>2
  <2>4. order \in Seq(DOMAIN entries)
    BY <2>1, QueuedFacts
  <2>5. \E i \in DOMAIN Sizes : DOMAIN entries = 0 .. (Sizes[i] - 1)
    BY <2>1 DEF Typed
  <2> QED BY <2>2, <2>3, <2>4, <2>5 DEF TypeOK, TableInv, VisitInv
<1> QED BY <1>1, TableInvariants, PTL

(* count, the queue and the set entries agree, whatever was moved, rehashed   *)
(* or evicted.                                                                *)
THEOREM TableCounts ==
  ASSUME NoFaults
  PROVE  Spec => []CountIsEntries
<1>1. TableInv => CountIsEntries
  <2> SUFFICES ASSUME TableInv PROVE CountIsEntries
    OBVIOUS
  <2>1. Typed(entries) /\ Queued(entries, order) /\ count = Len(order)
    BY DEF TableInv
  <2>2. Cardinality(SetSlots) = Len(order)
    BY <2>1, QueueCount DEF SetSlots
  <2>3. ToSet(order) = SetSlots
    <3>1. /\ DOMAIN order = 1 .. Len(order) /\ \A i \in 1 .. Len(order) : order[i] \in DOMAIN entries
      BY <2>1, QueuedFacts
    <3> QED BY <2>1, <3>1 DEF Queued, ToSet, SetSlots
  <2> QED BY <2>1, <2>2, <2>3 DEF CountIsEntries
<1> QED BY <1>1, TableSound, PTL

(* The load stays below the table's size, so that lws_table_insert always     *)
(* ends at a free slot.                                                       *)
THEOREM TableNeverFull ==
  ASSUME NoFaults
  PROVE  Spec => []LoadRespected
<1>1. TableInv => LoadRespected
  <2> SUFFICES ASSUME TableInv PROVE LoadRespected
    OBVIOUS
  <2>1. /\ Typed(entries) /\ Queued(entries, order) /\ count = Len(order)
        /\ count <= Load(Alloc(entries))
    BY DEF TableInv
  <2>2. Alloc(entries) \in Nat /\ Alloc(entries) > 2 /\ Len(order) \in Nat
    BY <2>1, AllocProperties, QueuedFacts
  <2>3. Load(Alloc(entries)) < Alloc(entries) /\ Load(Alloc(entries)) \in Nat
    BY <2>2, LoadProperties
  <2>4. Len(order) < Alloc(entries)
    BY <2>1, <2>2, <2>3
  <2>5. \E t \in DOMAIN entries : entries[t].state # "set"
    BY <2>1, <2>4, QueueCount
  <2> QED BY <2>1, <2>5 DEF LoadRespected, SetSlots
<1> QED BY <1>1, TableSound, PTL

(* What a lookup finds is an entry that is set.                               *)
THEOREM TableFindsOnlySet ==
  ASSUME NoFaults
  PROVE  Spec => []FindsOnlySet
<1>1. TableInv => FindsOnlySet
  <2> SUFFICES ASSUME TableInv, NEW k \in Keys, Find(k) # None PROVE Find(k) \in SetSlots
    BY DEF FindsOnlySet
  <2>1. PICK i \in 1 .. Len(order) : Find(k) = order[i]
    BY FoundProperties
  <2>2. order[i] \in DOMAIN entries /\ entries[order[i]].state = "set"
    BY QueuedFacts DEF TableInv
  <2> QED BY <2>1, <2>2 DEF SetSlots
<1> QED BY <1>1, TableSound, PTL

(* An iteration with lws_table_next gives every key once, in the queue's      *)
(* order, whatever is set meanwhile.                                          *)
THEOREM TablePairs ==
  ASSUME NoFaults
  PROVE  Spec => []PairsVisitsAll
<1>1. TableInv /\ VisitInv => PairsVisitsAll
  <2> SUFFICES ASSUME TableInv, VisitInv PROVE PairsVisitsAll
    OBVIOUS
  <2> DEFINE keys == [i \in DOMAIN order |-> entries[order[i]].key]
             n == Len(visited)
             N == Len(order)
  <2>1. /\ visited \in Seq(Keys) /\ n \in Nat /\ DOMAIN visited = 1 .. n /\ n <= N
        /\ N \in Nat /\ DOMAIN order = 1 .. N
        /\ \A i \in 1 .. n : visited[i] = entries[order[i]].key
    BY QueuedFacts DEF TableInv, VisitInv
  <2>2. \A i \in 1 .. N : entries[order[i]].key \in Keys
    BY QueuedFacts DEF TableInv, Typed
  <2>3. keys \in Seq(Keys) /\ Len(keys) = N /\ \A i \in 1 .. N : keys[i] = entries[order[i]].key
    BY <2>1, <2>2
  <2> HIDE DEF n, N, keys
  <2>4. IsPrefix(visited, keys)
    <3>1. SubSeq(visited, 1, n) = visited
      BY <2>1, SubSeqFull DEF n
    <3> DEFINE u == SubSeq(keys, 1, n)
    <3>2. /\ u \in Seq(Keys) /\ Len(u) = (IF 1 <= n THEN n - 1 + 1 ELSE 0)
          /\ \A i \in 1 .. (n - 1 + 1) : u[i] = keys[1 + i - 1]
      <4>1. 1 \in 1 .. (Len(keys) + 1) /\ n \in 0 .. Len(keys)
        BY <2>1, <2>3
      <4> QED BY <2>3, <4>1, SubSeqProperties
    <3> HIDE DEF u
    <3>3. Len(u) = n /\ \A i \in 1 .. n : u[i] = keys[i]
      BY <2>1, <3>2
    <3>4. \A i \in 1 .. n : i \in 1 .. N /\ u[i] = visited[i]
      BY <2>1, <2>3, <3>3
    <3>5. u = visited
      <4>1. u = [i \in 1 .. n |-> u[i]] /\ visited = [i \in 1 .. n |-> visited[i]]
        BY <2>1, <3>2, <3>3
      <4>2. [i \in 1 .. n |-> u[i]] = [i \in 1 .. n |-> visited[i]]
        BY <3>4
      <4> QED BY ONLY <4>1, <4>2
    <3> QED BY <2>1, <2>3, <3>1, <3>5 DEF IsPrefix, n, u
  <2>5. ASSUME NextSlot = None PROVE visited = keys
    <3>1. ~(n < N)
      <4> SUFFICES ASSUME n < N PROVE FALSE
        OBVIOUS
      <4>1. NextSlot = order[n + 1] /\ n + 1 \in 1 .. N
        BY <2>1, NextSlotProperties DEF n, N
      <4>2. order[n + 1] \in DOMAIN entries
        BY <4>1, QueuedFacts DEF TableInv, N
      <4>3. order[n + 1] \in Nat
        BY <4>2, AllocProperties DEF TableInv
      <4> QED BY <2>5, <4>1, <4>3, KeyAssumption
    <3>2. n = N
      BY <2>1, <3>1
    <3>3. \A i \in 1 .. n : visited[i] = keys[i]
      BY <2>1, <2>3, <3>2
    <3>4. visited = [i \in 1 .. n |-> visited[i]] /\ keys = [i \in 1 .. n |-> keys[i]]
      BY <2>1, <2>3, <3>2
    <3>5. [i \in 1 .. n |-> visited[i]] = [i \in 1 .. n |-> keys[i]]
      BY <3>3
    <3> QED BY ONLY <3>4, <3>5
  <2> QED BY <2>4, <2>5 DEF PairsVisitsAll, keys
<1> QED BY <1>1, TableInvariants, PTL

(**************************** The abstract map *******************************)
Item(e) == [key |-> e.key, value |-> e.value]
Content(es, q) == [i \in DOMAIN q |-> Item(es[q[i]])]
Items == [key : Keys \cup {None}, value : Values \cup {None}]

LEMMA ContentProperties ==
  ASSUME NEW es, NEW q, Typed(es), Queued(es, q)
  PROVE  /\ Content(es, q) \in Seq(Items) /\ Len(Content(es, q)) = Len(q)
         /\ DOMAIN Content(es, q) = 1 .. Len(q)
         /\ \A i \in 1 .. Len(q) : Content(es, q)[i] = Item(es[q[i]])
<1>1. /\ DOMAIN q = 1 .. Len(q) /\ Len(q) \in Nat
      /\ \A i \in 1 .. Len(q) : q[i] \in DOMAIN es
  BY QueuedFacts
<1>2. \A i \in 1 .. Len(q) : es[q[i]] \in Entry
  BY <1>1 DEF Typed
<1>3. \A e \in Entry : Item(e) \in Items
  BY DEF Entry, Item, Items
<1>4. Content(es, q) = [i \in 1 .. Len(q) |-> Item(es[q[i]])]
  BY <1>1 DEF Content
<1>5. Content(es, q) \in Seq(Items)
  BY <1>1, <1>2, <1>3, <1>4
<1> QED BY <1>1, <1>4, <1>5

(* Two sequences are the same when their elements are.                        *)
LEMMA SameSequence ==
  ASSUME NEW S, NEW T, NEW s \in Seq(S), NEW t \in Seq(T), Len(s) = Len(t),
         \A i \in 1 .. Len(s) : s[i] = t[i]
  PROVE  s = t
<1>1. s = [i \in 1 .. Len(s) |-> s[i]] /\ t = [i \in 1 .. Len(s) |-> t[i]]
  OBVIOUS
<1>2. [i \in 1 .. Len(s) |-> s[i]] = [i \in 1 .. Len(s) |-> t[i]]
  OBVIOUS
<1> QED BY ONLY <1>1, <1>2

LEMMA MapIndex ==
  ASSUME TableInv, NEW k
  PROVE  /\ \A i \in 1 .. Len(order) : entries[order[i]].key = k =>
              Map!Has(k) /\ Map!IndexOf(k) = i /\ Map!Lookup(k) = entries[order[i]].value
         /\ (\A i \in 1 .. Len(order) : entries[order[i]].key # k) => ~Map!Has(k) /\ Map!Lookup(k) = None
<1> DEFINE c == Content(entries, order)
           I == {i \in 1 .. Len(c) : c[i].key = k}
<1>1. /\ Len(c) = Len(order) /\ Len(order) \in Nat
      /\ \A i \in 1 .. Len(order) : c[i].key = entries[order[i]].key /\ c[i].value = entries[order[i]].value
      /\ \A i, j \in 1 .. Len(order) : entries[order[i]].key = entries[order[j]].key => i = j
  <2>1. Typed(entries) /\ Queued(entries, order)
    BY DEF TableInv
  <2>2. \A e : Item(e).key = e.key /\ Item(e).value = e.value
    BY DEF Item
  <2>3. Len(c) = Len(order) /\ \A i \in 1 .. Len(order) : c[i] = Item(entries[order[i]])
    BY <2>1, ContentProperties
  <2>4. /\ Len(order) \in Nat
        /\ \A i, j \in 1 .. Len(order) : entries[order[i]].key = entries[order[j]].key => i = j
    BY <2>1, QueuedFacts
  <2> HIDE DEF c
  <2> QED BY <2>2, <2>3, <2>4
<1>2. Map!IndexOf(k) = IF I # {} THEN Min(I) ELSE 0
  BY DEF Map!IndexOf, Map!SelectInSeq, Map!Min, Min, Content, Item
<1>3. Map!Lookup(k) = IF Map!Has(k) THEN c[Map!IndexOf(k)].value ELSE None
  BY DEF Map!Lookup, Content, Item
<1>4. Map!Has(k) <=> Map!IndexOf(k) # 0
  BY DEF Map!Has
<1> HIDE DEF c
<1>5. ASSUME NEW i \in 1 .. Len(order), entries[order[i]].key = k
      PROVE  Map!Has(k) /\ Map!IndexOf(k) = i /\ Map!Lookup(k) = entries[order[i]].value
  <2>1. I = {i} /\ i \in Nat /\ i # 0
    BY <1>1, <1>5
  <2> HIDE DEF I
  <2>2. Map!IndexOf(k) = i
    BY <1>2, <2>1, OnlyIndex
  <2>3. Map!Has(k)
    BY <1>4, <2>1, <2>2
  <2> QED BY <1>1, <1>3, <2>2, <2>3
<1>6. ASSUME \A i \in 1 .. Len(order) : entries[order[i]].key # k
      PROVE  ~Map!Has(k) /\ Map!Lookup(k) = None
  <2>1. I = {}
    BY <1>1, <1>6
  <2> HIDE DEF I
  <2>2. Map!IndexOf(k) = 0
    BY <1>2, <2>1
  <2> QED BY <1>3, <1>4, <2>2
<1> QED BY <1>5, <1>6

(* A lookup returns what the map holds: no move, rehash or tombstone has cut  *)
(* a probe chain.                                                             *)
THEOREM TableLookups ==
  ASSUME NoFaults
  PROVE  Spec => []LookupAgrees
<1>1. TableInv => LookupAgrees
  <2> SUFFICES ASSUME TableInv, NEW k \in Keys
               PROVE  (IF Find(k) = None THEN None ELSE entries[Find(k)].value) = Map!Lookup(k)
    BY DEF LookupAgrees
  <2>1. CASE Find(k) = None
    <3>1. Map!Lookup(k) = None
      BY <2>1, NotFoundProperties, MapIndex
    <3> QED BY <2>1, <3>1
  <2>2. CASE Find(k) # None
    <3>1. PICK i \in 1 .. Len(order) : Find(k) = order[i] /\ entries[order[i]].key = k
      BY <2>2, FoundProperties
    <3>2. Map!Lookup(k) = entries[order[i]].value
      BY <3>1, MapIndex
    <3> QED BY <2>2, <3>1, <3>2
  <2> QED BY <2>1, <2>2
<1> QED BY <1>1, TableSound, PTL

LEMMA UsedProperties ==
  ASSUME TableInv, NEW i \in 1 .. Len(order), NEW v \in Values \cup {None}
  PROVE  /\ Map!Used(i, v) \in Seq(Items) /\ Len(Map!Used(i, v)) = Len(order)
         /\ \A j \in 1 .. Len(order) :
              Map!Used(i, v)[j] =
                IF Before(i, j) = i THEN [Content(entries, order)[i] EXCEPT !.value = v]
                ELSE Content(entries, order)[Before(i, j)]
<1> DEFINE c == Content(entries, order)
           n == Len(order)
           e == [c[i] EXCEPT !.value = v]
           u == Map!Used(i, v)
<1>1. c \in Seq(Items) /\ Len(c) = n /\ n \in Nat /\ cap \in Nat /\ i \in 1 .. n
  BY ContentProperties, QueuedFacts, CapAssumption DEF TableInv
<1>2. u = IF cap > 0 THEN Append(RemoveAt(c, i), e) ELSE [c EXCEPT ![i] = e]
  BY DEF Map!Used, Map!RemoveAt, RemoveAt, Map!ReplaceAt, Content, Item
<1> HIDE DEF c, u
<1>3. e \in Items
  <2>1. c[i] \in Items
    BY <1>1
  <2> DEFINE x == c[i]
  <2> HIDE DEF x
  <2>2. x \in Items => [x EXCEPT !.value = v] \in Items
    BY DEF Items
  <2> QED BY <2>1, <2>2 DEF x
<1> HIDE DEF e
<1>4. CASE cap > 0
  <2> DEFINE t == Append(RemoveAt(c, i), e)
  <2>1. u = t
    BY <1>2, <1>4
  <2>2. /\ t \in Seq(Items) /\ Len(t) = n
        /\ \A j \in 1 .. n : t[j] = IF j < i THEN c[j] ELSE IF j < n THEN c[j + 1] ELSE e
    <3>1. n = Len(c)
      BY <1>1
    <3> HIDE DEF n
    <3> QED BY ONLY <1>1, <1>3, <3>1, ToTail
  <2> HIDE DEF t
  <2>3. \A j \in 1 .. n : t[j] = IF Before(i, j) = i THEN e ELSE c[Before(i, j)]
    <3> TAKE j \in 1 .. n
    <3>1. Before(i, j) = IF j < i THEN j ELSE IF j < n THEN j + 1 ELSE i
      BY <1>1, <1>4 DEF Before
    <3> HIDE DEF n
    <3> QED BY <1>1, <2>2, <3>1
  <2> QED BY <2>1, <2>2, <2>3 DEF c, e, u
<1>5. CASE ~(cap > 0)
  <2>1. u = [c EXCEPT ![i] = e]
    BY <1>2, <1>5
  <2>2. /\ u \in Seq(Items) /\ Len(u) = n
        /\ \A j \in 1 .. n : u[j] = IF j = i THEN e ELSE c[j]
    <3> HIDE DEF n
    <3> QED BY <1>1, <1>3, <2>1
  <2>3. \A j \in 1 .. n : Before(i, j) = j
    BY <1>1, <1>5 DEF Before
  <2>4. \A j \in 1 .. n : u[j] = IF Before(i, j) = i THEN e ELSE c[Before(i, j)]
    BY <2>2, <2>3
  <2> QED BY <2>2, <2>4 DEF c, e, u
<1> QED BY <1>4, <1>5

(* What is left when room is made under the cap.                              *)
LEMMA MapEvictedProperties ==
  ASSUME TableInv
  PROVE  /\ Map!Evicted \in Seq(Items) /\ Len(Map!Evicted) = Len(order) - Evictions
         /\ Len(order) - Evictions \in Nat
         /\ \A i \in 1 .. (Len(order) - Evictions) :
              Map!Evicted[i] = Content(entries, order)[i + Evictions]
<1> DEFINE c == Content(entries, order)
           n == Len(order)
           u == Map!Evicted
<1>1. c \in Seq(Items) /\ Len(c) = n /\ n \in Nat /\ cap \in Nat /\ count = n
  BY ContentProperties, QueuedFacts, CapAssumption DEF TableInv
<1>2. u = IF cap > 0 /\ Len(c) = cap THEN Tail(c) ELSE c
  BY DEF Map!Evicted, Map!Full, Content, Item
<1> HIDE DEF c, n, u
<1>3. CASE MustEvict
  <2>1. u = Tail(c) /\ c # <<>> /\ Evictions = 1
    <3>1. cap > 0 /\ Len(c) = cap
      BY <1>1, <1>3 DEF MustEvict
    <3>2. c # <<>>
      BY <1>1, <3>1
    <3> QED BY <1>2, <1>3, <3>1, <3>2 DEF Evictions
  <2>2. /\ u \in Seq(Items) /\ Len(u) = n - 1 /\ \A i \in 1 .. Len(u) : u[i] = c[i + 1]
    BY <1>1, <2>1, HeadTailProperties
  <2>3. n - 1 \in Nat
    BY <2>2
  <2> QED BY <2>1, <2>2, <2>3 DEF c, n, u
<1>4. CASE ~MustEvict
  <2>1. u = c /\ Evictions = 0
    BY <1>1, <1>2, <1>4 DEF MustEvict, Evictions
  <2> QED BY <1>1, <2>1 DEF c, n, u
<1> QED BY <1>3, <1>4

LEMMA EvictedContent ==
  ASSUME TableInv, SameEntries(entries, order, Evictions, entries', order'),
         Holds(entries', order', count')
  PROVE  Content(entries', order') = Map!Evicted
<1> DEFINE c == Content(entries, order)
           d == Content(entries', order')
           u == Map!Evicted
           n == Len(order) - Evictions
<1>1. /\ u \in Seq(Items) /\ Len(u) = n /\ n \in Nat /\ \A i \in 1 .. n : u[i] = c[i + Evictions]
  BY MapEvictedProperties
<1>2. /\ Typed(entries') /\ Queued(entries', order')
      /\ Len(order') = n /\ \A i \in 1 .. n : entries'[order'[i]] = entries[order[i + Evictions]]
  BY DEF SameEntries, Holds
<1>3. d \in Seq(Items) /\ Len(d) = n /\ \A i \in 1 .. n : d[i] = Item(entries'[order'[i]])
  BY <1>2, ContentProperties
<1>4. \A i \in 1 .. Len(order) : c[i] = Item(entries[order[i]])
  BY ContentProperties DEF TableInv
<1>5. \A i \in 1 .. n : i + Evictions \in 1 .. Len(order)
  <2>1. Evictions \in {0, 1} /\ Len(order) \in Nat
    BY QueuedFacts DEF Evictions, TableInv
  <2> QED BY <2>1
<1> HIDE DEF c, d, u, n
<1>6. \A i \in 1 .. n : d[i] = u[i]
  BY <1>1, <1>2, <1>3, <1>4, <1>5
<1>7. d = u
  BY <1>1, <1>3, <1>6, SameSequence
<1> QED BY <1>7 DEF d, u

LEMMA MapContent ==
  /\ Content(entries, order) =
       [i \in DOMAIN order |-> [key |-> entries[order[i]].key, value |-> entries[order[i]].value]]
  /\ Content(entries', order') =
       [i \in DOMAIN order |-> [key |-> entries[order[i]].key, value |-> entries[order[i]].value]]'
BY DEF Content, Item

LEMMA GetIsMapGet ==
  ASSUME NoFaults, TableInv, NEW k \in Keys, Get(k)
  PROVE  Map!Get(k)
<1> DEFINE c == Content(entries, order)
           d == Content(entries', order')
           n == Len(order)
<1>1. PICK i \in 1 .. Len(order) :
        /\ Find(k) = order[i] /\ entries[order[i]].key = k
        /\ Holds(entries', order', count') /\ Len(order') = Len(order)
        /\ \A j \in 1 .. Len(order) :
             entries'[order'[j]] = entries[order[Before(i, j)]] /\ Before(i, j) \in 1 .. Len(order)
  BY GetStep
<1>2. Map!Has(k) /\ Map!IndexOf(k) = i /\ Map!Lookup(k) = entries[order[i]].value
  BY <1>1, MapIndex
<1> DEFINE v == entries[order[i]].value
           u == Map!Used(i, v)
<1>3. c \in Seq(Items) /\ Len(c) = n /\ \A j \in 1 .. n : c[j] = Item(entries[order[j]])
  BY ContentProperties DEF TableInv
<1>4. d \in Seq(Items) /\ Len(d) = n /\ \A j \in 1 .. n : d[j] = Item(entries'[order'[j]])
  <2>1. Typed(entries') /\ Queued(entries', order') /\ Len(order') = n
    BY <1>1 DEF Holds
  <2> QED BY <2>1, ContentProperties
<1>5. v \in Values \cup {None} /\ [c[i] EXCEPT !.value = v] = c[i]
  <2>1. c[i] \in Items /\ c[i] = Item(entries[order[i]])
    BY <1>3
  <2>2. v = c[i].value
    BY <2>1 DEF Item
  <2> DEFINE x == c[i]
  <2> HIDE DEF x
  <2>3. x \in Items => x.value \in Values \cup {None} /\ [x EXCEPT !.value = x.value] = x
    BY DEF Items
  <2> QED BY <2>1, <2>2, <2>3 DEF x
<1>6. /\ u \in Seq(Items) /\ Len(u) = n
      /\ \A j \in 1 .. n : u[j] = IF Before(i, j) = i THEN [c[i] EXCEPT !.value = v] ELSE c[Before(i, j)]
  <2> HIDE DEF v
  <2> QED BY <1>5, UsedProperties
<1> HIDE DEF c, d, n, v, u
<1>7. \A j \in 1 .. n : d[j] = u[j]
  <2> TAKE j \in 1 .. n
  <2>1. d[j] = Item(entries[order[Before(i, j)]]) /\ Before(i, j) \in 1 .. n
    BY <1>1, <1>4 DEF n
  <2>2. d[j] = c[Before(i, j)]
    BY <1>3, <2>1
  <2>3. u[j] = c[Before(i, j)]
    BY <1>5, <1>6
  <2> QED BY <2>2, <2>3
<1>8. d = u
  BY <1>4, <1>6, <1>7, SameSequence
<1>9. Map!Uses(k)
  BY DEF Get, Uses, Map!Uses
<1> QED BY <1>2, <1>8, <1>9, MapContent DEF Map!Get, d, u, v

LEMMA UpdateIsMapSet ==
  ASSUME NoFaults, TableInv, NEW k \in Keys, NEW v \in Values, Update(k, v)
  PROVE  Map!Set(k, v)
<1> DEFINE c == Content(entries, order)
           d == Content(entries', order')
           n == Len(order)
<1>1. PICK i \in 1 .. Len(order) :
        /\ Find(k) = order[i] /\ entries[order[i]].key = k
        /\ Holds(entries', order', count') /\ Len(order') = Len(order)
        /\ \A j \in 1 .. Len(order) :
             /\ entries'[order'[j]] = IF Before(i, j) = i THEN [entries[order[i]] EXCEPT !.value = v]
                                      ELSE entries[order[Before(i, j)]]
             /\ Before(i, j) \in 1 .. Len(order)
  BY UpdateStep
<1>2. Map!Has(k) /\ Map!IndexOf(k) = i
  BY <1>1, MapIndex
<1> DEFINE u == Map!Used(i, v)
<1>3. c \in Seq(Items) /\ Len(c) = n /\ \A j \in 1 .. n : c[j] = Item(entries[order[j]])
  BY ContentProperties DEF TableInv
<1>4. d \in Seq(Items) /\ Len(d) = n /\ \A j \in 1 .. n : d[j] = Item(entries'[order'[j]])
  <2>1. Typed(entries') /\ Queued(entries', order') /\ Len(order') = n
    BY <1>1 DEF Holds
  <2> QED BY <2>1, ContentProperties
<1>5. [c[i] EXCEPT !.value = v] = Item([entries[order[i]] EXCEPT !.value = v])
  <2>1. c[i] = Item(entries[order[i]])
    BY <1>3
  <2> DEFINE x == entries[order[i]]
  <2>2. x \in Entry
    <3>1. order[i] \in DOMAIN entries
      BY QueuedFacts DEF TableInv
    <3> QED BY <3>1 DEF TableInv, Typed
  <2> HIDE DEF x
  <2>3. x \in Entry => [Item(x) EXCEPT !.value = v] = Item([x EXCEPT !.value = v])
    BY DEF Entry, Item
  <2> QED BY <2>1, <2>2, <2>3 DEF x
<1>6. /\ u \in Seq(Items) /\ Len(u) = n
      /\ \A j \in 1 .. n : u[j] = IF Before(i, j) = i THEN [c[i] EXCEPT !.value = v] ELSE c[Before(i, j)]
  BY UsedProperties
<1> HIDE DEF c, d, n, u
<1>7. \A j \in 1 .. n : d[j] = u[j]
  <2> TAKE j \in 1 .. n
  <2>1. /\ entries'[order'[j]] = IF Before(i, j) = i THEN [entries[order[i]] EXCEPT !.value = v]
                                 ELSE entries[order[Before(i, j)]]
        /\ Before(i, j) \in 1 .. n
    BY <1>1 DEF n
  <2>2. CASE Before(i, j) = i
    BY <1>4, <1>5, <1>6, <2>1, <2>2
  <2>3. CASE Before(i, j) # i
    BY <1>3, <1>4, <1>6, <2>1, <2>3
  <2> QED BY <2>2, <2>3
<1>8. d = u
  BY <1>4, <1>6, <1>7, SameSequence
<1>9. Map!Uses(k)
  BY DEF Update, Uses, Map!Uses
<1> QED BY <1>2, <1>8, <1>9, MapContent DEF Map!Set, d, u

LEMMA AddIsMapSet ==
  ASSUME NoFaults, TableInv, NEW k \in Keys, NEW v \in Values, Add(k, v)
  PROVE  Map!Set(k, v)
<1> DEFINE d == Content(entries', order')
           n == Len(order) - Evictions
           w == Map!Evicted
           e == [key |-> k, value |-> v]
           u == Append(w, e)
           m == n + 1
<1>1. /\ Holds(entries', order', count') /\ Len(order') = m
      /\ \A i \in 1 .. n : entries'[order'[i]] = entries[order[i + Evictions]]
      /\ entries'[order'[m]] = [state |-> "set", key |-> k, value |-> v]
  BY AddStep
<1>2. /\ w \in Seq(Items) /\ Len(w) = n /\ n \in Nat
      /\ \A i \in 1 .. n : w[i] = Content(entries, order)[i + Evictions]
  BY MapEvictedProperties
<1>3. d \in Seq(Items) /\ Len(d) = m /\ \A j \in 1 .. m : d[j] = Item(entries'[order'[j]])
  <2>1. Typed(entries') /\ Queued(entries', order') /\ Len(order') = m
    BY <1>1 DEF Holds
  <2> QED BY <2>1, ContentProperties
<1>4. \A i \in 1 .. n : i + Evictions \in 1 .. Len(order)
  <2>1. Evictions \in {0, 1} /\ Len(order) \in Nat
    BY QueuedFacts DEF Evictions, TableInv
  <2> QED BY <2>1
<1>5. \A i \in 1 .. n : w[i] = Item(entries[order[i + Evictions]])
  <2>1. \A i \in 1 .. Len(order) : Content(entries, order)[i] = Item(entries[order[i]])
    BY ContentProperties DEF TableInv
  <2> QED BY <1>2, <1>4, <2>1
<1>6. e \in Items /\ Item([state |-> "set", key |-> k, value |-> v]) = e
  BY DEF Items, Item
<1>u. u = Append(w, e) /\ m = n + 1
  OBVIOUS
<1> HIDE DEF d, n, w, e, u, m
<1>7. /\ u \in Seq(Items) /\ Len(u) = m /\ u[m] = e
      /\ \A i \in 1 .. n : u[i] = w[i]
  BY <1>2, <1>6, <1>u, AppendProperties
<1>8. \A j \in 1 .. m : d[j] = u[j]
  <2> TAKE j \in 1 .. m
  <2>1. CASE j = m
    <3>1. d[m] = Item(entries'[order'[m]])
      BY <1>3, <2>1
    <3> QED BY <1>1, <1>6, <1>7, <2>1, <3>1
  <2>2. CASE j \in 1 .. n
    BY <1>1, <1>3, <1>5, <1>7, <2>2
  <2>3. j = m \/ j \in 1 .. n
    BY <1>2, <1>u
  <2> QED BY <2>1, <2>2, <2>3
<1>9. d = u
  BY <1>3, <1>7, <1>8, SameSequence
<1>10. ~Map!Has(k)
  <2>1. Find(k) = None
    BY DEF Add
  <2> QED BY <2>1, NotFoundProperties, MapIndex
<1>11. Map!Uses(k)
  BY DEF Add, Uses, Map!Uses
<1> QED BY <1>9, <1>10, <1>11, <1>u, MapContent DEF Map!Set, d, w, e

LEMMA FailedAddIsMapSetFails ==
  ASSUME NoFaults, TableInv, NEW k \in Keys, AddCannotRehash(k) \/ AddCannotCopyKey(k)
  PROVE  Map!SetFails(k)
<1>1. Find(k) = None /\ used' = used
  BY DEF AddCannotRehash, AddCannotCopyKey
<1>2. SameEntries(entries, order, Evictions, entries', order') /\ Holds(entries', order', count')
  BY AddCannotRehashStep, AddCannotCopyKeyStep
<1>3. Content(entries', order') = Map!Evicted
  BY <1>2, EvictedContent
<1>4. ~Map!Has(k)
  BY <1>1, NotFoundProperties, MapIndex
<1> QED BY <1>1, <1>3, <1>4, MapContent DEF Map!SetFails

(* The table implements the map it is used as: every operation is one of the  *)
(* map's, in the map's order and with the map's eviction, however the entries *)
(* are placed, moved and rehashed.                                            *)
THEOREM TableRefines ==
  ASSUME NoFaults
  PROVE  Spec => ImplementsMap
<1>1. Init => Map!Init
  <2> SUFFICES ASSUME Init PROVE Map!Init
    OBVIOUS
  <2>1. order = <<>> /\ cap \in Caps /\ used = None
    BY DEF Init
  <2>2. Content(entries, order) = <<>>
    <3>1. Content(entries, order) = [i \in {} |-> Item(entries[order[i]])]
      BY <2>1, DOMAIN <<>> = {} DEF Content
    <3> QED BY <3>1
  <2> QED BY <2>1, <2>2, MapContent DEF Map!Init
<1>2. TableInv /\ [Next]_vars => [Map!Next]_(Map!vars)
  <2> SUFFICES ASSUME TableInv, [Next]_vars PROVE [Map!Next]_(Map!vars)
    OBVIOUS
  <2>1. ASSUME NEW k \in Keys, Get(k) PROVE Map!Next
    <3>1. Map!Get(k)
      BY <2>1, GetIsMapGet
    <3>2. cap' = cap
      BY <2>1 DEF Get
    <3> QED BY <3>1, <3>2 DEF Map!Next
  <2>2. ASSUME NEW k \in Keys, AddCannotRehash(k) \/ AddCannotCopyKey(k) PROVE Map!Next
    <3>1. Map!SetFails(k)
      BY <2>2, FailedAddIsMapSetFails
    <3>2. cap' = cap
      BY <2>2 DEF AddCannotRehash, AddCannotCopyKey
    <3> QED BY <3>1, <3>2 DEF Map!Next
  <2>3. ASSUME NEW k \in Keys, NEW v \in Values, Update(k, v) \/ Add(k, v) PROVE Map!Next
    <3>1. Map!Set(k, v)
      BY <2>3, UpdateIsMapSet, AddIsMapSet
    <3>2. cap' = cap
      BY <2>3 DEF Update, Add
    <3> QED BY <3>1, <3>2 DEF Map!Next
  <2>4. CASE Clear
    <3>1. order' = <<>> /\ cap' = cap /\ used' = used
      BY <2>4 DEF Clear
    <3>2. Content(entries', order') = <<>>
      <4>1. Content(entries', order') = [i \in {} |-> Item(entries'[order'[i]])]
        BY <3>1, DOMAIN <<>> = {} DEF Content
      <4> QED BY <4>1
    <3>3. Map!Clear
      BY <3>1, <3>2, MapContent DEF Map!Clear
    <3> QED BY <3>1, <3>3 DEF Map!Next
  <2>5. CASE NextKey \/ NoNextKey \/ UNCHANGED vars
    <3>1. entries' = entries /\ order' = order /\ cap' = cap /\ used' = used
      BY <2>5 DEF NextKey, NoNextKey, vars
    <3>2. Content(entries', order') = Content(entries, order)
      BY <3>1
    <3> QED BY <3>1, <3>2, MapContent DEF Map!vars
  <2> QED BY <2>1, <2>2, <2>3, <2>4, <2>5 DEF Next
<1> QED BY <1>1, <1>2, TableSound, PTL DEF Spec, ImplementsMap, Map!Spec

===============================================================================
