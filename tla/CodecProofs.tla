------------------------------ MODULE CodecProofs -----------------------------
(* Theorems about the codec, for every length: the automaton that validates   *)
(* UTF-8 decides what the standard's table says, and the conversions to and   *)
(* from base64, in place, compute what RFC 4648 says.                         *)
EXTENDS Base64, Utf8, ProbeTheorems

(********************************* UTF-8 *************************************)
(* One clause of the definition of Judged.                                    *)
Verdict(s, f, i) ==
  IF i > Len(s) THEN "complete"
  ELSE IF ~Begins(s, i) THEN "malformed"
  ELSE IF After(s, i) > Len(s) + 1 THEN "cut off" ELSE f[After(s, i)]

Judges(s, f) == f = [i \in 1 .. (Len(s) + 1) |-> Verdict(s, f, i)]

LEMMA ByteAlone == ASSUME NEW b, b \in 0 .. 127 PROVE Sequences(b) = <<>>
<1>1. Sequences(b) = Alone
  BY DEF Sequences
<1> QED BY <1>1 DEF Alone

LEMMA SequencesProperties ==
  ASSUME NEW b, IsLead(b)
  PROVE  /\ Len(Sequences(b)) \in 0 .. 3 /\ DOMAIN Sequences(b) = 1 .. Len(Sequences(b))
         /\ b \in 0 .. 127 => Len(Sequences(b)) = 0
<1>1. b \in 0 .. 127 => Sequences(b) = <<>>
  BY ByteAlone
<1>2. b \in 194 .. 223 => Sequences(b) = <<Rest>>
  BY DEF Sequences
<1>3. b = 224 => Sequences(b) = <<160 .. 191, Rest>>
  BY DEF Sequences
<1>4. b \in (225 .. 236) \cup {238, 239} => Sequences(b) = <<Rest, Rest>>
  BY DEF Sequences
<1>5. b = 237 => Sequences(b) = <<128 .. 159, Rest>>
  BY DEF Sequences
<1>6. b = 240 => Sequences(b) = <<144 .. 191, Rest, Rest>>
  BY DEF Sequences
<1>7. b \in 241 .. 243 => Sequences(b) = <<Rest, Rest, Rest>>
  BY DEF Sequences
<1>8. b = 244 => Sequences(b) = <<128 .. 143, Rest, Rest>>
  BY DEF Sequences
<1>9. \/ b \in 0 .. 127
      \/ b \in 194 .. 223
      \/ b = 224
      \/ b \in (225 .. 236) \cup {238, 239}
      \/ b = 237
      \/ b = 240
      \/ b \in 241 .. 243
      \/ b = 244
  BY DEF IsLead
<1> DEFINE Short(t) == Len(t) \in 0 .. 3 /\ DOMAIN t = 1 .. Len(t)
<1>10. Short(<<>>) /\ Len(<<>>) = 0
  OBVIOUS
<1>11. \A x : Short(<<x>>)
  OBVIOUS
<1>12. \A x, y : Short(<<x, y>>)
  OBVIOUS
<1>13. \A x, y, z : Short(<<x, y, z>>)
  OBVIOUS
<1> HIDE DEF Short
<1>14. Short(Sequences(b))
  <2>1. CASE b \in 0 .. 127
    BY <1>1, <1>10, <2>1
  <2>2. CASE b \in 194 .. 223
    BY <1>2, <1>11, <2>2
  <2>3. CASE b = 224 \/ b \in (225 .. 236) \cup {238, 239} \/ b = 237
    BY <1>3, <1>4, <1>5, <1>12, <2>3
  <2>4. CASE b = 240 \/ b \in 241 .. 243 \/ b = 244
    BY <1>6, <1>7, <1>8, <1>13, <2>4
  <2> QED BY <1>9, <2>1, <2>2, <2>3, <2>4
<1> QED BY <1>1, <1>10, <1>14 DEF Short

LEMMA AfterProperties ==
  ASSUME NEW s, NEW i \in Nat, Begins(s, i)
  PROVE  After(s, i) \in (i + 1) .. (i + 4)
<1>1. Len(Sequences(s[i])) \in 0 .. 3
  BY SequencesProperties DEF Begins
<1>2. \A l \in 0 .. 3 : i + 1 + l \in (i + 1) .. (i + 4)
  OBVIOUS
<1> QED BY <1>1, <1>2 DEF After

Verdicts == {"complete", "malformed", "cut off"}

(* f satisfies the clauses of Judged from position j on.                      *)
JudgesFrom(s, f, j) ==
  /\ f \in [1 .. (Len(s) + 1) -> Verdicts]
  /\ \A i \in j .. (Len(s) + 1) : f[i] = Verdict(s, f, i)

(* Each clause uses later ones only.                                          *)
LEMMA VerdictsAgree ==
  ASSUME NEW s \in Seq(0 .. 255), NEW i \in 1 .. (Len(s) + 1), NEW f, NEW g,
         \A k \in (i + 1) .. (Len(s) + 1) : g[k] = f[k]
  PROVE  Verdict(s, g, i) = Verdict(s, f, i)
<1>1. CASE i > Len(s) \/ ~Begins(s, i) \/ After(s, i) > Len(s) + 1
  BY <1>1 DEF Verdict
<1>2. CASE ~(i > Len(s) \/ ~Begins(s, i) \/ After(s, i) > Len(s) + 1)
  <2>1. After(s, i) \in (i + 1) .. (i + 4)
    BY <1>2, AfterProperties
  <2>2. After(s, i) \in (i + 1) .. (Len(s) + 1)
    BY <1>2, <2>1
  <2>3. g[After(s, i)] = f[After(s, i)]
    BY <2>2
  <2> QED BY <1>2, <2>3 DEF Verdict
<1> QED BY <1>1, <1>2

LEMMA OneMoreVerdict ==
  ASSUME NEW s \in Seq(0 .. 255), NEW j \in 1 .. Len(s), NEW f, JudgesFrom(s, f, j + 1)
  PROVE  \E g : JudgesFrom(s, g, j)
<1> DEFINE D == 1 .. (Len(s) + 1)
           v == Verdict(s, f, j)
           g == [f EXCEPT ![j] = v]
<1>1. /\ f \in [D -> Verdicts] /\ j \in D
      /\ \A i \in (j + 1) .. (Len(s) + 1) : f[i] = Verdict(s, f, i)
  BY DEF JudgesFrom
<1>2. v \in Verdicts
  <2>1. CASE j > Len(s) \/ ~Begins(s, j) \/ After(s, j) > Len(s) + 1
    BY <2>1 DEF Verdict, Verdicts
  <2>2. CASE ~(j > Len(s) \/ ~Begins(s, j) \/ After(s, j) > Len(s) + 1)
    <3>1. After(s, j) \in (j + 1) .. (j + 4)
      BY <2>2, AfterProperties
    <3>2. After(s, j) \in D
      BY <2>2, <3>1
    <3>3. f[After(s, j)] \in Verdicts
      BY <1>1, <3>2
    <3> QED BY <2>2, <3>3 DEF Verdict
  <2> QED BY <2>1, <2>2
<1> HIDE DEF v
<1>3. g \in [D -> Verdicts] /\ g[j] = v /\ \A i \in D : i # j => g[i] = f[i]
  BY <1>1, <1>2
<1> HIDE DEF g
<1>4. \A i \in j .. (Len(s) + 1) : Verdict(s, g, i) = Verdict(s, f, i)
  <2> TAKE i \in j .. (Len(s) + 1)
  <2>1. i \in D /\ \A k \in (i + 1) .. (Len(s) + 1) : k \in D /\ k # j
    OBVIOUS
  <2>2. \A k \in (i + 1) .. (Len(s) + 1) : g[k] = f[k]
    BY <1>3, <2>1
  <2> QED BY <2>1, <2>2, VerdictsAgree
<1>5. \A i \in j .. (Len(s) + 1) : g[i] = Verdict(s, g, i)
  <2> TAKE i \in j .. (Len(s) + 1)
  <2>1. CASE i = j
    BY <1>3, <1>4, <2>1 DEF v
  <2>2. CASE i # j
    <3>1. i \in (j + 1) .. (Len(s) + 1) /\ i \in D
      BY <2>2
    <3> QED BY <1>1, <1>3, <1>4, <2>2, <3>1
  <2> QED BY <2>1, <2>2
<1> QED BY <1>3, <1>5 DEF JudgesFrom

(* Judged is well defined: its recursion leads towards the end of s.          *)
LEMMA JudgedExists ==
  ASSUME NEW s \in Seq(0 .. 255)
  PROVE  \E f : Judges(s, f)
<1> DEFINE n == Len(s)
           S == {m \in Nat : m <= n => \E f : JudgesFrom(s, f, n + 1 - m)}
<1>1. n \in Nat
  OBVIOUS
<1>2. 0 \in S
  <2> DEFINE f == [i \in 1 .. (n + 1) |-> "complete"]
  <2>1. f \in [1 .. (n + 1) -> Verdicts] /\ f[n + 1] = "complete"
    BY <1>1 DEF Verdicts
  <2>2. Verdict(s, f, n + 1) = "complete"
    BY <1>1 DEF Verdict
  <2> HIDE DEF f
  <2>3. JudgesFrom(s, f, n + 1)
    BY <1>1, <2>1, <2>2 DEF JudgesFrom
  <2>4. n + 1 - 0 = n + 1
    BY <1>1
  <2> QED BY <2>3, <2>4
<1>3. \A m \in Nat : m \in S => m + 1 \in S
  <2> HIDE DEF n
  <2> SUFFICES ASSUME NEW m \in Nat, m \in S PROVE m + 1 \in S
    OBVIOUS
  <2>1. ASSUME m + 1 <= n PROVE \E g : JudgesFrom(s, g, n + 1 - (m + 1))
    <3>1. PICK f : JudgesFrom(s, f, n + 1 - m)
      BY <1>1, <2>1
    <3> HIDE DEF S
    <3>2. /\ n - m \in 1 .. n /\ n + 1 - m = (n - m) + 1
          /\ n + 1 - (m + 1) = n - m
      BY <1>1, <2>1
    <3>3. JudgesFrom(s, f, (n - m) + 1) /\ n - m \in 1 .. Len(s)
      BY <3>1, <3>2 DEF n
    <3>4. \E g : JudgesFrom(s, g, n - m)
      BY <3>3, OneMoreVerdict
    <3> QED BY <3>2, <3>4
  <2> QED BY <2>1
<1>4. n \in S
  <2> HIDE DEF S, n
  <2> QED BY <1>1, <1>2, <1>3, Induction
<1>5. PICK f : JudgesFrom(s, f, n + 1 - n)
  BY <1>1, <1>4
<1>6. n + 1 - n = 1
  BY <1>1
<1>7. f = [i \in 1 .. (n + 1) |-> Verdict(s, f, i)]
  BY <1>5, <1>6 DEF JudgesFrom
<1> QED BY <1>7 DEF Judges

LEMMA JudgedProperties ==
  ASSUME NEW s \in Seq(0 .. 255)
  PROVE  \E f : Judges(s, f) /\ Judged(s) = f[1]
<1> DEFINE g == CHOOSE f : Judges(s, f)
<1>1. Judges(s, g)
  BY JudgedExists
<1>2. Judged(s) = g[1]
  BY DEF Judged, Judges, Verdict, After
<1> QED BY <1>1, <1>2

(* The judgement depends on what follows the last boundary only.              *)
LEMMA JudgedFrom ==
  ASSUME NEW s \in Seq(0 .. 255), NEW p \in 1 .. (Len(s) + 1), Boundary(s, p)
  PROVE  /\ p = Len(s) + 1 => Judged(s) = "complete"
         /\ p <= Len(s) /\ ~Begins(s, p) => Judged(s) = "malformed"
         /\ p <= Len(s) /\ Begins(s, p) /\ After(s, p) > Len(s) + 1 => Judged(s) = "cut off"
<1>1. PICK f : Judges(s, f) /\ Judged(s) = f[1]
  BY JudgedProperties
<1> DEFINE S == {i \in 1 .. (Len(s) + 1) : f[i] = f[1]}
<1>2. \A i \in 1 .. (Len(s) + 1) : f[i] = Verdict(s, f, i)
  BY <1>1 DEF Judges
<1>3. S \in SUBSET (1 .. (Len(s) + 1)) /\ 1 \in S
  OBVIOUS
<1>4. Closed(s, S)
  <2> SUFFICES ASSUME NEW i \in S, i <= Len(s), Begins(s, i), After(s, i) <= Len(s) + 1
               PROVE  After(s, i) \in S
    BY DEF Closed
  <2>1. f[i] = f[After(s, i)]
    <3>1. f[i] = Verdict(s, f, i)
      BY <1>2
    <3>2. ~(i > Len(s)) /\ ~(After(s, i) > Len(s) + 1)
      <4>1. After(s, i) \in Nat
        BY AfterProperties
      <4> QED BY <4>1
    <3> QED BY <3>1, <3>2 DEF Verdict
  <2>2. After(s, i) \in 1 .. (Len(s) + 1)
    BY AfterProperties
  <2> QED BY <2>1, <2>2
<1>5. p \in S
  <2> HIDE DEF S
  <2> QED BY <1>3, <1>4 DEF Boundary
<1>6. Judged(s) = Verdict(s, f, p)
  BY <1>1, <1>2, <1>5
<1>7. p = Len(s) + 1 => Verdict(s, f, p) = "complete"
  BY DEF Verdict
<1>8. p <= Len(s) /\ ~Begins(s, p) => Verdict(s, f, p) = "malformed"
  BY DEF Verdict
<1>9. p <= Len(s) /\ Begins(s, p) /\ After(s, p) > Len(s) + 1 => Verdict(s, f, p) = "cut off"
  BY DEF Verdict
<1> QED BY <1>6, <1>7, <1>8, <1>9

(* What is a boundary remains one; the end of a complete character is one.    *)
LEMMA BoundaryStays ==
  ASSUME NEW s \in Seq(0 .. 255), NEW b \in 0 .. 255, NEW p \in 1 .. (Len(s) + 1), Boundary(s, p)
  PROVE  Boundary(Append(s, b), p)
<1> DEFINE t == Append(s, b)
<1>1. Len(t) = Len(s) + 1 /\ t \in Seq(0 .. 255) /\ \A i \in 1 .. Len(s) : t[i] = s[i]
  OBVIOUS
<1> HIDE DEF t
<1> SUFFICES ASSUME NEW S \in SUBSET (1 .. (Len(t) + 1)), 1 \in S, Closed(t, S) PROVE p \in S
  BY DEF Boundary, t
<1> DEFINE T == S \cap (1 .. (Len(s) + 1))
<1>2. T \in SUBSET (1 .. (Len(s) + 1)) /\ 1 \in T
  OBVIOUS
<1>3. Closed(s, T)
  <2> SUFFICES ASSUME NEW i \in T, i <= Len(s), Begins(s, i), After(s, i) <= Len(s) + 1
               PROVE  After(s, i) \in T
    BY DEF Closed
  <2>1. i \in S /\ i \in 1 .. Len(s) /\ t[i] = s[i] /\ i <= Len(t)
    BY <1>1
  <2>2. After(t, i) = After(s, i) /\ After(s, i) \in (i + 1) .. (i + 4)
    BY <2>1, AfterProperties DEF After
  <2>3. Begins(t, i)
    <3> DEFINE q == Sequences(s[i])
    <3>1. IsLead(s[i]) /\ \A k \in DOMAIN q : i + k <= Len(s) => s[i + k] \in q[k]
      BY DEF Begins
    <3>2. DOMAIN q = 1 .. Len(q) /\ Len(q) \in Nat /\ i + 1 + Len(q) <= Len(s) + 1
      BY <3>1, SequencesProperties DEF After
    <3> HIDE DEF q
    <3>3. \A k \in DOMAIN q : t[i + k] \in q[k]
      <4> TAKE k \in DOMAIN q
      <4>1. i + k \in 1 .. Len(s)
        BY <2>1, <3>2
      <4>2. t[i + k] = s[i + k] /\ i + k <= Len(s)
        BY <1>1, <4>1
      <4> QED BY <3>1, <4>2
    <3> QED BY <2>1, <3>1, <3>3 DEF Begins, q
  <2>4. After(t, i) <= Len(t) + 1
    BY <1>1, <2>2
  <2>5. After(t, i) \in S
    BY <2>1, <2>3, <2>4 DEF Closed
  <2> QED BY <2>1, <2>2, <2>5
<1>4. p \in T
  <2> HIDE DEF T
  <2> QED BY <1>2, <1>3 DEF Boundary
<1> QED BY <1>4

LEMMA BoundaryMoves ==
  ASSUME NEW s \in Seq(0 .. 255), NEW p \in 1 .. Len(s), Boundary(s, p), Begins(s, p),
         After(s, p) <= Len(s) + 1
  PROVE  After(s, p) \in 1 .. (Len(s) + 1) /\ Boundary(s, After(s, p))
<1>1. After(s, p) \in 1 .. (Len(s) + 1)
  BY AfterProperties
<1>2. ASSUME NEW S \in SUBSET (1 .. (Len(s) + 1)), 1 \in S, Closed(s, S)
      PROVE  After(s, p) \in S
  BY <1>2 DEF Boundary, Closed
<1> QED BY <1>1, <1>2 DEF Boundary

LEMMA Classes ==
  ASSUME NEW b \in 0 .. 255
  PROVE  /\ b \in 0 .. 127 => Class(b) = 0
         /\ b \in 128 .. 143 => Class(b) = 1
         /\ b \in 144 .. 159 => Class(b) = 9
         /\ b \in 160 .. 191 => Class(b) = 7
         /\ b \in {192, 193} => Class(b) = 8
         /\ b \in 194 .. 223 => Class(b) = 2
         /\ b = 224 => Class(b) = 10
         /\ b \in (225 .. 236) \cup {238, 239} => Class(b) = 3
         /\ b = 237 => Class(b) = 4
         /\ b = 240 => Class(b) = 11
         /\ b \in 241 .. 243 => Class(b) = 6
         /\ b = 244 => Class(b) = 5
         /\ b \in 245 .. 255 => Class(b) = 8
<1>1. b \in 0 .. 127 => Class(b) = 0
  BY DEF Class
<1>2. b \in 128 .. 143 => Class(b) = 1
  BY DEF Class
<1>3. b \in 144 .. 159 => Class(b) = 9
  BY DEF Class
<1>4. b \in 160 .. 191 => Class(b) = 7
  BY DEF Class
<1>5. b \in {192, 193} => Class(b) = 8
  BY DEF Class
<1>6. b \in 194 .. 223 => Class(b) = 2
  BY DEF Class
<1>7. b = 224 => Class(b) = 10
  BY DEF Class
<1>8. b \in (225 .. 236) \cup {238, 239} => Class(b) = 3
  BY DEF Class
<1>9. b = 237 => Class(b) = 4
  BY DEF Class
<1>10. b = 240 => Class(b) = 11
  BY DEF Class
<1>11. b \in 241 .. 243 => Class(b) = 6
  BY DEF Class
<1>12. b = 244 => Class(b) = 5
  BY DEF Class
<1>13. b \in 245 .. 255 => Class(b) = 8
  BY DEF Class
<1> QED BY <1>1, <1>2, <1>3, <1>4, <1>5, <1>6, <1>7, <1>8, <1>9, <1>10, <1>11, <1>12, <1>13

(* The first byte of a character is taken as the table says.                  *)
LEMMA FirstByte ==
  ASSUME NEW b \in 0 .. 255
  PROVE  /\ b \in 0 .. 127 => Transition(ACCEPT, b) = ACCEPT
         /\ IsLead(b) /\ b \notin 0 .. 127 =>
              /\ Transition(ACCEPT, b) \in {24, 36, 48, 60, 72, 84, 96}
              /\ Awaited(Transition(ACCEPT, b)) = Sequences(b)
         /\ ~IsLead(b) => Transition(ACCEPT, b) = REJECT
<1>1. Transition(ACCEPT, b) = FromAccept[Class(b) + 1]
  <2>1. Class(b) \notin Leads(ACCEPT).on
    BY DEF Leads, ACCEPT
  <2> QED BY <2>1 DEF Transition
<1>2. b \in 0 .. 127 => Transition(ACCEPT, b) = ACCEPT
  BY <1>1, Classes DEF FromAccept, ACCEPT
<1>3. ~IsLead(b) => Transition(ACCEPT, b) = REJECT
  <2>1. ~IsLead(b) => Class(b) \in {1, 7, 8, 9}
    BY Classes DEF IsLead
  <2> QED BY <1>1, <2>1 DEF FromAccept, REJECT
<1>4. CASE b \in 194 .. 223
  <2>1. Transition(ACCEPT, b) = 24
    BY <1>1, <1>4, Classes DEF FromAccept
  <2> QED BY <1>2, <1>3, <1>4, <2>1 DEF Awaited, Sequences
<1>5. CASE b = 224
  <2>1. Transition(ACCEPT, b) = 48
    BY <1>1, <1>5, Classes DEF FromAccept
  <2> QED BY <1>2, <1>3, <1>5, <2>1 DEF Awaited, Sequences
<1>6. CASE b \in (225 .. 236) \cup {238, 239}
  <2>1. Transition(ACCEPT, b) = 36
    BY <1>1, <1>6, Classes DEF FromAccept
  <2> QED BY <1>2, <1>3, <1>6, <2>1 DEF Awaited, Sequences
<1>7. CASE b = 237
  <2>1. Transition(ACCEPT, b) = 60
    BY <1>1, <1>7, Classes DEF FromAccept
  <2> QED BY <1>2, <1>3, <1>7, <2>1 DEF Awaited, Sequences
<1>8. CASE b = 240
  <2>1. Transition(ACCEPT, b) = 72
    BY <1>1, <1>8, Classes DEF FromAccept
  <2> QED BY <1>2, <1>3, <1>8, <2>1 DEF Awaited, Sequences
<1>9. CASE b \in 241 .. 243
  <2>1. Transition(ACCEPT, b) = 84
    BY <1>1, <1>9, Classes DEF FromAccept
  <2> QED BY <1>2, <1>3, <1>9, <2>1 DEF Awaited, Sequences
<1>10. CASE b = 244
  <2>1. Transition(ACCEPT, b) = 96
    BY <1>1, <1>10, Classes DEF FromAccept
  <2> QED BY <1>2, <1>3, <1>10, <2>1 DEF Awaited, Sequences
<1> QED BY <1>2, <1>3, <1>4, <1>5, <1>6, <1>7, <1>8, <1>9, <1>10 DEF IsLead

LEMMA AwaitedLength ==
  ASSUME NEW s \in {24, 36, 48, 60, 72, 84, 96}
  PROVE  Len(Awaited(s)) \in 1 .. 3 /\ DOMAIN Awaited(s) = 1 .. Len(Awaited(s))
<1> DEFINE Short(t) == Len(t) \in 1 .. 3 /\ DOMAIN t = 1 .. Len(t)
<1>1. \A x : Short(<<x>>)
  OBVIOUS
<1>2. \A x, y : Short(<<x, y>>)
  OBVIOUS
<1>3. \A x, y, z : Short(<<x, y, z>>)
  OBVIOUS
<1> HIDE DEF Short
<1>4. s = 24 => Short(Awaited(s))
  BY <1>1 DEF Awaited
<1>5. s \in {36, 48, 60} => Short(Awaited(s))
  BY <1>2 DEF Awaited
<1>6. s \in {72, 84, 96} => Short(Awaited(s))
  BY <1>3 DEF Awaited
<1>7. Short(Awaited(s))
  BY <1>4, <1>5, <1>6
<1> QED BY <1>7 DEF Short

(* Each further byte is taken exactly if it is in the range awaited first.    *)
LEMMA FurtherByte ==
  ASSUME NEW b \in 0 .. 255, NEW s \in {24, 36, 48, 60, 72, 84, 96}
  PROVE  /\ b \in Awaited(s)[1] =>
              /\ Transition(s, b) \in {0, 24, 36}
              /\ Transition(s, b) = ACCEPT <=> Len(Awaited(s)) = 1
              /\ Len(Awaited(Transition(s, b))) = Len(Awaited(s)) - 1
              /\ \A k \in 1 .. (Len(Awaited(s)) - 1) : Awaited(Transition(s, b))[k] = Awaited(s)[k + 1]
         /\ b \notin Awaited(s)[1] => Transition(s, b) = REJECT
<1>1. Transition(s, b) = IF Class(b) \in Leads(s).on THEN Leads(s).to ELSE REJECT
  BY DEF Transition, ACCEPT
<1>2. /\ b \in Rest <=> Class(b) \in {1, 7, 9}
      /\ b \in 160 .. 191 <=> Class(b) \in {7}
      /\ b \in 128 .. 159 <=> Class(b) \in {1, 9}
      /\ b \in 144 .. 191 <=> Class(b) \in {7, 9}
      /\ b \in 128 .. 143 <=> Class(b) \in {1}
  BY Classes DEF Rest
<1>3. /\ Awaited(0) = <<>> /\ Awaited(24) = <<Rest>> /\ Awaited(36) = <<Rest, Rest>>
      /\ Awaited(48) = <<160 .. 191, Rest>> /\ Awaited(60) = <<128 .. 159, Rest>>
      /\ Awaited(72) = <<144 .. 191, Rest, Rest>> /\ Awaited(84) = <<Rest, Rest, Rest>>
      /\ Awaited(96) = <<128 .. 143, Rest, Rest>>
  <2>1. Awaited(0) = Alone
    BY DEF Awaited
  <2> QED BY <2>1 DEF Awaited, Alone
<1> DEFINE Takes(a, t) ==
             /\ Len(a) \in 1 .. 3 /\ DOMAIN a = 1 .. Len(a) /\ t \in {0, 24, 36}
             /\ t = ACCEPT <=> Len(a) = 1
             /\ Len(Awaited(t)) = Len(a) - 1
             /\ \A k \in 1 .. (Len(a) - 1) : Awaited(t)[k] = a[k + 1]
<1>t1. \A x : Takes(<<x>>, 0) /\ <<x>>[1] = x
  BY <1>3 DEF ACCEPT
<1>t2. ASSUME NEW x PROVE Takes(<<x, Rest>>, 24) /\ <<x, Rest>>[1] = x
  <2> DEFINE a == <<x, Rest>>
  <2>1. Len(a) = 2 /\ DOMAIN a = 1 .. 2 /\ a[1] = x /\ a[2] = Rest
    OBVIOUS
  <2>2. Len(Awaited(24)) = 1 /\ Awaited(24)[1] = Rest
    BY <1>3
  <2> HIDE DEF a
  <2>3. Takes(a, 24)
    BY <2>1, <2>2 DEF ACCEPT
  <2> QED BY <2>1, <2>3 DEF a
<1>t3. ASSUME NEW x PROVE Takes(<<x, Rest, Rest>>, 36) /\ <<x, Rest, Rest>>[1] = x
  <2> DEFINE a == <<x, Rest, Rest>>
  <2>1. Len(a) = 3 /\ DOMAIN a = 1 .. 3 /\ a[1] = x /\ a[2] = Rest /\ a[3] = Rest
    OBVIOUS
  <2>2. Len(Awaited(36)) = 2 /\ Awaited(36)[1] = Rest /\ Awaited(36)[2] = Rest
    BY <1>3
  <2> HIDE DEF a
  <2>3. Takes(a, 36)
    BY <2>1, <2>2 DEF ACCEPT
  <2> QED BY <2>1, <2>3 DEF a
<1> HIDE DEF Takes
<1> DEFINE Goal == Takes(Awaited(s), Leads(s).to) /\ (b \in Awaited(s)[1] <=> Class(b) \in Leads(s).on)
<1>4. ASSUME s = 24 PROVE Goal
  <2>1. Leads(s).to = 0 /\ Leads(s).on = {1, 7, 9}
    BY <1>4 DEF Leads
  <2>2. Takes(Awaited(s), Leads(s).to) /\ Awaited(s)[1] = Rest
    BY <1>3, <1>4, <1>t1, <2>1
  <2> QED BY <1>2, <2>1, <2>2
<1>5. ASSUME s = 36 PROVE Goal
  <2>1. Leads(s).to = 24 /\ Leads(s).on = {1, 7, 9}
    BY <1>5 DEF Leads
  <2>2. Takes(Awaited(s), Leads(s).to) /\ Awaited(s)[1] = Rest
    BY <1>3, <1>5, <1>t2, <2>1
  <2> QED BY <1>2, <2>1, <2>2
<1>6. ASSUME s = 48 PROVE Goal
  <2>1. Leads(s).to = 24 /\ Leads(s).on = {7}
    BY <1>6 DEF Leads
  <2>2. Takes(Awaited(s), Leads(s).to) /\ Awaited(s)[1] = 160 .. 191
    <3>1. Takes(<<160 .. 191, Rest>>, 24) /\ <<160 .. 191, Rest>>[1] = 160 .. 191
      BY ONLY <1>t2
    <3> QED BY <1>3, <1>6, <2>1, <3>1
  <2> QED BY <1>2, <2>1, <2>2
<1>7. ASSUME s = 60 PROVE Goal
  <2>1. Leads(s).to = 24 /\ Leads(s).on = {1, 9}
    BY <1>7 DEF Leads
  <2>2. Takes(Awaited(s), Leads(s).to) /\ Awaited(s)[1] = 128 .. 159
    <3>1. Takes(<<128 .. 159, Rest>>, 24) /\ <<128 .. 159, Rest>>[1] = 128 .. 159
      BY ONLY <1>t2
    <3> QED BY <1>3, <1>7, <2>1, <3>1
  <2> QED BY <1>2, <2>1, <2>2
<1>8. ASSUME s = 72 PROVE Goal
  <2>1. Leads(s).to = 36 /\ Leads(s).on = {7, 9}
    BY <1>8 DEF Leads
  <2>2. Takes(Awaited(s), Leads(s).to) /\ Awaited(s)[1] = 144 .. 191
    <3>1. Takes(<<144 .. 191, Rest, Rest>>, 36) /\ <<144 .. 191, Rest, Rest>>[1] = 144 .. 191
      BY ONLY <1>t3
    <3> QED BY <1>3, <1>8, <2>1, <3>1
  <2> QED BY <1>2, <2>1, <2>2
<1>9. ASSUME s = 84 PROVE Goal
  <2>1. Leads(s).to = 36 /\ Leads(s).on = {1, 7, 9}
    BY <1>9 DEF Leads
  <2>2. Takes(Awaited(s), Leads(s).to) /\ Awaited(s)[1] = Rest
    BY <1>3, <1>9, <1>t3, <2>1
  <2> QED BY <1>2, <2>1, <2>2
<1>10. ASSUME s = 96 PROVE Goal
  <2>1. Leads(s).to = 36 /\ Leads(s).on = {1}
    BY <1>10 DEF Leads
  <2>2. Takes(Awaited(s), Leads(s).to) /\ Awaited(s)[1] = 128 .. 143
    <3>1. Takes(<<128 .. 143, Rest, Rest>>, 36) /\ <<128 .. 143, Rest, Rest>>[1] = 128 .. 143
      BY ONLY <1>t3
    <3> QED BY <1>3, <1>10, <2>1, <3>1
  <2> QED BY <1>2, <2>1, <2>2
<1>11. Goal
  BY <1>4, <1>5, <1>6, <1>7, <1>8, <1>9, <1>10
<1> QED BY ZenonT(40), <1>1, <1>11 DEF Takes

(* One more byte: the scan awaits what the character still needs, moves on to *)
(* the next boundary, or stops in a character that cannot be completed.       *)
LEMMA ScanStep == ScanInv /\ [Utf8Next]_utf8Vars => ScanInv'
<1> SUFFICES ASSUME ScanInv, [Utf8Next]_utf8Vars PROVE ScanInv'
  OBVIOUS
<1>1. CASE UNCHANGED utf8Vars
  BY <1>1 DEF utf8Vars, ScanInv
<1>2. ASSUME NEW b \in ByteSample, ReadByte(b) PROVE ScanInv'
  <2> DEFINE n == Len(seen)
  <2>1. /\ seen' = Append(seen, b) /\ state' = Transition(state, b) /\ state # REJECT
        /\ b \in 0 .. 255 /\ seen \in Seq(0 .. 255) /\ n \in Nat
        /\ state \in {0, 12, 24, 36, 48, 60, 72, 84, 96}
    BY <1>2, SampleAssumption DEF ReadByte, ScanInv
  <2>b. b \in 0 .. 255 /\ state' = Transition(state, b)
    BY <2>1
  <2>n. n \in Nat
    BY <2>1
  <2>c. IsLead(b) /\ b \notin 0 .. 127 =>
          /\ Transition(ACCEPT, b) \in {24, 36, 48, 60, 72, 84, 96}
          /\ Awaited(Transition(ACCEPT, b)) = Sequences(b)
    BY <2>b, FirstByte
  <2>d. IsLead(b) => DOMAIN Sequences(b) = 1 .. Len(Sequences(b)) /\ Len(Sequences(b)) \in Nat
    BY SequencesProperties
  <2>e. state \in {24, 36, 48, 60, 72, 84, 96} /\ b \in Awaited(state)[1] =>
          /\ Transition(state, b) \in {0, 24, 36}
          /\ Transition(state, b) = ACCEPT <=> Len(Awaited(state)) = 1
          /\ Len(Awaited(Transition(state, b))) = Len(Awaited(state)) - 1
          /\ \A k \in 1 .. (Len(Awaited(state)) - 1) :
               Awaited(Transition(state, b))[k] = Awaited(state)[k + 1]
    BY ZenonT(40), <2>b, FurtherByte
  <2>2. /\ seen' \in Seq(0 .. 255) /\ Len(seen') = n + 1 /\ seen'[n + 1] = b
        /\ \A i \in 1 .. n : seen'[i] = seen[i]
    BY <2>1
  <2>3. PICK p \in 1 .. (n + 1) :
          /\ Boundary(seen, p)
          /\ state = ACCEPT => p = n + 1
          /\ state \notin {ACCEPT, REJECT} =>
               /\ p <= n /\ Begins(seen, p)
               /\ After(seen, p) = n + 1 + Len(Awaited(state))
               /\ \A k \in DOMAIN Awaited(state) : Sequences(seen[p])[n - p + k] = Awaited(state)[k]
    BY DEF ScanInv
  <2>4. Boundary(seen', p) /\ p \in 1 .. Len(seen')
    <3>1. Boundary(Append(seen, b), p)
      BY ZenonT(40), <2>1, <2>3, BoundaryStays
    <3> QED BY <2>1, <2>2, <2>3, <3>1
  <2> DEFINE q == Sequences(seen'[p])
  <2>5. ASSUME /\ state' = ACCEPT
               /\ Begins(seen', p) /\ After(seen', p) = n + 2
        PROVE  ScanInv'
    <3>1. Boundary(seen', n + 2)
      BY <2>2, <2>4, <2>5, BoundaryMoves
    <3> HIDE DEF n
    <3>2. n + 2 \in 1 .. (Len(seen') + 1) /\ n + 2 = Len(seen') + 1
      BY <2>1, <2>2
    <3> QED BY <2>2, <2>5, <3>1, <3>2 DEF ScanInv, ACCEPT, REJECT
  <2>6. ASSUME state' = REJECT, ~Begins(seen', p)
        PROVE  ScanInv'
    <3>1. p \in 1 .. (Len(seen') + 1) /\ p <= Len(seen')
      BY <2>4
    <3> QED BY <2>2, <2>4, <2>6, <3>1 DEF ScanInv, ACCEPT, REJECT
  <2>7. ASSUME /\ state' \in {24, 36, 48, 60, 72, 84, 96}
               /\ Begins(seen', p) /\ After(seen', p) = n + 2 + Len(Awaited(state'))
               /\ \A k \in DOMAIN Awaited(state') : q[n + 1 - p + k] = Awaited(state')[k]
        PROVE  ScanInv'
    <3>1. p \in 1 .. (Len(seen') + 1) /\ p <= Len(seen')
      BY <2>4
    <3>2. After(seen', p) = Len(seen') + 1 + Len(Awaited(state'))
      BY <2>1, <2>2, <2>7
    <3>3. \A k \in DOMAIN Awaited(state') :
            Sequences(seen'[p])[Len(seen') - p + k] = Awaited(state')[k]
      BY <2>2, <2>7
    <3> QED BY <2>2, <2>4, <2>7, <3>1, <3>2, <3>3 DEF ScanInv, ACCEPT, REJECT
  <2>8. CASE state = ACCEPT
    <3>1. p = n + 1 /\ seen'[p] = b /\ Len(seen') = n + 1
      BY <2>2, <2>3, <2>8
    <3>2. CASE b \in 0 .. 127
      <4>1. state' = ACCEPT /\ IsLead(b) /\ q = <<>>
        <5>1. Transition(ACCEPT, b) = ACCEPT
          BY <2>b, <3>2, FirstByte
        <5>2. q = <<>>
          BY <3>1, <3>2, ByteAlone
        <5> QED BY <2>b, <2>8, <3>2, <5>1, <5>2 DEF IsLead
      <4>2. Begins(seen', p)
        BY <3>1, <4>1 DEF Begins
      <4>3. After(seen', p) = n + 2
        BY <2>1, <3>1, <4>1 DEF After
      <4> QED BY <2>5, <4>1, <4>2, <4>3
    <3>3. CASE IsLead(b) /\ b \notin 0 .. 127
      <4>1. state' \in {24, 36, 48, 60, 72, 84, 96} /\ Awaited(state') = q
        <5>1. /\ Transition(ACCEPT, b) \in {24, 36, 48, 60, 72, 84, 96}
              /\ Awaited(Transition(ACCEPT, b)) = Sequences(b)
          BY ONLY <2>c, <3>3
        <5> QED BY <2>b, <2>8, <3>1, <5>1
      <4>2. DOMAIN q = 1 .. Len(q) /\ Len(q) \in Nat
        <5>1. q = Sequences(b)
          BY <3>1
        <5> HIDE DEF q
        <5> QED BY ONLY <2>d, <3>3, <5>1
      <4> HIDE DEF q
      <4>3. Begins(seen', p)
        BY <2>1, <3>1, <3>3, <4>2 DEF Begins, q
      <4>4. After(seen', p) = n + 2 + Len(q)
        BY <2>1, <3>1, <4>2 DEF After, q
      <4>5. \A k \in DOMAIN q : n + 1 - p + k = k
        BY <2>1, <3>1, <4>2
      <4> QED BY <2>7, <4>1, <4>3, <4>4, <4>5
    <3>4. CASE ~IsLead(b)
      <4>1. state' = REJECT
        BY <2>b, <2>8, <3>4, FirstByte
      <4>2. ~Begins(seen', p)
        BY <3>1, <3>4 DEF Begins
      <4> QED BY <2>6, <4>1, <4>2
    <3> QED BY <3>2, <3>3, <3>4
  <2>9. CASE state # ACCEPT
    <3> DEFINE a == Awaited(state)
    <3>1. state \in {24, 36, 48, 60, 72, 84, 96}
      BY <2>1, <2>9 DEF ACCEPT, REJECT
    <3>2. p \in 1 .. n /\ Begins(seen, p) /\ seen'[p] = seen[p] /\ q = Sequences(seen[p])
      BY <2>1, <2>2, <2>3, <2>9
    <3>3. Len(a) \in 1 .. 3 /\ DOMAIN a = 1 .. Len(a)
      BY <3>1, AwaitedLength
    <3>4. IsLead(seen[p]) /\ DOMAIN q = 1 .. Len(q) /\ Len(q) \in 0 .. 3
      BY <3>2, SequencesProperties DEF Begins
    <3>5. After(seen, p) = p + 1 + Len(q) /\ After(seen', p) = p + 1 + Len(q)
      BY <3>2 DEF After
    <3>6. \A k \in DOMAIN a : q[n - p + k] = a[k]
      BY <2>1, <2>3, <2>9, <3>2
    <3>7. After(seen, p) = n + 1 + Len(a)
      BY <2>1, <2>3, <2>9
    <3>8. \A k \in DOMAIN q : p + k <= n => seen[p + k] \in q[k]
      BY <3>2 DEF Begins
    <3>9. ~Begins(seen', p) \/ \A k \in DOMAIN q : p + k <= n + 1 => seen'[p + k] \in q[k]
      BY <2>2, <3>2 DEF Begins
    <3> HIDE DEF a, n
    <3>10. Len(q) = n - p + Len(a)
      <4> DEFINE lq == Len(q)
                 la == Len(a)
      <4>1. p + 1 + lq = n + 1 + la /\ lq \in Nat /\ la \in Nat /\ p \in Nat /\ n \in Nat
        BY <2>1, <3>2, <3>3, <3>4, <3>5, <3>7
      <4> HIDE DEF lq, la
      <4>2. lq = n - p + la
        BY <4>1
      <4> QED BY <4>2 DEF lq, la
    <3>11. n - p + 1 \in DOMAIN q /\ q[n - p + 1] = a[1] /\ p + (n - p + 1) = n + 1
      BY <2>1, <3>2, <3>3, <3>4, <3>6, <3>10
    <3>12. CASE b \notin a[1]
      <4>1. state' = REJECT
        BY <2>b, <3>1, <3>12, FurtherByte DEF a
      <4>2. seen'[p + (n - p + 1)] \notin q[n - p + 1]
        BY <2>2, <3>11, <3>12
      <4>3. p + (n - p + 1) <= Len(seen')
        BY <2>1, <2>2, <3>11
      <4>4. ~Begins(seen', p)
        BY <3>11, <4>2, <4>3 DEF Begins
      <4> QED BY <2>6, <4>1, <4>4
    <3>13. CASE b \in a[1]
      <4>1. Begins(seen', p)
        <5>1. ASSUME NEW k \in DOMAIN q, p + k <= n + 1 PROVE seen'[p + k] \in q[k]
          <6>1. k \in Nat /\ 1 <= k
            BY <3>4
          <6>2. CASE p + k = n + 1
            <7>1. k = n - p + 1
              BY <2>1, <3>2, <6>1, <6>2
            <7>2. seen'[p + k] = b /\ q[k] = a[1]
              BY <2>2, <3>11, <6>2, <7>1
            <7> QED BY <3>13, <7>2
          <6>3. CASE p + k # n + 1
            <7>1. p + k \in 1 .. n
              BY <2>1, <3>2, <5>1, <6>1, <6>3
            <7>2. seen'[p + k] = seen[p + k] /\ p + k <= n
              BY <2>2, <7>1
            <7> QED BY <3>8, <5>1, <7>2
          <6> QED BY <6>2, <6>3
        <5> QED BY <2>2, <3>2, <3>4, <5>1 DEF Begins
      <4>2. /\ state' \in {0, 24, 36}
            /\ state' = ACCEPT <=> Len(a) = 1
            /\ Len(Awaited(state')) = Len(a) - 1
            /\ \A k \in 1 .. (Len(a) - 1) : Awaited(state')[k] = a[k + 1]
        BY ONLY <2>b, <2>e, <3>1, <3>13 DEF a
      <4>3. After(seen', p) = n + 1 + Len(a)
        BY <3>5, <3>7
      <4>4. CASE state' = ACCEPT
        <5>1. Len(a) = 1
          BY ONLY <4>2, <4>4
        <5>2. After(seen', p) = n + 2
          BY <2>n, <4>3, <5>1
        <5> QED BY <2>5, <4>1, <4>4, <5>2 DEF n
      <4>5. CASE state' # ACCEPT
        <5>1. state' \in {24, 36}
          BY <4>2, <4>5 DEF ACCEPT
        <5>2. DOMAIN Awaited(state') = 1 .. (Len(a) - 1)
          <6>1. DOMAIN Awaited(state') = 1 .. Len(Awaited(state'))
            BY <5>1, AwaitedLength
          <6> QED BY <4>2, <6>1
        <5>3. After(seen', p) = n + 2 + Len(Awaited(state'))
          BY <2>1, <3>3, <4>2, <4>3
        <5>4. \A k \in DOMAIN Awaited(state') : q[n + 1 - p + k] = Awaited(state')[k]
          <6> TAKE k \in DOMAIN Awaited(state')
          <6>1. k \in 1 .. (Len(a) - 1) /\ k + 1 \in DOMAIN a
            BY <3>3, <5>2
          <6>2. q[n - p + (k + 1)] = a[k + 1]
            BY <3>6, <6>1
          <6>3. n - p + (k + 1) = n + 1 - p + k
            BY <2>1, <3>2, <6>1
          <6> QED BY <4>2, <6>1, <6>2, <6>3
        <5> QED BY <2>7, <4>1, <5>1, <5>3, <5>4 DEF n
      <4> QED BY <4>4, <4>5
    <3> QED BY <3>12, <3>13
  <2> QED BY <2>8, <2>9
<1> QED BY <1>1, <1>2 DEF Utf8Next

(* A body is found to be UTF-8 exactly when it is, however long it is.        *)
THEOREM Utf8IsRecognised == Utf8Spec => []Utf8Agrees
<1>1. Utf8Init => ScanInv
  <2> SUFFICES ASSUME Utf8Init PROVE ScanInv
    OBVIOUS
  <2>1. seen = <<>> /\ state = 0 /\ Len(seen) = 0 /\ seen \in Seq(0 .. 255)
    BY DEF Utf8Init, ACCEPT
  <2>2. Boundary(seen, 1)
    BY DEF Boundary
  <2> QED BY <2>1, <2>2 DEF ScanInv, ACCEPT, REJECT
<1>2. ScanInv => Utf8Agrees
  <2> SUFFICES ASSUME ScanInv PROVE Utf8Agrees
    OBVIOUS
  <2>1. /\ seen \in Seq(0 .. 255) /\ Len(seen) \in Nat
        /\ state \in {0, 12, 24, 36, 48, 60, 72, 84, 96}
    BY DEF ScanInv
  <2>2. PICK p \in 1 .. (Len(seen) + 1) :
          /\ Boundary(seen, p)
          /\ state = ACCEPT => p = Len(seen) + 1
          /\ state = REJECT => p <= Len(seen) /\ ~Begins(seen, p)
          /\ state \notin {ACCEPT, REJECT} =>
               /\ p <= Len(seen) /\ Begins(seen, p)
               /\ After(seen, p) = Len(seen) + 1 + Len(Awaited(state))
    BY DEF ScanInv
  <2>3. CASE state = ACCEPT
    <3>1. Judged(seen) = "complete"
      BY <2>1, <2>2, <2>3, JudgedFrom
    <3> QED BY <2>3, <3>1 DEF Utf8Agrees, ACCEPT, REJECT
  <2>4. CASE state = REJECT
    <3>1. Judged(seen) = "malformed"
      BY <2>1, <2>2, <2>4, JudgedFrom
    <3> QED BY <2>4, <3>1 DEF Utf8Agrees, ACCEPT, REJECT
  <2>5. CASE state \notin {ACCEPT, REJECT}
    <3>1. Len(Awaited(state)) \in 1 .. 3
      <4>1. state \in {24, 36, 48, 60, 72, 84, 96}
        BY <2>1, <2>5 DEF ACCEPT, REJECT
      <4> QED BY <4>1, AwaitedLength
    <3>2. After(seen, p) > Len(seen) + 1
      <4> DEFINE n == Len(seen)
                 m == Len(Awaited(state))
      <4>1. After(seen, p) = n + 1 + m /\ n \in Nat /\ m \in 1 .. 3
        BY <2>1, <2>2, <2>5, <3>1
      <4> HIDE DEF n, m
      <4>2. After(seen, p) > n + 1
        BY <4>1
      <4> QED BY <4>2 DEF n
    <3>3. Judged(seen) = "cut off"
      BY <2>1, <2>2, <2>5, <3>2, JudgedFrom
    <3> QED BY <2>5, <3>3 DEF Utf8Agrees
  <2> QED BY <2>3, <2>4, <2>5
<1> QED BY <1>1, <1>2, ScanStep, PTL DEF Utf8Spec

(****************************** Base64: encoder ******************************)
LEMMA BlocksProperties ==
  ASSUME NEW n \in Nat
  PROVE  /\ Blocks(n) \in Nat /\ EncodedLen(n) = 4 * Blocks(n)
         /\ 3 * Blocks(n) \in n .. (n + 2) /\ Blocks(n) = (n + 2) \div 3
         /\ n % 3 = 0 => n = 3 * Blocks(n)
         /\ n % 3 > 0 => n = 3 * (Blocks(n) - 1) + (n % 3) /\ Blocks(n) > 0
<1> DEFINE m == n \div 3
           r == n % 3
           b == Blocks(n)
<1>1. n = 3 * m + r /\ m \in Nat /\ r \in 0 .. 2 /\ n % 3 = r
  OBVIOUS
<1>2. b = m + (IF r > 0 THEN 1 ELSE 0)
  BY DEF Blocks
<1>3. b \in Nat /\ EncodedLen(n) = 4 * b
  BY <1>1, <1>2 DEF EncodedLen
<1> HIDE DEF m, r, b
<1>4. 3 * b \in n .. (n + 2) /\ (r = 0 => n = 3 * b) /\ (r > 0 => n = 3 * (b - 1) + r /\ b > 0)
  <2>1. CASE r = 0
    BY <1>1, <1>2, <2>1
  <2>2. CASE r > 0
    <3>1. b = m + 1
      BY <1>2, <2>2
    <3> QED BY <1>1, <2>2, <3>1
  <2> QED BY <1>1, <2>1, <2>2
<1>5. b = (n + 2) \div 3
  BY <1>3, <1>4
<1>6. /\ b \in Nat /\ EncodedLen(n) = 4 * b /\ 3 * b \in n .. (n + 2) /\ b = (n + 2) \div 3
      /\ n % 3 = 0 => n = 3 * b
      /\ n % 3 > 0 => n = 3 * (b - 1) + (n % 3) /\ b > 0
  <2>1. n % 3 > 0 => n = 3 * (b - 1) + (n % 3) /\ b > 0
    <3>1. ASSUME r > 0 PROVE n = 3 * (b - 1) + r /\ b > 0
      BY <1>4, <3>1
    <3> QED BY <1>1, <3>1
  <2> QED BY <1>1, <1>3, <1>4, <1>5, <2>1
<1> QED BY <1>6 DEF b

(* What the encoder takes: a sequence of bytes.                               *)
IsPlain(s) == s \in Seq(0 .. 255)

LEMMA PlainProperties ==
  ASSUME NEW s, IsPlain(s)
  PROVE  Len(s) \in Nat /\ \A i \in 1 .. Len(s) : s[i] \in 0 .. 255
<1> DEFINE B == 0 .. 255
<1>1. s \in Seq(B)
  BY DEF IsPlain
<1> HIDE DEF B
<1>2. Len(s) \in Nat /\ \A i \in 1 .. Len(s) : s[i] \in B
  BY <1>1
<1> QED BY <1>2 DEF B

LEMMA ByteAtProperties ==
  ASSUME NEW s, IsPlain(s), NEW j \in Nat
  PROVE  /\ ByteAt(s, j) \in 0 .. 255
         /\ j < Len(s) => ByteAt(s, j) = s[j + 1]
         /\ j >= Len(s) => ByteAt(s, j) = 0
<1>1. Len(s) \in Nat /\ \A i \in 1 .. Len(s) : s[i] \in 0 .. 255
  BY PlainProperties
<1>2. CASE j < Len(s)
  <2>1. j + 1 \in 1 .. Len(s)
    BY <1>1, <1>2
  <2>2. s[j + 1] \in 0 .. 255
    BY <1>1, <2>1
  <2> QED BY <1>1, <1>2, <2>2 DEF ByteAt
<1>3. CASE ~(j < Len(s))
  BY <1>1, <1>3 DEF ByteAt
<1> QED BY <1>2, <1>3

LEMMA TripleNat == ASSUME NEW s, IsPlain(s), NEW g \in Nat PROVE Triple(s, g) \in Nat
<1>1. 3 * g \in Nat /\ 3 * g + 1 \in Nat /\ 3 * g + 2 \in Nat
  OBVIOUS
<1>2. ByteAt(s, 3 * g) \in 0 .. 255 /\ ByteAt(s, 3 * g + 1) \in 0 .. 255 /\ ByteAt(s, 3 * g + 2) \in 0 .. 255
  BY <1>1, ByteAtProperties
<1> DEFINE a == ByteAt(s, 3 * g)
           b == ByteAt(s, 3 * g + 1)
           c == ByteAt(s, 3 * g + 2)
<1>3. Triple(s, g) = a * 65536 + b * 256 + c
  BY DEF Triple
<1> HIDE DEF a, b, c
<1>4. a \in 0 .. 255 /\ b \in 0 .. 255 /\ c \in 0 .. 255
  BY <1>2 DEF a, b, c
<1>5. a * 65536 + b * 256 + c \in Nat
  BY SMT, <1>4
<1> QED BY <1>3, <1>5

(* The digit at place p of block g. *)
Sextet(s, g, p) ==
  CASE p = 0 -> (Triple(s, g) \div 262144) % 64
    [] p = 1 -> (Triple(s, g) \div 4096) % 64
    [] p = 2 -> (Triple(s, g) \div 64) % 64
    [] p = 3 -> Triple(s, g) % 64

LEMMA EncodedLength ==
  ASSUME NEW s, IsPlain(s)
  PROVE  Len(Encoded(s)) = EncodedLen(Len(s)) /\ DOMAIN Encoded(s) = 1 .. EncodedLen(Len(s))
<1> DEFINE k == 4 * ((Len(s) + 2) \div 3)
<1>1. k = EncodedLen(Len(s)) /\ k \in Nat
  BY BlocksProperties
<1>2. DOMAIN Encoded(s) = 1 .. k
  BY DEF Encoded
<1>3. Len(Encoded(s)) = k
  BY <1>1 DEF Encoded
<1> QED BY <1>1, <1>2, <1>3

LEMMA EncodedAt ==
  ASSUME NEW s, IsPlain(s), NEW g \in Nat, g < Blocks(Len(s)), NEW p \in 0 .. 3
  PROVE  /\ 4 * g + p + 1 \in DOMAIN Encoded(s)
         /\ Encoded(s)[4 * g + p + 1] =
              IF p > 0 /\ 3 * g + p > Len(s) THEN Pad ELSE Char(Sextet(s, g, p))
<1> DEFINE i == 4 * g + p + 1
           e(x) == LET h == (x - 1) \div 4
                       q == (x - 1) % 4
                   IN  IF q > 0 /\ 3*h + q > Len(s) THEN Pad ELSE Char((Triple(s, h) \div 64^(3 - q)) % 64)
<1>0. Blocks(Len(s)) \in Nat /\ EncodedLen(Len(s)) = 4 * Blocks(Len(s))
  BY BlocksProperties
<1>1. i \in 1 .. EncodedLen(Len(s)) /\ (i - 1) \div 4 = g /\ (i - 1) % 4 = p
  <2>1. (i - 1) \div 4 = g /\ (i - 1) % 4 = p
    OBVIOUS
  <2>2. \A b \in Nat : g < b => i \in 1 .. (4 * b)
    OBVIOUS
  <2> QED BY <1>0, <2>1, <2>2
<1>2. i \in DOMAIN Encoded(s)
  BY <1>1, EncodedLength
<1>3. Encoded(s)[i] = e(i)
  BY <1>2 DEF Encoded
<1>4. e(i) = IF p > 0 /\ 3*g + p > Len(s) THEN Pad ELSE Char((Triple(s, g) \div 64^(3 - p)) % 64)
  BY <1>1
<1>5. (Triple(s, g) \div 64^(3 - p)) % 64 = Sextet(s, g, p)
  <2>1. Triple(s, g) \in Nat
    BY TripleNat
  <2>2. CASE p = 0
    <3>1. 64^(3 - p) = 262144
      BY <2>2
    <3> QED BY <2>2, <3>1 DEF Sextet
  <2>3. CASE p = 1
    <3>1. 64^(3 - p) = 4096
      BY <2>3
    <3> QED BY <2>3, <3>1 DEF Sextet
  <2>4. CASE p = 2
    <3>1. 64^(3 - p) = 64
      BY <2>4
    <3> QED BY <2>4, <3>1 DEF Sextet
  <2>5. CASE p = 3
    <3>1. 64^(3 - p) = 1
      BY <2>5
    <3> QED BY <2>1, <2>5, <3>1 DEF Sextet
  <2> QED BY <2>2, <2>3, <2>4, <2>5
<1> HIDE DEF e, i
<1>6. Encoded(s)[i] = IF p > 0 /\ 3 * g + p > Len(s) THEN Pad ELSE Char(Sextet(s, g, p))
  BY <1>3, <1>4, <1>5
<1> QED BY <1>2, <1>6 DEF i

LEMMA DigitsAt ==
  ASSUME NEW v, NEW n \in Nat
  PROVE  /\ Len(Digits(v, n)) = n /\ DOMAIN Digits(v, n) = 1 .. n
         /\ \A k \in 1 .. n : Digits(v, n)[k] = Char((v \div 64^(n - k)) % 64)
BY DEF Digits

LEMMA Powers == 64^0 = 1 /\ 64^1 = 64 /\ 64^2 = 4096 /\ 64^3 = 262144
OBVIOUS

(* t holds the four characters of block g.                                    *)
IsBlock(t, s, g) == Len(t) = 4 /\ \A p \in 0 .. 3 : t[p + 1] = Encoded(s)[4 * g + p + 1]

LEMMA FullBlock ==
  ASSUME NEW s, IsPlain(s), NEW g \in Nat, 3 * g + 3 <= Len(s)
  PROVE  /\ g < Blocks(Len(s))
         /\ IsBlock(Digits(s[3 * g + 1] * 65536 + s[3 * g + 2] * 256 + s[3 * g + 3], 4), s, g)
<1> DEFINE n == Len(s)
<1>0. n \in Nat
  BY PlainProperties
<1>1. 3 * g \in Nat /\ 3 * g + 1 \in Nat /\ 3 * g + 2 \in Nat /\ 3 * g < n /\ 3 * g + 1 < n /\ 3 * g + 2 < n
  BY <1>0
<1>2. g < Blocks(n)
  <2>1. Blocks(n) \in Nat /\ 3 * Blocks(n) \in n .. (n + 2)
    BY <1>0, BlocksProperties
  <2> HIDE DEF n
  <2> QED BY <1>0, <1>1, <2>1
<1> DEFINE v == s[3 * g + 1] * 65536 + s[3 * g + 2] * 256 + s[3 * g + 3]
           t == Digits(v, 4)
<1>3. v = Triple(s, g)
  <2>1. 3 * g + 1 + 1 = 3 * g + 2 /\ 3 * g + 2 + 1 = 3 * g + 3
    OBVIOUS
  <2>2. /\ ByteAt(s, 3 * g) = s[3 * g + 1] /\ ByteAt(s, 3 * g + 1) = s[3 * g + 2]
        /\ ByteAt(s, 3 * g + 2) = s[3 * g + 3]
    BY <1>1, <2>1 DEF ByteAt
  <2> QED BY SMT, <2>2 DEF Triple
<1>4. v \in Nat
  BY <1>3, TripleNat
<1> HIDE DEF v
<1>5. /\ Len(t) = 4 /\ t[1] = Char((v \div 262144) % 64) /\ t[2] = Char((v \div 4096) % 64)
      /\ t[3] = Char((v \div 64) % 64) /\ t[4] = Char(v % 64)
  <2>1. Len(t) = 4 /\ \A k \in 1 .. 4 : t[k] = Char((v \div 64^(4 - k)) % 64)
    BY ZenonT(40), DigitsAt
  <2>2. /\ t[1] = Char((v \div 64^3) % 64) /\ t[2] = Char((v \div 64^2) % 64)
        /\ t[3] = Char((v \div 64^1) % 64) /\ t[4] = Char((v \div 64^0) % 64)
    <3> HIDE DEF t
    <3> QED BY SMT, <2>1
  <2>3. v \div 1 = v
    BY <1>4
  <2> QED BY SMT, <2>1, <2>2, <2>3, Powers
<1> HIDE DEF t, n
<1>6. ASSUME NEW p \in 0 .. 3 PROVE t[p + 1] = Encoded(s)[4 * g + p + 1]
  <2>1. Encoded(s)[4 * g + p + 1] = Char(Sextet(s, g, p))
    <3>1. ~(3 * g + p > n)
      BY <1>0, <1>1
    <3>2. Encoded(s)[4 * g + p + 1] = IF p > 0 /\ 3 * g + p > n THEN Pad ELSE Char(Sextet(s, g, p))
      BY <1>2, EncodedAt DEF n
    <3> QED BY <3>1, <3>2
  <2>2. t[p + 1] = Char(Sextet(s, g, p))
    <3>1. CASE p = 0
      BY SMT, <1>3, <1>5, <3>1 DEF Sextet
    <3>2. CASE p = 1
      BY SMT, <1>3, <1>5, <3>2 DEF Sextet
    <3>3. CASE p = 2
      BY SMT, <1>3, <1>5, <3>3 DEF Sextet
    <3>4. CASE p = 3
      BY SMT, <1>3, <1>5, <3>4 DEF Sextet
    <3> QED BY <3>1, <3>2, <3>3, <3>4
  <2> QED BY <2>1, <2>2
<1> QED BY <1>2, <1>5, <1>6 DEF IsBlock, t, v, n

(* A digit less to the right moves the digits by one place.                   *)
LEMMA Shifted ==
  ASSUME NEW v \in Nat, NEW w \in Nat, w = 64 * v
  PROVE  w \div 64 = v /\ w \div 4096 = v \div 64 /\ w \div 262144 = v \div 4096
<1>1. w \div 64 = v
  BY SMT
<1>2. w \div 4096 = v \div 64
  BY SMT
<1>3. w \div 262144 = v \div 4096
  BY SMT
<1> QED BY <1>1, <1>2, <1>3

(* The padding after a block of one or two bytes.                             *)
LEMMA PaddedAt ==
  ASSUME NEW v, NEW n \in 1 .. 3
  PROVE  LET t == Digits(v, n) \o [k \in 1 .. (4 - n) |-> Pad]
         IN  /\ Len(t) = 4
             /\ \A k \in 1 .. 4 : t[k] = IF k <= n THEN Char((v \div 64^(n - k)) % 64) ELSE Pad
<1> DEFINE d == Digits(v, n)
           e == [k \in 1 .. (4 - n) |-> Pad]
           D == {Char((v \div 64^(n - k)) % 64) : k \in 1 .. n}
<1>1. d \in Seq(D) /\ Len(d) = n /\ \A k \in 1 .. n : d[k] = Char((v \div 64^(n - k)) % 64)
  <2>1. d \in [1 .. n -> D]
    BY DEF Digits
  <2>2. d \in Seq(D)
    <3> HIDE DEF d, D
    <3> QED BY <2>1
  <2> QED BY <2>2, DigitsAt
<1>2. e \in Seq({Pad}) /\ Len(e) = 4 - n /\ \A k \in 1 .. (4 - n) : e[k] = Pad
  OBVIOUS
<1> HIDE DEF d, e, D
<1>3. Len(d \o e) = 4 /\ \A k \in 1 .. 4 : (d \o e)[k] = IF k <= n THEN d[k] ELSE e[k - n]
  BY <1>1, <1>2
<1>4. ASSUME NEW k \in 1 .. 4
      PROVE  (d \o e)[k] = IF k <= n THEN Char((v \div 64^(n - k)) % 64) ELSE Pad
  <2>1. CASE k <= n
    <3>1. k \in 1 .. n
      BY <2>1
    <3>2. (d \o e)[k] = d[k]
      BY <1>3, <2>1
    <3> QED BY <1>1, <2>1, <3>1, <3>2
  <2>2. CASE ~(k <= n)
    <3>1. k - n \in 1 .. (4 - n)
      BY <2>2
    <3>2. (d \o e)[k] = e[k - n]
      BY <1>3, <2>2
    <3> QED BY <1>2, <2>2, <3>1, <3>2
  <2> QED BY <2>1, <2>2
<1> QED BY <1>3, <1>4 DEF d, e

LEMMA OneByteBlock ==
  ASSUME NEW s, IsPlain(s), NEW g \in Nat, 3 * g + 1 = Len(s)
  PROVE  IsBlock(Digits(s[3 * g + 1] * 16, 2) \o [k \in 1 .. 2 |-> Pad], s, g)
<1> DEFINE n == Len(s)
           a == s[3 * g + 1]
           v == a * 16
           t == Digits(v, 2) \o [k \in 1 .. 2 |-> Pad]
<1>1. n = 3 * g + 1 /\ a \in 0 .. 255 /\ g < Blocks(n)
  <2>1. 3 * g + 1 \in 1 .. Len(s)
    BY PlainProperties
  <2>2. a \in 0 .. 255
    BY <2>1, PlainProperties
  <2>3. n = 3 * g + 1 /\ Blocks(n) \in Nat /\ 3 * Blocks(n) \in n .. (n + 2)
    BY PlainProperties, BlocksProperties
  <2> HIDE DEF n, a
  <2> QED BY <2>2, <2>3
<1>2. Triple(s, g) = a * 65536
  <2>1. 3 * g \in Nat /\ 3 * g + 1 \in Nat /\ 3 * g + 2 \in Nat /\ 3 * g < n /\ ~(3 * g + 1 < n) /\ ~(3 * g + 2 < n)
    BY <1>1
  <2>2. ByteAt(s, 3 * g) = a /\ ByteAt(s, 3 * g + 1) = 0 /\ ByteAt(s, 3 * g + 2) = 0
    BY <2>1 DEF ByteAt
  <2> HIDE DEF a
  <2> QED BY SMT, <1>1, <2>2 DEF Triple
<1> HIDE DEF a
<1>3. Len(t) = 4 /\ \A k \in 1 .. 4 : t[k] = IF k <= 2 THEN Char((v \div 64^(2 - k)) % 64) ELSE Pad
  <2>1. 4 - 2 = 2
    OBVIOUS
  <2> QED BY <2>1, PaddedAt
<1>4. t[1] = Char((v \div 64) % 64) /\ t[2] = Char(v % 64) /\ t[3] = Pad /\ t[4] = Pad
  <2>1. t[1] = Char((v \div 64^1) % 64) /\ t[2] = Char((v \div 64^0) % 64) /\ t[3] = Pad /\ t[4] = Pad
    <3> HIDE DEF t, v
    <3> QED BY SMT, <1>3
  <2>2. v \div 1 = v
    BY SMT, <1>1
  <2> HIDE DEF t, v
  <2> QED BY SMT, <2>1, <2>2, Powers
<1> HIDE DEF t
<1>5. ASSUME NEW p \in 0 .. 3 PROVE t[p + 1] = Encoded(s)[4 * g + p + 1]
  <2>1. Encoded(s)[4 * g + p + 1] = IF p > 1 THEN Pad ELSE Char(Sextet(s, g, p))
    <3>1. (p > 0 /\ 3 * g + p > n) <=> p > 1
      BY <1>1
    <3>2. Encoded(s)[4 * g + p + 1] = IF p > 0 /\ 3 * g + p > n THEN Pad ELSE Char(Sextet(s, g, p))
      BY <1>1, EncodedAt DEF n
    <3> QED BY <3>1, <3>2
  <2>2. (v \div 64) % 64 = ((a * 65536) \div 262144) % 64 /\ v % 64 = ((a * 65536) \div 4096) % 64
    <3>1. v \in Nat /\ 64 * v \in Nat /\ a * 65536 = 64 * (64 * v)
      BY SMT, <1>1
    <3> HIDE DEF v
    <3>2. (64 * v) \div 64 = v /\ (64 * v) \div 4096 = v \div 64
      BY <3>1, Shifted
    <3>3. (64 * (64 * v)) \div 262144 = (64 * v) \div 4096 /\ (64 * (64 * v)) \div 4096 = (64 * v) \div 64
      BY <3>1, Shifted
    <3> QED BY <3>1, <3>2, <3>3
  <2> HIDE DEF v
  <2>3. t[p + 1] = IF p > 1 THEN Pad ELSE Char(Sextet(s, g, p))
    <3>1. CASE p = 0
      BY SMT, <1>2, <1>4, <2>2, <3>1 DEF Sextet
    <3>2. CASE p = 1
      BY SMT, <1>2, <1>4, <2>2, <3>2 DEF Sextet
    <3>3. CASE p = 2
      BY SMT, <1>4, <3>3
    <3>4. CASE p = 3
      BY SMT, <1>4, <3>4
    <3> QED BY <3>1, <3>2, <3>3, <3>4
  <2> QED BY <2>1, <2>3
<1> QED BY <1>3, <1>5 DEF IsBlock, t, v, a

LEMMA TwoByteBlock ==
  ASSUME NEW s, IsPlain(s), NEW g \in Nat, 3 * g + 2 = Len(s)
  PROVE  IsBlock(Digits((s[3 * g + 1] * 256 + s[3 * g + 2]) * 4, 3) \o [k \in 1 .. 1 |-> Pad], s, g)
<1> DEFINE n == Len(s)
           a == s[3 * g + 1]
           b == s[3 * g + 2]
           v == (a * 256 + b) * 4
           w == a * 65536 + b * 256
           t == Digits(v, 3) \o [k \in 1 .. 1 |-> Pad]
<1>1. n = 3 * g + 2 /\ a \in 0 .. 255 /\ b \in 0 .. 255 /\ g < Blocks(n)
  <2>1. 3 * g + 1 \in 1 .. Len(s) /\ 3 * g + 2 \in 1 .. Len(s)
    BY PlainProperties
  <2>2. a \in 0 .. 255 /\ b \in 0 .. 255
    BY <2>1, PlainProperties
  <2>3. n = 3 * g + 2 /\ Blocks(n) \in Nat /\ 3 * Blocks(n) \in n .. (n + 2)
    BY PlainProperties, BlocksProperties
  <2> HIDE DEF n, a, b
  <2> QED BY <2>2, <2>3
<1>2. Triple(s, g) = w
  <2>1. /\ 3 * g \in Nat /\ 3 * g + 1 \in Nat /\ 3 * g + 2 \in Nat /\ 3 * g < n /\ 3 * g + 1 < n
        /\ ~(3 * g + 2 < n) /\ 3 * g + 1 + 1 = 3 * g + 2
    BY <1>1
  <2>2. ByteAt(s, 3 * g) = a /\ ByteAt(s, 3 * g + 1) = b /\ ByteAt(s, 3 * g + 2) = 0
    BY <2>1 DEF ByteAt
  <2> HIDE DEF a, b
  <2> QED BY SMT, <1>1, <2>2 DEF Triple
<1> HIDE DEF a, b
<1>3. Len(t) = 4 /\ \A k \in 1 .. 4 : t[k] = IF k <= 3 THEN Char((v \div 64^(3 - k)) % 64) ELSE Pad
  <2>1. 4 - 3 = 1
    OBVIOUS
  <2> QED BY <2>1, PaddedAt
<1>4. /\ t[1] = Char((v \div 4096) % 64) /\ t[2] = Char((v \div 64) % 64)
      /\ t[3] = Char(v % 64) /\ t[4] = Pad
  <2>1. /\ t[1] = Char((v \div 64^2) % 64) /\ t[2] = Char((v \div 64^1) % 64)
        /\ t[3] = Char((v \div 64^0) % 64) /\ t[4] = Pad
    <3> HIDE DEF t, v
    <3> QED BY SMT, <1>3
  <2>2. v \div 1 = v
    BY SMT, <1>1
  <2> HIDE DEF t, v
  <2> QED BY SMT, <2>1, <2>2, Powers
<1> HIDE DEF t
<1>5. ASSUME NEW p \in 0 .. 3 PROVE t[p + 1] = Encoded(s)[4 * g + p + 1]
  <2>1. Encoded(s)[4 * g + p + 1] = IF p > 2 THEN Pad ELSE Char(Sextet(s, g, p))
    <3>1. (p > 0 /\ 3 * g + p > n) <=> p > 2
      BY <1>1
    <3>2. Encoded(s)[4 * g + p + 1] = IF p > 0 /\ 3 * g + p > n THEN Pad ELSE Char(Sextet(s, g, p))
      BY <1>1, EncodedAt DEF n
    <3> QED BY <3>1, <3>2
  <2>2. /\ (v \div 4096) % 64 = (w \div 262144) % 64 /\ (v \div 64) % 64 = (w \div 4096) % 64
        /\ v % 64 = (w \div 64) % 64
    <3>1. v \in Nat /\ w \in Nat /\ w = 64 * v
      BY SMT, <1>1
    <3> HIDE DEF v, w
    <3>2. w \div 64 = v /\ w \div 4096 = v \div 64 /\ w \div 262144 = v \div 4096
      BY <3>1, Shifted
    <3> QED BY <3>2
  <2> HIDE DEF v, w
  <2>3. t[p + 1] = IF p > 2 THEN Pad ELSE Char(Sextet(s, g, p))
    <3>1. CASE p = 0
      BY SMT, <1>2, <1>4, <2>2, <3>1 DEF Sextet
    <3>2. CASE p = 1
      BY SMT, <1>2, <1>4, <2>2, <3>2 DEF Sextet
    <3>3. CASE p = 2
      BY SMT, <1>2, <1>4, <2>2, <3>3 DEF Sextet
    <3>4. CASE p = 3
      BY SMT, <1>4, <3>4
    <3> QED BY <3>1, <3>2, <3>3, <3>4
  <2> QED BY <2>1, <2>3
<1> QED BY <1>3, <1>5 DEF IsBlock, t, v, a, b

(* A block is written behind what has still to be read.                       *)
LEMMA EncodeWrites ==
  ASSUME EncodeInv, verdict = "busy", NEW g \in Nat, NEW t, IsBlock(t, input, g),
         i_out = 4 * g + 4, 3 * g <= i_in, g < Blocks(Len(input)),
         buf' = Written(4 * g, t), i_in' = 3 * g, i_out' = 4 * g, UNCHANGED <<input, verdict>>
  PROVE  EncodeInv'
<1> DEFINE n == Len(input)
           L == EncodedLen(n)
           E == Encoded(input)
<1>0. IsPlain(input)
  BY DEF EncodeInv, IsPlain
<1>1. n \in Nat /\ L \in Nat /\ L = 4 * Blocks(n) /\ Blocks(n) \in Nat /\ 4 * g + 4 <= L
  <2>1. n \in Nat /\ Blocks(n) \in Nat /\ L = 4 * Blocks(n)
    BY <1>0, PlainProperties, BlocksProperties
  <2> HIDE DEF L, n
  <2> QED BY <2>1 DEF n
<1>2. /\ DOMAIN buf = 0 .. (L - 1) /\ i_in \in 0 .. n
      /\ \A i \in 0 .. (i_in - 1) : buf[i] = input[i + 1]
      /\ \A i \in i_out .. (L - 1) : buf[i] = E[i + 1]
  BY DEF EncodeInv
<1>3. Len(t) = 4 /\ \A p \in 0 .. 3 : t[p + 1] = E[4 * g + p + 1]
  BY DEF IsBlock
<1>4. i_out' = EncodedLen(i_in')
  <2>1. 3 * g \in Nat /\ (3 * g) % 3 = 0
    OBVIOUS
  <2>2. Blocks(3 * g) \in Nat /\ 3 * g = 3 * Blocks(3 * g) /\ EncodedLen(3 * g) = 4 * Blocks(3 * g)
    BY <2>1, BlocksProperties
  <2> QED BY <2>2
<1>5. i_in' \in 0 .. n /\ i_in' % 3 = 0
  BY <1>1, <1>2
<1> HIDE DEF L, n, E
<1>6. DOMAIN buf' = 0 .. (L - 1)
      /\ \A i \in 0 .. (L - 1) : buf'[i] = IF i \in (4 * g) .. (4 * g + 3) THEN t[i - 4 * g + 1] ELSE buf[i]
  <2>1. 4 * g + Len(t) - 1 = 4 * g + 3
    BY <1>3
  <2> QED BY <1>2, <2>1 DEF Written
<1>7. ASSUME NEW i \in 0 .. (i_in' - 1) PROVE buf'[i] = input[i + 1]
  <2>0. i \in Nat /\ i < 3 * g
    <3>1. i_in' = 3 * g /\ i \in 0 .. (i_in' - 1)
      OBVIOUS
    <3> QED BY ONLY <3>1, g \in Nat
  <2>1. i \in 0 .. (L - 1) /\ i \in 0 .. (i_in - 1) /\ ~(i \in (4 * g) .. (4 * g + 3))
    <3>1. L \in Nat /\ 4 * g + 4 <= L /\ i_in \in Nat /\ 3 * g <= i_in
      BY <1>1, <1>2
    <3> QED BY ONLY <2>0, <3>1, g \in Nat
  <2> QED BY <1>2, <1>6, <2>1
<1>8. ASSUME NEW i \in i_out' .. (L - 1) PROVE buf'[i] = E[i + 1]
  <2>0. i \in 0 .. (L - 1)
    BY <1>1
  <2>1. CASE i \in (4 * g) .. (4 * g + 3)
    <3>1. i - 4 * g \in 0 .. 3 /\ 4 * g + (i - 4 * g) + 1 = i + 1
      BY <2>1
    <3>2. t[i - 4 * g + 1] = E[i + 1]
      BY <1>3, <3>1
    <3> QED BY <1>6, <2>0, <2>1, <3>2
  <2>2. CASE ~(i \in (4 * g) .. (4 * g + 3))
    <3>1. i \in i_out .. (L - 1)
      BY <1>1, <2>2
    <3> QED BY <1>2, <1>6, <2>0, <2>2, <3>1
  <2> QED BY <2>1, <2>2
<1> QED
  <2>1. input' \in Seq(0 .. 255) /\ verdict' \in {"busy", "ok"} /\ (verdict' = "ok" => i_in' = 0)
    BY <1>0 DEF IsPlain
  <2>2. DOMAIN buf' = 0 .. (EncodedLen(Len(input')) - 1)
    BY <1>6 DEF L, n
  <2>3. i_in' \in 0 .. Len(input') /\ (i_in' % 3 > 0 => i_in' = Len(input'))
    BY <1>5 DEF n
  <2>4. \A i \in 0 .. (i_in' - 1) : buf'[i] = input'[i + 1]
    BY <1>7
  <2>5. \A i \in i_out' .. (EncodedLen(Len(input')) - 1) : buf'[i] = Encoded(input')[i + 1]
    BY <1>8 DEF L, n, E
  <2> QED BY <1>4, <2>1, <2>2, <2>3, <2>4, <2>5 DEF EncodeInv

LEMMA EncodeRemainderStep == EncodeInv /\ EncodeRemainder => EncodeInv'
<1> SUFFICES ASSUME EncodeInv, EncodeRemainder PROVE EncodeInv'
  OBVIOUS
<1> DEFINE n == Len(input)
           r == n % 3
           g == Blocks(n) - 1
           L == EncodedLen(n)
<1>0. IsPlain(input)
  BY DEF EncodeInv, IsPlain
<1>1. n \in Nat /\ g \in Nat /\ n = 3 * g + r /\ r \in 1 .. 2 /\ g < Blocks(n) /\ L = 4 * g + 4 /\ n <= L
  <2>1. n \in Nat /\ r > 0 /\ r \in 0 .. 2
    BY <1>0, PlainProperties DEF EncodeRemainder
  <2>2. Blocks(n) \in Nat /\ n = 3 * (Blocks(n) - 1) + r /\ Blocks(n) > 0 /\ L = 4 * Blocks(n)
    BY <2>1, BlocksProperties
  <2> HIDE DEF n, r, L
  <2> QED BY <2>1, <2>2
<1>2. /\ i_in = n /\ i_out = 4 * g + 4 /\ verdict = "busy" /\ UNCHANGED <<input, verdict>>
      /\ \A i \in 0 .. (n - 1) : buf[i] = input[i + 1]
  <2>1. i_in = n /\ i_out = EncodedLen(i_in) /\ verdict = "busy" /\ UNCHANGED <<input, verdict>>
        /\ \A i \in 0 .. (i_in - 1) : buf[i] = input[i + 1]
    BY DEF EncodeInv, EncodeRemainder, Encoding
  <2> QED BY <1>1, <2>1
<1>3. i_in' = 3 * g /\ i_out' = 4 * g /\ 3 * g <= i_in /\ i_out - 4 = 4 * g
  <2>1. i_in' = n - r /\ i_out' = i_out - 4
    BY <1>2 DEF EncodeRemainder
  <2> HIDE DEF n, r, g, L
  <2> QED BY <1>1, <1>2, <2>1
<1>4. CASE r = 1
  <2> DEFINE t == Digits(input[3 * g + 1] * 16, 2) \o [k \in 1 .. 2 |-> Pad]
  <2>1. 3 * g + 1 = n
    BY <1>1, <1>4
  <2>2. IsBlock(t, input, g)
    BY <1>0, <1>1, <2>1, OneByteBlock
  <2>3. buf[i_in - 1] = input[3 * g + 1]
    <3>1. i_in - 1 \in 0 .. (n - 1) /\ i_in - 1 + 1 = 3 * g + 1
      BY <1>1, <1>2, <2>1
    <3> HIDE DEF n, g
    <3> QED BY <1>2, <3>1
  <2>4. buf' = Written(4 * g, t)
    <3>1. buf' = Written(i_out - 4, Digits(buf[i_in - 1] * 16, 1 + 1) \o [k \in 1 .. (3 - 1) |-> Pad])
      BY <1>4 DEF EncodeRemainder
    <3>2. 1 + 1 = 2 /\ 3 - 1 = 2
      OBVIOUS
    <3> HIDE DEF g
    <3> QED BY <1>3, <2>3, <3>1, <3>2
  <2> HIDE DEF t, g
  <2> QED BY <1>1, <1>2, <1>3, <2>2, <2>4, EncodeWrites DEF n
<1>5. CASE r = 2
  <2> DEFINE t == Digits((input[3 * g + 1] * 256 + input[3 * g + 2]) * 4, 3) \o [k \in 1 .. 1 |-> Pad]
  <2>1. 3 * g + 2 = n
    BY <1>1, <1>5
  <2>2. IsBlock(t, input, g)
    BY <1>0, <1>1, <2>1, TwoByteBlock
  <2>3. buf[i_in - 2] = input[3 * g + 1] /\ buf[i_in - 1] = input[3 * g + 2]
    <3>1. /\ i_in - 1 \in 0 .. (n - 1) /\ i_in - 1 + 1 = 3 * g + 2
          /\ i_in - 2 \in 0 .. (n - 1) /\ i_in - 2 + 1 = 3 * g + 1
      BY <1>1, <1>2, <2>1
    <3> HIDE DEF n, g
    <3> QED BY <1>2, <3>1
  <2>4. buf' = Written(4 * g, t)
    <3>1. buf' = Written(i_out - 4, Digits((buf[i_in - 2] * 256 + buf[i_in - 1]) * 4, 2 + 1)
                                      \o [k \in 1 .. (3 - 2) |-> Pad])
      BY <1>5 DEF EncodeRemainder
    <3>2. 2 + 1 = 3 /\ 3 - 2 = 1
      OBVIOUS
    <3> HIDE DEF g
    <3> QED BY <1>3, <2>3, <3>1, <3>2
  <2> HIDE DEF t, g
  <2> QED BY <1>1, <1>2, <1>3, <2>2, <2>4, EncodeWrites DEF n
<1> HIDE DEF r
<1> QED BY <1>1, <1>4, <1>5

LEMMA EncodeBlockStep == EncodeInv /\ EncodeBlock => EncodeInv'
<1> SUFFICES ASSUME EncodeInv, EncodeBlock PROVE EncodeInv'
  OBVIOUS
<1> DEFINE n == Len(input)
           g == Blocks(i_in) - 1
           v == input[3 * g + 1] * 65536 + input[3 * g + 2] * 256 + input[3 * g + 3]
           t == Digits(v, 4)
<1>0. IsPlain(input)
  BY DEF EncodeInv, IsPlain
<1>1. /\ i_in \in 0 .. n /\ i_in > 0 /\ i_in % 3 = 0 /\ i_out = EncodedLen(i_in) /\ n \in Nat
      /\ \A i \in 0 .. (i_in - 1) : buf[i] = input[i + 1]
      /\ verdict = "busy" /\ UNCHANGED <<input, verdict>>
  BY <1>0, PlainProperties DEF EncodeInv, EncodeBlock, Encoding
<1>2. i_in = 3 * g + 3 /\ g \in Nat /\ i_out = 4 * g + 4 /\ 3 * g + 3 <= n
  <2>1. Blocks(i_in) \in Nat /\ i_in = 3 * Blocks(i_in) /\ EncodedLen(i_in) = 4 * Blocks(i_in)
    BY <1>1, BlocksProperties
  <2> HIDE DEF n
  <2> QED BY <1>1, <2>1
<1> HIDE DEF g
<1>3. g < Blocks(n) /\ IsBlock(t, input, g)
  BY <1>0, <1>2, FullBlock
<1>4. i_in' = 3 * g /\ i_out' = 4 * g /\ 3 * g <= i_in /\ i_out - 4 = 4 * g
  BY <1>2 DEF EncodeBlock
<1>5. /\ buf[i_in - 3] = input[3 * g + 1] /\ buf[i_in - 2] = input[3 * g + 2]
      /\ buf[i_in - 1] = input[3 * g + 3]
  <2>1. /\ i_in - 3 \in 0 .. (i_in - 1) /\ i_in - 3 + 1 = 3 * g + 1
        /\ i_in - 2 \in 0 .. (i_in - 1) /\ i_in - 2 + 1 = 3 * g + 2
        /\ i_in - 1 \in 0 .. (i_in - 1) /\ i_in - 1 + 1 = 3 * g + 3
    BY <1>2
  <2> QED BY <1>1, <2>1
<1>6. buf' = Written(4 * g, t)
  <2>1. buf' = Written(i_out - 4, Digits(buf[i_in - 3] * 65536 + buf[i_in - 2] * 256 + buf[i_in - 1], 4))
    BY DEF EncodeBlock
  <2> QED BY <1>4, <1>5, <2>1
<1> HIDE DEF t, v
<1> QED BY <1>1, <1>2, <1>3, <1>4, <1>6, EncodeWrites DEF n

LEMMA EncodeEndsStep == EncodeInv /\ EncodeEnds => EncodeInv'
BY DEF EncodeInv, EncodeEnds

LEMMA EncodeStarted == \A s \in Plains : EncodeStarts(s) => EncodeInv
<1> SUFFICES ASSUME NEW s \in Plains, EncodeStarts(s) PROVE EncodeInv
  OBVIOUS
<1> DEFINE n == Len(s)
           L == EncodedLen(n)
<1>1. IsPlain(s)
  BY PlainsAssumption DEF IsPlain
<1>2. n \in Nat /\ L \in Nat /\ n <= L
  <2>1. n \in Nat
    BY <1>1, PlainProperties
  <2>2. Blocks(n) \in Nat /\ L = 4 * Blocks(n) /\ 3 * Blocks(n) \in n .. (n + 2)
    BY <2>1, BlocksProperties
  <2> HIDE DEF n, L
  <2> QED BY <2>1, <2>2
<1>3. input = s /\ verdict = "busy" /\ i_in = n /\ i_out = L /\ buf = Buffer(s, L)
  BY DEF EncodeStarts
<1> HIDE DEF L
<1>4. DOMAIN buf = 0 .. (L - 1) /\ \A i \in 0 .. (i_in - 1) : buf[i] = input[i + 1]
  BY <1>2, <1>3 DEF Buffer
<1>5. \A i \in i_out .. (L - 1) : buf[i] = Encoded(input)[i + 1]
  BY <1>2, <1>3
<1> QED BY <1>1, <1>2, <1>3, <1>4, <1>5 DEF EncodeInv, IsPlain, L

LEMMA SextetDigit ==
  ASSUME NEW s, IsPlain(s), NEW g \in Nat, NEW p \in 0 .. 3
  PROVE  /\ Sextet(s, g, p) \in 0 .. 63 /\ IsDigit(Char(Sextet(s, g, p)))
         /\ Char(Sextet(s, g, p)) # Pad /\ Char(Sextet(s, g, p)) - 256 = Sextet(s, g, p)
<1> DEFINE v == Triple(s, g)
           x == Sextet(s, g, p)
<1>1. v \in Nat
  BY TripleNat
<1>2. x \in 0 .. 63
  <2>1. x \in {(v \div 262144) % 64, (v \div 4096) % 64, (v \div 64) % 64, v % 64}
    <3>1. CASE p = 0
      BY <3>1 DEF Sextet
    <3>2. CASE p = 1
      BY <3>2 DEF Sextet
    <3>3. CASE p = 2
      BY <3>3 DEF Sextet
    <3>4. CASE p = 3
      BY <3>4 DEF Sextet
    <3> QED BY <3>1, <3>2, <3>3, <3>4
  <2> HIDE DEF v, x
  <2>2. \A w \in Nat : w % 64 \in 0 .. 63
    OBVIOUS
  <2>3. v \div 262144 \in Nat /\ v \div 4096 \in Nat /\ v \div 64 \in Nat
    BY SMT, <1>1
  <2> QED BY <1>1, <2>1, <2>2, <2>3
<1> HIDE DEF x
<1> QED BY <1>2 DEF x, Char, IsDigit, Pad

(* A number of 24 bits is what its four digits and what its three bytes say.  *)
LEMMA Recombined ==
  ASSUME NEW v \in Nat, v < 16777216
  PROVE  v = ((v \div 262144) % 64) * 262144 + ((v \div 4096) % 64) * 4096 + ((v \div 64) % 64) * 64 + (v % 64)
<1> DEFINE w == v \div 64
           x == w \div 64
           y == x \div 64
<1>1. w \in Nat /\ v = 64 * w + (v % 64) /\ w < 262144
  BY SMT
<1>2. v \div 4096 = x /\ v \div 262144 = y
  <2>1. v \div 4096 = (v \div 64) \div 64
    BY SMT
  <2>2. v \div 262144 = (v \div 4096) \div 64
    BY SMT
  <2> QED BY SMT, <2>1, <2>2
<1> HIDE DEF w
<1>3. x \in Nat /\ w = 64 * x + (w % 64) /\ x < 4096
  BY SMT, <1>1
<1> HIDE DEF x
<1>4. y \in Nat /\ x = 64 * y + (x % 64) /\ y < 64
  BY SMT, <1>3
<1> HIDE DEF y
<1>5. y % 64 = y
  BY SMT, <1>4
<1> DEFINE p == w % 64
           q == x % 64
           r == v % 64
<1>6. p \in Nat /\ q \in Nat /\ r \in Nat
  BY SMT, <1>1, <1>3
<1> HIDE DEF p, q, r
<1>7. v = 64 * w + r /\ w = 64 * x + p /\ x = 64 * y + q
  BY SMT, <1>1, <1>3, <1>4 DEF p, q, r
<1>8. v = y * 262144 + q * 4096 + p * 64 + r
  BY SMT, <1>1, <1>3, <1>4, <1>6, <1>7
<1> QED BY SMT, <1>2, <1>5, <1>8 DEF p, q, r, w

IsTriple(v, a, b, c) ==
  a \in 0 .. 255 /\ b \in 0 .. 255 /\ c \in 0 .. 255 /\ v = a * 65536 + b * 256 + c

LEMMA TripleBytes ==
  ASSUME NEW v, NEW a, NEW b, NEW c, IsTriple(v, a, b, c)
  PROVE  v < 16777216 /\ (v \div 65536) % 256 = a /\ (v \div 256) % 256 = b /\ v % 256 = c
<1> USE DEF IsTriple
<1>1. v < 16777216
  BY SMT
<1>2. v \div 65536 = a /\ a % 256 = a
  BY SMT
<1>3. v \div 256 = a * 256 + b /\ (a * 256 + b) % 256 = b
  BY SMT
<1>4. v % 256 = c
  BY SMT
<1> QED BY SMT, <1>1, <1>2, <1>3, <1>4

(* The digits' values in the encoding: padding stands for a zero digit.       *)
LEMMA EncodedDigit ==
  ASSUME NEW s, IsPlain(s), NEW g \in Nat, g < Blocks(Len(s)), NEW p \in 0 .. 3
  PROVE  DigitAt(Encoded(s), 4 * g + p + 1) = Sextet(s, g, p)
<1> DEFINE n == Len(s)
           x == Encoded(s)[4 * g + p + 1]
<1>0. n \in Nat
  BY PlainProperties
<1>1. x = IF p > 0 /\ 3 * g + p > n THEN Pad ELSE Char(Sextet(s, g, p))
  BY EncodedAt
<1>2. DigitAt(Encoded(s), 4 * g + p + 1) = IF IsDigit(x) THEN x - 256 ELSE 0
  BY DEF DigitAt
<1>3. 3 * g < n
  <2>1. Blocks(n) \in Nat /\ 3 * Blocks(n) \in n .. (n + 2)
    BY <1>0, BlocksProperties
  <2> HIDE DEF n
  <2> QED BY <1>0, <2>1 DEF n
<1> HIDE DEF x, n
<1>4. CASE ~(p > 0 /\ 3 * g + p > n)
  BY <1>1, <1>2, <1>4, SextetDigit
<1>5. CASE p > 0 /\ 3 * g + p > n
  <2>1. x = Pad /\ ~IsDigit(Pad)
    BY <1>1, <1>5 DEF Pad, IsDigit
  <2>2. Sextet(s, g, p) = 0
    <3> DEFINE a == ByteAt(s, 3 * g)
               b == ByteAt(s, 3 * g + 1)
               c == ByteAt(s, 3 * g + 2)
    <3>1. a \in 0 .. 255 /\ b \in 0 .. 255 /\ (3 * g + 1 >= n => b = 0) /\ (3 * g + 2 >= n => c = 0)
      <4>1. 3 * g \in Nat /\ 3 * g + 1 \in Nat /\ 3 * g + 2 \in Nat
        OBVIOUS
      <4> QED BY <4>1, ByteAtProperties DEF n
    <3>2. Triple(s, g) = a * 65536 + b * 256 + c
      BY DEF Triple
    <3> HIDE DEF a, b, c
    <3>3. p # 1
      BY <1>0, <1>3, <1>5
    <3>4. CASE p = 2
      <4>1. b = 0 /\ c = 0
        BY <1>0, <1>3, <1>5, <3>1, <3>4
      <4>2. Triple(s, g) = a * 65536
        BY SMT, <3>1, <3>2, <4>1
      <4>3. ((a * 65536) \div 64) % 64 = 0
        BY SMT, <3>1
      <4> QED BY <3>4, <4>2, <4>3 DEF Sextet
    <3>5. CASE p = 3
      <4>1. c = 0
        BY <1>0, <1>3, <1>5, <3>1, <3>5
      <4>2. Triple(s, g) = a * 65536 + b * 256
        BY SMT, <3>1, <3>2, <4>1
      <4>3. (a * 65536 + b * 256) % 64 = 0
        BY SMT, <3>1
      <4> QED BY <3>5, <4>2, <4>3 DEF Sextet
    <3> QED BY <1>5, <3>3, <3>4, <3>5
  <2> QED BY <1>2, <2>1, <2>2
<1> QED BY <1>4, <1>5

LEMMA EncodedQuad ==
  ASSUME NEW s, IsPlain(s), NEW g \in Nat, g < Blocks(Len(s))
  PROVE  Quad(Encoded(s), g) = Triple(s, g)
<1> DEFINE e == Encoded(s)
           v == Triple(s, g)
<1>1. v \in Nat /\ v < 16777216
  <2> DEFINE a == ByteAt(s, 3 * g)
             b == ByteAt(s, 3 * g + 1)
             c == ByteAt(s, 3 * g + 2)
  <2>1. 3 * g \in Nat /\ 3 * g + 1 \in Nat /\ 3 * g + 2 \in Nat
    OBVIOUS
  <2>2. a \in 0 .. 255 /\ b \in 0 .. 255 /\ c \in 0 .. 255
    BY <2>1, ByteAtProperties
  <2>3. v = a * 65536 + b * 256 + c
    BY DEF Triple
  <2> HIDE DEF a, b, c, v
  <2> QED BY SMT, <2>2, <2>3
<1>2. /\ DigitAt(e, 4*g + 1) = (v \div 262144) % 64 /\ DigitAt(e, 4*g + 2) = (v \div 4096) % 64
      /\ DigitAt(e, 4*g + 3) = (v \div 64) % 64 /\ DigitAt(e, 4*g + 4) = v % 64
  <2>0. \A p \in 0 .. 3 : DigitAt(e, 4 * g + p + 1) = Sextet(s, g, p)
    BY EncodedDigit
  <2>1. /\ Sextet(s, g, 0) = (v \div 262144) % 64 /\ Sextet(s, g, 1) = (v \div 4096) % 64
        /\ Sextet(s, g, 2) = (v \div 64) % 64 /\ Sextet(s, g, 3) = v % 64
    BY SMT DEF Sextet
  <2>2. 4 * g + 0 + 1 = 4 * g + 1 /\ 4 * g + 1 + 1 = 4 * g + 2 /\ 4 * g + 2 + 1 = 4 * g + 3 /\ 4 * g + 3 + 1 = 4 * g + 4
    OBVIOUS
  <2>3. /\ DigitAt(e, 4 * g + 0 + 1) = Sextet(s, g, 0) /\ DigitAt(e, 4 * g + 1 + 1) = Sextet(s, g, 1)
        /\ DigitAt(e, 4 * g + 2 + 1) = Sextet(s, g, 2) /\ DigitAt(e, 4 * g + 3 + 1) = Sextet(s, g, 3)
    BY <2>0
  <2> HIDE DEF e, v
  <2> QED BY SMT, <2>1, <2>2, <2>3
<1> HIDE DEF v
<1>3. v = ((v \div 262144) % 64) * 262144 + ((v \div 4096) % 64) * 4096 + ((v \div 64) % 64) * 64 + (v % 64)
  BY SMT, <1>1, Recombined
<1>4. Quad(e, g) = DigitAt(e, 4*g + 1) * 262144 + DigitAt(e, 4*g + 2) * 4096
                     + DigitAt(e, 4*g + 3) * 64 + DigitAt(e, 4*g + 4)
  BY SMT, Powers DEF Quad
<1> HIDE DEF e
<1> QED BY SMT, <1>2, <1>3, <1>4 DEF v, e

(* The last block of an encoding is padded to the length of the input.        *)
LEMMA EncodedPads ==
  ASSUME NEW s, IsPlain(s)
  PROVE  /\ WellFormedText(Encoded(s)) /\ Pads(Encoded(s)) = 3 * Blocks(Len(s)) - Len(s)
         /\ Len(Encoded(s)) = 4 * Blocks(Len(s))
<1> DEFINE n == Len(s)
           b == Blocks(n)
           e == Encoded(s)
<1>1. n \in Nat /\ b \in Nat /\ 3 * b \in n .. (n + 2) /\ Len(e) = 4 * b
  BY PlainProperties, BlocksProperties, EncodedLength
<1>2. ASSUME NEW g \in Nat, g < b, NEW p \in 0 .. 3
      PROVE  /\ p > 0 /\ 3 * g + p > n => e[4 * g + p + 1] = Pad
             /\ ~(p > 0 /\ 3 * g + p > n) => IsDigit(e[4 * g + p + 1]) /\ e[4 * g + p + 1] # Pad
  <2>1. e[4 * g + p + 1] = IF p > 0 /\ 3 * g + p > n THEN Pad ELSE Char(Sextet(s, g, p))
    BY <1>2, EncodedAt
  <2>2. IsDigit(Char(Sextet(s, g, p))) /\ Char(Sextet(s, g, p)) # Pad
    BY SextetDigit
  <2> HIDE DEF n, e
  <2> QED BY <2>1, <2>2
<1> HIDE DEF n, b, e
<1>3. ASSUME NEW i \in 1 .. (Len(e) - 2) PROVE IsDigit(e[i])
  <2> DEFINE g == (i - 1) \div 4
             p == (i - 1) % 4
  <2>1. g \in Nat /\ p \in 0 .. 3 /\ i = 4 * g + p + 1
    OBVIOUS
  <2> HIDE DEF g, p
  <2>2. g < b /\ ~(p > 0 /\ 3 * g + p > n)
    <3>0. i <= 4 * b - 2 /\ i \in Nat
      BY <1>1
    <3>1. g < b
      BY <1>1, <2>1, <3>0
    <3>2. CASE g = b - 1
      BY <1>1, <2>1, <3>0, <3>2
    <3>3. CASE g < b - 1
      <4>1. 3 * g + 3 <= 3 * (b - 1)
        BY <1>1, <2>1, <3>3
      <4> QED BY <1>1, <2>1, <4>1
    <3> QED BY <1>1, <2>1, <3>1, <3>2, <3>3
  <2> QED BY <1>2, <2>1, <2>2
<1>4. CASE b > 0
  <2> DEFINE g == b - 1
  <2>1. g \in Nat /\ g < b /\ 4 * g + 3 + 1 = Len(e) /\ 4 * g + 2 + 1 = Len(e) - 1 /\ 3 * g + 3 \in n .. (n + 2)
    BY <1>1, <1>4
  <2> HIDE DEF g
  <2>2. /\ 3 * g + 3 > n => e[Len(e)] = Pad
        /\ ~(3 * g + 3 > n) => IsDigit(e[Len(e)]) /\ e[Len(e)] # Pad
    BY <1>2, <2>1
  <2>3. /\ 3 * g + 2 > n => e[Len(e) - 1] = Pad
        /\ ~(3 * g + 2 > n) => IsDigit(e[Len(e) - 1]) /\ e[Len(e) - 1] # Pad
    <3>1. /\ 2 > 0 /\ 3 * g + 2 > n => e[4 * g + 2 + 1] = Pad
          /\ ~(2 > 0 /\ 3 * g + 2 > n) => IsDigit(e[4 * g + 2 + 1]) /\ e[4 * g + 2 + 1] # Pad
      BY <1>2, <2>1
    <3> QED BY <2>1, <3>1
  <2>4. WellFormedText(e)
    <3>1. Len(e) % 4 = 0
      BY <1>1
    <3> QED BY <1>1, <1>3, <2>1, <2>2, <2>3, <3>1 DEF WellFormedText
  <2>5. Pads(e) = 3 * g + 3 - n
    <3>0. Len(e) > 0
      BY <1>1, <1>4
    <3>1. Pads(e) = (IF e[Len(e)] = Pad THEN 1 ELSE 0) + (IF e[Len(e) - 1] = Pad THEN 1 ELSE 0)
      BY <3>0 DEF Pads
    <3>2. CASE 3 * g + 3 = n
      <4>1. ~(3 * g + 3 > n) /\ ~(3 * g + 2 > n)
        BY <1>1, <2>1, <3>2
      <4> QED BY <1>1, <2>1, <2>2, <2>3, <3>1, <3>2, <4>1
    <3>3. CASE 3 * g + 2 = n
      <4>1. 3 * g + 3 > n /\ ~(3 * g + 2 > n)
        BY <1>1, <2>1, <3>3
      <4> QED BY <1>1, <2>1, <2>2, <2>3, <3>1, <3>3, <4>1
    <3>4. CASE 3 * g + 1 = n
      <4>1. 3 * g + 3 > n /\ 3 * g + 2 > n
        BY <1>1, <2>1, <3>4
      <4> QED BY <1>1, <2>1, <2>2, <2>3, <3>1, <3>4, <4>1
    <3> QED BY <1>1, <2>1, <3>2, <3>3, <3>4
  <2>6. 3 * g + 3 - n = 3 * b - n
    BY <1>1, <2>1 DEF g
  <2> QED BY <1>1, <2>4, <2>5, <2>6 DEF n, b, e
<1>5. CASE ~(b > 0)
  <2>1. n = 0 /\ b = 0 /\ Len(e) = 0
    BY <1>1, <1>5
  <2>2. WellFormedText(e) /\ Pads(e) = 0
    BY <1>3, <2>1 DEF WellFormedText, Pads
  <2>3. 3 * b - n = 0
    BY <2>1
  <2> QED BY <1>1, <2>2, <2>3 DEF n, b, e
<1> QED BY <1>4, <1>5

LEMMA RoundTrip ==
  ASSUME NEW s, IsPlain(s)
  PROVE  WellFormedText(Encoded(s)) /\ Decoded(Encoded(s)) = s
<1> DEFINE n == Len(s)
           b == Blocks(n)
           e == Encoded(s)
<1>0. n \in Nat /\ b \in Nat /\ 3 * b \in n .. (n + 2)
  BY PlainProperties, BlocksProperties
<1>1. WellFormedText(e) /\ Pads(e) = 3 * b - n /\ Len(e) = 4 * b
  BY EncodedPads
<1>2. 3 * (Len(e) \div 4) - Pads(e) = n
  <2>1. (4 * b) \div 4 = b
    BY <1>0
  <2> HIDE DEF n, b, e
  <2> QED BY <1>0, <1>1, <2>1
<1>3. ASSUME NEW j \in 1 .. n PROVE DecodedAt(e, j) = s[j]
  <2> DEFINE g == (j - 1) \div 3
             q == (j - 1) % 3
             v == Triple(s, g)
             x == ByteAt(s, 3 * g)
             y == ByteAt(s, 3 * g + 1)
             z == ByteAt(s, 3 * g + 2)
  <2>1. g \in Nat /\ q \in 0 .. 2 /\ j - 1 = 3 * g + q /\ g < b
    <3>1. g \in Nat /\ q \in 0 .. 2 /\ j - 1 = 3 * g + q
      OBVIOUS
    <3>2. j <= n /\ j \in Nat
      BY <1>0
    <3> HIDE DEF n, b, g, q
    <3> QED BY <1>0, <3>1, <3>2
  <2>2. Quad(e, g) = v
    BY <2>1, EncodedQuad
  <2>3. x \in 0 .. 255 /\ y \in 0 .. 255 /\ z \in 0 .. 255 /\ v = x * 65536 + y * 256 + z
    <3>1. 3 * g \in Nat /\ 3 * g + 1 \in Nat /\ 3 * g + 2 \in Nat
      BY <2>1
    <3> HIDE DEF g
    <3> QED BY SMTT(20), <3>1, ByteAtProperties DEF Triple
  <2>4. s[j] = IF q = 0 THEN x ELSE IF q = 1 THEN y ELSE z
    <3>1. j - 1 \in Nat /\ j - 1 < n /\ j - 1 + 1 = j
      BY <1>0
    <3>2. ByteAt(s, j - 1) = s[j]
      BY <3>1 DEF ByteAt
    <3> HIDE DEF g, q, n
    <3>3. j - 1 = IF q = 0 THEN 3 * g ELSE IF q = 1 THEN 3 * g + 1 ELSE 3 * g + 2
      BY <2>1
    <3> QED BY <3>2, <3>3
  <2>5. DecodedAt(e, j) = (v \div 256^(2 - q)) % 256
    BY <2>2 DEF DecodedAt
  <2> HIDE DEF g, q, x, y, z, v, e
  <2>6. (v \div 65536) % 256 = x /\ (v \div 256) % 256 = y /\ v % 256 = z /\ v \in Nat
    <3>0. IsTriple(v, x, y, z)
      BY <2>3 DEF IsTriple
    <3>1. (v \div 65536) % 256 = x /\ (v \div 256) % 256 = y /\ v % 256 = z
      BY SMT, <3>0, TripleBytes
    <3>2. v \in Nat
      BY SMT, <2>3
    <3> QED BY SMT, <3>1, <3>2
  <2>7. CASE q = 0
    <3>1. 256^(2 - q) = 65536
      BY SMT, <2>7
    <3> QED BY SMT, <2>4, <2>5, <2>6, <2>7, <3>1
  <2>8. CASE q = 1
    <3>1. 256^(2 - q) = 256
      BY SMT, <2>8
    <3> QED BY SMT, <2>4, <2>5, <2>6, <2>8, <3>1
  <2>9. CASE q = 2
    <3>1. 256^(2 - q) = 1
      BY SMT, <2>9
    <3>2. v \div 1 = v
      BY SMT, <2>6
    <3> QED BY SMT, <2>4, <2>5, <2>6, <2>9, <3>1, <3>2
  <2> QED BY <2>1, <2>7, <2>8, <2>9
<1>4. Decoded(e) = [j \in 1 .. n |-> s[j]]
  <2>1. Decoded(e) = [j \in 1 .. (3 * (Len(e) \div 4) - Pads(e)) |-> DecodedAt(e, j)]
    BY DEF Decoded, DecodedAt
  <2> HIDE DEF e, n
  <2> QED BY <1>2, <1>3, <2>1
<1>5. s = [j \in 1 .. n |-> s[j]]
  <2>1. s \in Seq(0 .. 255)
    BY DEF IsPlain
  <2> QED BY <2>1
<1> QED BY <1>1, <1>4, <1>5

LEMMA EncodeCorrect == EncodeInv => EncodesInPlace
<1> SUFFICES ASSUME EncodeInv PROVE EncodesInPlace
  OBVIOUS
<1>1. IsPlain(input)
  BY DEF EncodeInv, IsPlain
<1>2. Len(Encoded(input)) = EncodedLen(Len(input))
  BY <1>1, EncodedLength
<1>3. verdict = "ok" => i_out = 0
  <2>1. EncodedLen(0) = 0
    BY DEF EncodedLen, Blocks
  <2> QED BY <2>1 DEF EncodeInv
<1>4. WellFormedText(Encoded(input)) /\ Decoded(Encoded(input)) = input
  BY <1>1, RoundTrip
<1> QED BY <1>2, <1>3, <1>4 DEF EncodeInv, EncodesInPlace

(****************************** Base64: decoder ******************************)
IsQuad(v, a, b, c, d) ==
  /\ a \in 0 .. 63 /\ b \in 0 .. 63 /\ c \in 0 .. 63 /\ d \in 0 .. 63
  /\ v = a * 262144 + b * 4096 + c * 64 + d

LEMMA QuadBytes ==
  ASSUME NEW v, NEW a, NEW b, NEW c, NEW d, IsQuad(v, a, b, c, d)
  PROVE  /\ v \in Nat /\ (v \div 65536) % 256 = (a * 4 + (b \div 16)) % 256
         /\ (v \div 256) % 256 = (b * 16 + (c \div 4)) % 256 /\ v % 256 = (c * 64 + d) % 256
<1> USE DEF IsQuad
<1>1. v \in Nat
  BY SMT
<1>2. v \div 65536 = a * 4 + (b \div 16)
  BY SMT
<1>3. (v \div 256) % 256 = (b * 16 + (c \div 4)) % 256
  <2>1. v \div 256 = a * 1024 + b * 16 + (c \div 4)
    BY SMT
  <2>2. (a * 1024 + b * 16 + (c \div 4)) % 256 = (b * 16 + (c \div 4)) % 256
    BY SMT
  <2> QED BY SMT, <2>1, <2>2
<1>4. v % 256 = (c * 64 + d) % 256
  BY SMT
<1> QED BY SMT, <1>1, <1>2, <1>3, <1>4

LEMMA DigitProperties ==
  ASSUME NEW c, IsDigit(c)
  PROVE  Digit(c) = c - 256 /\ Digit(c) \in 0 .. 63
BY DEF IsDigit, Digit

LEMMA QuadOf ==
  ASSUME NEW t, NEW g \in Nat
  PROVE  IsQuad(Quad(t, g), DigitAt(t, 4*g + 1), DigitAt(t, 4*g + 2), DigitAt(t, 4*g + 3), DigitAt(t, 4*g + 4))
<1>1. \A i : DigitAt(t, i) \in 0 .. 63
  BY DEF DigitAt, IsDigit
<1> QED BY SMT, <1>1, Powers DEF Quad, IsQuad

(* The bytes that four digits give.                                           *)
HighByte(a, b) == (a * 4 + (b \div 16)) % 256
MiddleByte(b, c) == (b * 16 + (c \div 4)) % 256
LowByte(c, d) == (c * 64 + d) % 256

(* The three bytes of a text's block.                                         *)
LEMMA DecodedBlock ==
  ASSUME NEW t, NEW g \in Nat
  PROVE  LET a == DigitAt(t, 4*g + 1)
             b == DigitAt(t, 4*g + 2)
             c == DigitAt(t, 4*g + 3)
             d == DigitAt(t, 4*g + 4)
         IN  /\ DecodedAt(t, 3 * g + 1) = HighByte(a, b)
             /\ DecodedAt(t, 3 * g + 2) = MiddleByte(b, c)
             /\ DecodedAt(t, 3 * g + 3) = LowByte(c, d)
<1> DEFINE a == DigitAt(t, 4*g + 1)
           b == DigitAt(t, 4*g + 2)
           c == DigitAt(t, 4*g + 3)
           d == DigitAt(t, 4*g + 4)
           v == Quad(t, g)
<1>1. IsQuad(v, a, b, c, d)
  BY QuadOf
<1>2. /\ (3 * g + 1 - 1) \div 3 = g /\ (3 * g + 1 - 1) % 3 = 0
      /\ (3 * g + 2 - 1) \div 3 = g /\ (3 * g + 2 - 1) % 3 = 1
      /\ (3 * g + 3 - 1) \div 3 = g /\ (3 * g + 3 - 1) % 3 = 2
  OBVIOUS
<1>3. 256^(2 - 0) = 65536 /\ 256^(2 - 1) = 256 /\ 256^(2 - 2) = 1
  BY SMT
<1>4. /\ DecodedAt(t, 3 * g + 1) = (v \div 256^(2 - 0)) % 256
      /\ DecodedAt(t, 3 * g + 2) = (v \div 256^(2 - 1)) % 256
      /\ DecodedAt(t, 3 * g + 3) = (v \div 256^(2 - 2)) % 256
  <2> DEFINE w(q) == (v \div 256^(2 - q)) % 256
  <2>1. ASSUME NEW j \in Nat, NEW q \in Nat, (j - 1) \div 3 = g, (j - 1) % 3 = q
        PROVE  DecodedAt(t, j) = w(q)
    BY <2>1 DEF DecodedAt
  <2> DEFINE i == 3 * g + 1
             j == 3 * g + 2
             k == 3 * g + 3
  <2>2. /\ (i - 1) \div 3 = g /\ (i - 1) % 3 = 0 /\ (j - 1) \div 3 = g /\ (j - 1) % 3 = 1
        /\ (k - 1) \div 3 = g /\ (k - 1) % 3 = 2 /\ i \in Nat /\ j \in Nat /\ k \in Nat
    BY <1>2
  <2> HIDE DEF i, j, k, v, w
  <2>3. DecodedAt(t, i) = w(0)
    BY <2>1, <2>2
  <2>4. DecodedAt(t, j) = w(1)
    BY <2>1, <2>2
  <2>5. DecodedAt(t, k) = w(2)
    BY <2>1, <2>2
  <2> QED BY <2>3, <2>4, <2>5 DEF i, j, k, w
<1> HIDE DEF a, b, c, d, v
<1>5. /\ v \in Nat /\ (v \div 65536) % 256 = (a * 4 + (b \div 16)) % 256
      /\ (v \div 256) % 256 = (b * 16 + (c \div 4)) % 256 /\ v % 256 = (c * 64 + d) % 256
  BY SMT, <1>1, QuadBytes
<1>6. v \div 1 = v
  BY SMT, <1>5
<1>7. /\ DecodedAt(t, 3 * g + 1) = (a * 4 + (b \div 16)) % 256
      /\ DecodedAt(t, 3 * g + 2) = (b * 16 + (c \div 4)) % 256
      /\ DecodedAt(t, 3 * g + 3) = (c * 64 + d) % 256
  BY SMT, <1>3, <1>4, <1>5, <1>6
<1> QED BY <1>7 DEF a, b, c, d, HighByte, MiddleByte, LowByte

(* How many bytes a block gives.                                              *)
IsCount(m) == m \in 1 .. 3

LEMMA BytesAt ==
  ASSUME NEW a, NEW b, NEW c, NEW d, NEW m, IsCount(m)
  PROVE  /\ Len(Bytes(a, b, c, d, m)) = m /\ Bytes(a, b, c, d, m)[1] = HighByte(a, b)
         /\ m >= 2 => Bytes(a, b, c, d, m)[2] = MiddleByte(b, c)
         /\ m >= 3 => Bytes(a, b, c, d, m)[3] = LowByte(c, d)
<1>0. m \in 1 .. 3
  BY DEF IsCount
<1> DEFINE x == (a * 4 + (b \div 16)) % 256
           y == (b * 16 + (c \div 4)) % 256
           z == (c * 64 + d) % 256
           q == <<x, y, z>>
           s == SubSeq(q, 1, m)
<1>1. Bytes(a, b, c, d, m) = s
  BY DEF Bytes
<1> HIDE DEF x, y, z
<1>2. q \in Seq({x, y, z}) /\ Len(q) = 3 /\ q[1] = x /\ q[2] = y /\ q[3] = z
  OBVIOUS
<1> HIDE DEF q
<1>3. Len(s) = m /\ \A k \in 1 .. m : s[k] = q[k]
  BY <1>0, <1>2
<1> HIDE DEF s
<1>4. Len(s) = m /\ s[1] = x /\ (m >= 2 => s[2] = y) /\ (m >= 3 => s[3] = z)
  <2>1. 1 \in 1 .. m /\ (m >= 2 => 2 \in 1 .. m) /\ (m >= 3 => 3 \in 1 .. m)
    BY <1>0
  <2> QED BY <1>2, <1>3, <2>1
<1> QED BY <1>1, <1>4 DEF x, y, z, HighByte, MiddleByte, LowByte

(* While the decoder works, the next cells are the text's next characters.    *)
LEMMA CellIs ==
  ASSUME DecodeInv, verdict = "busy", i_in + 4 <= Len(input)
  PROVE  /\ Len(input) \in Nat /\ i_in \in Nat
         /\ \A k \in 0 .. 3 : Cell(k) = input[i_in + k + 1]
<1>1. Len(input) \in Nat /\ i_in \in Nat /\ \A i \in i_in .. (Len(input) - 1) : buf[i] = input[i + 1]
  BY DEF DecodeInv
<1>2. ASSUME NEW k \in 0 .. 3 PROVE buf[i_in + k] = input[i_in + k + 1]
  <2>1. i_in + k \in i_in .. (Len(input) - 1)
    BY <1>1
  <2> QED BY <1>1, <2>1
<1> QED BY <1>1, <1>2 DEF Cell

LEMMA DecodeTakes ==
  ASSUME DecodeInv, verdict = "busy", NEW g \in Nat, i_in = 4 * g, i_in + 4 <= Len(input),
         NEW m, IsCount(m), \A k \in 0 .. m : IsDigit(Cell(k)), DecodeBytes(m)
  PROVE  /\ DOMAIN buf' = 0 .. (Len(input) - 1) /\ i_in' = 4 * g + 4 /\ i_out' = 3 * g + m /\ input' = input
         /\ \A j \in 1 .. (3 * g + m) : buf'[j - 1] = DecodedAt(input, j)
         /\ \A i \in (4 * g + 4) .. (Len(input) - 1) : buf'[i] = input[i + 1]
<1> DEFINE n == Len(input)
           s == Bytes(Digit(Cell(0)), Digit(Cell(1)), Digit(Cell(2)), Digit(Cell(3)), m)
           D(k) == DigitAt(input, 4 * g + k)
<1>0. m \in 1 .. 3
  BY DEF IsCount
<1> USE <1>0
<1>1. n \in Nat /\ 4 * g + 4 <= n /\ \A k \in 0 .. 3 : Cell(k) = input[4 * g + k + 1]
  <2>1. n \in Nat /\ 4 * g + 4 <= n /\ \A k \in 0 .. 3 : Cell(k) = input[i_in + k + 1]
    BY CellIs
  <2> QED BY <2>1
<1>2. /\ DOMAIN buf = 0 .. (n - 1) /\ i_out = 3 * g
      /\ \A i \in (4 * g) .. (n - 1) : buf[i] = input[i + 1]
      /\ \A j \in 1 .. (3 * g) : buf[j - 1] = DecodedAt(input, j)
  <2>1. (4 * g) \div 4 = g
    OBVIOUS
  <2> QED BY <2>1 DEF DecodeInv
<1>3. \A k \in 0 .. m : Digit(Cell(k)) = D(k + 1)
  <2> SUFFICES ASSUME NEW k \in 0 .. m PROVE Digit(Cell(k)) = D(k + 1)
    OBVIOUS
  <2>1. k \in 0 .. 3 /\ IsDigit(Cell(k)) /\ 4 * g + (k + 1) = 4 * g + k + 1
    OBVIOUS
  <2>2. Cell(k) = input[4 * g + k + 1]
    BY <1>1, <2>1
  <2>3. Digit(Cell(k)) = Cell(k) - 256
    BY <2>1, DigitProperties
  <2> QED BY <2>1, <2>2, <2>3 DEF DigitAt
<1>4. Len(s) = m /\ \A k \in 1 .. m : s[k] = DecodedAt(input, 3 * g + k)
  <2> DEFINE a == Digit(Cell(0))
             b == Digit(Cell(1))
             c == Digit(Cell(2))
             d == Digit(Cell(3))
  <2>1. a = D(1) /\ b = D(2) /\ (m >= 2 => c = D(3)) /\ (m >= 3 => d = D(4))
    <3>1. 0 \in 0 .. m /\ 1 \in 0 .. m /\ (m >= 2 => 2 \in 0 .. m) /\ (m >= 3 => 3 \in 0 .. m)
      OBVIOUS
    <3>2. 0 + 1 = 1 /\ 1 + 1 = 2 /\ 2 + 1 = 3 /\ 3 + 1 = 4
      OBVIOUS
    <3> HIDE DEF D
    <3> QED BY <1>3, <3>1, <3>2
  <2>2. /\ DecodedAt(input, 3 * g + 1) = HighByte(D(1), D(2))
        /\ DecodedAt(input, 3 * g + 2) = MiddleByte(D(2), D(3))
        /\ DecodedAt(input, 3 * g + 3) = LowByte(D(3), D(4))
    BY DecodedBlock
  <2>0. s = Bytes(a, b, c, d, m)
    OBVIOUS
  <2> HIDE DEF a, b, c, d, s, D
  <2>3. /\ Len(s) = m /\ s[1] = HighByte(a, b)
        /\ m >= 2 => s[2] = MiddleByte(b, c)
        /\ m >= 3 => s[3] = LowByte(c, d)
    <3>1. IsCount(m)
      BY DEF IsCount
    <3>2. /\ Len(Bytes(a, b, c, d, m)) = m /\ Bytes(a, b, c, d, m)[1] = HighByte(a, b)
          /\ m >= 2 => Bytes(a, b, c, d, m)[2] = MiddleByte(b, c)
          /\ m >= 3 => Bytes(a, b, c, d, m)[3] = LowByte(c, d)
      BY <3>1, BytesAt
    <3> QED BY <2>0, <3>2
  <2>4. /\ s[1] = DecodedAt(input, 3 * g + 1) /\ (m >= 2 => s[2] = DecodedAt(input, 3 * g + 2))
        /\ m >= 3 => s[3] = DecodedAt(input, 3 * g + 3)
    BY <2>1, <2>2, <2>3
  <2>5. \A k \in 1 .. m : k = 1 \/ (k = 2 /\ m >= 2) \/ (k = 3 /\ m >= 3)
    OBVIOUS
  <2> QED BY <2>3, <2>4, <2>5
<1>5. i_in' = 4 * g + 4 /\ i_out' = 3 * g + m /\ input' = input /\ buf' = Written(3 * g, s)
  BY <1>2 DEF DecodeBytes
<1> HIDE DEF n, s
<1>6. /\ DOMAIN buf' = 0 .. (n - 1)
      /\ \A i \in 0 .. (n - 1) : buf'[i] = IF i \in (3 * g) .. (3 * g + m - 1) THEN s[i - 3 * g + 1] ELSE buf[i]
  BY <1>2, <1>4, <1>5 DEF Written
<1>7. ASSUME NEW j \in 1 .. (3 * g + m) PROVE buf'[j - 1] = DecodedAt(input, j)
  <2>1. j - 1 \in 0 .. (n - 1)
    BY <1>1
  <2>2. CASE j > 3 * g
    <3>1. j - 3 * g \in 1 .. m /\ j - 1 - 3 * g + 1 = j - 3 * g /\ 3 * g + (j - 3 * g) = j
          /\ j - 1 \in (3 * g) .. (3 * g + m - 1)
      BY <2>2
    <3>2. buf'[j - 1] = s[j - 3 * g]
      BY <1>6, <2>1, <3>1
    <3>3. s[j - 3 * g] = DecodedAt(input, j)
      BY <1>4, <3>1
    <3> QED BY <3>2, <3>3
  <2>3. CASE ~(j > 3 * g)
    <3>1. j \in 1 .. (3 * g) /\ ~(j - 1 \in (3 * g) .. (3 * g + m - 1))
      BY <2>3
    <3> QED BY <1>2, <1>6, <2>1, <3>1
  <2> QED BY <2>2, <2>3
<1>8. ASSUME NEW i \in (4 * g + 4) .. (n - 1) PROVE buf'[i] = input[i + 1]
  <2>1. i \in 0 .. (n - 1) /\ i \in (4 * g) .. (n - 1) /\ ~(i \in (3 * g) .. (3 * g + m - 1))
    BY <1>1
  <2> QED BY <1>2, <1>6, <2>1
<1> QED BY <1>5, <1>6, <1>7, <1>8 DEF n

LEMMA DecodeFailsStep ==
  ASSUME DecodeInv, DecodeFails, ~WellFormedText(input)
  PROVE  DecodeInv'
<1>1. UNCHANGED <<input, buf, i_in, i_out>> /\ verdict' = "failed"
  BY DEF DecodeFails
<1>2. /\ input' \in Seq(256 .. 321) /\ verdict' \in {"busy", "ok", "failed"}
      /\ DOMAIN buf' = 0 .. (Len(input') - 1) /\ i_in' \in 0 .. Len(input') /\ i_out' \in Nat
  BY <1>1 DEF DecodeInv
<1>3. verdict' # "busy" /\ verdict' # "ok" /\ ~WellFormedText(input')
  BY <1>1
<1> QED BY <1>2, <1>3 DEF DecodeInv

LEMMA DecodeNothingStep == DecodeInv /\ DecodeNothing => DecodeInv'
<1> SUFFICES ASSUME DecodeInv, DecodeNothing PROVE DecodeInv'
  OBVIOUS
<1>1. CASE Len(input) = 0 /\ verdict' = "ok" /\ UNCHANGED <<direction, input, buf, i_in, i_out>>
  <2>1. WellFormedText(input) /\ Pads(input) = 0
    BY <1>1 DEF WellFormedText, Pads
  <2>2. verdict = "busy" /\ i_in = 0
    BY DEF DecodeNothing, Decoding
  <2>3. i_out = 0
    BY <2>2 DEF DecodeInv
  <2>4. 3 * (Len(input) \div 4) - Pads(input) = 0
    BY <1>1, <2>1
  <2>5. /\ input' \in Seq(256 .. 321) /\ verdict' \in {"busy", "ok", "failed"}
        /\ DOMAIN buf' = 0 .. (Len(input') - 1) /\ i_in' \in 0 .. Len(input') /\ i_out' \in Nat
    BY <1>1 DEF DecodeInv
  <2>6. WellFormedText(input') /\ i_out' = 3 * (Len(input') \div 4) - Pads(input')
        /\ \A j \in 1 .. i_out' : buf'[j - 1] = DecodedAt(input', j)
    BY <1>1, <2>1, <2>3, <2>4
  <2> QED BY <1>1, <2>5, <2>6 DEF DecodeInv
<1>2. CASE Len(input) > 0 /\ BadLength(Len(input)) /\ DecodeFails
  <2>1. ~WellFormedText(input)
    <3>1. Len(input) % 4 > 0
      BY <1>2 DEF BadLength
    <3>2. ~(Len(input) % 4 = 0)
      BY <3>1
    <3> QED BY <3>2 DEF WellFormedText
  <2> QED BY <1>2, <2>1, DecodeFailsStep
<1> QED BY <1>1, <1>2 DEF DecodeNothing

(* A full block before the last is taken whole, or is not of the alphabet.    *)
LEMMA DecodeBlockStep == DecodeInv /\ DecodeBlock => DecodeInv'
<1> SUFFICES ASSUME DecodeInv, DecodeBlock PROVE DecodeInv'
  OBVIOUS
<1> DEFINE n == Len(input)
           g == i_in \div 4
<1>1. /\ verdict = "busy" /\ n \in Nat /\ n % 4 = 0 /\ i_in + 4 < n /\ i_in \in 0 .. n /\ i_in % 4 = 0
      /\ \A i \in 1 .. i_in : IsDigit(input[i])
  <2>1. verdict = "busy" /\ ~(n % 4 > 0) /\ i_in + 4 < n
    BY DEF DecodeBlock, Decoding, BadLength
  <2>2. /\ n \in Nat /\ i_in \in 0 .. n /\ i_in % 4 = 0
        /\ \A i \in 1 .. i_in : IsDigit(input[i])
    BY SMTT(20), <2>1 DEF DecodeInv
  <2> HIDE DEF n
  <2> QED BY <2>1, <2>2
<1>2. g \in Nat /\ i_in = 4 * g /\ 4 * g + 8 <= n /\ i_in + 4 <= n
  BY <1>1
<1>3. \A k \in 0 .. 3 : Cell(k) = input[4 * g + k + 1]
  BY <1>1, <1>2, CellIs
<1> HIDE DEF g
<1>4. CASE \A k \in 0 .. 3 : IsDigit(Cell(k))
  <2>1. DecodeBytes(3) /\ verdict' = verdict
    BY <1>4 DEF DecodeBlock, Inside
  <2>2. /\ DOMAIN buf' = 0 .. (n - 1) /\ i_in' = 4 * g + 4 /\ i_out' = 3 * g + 3 /\ input' = input
        /\ \A j \in 1 .. (3 * g + 3) : buf'[j - 1] = DecodedAt(input, j)
        /\ \A i \in (4 * g + 4) .. (n - 1) : buf'[i] = input[i + 1]
    <3>1. IsCount(3)
      BY DEF IsCount
    <3> QED BY <1>1, <1>2, <1>4, <2>1, <3>1, DecodeTakes
  <2>3. \A i \in 1 .. i_in' : IsDigit(input[i])
    <3> SUFFICES ASSUME NEW i \in 1 .. (4 * g + 4) PROVE IsDigit(input[i])
      BY <2>2
    <3>1. CASE i <= 4 * g
      BY <1>1, <1>2, <3>1
    <3>2. CASE ~(i <= 4 * g)
      <4>1. i - 4 * g - 1 \in 0 .. 3 /\ 4 * g + (i - 4 * g - 1) + 1 = i
        BY <1>2, <3>2
      <4> QED BY <1>3, <1>4, <4>1
    <3> QED BY <3>1, <3>2
  <2>4. /\ i_in' \in 0 .. n /\ i_in' < n /\ i_in' % 4 = 0 /\ i_out' = 3 * (i_in' \div 4) /\ i_out' \in Nat
    BY <1>1, <1>2, <2>2
  <2>5. verdict' = "busy"
    BY <1>1, <2>1
  <2>6. input' \in Seq(256 .. 321)
    BY <2>2 DEF DecodeInv
  <2>7. /\ Len(input') % 4 > 0 => i_in' = 0
        /\ Len(input') > 0 => i_in' < Len(input')
    BY <1>1, <2>2, <2>4
  <2>8. /\ \A i \in 1 .. i_in' : IsDigit(input'[i])
        /\ \A i \in i_in' .. (Len(input') - 1) : buf'[i] = input'[i + 1]
        /\ \A j \in 1 .. i_out' : buf'[j - 1] = DecodedAt(input', j)
    BY <2>2, <2>3
  <2> QED BY <2>2, <2>4, <2>5, <2>6, <2>7, <2>8 DEF DecodeInv
<1>5. CASE ~(\A k \in 0 .. 3 : IsDigit(Cell(k)))
  <2>1. DecodeFails
    BY <1>5 DEF DecodeBlock, Inside
  <2>2. ~WellFormedText(input)
    <3>1. PICK k \in 0 .. 3 : ~IsDigit(Cell(k))
      BY <1>5
    <3>2. 4 * g + k + 1 \in 1 .. (n - 2)
      BY <1>1, <1>2
    <3>3. ~IsDigit(input[4 * g + k + 1])
      BY <1>3, <3>1
    <3> QED BY <3>2, <3>3 DEF WellFormedText
  <2> QED BY <2>1, <2>2, DecodeFailsStep
<1> QED BY <1>4, <1>5

(* What the last block may hold: digits, with one or two of padding.          *)
LEMMA FinalBytesSays ==
  ASSUME DecodeInv, Decoding, ~BadLength(Len(input)), i_in + 4 = Len(input)
  PROVE  /\ FinalBytes \in 0 .. 3 /\ (FinalBytes = 0 <=> ~WellFormedText(input))
         /\ FinalBytes > 0 => /\ \A k \in 0 .. FinalBytes : IsDigit(Cell(k))
                              /\ Pads(input) = 3 - FinalBytes
<1> DEFINE n == Len(input)
           c(k) == Cell(k)
<1>1. /\ verdict = "busy" /\ n \in Nat /\ n % 4 = 0 /\ i_in \in Nat /\ i_in + 4 = n
      /\ \A i \in 1 .. i_in : IsDigit(input[i])
  <2>1. verdict = "busy" /\ ~(n % 4 > 0)
    BY DEF Decoding, BadLength
  <2>2. n \in Nat /\ i_in \in Nat /\ \A i \in 1 .. i_in : IsDigit(input[i])
    BY <2>1 DEF DecodeInv
  <2> HIDE DEF n
  <2> QED BY <2>1, <2>2 DEF n
<1>2. c(0) = input[n - 3] /\ c(1) = input[n - 2] /\ c(2) = input[n - 1] /\ c(3) = input[n]
  <2>1. \A k \in 0 .. 3 : c(k) = input[i_in + k + 1]
    BY <1>1, CellIs
  <2>2. i_in + 0 + 1 = n - 3 /\ i_in + 1 + 1 = n - 2 /\ i_in + 2 + 1 = n - 1 /\ i_in + 3 + 1 = n
    BY <1>1
  <2>3. c(0) = input[i_in + 0 + 1] /\ c(1) = input[i_in + 1 + 1] /\ c(2) = input[i_in + 2 + 1] /\ c(3) = input[i_in + 3 + 1]
    <3> HIDE DEF c
    <3> QED BY <2>1
  <2> HIDE DEF c, n
  <2> QED BY <2>2, <2>3
<1>3. WellFormedText(input) <=> /\ IsDigit(c(0)) /\ IsDigit(c(1)) /\ (IsDigit(c(3)) \/ c(3) = Pad)
                                /\ IsDigit(c(2)) \/ (c(2) = Pad /\ c(3) = Pad)
  <2>1. (\A i \in 1 .. (n - 2) : IsDigit(input[i])) <=> IsDigit(c(0)) /\ IsDigit(c(1))
    <3>1. n - 3 \in 1 .. (n - 2) /\ n - 2 \in 1 .. (n - 2)
          /\ \A i \in 1 .. (n - 2) : i \in 1 .. i_in \/ i = n - 3 \/ i = n - 2
      BY <1>1
    <3> HIDE DEF c, n
    <3> QED BY <1>1, <1>2, <3>1
  <2>2. n > 0
    BY <1>1
  <2> HIDE DEF c
  <2> QED BY <1>1, <1>2, <2>1, <2>2 DEF WellFormedText
<1>4. Pads(input) = (IF c(3) = Pad THEN 1 ELSE 0) + (IF c(2) = Pad THEN 1 ELSE 0)
  <2>1. n > 0
    BY <1>1
  <2> HIDE DEF c
  <2> QED BY <1>2, <2>1 DEF Pads
<1>5. ~IsDigit(Pad)
  BY DEF IsDigit, Pad
<1>6. FinalBytes = CASE ~IsDigit(c(0)) \/ ~IsDigit(c(1)) -> 0
                     [] OTHER -> CASE c(2) = Pad /\ c(3) = Pad -> 1
                                   [] IsDigit(c(2)) /\ c(3) = Pad -> 2
                                   [] IsDigit(c(2)) /\ IsDigit(c(3)) -> 3
                                   [] OTHER -> 0
  BY DEF FinalBytes
<1> HIDE DEF c, n
<1>7. CASE ~IsDigit(c(0)) \/ ~IsDigit(c(1))
  <2>1. FinalBytes = 0
    BY <1>6, <1>7
  <2> QED BY <1>3, <1>7, <2>1
<1>8. CASE IsDigit(c(0)) /\ IsDigit(c(1)) /\ c(2) = Pad /\ c(3) = Pad
  <2>1. FinalBytes = 1 /\ Pads(input) = 2 /\ WellFormedText(input)
    BY <1>3, <1>4, <1>5, <1>6, <1>8
  <2>2. \A k \in 0 .. 1 : k = 0 \/ k = 1
    OBVIOUS
  <2>3. \A k \in 0 .. 1 : IsDigit(Cell(k))
    BY <1>8, <2>2 DEF c
  <2> QED BY <2>1, <2>3
<1>9. CASE IsDigit(c(0)) /\ IsDigit(c(1)) /\ IsDigit(c(2)) /\ c(3) = Pad
  <2>1. c(2) # Pad
    BY <1>5, <1>9
  <2>2. FinalBytes = 2 /\ Pads(input) = 1 /\ WellFormedText(input)
    BY <1>3, <1>4, <1>5, <1>6, <1>9, <2>1
  <2>3. \A k \in 0 .. 2 : k = 0 \/ k = 1 \/ k = 2
    OBVIOUS
  <2>4. \A k \in 0 .. 2 : IsDigit(Cell(k))
    BY <1>9, <2>3 DEF c
  <2> QED BY <2>2, <2>4
<1>10. CASE IsDigit(c(0)) /\ IsDigit(c(1)) /\ IsDigit(c(2)) /\ IsDigit(c(3))
  <2>1. c(2) # Pad /\ c(3) # Pad
    BY <1>5, <1>10
  <2>2. FinalBytes = 3 /\ Pads(input) = 0 /\ WellFormedText(input)
    BY <1>3, <1>4, <1>5, <1>6, <1>10, <2>1
  <2>3. \A k \in 0 .. 3 : k = 0 \/ k = 1 \/ k = 2 \/ k = 3
    OBVIOUS
  <2>4. \A k \in 0 .. 3 : IsDigit(Cell(k))
    BY <1>10, <2>3 DEF c
  <2> QED BY <2>2, <2>4
<1>11. CASE /\ IsDigit(c(0)) /\ IsDigit(c(1)) /\ ~(c(2) = Pad /\ c(3) = Pad)
            /\ ~(IsDigit(c(2)) /\ c(3) = Pad) /\ ~(IsDigit(c(2)) /\ IsDigit(c(3)))
  <2>1. FinalBytes = 0
    BY <1>6, <1>11
  <2> QED BY <1>3, <1>11, <2>1
<1> QED BY <1>7, <1>8, <1>9, <1>10, <1>11

LEMMA DecodeFinalStep == DecodeInv /\ DecodeFinal => DecodeInv'
<1> SUFFICES ASSUME DecodeInv, DecodeFinal PROVE DecodeInv'
  OBVIOUS
<1> DEFINE n == Len(input)
           g == i_in \div 4
           m == FinalBytes
<1>1. Decoding /\ ~BadLength(n) /\ i_in + 4 = n /\ verdict = "busy"
  BY DEF DecodeFinal, Decoding
<1>2. /\ m \in 0 .. 3 /\ (m = 0 <=> ~WellFormedText(input))
      /\ m > 0 => (\A k \in 0 .. m : IsDigit(Cell(k))) /\ Pads(input) = 3 - m
  BY <1>1, FinalBytesSays
<1>3. n \in Nat /\ g \in Nat /\ i_in = 4 * g /\ 4 * g + 4 = n
  <2>1. n \in Nat /\ i_in \in Nat /\ i_in % 4 = 0
    BY <1>1 DEF DecodeInv
  <2> HIDE DEF n
  <2> QED BY <1>1, <2>1
<1>4. CASE m = 0
  <2>1. DecodeFails
    BY <1>4 DEF DecodeFinal
  <2> QED BY <1>2, <1>4, <2>1, DecodeFailsStep
<1>5. CASE m # 0
  <2>1. DecodeBytes(m) /\ verdict' = "ok"
    BY <1>5 DEF DecodeFinal
  <2>2. m \in 1 .. 3 /\ (\A k \in 0 .. m : IsDigit(Cell(k))) /\ Pads(input) = 3 - m /\ WellFormedText(input)
    <3> HIDE DEF m
    <3> QED BY <1>2, <1>5
  <2> HIDE DEF m, g
  <2>3. /\ DOMAIN buf' = 0 .. (n - 1) /\ i_in' = 4 * g + 4 /\ i_out' = 3 * g + m /\ input' = input
        /\ \A j \in 1 .. (3 * g + m) : buf'[j - 1] = DecodedAt(input, j)
    <3>1. IsCount(m) /\ i_in + 4 <= n
      BY <1>1, <1>3, <2>2 DEF IsCount
    <3> QED BY <1>1, <1>3, <2>1, <2>2, <3>1, DecodeTakes
  <2>4. /\ input' \in Seq(256 .. 321) /\ verdict' \in {"busy", "ok", "failed"}
        /\ DOMAIN buf' = 0 .. (Len(input') - 1) /\ i_in' \in 0 .. Len(input') /\ i_out' \in Nat
    <3>1. input \in Seq(256 .. 321)
      BY DEF DecodeInv
    <3> QED BY <1>3, <2>1, <2>2, <2>3, <3>1
  <2>5. i_out' = 3 * (Len(input') \div 4) - Pads(input')
    <3>1. n \div 4 = g + 1
      BY <1>3
    <3>2. i_out' = 3 * (n \div 4) - Pads(input)
      <4> HIDE DEF n
      <4> QED BY <1>3, <2>2, <2>3, <3>1
    <3> QED BY <2>3, <3>2
  <2>6. WellFormedText(input') /\ \A j \in 1 .. i_out' : buf'[j - 1] = DecodedAt(input', j)
    BY <2>2, <2>3
  <2> QED BY <2>1, <2>4, <2>5, <2>6 DEF DecodeInv
<1> QED BY <1>4, <1>5

LEMMA DecodeStarted == \A t \in Texts : DecodeStarts(t) => DecodeInv
<1> SUFFICES ASSUME NEW t \in Texts, DecodeStarts(t) PROVE DecodeInv
  OBVIOUS
<1>1. t \in Seq(256 .. 321)
  BY TextsAssumption
<1>2. input = t /\ verdict = "busy" /\ i_in = 0 /\ i_out = 0 /\ buf = Buffer(t, Len(t))
  BY DEF DecodeStarts
<1>3. Len(t) \in Nat
  BY <1>1
<1>4. DOMAIN buf = 0 .. (Len(input) - 1) /\ \A i \in i_in .. (Len(input) - 1) : buf[i] = input[i + 1]
  BY <1>2, <1>3 DEF Buffer
<1>5. 0 % 4 = 0 /\ 0 = 3 * (0 \div 4)
  OBVIOUS
<1>6. (\A i \in 1 .. i_in : IsDigit(input[i])) /\ \A j \in 1 .. i_out : buf[j - 1] = DecodedAt(input, j)
  <2>1. 1 .. 0 = {}
    OBVIOUS
  <2> QED BY <1>2, <2>1
<1> QED BY <1>1, <1>2, <1>3, <1>4, <1>5, <1>6 DEF DecodeInv

LEMMA DecodeCorrect == DecodeInv => DecodesInPlace
<1> SUFFICES ASSUME DecodeInv PROVE DecodesInPlace
  OBVIOUS
<1>1. verdict # "busy" => (verdict = "ok" <=> WellFormedText(input))
  BY DEF DecodeInv
<1>2. ASSUME verdict = "ok" PROVE [j \in 1 .. i_out |-> buf[j - 1]] = Decoded(input)
  <2>1. i_out = 3 * (Len(input) \div 4) - Pads(input) /\ \A j \in 1 .. i_out : buf[j - 1] = DecodedAt(input, j)
    BY <1>2 DEF DecodeInv
  <2>2. Decoded(input) = [j \in 1 .. (3 * (Len(input) \div 4) - Pads(input)) |-> DecodedAt(input, j)]
    BY DEF Decoded, DecodedAt
  <2> QED BY <2>1, <2>2
<1>3. verdict = "busy" => \A i \in i_in .. (Len(input) - 1) : buf[i] = input[i + 1]
  BY DEF DecodeInv
<1> QED BY <1>1, <1>2, <1>3 DEF DecodesInPlace

(* Each direction's steps keep its invariant, and no step turns it round.     *)
LEMMA CodecSound == Base64Spec => []CodecInv
<1>1. Base64Init => CodecInv
  <2>1. ASSUME NEW s \in Plains, EncodeStarts(s) PROVE CodecInv
    <3>1. direction = "encode"
      BY <2>1 DEF EncodeStarts
    <3> QED BY <2>1, <3>1, EncodeStarted DEF CodecInv
  <2>2. ASSUME NEW t \in Texts, DecodeStarts(t) PROVE CodecInv
    <3>1. direction = "decode"
      BY <2>2 DEF DecodeStarts
    <3> QED BY <2>2, <3>1, DecodeStarted DEF CodecInv
  <2> QED BY <2>1, <2>2 DEF Base64Init
<1>2. CodecInv /\ [Base64Next]_base64Vars => CodecInv'
  <2> SUFFICES ASSUME CodecInv, [Base64Next]_base64Vars PROVE CodecInv'
    OBVIOUS
  <2>1. CASE EncodeRemainder
    <3>1. direction = "encode" /\ direction' = direction
      BY <2>1 DEF EncodeRemainder, Encoding
    <3> QED BY <2>1, <3>1, EncodeRemainderStep DEF CodecInv
  <2>2. CASE EncodeBlock
    <3>1. direction = "encode" /\ direction' = direction
      BY <2>2 DEF EncodeBlock, Encoding
    <3> QED BY <2>2, <3>1, EncodeBlockStep DEF CodecInv
  <2>3. CASE EncodeEnds
    <3>1. direction = "encode" /\ direction' = direction
      BY <2>3 DEF EncodeEnds, Encoding
    <3> QED BY <2>3, <3>1, EncodeEndsStep DEF CodecInv
  <2>4. CASE DecodeNothing
    <3>1. direction = "decode" /\ direction' = direction
      BY <2>4 DEF DecodeNothing, Decoding, DecodeFails
    <3> QED BY <2>4, <3>1, DecodeNothingStep DEF CodecInv
  <2>5. CASE DecodeBlock
    <3>1. direction = "decode" /\ direction' = direction
      BY <2>5 DEF DecodeBlock, Decoding, DecodeFails, DecodeBytes
    <3> QED BY <2>5, <3>1, DecodeBlockStep DEF CodecInv
  <2>6. CASE DecodeFinal
    <3>1. direction = "decode" /\ direction' = direction
      BY <2>6 DEF DecodeFinal, Decoding, DecodeFails, DecodeBytes
    <3> QED BY <2>6, <3>1, DecodeFinalStep DEF CodecInv
  <2>7. CASE UNCHANGED base64Vars
    <3> USE <2>7 DEF base64Vars
    <3>1. EncodeInv => EncodeInv'
      BY DEF EncodeInv
    <3>2. DecodeInv => DecodeInv'
      BY DEF DecodeInv
    <3> QED BY <3>1, <3>2 DEF CodecInv
  <2> QED BY <2>1, <2>2, <2>3, <2>4, <2>5, <2>6, <2>7 DEF Base64Next
<1> QED BY <1>1, <1>2, PTL DEF Base64Spec

(* Encoding from the buffer's end never overwrites a byte before it is read,  *)
(* fills the buffer exactly, and its output decodes to the input, whatever    *)
(* the input's length.                                                        *)
THEOREM Base64Encodes == Base64Spec => []EncodesInPlace
<1>1. CodecInv => EncodesInPlace
  BY EncodeCorrect DEF CodecInv, EncodesInPlace
<1> QED BY <1>1, CodecSound, PTL

(* Decoding from the buffer's start never overwrites a character before it is *)
(* read, accepts exactly the well-formed texts, and yields their data.        *)
THEOREM Base64Decodes == Base64Spec => []DecodesInPlace
<1>1. CodecInv => DecodesInPlace
  BY DecodeCorrect DEF CodecInv, DecodesInPlace
<1> QED BY <1>1, CodecSound, PTL
===============================================================================
