----------------------------- MODULE StreamProofs -----------------------------
(* Theorems about Stream for every length of the prelude and the separator,   *)
(* every room the read callback is given, every number of bytes and requests. *)
EXTENDS Stream, SequenceTheorems, TLAPS

(*************************** The operators ***********************************)
LEMMA MinOfTwo ==
  ASSUME NEW a \in Int, NEW b \in Int
  PROVE  Min({a, b}) = IF a <= b THEN a ELSE b
<1> DEFINE m == IF a <= b THEN a ELSE b
<1>1. m \in {a, b} /\ \A y \in {a, b} : m =< y
  OBVIOUS
<1>2. \A x \in {a, b} : (\A y \in {a, b} : x =< y) => x = m
  OBVIOUS
<1> HIDE DEF m
<1>3. Min({a, b}) \in {a, b} /\ \A y \in {a, b} : Min({a, b}) =< y
  BY <1>1 DEF Min
<1>4. Min({a, b}) = m
  BY <1>2, <1>3
<1> QED BY <1>4 DEF m

LEMMA RepeatProperties ==
  ASSUME NEW S, NEW x \in S, NEW n \in Nat
  PROVE  /\ Repeat(x, n) \in Seq(S) /\ Len(Repeat(x, n)) = n
         /\ \A i \in 1 .. n : Repeat(x, n)[i] = x
BY DEF Repeat

Lengths == PreludeLen \in Nat \ {0} /\ SeparatorLen \in Nat \ {0} /\ MaxRoom \in Nat \ {0}

LEMMA LengthTypes == Lengths /\ MaxWrites \in Nat /\ MaxRequests \in Nat \ {0}
BY LengthAssumption, RequestAssumption DEF Lengths

(* One call of the read callback sends p bytes of the prelude, s of the       *)
(* separator and b of the body, and begins a piece only when the one before   *)
(* it is complete.                                                            *)
Reads(p, s, b) ==
  /\ p \in 0 .. (prelude_len - prelude_pos) /\ s \in 0 .. (SeparatorLen - separator) /\ b \in Nat
  /\ b > 0 => body_pos + b <= Len(body)
  /\ s > 0 => p = prelude_len - prelude_pos
  /\ b > 0 => p = prelude_len - prelude_pos /\ s = SeparatorLen - separator
  /\ prelude_pos' = prelude_pos + p /\ separator' = separator + s /\ body_pos' = body_pos + b
  /\ wire' = wire \o Repeat(PreludeByte, p) \o Repeat(SeparatorByte, s)
                  \o SubSeq(body, body_pos + 1, body_pos + b)

LEMMA ReadDataReads ==
  ASSUME TypeOK, NEW n \in 1 .. MaxRoom, ReadData(n)
  PROVE  \E p, s, b \in Nat : Reads(p, s, b)
<1> USE LengthTypes DEF Lengths
<1>t. /\ prelude_len \in Nat /\ prelude_pos \in 0 .. prelude_len /\ separator \in 0 .. SeparatorLen
      /\ body_pos \in Nat /\ Len(body) \in Nat /\ n \in Nat
  BY DEF TypeOK
<1> DEFINE p == Fill(n, prelude_pos, prelude_len)
           s == SeparatorPart(n, p)
           b == IF body_pos < Len(body) THEN Fill(n - p - s, body_pos, Len(body)) ELSE 0
<1>1. p = IF n <= prelude_len - prelude_pos THEN n ELSE prelude_len - prelude_pos
  BY <1>t, MinOfTwo DEF Fill
<1>2. p \in Nat /\ n - p \in Nat
  BY <1>t, <1>1
<1>3. s = IF n - p <= SeparatorLen - separator THEN n - p ELSE SeparatorLen - separator
  BY <1>t, <1>2, MinOfTwo DEF SeparatorPart, Fill
<1>4. s \in Nat /\ n - p - s \in Nat
  BY <1>t, <1>2, <1>3
<1>5. b = IF body_pos < Len(body)
          THEN IF n - p - s <= Len(body) - body_pos THEN n - p - s ELSE Len(body) - body_pos
          ELSE 0
  BY <1>t, <1>4, MinOfTwo DEF Fill
<1>6. b \in Nat
  BY <1>t, <1>4, <1>5
<1>7. /\ prelude_pos' = prelude_pos + p /\ separator' = separator + s /\ body_pos' = body_pos + b
      /\ wire' = wire \o Repeat(PreludeByte, p) \o Repeat(SeparatorByte, s)
                      \o SubSeq(body, body_pos + 1, body_pos + b)
  BY DEF ReadData
<1> HIDE DEF p, s, b
<1>8. p \in 0 .. (prelude_len - prelude_pos) /\ s \in 0 .. (SeparatorLen - separator)
  BY <1>t, <1>1, <1>2, <1>3, <1>4
<1>9. b > 0 => body_pos + b <= Len(body)
  BY <1>t, <1>4, <1>5
<1>10. s > 0 => p = prelude_len - prelude_pos
  BY <1>t, <1>1, <1>2, <1>3
<1>11. b > 0 => p = prelude_len - prelude_pos /\ s = SeparatorLen - separator
  <2> SUFFICES ASSUME b > 0 PROVE p = prelude_len - prelude_pos /\ s = SeparatorLen - separator
    OBVIOUS
  <2>1. n - p - s > 0
    BY <1>t, <1>4, <1>5
  <2>2. n - p > 0
    BY <1>4, <1>2, <2>1, <1>t
  <2> QED BY <1>t, <1>1, <1>3, <2>1, <2>2
<1>12. Reads(p, s, b)
  BY <1>6, <1>7, <1>8, <1>9, <1>10, <1>11 DEF Reads
<1> QED BY <1>2, <1>4, <1>6, <1>12

(* Three pieces appended to a sequence, element by element.                   *)
LEMMA AppendPieces ==
  ASSUME NEW S, NEW u \in Seq(S), NEW P \in Seq(S), NEW Q \in Seq(S), NEW B \in Seq(S)
  PROVE  /\ u \o P \o Q \o B \in Seq(S)
         /\ Len(u \o P \o Q \o B) = Len(u) + Len(P) + Len(Q) + Len(B)
         /\ \A j \in 1 .. Len(u) + Len(P) + Len(Q) + Len(B) :
              (u \o P \o Q \o B)[j] =
                IF j <= Len(u) THEN u[j]
                ELSE IF j <= Len(u) + Len(P) THEN P[j - Len(u)]
                ELSE IF j <= Len(u) + Len(P) + Len(Q) THEN Q[j - (Len(u) + Len(P))]
                ELSE B[j - (Len(u) + Len(P) + Len(Q))]
<1> DEFINE v == u \o P
           w == v \o Q
           x == w \o B
<1>l. Len(u) \in Nat /\ Len(P) \in Nat /\ Len(Q) \in Nat /\ Len(B) \in Nat
  OBVIOUS
<1>1. /\ v \in Seq(S) /\ Len(v) = Len(u) + Len(P)
      /\ \A j \in 1 .. Len(u) + Len(P) : v[j] = IF j <= Len(u) THEN u[j] ELSE P[j - Len(u)]
  BY ConcatProperties
<1> HIDE DEF v
<1>2. /\ w \in Seq(S) /\ Len(w) = Len(v) + Len(Q)
      /\ \A j \in 1 .. Len(v) + Len(Q) : w[j] = IF j <= Len(v) THEN v[j] ELSE Q[j - Len(v)]
  <2>1. v \in Seq(S)
    BY <1>1
  <2> QED BY <2>1, ConcatProperties
<1> HIDE DEF w
<1>3. /\ x \in Seq(S) /\ Len(x) = Len(w) + Len(B)
      /\ \A j \in 1 .. Len(w) + Len(B) : x[j] = IF j <= Len(w) THEN w[j] ELSE B[j - Len(w)]
  <2>1. w \in Seq(S)
    BY <1>2
  <2> QED BY <2>1, ConcatProperties
<1> HIDE DEF x
<1>4. Len(v) = Len(u) + Len(P) /\ Len(w) = Len(u) + Len(P) + Len(Q)
  BY <1>1, <1>2
<1>5. x \in Seq(S) /\ Len(x) = Len(u) + Len(P) + Len(Q) + Len(B)
  BY <1>3, <1>4
<1>6. ASSUME NEW j \in 1 .. Len(u) + Len(P) + Len(Q) + Len(B)
      PROVE  x[j] = IF j <= Len(u) THEN u[j]
                    ELSE IF j <= Len(u) + Len(P) THEN P[j - Len(u)]
                    ELSE IF j <= Len(u) + Len(P) + Len(Q) THEN Q[j - (Len(u) + Len(P))]
                    ELSE B[j - (Len(u) + Len(P) + Len(Q))]
  <2>1. x[j] = IF j <= Len(w) THEN w[j] ELSE B[j - Len(w)]
    BY <1>3, <1>4
  <2>2. j <= Len(w) => w[j] = IF j <= Len(v) THEN v[j] ELSE Q[j - Len(v)]
    BY <1>2
  <2>3. j <= Len(v) => v[j] = IF j <= Len(u) THEN u[j] ELSE P[j - Len(u)]
    BY <1>1
  <2>4. (j <= Len(v) => j <= Len(w)) /\ (j <= Len(u) => j <= Len(v))
    BY <1>l, <1>4
  <2> QED BY <1>4, <2>1, <2>2, <2>3, <2>4
<1> QED BY <1>5, <1>6 DEF v, w, x

(* What that call appends to the wire, byte by byte.                          *)
LEMMA WireAfterRead ==
  ASSUME TypeOK, NEW p \in Nat, NEW s \in Nat, NEW b \in Nat, Reads(p, s, b)
  PROVE  /\ wire' \in Seq({PreludeByte, SeparatorByte} \cup 1 .. written)
         /\ Len(wire') = Len(wire) + p + s + b
         /\ \A j \in 1 .. Len(wire) + p + s + b :
              wire'[j] = IF j <= Len(wire) THEN wire[j]
                         ELSE IF j <= Len(wire) + p THEN PreludeByte
                         ELSE IF j <= Len(wire) + p + s THEN SeparatorByte
                         ELSE body[body_pos + (j - (Len(wire) + p + s))]
<1> DEFINE S == {PreludeByte, SeparatorByte} \cup 1 .. written
           P == Repeat(PreludeByte, p)
           Q == Repeat(SeparatorByte, s)
           B == SubSeq(body, body_pos + 1, body_pos + b)
<1>t. wire \in Seq(S) /\ body_pos \in Nat /\ Len(body) \in Nat /\ Len(wire) \in Nat
  BY DEF TypeOK
<1>1. P \in Seq(S) /\ Len(P) = p /\ \A i \in 1 .. p : P[i] = PreludeByte
  BY RepeatProperties
<1>2. Q \in Seq(S) /\ Len(Q) = s /\ \A i \in 1 .. s : Q[i] = SeparatorByte
  BY RepeatProperties
<1>3. \A i \in DOMAIN body : body[i] \in S
  BY DEF TypeOK
<1>4. DOMAIN body = 1 .. Len(body)
  BY DEF TypeOK
<1> HIDE DEF S
<1>5. \A i \in (body_pos + 1) .. (body_pos + b) : body[i] \in S
  <2> SUFFICES ASSUME NEW i \in (body_pos + 1) .. (body_pos + b) PROVE i \in DOMAIN body
    BY <1>3
  <2>1. b > 0
    BY <1>t
  <2>2. body_pos + b <= Len(body)
    BY <2>1 DEF Reads
  <2> QED BY <1>t, <1>4, <2>2
<1>6. /\ B \in Seq(S)
      /\ Len(B) = IF body_pos + 1 <= body_pos + b THEN (body_pos + b) - (body_pos + 1) + 1 ELSE 0
      /\ \A i \in 1 .. ((body_pos + b) - (body_pos + 1) + 1) : B[i] = body[(body_pos + 1) + i - 1]
  <2>1. body_pos + 1 \in Int /\ body_pos + b \in Int
    BY <1>t
  <2> QED BY <1>5, <2>1, SubSeqProperties
<1> HIDE DEF P, Q, B
<1>7. Len(B) = b /\ \A i \in 1 .. b : B[i] = body[body_pos + i]
  <2>1. (body_pos + b) - (body_pos + 1) + 1 = b /\ (body_pos + 1 <= body_pos + b <=> 1 <= b)
    BY <1>t
  <2>2. Len(B) = b
    <3>1. CASE 1 <= b
      BY <1>6, <2>1, <3>1
    <3>2. CASE b = 0
      BY <1>6, <2>1, <3>2
    <3> QED BY <3>1, <3>2
  <2>3. ASSUME NEW i \in 1 .. b PROVE B[i] = body[body_pos + i]
    <3>1. (body_pos + 1) + i - 1 = body_pos + i
      BY <1>t
    <3>2. B[i] = body[(body_pos + 1) + i - 1]
      BY <1>6, <2>1
    <3> QED BY <3>1, <3>2
  <2> QED BY <2>2, <2>3
<1> DEFINE x == wire \o P \o Q \o B
<1>8. wire' = x
  BY DEF Reads, P, Q, B
<1>9. /\ x \in Seq(S) /\ Len(x) = Len(wire) + Len(P) + Len(Q) + Len(B)
      /\ \A j \in 1 .. Len(wire) + Len(P) + Len(Q) + Len(B) :
           x[j] = IF j <= Len(wire) THEN wire[j]
                  ELSE IF j <= Len(wire) + Len(P) THEN P[j - Len(wire)]
                  ELSE IF j <= Len(wire) + Len(P) + Len(Q) THEN Q[j - (Len(wire) + Len(P))]
                  ELSE B[j - (Len(wire) + Len(P) + Len(Q))]
  <2>1. P \in Seq(S) /\ Q \in Seq(S) /\ B \in Seq(S) /\ wire \in Seq(S)
    BY <1>t, <1>1, <1>2, <1>6
  <2> QED BY <2>1, SMTT(30), AppendPieces
<1> HIDE DEF x
<1>10. Len(P) = p /\ Len(Q) = s /\ Len(B) = b
  BY <1>1, <1>2, <1>7
<1>11. ASSUME NEW j \in 1 .. Len(wire) + p + s + b
       PROVE  x[j] = IF j <= Len(wire) THEN wire[j]
                     ELSE IF j <= Len(wire) + p THEN PreludeByte
                     ELSE IF j <= Len(wire) + p + s THEN SeparatorByte
                     ELSE body[body_pos + (j - (Len(wire) + p + s))]
  <2>1. x[j] = IF j <= Len(wire) THEN wire[j]
               ELSE IF j <= Len(wire) + p THEN P[j - Len(wire)]
               ELSE IF j <= Len(wire) + p + s THEN Q[j - (Len(wire) + p)]
               ELSE B[j - (Len(wire) + p + s)]
    BY <1>9, <1>10
  <2>2. ~(j <= Len(wire)) /\ j <= Len(wire) + p => P[j - Len(wire)] = PreludeByte
    BY <1>t, <1>1
  <2>3. ~(j <= Len(wire) + p) /\ j <= Len(wire) + p + s => Q[j - (Len(wire) + p)] = SeparatorByte
    BY <1>t, <1>2
  <2>4. ~(j <= Len(wire) + p + s) =>
          B[j - (Len(wire) + p + s)] = body[body_pos + (j - (Len(wire) + p + s))]
    BY <1>t, <1>7
  <2> QED BY <2>1, <2>2, <2>3, <2>4
<1>12. x \in Seq(S) /\ Len(x) = Len(wire) + p + s + b
  BY <1>9, <1>10
<1> QED BY <1>8, <1>11, <1>12 DEF S

(*************************** Types *******************************************)
Flags == {streaming, streaming_paused, streaming_eof, rewound, acked} \subseteq BOOLEAN

LEMMA FlagsType == Flags <=> /\ streaming \in BOOLEAN /\ streaming_paused \in BOOLEAN
                             /\ streaming_eof \in BOOLEAN /\ rewound \in BOOLEAN /\ acked \in BOOLEAN
BY DEF Flags

(* The sequences stay sequences as bytes are written.                         *)
LEMMA WrittenGrows ==
  ASSUME TypeOK
  PROVE  /\ body \in Seq(1 .. (written + 1))
         /\ wire \in Seq({PreludeByte, SeparatorByte} \cup 1 .. (written + 1))
<1>1. 1 .. written \subseteq 1 .. (written + 1)
  BY DEF TypeOK
<1>2. {PreludeByte, SeparatorByte} \cup 1 .. written
        \subseteq {PreludeByte, SeparatorByte} \cup 1 .. (written + 1)
  BY <1>1
<1> QED BY <1>1, <1>2, SeqMonotonic DEF TypeOK

LEMMA TypeStep == TypeOK /\ RoomInv /\ [Next]_vars => TypeOK' /\ RoomInv'
<1> SUFFICES ASSUME TypeOK, RoomInv, [Next]_vars PROVE TypeOK' /\ RoomInv'
  OBVIOUS
<1> DEFINE Bytes == /\ body \in Seq(1 .. written) /\ body_pos \in 0 .. written
                    /\ written \in 0 .. MaxWrites /\ Len(body) <= written
                    /\ wire \in Seq({PreludeByte, SeparatorByte} \cup 1 .. written)
           Heads == /\ prelude_len \in {0, PreludeLen} /\ prelude_pos \in 0 .. prelude_len
                    /\ separator \in 0 .. SeparatorLen
           Control == /\ pc \in {"chunk", "begin", "drive", "final", "cleanup", "exit"}
                      /\ request \in 1 .. MaxRequests
                      /\ transfer \in {"none", "open", "ended", "failed"}
<1> USE LengthTypes DEF Lengths
<1>i. TypeOK /\ RoomInv <=> Control /\ Flags /\ Heads /\ Bytes
  BY DEF TypeOK, RoomInv, Flags
<1>n. (TypeOK /\ RoomInv)' <=> Control' /\ Flags' /\ Heads' /\ Bytes'
  BY DEF TypeOK, RoomInv, Flags
<1>b. UNCHANGED <<bodyVars, wire, written>> => Bytes'
  BY <1>i DEF bodyVars
<1>h. UNCHANGED headVars => Heads'
  BY <1>i DEF headVars
<1>1. CASE Read
  <2>1. Control' /\ Flags'
    BY <1>i, <1>1, FlagsType DEF Read, ReadNothing, ReadData, Flags
  <2>2. CASE ReadNothing
    BY <1>1, <1>b, <1>h, <1>n, <2>1, <2>2 DEF Read, ReadNothing, headVars, bodyVars
  <2>3. ASSUME NEW n \in 1 .. MaxRoom, ReadData(n) PROVE (TypeOK /\ RoomInv)'
    <3> PICK p \in Nat, s \in Nat, b \in Nat : Reads(p, s, b)
      BY <2>3, ReadDataReads
    <3>1. Heads'
      <4>1. UNCHANGED prelude_len /\ prelude_len \in Nat
        BY <1>1, <1>i DEF Read
      <4>2. p <= prelude_len - prelude_pos /\ s <= SeparatorLen - separator
        BY <1>i, <4>1 DEF Reads
      <4>3. prelude_pos' = prelude_pos + p /\ separator' = separator + s
        BY DEF Reads
      <4>4. prelude_pos \in 0 .. prelude_len /\ separator \in 0 .. SeparatorLen
            /\ prelude_len \in {0, PreludeLen}
        BY <1>i
      <4>5. prelude_pos' \in 0 .. prelude_len' /\ separator' \in 0 .. SeparatorLen
        BY <4>1, <4>2, <4>3, <4>4
      <4> QED BY <4>1, <4>4, <4>5
    <3>2. body_pos' \in 0 .. written
      <4>1. Len(body) \in Nat /\ Len(body) <= written /\ body_pos \in 0 .. written /\ written \in Nat
        BY <1>i
      <4>2. body_pos' = body_pos + b /\ (b > 0 => body_pos + b <= Len(body))
        BY DEF Reads
      <4> QED BY <4>1, <4>2
    <3>3. wire' \in Seq({PreludeByte, SeparatorByte} \cup 1 .. written)
      BY WireAfterRead
    <3>4. Bytes'
      BY <1>1, <1>i, <3>2, <3>3 DEF Read
    <3> QED BY <1>n, <2>1, <3>1, <3>4
  <2> QED BY <1>1, <1>n, <2>2, <2>3 DEF Read
<1>2. CASE TransferFails \/ CurlFails \/ Flush \/ Finish \/ DriveReturns \/ Reap
  <2>1. Control' /\ Flags'
    BY <1>i, <1>2, FlagsType
       DEF TransferFails, CurlFails, Flush, Finish, DriveReturns, Reap, Resumed, flagVars, histVars,
           Flags
  <2>2. UNCHANGED <<headVars, bodyVars, wire, written>>
    BY <1>2 DEF TransferFails, CurlFails, Flush, Finish, DriveReturns, Reap, histVars
  <2> QED BY <1>b, <1>h, <1>n, <2>1, <2>2
<1>3. CASE Begin \/ BeginFails
  <2>1. Control' /\ Flags'
    BY <1>i, <1>3 DEF Begin, BeginFails, flagVars, histVars, Flags
  <2>2. Heads'
    BY <1>i, <1>3 DEF Begin, BeginFails
  <2>3. Bytes'
    BY <1>3, <1>b DEF Begin, BeginFails, histVars
  <2> QED BY <1>n, <2>1, <2>2, <2>3
<1>4. CASE Write
  <2>1. Control' /\ Flags' /\ Heads'
    BY <1>4, <1>h, <1>i DEF Write, flagVars, Flags
  <2>2. written' = written + 1 /\ written' \in 0 .. MaxWrites
    BY <1>4, <1>i DEF Write
  <2>3. body' \in Seq(1 .. (written + 1)) /\ Len(body') = Len(body) + 1
    <3>1. written + 1 \in 1 .. (written + 1)
      BY <1>i
    <3> QED BY <1>4, <3>1, WrittenGrows, AppendProperties DEF Write
  <2>4. wire' \in Seq({PreludeByte, SeparatorByte} \cup 1 .. (written + 1))
    BY <1>4, WrittenGrows DEF Write
  <2>5. Len(body) \in Nat
    BY <1>i
  <2>6. Bytes'
    BY <1>4, <1>i, <2>2, <2>3, <2>4, <2>5 DEF Write
  <2> QED BY <1>n, <2>1, <2>6
<1>5. ASSUME NEW n \in 0 .. MaxWrites, Seek(n) PROVE (TypeOK /\ RoomInv)'
  <2>1. Control' /\ Flags' /\ Heads'
    BY <1>5, <1>h, <1>i, FlagsType DEF Seek, flagVars, Flags
  <2>2. body' \in Seq(1 .. written) /\ Len(body') = n
    <3>0. n \in 0 .. (Len(body) - 1) /\ Len(body) \in Nat
      BY <1>5, <1>i DEF Seek
    <3>1. \A i \in 1 .. n : body[i] \in 1 .. written
      <4>1. \A i \in 1 .. n : i \in 1 .. Len(body)
        BY <3>0
      <4> QED BY <1>i, <4>1, ElementOfSeq
    <3>2. 1 \in Int /\ n \in Int
      OBVIOUS
    <3>3. /\ SubSeq(body, 1, n) \in Seq(1 .. written)
          /\ Len(SubSeq(body, 1, n)) = IF 1 <= n THEN n - 1 + 1 ELSE 0
      BY <3>1, <3>2, SubSeqProperties
    <3> QED BY <1>5, <3>3 DEF Seek
  <2>3. n < Len(body)
    BY <1>5, <1>i DEF Seek
  <2>4. UNCHANGED <<wire, written, body_pos>>
    BY <1>5 DEF Seek
  <2>5. body' \in Seq(1 .. written') /\ Len(body') <= written'
    <3>1. Len(body) <= written /\ Len(body) \in Nat /\ written \in Nat
      BY <1>i
    <3> QED BY <2>2, <2>3, <2>4, <3>1
  <2>6. Bytes'
    BY <1>i, <2>4, <2>5
  <2> QED BY <1>n, <2>1, <2>6
<1>6. CASE Cleanup
  <2>1. Control' /\ Flags'
    <3>1. request' = request + 1 /\ request' \in 1 .. MaxRequests
      BY <1>6, <1>i DEF Cleanup
    <3>2. Control'
      BY <1>6, <1>i, <3>1 DEF Cleanup
    <3>3. Flags'
      BY <1>6 DEF Cleanup, Flags
    <3> QED BY <3>2, <3>3
  <2>2. Heads'
    BY <1>6, <1>i DEF Cleanup, ClearHead
  <2>3. Bytes'
    BY <1>6, <1>i DEF Cleanup
  <2> QED BY <1>n, <2>1, <2>2, <2>3
<1>7. CASE UNCHANGED vars
  BY <1>7, <1>b, <1>h, <1>i, <1>n DEF vars, flagVars, histVars, Flags
<1> QED
  BY <1>1, <1>2, <1>3, <1>4, <1>5, <1>6, <1>7, <1>n DEF Next, Curl

(* Nothing is sent or written at first.                                       *)
LEMMA EmptyStart == Init => TypeOK /\ RoomInv /\ WireInv /\ OrderInv /\ CompleteInv
<1> SUFFICES ASSUME Init PROVE TypeOK /\ RoomInv /\ WireInv /\ OrderInv /\ CompleteInv
  OBVIOUS
<1>1. TypeOK /\ RoomInv
  <2>1. body \in Seq(1 .. written) /\ Len(body) = 0
    BY DEF Init
  <2>2. wire \in Seq({PreludeByte, SeparatorByte} \cup 1 .. written)
    BY EmptySeq DEF Init
  <2>3. {streaming, streaming_paused, streaming_eof, rewound, acked} \subseteq BOOLEAN
    BY DEF Init
  <2>4. request \in 1 .. MaxRequests
    BY LengthTypes DEF Init
  <2> QED BY LengthTypes, <2>1, <2>2, <2>3, <2>4 DEF Lengths, Init, TypeOK, RoomInv
<1>2. DOMAIN wire = {} /\ DOMAIN body = {} /\ Len(wire) = 0 /\ Len(body) = 0
  BY DEF Init
<1> QED BY <1>1, <1>2 DEF Init, WireInv, OrderInv, CompleteInv, Driving

(* Every variable keeps its type: no more of the prelude and the separator is *)
(* sent than there is, no more of the body than was ever written, and no byte *)
(* that was not written.                                                      *)
THEOREM StreamTypeCorrect == Spec => []TypeOK
BY EmptyStart, TypeStep, PTL DEF Spec

(*************************** What is on the wire *****************************)
LEMMA StreamTypes ==
  ASSUME TypeOK
  PROVE  /\ prelude_len \in Nat /\ prelude_pos \in Nat /\ prelude_pos <= prelude_len
         /\ separator \in Nat /\ separator <= SeparatorLen /\ body_pos \in Nat
         /\ PreludeLen \in Nat /\ SeparatorLen \in Nat /\ HeadLen = PreludeLen + SeparatorLen
         /\ Len(wire) \in Nat /\ DOMAIN wire = 1 .. Len(wire)
         /\ Len(body) \in Nat /\ DOMAIN body = 1 .. Len(body) /\ written \in Nat
         /\ \A j \in 1 .. Len(body) : body[j] \in 1 .. written
BY LengthTypes, ElementOfSeq DEF Lengths, TypeOK, HeadLen

(* The places of a call's bytes on the wire.                                  *)
LEMMA ReadPositions ==
  ASSUME TypeOK, WireInv, transfer = "open",
         NEW p \in Nat, NEW s \in Nat, NEW b \in Nat, Reads(p, s, b)
  PROVE  /\ p > 0 => Len(wire) + p <= PreludeLen
         /\ s > 0 => PreludeLen <= Len(wire) + p /\ Len(wire) + p + s <= HeadLen
         /\ b > 0 => /\ HeadLen <= Len(wire) + p + s
                     /\ prelude_pos + separator + p + s = HeadLen
         /\ prelude_pos' = prelude_pos + p /\ separator' = separator + s /\ body_pos' = body_pos + b
         /\ s + separator > 0 => prelude_pos' = PreludeLen
<1>t. /\ prelude_pos \in Nat /\ separator \in Nat /\ separator <= SeparatorLen /\ Len(wire) \in Nat
      /\ prelude_pos <= PreludeLen /\ PreludeLen \in Nat /\ SeparatorLen \in Nat
      /\ HeadLen = PreludeLen + SeparatorLen /\ prelude_len = PreludeLen
  BY StreamTypes DEF WireInv
<1>w. /\ separator > 0 => prelude_pos = PreludeLen
      /\ Len(wire) >= prelude_pos + separator
      /\ Len(wire) > prelude_pos + separator => prelude_pos + separator = HeadLen
  BY DEF WireInv
<1>r. /\ p <= PreludeLen - prelude_pos /\ s <= SeparatorLen - separator
      /\ s > 0 => p = PreludeLen - prelude_pos
      /\ b > 0 => p = PreludeLen - prelude_pos /\ s = SeparatorLen - separator
      /\ prelude_pos' = prelude_pos + p /\ separator' = separator + s /\ body_pos' = body_pos + b
  BY <1>t DEF Reads
<1>1. p > 0 => separator = 0 /\ Len(wire) = prelude_pos
  BY <1>t, <1>w, <1>r
<1>2. s > 0 => Len(wire) = prelude_pos + separator
  BY <1>t, <1>w, <1>r
<1>3. b > 0 => prelude_pos + separator + p + s = HeadLen
  BY <1>t, <1>r
<1>4. s + separator > 0 => prelude_pos' = PreludeLen
  BY <1>t, <1>w, <1>r
<1>5. p > 0 => Len(wire) + p <= PreludeLen
  BY <1>t, <1>1, <1>r
<1>6. s > 0 => PreludeLen <= Len(wire) + p /\ Len(wire) + p + s <= HeadLen
  BY <1>t, <1>2, <1>r
<1>7. b > 0 => HeadLen <= Len(wire) + p + s
  BY <1>t, <1>3, <1>w
<1> QED BY <1>3, <1>4, <1>5, <1>6, <1>7, <1>r

LEMMA WireStep == TypeOK /\ WireInv /\ [Next]_vars => WireInv'
<1> SUFFICES ASSUME TypeOK, WireInv, [Next]_vars PROVE WireInv'
  OBVIOUS
<1> USE DEF WireInv
<1>t. /\ Len(wire) \in Nat /\ DOMAIN wire = 1 .. Len(wire) /\ HeadLen = PreludeLen + SeparatorLen
      /\ prelude_pos \in Nat /\ separator \in Nat /\ PreludeLen \in Nat /\ SeparatorLen \in Nat
  BY StreamTypes
<1>1. CASE Read /\ ReadNothing
  BY <1>1 DEF Read, ReadNothing, Driving
<1>2. ASSUME NEW n \in 1 .. MaxRoom, Read, ReadData(n) PROVE WireInv'
  <2> PICK p \in Nat, s \in Nat, b \in Nat : Reads(p, s, b)
    BY <1>2, ReadDataReads
  <2>1. transfer = "open" /\ UNCHANGED <<pc, transfer, prelude_len, streaming>>
    BY <1>2 DEF Read, ReadData
  <2>2. /\ p > 0 => Len(wire) + p <= PreludeLen
        /\ s > 0 => PreludeLen <= Len(wire) + p /\ Len(wire) + p + s <= HeadLen
        /\ b > 0 => HeadLen <= Len(wire) + p + s
        /\ b > 0 => prelude_pos + separator + p + s = HeadLen
        /\ prelude_pos' = prelude_pos + p /\ separator' = separator + s
        /\ s + separator > 0 => prelude_pos' = PreludeLen
    BY <2>1, ReadPositions
  <2>3. /\ wire' \in Seq({PreludeByte, SeparatorByte} \cup 1 .. written)
        /\ Len(wire') = Len(wire) + p + s + b
        /\ \A j \in 1 .. Len(wire) + p + s + b :
             wire'[j] = IF j <= Len(wire) THEN wire[j]
                        ELSE IF j <= Len(wire) + p THEN PreludeByte
                        ELSE IF j <= Len(wire) + p + s THEN SeparatorByte
                        ELSE body[body_pos + (j - (Len(wire) + p + s))]
    BY WireAfterRead
  <2>4. DOMAIN wire' = 1 .. Len(wire) + p + s + b
    BY <2>3
  <2>5. ASSUME NEW j \in 1 .. Len(wire) + p + s + b
        PROVE  /\ j <= PreludeLen => wire'[j] = PreludeByte
               /\ PreludeLen < j /\ j <= HeadLen => wire'[j] = SeparatorByte
    <3>1. CASE j <= Len(wire)
      <4>1. j \in DOMAIN wire
        BY <1>t, <3>1
      <4>2. wire'[j] = wire[j]
        BY <2>3, <3>1
      <4>3. /\ j <= PreludeLen => wire[j] = PreludeByte
            /\ PreludeLen < j /\ j <= HeadLen => wire[j] = SeparatorByte
        BY <4>1
      <4> QED BY <4>2, <4>3
    <3>2. CASE Len(wire) < j /\ j <= Len(wire) + p
      BY <1>t, <2>2, <2>3, <3>2
    <3>3. CASE Len(wire) + p < j /\ j <= Len(wire) + p + s
      BY <1>t, <2>2, <2>3, <3>3
    <3>4. CASE Len(wire) + p + s < j
      BY <1>t, <2>2, <3>4
    <3> QED BY <1>t, <3>1, <3>2, <3>3, <3>4
  <2>6. Len(wire') >= prelude_pos' + separator'
    BY <1>t, <2>2, <2>3
  <2>7. Len(wire') > prelude_pos' + separator' => prelude_pos' + separator' = HeadLen
    <3>1. CASE b > 0
      BY <1>t, <2>2, <3>1
    <3>2. CASE b = 0 /\ Len(wire) > prelude_pos + separator
      <4>1. p = 0 /\ s = 0
        BY <1>t, <2>2, <3>2
      <4> QED BY <1>t, <2>2, <3>2, <4>1
    <3>3. CASE b = 0 /\ Len(wire) = prelude_pos + separator
      BY <1>t, <2>2, <2>3, <3>3
    <3>4. \/ b > 0
          \/ b = 0 /\ Len(wire) > prelude_pos + separator
          \/ b = 0 /\ Len(wire) = prelude_pos + separator
      <4>1. Len(wire) >= prelude_pos + separator
        OBVIOUS
      <4>2. Len(wire) > prelude_pos + separator \/ Len(wire) = prelude_pos + separator
        <5>1. prelude_pos + separator \in Nat /\ Len(wire) \in Nat
          BY <1>t
        <5>2. \A c, d \in Nat : c >= d => c > d \/ c = d
          OBVIOUS
        <5> QED BY <4>1, <5>1, <5>2
      <4>3. b > 0 \/ b = 0
        OBVIOUS
      <4> QED BY <4>2, <4>3
    <3> QED BY <3>1, <3>2, <3>3, <3>4
  <2>8. separator' > 0 => prelude_pos' = PreludeLen
    BY <1>t, <2>2
  <2> QED BY <2>1, <2>4, <2>5, <2>6, <2>7, <2>8 DEF Driving, HeadLen
<1>3. CASE TransferFails \/ CurlFails \/ Flush \/ Finish \/ DriveReturns \/ Reap
  <2>1. UNCHANGED <<wire, headVars>>
    BY <1>3 DEF TransferFails, CurlFails, Flush, Finish, DriveReturns, Reap, histVars
  <2>2. /\ transfer' = transfer \/ (transfer # "none" /\ transfer' # "none")
           \/ (transfer' = "none" /\ pc' = "cleanup")
        /\ (Driving' => transfer' # "none") /\ (pc' = "cleanup" => transfer' = "none")
        /\ streaming' /\ pc' = "chunk" => transfer' # "none"
    BY <1>3
       DEF TransferFails, CurlFails, Flush, Finish, DriveReturns, Reap, Driving, histVars, flagVars
  <2> QED BY <2>1, <2>2 DEF headVars, HeadLen
<1>4. CASE Begin \/ BeginFails
  BY <1>4 DEF Begin, BeginFails, Driving, histVars, flagVars, HeadLen
<1>5. CASE Write \/ \E n \in 0 .. MaxWrites : Seek(n)
  BY <1>5 DEF Write, Seek, Driving, headVars, flagVars, HeadLen
<1>6. CASE Cleanup
  <2>1. wire' = <<>> /\ transfer' = "none" /\ prelude_pos' = 0 /\ separator' = 0
        /\ ~streaming' /\ pc' = "chunk"
    BY <1>6, StreamTypes DEF Cleanup, ClearHead
  <2>2. Len(wire') = 0 /\ DOMAIN wire' = {}
    BY <2>1
  <2> QED BY <2>1, <2>2 DEF Driving
<1>7. CASE UNCHANGED vars
  BY <1>7 DEF vars, headVars, histVars, flagVars, Driving, HeadLen
<1> QED
  BY <1>1, <1>2, <1>3, <1>4, <1>5, <1>6, <1>7 DEF Next, Curl, Read

(*************************** The order of the bytes **************************)
(* Pointwise forms of the two operations on the body.                         *)
LEMMA BodyAfterWrite ==
  ASSUME TypeOK, Write
  PROVE  /\ DOMAIN body' = 1 .. Len(body) + 1 /\ Len(body') = Len(body) + 1
         /\ \A j \in 1 .. Len(body) + 1 : body'[j] = IF j <= Len(body) THEN body[j] ELSE written + 1
<1>1. body \in Seq(1 .. (written + 1)) /\ Len(body) \in Nat
  BY WrittenGrows
<1>2. written + 1 \in 1 .. (written + 1)
  BY DEF TypeOK
<1>3. body' = Append(body, written + 1)
  BY DEF Write
<1>4. body' \in Seq(1 .. (written + 1)) /\ Len(body') = Len(body) + 1
  BY <1>1, <1>2, <1>3, AppendProperties
<1>5. \A j \in 1 .. Len(body) : body'[j] = body[j]
  BY <1>1, <1>2, <1>3, AppendProperties
<1>6. body'[Len(body) + 1] = written + 1
  BY <1>1, <1>2, <1>3, AppendProperties
<1>7. ASSUME NEW j \in 1 .. Len(body) + 1
      PROVE  body'[j] = IF j <= Len(body) THEN body[j] ELSE written + 1
  <2>1. CASE j <= Len(body)
    BY <1>1, <1>5, <2>1
  <2>2. CASE ~(j <= Len(body))
    <3>1. j = Len(body) + 1
      BY <1>1, <2>2
    <3> QED BY <1>6, <2>2, <3>1
  <2> QED BY <2>1, <2>2
<1> QED BY <1>4, <1>7

LEMMA BodyAfterSeek ==
  ASSUME TypeOK, NEW n \in 0 .. MaxWrites, Seek(n)
  PROVE  /\ n < Len(body) /\ DOMAIN body' = 1 .. n /\ Len(body') = n
         /\ \A j \in 1 .. n : body'[j] = body[j]
<1>0. n \in 0 .. (Len(body) - 1) /\ body' = SubSeq(body, 1, n) /\ Len(body) \in Nat
  BY DEF Seek, TypeOK
<1>1. \A i \in 1 .. n : body[i] \in 1 .. written
  <2>1. \A i \in 1 .. n : i \in 1 .. Len(body)
    BY <1>0
  <2> QED BY <2>1, StreamTypes
<1>2. 1 \in Int /\ n \in Int
  OBVIOUS
<1>3. /\ body' \in Seq(1 .. written)
      /\ Len(body') = IF 1 <= n THEN n - 1 + 1 ELSE 0
      /\ \A i \in 1 .. (n - 1 + 1) : body'[i] = body[1 + i - 1]
  BY <1>0, <1>1, <1>2, SubSeqProperties
<1>4. \A j \in 1 .. n : body'[j] = body[j]
  BY <1>3
<1>5. Len(body') = n /\ DOMAIN body' = 1 .. Len(body')
  BY <1>3
<1> QED BY <1>0, <1>4, <1>5

(* No byte of the wire has a greater number than the last one written.        *)
LEMMA WireBelow == ASSUME TypeOK PROVE \A i \in 1 .. Len(wire) : wire[i] <= written /\ wire[i] \in Int
<1>1. wire \in Seq({PreludeByte, SeparatorByte} \cup 1 .. written) /\ written \in Nat
  BY DEF TypeOK
<1>2. \A i \in 1 .. Len(wire) : wire[i] \in {PreludeByte, SeparatorByte} \cup 1 .. written
  BY <1>1, ElementOfSeq
<1> QED BY <1>1, <1>2 DEF PreludeByte, SeparatorByte

LEMMA OrderStep == TypeOK /\ WireInv /\ OrderInv /\ [Next]_vars => OrderInv'
<1> SUFFICES ASSUME TypeOK, WireInv, OrderInv, [Next]_vars PROVE OrderInv'
  OBVIOUS
<1>t. /\ Len(wire) \in Nat /\ DOMAIN wire = 1 .. Len(wire) /\ HeadLen \in Nat /\ body_pos \in Nat
      /\ Len(body) \in Nat /\ DOMAIN body = 1 .. Len(body) /\ written \in Nat
      /\ HeadLen = PreludeLen + SeparatorLen /\ PreludeLen \in Nat /\ SeparatorLen \in Nat
  BY StreamTypes
<1>b. \A j \in 1 .. Len(body) : body[j] \in 1 .. written
  BY StreamTypes
<1>o1. \A j \in 1 .. Len(body) : \A i \in 1 .. (j - 1) : body[i] < body[j]
  BY <1>t DEF OrderInv
<1>o2. \A i \in 1 .. Len(wire) : \A j \in 1 .. Len(body) : j > body_pos => wire[i] < body[j]
  BY <1>t DEF OrderInv
<1>o3. \A j \in 1 .. Len(wire) : \A i \in (HeadLen + 1) .. (j - 1) : wire[i] < wire[j]
  BY <1>t DEF OrderInv
<1>u. ASSUME UNCHANGED <<wire, body, body_pos>> PROVE OrderInv'
  BY <1>u DEF OrderInv, HeadLen
<1>1. CASE Read /\ ReadNothing
  BY <1>1, <1>u DEF Read, ReadNothing
<1>2. ASSUME NEW n \in 1 .. MaxRoom, Read, ReadData(n) PROVE OrderInv'
  <2> PICK p \in Nat, s \in Nat, b \in Nat : Reads(p, s, b)
    BY <1>2, ReadDataReads
  <2>1. transfer = "open" /\ UNCHANGED body
    BY <1>2 DEF Read, ReadData
  <2>2. /\ p > 0 => Len(wire) + p <= PreludeLen
        /\ s > 0 => Len(wire) + p + s <= HeadLen
        /\ body_pos' = body_pos + b
    BY <2>1, ReadPositions
  <2>3. b > 0 => body_pos + b <= Len(body)
    BY DEF Reads
  <2> DEFINE before == Len(wire) + p + s
  <2>4. /\ DOMAIN wire' = 1 .. before + b
        /\ \A j \in 1 .. before + b :
             wire'[j] = IF j <= Len(wire) THEN wire[j]
                        ELSE IF j <= Len(wire) + p THEN PreludeByte
                        ELSE IF j <= before THEN SeparatorByte
                        ELSE body[body_pos + (j - before)]
    <3>1. /\ wire' \in Seq({PreludeByte, SeparatorByte} \cup 1 .. written)
          /\ Len(wire') = before + b
      BY WireAfterRead
    <3>2. DOMAIN wire' = 1 .. before + b
      BY <3>1
    <3> QED BY <3>2, WireAfterRead
  <2>5. before \in Nat /\ Len(wire) <= before /\ Len(wire) + p <= before
    BY <1>t
  <2> HIDE DEF before
  (* A byte on the wire is from before, or of the head, or of the body.       *)
  <2>6. ASSUME NEW j \in 1 .. before + b
        PROVE  /\ j <= Len(wire) => wire'[j] = wire[j]
               /\ Len(wire) < j /\ j <= before => wire'[j] \in {PreludeByte, SeparatorByte}
               /\ before < j => /\ wire'[j] = body[body_pos + (j - before)]
                                /\ body_pos + (j - before) \in 1 .. Len(body)
    <3>1. j <= Len(wire) => wire'[j] = wire[j]
      BY <2>4
    <3>2. Len(wire) < j /\ j <= before => wire'[j] \in {PreludeByte, SeparatorByte}
      BY <1>t, <2>4, <2>5
    <3>3. ASSUME before < j
          PROVE  /\ wire'[j] = body[body_pos + (j - before)]
                 /\ body_pos + (j - before) \in 1 .. Len(body)
      <4>1. b > 0 /\ body_pos + (j - before) \in 1 .. Len(body)
        BY <1>t, <2>3, <2>5, <3>3
      <4>2. ~(j <= Len(wire)) /\ ~(j <= Len(wire) + p) /\ ~(j <= before)
        BY <1>t, <2>5, <3>3
      <4> QED BY <2>4, <4>1, <4>2
    <3> QED BY <3>1, <3>2, <3>3
  <2>7. ASSUME NEW i \in 1 .. before + b, NEW j \in 1 .. Len(body), j > body_pos + b
        PROVE  wire'[i] < body[j]
    <3>1. CASE i <= Len(wire)
      BY <1>t, <1>o2, <2>5, <2>6, <2>7, <3>1
    <3>2. CASE Len(wire) < i /\ i <= before
      <4>1. wire'[i] \in {PreludeByte, SeparatorByte}
        BY <1>t, <2>5, <2>6, <3>2
      <4> QED BY <1>b, <1>t, <4>1 DEF PreludeByte, SeparatorByte
    <3>3. CASE before < i
      <4>1. wire'[i] = body[body_pos + (i - before)] /\ body_pos + (i - before) \in 1 .. Len(body)
        BY <1>t, <2>5, <2>6, <3>3
      <4>2. body_pos + (i - before) \in 1 .. (j - 1)
        <5>1. body_pos + (i - before) <= body_pos + b /\ body_pos + b \in Nat
          BY <1>t, <2>5, <3>3
        <5> QED BY <1>t, <2>7, <4>1, <5>1
      <4> QED BY <1>o1, <4>1, <4>2
    <3> QED BY <1>t, <2>5, <3>1, <3>2, <3>3
  <2>8. ASSUME NEW j \in 1 .. before + b, NEW i \in (HeadLen + 1) .. (j - 1)
        PROVE  wire'[i] < wire'[j]
    <3>i. i \in 1 .. before + b /\ i < j /\ HeadLen < i
      BY <1>t, <2>5
    <3>1. CASE j <= Len(wire)
      <4>1. wire'[j] = wire[j]
        BY <1>t, <2>5, <2>6, <3>1
      <4>2. wire'[i] = wire[i]
        BY <1>t, <2>5, <2>6, <3>1, <3>i
      <4>3. j \in 1 .. Len(wire)
        BY <1>t, <2>5, <3>1
      <4> QED BY <1>o3, <4>1, <4>2, <4>3
    <3>2. CASE Len(wire) < j /\ j <= before
      <4>1. j <= HeadLen
        BY <1>t, <2>2, <3>2 DEF before
      <4> QED BY <1>t, <2>5, <3>i, <4>1
    <3>3. CASE before < j
      <4>1. wire'[j] = body[body_pos + (j - before)] /\ body_pos + (j - before) \in 1 .. Len(body)
        BY <1>t, <2>5, <2>6, <3>3
      <4>2. CASE i <= Len(wire)
        <5>1. wire'[i] = wire[i] /\ i \in 1 .. Len(wire)
          BY <1>t, <2>5, <2>6, <3>i, <4>2
        <5>2. body_pos + (j - before) > body_pos
          BY <1>t, <2>5, <3>3
        <5> QED BY <1>o2, <4>1, <5>1, <5>2
      <4>3. CASE Len(wire) < i /\ i <= before
        <5>1. wire'[i] \in {PreludeByte, SeparatorByte}
          BY <1>t, <2>5, <2>6, <3>i, <4>3
        <5>2. body[body_pos + (j - before)] \in 1 .. written
          BY <1>b, <4>1
        <5> QED BY <1>t, <4>1, <5>1, <5>2 DEF PreludeByte, SeparatorByte
      <4>4. CASE before < i
        <5> DEFINE c == body_pos + (i - before)
                   d == body_pos + (j - before)
        <5>1. wire'[i] = body[c] /\ c \in 1 .. Len(body)
          BY <1>t, <2>5, <2>6, <3>i, <4>4
        <5>2. wire'[j] = body[d] /\ d \in 1 .. Len(body)
          BY <4>1
        <5>3. c < d
          BY <1>t, <2>5, <3>i
        <5> HIDE DEF c, d
        <5>4. c \in 1 .. (d - 1)
          BY <5>1, <5>2, <5>3
        <5> QED BY <1>o1, <5>1, <5>2, <5>4
      <4> QED BY <1>t, <2>5, <4>2, <4>3, <4>4
    <3> QED BY <1>t, <2>5, <3>1, <3>2, <3>3
  <2>9. HeadLen' = HeadLen
    BY DEF HeadLen
  <2> QED BY <1>t, <1>o1, <2>1, <2>2, <2>4, <2>7, <2>8, <2>9 DEF OrderInv
<1>3. CASE TransferFails \/ CurlFails \/ Flush \/ Finish \/ DriveReturns \/ Reap \/ Begin \/ BeginFails
  BY <1>3, <1>u
     DEF TransferFails, CurlFails, Flush, Finish, DriveReturns, Reap, Begin, BeginFails,
         bodyVars, histVars
<1>4. CASE Write
  <2>1. /\ DOMAIN body' = 1 .. Len(body) + 1
        /\ \A j \in 1 .. Len(body) + 1 : body'[j] = IF j <= Len(body) THEN body[j] ELSE written + 1
    BY <1>4, BodyAfterWrite
  <2>2. UNCHANGED <<wire, body_pos>>
    BY <1>4 DEF Write
  <2>3. ASSUME NEW j \in 1 .. Len(body) + 1, NEW i \in 1 .. (j - 1) PROVE body'[i] < body'[j]
    <3>1. i \in 1 .. Len(body) /\ body'[i] = body[i]
      BY <1>t, <2>1
    <3>2. CASE j <= Len(body)
      <4>1. j \in 1 .. Len(body) /\ body'[j] = body[j]
        BY <1>t, <2>1, <3>2
      <4> QED BY <1>o1, <3>1, <4>1
    <3>3. CASE ~(j <= Len(body))
      <4>1. body'[j] = written + 1
        BY <2>1, <3>3
      <4> QED BY <1>b, <1>t, <3>1, <4>1
    <3> QED BY <3>2, <3>3
  <2>4. ASSUME NEW i \in 1 .. Len(wire), NEW j \in 1 .. Len(body) + 1, j > body_pos
        PROVE  wire[i] < body'[j]
    <3>1. CASE j <= Len(body)
      <4>1. j \in 1 .. Len(body) /\ body'[j] = body[j]
        BY <1>t, <2>1, <3>1
      <4> QED BY <1>o2, <2>4, <4>1
    <3>2. CASE ~(j <= Len(body))
      <4>1. body'[j] = written + 1
        BY <2>1, <3>2
      <4> QED BY <1>t, <4>1, WireBelow
    <3> QED BY <3>1, <3>2
  <2> QED BY <1>t, <1>o3, <2>1, <2>2, <2>3, <2>4 DEF OrderInv, HeadLen
<1>5. ASSUME NEW n \in 0 .. MaxWrites, Seek(n) PROVE OrderInv'
  <2>1. n < Len(body) /\ DOMAIN body' = 1 .. n /\ \A j \in 1 .. n : body'[j] = body[j]
    BY <1>5, BodyAfterSeek
  <2>2. UNCHANGED <<wire, body_pos>>
    BY <1>5 DEF Seek
  <2>3. \A j \in 1 .. n : j \in 1 .. Len(body) /\ \A i \in 1 .. (j - 1) : i \in 1 .. n
    BY <1>t, <2>1
  <2>4. \A j \in 1 .. n : \A i \in 1 .. (j - 1) : body'[i] < body'[j]
    BY <1>o1, <2>1, <2>3
  <2>5. \A i \in 1 .. Len(wire) : \A j \in 1 .. n : j > body_pos => wire[i] < body'[j]
    BY <1>o2, <2>1, <2>3
  <2> QED BY <1>t, <1>o3, <2>1, <2>2, <2>4, <2>5 DEF OrderInv, HeadLen
<1>6. CASE Cleanup
  <2>1. DOMAIN wire' = {} /\ DOMAIN body' = {}
    BY <1>6 DEF Cleanup
  <2> QED BY <2>1 DEF OrderInv
<1>7. CASE UNCHANGED vars
  BY <1>7, <1>u DEF vars, bodyVars, histVars
<1> QED
  BY <1>1, <1>2, <1>3, <1>4, <1>5, <1>6, <1>7 DEF Next, Curl, Read

LEMMA WireHeadProperties ==
  LET S == {PreludeByte, SeparatorByte}
  IN  /\ WireHead \in Seq(S) /\ Len(WireHead) = HeadLen
      /\ \A i \in 1 .. HeadLen : WireHead[i] = IF i <= PreludeLen THEN PreludeByte ELSE SeparatorByte
<1> DEFINE S == {PreludeByte, SeparatorByte}
           P == Repeat(PreludeByte, PreludeLen)
           Q == Repeat(SeparatorByte, SeparatorLen)
<1>0. PreludeLen \in Nat /\ SeparatorLen \in Nat /\ HeadLen = PreludeLen + SeparatorLen
  BY LengthTypes DEF Lengths, HeadLen
<1>1. P \in Seq(S) /\ Len(P) = PreludeLen /\ \A i \in 1 .. PreludeLen : P[i] = PreludeByte
  BY <1>0, RepeatProperties
<1>2. Q \in Seq(S) /\ Len(Q) = SeparatorLen /\ \A i \in 1 .. SeparatorLen : Q[i] = SeparatorByte
  BY <1>0, RepeatProperties
<1> HIDE DEF P, Q, S
<1>3. /\ P \o Q \in Seq(S) /\ Len(P \o Q) = Len(P) + Len(Q)
      /\ \A i \in 1 .. Len(P) + Len(Q) : (P \o Q)[i] = IF i <= Len(P) THEN P[i] ELSE Q[i - Len(P)]
  BY <1>1, <1>2, ConcatProperties
<1>4. WireHead = P \o Q
  BY DEF WireHead, P, Q
<1>5. ASSUME NEW i \in 1 .. HeadLen
      PROVE  WireHead[i] = IF i <= PreludeLen THEN PreludeByte ELSE SeparatorByte
  <2>1. WireHead[i] = IF i <= PreludeLen THEN P[i] ELSE Q[i - PreludeLen]
    BY <1>0, <1>1, <1>2, <1>3, <1>4
  <2>2. i <= PreludeLen => P[i] = PreludeByte
    BY <1>1
  <2>3. ~(i <= PreludeLen) => Q[i - PreludeLen] = SeparatorByte
    BY <1>0, <1>2
  <2> QED BY <2>1, <2>2, <2>3
<1> QED BY <1>0, <1>1, <1>2, <1>3, <1>4, <1>5 DEF S

(* Whatever the rooms the callback is given, whatever the chunk writes and    *)
(* truncates between two flushes: first the prelude and the separator, once,  *)
(* then bytes of the body in the order they were written, none twice.         *)
THEOREM StreamStaysInOrder == Spec => []WireInOrder
<1>1. TypeOK /\ WireInv /\ OrderInv => WireInOrder
  <2> SUFFICES ASSUME TypeOK, WireInv, OrderInv PROVE WireInOrder
    OBVIOUS
  <2> DEFINE S == {PreludeByte, SeparatorByte} \cup 1 .. written
             m == Min({Len(wire), Len(WireHead)})
             front == SubSeq(wire, 1, m)
  <2>t. /\ wire \in Seq(S) /\ Len(wire) \in Nat /\ DOMAIN wire = 1 .. Len(wire)
        /\ PreludeLen \in Nat /\ SeparatorLen \in Nat /\ HeadLen = PreludeLen + SeparatorLen
    BY StreamTypes DEF TypeOK
  <2>e. \A i \in 1 .. Len(wire) : wire[i] \in S
    BY <2>t, ElementOfSeq
  <2>w. \A i \in 1 .. Len(wire) : i <= HeadLen =>
          wire[i] = IF i <= PreludeLen THEN PreludeByte ELSE SeparatorByte
    BY <2>t DEF WireInv
  <2>h. /\ Len(WireHead) = HeadLen /\ DOMAIN WireHead = 1 .. HeadLen
        /\ \A i \in 1 .. HeadLen : WireHead[i] = IF i <= PreludeLen THEN PreludeByte ELSE SeparatorByte
    BY WireHeadProperties
  <2> HIDE DEF S
  <2>m. m = IF Len(wire) <= HeadLen THEN Len(wire) ELSE HeadLen
    BY <2>t, <2>h, MinOfTwo
  <2>1. IsPrefix(front, WireHead)
    <3>1. m \in Nat /\ m <= Len(wire) /\ m <= HeadLen
      BY <2>t, <2>m
    <3> HIDE DEF m
    <3>2. \A i \in 1 .. m : wire[i] \in S /\ i \in 1 .. Len(wire) /\ i \in 1 .. HeadLen
      BY <2>t, <2>e, <3>1
    <3>3. 1 \in Int /\ m \in Int
      BY <3>1
    <3>4. /\ front \in Seq(S) /\ Len(front) = IF 1 <= m THEN m - 1 + 1 ELSE 0
          /\ \A i \in 1 .. (m - 1 + 1) : front[i] = wire[1 + i - 1]
      BY <3>2, <3>3, SubSeqProperties
    <3>5. Len(front) = m /\ DOMAIN front = 1 .. m /\ \A i \in 1 .. m : front[i] = wire[i]
      BY <3>1, <3>4
    <3>6. ASSUME NEW i \in 1 .. m PROVE front[i] = WireHead[i]
      <4>1. i \in 1 .. Len(wire) /\ i \in 1 .. HeadLen /\ i <= HeadLen
        BY <2>t, <3>1, <3>2
      <4>2. wire[i] = IF i <= PreludeLen THEN PreludeByte ELSE SeparatorByte
        BY <2>w, <4>1
      <4>3. WireHead[i] = IF i <= PreludeLen THEN PreludeByte ELSE SeparatorByte
        BY <2>h, <4>1
      <4> QED BY <3>5, <4>2, <4>3
    <3> QED BY <2>h, <3>1, <3>5, <3>6 DEF IsPrefix
  <2>o. \A i \in DOMAIN wire : \A j \in (HeadLen + 1) .. (i - 1) : wire[j] < wire[i]
    BY DEF OrderInv
  <2>2. \A i \in DOMAIN Sent : \A j \in 1 .. (i - 1) : Sent[j] < Sent[i]
    <3> DEFINE a == HeadLen + 1
               k == Len(wire)
    <3>1. Sent = SubSeq(wire, a, k) /\ a \in Int /\ k \in Int
      BY <2>t, <2>h DEF Sent
    <3>2. \A i \in a .. k : wire[i] \in S
      BY <2>e, <2>t
    <3>3. /\ SubSeq(wire, a, k) \in Seq(S)
          /\ Len(SubSeq(wire, a, k)) = IF a <= k THEN k - a + 1 ELSE 0
          /\ \A i \in 1 .. (k - a + 1) : SubSeq(wire, a, k)[i] = wire[a + i - 1]
      BY <3>1, <3>2, SubSeqProperties
    <3>4. \A i \in DOMAIN Sent : i \in 1 .. (k - a + 1)
      <4>1. DOMAIN Sent = 1 .. Len(Sent)
        BY <3>1, <3>3
      <4>2. Len(Sent) = IF a <= k THEN k - a + 1 ELSE 0
        BY <3>1, <3>3
      <4>3. a \in Int /\ k \in Int
        BY <3>1
      <4> HIDE DEF a, k
      <4>4. CASE a <= k
        BY <4>1, <4>2, <4>4
      <4>5. CASE ~(a <= k)
        <5>1. DOMAIN Sent = 1 .. 0
          BY <4>1, <4>2, <4>5
        <5> QED BY <5>1
      <4> QED BY <4>4, <4>5
    <3>5. \A i \in 1 .. (k - a + 1) : Sent[i] = wire[a + i - 1]
      BY <3>1, <3>3
    <3> SUFFICES ASSUME NEW i \in DOMAIN Sent, NEW j \in 1 .. (i - 1) PROVE Sent[j] < Sent[i]
      OBVIOUS
    <3>6. i \in 1 .. (k - a + 1) /\ j \in 1 .. (k - a + 1) /\ j < i
      <4>1. i \in 1 .. (k - a + 1) /\ a \in Int /\ k \in Int
        BY <3>1, <3>4
      <4> HIDE DEF a, k
      <4> QED BY <4>1
    <3> DEFINE x == HeadLen + i
               y == HeadLen + j
    <3>7. Sent[i] = wire[x] /\ Sent[j] = wire[y]
      <4>1. a + i - 1 = HeadLen + i /\ a + j - 1 = HeadLen + j
        BY <2>t, <3>6
      <4> QED BY <3>5, <3>6, <4>1
    <3>8. x \in DOMAIN wire /\ y \in (HeadLen + 1) .. (x - 1)
      BY <2>t, <3>6
    <3> HIDE DEF x, y
    <3> QED BY <2>o, <3>7, <3>8
  <2> QED BY <2>1, <2>2 DEF WireInOrder
<1> QED BY <1>1, EmptyStart, TypeStep, WireStep, OrderStep, PTL DEF Spec

(*************************** Completeness ************************************)
(* The part of CompleteInv about the bytes.                                   *)
SentInv ==
  ~rewound => /\ body_pos <= Len(body)
              /\ Len(wire) = prelude_pos + separator + body_pos
              /\ \A k \in 1 .. body_pos : wire[HeadLen + k] = body[k]

LEMMA SentInvStep ==
  TypeOK /\ WireInv /\ SentInv /\ [Next]_vars => SentInv'
<1> SUFFICES ASSUME TypeOK, WireInv, SentInv, [Next]_vars PROVE SentInv'
  OBVIOUS
<1>t. /\ Len(wire) \in Nat /\ HeadLen \in Nat /\ body_pos \in Nat /\ Len(body) \in Nat
      /\ prelude_pos \in Nat /\ separator \in Nat
  BY StreamTypes
<1>u. ASSUME UNCHANGED <<wire, body, body_pos, prelude_pos, separator, rewound>> PROVE SentInv'
  BY <1>u DEF SentInv, HeadLen
<1>h. HeadLen' = HeadLen
  BY DEF HeadLen
<1>1. CASE Read /\ ReadNothing
  BY <1>1, <1>u DEF Read, ReadNothing
<1>2. ASSUME NEW n \in 1 .. MaxRoom, Read, ReadData(n) PROVE SentInv'
  <2> SUFFICES ASSUME ~rewound
               PROVE  /\ body_pos' <= Len(body')
                      /\ Len(wire') = prelude_pos' + separator' + body_pos'
                      /\ \A k \in 1 .. body_pos' : wire'[HeadLen + k] = body'[k]
    BY <1>2, <1>h DEF SentInv, Read
  <2> PICK p \in Nat, s \in Nat, b \in Nat : Reads(p, s, b)
    BY <1>2, ReadDataReads
  <2>0. /\ body_pos <= Len(body) /\ Len(wire) = prelude_pos + separator + body_pos
        /\ \A k \in 1 .. body_pos : wire[HeadLen + k] = body[k]
    BY DEF SentInv
  <2>1. transfer = "open" /\ UNCHANGED body
    BY <1>2 DEF Read, ReadData
  <2>2. /\ b > 0 => prelude_pos + separator + p + s = HeadLen
        /\ prelude_pos' = prelude_pos + p /\ separator' = separator + s /\ body_pos' = body_pos + b
    BY <2>1, ReadPositions
  <2>3. b > 0 => body_pos + b <= Len(body)
    BY DEF Reads
  <2>4. body_pos' <= Len(body')
    BY <1>t, <2>0, <2>1, <2>2, <2>3
  <2>5. Len(wire') = Len(wire) + p + s + b
    BY WireAfterRead
  <2>6. Len(wire') = prelude_pos' + separator' + body_pos'
    BY <1>t, <2>0, <2>2, <2>5
  <2>7. body_pos > 0 => HeadLen + body_pos = Len(wire)
    <3>1. Len(wire) > prelude_pos + separator => prelude_pos + separator = HeadLen
      BY DEF WireInv
    <3> QED BY <1>t, <2>0, <3>1
  <2>8. ASSUME NEW k \in 1 .. body_pos + b PROVE wire'[HeadLen + k] = body[k]
    <3>1. CASE k <= body_pos
      <4>1. k \in 1 .. body_pos /\ HeadLen + k \in 1 .. Len(wire) + p + s + b /\ HeadLen + k <= Len(wire)
        BY <1>t, <2>7, <3>1
      <4>2. wire'[HeadLen + k] = wire[HeadLen + k]
        BY <4>1, WireAfterRead
      <4> QED BY <2>0, <4>1, <4>2
    <3>2. CASE ~(k <= body_pos)
      <4>1. b > 0 /\ Len(wire) + p + s = HeadLen + body_pos
        BY <1>t, <2>0, <2>2, <3>2
      <4> DEFINE j == HeadLen + k
      <4>2. /\ j \in 1 .. Len(wire) + p + s + b
            /\ ~(j <= Len(wire)) /\ ~(j <= Len(wire) + p) /\ ~(j <= Len(wire) + p + s)
        BY <1>t, <3>2, <4>1
      <4>3. body_pos + (j - (Len(wire) + p + s)) = k
        BY <1>t, <4>1
      <4> HIDE DEF j
      <4>4. wire'[j] = body[body_pos + (j - (Len(wire) + p + s))]
        BY <4>2, WireAfterRead
      <4> QED BY <4>3, <4>4 DEF j
    <3> QED BY <3>1, <3>2
  <2> QED BY <2>1, <2>2, <2>4, <2>6, <2>8
<1>3. CASE TransferFails \/ CurlFails \/ Flush \/ Finish \/ DriveReturns \/ Reap \/ Begin \/ BeginFails
  BY <1>3, <1>u
     DEF TransferFails, CurlFails, Flush, Finish, DriveReturns, Reap, Begin, BeginFails,
         headVars, bodyVars, histVars
<1>4. CASE Write
  <2>1. Len(body') = Len(body) + 1 /\ \A j \in 1 .. Len(body) : body'[j] = body[j]
    <3>1. \A j \in 1 .. Len(body) : j \in 1 .. Len(body) + 1 /\ j <= Len(body)
      BY <1>t
    <3> QED BY <1>4, <3>1, BodyAfterWrite
  <2>2. UNCHANGED <<wire, body_pos, prelude_pos, separator, rewound>>
    BY <1>4 DEF Write, headVars
  <2>3. ~rewound => body_pos <= Len(body')
    BY <1>t, <2>1 DEF SentInv
  <2>4. ~rewound => \A k \in 1 .. body_pos : k \in 1 .. Len(body)
    BY <1>t DEF SentInv
  <2> QED BY <1>h, <2>1, <2>2, <2>3, <2>4 DEF SentInv
<1>5. ASSUME NEW n \in 0 .. MaxWrites, Seek(n) PROVE SentInv'
  <2> SUFFICES ASSUME ~rewound'
               PROVE  /\ body_pos <= Len(body') /\ Len(wire) = prelude_pos + separator + body_pos
                      /\ \A k \in 1 .. body_pos : wire[HeadLen + k] = body'[k]
    BY <1>5, <1>h DEF SentInv, Seek, headVars
  <2>1. ~rewound /\ body_pos <= n
    <3>1. rewound' = (rewound \/ n < body_pos) /\ n \in Nat
      BY <1>5 DEF Seek
    <3>2. ~rewound /\ ~(n < body_pos)
      BY <3>1
    <3> QED BY <1>t, <3>1, <3>2
  <2>2. Len(body') = n /\ \A j \in 1 .. n : body'[j] = body[j]
    BY <1>5, BodyAfterSeek
  <2>3. \A k \in 1 .. body_pos : k \in 1 .. n
    BY <1>t, <2>1
  <2> QED BY <2>1, <2>2, <2>3 DEF SentInv
<1>6. CASE Cleanup
  <2>1. Len(wire') = 0 /\ Len(body') = 0 /\ body_pos' = 0 /\ prelude_pos' = 0 /\ separator' = 0
    BY <1>6, StreamTypes DEF Cleanup, ClearHead
  <2> QED BY <2>1 DEF SentInv
<1>7. CASE UNCHANGED vars
  BY <1>7, <1>u DEF vars, headVars, bodyVars, histVars
<1> QED
  BY <1>1, <1>2, <1>3, <1>4, <1>5, <1>6, <1>7 DEF Next, Curl, Read

(* The part of CompleteInv about the transfer.                                *)
Ended ==
  /\ streaming_eof => pc \in {"final", "cleanup", "exit"}
  /\ transfer = "ended" => pc \in {"final", "exit"} /\ NothingToRead
  /\ acked => pc = "cleanup" /\ prelude_len = PreludeLen /\ NothingToRead
  /\ pc = "chunk" /\ transfer = "none" => ~streaming_paused
  /\ Driving /\ transfer = "open" /\ streaming_paused => NothingToRead

LEMMA EndedStep == TypeOK /\ WireInv /\ Ended /\ [Next]_vars => Ended'
<1> SUFFICES ASSUME TypeOK, WireInv, Ended, [Next]_vars PROVE Ended'
  OBVIOUS
<1> USE DEF Ended, Driving
<1>t. streaming_paused \in BOOLEAN /\ streaming_eof \in BOOLEAN /\ acked \in BOOLEAN
      /\ transfer \in {"none", "open", "ended", "failed"}
  BY DEF TypeOK
<1>w. /\ wire # <<>> \/ transfer # "none" => prelude_len = PreludeLen
      /\ (Driving => transfer # "none")
  BY DEF WireInv
<1>n. ASSUME UNCHANGED <<headVars, bodyVars>> PROVE NothingToRead' <=> NothingToRead
  BY <1>n DEF NothingToRead, headVars, bodyVars
<1>1. CASE Read /\ ReadNothing
  <2>1. NothingToRead /\ NothingToRead'
    BY <1>1, <1>n DEF Read, ReadNothing, headVars, bodyVars
  <2> QED BY <1>1, <1>t, <2>1 DEF Read, ReadNothing, Paused
<1>2. ASSUME NEW n \in 1 .. MaxRoom, Read, ReadData(n) PROVE Ended'
  BY <1>2 DEF Read, ReadData, Paused
<1>3. CASE TransferFails \/ CurlFails \/ Flush \/ Finish \/ DriveReturns \/ Reap
  <2>1. NothingToRead' <=> NothingToRead
    BY <1>3, <1>n DEF TransferFails, CurlFails, Flush, Finish, DriveReturns, Reap
  <2>2. UNCHANGED prelude_len
    BY <1>3 DEF TransferFails, CurlFails, Flush, Finish, DriveReturns, Reap, headVars
  <2>3. CASE TransferFails
    BY <1>t, <2>1, <2>2, <2>3 DEF TransferFails, flagVars, histVars
  <2>4. CASE CurlFails
    BY <1>t, <1>w, <2>1, <2>2, <2>4 DEF CurlFails, flagVars, histVars
  <2>5. CASE Flush \/ Finish
    BY <1>t, <2>1, <2>2, <2>5 DEF Flush, Finish, flagVars, histVars, Resumed
  <2>6. CASE DriveReturns
    BY <1>t, <1>w, <2>1, <2>2, <2>6 DEF DriveReturns, histVars
  <2>7. CASE Reap
    BY <1>t, <1>w, <2>1, <2>2, <2>7 DEF Reap, flagVars
  <2> QED BY <1>3, <2>3, <2>4, <2>5, <2>6, <2>7
<1>4. CASE Begin \/ BeginFails
  BY <1>4, <1>t DEF Begin, BeginFails, flagVars, histVars
<1>5. CASE Write \/ \E n \in 0 .. MaxWrites : Seek(n)
  BY <1>5, <1>t DEF Write, Seek, flagVars
<1>6. CASE Cleanup
  BY <1>6, <1>t DEF Cleanup, WireInv
<1>7. CASE UNCHANGED vars
  BY <1>7, <1>t, <1>n DEF vars, headVars, flagVars, histVars
<1> QED
  BY <1>1, <1>2, <1>3, <1>4, <1>5, <1>6, <1>7 DEF Next, Curl, Read

LEMMA CompleteStep == TypeOK /\ WireInv /\ CompleteInv /\ [Next]_vars => CompleteInv'
<1>1. CompleteInv <=> SentInv /\ Ended
  BY DEF CompleteInv, SentInv, Ended
<1>2. CompleteInv' <=> SentInv' /\ Ended'
  BY DEF CompleteInv, SentInv, Ended
<1> QED BY <1>1, <1>2, SentInvStep, EndedStep

(* Where there is nothing left to read after a complete prelude, the wire is  *)
(* the head and the body.                                                     *)
LEMMA AllIsSent ==
  ASSUME TypeOK, WireInv, CompleteInv, ~rewound, prelude_len = PreludeLen, NothingToRead
  PROVE  BodySent
<1> DEFINE S == {PreludeByte, SeparatorByte} \cup 1 .. written
           full == WireHead \o body
<1>t. /\ HeadLen \in Nat /\ body_pos \in Nat /\ Len(body) \in Nat /\ Len(wire) \in Nat
      /\ HeadLen = PreludeLen + SeparatorLen /\ DOMAIN wire = 1 .. Len(wire)
  BY StreamTypes
<1>1. wire \in Seq(S) /\ body \in Seq(S) /\ WireHead \in Seq(S)
  <2>1. 1 .. written \subseteq S /\ {PreludeByte, SeparatorByte} \subseteq S
    OBVIOUS
  <2> HIDE DEF S
  <2>2. body \in Seq(1 .. written) /\ WireHead \in Seq({PreludeByte, SeparatorByte})
    BY WireHeadProperties DEF TypeOK
  <2>3. body \in Seq(S) /\ WireHead \in Seq(S)
    BY <2>1, <2>2, SeqMonotonic
  <2> QED BY <2>3 DEF TypeOK, S
<1> HIDE DEF S
<1>2. /\ full \in Seq(S) /\ Len(full) = Len(WireHead) + Len(body)
      /\ \A i \in 1 .. Len(WireHead) + Len(body) :
           full[i] = IF i <= Len(WireHead) THEN WireHead[i] ELSE body[i - Len(WireHead)]
  BY <1>1, ConcatProperties
<1>h. /\ Len(WireHead) = HeadLen
      /\ \A i \in 1 .. HeadLen : WireHead[i] = IF i <= PreludeLen THEN PreludeByte ELSE SeparatorByte
  BY WireHeadProperties
<1> HIDE DEF full
<1>3. body_pos = Len(body) /\ Len(wire) = HeadLen + Len(body)
  BY <1>t DEF CompleteInv, NothingToRead
<1>4. \A k \in 1 .. Len(body) : wire[HeadLen + k] = body[k]
  BY <1>3 DEF CompleteInv
<1>5. ASSUME NEW i \in 1 .. Len(wire) PROVE wire[i] = full[i]
  <2>1. i \in 1 .. Len(WireHead) + Len(body)
    BY <1>3, <1>h
  <2>2. full[i] = IF i <= HeadLen THEN WireHead[i] ELSE body[i - HeadLen]
    BY <1>2, <1>h, <2>1
  <2>3. CASE i <= HeadLen
    <3>1. i \in 1 .. HeadLen /\ i \in DOMAIN wire
      BY <1>t, <2>3
    <3>2. wire[i] = IF i <= PreludeLen THEN PreludeByte ELSE SeparatorByte
      BY <1>t, <2>3, <3>1, LengthTypes DEF WireInv, Lengths
    <3> QED BY <1>h, <2>2, <2>3, <3>1, <3>2
  <2>4. CASE ~(i <= HeadLen)
    <3>1. i - HeadLen \in 1 .. Len(body) /\ HeadLen + (i - HeadLen) = i
      BY <1>3, <1>t, <2>4
    <3>2. wire[HeadLen + (i - HeadLen)] = body[i - HeadLen]
      BY <1>4, <3>1
    <3> QED BY <2>2, <2>4, <3>1, <3>2
  <2> QED BY <2>3, <2>4
<1>6. Len(wire) = Len(full)
  BY <1>2, <1>3, <1>h
<1> QED BY <1>1, <1>2, <1>5, <1>6, SeqEqual DEF full, BodySent

(* A stream that ends with success, whose body was never truncated below what *)
(* had been sent, has sent the prelude, the separator and exactly the body,   *)
(* however many flushes and pauses it took.                                   *)
THEOREM StreamIsComplete == Spec => []CompleteWhenAcked
<1>1. TypeOK /\ WireInv /\ CompleteInv => CompleteWhenAcked
  <2> SUFFICES ASSUME TypeOK, WireInv, CompleteInv, acked, ~rewound PROVE BodySent
    BY DEF CompleteWhenAcked
  <2>1. prelude_len = PreludeLen /\ NothingToRead
    BY DEF CompleteInv
  <2> QED BY <2>1, AllIsSent
<1> QED BY <1>1, EmptyStart, TypeStep, WireStep, CompleteStep, PTL DEF Spec

(* When lws_stream_response returns to the chunk and the transfer goes on,    *)
(* the prelude, the separator and exactly the body have been sent, and the    *)
(* transfer is paused, unless a truncation went below what had been sent.     *)
THEOREM FlushReturnsDrained == Spec => FlushDrains
<1>1. TypeOK /\ WireInv /\ CompleteInv /\ DriveReturns /\ transfer = "open" /\ ~rewound
        => streaming_paused /\ BodySent
  <2> SUFFICES ASSUME TypeOK, WireInv, CompleteInv, DriveReturns, transfer = "open", ~rewound
               PROVE  streaming_paused /\ BodySent
    OBVIOUS
  <2>1. streaming_paused /\ Driving
    BY DEF DriveReturns, DoneForNow, Driving
  <2>2. prelude_len = PreludeLen
    BY DEF WireInv
  <2>3. NothingToRead
    BY <2>1 DEF CompleteInv
  <2> QED BY <2>1, <2>2, <2>3, AllIsSent
<1>2. TypeOK /\ WireInv /\ CompleteInv /\ [Next]_vars =>
        [DriveReturns /\ transfer = "open" /\ ~rewound => streaming_paused /\ BodySent]_vars
  BY <1>1
<1> QED BY <1>2, EmptyStart, TypeStep, WireStep, CompleteStep, PTL DEF Spec, FlushDrains
===============================================================================
