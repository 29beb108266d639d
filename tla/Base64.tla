-------------------------------- MODULE Base64 --------------------------------
(* lws_base64_encode and lws_base64_decode of lws_codec.c, which convert a    *)
(* buffer in place: the encoder works from the end, because its output is     *)
(* longer, the decoder from the start.  A cell of the buffer holds a byte     *)
(* (0 .. 255) or a character; no character is taken for a byte, so that a     *)
(* cell that is read after it was overwritten shows.                          *)
EXTENDS Integers, Sequences

CONSTANTS
  Plains,    \* byte sequences to encode
  Texts      \* character sequences to decode

ASSUME PlainsAssumption == Plains \subseteq Seq(0 .. 255)
ASSUME TextsAssumption == Texts \subseteq Seq(256 .. 321)

VARIABLES
  direction,   \* "encode", "decode" or "none"
  input,       \* what the buffer held at first
  buf,         \* [0 .. capacity - 1 -> cell]: in_out
  i_in, i_out, \* the next cell to read and to write; one beyond it in the encoder
  verdict      \* "busy", "ok" or "failed"

base64Vars == <<direction, input, buf, i_in, i_out, verdict>>

Char(digit) == 256 + digit   \* the character of a 6-bit digit
Pad == 320
Other == 321                 \* any character that is not of the alphabet

IsDigit(c) == c \in 256 .. 319
Digit(c) == IF IsDigit(c) THEN c - 256 ELSE 128   \* b64_dec_tbl

Blocks(n) == (n \div 3) + (IF n % 3 > 0 THEN 1 ELSE 0)
MutEncodedLen(n) == (n * 4 + 2) \div 3   \* mutant: the output is not padded
(* lws_base64_encode_len; its overflow needs more memory than there is.       *)
EncodedLen(n) == Blocks(n) * 4

Buffer(s, capacity) == [i \in 0 .. (capacity - 1) |-> IF i < Len(s) THEN s[i + 1] ELSE 0]

EncodeStarts(s) ==
  /\ direction = "encode" /\ input = s /\ verdict = "busy"
  /\ buf = Buffer(s, EncodedLen(Len(s)))
  /\ i_in = Len(s) /\ i_out = EncodedLen(Len(s))

DecodeStarts(t) ==
  /\ direction = "decode" /\ input = t /\ buf = Buffer(t, Len(t))
  /\ i_in = 0 /\ i_out = 0 /\ verdict = "busy"

Base64Init == (\E s \in Plains : EncodeStarts(s)) \/ (\E t \in Texts : DecodeStarts(t))

Base64Idle ==
  /\ direction = "none" /\ input = <<>> /\ buf = Buffer(<<>>, 0)
  /\ i_in = 0 /\ i_out = 0 /\ verdict = "ok"

(* The buffer with the cells of s written from cell i.                        *)
Written(i, s) == [j \in DOMAIN buf |-> IF j \in i .. (i + Len(s) - 1) THEN s[j - i + 1] ELSE buf[j]]

(******************************* Encoder *************************************)
Digits(v, n) == [k \in 1 .. n |-> Char((v \div 64^(n - k)) % 64)]

Encoding == direction = "encode" /\ verdict = "busy"

(* One or two bytes remain after the full blocks: they are encoded first.     *)
EncodeRemainder ==
  /\ Encoding /\ i_in = Len(input) /\ Len(input) % 3 > 0
  /\ LET rem == Len(input) % 3
         v == IF rem = 1 THEN buf[i_in - 1] * 16
              ELSE (buf[i_in - 2] * 256 + buf[i_in - 1]) * 4
     IN  /\ buf' = Written(i_out - 4, Digits(v, rem + 1) \o [k \in 1 .. (3 - rem) |-> Pad])
         /\ i_in' = i_in - rem
  /\ i_out' = i_out - 4
  /\ UNCHANGED <<direction, input, verdict>>

EncodeBlock ==
  /\ Encoding /\ i_in > 0 /\ i_in % 3 = 0
  /\ buf' = Written(i_out - 4,
                    Digits(buf[i_in - 3] * 65536 + buf[i_in - 2] * 256 + buf[i_in - 1], 4))
  /\ i_in' = i_in - 3 /\ i_out' = i_out - 4
  /\ UNCHANGED <<direction, input, verdict>>

EncodeEnds ==
  /\ Encoding /\ i_in = 0 /\ verdict' = "ok"
  /\ UNCHANGED <<direction, input, buf, i_in, i_out>>

(******************************* Decoder *************************************)
Decoding == direction = "decode" /\ verdict = "busy"

BadLength(n) == n % 4 > 0

(* The bytes of the first n of a block's digits, to 8 bits each.              *)
Bytes(a, b, c, d, n) ==
  SubSeq(<<(a * 4 + (b \div 16)) % 256, (b * 16 + (c \div 4)) % 256, (c * 64 + d) % 256>>, 1, n)

Cell(k) == buf[i_in + k]

DecodeFails ==
  /\ verdict' = "failed"
  /\ UNCHANGED <<direction, input, buf, i_in, i_out>>

DecodeBytes(n) ==
  /\ buf' = Written(i_out, Bytes(Digit(Cell(0)), Digit(Cell(1)), Digit(Cell(2)), Digit(Cell(3)), n))
  /\ i_in' = i_in + 4 /\ i_out' = i_out + n
  /\ UNCHANGED <<direction, input>>

DecodeNothing ==
  /\ Decoding /\ i_in = 0
  /\ \/ Len(input) = 0 /\ verdict' = "ok" /\ UNCHANGED <<direction, input, buf, i_in, i_out>>
     \/ Len(input) > 0 /\ BadLength(Len(input)) /\ DecodeFails

MutInside(c) == IsDigit(c) \/ c = Pad   \* mutant: padding is let in before the end
Inside(c) == IsDigit(c)

DecodeBlock ==
  /\ Decoding /\ ~BadLength(Len(input)) /\ i_in + 4 < Len(input)
  /\ IF \A k \in 0 .. 3 : Inside(Cell(k)) THEN DecodeBytes(3) /\ UNCHANGED verdict
     ELSE DecodeFails

(* The bytes of the final block: it ends in "==", in "=" or in a digit; 0 when *)
(* it is malformed.                                                           *)
FinalBytes ==
  CASE ~IsDigit(Cell(0)) \/ ~IsDigit(Cell(1)) -> 0
    [] OTHER -> CASE Cell(2) = Pad /\ Cell(3) = Pad -> 1
                  [] IsDigit(Cell(2)) /\ Cell(3) = Pad -> 2
                  [] IsDigit(Cell(2)) /\ IsDigit(Cell(3)) -> 3
                  [] OTHER -> 0

DecodeFinal ==
  /\ Decoding /\ ~BadLength(Len(input)) /\ i_in + 4 = Len(input)
  /\ IF FinalBytes = 0 THEN DecodeFails ELSE DecodeBytes(FinalBytes) /\ verdict' = "ok"

Base64Next ==
  \/ EncodeRemainder \/ EncodeBlock \/ EncodeEnds
  \/ DecodeNothing \/ DecodeBlock \/ DecodeFinal

Base64Spec == Base64Init /\ [][Base64Next]_base64Vars

(****************************** References ***********************************)
(* RFC 4648, position by position, without a buffer.                          *)
ByteAt(s, j) == IF j < Len(s) THEN s[j + 1] ELSE 0
Triple(s, g) == ByteAt(s, 3*g) * 65536 + ByteAt(s, 3*g + 1) * 256 + ByteAt(s, 3*g + 2)

Encoded(s) ==
  [i \in 1 .. (4 * ((Len(s) + 2) \div 3)) |->
     LET g == (i - 1) \div 4
         p == (i - 1) % 4
     IN  IF p > 0 /\ 3*g + p > Len(s) THEN Pad ELSE Char((Triple(s, g) \div 64^(3 - p)) % 64)]

WellFormedText(t) ==
  /\ Len(t) % 4 = 0
  /\ \A i \in 1 .. (Len(t) - 2) : IsDigit(t[i])
  /\ Len(t) > 0 => /\ IsDigit(t[Len(t)]) \/ t[Len(t)] = Pad
                   /\ IsDigit(t[Len(t) - 1]) \/ (t[Len(t) - 1] = Pad /\ t[Len(t)] = Pad)

DigitAt(t, i) == IF IsDigit(t[i]) THEN t[i] - 256 ELSE 0
Quad(t, g) == DigitAt(t, 4*g + 1) * 64^3 + DigitAt(t, 4*g + 2) * 64^2
                + DigitAt(t, 4*g + 3) * 64 + DigitAt(t, 4*g + 4)
Pads(t) == (IF Len(t) > 0 /\ t[Len(t)] = Pad THEN 1 ELSE 0)
             + (IF Len(t) > 0 /\ t[Len(t) - 1] = Pad THEN 1 ELSE 0)

Decoded(t) ==
  [j \in 1 .. (3 * (Len(t) \div 4) - Pads(t)) |->
     (Quad(t, (j - 1) \div 3) \div 256^(2 - ((j - 1) % 3))) % 256]

(****************************** Properties ***********************************)
(* While the encoder works towards the buffer's start, what it has not read   *)
(* is intact and what it has written is the encoding; the buffer is as long   *)
(* as the encoding, which is written from its cell 0 on at the end and        *)
(* decodes to the input.                                                      *)
EncodesInPlace ==
  direction = "encode" =>
    /\ DOMAIN buf = 0 .. (Len(Encoded(input)) - 1)
    /\ \A i \in 0 .. (i_in - 1) : buf[i] = input[i + 1]
    /\ \A i \in i_out .. (Len(Encoded(input)) - 1) : buf[i] = Encoded(input)[i + 1]
    /\ verdict = "ok" => i_out = 0
    /\ WellFormedText(Encoded(input)) /\ Decoded(Encoded(input)) = input

(* The decoder takes exactly the well-formed texts, and never writes on a     *)
(* character it has not read.                                                 *)
DecodesInPlace ==
  direction = "decode" =>
    /\ verdict # "busy" => (verdict = "ok" <=> WellFormedText(input))
    /\ verdict = "ok" => [j \in 1 .. i_out |-> buf[j - 1]] = Decoded(input)
    /\ verdict = "busy" => \A i \in i_in .. (Len(input) - 1) : buf[i] = input[i + 1]

(************************* Inductive invariant *******************************)
(* The two cells move together: block by block from the end, whose remainder  *)
(* comes first.                                                               *)
EncodeInv ==
  /\ input \in Seq(0 .. 255) /\ verdict \in {"busy", "ok"}
  /\ DOMAIN buf = 0 .. (EncodedLen(Len(input)) - 1)
  /\ i_in \in 0 .. Len(input) /\ (i_in % 3 > 0 => i_in = Len(input))
  /\ i_out = EncodedLen(i_in)
  /\ \A i \in 0 .. (i_in - 1) : buf[i] = input[i + 1]
  /\ \A i \in i_out .. (EncodedLen(Len(input)) - 1) : buf[i] = Encoded(input)[i + 1]
  /\ verdict = "ok" => i_in = 0

(* The byte at position j of the text's data.                                 *)
DecodedAt(t, j) == (Quad(t, (j - 1) \div 3) \div 256^(2 - ((j - 1) % 3))) % 256

(* The decoder has taken whole blocks of digits, and writes behind its reads. *)
DecodeInv ==
  /\ input \in Seq(256 .. 321) /\ verdict \in {"busy", "ok", "failed"}
  /\ DOMAIN buf = 0 .. (Len(input) - 1) /\ i_in \in 0 .. Len(input) /\ i_out \in Nat
  /\ verdict = "busy" =>
       /\ i_in % 4 = 0 /\ i_out = 3 * (i_in \div 4)
       /\ Len(input) % 4 > 0 => i_in = 0
       /\ Len(input) > 0 => i_in < Len(input)
       /\ \A i \in 1 .. i_in : IsDigit(input[i])
       /\ \A i \in i_in .. (Len(input) - 1) : buf[i] = input[i + 1]
       /\ \A j \in 1 .. i_out : buf[j - 1] = DecodedAt(input, j)
  /\ verdict = "failed" => ~WellFormedText(input)
  /\ verdict = "ok" => /\ WellFormedText(input)
                       /\ i_out = 3 * (Len(input) \div 4) - Pads(input)
                       /\ \A j \in 1 .. i_out : buf[j - 1] = DecodedAt(input, j)

CodecInv ==
  \/ direction = "encode" /\ EncodeInv
  \/ direction = "decode" /\ DecodeInv
===============================================================================
