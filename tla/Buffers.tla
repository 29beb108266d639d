-------------------------------- MODULE Buffers -------------------------------
(* The two buffers that grow as data arrives: the invocation's body, filled   *)
(* by lws_handle_write, and the response body, filled by                      *)
(* lws_write_response_body and converted to base64 in place by                *)
(* lws_post_response.  Only lengths are modelled.  The arithmetic is that of  *)
(* size_t, scaled down to SizeMax.  The Content-Length hint is left out: it   *)
(* is not known before the body has been received.                            *)
EXTENDS Integers

CONSTANTS
  SizeMax,     \* SIZE_MAX
  Initial,     \* the first capacity, 4096
  Threshold,   \* from here on, 1 MiB, a buffer grows by half, not twofold
  Padding,     \* YYJSON_PADDING_SIZE
  Chunks       \* the lengths of data to look at

ASSUME CapacityAssumption ==
  /\ SizeMax \in Nat /\ Initial \in 1 .. SizeMax /\ Padding \in 0 .. SizeMax
  /\ Threshold \in Nat \ {0, 1} /\ Chunks \subseteq 0 .. SizeMax

VARIABLES
  buffer,        \* "body", "resp_body" or "none"
  doing,         \* "ready", "grow", "posted", "failed" or "idle"
  length, cap,   \* of the buffer
  likely_utf8, streaming,
  arriving,      \* the length of the data being added
  required,      \* the space it needs
  capacity       \* the capacity in the growth loop

bufferVars == <<buffer, doing, length, cap, likely_utf8, streaming, arriving, required, capacity>>

BuffersStart(b, d) ==
  /\ buffer = b /\ doing = d /\ length = 0 /\ cap = 0
  /\ likely_utf8 = FALSE /\ streaming = FALSE /\ arriving = 0 /\ required = 0 /\ capacity = 0

BuffersInit == \E b \in {"body", "resp_body"} : BuffersStart(b, "ready")
BuffersIdle == BuffersStart("none", "idle")

Size(n) == n % (SizeMax + 1)
Slack == IF buffer = "body" THEN Padding ELSE 0

(* lws_base64_encode_len                                                      *)
Groups(n) == (n \div 3) + (IF n % 3 > 0 THEN 1 ELSE 0)
EncodingTooLong(n) == Groups(n) > SizeMax \div 4
EncodingLen(n) == Size(Groups(n) * 4)

MutTooLarge(n) == FALSE   \* mutant: the sum of the lengths is not looked at
TooLarge(n) == n > SizeMax - Slack - length

(* A response body that may turn out binary gets room for its base64 form.    *)
Required(n, utf8) ==
  IF buffer = "body" \/ utf8 \/ streaming \/ EncodingTooLong(length + n)
  THEN Size(length + n + Slack) ELSE EncodingLen(length + n)

(* The data is too large, or room is left for it, or the buffer must grow.    *)
Add(n, utf8) ==
  /\ doing = "ready"
  /\ likely_utf8' = IF buffer = "resp_body" /\ length = 0 /\ ~TooLarge(n) THEN utf8 ELSE likely_utf8
  /\ CASE TooLarge(n) -> UNCHANGED <<doing, length, arriving, required, capacity>>
       [] ~TooLarge(n) /\ Required(n, likely_utf8') <= cap ->
            length' = length + n /\ UNCHANGED <<doing, arriving, required, capacity>>
       [] OTHER -> /\ doing' = "grow" /\ arriving' = n /\ required' = Required(n, likely_utf8')
                   /\ capacity' = IF cap = 0 THEN Initial ELSE cap
                   /\ UNCHANGED length
  /\ UNCHANGED <<buffer, cap, streaming>>

Larger(c) ==
  CASE c < Threshold /\ c <= SizeMax \div 2 -> Size(c * 2)
    [] c >= Threshold /\ c <= (SizeMax \div 3) * 2 -> Size(c + (c \div 2))
    [] OTHER -> required

Grow ==
  /\ doing = "grow" /\ capacity < required /\ capacity' = Larger(capacity)
  /\ UNCHANGED <<buffer, doing, length, cap, likely_utf8, streaming, arriving, required>>

(* The buffer is reallocated and the data copied, or nothing is.              *)
Reallocate(ok) ==
  /\ doing = "grow" /\ capacity >= required /\ doing' = "ready"
  /\ IF ok THEN cap' = capacity /\ length' = length + arriving ELSE UNCHANGED <<cap, length>>
  /\ arriving' = 0 /\ required' = 0 /\ capacity' = 0
  /\ UNCHANGED <<buffer, likely_utf8, streaming>>

(* lws_seek_response_body truncates; a streamed body that is sent is emptied. *)
Truncate(n) ==
  /\ buffer = "resp_body" /\ doing = "ready" /\ n <= length /\ length' = n
  /\ UNCHANGED <<buffer, doing, cap, likely_utf8, streaming, arriving, required, capacity>>

StartStreaming ==
  /\ buffer = "resp_body" /\ doing = "ready" /\ ~streaming /\ streaming' = TRUE
  /\ UNCHANGED <<buffer, doing, length, cap, likely_utf8, arriving, required, capacity>>

EncodedCap == IF cap < EncodingLen(length) THEN EncodingLen(length) ELSE cap

(* lws_post_response: a body that is not valid UTF-8 is encoded in place.     *)
Post(valid, ok) ==
  /\ buffer = "resp_body" /\ doing = "ready" /\ ~streaming
  /\ valid \/ length > 0
  /\ CASE valid -> doing' = "posted" /\ UNCHANGED <<length, cap>>
       [] ~valid /\ (EncodingTooLong(length) \/ (cap < EncodingLen(length) /\ ~ok)) ->
            doing' = "failed" /\ UNCHANGED <<length, cap>>
       [] OTHER -> doing' = "posted" /\ length' = EncodingLen(length) /\ cap' = EncodedCap
  /\ UNCHANGED <<buffer, likely_utf8, streaming, arriving, required, capacity>>

BuffersNext ==
  \/ \E n \in Chunks, u \in BOOLEAN : Add(n, u)
  \/ \E b \in BOOLEAN : Reallocate(b) \/ \E v \in BOOLEAN : Post(v, b)
  \/ \E n \in {0} \cup Chunks : Truncate(n)
  \/ Grow \/ StartStreaming

BuffersSpec == BuffersInit /\ [][BuffersNext]_bufferVars

(****************************** Properties ***********************************)
(* The data and, behind an invocation's body, the padding that the parser     *)
(* zeroes lie within the memory allocated, near SIZE_MAX too, whether the     *)
(* growth loop doubled, added a half, or gave up doubling, after failed       *)
(* reallocations, truncations and the encoding in place.  A buffer that no    *)
(* data came for has no memory at all, hence none for the padding either.     *)
(* The growth loop ends: each of its turns makes progress.                    *)
BufferFits ==
  /\ cap <= SizeMax /\ capacity <= SizeMax
  /\ (cap = 0 /\ length = 0) \/ length + Slack <= cap
  /\ doing = "grow" /\ capacity < required => Larger(capacity) > capacity

(************************* Inductive invariant *******************************)
(* All sizes are sizes, and the room being made is for the data at hand: no   *)
(* sum of lengths that the growth loop works towards has wrapped around.      *)
GrowthInv ==
  /\ buffer \in {"body", "resp_body"} /\ doing \in {"ready", "grow", "posted", "failed"}
  /\ {length, cap, arriving, required, capacity} \subseteq 0 .. SizeMax
  /\ likely_utf8 \in BOOLEAN /\ streaming \in BOOLEAN
  /\ (cap = 0 /\ length = 0) \/ length + Slack <= cap
  /\ doing = "grow" => capacity >= 1 /\ length + arriving + Slack <= required
===============================================================================
