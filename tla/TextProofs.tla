------------------------------ MODULE TextProofs ------------------------------
(* Theorems about the buffers and the conversions that write into memory of a *)
(* size worked out before: for every SIZE_MAX, capacity, string and cookie.   *)
EXTENDS Args, Buffers, Cookies, Statuses, SequenceTheorems, TLAPS

(******************************* Buffers *************************************)
LEMMA CapacityTypes ==
  /\ SizeMax \in Nat /\ Initial \in Nat /\ 1 <= Initial /\ Initial <= SizeMax
  /\ Padding \in Nat /\ Padding <= SizeMax /\ Threshold \in Nat /\ 2 <= Threshold
  /\ \A n \in Chunks : n \in Nat
BY CapacityAssumption

(* A size_t that does not exceed SIZE_MAX is what it is.                      *)
LEMMA SizeFits == ASSUME NEW n \in Nat, n <= SizeMax PROVE Size(n) = n
BY CapacityTypes DEF Size

(* The base64 form is at least as long as the data, and a size_t.             *)
LEMMA EncodingFits ==
  ASSUME NEW n \in Nat, ~EncodingTooLong(n)
  PROVE  EncodingLen(n) \in Nat /\ n <= EncodingLen(n) /\ EncodingLen(n) <= SizeMax
<1>1. Groups(n) \in Nat /\ n <= 3 * Groups(n)
  BY DEF Groups
<1>2. Groups(n) * 4 \in Nat /\ Groups(n) * 4 <= SizeMax /\ n <= Groups(n) * 4
  BY <1>1, CapacityTypes DEF EncodingTooLong
<1>3. EncodingLen(n) = Groups(n) * 4
  BY <1>2, SizeFits DEF EncodingLen
<1> QED BY <1>2, <1>3

LEMMA BufferTypes ==
  ASSUME GrowthInv
  PROVE  /\ buffer \in {"body", "resp_body"} /\ Slack \in Nat
         /\ length \in Nat /\ cap \in Nat /\ arriving \in Nat /\ required \in Nat /\ capacity \in Nat
         /\ length <= SizeMax /\ cap <= SizeMax /\ required <= SizeMax /\ capacity <= SizeMax
         /\ (buffer = "resp_body" => Slack = 0)
         /\ (cap = 0 /\ length = 0) \/ length + Slack <= cap
<1>1. Slack \in Nat /\ (buffer = "resp_body" => Slack = 0)
  BY CapacityTypes DEF Slack
<1>2. /\ length \in 0 .. SizeMax /\ cap \in 0 .. SizeMax /\ arriving \in 0 .. SizeMax
      /\ required \in 0 .. SizeMax /\ capacity \in 0 .. SizeMax
  BY DEF GrowthInv
<1> QED BY <1>1, <1>2, CapacityTypes DEF GrowthInv

(* What is required has room for the data, and has not wrapped around.        *)
LEMMA RequiredFits ==
  ASSUME GrowthInv, NEW n \in Nat, NEW u \in BOOLEAN, ~TooLarge(n)
  PROVE  /\ Required(n, u) \in Nat /\ Required(n, u) <= SizeMax
         /\ length + n + Slack <= Required(n, u)
         /\ n <= SizeMax
<1>1. length + n + Slack \in Nat /\ length + n + Slack <= SizeMax
  BY BufferTypes, CapacityTypes DEF TooLarge
<1>2. Size(length + n + Slack) = length + n + Slack
  BY <1>1, SizeFits
<1>3. n <= SizeMax
  BY <1>1, BufferTypes, CapacityTypes
<1>4. CASE buffer = "body" \/ u \/ streaming \/ EncodingTooLong(length + n)
  <2>1. Required(n, u) = Size(length + n + Slack)
    BY <1>4 DEF Required
  <2> QED BY <1>1, <1>2, <1>3, <2>1
<1>5. CASE ~(buffer = "body" \/ u \/ streaming \/ EncodingTooLong(length + n))
  <2>1. buffer = "resp_body" /\ Slack = 0 /\ length \in Nat /\ length + n \in Nat
    BY <1>5, BufferTypes
  <2>2. Required(n, u) = EncodingLen(length + n)
    BY <1>5 DEF Required
  <2>3. /\ EncodingLen(length + n) \in Nat /\ length + n <= EncodingLen(length + n)
        /\ EncodingLen(length + n) <= SizeMax
    BY <1>5, <2>1, EncodingFits
  <2>4. length + n + Slack = length + n
    BY <2>1
  <2> QED BY <1>3, <2>2, <2>3, <2>4
<1> QED BY <1>4, <1>5

(* Each turn of the growth loop makes the capacity greater, and no more than  *)
(* a size_t holds.                                                            *)
LEMMA LargerGrows ==
  ASSUME GrowthInv, NEW c \in Nat, 1 <= c, c < required
  PROVE  Larger(c) \in Nat /\ c < Larger(c) /\ Larger(c) <= SizeMax
<1>t. SizeMax \in Nat /\ Threshold \in Nat /\ 2 <= Threshold /\ required \in Nat /\ required <= SizeMax
  BY BufferTypes, CapacityTypes
<1>1. CASE c < Threshold /\ c <= SizeMax \div 2
  <2>1. c * 2 \in Nat /\ c < c * 2 /\ c * 2 <= SizeMax
    BY <1>t, <1>1
  <2>2. Larger(c) = Size(c * 2)
    BY <1>t, <1>1 DEF Larger
  <2> QED BY <2>1, <2>2, SizeFits
<1>2. CASE c >= Threshold /\ c <= (SizeMax \div 3) * 2
  <2>1. c + (c \div 2) \in Nat /\ c < c + (c \div 2) /\ c + (c \div 2) <= SizeMax
    BY <1>t, <1>2
  <2>2. Larger(c) = Size(c + (c \div 2))
    BY <1>t, <1>2 DEF Larger
  <2> QED BY <2>1, <2>2, SizeFits
<1>3. CASE /\ ~(c < Threshold /\ c <= SizeMax \div 2)
           /\ ~(c >= Threshold /\ c <= (SizeMax \div 3) * 2)
  <2>1. Larger(c) = required
    BY <1>3 DEF Larger
  <2> QED BY <1>t, <2>1
<1> QED BY <1>1, <1>2, <1>3

LEMMA GrowthStep == GrowthInv /\ [BuffersNext]_bufferVars => GrowthInv'
<1> SUFFICES ASSUME GrowthInv, [BuffersNext]_bufferVars PROVE GrowthInv'
  OBVIOUS
<1> DEFINE Sizes == /\ length \in 0 .. SizeMax /\ cap \in 0 .. SizeMax /\ arriving \in 0 .. SizeMax
                    /\ required \in 0 .. SizeMax /\ capacity \in 0 .. SizeMax
           Control == /\ buffer \in {"body", "resp_body"}
                      /\ doing \in {"ready", "grow", "posted", "failed"}
                      /\ likely_utf8 \in BOOLEAN /\ streaming \in BOOLEAN
           Fits == (cap = 0 /\ length = 0) \/ length + Slack <= cap
           Room == doing = "grow" => capacity >= 1 /\ length + arriving + Slack <= required
<1>i. GrowthInv <=> Sizes /\ Control /\ Fits /\ Room
  BY DEF GrowthInv
<1>n. GrowthInv' <=> Sizes' /\ Control' /\ Fits' /\ Room'
  BY DEF GrowthInv
<1>t. /\ SizeMax \in Nat /\ Slack \in Nat /\ length \in Nat /\ cap \in Nat /\ arriving \in Nat
      /\ required \in Nat /\ capacity \in Nat
      /\ (buffer = "resp_body" => Slack = 0)
  BY BufferTypes, CapacityTypes
<1>s. ASSUME UNCHANGED buffer PROVE Slack' = Slack
  BY <1>s DEF Slack
<1>1. ASSUME NEW n \in Chunks, NEW u \in BOOLEAN, Add(n, u) PROVE GrowthInv'
  <2>1. UNCHANGED <<buffer, cap, streaming>> /\ Slack' = Slack /\ n \in Nat /\ doing = "ready"
    BY <1>1, <1>s, CapacityTypes DEF Add
  <2>2. likely_utf8' \in BOOLEAN
    BY <1>1, <1>i DEF Add
  <2>3. CASE TooLarge(n)
    <3>1. UNCHANGED <<doing, length, arriving, required, capacity>>
      BY <1>1, <2>3 DEF Add
    <3> QED BY <1>i, <1>n, <2>1, <2>2, <3>1
  <2>4. CASE ~TooLarge(n) /\ Required(n, likely_utf8') <= cap
    <3>1. length' = length + n /\ UNCHANGED <<doing, arriving, required, capacity>>
      BY <1>1, <2>4 DEF Add
    <3>2. /\ Required(n, likely_utf8') \in Nat
          /\ length + n + Slack <= Required(n, likely_utf8')
      BY <2>1, <2>2, <2>4, RequiredFits
    <3>3. cap <= SizeMax
      BY <1>i
    <3>4. length' + Slack <= cap /\ length' \in 0 .. SizeMax
      BY <1>t, <2>1, <2>4, <3>1, <3>2, <3>3
    <3> QED BY <1>i, <1>n, <2>1, <2>2, <3>1, <3>4
  <2>5. CASE ~TooLarge(n) /\ ~(Required(n, likely_utf8') <= cap)
    <3>1. /\ doing' = "grow" /\ arriving' = n /\ required' = Required(n, likely_utf8')
          /\ capacity' = IF cap = 0 THEN Initial ELSE cap
          /\ UNCHANGED length
      BY <1>1, <2>5 DEF Add
    <3>2. /\ required' \in Nat /\ required' <= SizeMax /\ length + n + Slack <= required'
          /\ n <= SizeMax
      BY <2>1, <2>2, <2>5, <3>1, RequiredFits
    <3>3. capacity' \in 0 .. SizeMax /\ capacity' >= 1
      BY <1>i, <1>t, <3>1, CapacityTypes
    <3>4. arriving' \in 0 .. SizeMax /\ required' \in 0 .. SizeMax
      BY <1>t, <2>1, <3>1, <3>2
    <3>5. Sizes' /\ Room'
      BY <1>i, <2>1, <3>1, <3>2, <3>3, <3>4
    <3> QED BY <1>i, <1>n, <2>1, <2>2, <3>1, <3>5
  <2> QED BY <2>3, <2>4, <2>5
<1>2. CASE Grow
  <2>1. /\ capacity' = Larger(capacity) /\ capacity < required /\ doing = "grow"
        /\ UNCHANGED <<buffer, doing, length, cap, likely_utf8, streaming, arriving, required>>
    BY <1>2 DEF Grow
  <2>2. capacity' \in Nat /\ capacity < capacity' /\ capacity' <= SizeMax /\ 1 <= capacity
    BY <1>i, <1>t, <2>1, LargerGrows
  <2>3. capacity' \in 0 .. SizeMax /\ capacity' >= 1
    BY <1>t, <2>2
  <2> QED BY <1>i, <1>n, <1>s, <2>1, <2>3
<1>3. ASSUME NEW ok \in BOOLEAN, Reallocate(ok) PROVE GrowthInv'
  <2>1. /\ doing = "grow" /\ doing' = "ready" /\ capacity >= required
        /\ arriving' = 0 /\ required' = 0 /\ capacity' = 0
        /\ UNCHANGED <<buffer, likely_utf8, streaming>>
        /\ IF ok THEN cap' = capacity /\ length' = length + arriving ELSE UNCHANGED <<cap, length>>
    BY <1>3 DEF Reallocate
  <2>2. Slack' = Slack
    BY <1>s, <2>1
  <2>3. length + arriving + Slack <= capacity
    BY <1>i, <1>t, <2>1
  <2>4. length' \in 0 .. SizeMax /\ cap' \in 0 .. SizeMax /\ Fits'
    <3>1. CASE ok
      <4>1. cap' = capacity /\ length' = length + arriving /\ capacity <= SizeMax
        BY <1>i, <2>1, <3>1
      <4>2. length' + Slack <= cap'
        BY <1>t, <2>3, <4>1
      <4>3. length' \in 0 .. SizeMax /\ cap' \in 0 .. SizeMax
        BY <1>t, <2>3, <4>1
      <4> QED BY <2>2, <4>2, <4>3
    <3>2. CASE ~ok
      BY <1>i, <2>1, <2>2, <3>2
    <3> QED BY <3>1, <3>2
  <2> QED BY <1>i, <1>n, <1>t, <2>1, <2>4
<1>4. ASSUME NEW n \in {0} \cup Chunks, Truncate(n) PROVE GrowthInv'
  <2>1. /\ buffer = "resp_body" /\ n <= length /\ length' = n /\ n \in Nat /\ doing = "ready"
        /\ UNCHANGED <<buffer, doing, cap, likely_utf8, streaming, arriving, required, capacity>>
    BY <1>4, CapacityTypes DEF Truncate
  <2>2. Slack' = Slack /\ Slack = 0
    BY <1>s, <1>t, <2>1
  <2>3. length' \in 0 .. SizeMax /\ Fits'
    BY <1>i, <1>t, <2>1, <2>2
  <2> QED BY <1>i, <1>n, <2>1, <2>3
<1>5. CASE StartStreaming
  BY <1>5, <1>i, <1>n, <1>s DEF StartStreaming
<1>6. ASSUME NEW valid \in BOOLEAN, NEW ok \in BOOLEAN, Post(valid, ok) PROVE GrowthInv'
  <2>1. /\ buffer = "resp_body" /\ doing' \in {"posted", "failed"}
        /\ UNCHANGED <<buffer, likely_utf8, streaming, arriving, required, capacity>>
    BY <1>6 DEF Post
  <2>2. Slack' = Slack /\ Slack = 0
    BY <1>s, <1>t, <2>1
  <2>3. CASE UNCHANGED <<length, cap>>
    BY <1>i, <1>n, <2>1, <2>2, <2>3
  <2>4. CASE ~EncodingTooLong(length) /\ length' = EncodingLen(length) /\ cap' = EncodedCap
    <3>1. EncodingLen(length) \in Nat /\ EncodingLen(length) <= SizeMax
      BY <1>t, <2>4, EncodingFits
    <3>2. cap' \in 0 .. SizeMax /\ length' \in 0 .. SizeMax /\ length' <= cap'
      BY <1>i, <1>t, <2>4, <3>1 DEF EncodedCap
    <3>3. Fits'
      <4>1. length' \in Nat /\ length' <= cap' /\ Slack' = 0
        BY <1>t, <2>2, <3>2
      <4>2. length' + 0 <= cap'
        BY <4>1
      <4> QED BY <4>1, <4>2
    <3> QED BY <1>i, <1>n, <2>1, <3>2, <3>3
  <2> QED BY <1>6, <2>3, <2>4 DEF Post
<1>7. CASE UNCHANGED bufferVars
  BY <1>7, <1>i, <1>n, <1>s DEF bufferVars
<1> QED BY <1>1, <1>2, <1>3, <1>4, <1>5, <1>6, <1>7 DEF BuffersNext

(* The data, and the padding behind an invocation's body, lie within the      *)
(* memory allocated, whatever SIZE_MAX is and however near to it the lengths  *)
(* come; each turn of the growth loop makes progress.                         *)
THEOREM BuffersHoldTheirData == BuffersSpec => []BufferFits
<1>1. BuffersInit => GrowthInv
  <2> SUFFICES ASSUME BuffersInit PROVE GrowthInv
    OBVIOUS
  <2>1. PICK b \in {"body", "resp_body"} : BuffersStart(b, "ready")
    BY DEF BuffersInit
  <2>2. 0 \in 0 .. SizeMax
    BY CapacityTypes
  <2> QED BY <2>1, <2>2 DEF BuffersStart, GrowthInv
<1>2. GrowthInv => BufferFits
  <2> SUFFICES ASSUME GrowthInv PROVE BufferFits
    OBVIOUS
  <2>1. doing = "grow" /\ capacity < required => Larger(capacity) > capacity
    <3> SUFFICES ASSUME doing = "grow", capacity < required PROVE Larger(capacity) > capacity
      OBVIOUS
    <3>1. capacity \in Nat /\ 1 <= capacity
      BY BufferTypes DEF GrowthInv
    <3>2. Larger(capacity) \in Nat /\ capacity < Larger(capacity)
      BY <3>1, LargerGrows
    <3> QED BY <3>1, <3>2
  <2> QED BY <2>1, BufferTypes DEF BufferFits
<1> QED BY <1>1, <1>2, GrowthStep, PTL DEF BuffersSpec

(******************************* Status names ********************************)
(* The table is sorted: what the search relies on and nothing else ensures.   *)
LEMMA TableSorted ==
  /\ N = 49 /\ \A m \in 0 .. (N - 1) : CodeAt(m) \in Int
  /\ \A m \in 0 .. (N - 1) : \A n \in m .. (N - 1) : CodeAt(m) <= CodeAt(n)
<1>1. N = 49
  BY DEF N, lws_http_status
<1>2. \A m \in 1 .. 49 : lws_http_status[m] \in Int
  BY SMTT(60) DEF lws_http_status
<1>3. \A m \in 1 .. 49 : \A n \in m .. 49 : lws_http_status[m] <= lws_http_status[n]
  BY SMTT(60) DEF lws_http_status
<1>4. ASSUME NEW m \in 0 .. (N - 1) PROVE CodeAt(m) \in Int
  BY <1>1, <1>2 DEF CodeAt
<1>5. ASSUME NEW m \in 0 .. (N - 1), NEW n \in m .. (N - 1) PROVE CodeAt(m) <= CodeAt(n)
  <2>1. m + 1 \in 1 .. 49 /\ n + 1 \in (m + 1) .. 49
    BY <1>1
  <2> QED BY <1>3, <2>1 DEF CodeAt
<1> QED BY <1>1, <1>4, <1>5

LEMMA SearchStep == SearchInv /\ [StatusNext]_statusVars => SearchInv'
<1> SUFFICES ASSUME SearchInv, [StatusNext]_statusVars PROVE SearchInv'
  OBVIOUS
<1>t. /\ code \in Int /\ lower \in Nat /\ upper \in Int /\ search \in {"busy", "found", "missing"}
      /\ lower <= upper + 1 /\ upper < N
      /\ \A m \in 0 .. (lower - 1) : CodeAt(m) < code
      /\ \A m \in (upper + 1) .. (N - 1) : CodeAt(m) >= code
  BY DEF SearchInv
<1>1. CASE Halve
  <2>1. search = "busy" /\ lower <= upper /\ UNCHANGED <<code, search>>
    BY <1>1 DEF Halve
  <2>2. Mid \in lower .. upper /\ Mid \in 0 .. (N - 1)
    BY <1>t, <2>1, TableSorted DEF Mid
  <2>3. CASE Below(Mid)
    <3>1. lower' = Mid + 1 /\ UNCHANGED upper
      BY <1>1, <2>3 DEF Halve
    <3>2. ASSUME NEW m \in 0 .. (lower' - 1) PROVE CodeAt(m) < code
      <4>1. m \in 0 .. (N - 1) /\ Mid \in m .. (N - 1)
        BY <1>t, <2>2, <3>1, TableSorted
      <4>2. CodeAt(m) <= CodeAt(Mid) /\ CodeAt(m) \in Int /\ CodeAt(Mid) \in Int
        BY <4>1, TableSorted
      <4>3. CodeAt(Mid) < code
        BY <2>3 DEF Below
      <4> QED BY <1>t, <4>2, <4>3
    <3>3. lower' \in Nat /\ lower' <= upper + 1
      BY <1>t, <2>2, <3>1
    <3> QED BY <1>t, <2>1, <3>1, <3>2, <3>3 DEF SearchInv, N, CodeAt
  <2>4. CASE ~Below(Mid)
    <3>1. upper' = Mid - 1 /\ UNCHANGED lower
      BY <1>1, <2>4 DEF Halve
    <3>2. ASSUME NEW m \in (upper' + 1) .. (N - 1) PROVE CodeAt(m) >= code
      <4>1. Mid \in 0 .. (N - 1) /\ m \in Mid .. (N - 1) /\ m \in 0 .. (N - 1)
        BY <1>t, <2>2, <3>1, TableSorted
      <4>2. CodeAt(Mid) <= CodeAt(m) /\ CodeAt(m) \in Int /\ CodeAt(Mid) \in Int
        BY <4>1, TableSorted
      <4>3. ~(CodeAt(Mid) < code)
        BY <2>4 DEF Below
      <4> QED BY <1>t, <4>2, <4>3
    <3>3. upper' \in Int /\ lower <= upper' + 1 /\ upper' < N
      BY <1>t, <2>2, <3>1, TableSorted
    <3> QED BY <1>t, <2>1, <3>1, <3>2, <3>3 DEF SearchInv, N, CodeAt
  <2> QED BY <2>3, <2>4
<1>2. CASE EndSearch
  <2>1. /\ lower > upper /\ UNCHANGED <<code, lower, upper>>
        /\ search' = IF lower < N /\ CodeAt(lower) = code THEN "found" ELSE "missing"
    BY <1>2 DEF EndSearch
  <2>2. search' = "missing" => lower = N \/ CodeAt(lower) # code
    <3>1. lower <= N
      BY <1>t, TableSorted
    <3> QED BY <1>t, <2>1, <3>1, TableSorted
  <2> QED BY <1>t, <2>1, <2>2 DEF SearchInv, N, CodeAt
<1>3. CASE UNCHANGED statusVars
  BY <1>3 DEF statusVars, SearchInv, N, CodeAt
<1> QED BY <1>1, <1>2, <1>3 DEF StatusNext

(* The search stays within the table, and finds every code the table has, in  *)
(* its first entry.                                                           *)
THEOREM StatusNamesAreFound == StatusSpec => []StatusFound
<1>1. StatusInit => SearchInv
  <2> SUFFICES ASSUME StatusInit PROVE SearchInv
    OBVIOUS
  <2>1. code \in Int /\ lower = 0 /\ upper = N - 1 /\ search = "busy"
    BY CodesAssumption DEF StatusInit, StatusStart
  <2> QED BY <2>1, TableSorted DEF SearchInv
<1>2. SearchInv => StatusFound
  <2> SUFFICES ASSUME SearchInv PROVE StatusFound
    OBVIOUS
  <2>t. /\ code \in Int /\ lower \in Nat /\ upper \in Int /\ lower <= upper + 1 /\ upper < N
        /\ \A m \in 0 .. (lower - 1) : CodeAt(m) < code
        /\ \A m \in (upper + 1) .. (N - 1) : CodeAt(m) >= code
        /\ search # "busy" => lower > upper
        /\ search = "found" => lower < N /\ CodeAt(lower) = code
        /\ search = "missing" => lower = N \/ CodeAt(lower) # code
    BY DEF SearchInv
  <2>1. ASSUME search = "missing", NEW m \in 0 .. (N - 1) PROVE CodeAt(m) # code
    <3>1. CASE m < lower
      <4>1. m \in 0 .. (lower - 1)
        BY <2>t, <3>1
      <4>2. CodeAt(m) < code /\ CodeAt(m) \in Int
        BY <2>t, <4>1, TableSorted
      <4> QED BY <2>t, <4>2
    <3>2. CASE lower <= m
      <4>1. lower \in (upper + 1) .. (N - 1) /\ lower \in 0 .. (N - 1) /\ m \in lower .. (N - 1)
        BY <2>t, <2>1, <3>2, TableSorted
      <4>2. CodeAt(lower) >= code /\ CodeAt(lower) # code
        BY <2>t, <2>1, <4>1
      <4>3. CodeAt(lower) <= CodeAt(m) /\ CodeAt(m) \in Int /\ CodeAt(lower) \in Int
        BY <4>1, TableSorted
      <4> QED BY <2>t, <4>2, <4>3
    <3> QED BY <2>t, <3>1, <3>2
  <2> QED BY <2>t, <2>1 DEF StatusFound
<1> QED BY <1>1, <1>2, SearchStep, PTL DEF StatusSpec

(******************************* URL unescaping ******************************)
LEMMA OneElement == ASSUME NEW S, NEW e \in S PROVE <<e>> \in Seq(S) /\ Len(<<e>>) = 1
OBVIOUS

LEMMA TwoElements == ASSUME NEW S, NEW c \in S, NEW d \in S PROVE <<c, d>> \in Seq(S)
OBVIOUS

LEMMA Characters == "%" \in Character /\ " " \in Character /\ "" \in Character
BY DEF Character

LEMMA UnescapeStep == UnescapeInv /\ [ArgsNext]_argsVars => UnescapeInv'
<1> SUFFICES ASSUME UnescapeInv, [ArgsNext]_argsVars PROVE UnescapeInv'
  OBVIOUS
<1>t. /\ args \in Seq(Character) /\ mode \in {"scan", "unescape", "store", "done"}
      /\ out \in Seq(Seq(Character)) /\ digit \in Character /\ Len(args) \in Nat /\ Len(out) \in Nat
      /\ start \in Nat /\ 1 <= start /\ pos \in Nat /\ start <= pos /\ pos <= Len(args) + 1
  BY DEF UnescapeInv
<1>u. mode = "unescape" =>
        s \in Nat /\ start <= s /\ s <= pos /\ expect \in 0 .. 2 /\ Len(out) + expect <= s - start
  BY <1>t DEF UnescapeInv
<1>c. Unescaping => args[s] \in Character
  <2> SUFFICES ASSUME Unescaping PROVE args[s] \in Character
    OBVIOUS
  <2>1. s \in 1 .. Len(args)
    BY <1>t, <1>u DEF Unescaping
  <2> QED BY <1>t, <2>1, ElementOfSeq
<1>a. ASSUME NEW e \in Seq(Character)
      PROVE  Append(out, e) \in Seq(Seq(Character)) /\ Len(Append(out, e)) = Len(out) + 1
  BY <1>t, AppendProperties
<1>l. ASSUME NEW c PROVE out \o Literal(c) \in Seq(Seq(Character)) /\ Len(out \o Literal(c)) = Len(out) + 1
  <2>1. <<"%">> \in Seq(Character)
    BY OneElement, Characters
  <2>2. <<<<"%">>>> \in Seq(Seq(Character)) /\ Len(<<<<"%">>>>) = 1
    BY <2>1, OneElement
  <2>3. Literal(c) \in Seq(Seq(Character)) /\ Len(Literal(c)) = 1
    BY <2>2 DEF Literal
  <2>4. out \in Seq(Seq(Character))
    BY <1>t
  <2>5. /\ out \o Literal(c) \in Seq(Seq(Character))
        /\ Len(out \o Literal(c)) = Len(out) + Len(Literal(c))
    BY <2>3, <2>4, ConcatProperties
  <2> QED BY <2>3, <2>5
<1>1. CASE Scan
  <2>1. UNCHANGED <<args, start, digit>>
    BY <1>1 DEF Scan
  <2>2. CASE Ends(pos)
    <3>1. mode' = "unescape" /\ s' = start /\ expect' = 0 /\ out' = <<>> /\ UNCHANGED pos
      BY <1>1, <2>2 DEF Scan
    <3>2. out' \in Seq(Seq(Character)) /\ Len(out') = 0
      BY <3>1
    <3> QED BY <1>t, <2>1, <3>1, <3>2 DEF UnescapeInv
  <2>3. CASE ~Ends(pos)
    <3>1. mode = "scan" /\ mode' = mode /\ out' = out /\ pos' = pos + 1
      BY <1>1, <2>3 DEF Scan
    <3>2. pos <= Len(args)
      BY <1>t, <2>3 DEF Ends
    <3>3. pos' \in start .. (Len(args) + 1)
      BY <1>t, <3>1, <3>2
    <3> QED BY <1>t, <2>1, <3>1, <3>3 DEF UnescapeInv
  <2> QED BY <2>2, <2>3
<1>2. CASE Plain
  <2>1. /\ mode = "unescape" /\ s < pos /\ expect = 0 /\ s' = s + 1
        /\ UNCHANGED <<args, mode, start, pos, digit>>
    BY <1>2 DEF Plain, Unescaping
  <2> DEFINE e == <<IF args[s] = "+" THEN " " ELSE args[s]>>
  <2>2. \/ expect' = 1 /\ out' = out
        \/ expect' = 0 /\ out' = Append(out, e)
    BY <1>2, <2>1 DEF Plain
  <2>3. e \in Seq(Character)
    <3>1. args[s] \in Character
      BY <1>c, <2>1 DEF Unescaping
    <3>2. (IF args[s] = "+" THEN " " ELSE args[s]) \in Character
      BY <3>1, Characters
    <3> QED BY <3>2, OneElement
  <2> HIDE DEF e
  <2>4. /\ out' \in Seq(Seq(Character)) /\ Len(out') \in Nat /\ expect' \in 0 .. 2
        /\ Len(out') + expect' = Len(out) + 1
    <3>1. CASE expect' = 1 /\ out' = out
      BY <1>t, <3>1
    <3>2. CASE expect' = 0 /\ out' = Append(out, e)
      <4>1. out' \in Seq(Seq(Character)) /\ Len(out') = Len(out) + 1
        BY <1>a, <2>3, <3>2
      <4> QED BY <1>t, <3>2, <4>1
    <3> QED BY <2>2, <3>1, <3>2
  <2>5. Len(out') + expect' <= s' - start /\ s' \in start .. pos
    <3>1. Len(out) <= s - start /\ s \in start .. pos /\ start \in Nat /\ pos \in Nat
      BY <1>t, <1>u, <2>1
    <3>2. Len(out) \in Nat
      BY <1>t
    <3> QED BY <2>1, <2>4, <3>1, <3>2
  <2> QED BY <1>t, <2>1, <2>4, <2>5 DEF UnescapeInv
<1>3. CASE FirstDigit
  <2>1. /\ mode = "unescape" /\ s < pos /\ expect = 1
        /\ UNCHANGED <<args, mode, start, pos>>
    BY <1>3 DEF FirstDigit, Unescaping
  <2>2. \/ expect' = 2 /\ digit' = args[s] /\ s' = s + 1 /\ out' = out
        \/ expect' = 0 /\ out' = out \o Literal(args[s]) /\ s' = s /\ digit' = digit
    BY <1>3 DEF FirstDigit
  <2>3. digit' \in Character
    BY <1>c, <1>t, <2>1, <2>2 DEF Unescaping
  <2>4. CASE expect' = 2 /\ s' = s + 1 /\ out' = out
    <3>1. Len(out') + expect' <= s' - start /\ s' \in start .. pos
      BY <1>t, <1>u, <2>1, <2>4
    <3> QED BY <1>t, <2>1, <2>3, <2>4, <3>1 DEF UnescapeInv
  <2>5. CASE expect' = 0 /\ out' = out \o Literal(args[s]) /\ s' = s
    <3>1. out' \in Seq(Seq(Character)) /\ Len(out') = Len(out) + 1
      BY <1>l, <2>5
    <3>2. Len(out') + expect' <= s' - start /\ s' \in start .. pos
      BY <1>t, <1>u, <2>1, <2>5, <3>1
    <3> QED BY <1>t, <2>1, <2>3, <2>5, <3>1, <3>2 DEF UnescapeInv
  <2> QED BY <2>2, <2>4, <2>5
<1>4. CASE SecondDigit
  <2>1. /\ mode = "unescape" /\ s < pos /\ expect = 2 /\ expect' = 0
        /\ UNCHANGED <<args, mode, start, pos, digit>>
    BY <1>4 DEF SecondDigit, Unescaping
  <2>2. \/ s' = s + 1 /\ out' = Append(out, <<digit, args[s]>>)
        \/ s' = s - 1 /\ out' = out \o Literal(args[s])
    BY <1>4 DEF SecondDigit, Back
  <2>3. <<digit, args[s]>> \in Seq(Character)
    <3>1. args[s] \in Character /\ digit \in Character
      BY <1>c, <1>t, <2>1 DEF Unescaping
    <3> QED BY <3>1, TwoElements
  <2>4. out' \in Seq(Seq(Character)) /\ Len(out') = Len(out) + 1
    BY <1>a, <1>l, <2>2, <2>3
  <2>5. Len(out') + expect' <= s' - start /\ s' \in start .. pos
    <3>1. Len(out) + 2 <= s - start /\ s \in start .. pos /\ start \in Nat /\ pos \in Nat
      BY <1>t, <1>u, <2>1
    <3>2. s' \in {s - 1, s + 1} /\ Len(out') = Len(out) + 1 /\ expect' = 0 /\ Len(out) \in Nat
      BY <1>t, <2>1, <2>2, <2>4
    <3> QED BY <2>1, <3>1, <3>2
  <2> QED BY <1>t, <2>1, <2>4, <2>5 DEF UnescapeInv
<1>5. CASE Unescaped
  BY <1>5 DEF Unescaped, UnescapeInv
<1>6. CASE Store
  <2>1. UNCHANGED <<args, digit, out>> /\ mode = "store" /\ mode' \in {"done", "scan"}
    BY <1>6 DEF Store
  <2>2. start' \in Nat \ {0} /\ pos' \in start' .. (Len(args) + 1)
    <3>1. CASE pos > Len(args)
      <4>1. UNCHANGED <<start, pos>>
        BY <1>6, <3>1 DEF Store
      <4> QED BY <1>t, <4>1
    <3>2. CASE ~(pos > Len(args))
      <4>1. start' = pos + 1 /\ pos' = pos + 1
        BY <1>6, <3>2 DEF Store
      <4> QED BY <1>t, <3>2, <4>1
    <3> QED BY <3>1, <3>2
  <2> QED BY <1>t, <2>1, <2>2 DEF UnescapeInv
<1>7. CASE UNCHANGED argsVars
  BY <1>7 DEF argsVars, UnescapeInv
<1> QED BY <1>1, <1>2, <1>3, <1>4, <1>5, <1>6, <1>7 DEF ArgsNext

(* lws_unescape_url never puts out more than it has read, so the buffer of    *)
(* the length of the field holds what it writes, whatever the query string.   *)
THEOREM UnescapingStaysInBuffer == ArgsSpec => []UnescapeFits
<1>1. ArgsInit => UnescapeInv
  <2> SUFFICES ASSUME ArgsInit PROVE UnescapeInv
    OBVIOUS
  <2>1. args \in Seq(Character) /\ mode \in {"done", "scan"}
    <3>1. args \in Seq(STRING) /\ STRING \subseteq Character
      BY StringsAssumption DEF ArgsInit, Character
    <3>2. args \in Seq(Character)
      BY <3>1, SeqMonotonic
    <3> QED BY <3>2 DEF ArgsInit
  <2>2. Len(args) \in Nat
    BY <2>1
  <2>3. digit = "" /\ out = <<>>
    BY DEF ArgsInit, Quiet
  <2>4. 1 \in 1 .. (Len(args) + 1)
    BY <2>2
  <2>5. pos \in start .. (Len(args) + 1) /\ start \in Nat \ {0}
    <3>1. start = 1 /\ pos = 1
      BY DEF ArgsInit, Quiet
    <3>2. pos \in start .. (Len(args) + 1)
      BY <2>4, <3>1
    <3>3. start \in Nat \ {0}
      BY <3>1
    <3> QED BY <3>2, <3>3
  <2>6. digit \in Character /\ out \in Seq(Seq(Character))
    BY <2>3, Characters, EmptySeq
  <2>7. mode # "unescape" /\ mode \in {"scan", "unescape", "store", "done"}
    BY <2>1
  <2> QED BY <2>1, <2>5, <2>6, <2>7 DEF UnescapeInv
<1>2. UnescapeInv => UnescapeFits
  BY DEF UnescapeInv, UnescapeFits
<1> QED BY <1>1, <1>2, UnescapeStep, PTL DEF ArgsSpec

(******************************* Cookies *************************************)
LEMMA SeparatorProperties ==
  /\ Separator \in Seq(CookieCharacter) /\ Len(Separator) = 2 /\ <<>> \in Seq(CookieCharacter)
<1>1. "," \in CookieCharacter /\ " " \in CookieCharacter
  BY DEF CookieCharacter
<1>2. Separator \in Seq(CookieCharacter)
  BY <1>1, TwoElements DEF Separator
<1> QED BY <1>2, EmptySeq DEF Separator

(* The totals after one more cookie.                                          *)
LEMMA TotalsExtend ==
  ASSUME NEW list \in Seq(Seq(CookieCharacter)), NEW k \in 1 .. Len(list),
         NEW f \in [0 .. Len(list) -> Nat], NEW g \in [0 .. Len(list) -> Nat],
         Totals(list, f, g, k - 1)
  PROVE  \E h, c \in [0 .. Len(list) -> Nat] :
           Totals(list, h, c, k) /\ h[k - 1] = f[k - 1] /\ c[k - 1] = g[k - 1]
<1> DEFINE t == f[k - 1] + Len(list[k]) + (IF g[k - 1] > 0 THEN Len(Separator) ELSE 0)
           h == [f EXCEPT ![k] = IF list[k] = <<>> THEN f[k - 1] ELSE t]
           c == [g EXCEPT ![k] = IF list[k] = <<>> THEN g[k - 1] ELSE g[k - 1] + 1]
<1>l. Len(list) \in Nat /\ k \in Nat /\ k - 1 \in 0 .. Len(list) /\ k \in 0 .. Len(list)
  OBVIOUS
<1>f. /\ f \in [0 .. Len(list) -> Nat] /\ g \in [0 .. Len(list) -> Nat] /\ f[0] = 0 /\ g[0] = 0
      /\ \A n \in 1 .. (k - 1) :
           /\ list[n] = <<>> => f[n] = f[n - 1] /\ g[n] = g[n - 1]
           /\ list[n] # <<>> =>
                /\ f[n] = f[n - 1] + Len(list[n]) + (IF g[n - 1] > 0 THEN Len(Separator) ELSE 0)
                /\ g[n] = g[n - 1] + 1
      /\ \A n \in 0 .. (k - 1) : \A m \in 0 .. n : f[m] <= f[n]
  BY DEF Totals
<1>1. f[k - 1] \in Nat /\ g[k - 1] \in Nat
  BY <1>f, <1>l
<1>2. Len(list[k]) \in Nat
  <2>1. list[k] \in Seq(CookieCharacter)
    BY ElementOfSeq
  <2> QED BY <2>1
<1>3. t \in Nat /\ f[k - 1] <= t
  BY <1>1, <1>2, SeparatorProperties
<1> HIDE DEF t
<1>4. h \in [0 .. Len(list) -> Nat] /\ c \in [0 .. Len(list) -> Nat]
  BY <1>1, <1>3, <1>f
<1>5. h[k] = (IF list[k] = <<>> THEN f[k - 1] ELSE t) /\ f[k - 1] <= h[k]
      /\ c[k] = IF list[k] = <<>> THEN g[k - 1] ELSE g[k - 1] + 1
  BY <1>1, <1>3, <1>f, <1>l
<1>6. \A n \in 0 .. (k - 1) : h[n] = f[n] /\ c[n] = g[n]
  BY <1>f, <1>l
<1> HIDE DEF h, c
<1>7. ASSUME NEW n \in 1 .. k
      PROVE  /\ list[n] = <<>> => h[n] = h[n - 1] /\ c[n] = c[n - 1]
             /\ list[n] # <<>> =>
                  /\ h[n] = h[n - 1] + Len(list[n]) + (IF c[n - 1] > 0 THEN Len(Separator) ELSE 0)
                  /\ c[n] = c[n - 1] + 1
  <2>1. h[n - 1] = f[n - 1] /\ c[n - 1] = g[n - 1]
    <3>1. n - 1 \in 0 .. (k - 1)
      BY <1>l
    <3> QED BY <1>6, <3>1
  <2>2. CASE n = k
    BY <1>5, <2>1, <2>2 DEF t
  <2>3. CASE n # k
    <3>1. n \in 1 .. (k - 1) /\ n \in 0 .. (k - 1)
      BY <1>l, <2>3
    <3>2. h[n] = f[n] /\ c[n] = g[n]
      BY <1>6, <3>1
    <3> QED BY <1>f, <2>1, <3>1, <3>2
  <2> QED BY <2>2, <2>3
<1>8. ASSUME NEW n \in 0 .. k, NEW m \in 0 .. n PROVE h[m] <= h[n]
  <2>1. CASE n = k /\ m = k
    <3>1. h[k] \in Nat
      BY <1>4, <1>l
    <3> QED BY <2>1, <3>1
  <2>2. CASE n = k /\ m # k
    <3>1. m \in 0 .. (k - 1) /\ k - 1 \in 0 .. (k - 1)
      BY <1>l, <2>2
    <3>2. h[m] = f[m] /\ f[m] <= f[k - 1]
      BY <1>6, <1>f, <3>1
    <3>3. m \in 0 .. Len(list)
      BY <1>l, <3>1
    <3>4. f[m] \in Nat /\ h[k] \in Nat
      BY <1>4, <1>f, <1>l, <3>3
    <3> QED BY <1>1, <1>5, <2>2, <3>2, <3>4
  <2>3. CASE n # k
    <3>1. n \in 0 .. (k - 1) /\ m \in 0 .. (k - 1)
      BY <1>l, <2>3
    <3> QED BY <1>6, <1>f, <3>1
  <2> QED BY <2>1, <2>2, <2>3
<1>9. h[0] = 0 /\ c[0] = 0
  <2>1. 0 \in 0 .. (k - 1)
    BY <1>l
  <2> QED BY <1>6, <1>f, <2>1
<1>10. Totals(list, h, c, k)
  BY <1>4, <1>7, <1>8, <1>9 DEF Totals
<1>11. h[k - 1] = f[k - 1] /\ c[k - 1] = g[k - 1]
  <2>1. k - 1 \in 0 .. (k - 1)
    BY <1>l
  <2> QED BY <1>6, <2>1
<1> QED BY <1>4, <1>10, <1>11

LEMMA PassesStep == FitInv /\ [CookiesNext]_cookieVars => FitInv'
<1> SUFFICES ASSUME FitInv, [CookiesNext]_cookieVars PROVE FitInv'
  OBVIOUS
<1> PICK f \in [0 .. Len(cookies) -> Nat], g \in [0 .. Len(cookies) -> Nat] : PassesInv(f, g)
  BY DEF FitInv
<1>t. /\ cookies \in Seq(Seq(CookieCharacter)) /\ value \in Seq(CookieCharacter)
      /\ phase \in {"measure", "write", "split", "out"}
      /\ Len(cookies) \in Nat /\ idx \in 1 .. (Len(cookies) + 1)
      /\ cookie_total_len \in Nat /\ cookie_count \in Nat
  BY DEF PassesInv
<1>m. phase = "measure" => /\ value = <<>> /\ Totals(cookies, f, g, idx - 1)
                           /\ cookie_total_len = f[idx - 1] /\ cookie_count = g[idx - 1]
  BY DEF PassesInv
<1>w. phase = "write" => /\ Totals(cookies, f, g, Len(cookies))
                         /\ cookie_total_len = f[Len(cookies)]
                         /\ Len(value) = f[idx - 1] /\ cookie_count = g[idx - 1]
  BY DEF PassesInv
<1>f. ASSUME NEW n, Totals(cookies, f, g, n)
      PROVE  f[0] = 0 /\ g[0] = 0
  BY <1>f DEF Totals
<1>1. CASE MeasureCookie
  <2>1. /\ phase = "measure" /\ idx <= Len(cookies) /\ idx' = idx + 1
        /\ UNCHANGED <<cookies, phase, value>>
    BY <1>1 DEF MeasureCookie
  <2>2. idx \in 1 .. Len(cookies) /\ idx' - 1 = idx
    BY <1>t, <2>1
  <2>3. Totals(cookies, f, g, idx - 1)
    BY <1>m, <2>1
  <2> PICK h, c \in [0 .. Len(cookies) -> Nat] :
        Totals(cookies, h, c, idx) /\ h[idx - 1] = f[idx - 1] /\ c[idx - 1] = g[idx - 1]
    <3>1. cookies \in Seq(Seq(CookieCharacter))
      BY <1>t
    <3>2. idx \in 1 .. Len(cookies)
      BY <2>2
    <3> QED BY <2>3, <3>1, <3>2, ZenonT(40), TotalsExtend
  <2>4. /\ cookies[idx] = <<>> => h[idx] = h[idx - 1] /\ c[idx] = c[idx - 1]
        /\ cookies[idx] # <<>> =>
             /\ h[idx] = h[idx - 1] + Len(cookies[idx]) + (IF c[idx - 1] > 0 THEN Len(Separator) ELSE 0)
             /\ c[idx] = c[idx - 1] + 1
    <3>1. idx \in 1 .. idx
      BY <2>2
    <3> QED BY <3>1 DEF Totals
  <2>5. cookie_total_len = h[idx - 1] /\ cookie_count = c[idx - 1]
    BY <1>m, <2>1
  <2>6. cookie_total_len' = h[idx] /\ cookie_count' = c[idx]
    BY <1>1, <2>4, <2>5 DEF MeasureCookie, Cookie, SeparatorLen
  <2>7. idx \in 0 .. Len(cookies)
    BY <2>2
  <2>8. cookie_total_len' \in Nat /\ cookie_count' \in Nat /\ idx' \in 1 .. (Len(cookies) + 1)
    <3>1. h[idx] \in Nat /\ c[idx] \in Nat
      BY <2>7
    <3>2. idx' \in 1 .. (Len(cookies) + 1)
      BY <1>t, <2>1, <2>2
    <3> QED BY <2>6, <3>1, <3>2
  <2>9. PassesInv(h, c)'
    BY <1>m, <1>t, <2>1, <2>2, <2>6, <2>8 DEF PassesInv
  <2> QED BY <2>1, <2>9 DEF FitInv
<1>2. CASE CookiesMeasured
  <2>1. /\ phase = "measure" /\ idx > Len(cookies) /\ idx' = 1 /\ cookie_count' = 0
        /\ phase' = (IF cookie_count > 0 THEN "write" ELSE "out")
        /\ UNCHANGED <<cookies, value, cookie_total_len>>
    BY <1>2 DEF CookiesMeasured
  <2>2. idx - 1 = Len(cookies) /\ idx' - 1 = 0
    BY <1>t, <2>1
  <2>3. /\ value = <<>> /\ Totals(cookies, f, g, Len(cookies))
        /\ cookie_total_len = f[Len(cookies)]
    BY <1>m, <2>1, <2>2
  <2>4. Len(value) = 0 /\ f[0] = 0 /\ g[0] = 0
    BY <1>f, <2>3
  <2>5. PassesInv(f, g)'
    BY <1>t, <2>1, <2>2, <2>3, <2>4 DEF PassesInv
  <2> QED BY <2>1, <2>5 DEF FitInv
<1>3. CASE WriteCookie
  <2>1. /\ phase = "write" /\ idx <= Len(cookies) /\ idx' = idx + 1
        /\ UNCHANGED <<cookies, phase, cookie_total_len>>
        /\ IF cookies[idx] = <<>> THEN UNCHANGED <<value, cookie_count>>
           ELSE /\ value' = value \o (IF cookie_count > 0 THEN Separator ELSE <<>>) \o cookies[idx]
                /\ cookie_count' = cookie_count + 1
    BY <1>3 DEF WriteCookie, Cookie
  <2>2. idx \in 1 .. Len(cookies) /\ idx' - 1 = idx /\ idx' \in 1 .. (Len(cookies) + 1)
    BY <1>t, <2>1
  <2>3. /\ Totals(cookies, f, g, Len(cookies)) /\ cookie_total_len = f[Len(cookies)]
        /\ Len(value) = f[idx - 1] /\ cookie_count = g[idx - 1]
    BY <1>w, <2>1
  <2>4. /\ cookies[idx] = <<>> => f[idx] = f[idx - 1] /\ g[idx] = g[idx - 1]
        /\ cookies[idx] # <<>> =>
             /\ f[idx] = f[idx - 1] + Len(cookies[idx]) + (IF g[idx - 1] > 0 THEN Len(Separator) ELSE 0)
             /\ g[idx] = g[idx - 1] + 1
    BY <2>2, <2>3 DEF Totals
  <2>5. CASE cookies[idx] = <<>>
    <3>1. value' = value /\ cookie_count' = cookie_count
      BY <2>1, <2>5
    <3>2. Len(value') = f[idx' - 1] /\ cookie_count' = g[idx' - 1]
      BY <2>2, <2>3, <2>4, <2>5, <3>1
    <3>3. PassesInv(f, g)'
      BY <1>t, <2>1, <2>2, <2>3, <3>1, <3>2 DEF PassesInv
    <3> QED BY <2>1, <3>3 DEF FitInv
  <2>6. CASE cookies[idx] # <<>>
    <3> DEFINE between == IF cookie_count > 0 THEN Separator ELSE <<>>
    <3>1. value' = value \o between \o cookies[idx] /\ cookie_count' = cookie_count + 1
      BY <2>1, <2>6
    <3>2. /\ between \in Seq(CookieCharacter)
          /\ Len(between) = IF cookie_count > 0 THEN Len(Separator) ELSE 0
      BY SeparatorProperties
    <3> HIDE DEF between
    <3>3. cookies[idx] \in Seq(CookieCharacter)
      BY <1>t, <2>2, ElementOfSeq
    <3>4. /\ value \o between \in Seq(CookieCharacter)
          /\ Len(value \o between) = Len(value) + Len(between)
      <4>1. value \in Seq(CookieCharacter)
        BY <1>t
      <4> QED BY <3>2, <4>1, ConcatProperties
    <3>5. value' \in Seq(CookieCharacter) /\ Len(value') = Len(value \o between) + Len(cookies[idx])
      BY <3>1, <3>3, <3>4, ConcatProperties
    <3>6. Len(value) \in Nat /\ Len(between) \in Nat /\ Len(cookies[idx]) \in Nat
      <4>1. value \in Seq(CookieCharacter)
        BY <1>t
      <4> QED BY <3>2, <3>3, <4>1
    <3>7. Len(value') = f[idx' - 1]
      <4>1. f[idx] = f[idx - 1] + Len(cookies[idx]) + Len(between)
        BY <2>3, <2>4, <2>6, <3>2
      <4>2. Len(value') = Len(value) + Len(between) + Len(cookies[idx])
        BY <3>4, <3>5
      <4>3. f[idx' - 1] = f[idx]
        BY <2>2
      <4>4. Len(value) = f[idx - 1]
        BY <2>3
      <4> QED BY <3>6, <4>1, <4>2, <4>3, <4>4
    <3>8. cookie_count' = g[idx' - 1] /\ cookie_count' \in Nat
      <4>1. cookie_count' = g[idx]
        BY <2>3, <2>4, <2>6, <3>1
      <4>2. g[idx' - 1] = g[idx]
        BY <2>2
      <4>3. cookie_count' \in Nat
        BY <1>t, <3>1
      <4> QED BY <4>1, <4>2, <4>3
    <3>9. PassesInv(f, g)'
      BY <1>t, <2>1, <2>2, <2>3, <3>5, <3>7, <3>8 DEF PassesInv
    <3> QED BY <2>1, <3>9 DEF FitInv
  <2> QED BY <2>5, <2>6
<1>4. CASE SendBack
  <2>1. /\ phase = "write" /\ phase' = "split" /\ idx > Len(cookies)
        /\ UNCHANGED <<cookies, idx, cookie_total_len, cookie_count, value>>
    BY <1>4 DEF SendBack
  <2>2. idx - 1 = Len(cookies)
    BY <1>t, <2>1
  <2>3. Len(value) = cookie_total_len
    BY <1>w, <2>1, <2>2
  <2>4. PassesInv(f, g)'
    BY <1>t, <2>1, <2>3 DEF PassesInv
  <2> QED BY <2>1, <2>4 DEF FitInv
<1>5. CASE SplitCookie \/ CookiesSplit
  <2>1. /\ phase = "split" /\ phase' \in {"split", "out"}
        /\ UNCHANGED <<cookies, idx, cookie_total_len, cookie_count, value>>
    BY <1>5 DEF SplitCookie, CookiesSplit
  <2>2. Len(value) = cookie_total_len
    BY <2>1 DEF PassesInv
  <2>3. PassesInv(f, g)'
    BY <1>t, <2>1, <2>2 DEF PassesInv
  <2> QED BY <2>1, <2>3 DEF FitInv
<1>6. CASE UNCHANGED cookieVars
  <2>1. UNCHANGED <<cookies, phase, idx, cookie_total_len, cookie_count, value>>
    BY <1>6 DEF cookieVars
  <2>2. PassesInv(f, g)'
    BY <2>1 DEF PassesInv
  <2> QED BY <2>1, <2>2 DEF FitInv
<1> QED BY <1>1, <1>2, <1>3, <1>4, <1>5, <1>6 DEF CookiesNext

(* The header that lws_get_next_invocation writes in its second pass fits the *)
(* memory that the first pass measured, and fills it, whatever the cookies.   *)
THEOREM CookieHeaderFits == CookiesSpec => []CookiesFit
<1>1. CookiesInit => FitInv
  <2> SUFFICES ASSUME CookiesInit PROVE FitInv
    OBVIOUS
  <2>1. /\ phase = "measure" /\ idx = 1 /\ cookie_total_len = 0 /\ cookie_count = 0 /\ value = <<>>
        /\ cookies \in CookieLists
    BY DEF CookiesInit, CookiesStart
  <2>2. cookies \in Seq(Seq(CookieCharacter))
    <3>1. STRING \subseteq CookieCharacter
      BY DEF CookieCharacter
    <3>2. Seq(STRING) \subseteq Seq(CookieCharacter)
      BY <3>1, SeqMonotonic
    <3>3. cookies \in Seq(Seq(STRING))
      BY <2>1, CookiesAssumption
    <3> QED BY <3>2, <3>3, SeqMonotonic
  <2>3. Len(cookies) \in Nat /\ 0 \in 0 .. Len(cookies) /\ 1 \in 1 .. (Len(cookies) + 1)
    BY <2>2
  <2> DEFINE f == [n \in 0 .. Len(cookies) |-> 0]
  <2>4. f \in [0 .. Len(cookies) -> Nat] /\ f[0] = 0
    BY <2>3
  <2>5. Totals(cookies, f, f, 0)
    BY <2>4 DEF Totals
  <2> HIDE DEF f
  <2>6. idx - 1 = 0
    BY <2>1
  <2>7. PassesInv(f, f)
    BY <2>1, <2>2, <2>3, <2>4, <2>5, <2>6, SeparatorProperties DEF PassesInv
  <2> QED BY <2>4, <2>7 DEF FitInv
<1>2. FitInv => CookiesFit
  <2> SUFFICES ASSUME FitInv PROVE CookiesFit
    OBVIOUS
  <2> PICK f \in [0 .. Len(cookies) -> Nat], g \in [0 .. Len(cookies) -> Nat] : PassesInv(f, g)
    BY DEF FitInv
  <2>t. /\ value \in Seq(CookieCharacter) /\ phase \in {"measure", "write", "split", "out"}
        /\ Len(cookies) \in Nat /\ idx \in 1 .. (Len(cookies) + 1) /\ cookie_total_len \in Nat
        /\ Len(value) \in Nat
    BY DEF PassesInv
  <2>1. CASE phase = "measure"
    <3>1. Len(value) = 0
      BY <2>1 DEF PassesInv
    <3> QED BY <2>1, <2>t, <3>1 DEF CookiesFit
  <2>2. CASE phase = "write"
    <3>1. Totals(cookies, f, g, Len(cookies)) /\ cookie_total_len = f[Len(cookies)]
          /\ Len(value) = f[idx - 1]
      BY <2>2 DEF PassesInv
    <3>2. idx - 1 \in 0 .. Len(cookies) /\ Len(cookies) \in 0 .. Len(cookies)
      BY <2>t
    <3>3. f[idx - 1] <= f[Len(cookies)]
      BY <3>1, <3>2 DEF Totals
    <3> QED BY <2>2, <3>1, <3>3 DEF CookiesFit
  <2>3. CASE phase \in {"split", "out"}
    BY <2>3, <2>t DEF PassesInv, CookiesFit
  <2> QED BY <2>1, <2>2, <2>3, <2>t
<1> QED BY <1>1, <1>2, PassesStep, PTL DEF CookiesSpec
===============================================================================
