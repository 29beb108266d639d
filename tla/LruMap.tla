------------------------------- MODULE LruMap --------------------------------
(* What lws_table promises its callers: a map whose entries are kept in the   *)
(* order of their insertion or, when it is capped, from the least to the most *)
(* recently used one, which is the one a full capped map keeps longest.       *)
(* Table.tla is shown to implement this specification.                        *)
EXTENDS Integers, SequencesExt

CONSTANTS Keys, Values, None
CONSTANT Caps

VARIABLES
  content,   \* sequence of [key, value], each key at most once
  cap,       \* the most entries it may hold; 0: not capped
  used       \* in a capped map, the key last found or set

vars == <<content, cap, used>>

Init == content = <<>> /\ cap \in Caps /\ used = None

IndexOf(k) == SelectInSeq(content, LAMBDA e : e.key = k)
Has(k) == IndexOf(k) # 0
Lookup(k) == IF Has(k) THEN content[IndexOf(k)].value ELSE None
Full == cap > 0 /\ Len(content) = cap

Uses(k) == used' = IF cap > 0 THEN k ELSE None

(* The content after a use of entry i, with value v.                          *)
Used(i, v) ==
  LET e == [content[i] EXCEPT !.value = v]
  IN  IF cap > 0 THEN Append(RemoveAt(content, i), e) ELSE ReplaceAt(content, i, e)

Get(k) == Has(k) /\ Uses(k) /\ content' = Used(IndexOf(k), Lookup(k))

Evicted == IF Full THEN Tail(content) ELSE content

Set(k, v) ==
  /\ Uses(k)
  /\ content' = IF Has(k) THEN Used(IndexOf(k), v) ELSE Append(Evicted, [key |-> k, value |-> v])

(* Out of memory: no entry is added, although one may have been evicted.      *)
SetFails(k) == ~Has(k) /\ content' = Evicted /\ UNCHANGED used

Clear == content' = <<>> /\ UNCHANGED used

Next ==
  /\ UNCHANGED cap
  /\ \/ \E k \in Keys : Get(k) \/ SetFails(k) \/ \E v \in Values : Set(k, v)
     \/ Clear

Spec == Init /\ [][Next]_vars
===============================================================================
