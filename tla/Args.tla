--------------------------------- MODULE Args ---------------------------------
(* lws_parseargs of lws_lib.c, with the URL unescaping it calls: it scans a   *)
(* query string up to the next '=' or '&', unescapes what it has passed into  *)
(* a buffer of as many bytes, and uses it as a key or as a value.  One step   *)
(* is one turn of a loop.  An output byte is <<c>>, a character as it came,   *)
(* or <<d, e>>, the byte of an escape.                                        *)
EXTENDS Integers, SequencesExt

CONSTANTS
  Strings,     \* the query strings to parse
  HexDigits    \* the characters that are hexadecimal digits

ASSUME StringsAssumption == Strings \subseteq Seq(STRING)
ASSUME DigitsAssumption == HexDigits \subseteq STRING \ {"%"}

VARIABLES
  args,        \* the query string
  mode,        \* "scan", "unescape", "store", "idle" or "done"
  start, pos,  \* the ends of the field: it is args[start .. pos - 1]
  s, expect,   \* lws_unescape_url: the next character, its state
  digit,       \* the first digit of an escape
  out,         \* the output buffer
  is_value,    \* state of lws_parseargs: a key waits for its value
  key,
  fields       \* the table: a set of [key, value], one per key

argsVars == <<args, mode, start, pos, s, expect, digit, out, is_value, key, fields>>

Quiet ==
  /\ start = 1 /\ pos = 1 /\ s = 1 /\ expect = 0 /\ digit = "" /\ out = <<>>
  /\ is_value = FALSE /\ key = <<>> /\ fields = {}

ArgsInit == args \in Strings /\ mode = (IF args = <<>> THEN "done" ELSE "scan") /\ Quiet
ArgsIdle == args = <<>> /\ mode = "idle" /\ Quiet

Ends(p) == p > Len(args) \/ args[p] \in {"=", "&"}

(* The scan of a field, and the buffer prepared for it.                       *)
Scan ==
  /\ mode = "scan"
  /\ IF Ends(pos) THEN mode' = "unescape" /\ s' = start /\ expect' = 0 /\ out' = <<>> /\ UNCHANGED pos
     ELSE pos' = pos + 1 /\ UNCHANGED <<mode, s, expect, out>>
  /\ UNCHANGED <<args, start, digit, is_value, key, fields>>

(* lws_unescape_url.  An escape that turns out not to be one is put out as    *)
(* it is: '%' at once, and its first digit is read again.                     *)
Unescaping == mode = "unescape" /\ s < pos

Plain ==
  /\ Unescaping /\ expect = 0
  /\ IF args[s] = "%" THEN expect' = 1 /\ UNCHANGED out
     ELSE out' = Append(out, <<IF args[s] = "+" THEN " " ELSE args[s]>>) /\ UNCHANGED expect
  /\ s' = s + 1
  /\ UNCHANGED <<args, mode, start, pos, digit, is_value, key, fields>>

MutLiteral(c) == <<<<"%">>, <<c>>>>   \* mutant: the next character is put out, too, then read again
Literal(c) == <<<<"%">>>>

FirstDigit ==
  /\ Unescaping /\ expect = 1
  /\ IF args[s] \in HexDigits THEN expect' = 2 /\ digit' = args[s] /\ s' = s + 1 /\ UNCHANGED out
     ELSE expect' = 0 /\ out' = out \o Literal(args[s]) /\ UNCHANGED <<s, digit>>
  /\ UNCHANGED <<args, mode, start, pos, is_value, key, fields>>

MutBack == s   \* mutant: the first digit is not read again
Back == s - 1

SecondDigit ==
  /\ Unescaping /\ expect = 2 /\ expect' = 0
  /\ IF args[s] \in HexDigits THEN s' = s + 1 /\ out' = Append(out, <<digit, args[s]>>)
     ELSE s' = Back /\ out' = out \o Literal(args[s])
  /\ UNCHANGED <<args, mode, start, pos, digit, is_value, key, fields>>

Unescaped ==
  /\ mode = "unescape" /\ s = pos /\ mode' = "store"
  /\ UNCHANGED <<args, start, pos, s, expect, digit, out, is_value, key, fields>>

(* A later value of a key replaces an earlier one.                            *)
With(k, v) == {f \in fields : f.key # k} \cup {[key |-> k, value |-> v]}

HasValue(p) == p <= Len(args) /\ args[p] = "="

(* The field becomes a value, a key that waits for one, a key without one, or *)
(* nothing; then the character that ended it is passed.                       *)
Store ==
  /\ mode = "store"
  /\ CASE is_value -> is_value' = FALSE /\ fields' = With(key, out) /\ UNCHANGED key
       [] ~is_value /\ HasValue(pos) -> is_value' = TRUE /\ key' = out /\ UNCHANGED fields
       [] OTHER -> /\ fields' = IF pos > start THEN With(out, <<>>) ELSE fields
                   /\ UNCHANGED <<is_value, key>>
  /\ IF pos > Len(args) THEN mode' = "done" /\ UNCHANGED <<start, pos>>
     ELSE mode' = "scan" /\ start' = pos + 1 /\ pos' = pos + 1
  /\ UNCHANGED <<args, s, expect, digit, out>>

ArgsNext == Scan \/ Plain \/ FirstDigit \/ SecondDigit \/ Unescaped \/ Store

ArgsSpec == ArgsInit /\ [][ArgsNext]_argsVars

(****************************** References ***********************************)
(* The escapes of t by position: "%" and two digits, or as much of it as the  *)
(* end of t leaves, which is dropped.  No escape begins inside another one.   *)
Escapes(t) ==
  {i \in DOMAIN t : t[i] = "%" /\ \A j \in (i + 1) .. (i + 2) : j <= Len(t) => t[j] \in HexDigits}

(* What position i of t stands for.                                           *)
Stood(t, i) ==
  CASE i \in Escapes(t) -> IF i + 2 <= Len(t) THEN <<<<t[i + 1], t[i + 2]>>>> ELSE <<>>
    [] Escapes(t) \cap {i - 1, i - 2} # {} -> <<>>
    [] OTHER -> <<<<IF t[i] = "+" THEN " " ELSE t[i]>>>>

Unescape(t) == FlattenSeq([i \in DOMAIN t |-> Stood(t, i)])

(* Where the parts between the '&' begin and end, empty ones left out.        *)
Parts(t) ==
  {p \in (DOMAIN t) \X (DOMAIN t) :
     /\ p[1] <= p[2] /\ \A j \in p[1] .. p[2] : t[j] # "&"
     /\ p[1] > 1 => t[p[1] - 1] = "&"
     /\ p[2] < Len(t) => t[p[2] + 1] = "&"}

Signs(t, p) == {j \in p[1] .. p[2] : t[j] = "="}

FieldOf(t, p) ==
  IF Signs(t, p) = {} THEN [key |-> Unescape(SubSeq(t, p[1], p[2])), value |-> <<>>]
  ELSE LET j == Min(Signs(t, p))
       IN  [key |-> Unescape(SubSeq(t, p[1], j - 1)), value |-> Unescape(SubSeq(t, j + 1, p[2]))]

(* The fields of the parts that end before n, the last one of each key.       *)
FieldsBefore(t, n) ==
  LET ended == {p \in Parts(t) : p[2] < n}
  IN  {FieldOf(t, p) : p \in {q \in ended : \A o \in ended : FieldOf(t, o).key = FieldOf(t, q).key
                                                               => o[1] <= q[1]}}

(* No part has a second '='.                                                  *)
OneSignEach(t) ==
  \A j, l \in DOMAIN t : j < l /\ t[j] = "=" /\ t[l] = "=" => \E k \in j .. l : t[k] = "&"

(****************************** Properties ***********************************)
(* The table holds what splitting the string at '&', each part at its '=',    *)
(* and then unescaping the sides gives, the last value of each key: one pass  *)
(* with two nested automata comes to the same.  Parts with a second '=' are   *)
(* left out: there a value ends at it, and the rest becomes a key of its own. *)
ArgsAgree ==
  mode = "done" /\ OneSignEach(args) => fields = FieldsBefore(args, Len(args) + 1)

(* The buffer is prepared for as many bytes as the field has: the unescaping  *)
(* never writes more than it has read, the escape it is in included, although *)
(* it may put out what it then reads again.                                   *)
UnescapeFits == mode = "unescape" => s <= pos /\ Len(out) + expect <= s - start

(************************* Inductive invariant *******************************)
(* This is STRING: the provers do not know that a literal is one.             *)
Character == STRING \cup {"%", " ", ""}

(* The field lies in the string, and the reader, which may step back, is      *)
(* never behind the beginning of the escape it is in.                         *)
UnescapeInv ==
  /\ args \in Seq(Character) /\ mode \in {"scan", "unescape", "store", "done"}
  /\ out \in Seq(Seq(Character)) /\ digit \in Character
  /\ start \in Nat \ {0} /\ pos \in start .. (Len(args) + 1)
  /\ mode = "unescape" => /\ s \in start .. pos /\ expect \in 0 .. 2
                          /\ Len(out) + expect <= s - start

UnescapeUpTo(t, n) == FlattenSeq([i \in 1 .. n |-> Stood(t, i)])

(* No escape begins before n and reaches n.                                   *)
NoneOpen(t, n) == \A e \in Escapes(t) : e < n => e + 2 < n

(* The reader is at n in the field t, e characters into an escape: what       *)
(* precedes it is unescaped as o.                                             *)
Reads(t, n, e, d, o) ==
  /\ e \in 0 .. 2 /\ e < n /\ n \in 1 .. (Len(t) + 1)
  /\ NoneOpen(t, n - e) /\ o = UnescapeUpTo(t, n - e - 1)
  /\ e > 0 => t[n - e] = "%"
  /\ e = 2 => t[n - 1] \in HexDigits /\ d = t[n - 1]

NoMark(a, b) == \A j \in a .. b : args[j] \notin {"=", "&"}
BeginsPart(a) == a \in 1 .. (Len(args) + 1) /\ (a > 1 => args[a - 1] = "&")

(* A key that waits for its value began at a.                                 *)
Waits(a) ==
  /\ BeginsPart(a) /\ a < start /\ NoMark(a, start - 2) /\ args[start - 1] = "="
  /\ key = Unescape(SubSeq(args, a, start - 2))
  /\ fields = FieldsBefore(args, a)

StoredInv ==
  /\ mode # "done" /\ is_value => \E a \in 1 .. Len(args) : Waits(a)
  /\ mode # "done" /\ ~is_value => BeginsPart(start) /\ fields = FieldsBefore(args, start)
  /\ mode = "done" => fields = FieldsBefore(args, Len(args) + 1)

FieldsInv ==
  /\ args \in Seq(Character) /\ mode \in {"scan", "unescape", "store", "done"} /\ is_value \in BOOLEAN
  /\ start \in 1 .. (Len(args) + 1) /\ pos \in start .. (Len(args) + 1) /\ NoMark(start, pos - 1)
  /\ mode \in {"unescape", "store"} => Ends(pos)
  /\ mode = "unescape" => /\ s \in start .. pos
                          /\ Reads(SubSeq(args, start, pos - 1), s - start + 1, expect, digit, out)
  /\ mode = "store" => out = Unescape(SubSeq(args, start, pos - 1))
  /\ OneSignEach(args) => StoredInv
===============================================================================
