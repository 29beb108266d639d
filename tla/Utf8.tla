--------------------------------- MODULE Utf8 ---------------------------------
(* lws_valid_utf8 of lws_codec.c, which decides whether a response body is    *)
(* sent as a string or in base64: a table-driven automaton that reads the     *)
(* body byte by byte and stops at the first byte it rejects.                  *)
EXTENDS Integers, Sequences

CONSTANTS
  ByteSample,   \* the bytes to look at
  MaxBytes

ASSUME SampleAssumption == ByteSample \subseteq 0 .. 255

VARIABLES
  seen,    \* history: the bytes read
  state    \* the automaton's state

utf8Vars == <<seen, state>>

ACCEPT == 0
REJECT == 12

(* The first part of the table utf8d: the character class of a byte.          *)
Class(b) ==
  CASE b <= 127 -> 0
    [] b \in 128 .. 143 -> 1
    [] b \in 144 .. 159 -> 9
    [] b \in 160 .. 191 -> 7
    [] b \in {192, 193} -> 8
    [] b \in 194 .. 223 -> 2
    [] b = 224 -> 10
    [] b = 237 -> 4
    [] b \in (225 .. 236) \cup {238, 239} -> 3
    [] b = 240 -> 11
    [] b \in 241 .. 243 -> 6
    [] b = 244 -> 5
    [] b >= 245 -> 8

(* The second part, by state: the classes that lead on, and where to.         *)
FromAccept == <<0, 12, 24, 36, 60, 96, 84, 12, 12, 12, 48, 72>>   \* class 0 first
MutLeads(s) ==   \* mutant: a surrogate's second byte is let in
  CASE s = 24 -> [to |-> 0, on |-> {1, 7, 9}]  [] s = 36 -> [to |-> 24, on |-> {1, 7, 9}]
    [] s = 48 -> [to |-> 24, on |-> {7}]       [] s = 60 -> [to |-> 24, on |-> {1, 7, 9}]
    [] s = 72 -> [to |-> 36, on |-> {7, 9}]    [] s = 84 -> [to |-> 36, on |-> {1, 7, 9}]
    [] s = 96 -> [to |-> 36, on |-> {1}]       [] OTHER -> [to |-> REJECT, on |-> {}]
Leads(s) ==
  CASE s = 24 -> [to |-> 0, on |-> {1, 7, 9}]  [] s = 36 -> [to |-> 24, on |-> {1, 7, 9}]
    [] s = 48 -> [to |-> 24, on |-> {7}]       [] s = 60 -> [to |-> 24, on |-> {1, 9}]
    [] s = 72 -> [to |-> 36, on |-> {7, 9}]    [] s = 84 -> [to |-> 36, on |-> {1, 7, 9}]
    [] s = 96 -> [to |-> 36, on |-> {1}]       [] OTHER -> [to |-> REJECT, on |-> {}]

Transition(s, b) ==
  CASE s = ACCEPT -> FromAccept[Class(b) + 1]
    [] Class(b) \in Leads(s).on -> Leads(s).to
    [] OTHER -> REJECT

Utf8Init == seen = <<>> /\ state = ACCEPT

ReadByte(b) ==
  /\ state # REJECT /\ Len(seen) < MaxBytes
  /\ seen' = Append(seen, b) /\ state' = Transition(state, b)

Utf8Next == \E b \in ByteSample : ReadByte(b)

Utf8Spec == Utf8Init /\ [][Utf8Next]_utf8Vars

(****************************** References ***********************************)
(* The Unicode standard's table of well-formed byte sequences (table 3-7): a  *)
(* lead byte fixes the range of the second byte and the number of bytes.      *)
Rest == 128 .. 191
Alone == <<>>   \* nothing follows a byte below 128
Sequences(lead) ==
  CASE lead \in 0 .. 127 -> Alone
    [] lead \in 194 .. 223 -> <<Rest>>
    [] lead = 224 -> <<160 .. 191, Rest>>
    [] lead \in (225 .. 236) \cup {238, 239} -> <<Rest, Rest>>
    [] lead = 237 -> <<128 .. 159, Rest>>
    [] lead = 240 -> <<144 .. 191, Rest, Rest>>
    [] lead \in 241 .. 243 -> <<Rest, Rest, Rest>>
    [] lead = 244 -> <<128 .. 143, Rest, Rest>>

IsLead(b) == b \in (0 .. 127) \cup (194 .. 244)

(* What s holds from position i on begins a character.                        *)
Begins(s, i) ==
  /\ IsLead(s[i])
  /\ \A k \in DOMAIN Sequences(s[i]) : i + k <= Len(s) => s[i + k] \in Sequences(s[i])[k]

(* Whether s is well-formed, or the beginning of a well-formed sequence.      *)
Judged(s) ==
  LET from[i \in 1 .. (Len(s) + 1)] ==
        IF i > Len(s) THEN "complete"
        ELSE IF ~Begins(s, i) THEN "malformed"
        ELSE LET next == i + 1 + Len(Sequences(s[i]))
             IN  IF next > Len(s) + 1 THEN "cut off" ELSE from[next]
  IN  from[1]

(****************************** Properties ***********************************)
(* A body is accepted exactly when it is well-formed UTF-8, and the scan      *)
(* stops at the first byte after which it cannot be: overlong forms,          *)
(* surrogates and code points beyond the last are not let through, which      *)
(* would break the JSON document the body is put into.                        *)
Utf8Agrees ==
  /\ state = ACCEPT <=> Judged(seen) = "complete"
  /\ state = REJECT <=> Judged(seen) = "malformed"

(************************* Inductive invariant *******************************)
(* What each state of the automaton waits for.                                *)
Awaited(s) ==
  CASE s = 0 -> Alone
    [] s = 24 -> <<Rest>>
    [] s = 36 -> <<Rest, Rest>>
    [] s = 48 -> <<160 .. 191, Rest>>
    [] s = 60 -> <<128 .. 159, Rest>>
    [] s = 72 -> <<144 .. 191, Rest, Rest>>
    [] s = 84 -> <<Rest, Rest, Rest>>
    [] s = 96 -> <<128 .. 143, Rest, Rest>>

(* Where a character of s that is complete leads to.                          *)
After(s, i) == i + 1 + Len(Sequences(s[i]))

Closed(s, S) ==
  \A i \in S : i <= Len(s) /\ Begins(s, i) /\ After(s, i) <= Len(s) + 1 => After(s, i) \in S

(* The characters of s up to position p are complete and well-formed.         *)
Boundary(s, p) ==
  \A S \in SUBSET (1 .. (Len(s) + 1)) : 1 \in S /\ Closed(s, S) => p \in S

(* From the last boundary on, what was read and what is awaited make up the   *)
(* ranges of the character that begins there, unless it was rejected.         *)
ScanInv ==
  /\ seen \in Seq(0 .. 255) /\ state \in {0, 12, 24, 36, 48, 60, 72, 84, 96}
  /\ \E p \in 1 .. (Len(seen) + 1) :
       /\ Boundary(seen, p)
       /\ state = ACCEPT => p = Len(seen) + 1
       /\ state = REJECT => p <= Len(seen) /\ ~Begins(seen, p)
       /\ state \notin {ACCEPT, REJECT} =>
            /\ p <= Len(seen) /\ Begins(seen, p)
            /\ After(seen, p) = Len(seen) + 1 + Len(Awaited(state))
            /\ \A k \in DOMAIN Awaited(state) :
                 Sequences(seen[p])[Len(seen) - p + k] = Awaited(state)[k]
===============================================================================
