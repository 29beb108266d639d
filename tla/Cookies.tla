-------------------------------- MODULE Cookies -------------------------------
(* The cookies of lws_interface.c.  lws_get_next_invocation folds the         *)
(* invocation's cookies into one Cookie header, in two passes over them, to   *)
(* measure and to write; lws_add_headers splits a folded Set-Cookie header at *)
(* its commas.  A chunk that sends back the cookies it got joins the two.     *)
EXTENDS Integers, SequencesExt

CONSTANTS
  CookieLists    \* the cookies an invocation may have: sequences of sequences
                 \* of characters

ASSUME CookiesAssumption == CookieLists \subseteq Seq(Seq(STRING))

VARIABLES
  cookies,
  phase,                      \* "measure", "write", "split", "out" or "idle"
  idx,                        \* the cookie at hand
  cookie_total_len, cookie_count,
  value,                      \* the header, as far as it is written
  sc_start, sc_pos,           \* the split: where a cookie begins; the character at hand
  cookies_arr                 \* the cookies of the response

cookieVars == <<cookies, phase, idx, cookie_total_len, cookie_count, value, sc_start, sc_pos,
                cookies_arr>>

CookiesStart(list, p) ==
  /\ cookies = list /\ phase = p /\ idx = 1 /\ cookie_total_len = 0 /\ cookie_count = 0
  /\ value = <<>> /\ sc_start = 1 /\ sc_pos = 1 /\ cookies_arr = <<>>

CookiesInit == \E list \in CookieLists : CookiesStart(list, "measure")
CookiesIdle == CookiesStart(<<>>, "idle")

Separator == <<",", " ">>
Cookie == cookies[idx]

MutSeparatorLen == 0   \* mutant: the separators are not counted
SeparatorLen == IF cookie_count > 0 THEN Len(Separator) ELSE 0

(* Empty cookies are left out in both passes.                                 *)
MeasureCookie ==
  /\ phase = "measure" /\ idx <= Len(cookies)
  /\ IF Cookie = <<>> THEN UNCHANGED <<cookie_total_len, cookie_count>>
     ELSE /\ cookie_total_len' = cookie_total_len + Len(Cookie) + SeparatorLen
          /\ cookie_count' = cookie_count + 1
  /\ idx' = idx + 1
  /\ UNCHANGED <<cookies, phase, value, sc_start, sc_pos, cookies_arr>>

(* Without a cookie there is no header.                                       *)
CookiesMeasured ==
  /\ phase = "measure" /\ idx > Len(cookies)
  /\ phase' = IF cookie_count > 0 THEN "write" ELSE "out"
  /\ idx' = 1 /\ cookie_count' = 0
  /\ UNCHANGED <<cookies, cookie_total_len, value, sc_start, sc_pos, cookies_arr>>

WriteCookie ==
  /\ phase = "write" /\ idx <= Len(cookies)
  /\ IF Cookie = <<>> THEN UNCHANGED <<value, cookie_count>>
     ELSE /\ value' = value \o (IF cookie_count > 0 THEN Separator ELSE <<>>) \o Cookie
          /\ cookie_count' = cookie_count + 1
  /\ idx' = idx + 1
  /\ UNCHANGED <<cookies, phase, cookie_total_len, sc_start, sc_pos, cookies_arr>>

(* The header is stored, and a chunk sets Set-Cookie to it.                   *)
SendBack ==
  /\ phase = "write" /\ idx > Len(cookies) /\ phase' = "split"
  /\ UNCHANGED <<cookies, idx, cookie_total_len, cookie_count, value, sc_start, sc_pos,
                 cookies_arr>>

(******************************* lws_add_cookie ******************************)
IsBlank(c) == c \in {" ", "\t"}

(* What is left between positions a and b without the blanks at its ends.     *)
Trimmed(v, a, b) ==
  LET inside == {j \in a .. b : ~IsBlank(v[j])}
  IN  IF inside = {} THEN <<>> ELSE SubSeq(v, Min(inside), Max(inside))

AddCookie(a, b) ==
  cookies_arr' = IF Trimmed(value, a, b) = <<>> THEN cookies_arr
                 ELSE Append(cookies_arr, Trimmed(value, a, b))

SplitCookie ==
  /\ phase = "split" /\ sc_pos <= Len(value)
  /\ IF value[sc_pos] = "," THEN AddCookie(sc_start, sc_pos - 1) /\ sc_start' = sc_pos + 1
     ELSE UNCHANGED <<cookies_arr, sc_start>>
  /\ sc_pos' = sc_pos + 1
  /\ UNCHANGED <<cookies, phase, idx, cookie_total_len, cookie_count, value>>

MutLast == UNCHANGED cookies_arr   \* mutant: what follows the last comma is forgotten
LastCookie == AddCookie(sc_start, Len(value))

CookiesSplit ==
  /\ phase = "split" /\ sc_pos > Len(value) /\ phase' = "out" /\ LastCookie
  /\ UNCHANGED <<cookies, idx, cookie_total_len, cookie_count, value, sc_start, sc_pos>>

CookiesNext ==
  MeasureCookie \/ CookiesMeasured \/ WriteCookie \/ SendBack \/ SplitCookie \/ CookiesSplit

CookiesSpec == CookiesInit /\ [][CookiesNext]_cookieVars

(****************************** References ***********************************)
(* A comma or the end of a header ends a part of it.                          *)
EndsPart(v, p) == p > Len(v) \/ v[p] = ","

(* Where the part that ends at p begins.                                      *)
StartOf(v, p) == Max({0} \cup {j \in 1 .. (p - 1) : v[j] = ","}) + 1

Part(v, p) ==
  LET part == Trimmed(v, StartOf(v, p), p - 1)
  IN  IF EndsPart(v, p) /\ part # <<>> THEN <<part>> ELSE <<>>

PartsUpTo(v, n) == FlattenSeq([p \in 1 .. n |-> Part(v, p)])
PartsOf(v) == PartsUpTo(v, Len(v) + 1)

(****************************** Properties ***********************************)
(* The cookies a chunk sends back are the invocation's, one by one, except    *)
(* that one with commas is cut at them (an Expires attribute has one), blanks *)
(* at the ends of the parts are lost, and so is a cookie without anything.    *)
CookiesAgree ==
  phase = "out" => cookies_arr = FlattenSeq([k \in DOMAIN cookies |-> PartsOf(cookies[k])])

(* What is written never passes the memory that was measured, and fills it.   *)
CookiesFit ==
  /\ Len(value) <= cookie_total_len
  /\ phase = "split" => Len(value) = cookie_total_len

(************************* Inductive invariant *******************************)
(* This is STRING: the provers do not know that a literal is one.             *)
CookieCharacter == STRING \cup {",", " "}

(* f and g are the length of the header and the number of cookies in it after *)
(* each of the first n cookies of a list.                                     *)
Totals(list, f, g, n) ==
  /\ f \in [0 .. Len(list) -> Nat] /\ g \in [0 .. Len(list) -> Nat] /\ f[0] = 0 /\ g[0] = 0
  /\ \A i \in 1 .. n :
       /\ list[i] = <<>> => f[i] = f[i - 1] /\ g[i] = g[i - 1]
       /\ list[i] # <<>> =>
            /\ f[i] = f[i - 1] + Len(list[i]) + (IF g[i - 1] > 0 THEN Len(Separator) ELSE 0)
            /\ g[i] = g[i - 1] + 1
  /\ \A i \in 0 .. n : \A j \in 0 .. i : f[j] <= f[i]

(* Both passes come to the same totals, cookie by cookie.                     *)
PassesInv(f, g) ==
  /\ cookies \in Seq(Seq(CookieCharacter)) /\ value \in Seq(CookieCharacter)
  /\ phase \in {"measure", "write", "split", "out"}
  /\ idx \in 1 .. (Len(cookies) + 1) /\ cookie_total_len \in Nat /\ cookie_count \in Nat
  /\ phase = "measure" => /\ value = <<>> /\ Totals(cookies, f, g, idx - 1)
                          /\ cookie_total_len = f[idx - 1] /\ cookie_count = g[idx - 1]
  /\ phase = "write" => /\ Totals(cookies, f, g, Len(cookies))
                        /\ cookie_total_len = f[Len(cookies)]
                        /\ Len(value) = f[idx - 1] /\ cookie_count = g[idx - 1]
  /\ phase = "split" => Len(value) = cookie_total_len
  /\ phase = "out" => Len(value) <= cookie_total_len

FitInv == \E f, g \in [0 .. Len(cookies) -> Nat] : PassesInv(f, g)

(* The parts of the first n cookies of a list.                                *)
CookiesUpTo(list, n) == FlattenSeq([k \in 1 .. n |-> PartsOf(list[k])])

(* The header written so far has the parts of the cookies written; those that *)
(* the split has found are its parts up to the character at hand.             *)
PartsInv ==
  /\ cookies \in Seq(Seq(CookieCharacter)) /\ value \in Seq(CookieCharacter)
  /\ phase \in {"measure", "write", "split", "out"} /\ cookie_count \in Nat
  /\ phase \in {"measure", "write"} => /\ idx \in 1 .. (Len(cookies) + 1)
                                      /\ sc_start = 1 /\ sc_pos = 1 /\ cookies_arr = <<>>
  /\ phase = "measure" => value = <<>> /\ (cookie_count = 0 => CookiesUpTo(cookies, idx - 1) = <<>>)
  /\ phase = "write" => /\ PartsOf(value) = CookiesUpTo(cookies, idx - 1)
                        /\ cookie_count = 0 => value = <<>>
  /\ phase = "split" => /\ PartsOf(value) = CookiesUpTo(cookies, Len(cookies))
                        /\ sc_pos \in 1 .. (Len(value) + 1) /\ sc_start = StartOf(value, sc_pos)
                        /\ cookies_arr = PartsUpTo(value, sc_pos - 1)
  /\ phase = "out" => cookies_arr = CookiesUpTo(cookies, Len(cookies))
===============================================================================
