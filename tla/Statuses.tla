-------------------------------- MODULE Statuses ------------------------------
(* lws_find_http_status of lws_http.c: the binary search for the name of a    *)
(* status code, which becomes the message of an error document.               *)
EXTENDS Integers, Sequences

CONSTANTS
  Codes    \* the codes to look for

ASSUME CodesAssumption == Codes \subseteq Int

VARIABLES
  code,
  lower, upper,
  search    \* "busy", "found", "missing" or "idle"

statusVars == <<code, lower, upper, search>>

(* lws_http_status, without the names: two codes have two of them.            *)
lws_http_status ==
  <<100, 101, 102,
    200, 201, 202, 203, 204, 205, 206, 300, 301, 302, 303, 304, 305, 307, 308,
    400, 401, 402, 403, 404, 405, 406, 407, 408, 409, 410, 411, 412, 413, 413, 414, 414, 415,
    416, 417, 421, 422, 426, 429,
    500, 501, 502, 503, 504, 505, 507>>
CodeAt(m) == lws_http_status[m + 1]
N == Len(lws_http_status)

StatusStart(c, s) == code = c /\ lower = 0 /\ upper = N - 1 /\ search = s
StatusInit == \E c \in Codes : StatusStart(c, "busy")
StatusIdle == StatusStart(0, "idle")

Mid == (lower + upper) \div 2

MutBelow(m) == CodeAt(m) <= code   \* mutant: the code in the middle is passed over
Below(m) == CodeAt(m) < code

Halve ==
  /\ search = "busy" /\ lower <= upper
  /\ IF Below(Mid) THEN lower' = Mid + 1 /\ UNCHANGED upper
     ELSE upper' = Mid - 1 /\ UNCHANGED lower
  /\ UNCHANGED <<code, search>>

EndSearch ==
  /\ search = "busy" /\ lower > upper
  /\ search' = IF lower < N /\ CodeAt(lower) = code THEN "found" ELSE "missing"
  /\ UNCHANGED <<code, lower, upper>>

StatusNext == Halve \/ EndSearch

StatusSpec == StatusInit /\ [][StatusNext]_statusVars

(****************************** Properties ***********************************)
(* The search stays within the table and finds a code exactly when the table, *)
(* whose order nothing else ensures, has it; of two entries of a code it      *)
(* finds the first, whose name is not the legacy one.                         *)
StatusFound ==
  /\ 0 <= lower /\ lower <= upper + 1 /\ upper < N
  /\ search = "found" => CodeAt(lower) = code /\ \A m \in 0 .. (lower - 1) : CodeAt(m) < code
  /\ search = "missing" => \A m \in 0 .. (N - 1) : CodeAt(m) # code

(************************* Inductive invariant *******************************)
(* The codes outside of the range still searched are not the first match.     *)
SearchInv ==
  /\ code \in Int /\ lower \in Nat /\ upper \in Int /\ search \in {"busy", "found", "missing"}
  /\ lower <= upper + 1 /\ upper < N
  /\ \A m \in 0 .. (lower - 1) : CodeAt(m) < code
  /\ \A m \in (upper + 1) .. (N - 1) : CodeAt(m) >= code
  /\ search # "busy" => lower > upper
  /\ search = "found" => lower < N /\ CodeAt(lower) = code
  /\ search = "missing" => lower = N \/ CodeAt(lower) # code
===============================================================================
