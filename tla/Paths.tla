--------------------------------- MODULE Paths --------------------------------
(* lws_prepare_request of lws_request.c: the request path is matched against  *)
(* LWS_MATCH, and its capture groups are put for $0 .. $9 into LWS_MAIN and   *)
(* LWS_PATH_INFO by lws_string_sub, which goes over a template twice, to      *)
(* measure the result and to write it.  The task root, a constant prefix of   *)
(* the file name, is left out; regexec and stat are external.                 *)
EXTENDS Integers, SequencesExt

CONSTANTS
  None,
  Path,        \* the request path, a sequence of characters
  Templates,   \* the values of LWS_MAIN and LWS_PATH_INFO to look at
  Expressions  \* what LWS_MATCH may be: None, not set, or the number of its
               \* groups with what regexec says of Path: None, no match, or
               \* [0 .. 9 -> <<rm_so, rm_eo>>], an unset group being <<-1, -1>>

(* A group regexec sets is a span of the path.                                *)
Unset == <<-1, -1>>
Spans == {g \in Int \X Int : 0 <= g[1] /\ g[1] <= g[2] /\ g[2] <= Len(Path)} \cup {Unset}

ASSUME PathAssumption == Path \in Seq(STRING)
ASSUME TemplatesAssumption == Templates \subseteq Seq(STRING) \X Seq(STRING)
ASSUME GroupsAssumption ==
  \A m \in Expressions \ {None} :
    m.re_nsub > 0 => \/ m.result = None
                     \/ DOMAIN m.result = 0 .. 9 /\ \A d \in 0 .. 9 : m.result[d] \in Spans

VARIABLES
  match,                \* the expression
  main, path_info,      \* the templates
  path_match,           \* group -> <<rm_so, rm_eo>>
  pass,                 \* "match", "measure", "write", "stat", "body" or "idle"
  tmpl, i, len, dest,   \* lws_string_sub: dest is what p has passed
  req_main, req_path_info,
  rc                    \* "busy", "ok", "404" or "failed"

pathVars == <<match, main, path_info, path_match, pass, tmpl, i, len, dest, req_main,
              req_path_info, rc>>

NoMatch == [d \in 0 .. 9 |-> Unset]
TheWholePath == [d \in 0 .. 9 |-> IF d = 0 THEN <<0, Len(Path)>> ELSE Unset]

PathsStart(m, t) ==
  /\ match = m /\ main = t[1] /\ path_info = t[2] /\ path_match = NoMatch
  /\ tmpl = <<>> /\ i = 1 /\ len = 0 /\ dest = <<>>
  /\ req_main = None /\ req_path_info = None

PathsInit ==
  \E m \in Expressions, t \in Templates : PathsStart(m, t) /\ pass = "match" /\ rc = "busy"
PathsIdle == PathsStart(None, <<<<>>, <<>>>>) /\ pass = "idle" /\ rc = "ok"

Busy == rc = "busy"
FinishWith(result) == rc' = result /\ UNCHANGED <<pass, tmpl, i, len, dest>>

(* lws_string_sub begins.                                                     *)
Substitute(t) == pass' = "measure" /\ tmpl' = t /\ i' = 1 /\ len' = 0 /\ dest' = <<>>

(* The expression is applied only if it has groups.                           *)
Applied == match # None /\ match.re_nsub > 0

MatchPath ==
  /\ Busy /\ pass = "match"
  /\ IF Applied /\ match.result = None THEN FinishWith("404") /\ UNCHANGED path_match
     ELSE /\ path_match' = IF Applied THEN match.result ELSE TheWholePath
          /\ Substitute(main) /\ UNCHANGED rc
  /\ UNCHANGED <<match, main, path_info, req_main, req_path_info>>

(******************************* lws_string_sub ******************************)
Digits10 == <<"0", "1", "2", "3", "4", "5", "6", "7", "8", "9">>
Number(c) == SelectInSeq(Digits10, LAMBDA d : d = c) - 1   \* -1: not a digit

AtGroup == tmpl[i] = "$" /\ i < Len(tmpl) /\ Number(tmpl[i + 1]) >= 0

Group == path_match[Number(tmpl[i + 1])]
GroupLen == Group[2] - Group[1]

Scanning(p) == Busy /\ pass = p /\ i <= Len(tmpl)

MutMeasured == 1   \* mutant: a group counts as one character
Measured == IF AtGroup THEN GroupLen ELSE 1

Measure ==
  /\ Scanning("measure")
  /\ IF AtGroup /\ Group[1] < 0 THEN FinishWith("failed")
     ELSE /\ len' = len + Measured
          /\ i' = i + (IF AtGroup THEN 2 ELSE 1)
          /\ UNCHANGED <<pass, tmpl, dest, rc>>
  /\ UNCHANGED <<match, main, path_info, path_match, req_main, req_path_info>>

Allocate(ok) ==
  /\ Busy /\ pass = "measure" /\ i > Len(tmpl)
  /\ IF ok THEN pass' = "write" /\ i' = 1 /\ UNCHANGED rc ELSE rc' = "failed" /\ UNCHANGED <<pass, i>>
  /\ UNCHANGED <<match, main, path_info, path_match, tmpl, len, dest, req_main, req_path_info>>

Write ==
  /\ Scanning("write")
  /\ IF AtGroup THEN dest' = dest \o SubSeq(Path, Group[1] + 1, Group[2]) /\ i' = i + 2
     ELSE dest' = Append(dest, tmpl[i]) /\ i' = i + 1
  /\ UNCHANGED <<match, main, path_info, path_match, pass, tmpl, len, req_main, req_path_info, rc>>

(***************************** lws_prepare_request ***************************)
(* The name of the main chunk is ready; it is put behind the task root.       *)
MainIsReady(ok) ==
  /\ Busy /\ pass = "write" /\ i > Len(tmpl) /\ req_main = None
  /\ IF ok THEN req_main' = dest /\ pass' = "stat" /\ UNCHANGED <<tmpl, i, len, dest, rc>>
     ELSE FinishWith("failed") /\ UNCHANGED req_main
  /\ UNCHANGED <<match, main, path_info, path_match, req_path_info>>

(* lws_get_file_status                                                        *)
Stat(found) ==
  /\ Busy /\ pass = "stat"
  /\ CASE ~found -> FinishWith("404")
       [] found /\ path_info # <<>> -> Substitute(path_info) /\ UNCHANGED rc
       [] OTHER -> pass' = "body" /\ UNCHANGED <<tmpl, i, len, dest, rc>>
  /\ UNCHANGED <<match, main, path_info, path_match, req_main, req_path_info>>

PathInfoIsReady ==
  /\ Busy /\ pass = "write" /\ i > Len(tmpl) /\ req_main # None
  /\ req_path_info' = dest /\ pass' = "body"
  /\ UNCHANGED <<match, main, path_info, path_match, tmpl, i, len, dest, req_main, rc>>

(* The file of the request body is opened.                                    *)
OpenBody(ok) ==
  /\ Busy /\ pass = "body" /\ FinishWith(IF ok THEN "ok" ELSE "failed")
  /\ UNCHANGED <<match, main, path_info, path_match, req_main, req_path_info>>

PathsNext ==
  \/ MatchPath \/ Measure \/ Write \/ PathInfoIsReady
  \/ \E b \in BOOLEAN : Allocate(b) \/ MainIsReady(b) \/ Stat(b) \/ OpenBody(b)

PathsSpec == PathsInit /\ [][PathsNext]_pathVars

(****************************** References ***********************************)
GroupAt(t, k) == t[k] = "$" /\ k < Len(t) /\ Number(t[k + 1]) >= 0
GroupOf(groups, t, k) == groups[Number(t[k + 1])]
GroupsOf(groups, t) == {GroupOf(groups, t, k) : k \in {j \in DOMAIN t : GroupAt(t, j)}}

(* What character k of t stands for.                                          *)
Stands(groups, t, k) ==
  CASE GroupAt(t, k) -> LET g == GroupOf(groups, t, k) IN SubSeq(Path, g[1] + 1, g[2])
    [] k > 1 /\ GroupAt(t, k - 1) -> <<>>
    [] OTHER -> <<t[k]>>

Substituted(groups, t) == FlattenSeq([k \in DOMAIN t |-> Stands(groups, t, k)])

(****************************** Properties ***********************************)
(* The pass that measures and the pass that writes agree: what is written     *)
(* never passes the memory allocated and fills it at the end, with the groups *)
(* put for their references once (a "$1" in the path is not looked at again); *)
(* the substitution gives up exactly on a reference to an unset group.        *)
SubstitutionAgrees ==
  /\ pass = "write" => Len(dest) <= len /\ Unset \notin GroupsOf(path_match, tmpl)
  /\ pass = "write" /\ i > Len(tmpl) => Len(dest) = len /\ dest = Substituted(path_match, tmpl)
  /\ rc = "failed" /\ pass = "measure" /\ i <= Len(tmpl) => Unset \in GroupsOf(path_match, tmpl)

(* What the documentation says of $0: it is the entire match of LWS_MATCH, so *)
(* that a request that is served has matched the expression, if one is set.   *)
DollarZeroIsMatch ==
  match # None /\ rc = "ok" => match.result # None /\ path_match[0] = match.result[0]

(************************* Inductive invariant *******************************)
(* What the first n characters of t stand for.                                *)
UpTo(groups, t, n) == FlattenSeq([k \in 1 .. n |-> Stands(groups, t, k)])

(* No reference among the first n characters of t is to an unset group.       *)
SetUpTo(groups, t, n) == \A k \in 1 .. n : GroupAt(t, k) => GroupOf(groups, t, k) # Unset

GroupTypes(groups) == DOMAIN groups = 0 .. 9 /\ \A d \in 0 .. 9 : groups[d] \in Spans

PathTypes ==
  /\ match \in Expressions /\ GroupTypes(path_match)
  /\ main \in Seq(STRING) /\ path_info \in Seq(STRING) /\ tmpl \in Seq(STRING)
  /\ pass \in {"match", "measure", "write", "stat", "body"}

(* The position is never the number of a reference.                           *)
PositionInv ==
  pass \in {"measure", "write"} => i \in 1 .. (Len(tmpl) + 1) /\ (i > 1 => ~GroupAt(tmpl, i - 1))

MeasureInv ==
  pass = "measure" =>
    /\ len = Len(UpTo(path_match, tmpl, i - 1)) /\ dest = <<>> /\ SetUpTo(path_match, tmpl, i - 1)
    /\ rc = "failed" /\ i <= Len(tmpl) => ~SetUpTo(path_match, tmpl, i)

WriteInv ==
  pass = "write" =>
    /\ len = Len(UpTo(path_match, tmpl, Len(tmpl))) /\ SetUpTo(path_match, tmpl, Len(tmpl))
    /\ dest = UpTo(path_match, tmpl, i - 1)

PathInv == PathTypes /\ PositionInv /\ MeasureInv /\ WriteInv
===============================================================================
