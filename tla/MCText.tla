-------------------------------- MODULE MCText --------------------------------
(* The conversions of text and the buffers they work on, side by side: each   *)
(* behaviour is one of one of the components.                                 *)
EXTENDS Args, Base64, Buffers, Cookies, Paths, Statuses, Utf8

VARIABLE component

BoundedSeqs(S, lengths) == UNION {[1 .. n -> S] : n \in lengths}

MCPlains == BoundedSeqs({0, 105, 255}, 0 .. 7)
MCTexts == BoundedSeqs({Char(27), Char(63), Pad, Other}, {0, 1, 2, 4, 6, 8})

\* the ends of the ranges of the byte classes
MCBytes == {0, 127, 128, 143, 144, 159, 160, 191, 192, 193, 194, 223, 224, 225, 236, 237,
            238, 239, 240, 241, 243, 244, 245, 255}

MCStrings == BoundedSeqs({"a", "b", "%", "=", "&", "+"}, 0 .. 5)

MCCookieLists ==
  BoundedSeqs(BoundedSeqs({"c", ",", " "}, 0 .. 2), 0 .. 2)
    \cup BoundedSeqs({<<>>, <<"c">>, <<"c", ",", " ", "c">>}, {3})

\* a path that holds what looks like a reference
MCPath == <<"/", "$", "1">>
MCTemplates ==
  {<<t, <<>>>> : t \in BoundedSeqs({"$", "0", "1", "2", "x"}, 0 .. 4)}
    \cup {<<<<"x">>, <<"$", "2">>>>, <<<<"x">>, <<"$", "1", "x">>>>}
Captures(second) == [NoMatch EXCEPT ![0] = <<0, 3>>, ![1] = <<1, 3>>, ![2] = second]
MCExpressions ==
  {None, [re_nsub |-> 2, result |-> None],
   [re_nsub |-> 2, result |-> Captures(Unset)], [re_nsub |-> 2, result |-> Captures(<<3, 3>>)],
   [re_nsub |-> 0, result |-> None], [re_nsub |-> 0, result |-> [NoMatch EXCEPT ![0] = <<0, 2>>]]}

MCCodes == 99 .. 600

(* The component at work, the others idle.                                    *)
Init ==
  /\ component \in {"args", "base64", "buffers", "cookies", "paths", "statuses", "utf8"}
  /\ IF component = "args" THEN ArgsInit ELSE ArgsIdle
  /\ IF component = "base64" THEN Base64Init ELSE Base64Idle
  /\ IF component = "buffers" THEN BuffersInit ELSE BuffersIdle
  /\ IF component = "cookies" THEN CookiesInit ELSE CookiesIdle
  /\ IF component = "paths" THEN PathsInit ELSE PathsIdle
  /\ IF component = "statuses" THEN StatusInit ELSE StatusIdle
  /\ Utf8Init

Next ==
  /\ UNCHANGED component
  /\ \/ /\ component = "args" /\ ArgsNext
        /\ UNCHANGED <<base64Vars, bufferVars, cookieVars, pathVars, statusVars, utf8Vars>>
     \/ /\ component = "base64" /\ Base64Next
        /\ UNCHANGED <<argsVars, bufferVars, cookieVars, pathVars, statusVars, utf8Vars>>
     \/ /\ component = "buffers" /\ BuffersNext
        /\ UNCHANGED <<argsVars, base64Vars, cookieVars, pathVars, statusVars, utf8Vars>>
     \/ /\ component = "cookies" /\ CookiesNext
        /\ UNCHANGED <<argsVars, base64Vars, bufferVars, pathVars, statusVars, utf8Vars>>
     \/ /\ component = "paths" /\ PathsNext
        /\ UNCHANGED <<argsVars, base64Vars, bufferVars, cookieVars, statusVars, utf8Vars>>
     \/ /\ component = "statuses" /\ StatusNext
        /\ UNCHANGED <<argsVars, base64Vars, bufferVars, cookieVars, pathVars, utf8Vars>>
     \/ /\ component = "utf8" /\ Utf8Next
        /\ UNCHANGED <<argsVars, base64Vars, bufferVars, cookieVars, pathVars, statusVars>>

vars == <<component, argsVars, base64Vars, bufferVars, cookieVars, pathVars,
          statusVars, utf8Vars>>

Spec == Init /\ [][Next]_vars
===============================================================================
