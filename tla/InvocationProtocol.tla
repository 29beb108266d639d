-------------------------- MODULE InvocationProtocol --------------------------
(* What a custom runtime promises the Lambda runtime API, whatever happens    *)
(* inside it: invocations are taken one at a time and in order, each gets at  *)
(* most one answer, the next one is taken only when the one before it has its *)
(* answer, and a runtime that cannot answer stops instead of going on.        *)
(* Runtime.tla is shown to implement this specification.                      *)
EXTENDS Integers

CONSTANT MaxInvocations   \* how many invocations the API ever hands out

Invocations == 1 .. MaxInvocations

VARIABLES
  status,    \* status[i]: "queued", "running" or "answered"
  stopped    \* the runtime process has exited

vars == <<status, stopped>>

Init ==
  /\ status = [i \in Invocations |-> "queued"]
  /\ stopped = FALSE

(* The API hands invocation i to the runtime.                                 *)
Take(i) ==
  /\ ~stopped
  /\ status[i] = "queued"
  /\ \A j \in 1 .. (i - 1) : status[j] = "answered"
  /\ status' = [status EXCEPT ![i] = "running"]
  /\ UNCHANGED stopped

(* The API accepts a response or an error for invocation i.                   *)
Answer(i) ==
  /\ ~stopped
  /\ status[i] = "running"
  /\ status' = [status EXCEPT ![i] = "answered"]
  /\ UNCHANGED stopped

Stop ==
  /\ ~stopped
  /\ stopped' = TRUE
  /\ UNCHANGED status

Settle == (\E i \in Invocations : Answer(i)) \/ (Stop /\ \E i \in Invocations : status[i] = "running")

Next == (\E i \in Invocations : Take(i) \/ Answer(i)) \/ Stop

Spec == Init /\ [][Next]_vars /\ WF_vars(Settle)
===============================================================================
