--------------------------------- MODULE Poll ---------------------------------
(* The poll for the next invocation against the SIGTERM handler, statement by *)
(* statement: lws_get_next_invocation, lws_curl_perform, the socket callback  *)
(* and lws_cancel_poll of lws_interface.c, the handler and the loop condition *)
(* of lws_runtime.c.  The handler runs to its end between two steps of main.  *)
(* libcurl's connection and the process's file descriptors are external.      *)
EXTENDS Integers

CONSTANT Fds   \* bound: descriptor numbers the process may use

ASSUME FdAssumption == Fds \subseteq Nat \ {0} /\ Fds # {}

BAD == -1   \* CURL_SOCKET_BAD, and "no connection"

VARIABLES
  pc,             \* main: test, arm, connect, wait, got, failed, work, exit
  keep_running,
  in_poll, cancel_poll, curl_socket,
  conn,           \* libcurl's connection to the API
  conn_closed,    \* the API has closed its end of it
  reused,         \* it served an earlier transfer
  owner,          \* owner[fd]: "free", "api" or "lua"
  taken_late,     \* invocations handed out after SIGTERM: 0, 1, or 2 for more
  victims         \* what the handler has closed

sigVars == <<in_poll, cancel_poll, curl_socket>>
connVars == <<conn, conn_closed, reused, owner>>
vars == <<pc, keep_running, sigVars, connVars, taken_late, victims>>

MutZeroSocket == 0   \* mutant: curl_socket has no initialiser
InitialSocket == BAD

Init ==
  /\ pc = "test" /\ keep_running = TRUE
  /\ in_poll = FALSE /\ cancel_poll = FALSE /\ curl_socket = InitialSocket
  /\ conn = BAD /\ conn_closed = FALSE /\ reused = FALSE /\ owner = [fd \in Fds |-> "free"]
  /\ taken_late = 0 /\ victims = {}

(*************************** Descriptors *************************************)
(* The system hands out the lowest free number.                               *)
LowestFree(own, fd) == own[fd] = "free" /\ \A g \in Fds : own[g] = "free" => fd <= g

(* libcurl lets go of its connection, whoever holds that number by now.       *)
Closed == IF conn = BAD THEN owner ELSE [owner EXCEPT ![conn] = "free"]

(* Its connection is still usable.                                            *)
Alive == conn # BAD /\ ~conn_closed /\ owner[conn] = "api"

(* A new connection on fd.                                                    *)
Reconnect(fd) ==
  /\ LowestFree(Closed, fd)
  /\ owner' = [Closed EXCEPT ![fd] = "api"] /\ conn' = fd /\ conn_closed' = FALSE
  /\ reused' = FALSE

Disconnect == owner' = Closed /\ conn' = BAD /\ conn_closed' = FALSE /\ reused' = FALSE

(******************************** main ***************************************)
MutHoistedTest == TRUE   \* mutant: keep_running is not read again
LoopCondition == keep_running

Test ==
  /\ pc = "test"
  /\ pc' = IF LoopCondition THEN "arm" ELSE "exit"
  /\ UNCHANGED <<keep_running, sigVars, connVars, taken_late, victims>>

(* The options are set, then in_poll.                                         *)
Arm ==
  /\ pc = "arm" /\ pc' = "connect"
  /\ in_poll' = TRUE
  /\ UNCHANGED <<keep_running, cancel_poll, curl_socket, connVars, taken_late, victims>>

(* A live connection is used again: no socket callback.                       *)
Reuse ==
  /\ pc = "connect" /\ Alive
  /\ pc' = "wait" /\ reused' = TRUE
  /\ UNCHANGED <<keep_running, sigVars, conn, conn_closed, owner, taken_late, victims>>

(* lws_handle_socket: keep the new socket, or refuse it once cancelled.       *)
MutCallbackAccepts == TRUE   \* mutant: the callback does not look at cancel_poll
CallbackAccepts == ~cancel_poll

Connect(fd) ==
  /\ pc = "connect" /\ ~Alive
  /\ CallbackAccepts
  /\ Reconnect(fd) /\ curl_socket' = fd
  /\ pc' = "wait"
  /\ UNCHANGED <<keep_running, in_poll, cancel_poll, taken_late, victims>>

(* Refused by the callback or by the network.                                 *)
ConnectFails ==
  /\ pc = "connect" /\ ~Alive
  /\ Disconnect
  /\ pc' = "failed"
  /\ UNCHANGED <<keep_running, sigVars, taken_late, victims>>

(* The API hands out an invocation on a live connection.                      *)
Deliver ==
  /\ pc = "wait" /\ Alive
  /\ pc' = "got"
  /\ taken_late' = IF keep_running \/ taken_late = 2 THEN taken_late ELSE taken_late + 1
  /\ UNCHANGED <<keep_running, sigVars, connVars, victims>>

(* libcurl meets a dead connection.  When it had been used before, another    *)
(* one may be tried.                                                          *)
WaitBreaks ==
  /\ pc = "wait" /\ ~Alive
  /\ Disconnect
  /\ pc' \in {"failed"} \cup (IF reused THEN {"connect"} ELSE {})
  /\ UNCHANGED <<keep_running, sigVars, taken_late, victims>>

Got ==
  /\ pc = "got" /\ pc' = "work"
  /\ in_poll' = FALSE
  /\ UNCHANGED <<keep_running, cancel_poll, curl_socket, connVars, taken_late, victims>>

(* The poll failed: cancelled, or else the process gives up.                  *)
Failed ==
  /\ pc = "failed" /\ pc' = "exit"
  /\ in_poll' = FALSE
  /\ UNCHANGED <<keep_running, cancel_poll, curl_socket, connVars, taken_late, victims>>

(* libcurl gives its connection up while a request is handled: the API asked  *)
(* for that, or a streamed response failed.                                   *)
DropConnection ==
  /\ pc = "work" /\ conn # BAD
  /\ Disconnect
  /\ UNCHANGED <<pc, keep_running, sigVars, taken_late, victims>>

(* Lua code opens a descriptor it keeps, or closes one.                       *)
LuaOpens(fd) ==
  /\ pc = "work" /\ LowestFree(owner, fd)
  /\ owner' = [owner EXCEPT ![fd] = "lua"]
  /\ UNCHANGED <<pc, keep_running, sigVars, conn, conn_closed, reused, taken_late, victims>>

LuaCloses(fd) ==
  /\ pc = "work" /\ owner[fd] = "lua"
  /\ owner' = [owner EXCEPT ![fd] = "free"]
  /\ UNCHANGED <<pc, keep_running, sigVars, conn, conn_closed, reused, taken_late, victims>>

(* The answer is posted.  lws_curl_reset has cleared the socket callback, so  *)
(* a connection made now is not captured.                                     *)
PostConnects(fd) == Reconnect(fd) /\ UNCHANGED curl_socket

Post ==
  /\ pc = "work" /\ pc' = "test"
  /\ IF Alive THEN UNCHANGED <<connVars, curl_socket>> ELSE \E fd \in Fds : PostConnects(fd)
  /\ UNCHANGED <<keep_running, in_poll, cancel_poll, taken_late, victims>>

(* Neither the answer nor the error post gets a connection: main gives up.    *)
PostFails ==
  /\ pc = "work" /\ ~Alive
  /\ Disconnect
  /\ pc' = "exit"
  /\ UNCHANGED <<keep_running, sigVars, taken_late, victims>>

(************************** SIGTERM, the API *********************************)
CanCancel == in_poll /\ curl_socket # BAD

(* lws_cancel_poll, then keep_running.  A closed number cannot be closed.     *)
CancelPoll ==
  IF ~CanCancel THEN UNCHANGED <<cancel_poll, curl_socket, owner, victims>>
  ELSE /\ cancel_poll' = TRUE
       /\ IF owner[curl_socket] = "free" THEN UNCHANGED <<curl_socket, owner, victims>>
          ELSE /\ owner' = [owner EXCEPT ![curl_socket] = "free"]
               /\ victims' = victims \cup {owner[curl_socket]}
               /\ curl_socket' = BAD

Sigterm ==
  /\ pc # "exit"
  /\ CancelPoll
  /\ keep_running' = FALSE
  /\ UNCHANGED <<pc, in_poll, conn, conn_closed, reused, taken_late>>

ApiCloses ==
  /\ Alive /\ pc # "exit"
  /\ conn_closed' = TRUE
  /\ UNCHANGED <<pc, keep_running, sigVars, conn, reused, owner, taken_late, victims>>

(****************************** Specification ********************************)
MainStep ==
  \/ Test \/ Arm \/ Reuse \/ ConnectFails \/ WaitBreaks \/ Got \/ Failed \/ Post \/ PostFails
  \/ \E fd \in Fds : Connect(fd)

Environment ==
  \/ Deliver \/ DropConnection \/ Sigterm \/ ApiCloses
  \/ \E fd \in Fds : LuaOpens(fd) \/ LuaCloses(fd)

Next == MainStep \/ Environment

(* main never blocks but in the poll; a request is handled in finite time.    *)
Spec == Init /\ [][Next]_vars /\ WF_vars(MainStep)

(****************************** Properties ***********************************)
(* Every variable keeps its type.                                             *)
TypeOK ==
  /\ pc \in {"test", "arm", "connect", "wait", "got", "failed", "work", "exit"}
  /\ {keep_running, in_poll, cancel_poll, conn_closed, reused} \subseteq BOOLEAN
  /\ curl_socket \in Fds \cup {BAD} /\ conn \in Fds \cup {BAD}
  /\ owner \in [Fds -> {"free", "api", "lua"}]
  /\ taken_late \in 0 .. 2 /\ victims \subseteq {"api", "lua"}

(* However late the signal comes, whether or not it cancels a poll: at most   *)
(* one further invocation is taken.                                           *)
AtMostOneLate == taken_late <= 1

(* A waiting poll whose connection the handler has closed ends the process.   *)
CancelledPollEnds ==
  (cancel_poll /\ pc = "wait" /\ conn # BAD /\ owner[conn] = "free") ~> pc = "exit"

(* With an API that always has another invocation for a waiting runtime,      *)
(* SIGTERM ends the process, whenever it comes.                               *)
TermEndsBusy == WF_vars(Deliver) => (~keep_running ~> pc = "exit")

(* What the comment on lws_handle_socket promises: the handler closes the     *)
(* poll's socket to cancel the poll, so SIGTERM ends the process although the *)
(* API has nothing to hand out.                                               *)
SigtermEndsPoll == ~keep_running ~> pc = "exit"

(* And what it closes is that socket, never a descriptor of the Lua code.     *)
ClosesOnlyPollSocket == "lua" \notin victims

(************************* Inductive invariant *******************************)
(* An invocation taken after SIGTERM is the last: main is past the poll, and  *)
(* finds keep_running cleared when it comes back to the loop's condition.     *)
LateInv ==
  /\ taken_late \in {0, 1}
  /\ keep_running => taken_late = 0
  /\ taken_late = 1 => pc \in {"got", "work", "test", "exit"}
===============================================================================
