------------------------------ MODULE PollProofs ------------------------------
(* Theorems about Poll for every set of descriptor numbers.                   *)
EXTENDS Poll, TLAPS

LEMMA BadIsNoDescriptor == BAD \notin Fds
BY FdAssumption DEF BAD

(* libcurl's connection and the table of descriptors keep their types in all  *)
(* that libcurl does to them.                                                 *)
LEMMA ClosedType == TypeOK => Closed \in [Fds -> {"free", "api", "lua"}]
BY BadIsNoDescriptor DEF TypeOK, Closed

LEMMA ConnectionType ==
  ASSUME TypeOK
  PROVE  /\ Disconnect => /\ conn' = BAD /\ conn_closed' \in BOOLEAN /\ reused' \in BOOLEAN
                          /\ owner' \in [Fds -> {"free", "api", "lua"}]
         /\ \A fd \in Fds : Reconnect(fd) =>
              /\ conn' = fd /\ conn_closed' \in BOOLEAN /\ reused' \in BOOLEAN
              /\ owner' \in [Fds -> {"free", "api", "lua"}]
BY ClosedType DEF Disconnect, Reconnect

(* Every variable keeps its type.                                             *)
THEOREM PollTypeCorrect == Spec => []TypeOK
<1>1. Init => TypeOK
  <2> SUFFICES ASSUME Init PROVE TypeOK
    OBVIOUS
  <2>1. {keep_running, in_poll, cancel_poll, conn_closed, reused} \subseteq BOOLEAN
    BY DEF Init
  <2>2. owner \in [Fds -> {"free", "api", "lua"}]
    BY DEF Init
  <2> QED BY <2>1, <2>2 DEF Init, InitialSocket, TypeOK
<1>2. TypeOK /\ [Next]_vars => TypeOK'
  <2> SUFFICES ASSUME TypeOK, [Next]_vars PROVE TypeOK'
    OBVIOUS
  <2> USE DEF TypeOK, sigVars, connVars
  <2>1. CASE Test
    BY <2>1 DEF Test
  <2>2. CASE Arm \/ Reuse
    BY <2>2 DEF Arm, Reuse
  <2>3. ASSUME NEW fd \in Fds, Connect(fd) PROVE TypeOK'
    BY <2>3, ConnectionType DEF Connect
  <2>4. CASE ConnectFails
    BY <2>4, ConnectionType DEF ConnectFails
  <2>5. CASE Deliver
    BY <2>5 DEF Deliver
  <2>6. CASE WaitBreaks
    BY <2>6, ConnectionType DEF WaitBreaks
  <2>7. CASE Got \/ Failed
    BY <2>7 DEF Got, Failed
  <2>8. CASE DropConnection
    BY <2>8, ConnectionType DEF DropConnection
  <2>9. ASSUME NEW fd \in Fds, LuaOpens(fd) \/ LuaCloses(fd) PROVE TypeOK'
    BY <2>9 DEF LuaOpens, LuaCloses
  <2>10. CASE Post
    BY <2>10, ConnectionType DEF Post, PostConnects
  <2>11. CASE PostFails
    BY <2>11, ConnectionType DEF PostFails
  <2>12. CASE Sigterm
    <3>1. CASE CanCancel /\ owner[curl_socket] # "free"
      <4>1. curl_socket \in Fds
        BY <3>1 DEF CanCancel
      <4>2. owner[curl_socket] \in {"api", "lua"}
        BY <3>1, <4>1
      <4> QED BY <2>12, <3>1, <4>1, <4>2 DEF Sigterm, CancelPoll
    <3>2. CASE ~(CanCancel /\ owner[curl_socket] # "free")
      BY <2>12, <3>2 DEF Sigterm, CancelPoll
    <3> QED BY <3>1, <3>2
  <2>13. CASE ApiCloses
    BY <2>13 DEF ApiCloses
  <2>14. CASE UNCHANGED vars
    BY <2>14 DEF vars
  <2> QED
    BY <2>1, <2>2, <2>3, <2>4, <2>5, <2>6, <2>7, <2>8, <2>9, <2>10, <2>11, <2>12, <2>13, <2>14
       DEF Next, MainStep, Environment
<1> QED BY <1>1, <1>2, PTL DEF Spec

(* A late invocation leads main to a test of keep_running, which fails.       *)
LEMMA LateInvStep == TypeOK /\ LateInv /\ [Next]_vars => LateInv'
<1> SUFFICES ASSUME TypeOK, LateInv, [Next]_vars PROVE LateInv'
  OBVIOUS
<1> USE DEF LateInv
<1>t. keep_running \in BOOLEAN
  BY DEF TypeOK
<1>1. CASE Test
  BY <1>1, <1>t DEF Test, LoopCondition
<1>2. CASE Arm \/ Reuse \/ \E fd \in Fds : Connect(fd)
  BY <1>2 DEF Arm, Reuse, Connect
<1>3. CASE ConnectFails \/ WaitBreaks \/ Got \/ Failed
  BY <1>3 DEF ConnectFails, WaitBreaks, Got, Failed
<1>4. CASE Post \/ PostFails
  BY <1>4 DEF Post, PostFails
<1>5. CASE Deliver
  BY <1>5 DEF Deliver
<1>6. CASE DropConnection \/ Sigterm \/ ApiCloses \/ \E fd \in Fds : LuaOpens(fd) \/ LuaCloses(fd)
  BY <1>6 DEF DropConnection, Sigterm, ApiCloses, LuaOpens, LuaCloses
<1>7. CASE UNCHANGED vars
  BY <1>7 DEF vars
<1> QED
  BY <1>1, <1>2, <1>3, <1>4, <1>5, <1>6, <1>7 DEF Next, MainStep, Environment

(* However late SIGTERM comes, at most one further invocation is taken.       *)
THEOREM OneLateAtMost == Spec => []AtMostOneLate
<1>1. Init => LateInv
  BY DEF Init, LateInv
<1>2. LateInv => AtMostOneLate
  BY DEF LateInv, AtMostOneLate
<1> QED BY <1>1, <1>2, LateInvStep, PollTypeCorrect, PTL DEF Spec
===============================================================================
