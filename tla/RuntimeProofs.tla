---------------------------- MODULE RuntimeProofs -----------------------------
(* Theorems about Runtime for every number of invocations, every set of chunk *)
(* results and every configuration.                                           *)
EXTENDS Runtime, TLAPS

(* The conversion of a chunk's result to int gives an integer.                *)
LEMMA ToIntType == ASSUME NEW v \in Results PROVE ToInt(v) \in Int
BY WidthAssumption, ResultAssumption DEF ToInt

(* What is kept as an answer is a well-formed answer.                         *)
LEMMA ReplyType ==
  ASSUME NEW kind \in {"none", "response", "stream", "error"}, NEW status \in Nat,
         NEW body \in Seq(Parts), request_id \in Nat
  PROVE  Reply(kind, status, body) \in Answers
BY DEF Reply, Answers

LEMMA NoAnswerType == NoAnswer \in Answers
<1>1. <<>> \in Seq(Parts)
  OBVIOUS
<1> QED BY <1>1 DEF NoAnswer, Answers

LEMMA EmptyBodyType == <<>> \in Seq(Parts)
OBVIOUS

LEMMA FreshVMType == FreshVM \in VMs
BY DEF FreshVM, VMs

(* A group of variables that a step leaves alone keeps its type.              *)
LEMMA Unchanged ==
  ASSUME TypeOK
  PROVE  /\ UNCHANGED bodyVars => BodyTypeOK'
         /\ UNCHANGED streamVars => StreamTypeOK'
         /\ UNCHANGED transfer => TransferTypeOK'
         /\ UNCHANGED stateVars => StateTypeOK'
         /\ UNCHANGED lctxVars => LctxTypeOK'
         /\ UNCHANGED apiVars => ApiTypeOK'
<1>1. UNCHANGED bodyVars => BodyTypeOK'
  BY DEF TypeOK, BodyTypeOK, bodyVars
<1>2. UNCHANGED streamVars => StreamTypeOK'
  BY DEF TypeOK, StreamTypeOK, streamVars
<1>3. UNCHANGED transfer => TransferTypeOK'
  BY DEF TypeOK, TransferTypeOK
<1>4. UNCHANGED stateVars => StateTypeOK'
  BY DEF TypeOK, StateTypeOK, stateVars
<1>5. UNCHANGED lctxVars => LctxTypeOK'
  BY DEF TypeOK, LctxTypeOK, lctxVars
<1>6. UNCHANGED apiVars => ApiTypeOK'
  BY DEF TypeOK, ApiTypeOK, apiVars
<1> QED BY <1>1, <1>2, <1>3, <1>4, <1>5, <1>6

(* An invocation handed out, and an answer taken, keep the API's types.       *)
LEMMA DeliverType ==
  ASSUME TypeOK, NEW i \in Invocations, Deliver(i) PROVE ApiTypeOK'
BY NoAnswerType DEF TypeOK, ApiTypeOK, Deliver

LEMMA AcceptType ==
  ASSUME TypeOK, NEW a \in Answers, Accept(a), acked' \in BOOLEAN PROVE ApiTypeOK'
BY DEF TypeOK, ApiTypeOK, Accept

LEMMA PostType ==
  ASSUME TypeOK, NEW a \in Answers, PostAcked(a) \/ PostFailed(a)
  PROVE  ApiTypeOK' /\ TransferTypeOK'
<1>1. acked' \in BOOLEAN
  BY DEF TypeOK, ApiTypeOK, PostAcked, PostFailed
<1>2. CASE Accept(a)
  BY <1>1, <1>2, AcceptType DEF TypeOK, TransferTypeOK, PostAcked, PostFailed
<1>3. CASE ~Accept(a)
  BY <1>1, <1>3 DEF TypeOK, TransferTypeOK, ApiTypeOK, PostAcked, PostFailed
<1> QED BY <1>2, <1>3

(* Every variable keeps its type, whatever the chunks and the API do.         *)
THEOREM TypeCorrect == Spec => []TypeOK
<1>1. Init => TypeOK
  <2> SUFFICES ASSUME Init PROVE TypeOK
    OBVIOUS
  <2>1. MainTypeOK
    BY DEF Init, MainTypeOK
  <2>2. BodyTypeOK
    BY EmptyBodyType DEF Init, BodyTypeOK
  <2>3. StreamTypeOK /\ TransferTypeOK
    BY DEF Init, StreamTypeOK, TransferTypeOK
  <2>4. StateTypeOK /\ LctxTypeOK
    BY FreshVMType DEF Init, StateTypeOK, LctxTypeOK
  <2>5. ApiTypeOK
    BY NoAnswerType DEF Init, ApiTypeOK
  <2> QED BY <2>1, <2>2, <2>3, <2>4, <2>5 DEF TypeOK
<1>2. TypeOK /\ [Next]_vars => TypeOK'
  <2> SUFFICES ASSUME TypeOK, [Next]_vars PROVE TypeOK'
    OBVIOUS
  <2> USE Unchanged DEF TypeOK, MainTypeOK
  <2>1. CASE NextFails
    BY <2>1 DEF NextFails, AfterPoll, TransferTypeOK
  <2>2. ASSUME NEW i \in Invocations, NextLost(i) \/ NextMalformed(i) \/ NextInvocation(i)
        PROVE  TypeOK'
    BY <2>2, DeliverType DEF NextLost, NextMalformed, NextInvocation, AfterPoll, TransferTypeOK
  <2>3. CASE NextFailed
    BY <2>3 DEF NextFailed, AfterFailedPoll
  <2>4. CASE \E r \in {0, 404, -1} : Prepare(r)
    BY <2>4 DEF Prepare
  <2>5. CASE Acquire
    <3>1. StateTypeOK'
      BY <2>5 DEF Acquire, VMs, StateTypeOK
    <3>2. LctxTypeOK'
      BY <2>5 DEF Acquire, FirstChunk, LctxTypeOK
    <3> QED
      BY <2>5, <3>1, <3>2 DEF Acquire
  <2>6. CASE AcquireFails
    BY <2>6 DEF AcquireFails
  <2>7. CASE ChunkWrite
    BY <2>7 DEF ChunkWrite, Part, Parts, InRequestEnv, Invocations, mainVars, BodyTypeOK
  <2>8. CASE ChunkFlush
    <3> USE <2>8 DEF StreamBegins, StreamBeginFails, StreamGoesOn, StreamGoesOnFails
    <3>1. MainTypeOK'
      BY DEF ChunkFlush, mainVars
    <3>2. BodyTypeOK'
      BY DEF ChunkFlush, Drained, PartlyRead, BodyTypeOK
    <3>3. StreamTypeOK'
      BY DEF ChunkFlush, StreamTypeOK
    <3>4. TransferTypeOK'
      BY DEF ChunkFlush, TransferTypeOK
    <3>5. LctxTypeOK'
      BY DEF ChunkFlush, LctxTypeOK
    <3> QED BY <3>1, <3>2, <3>3, <3>4, <3>5 DEF ChunkFlush
  <2>9. CASE ChunkSetComplete
    BY <2>9 DEF ChunkSetComplete, mainVars, LctxTypeOK
  <2>10. CASE ChunkSetClose
    BY <2>10 DEF ChunkSetClose, mainVars, StateTypeOK
  <2>11. CASE \E s \in Statuses : ChunkSetStatus(s)
    BY <2>11, ResultAssumption DEF ChunkSetStatus, mainVars
  <2>12. CASE ChunkFails
    <3>1. MainTypeOK'
      BY <2>12 DEF ChunkFails, EndRun, MainTypeOK
    <3>2. StateTypeOK'
      BY <2>12 DEF ChunkFails, VMs, StateTypeOK
    <3>3. LctxTypeOK'
      BY <2>12 DEF ChunkFails, EndRun, LctxTypeOK
    <3> QED
      BY <2>12, <3>1, <3>2, <3>3 DEF ChunkFails
  <2>13. CASE \E v \in Results : ChunkReturns(v)
    <3> PICK v \in Results : ChunkReturns(v)
      BY <2>13
    <3> USE ToIntType DEF GoTo, EndRun, PostOrEnd, FirstChunk
    <3>0. chunk \in {"init", "pre", "main", "post"}
      BY DEF ChunkReturns
    <3>1. MainTypeOK'
      BY <3>0 DEF ChunkReturns
    <3>2. StateTypeOK'
      <4>1. vm' \in VMs
        BY DEF ChunkReturns, StateTypeOK, VMs
      <4> QED BY <4>1 DEF ChunkReturns, StateTypeOK
    <3>3. LctxTypeOK'
      BY <3>0 DEF ChunkReturns, LctxTypeOK
    <3> QED BY <3>1, <3>2, <3>3 DEF ChunkReturns
  <2>14. CASE Release
    <3>1. StateTypeOK'
      <4>1. CASE MustClose
        <5>1. CloseState
          BY <2>14, <4>1 DEF Release
        <5> QED BY <5>1, FreshVMType DEF CloseState, StateTypeOK
      <4>2. CASE ~MustClose
        BY <2>14, <4>2 DEF Release, StateTypeOK
      <4> QED BY <4>1, <4>2
    <3> QED
      BY <2>14, <3>1 DEF Release
  <2>15. ASSUME NEW ok \in BOOLEAN, Finalize(ok) PROVE TypeOK'
    <3> USE <2>15
    <3>1. MainTypeOK'
      BY DEF Finalize
    <3>2. BodyTypeOK'
      BY DEF Finalize, BodyTypeOK, bodyVars, Drained, PartlyRead
    <3>3. StreamTypeOK'
      BY DEF Finalize, StreamTypeOK
    <3>4. TransferTypeOK'
      BY DEF Finalize, TransferTypeOK
    <3>5. ApiTypeOK'
      <4>1. Streamed \in Answers
        BY ReplyType DEF Streamed, StreamTypeOK, BodyTypeOK, Invocations
      <4>2. acked' \in BOOLEAN
        BY DEF Finalize, apiVars, ApiTypeOK
      <4> QED BY <4>1, <4>2, AcceptType DEF Finalize, apiVars, ApiTypeOK
    <3> QED BY <3>1, <3>2, <3>3, <3>4, <3>5 DEF Finalize
  <2>16. ASSUME NEW ok \in BOOLEAN, Dispatch(ok) PROVE TypeOK'
    <3> USE <2>16
    <3>1. MainTypeOK'
      BY DEF Dispatch, ErrorResponse
    <3>2. ErrorDocument \in Seq(Parts)
      <4>1. ErrorPart(request_id, StatusCode(rc_request)) \in Parts
        BY DEF ErrorPart, StatusCode, Parts, Invocations
      <4> QED BY <4>1 DEF ErrorDocument
    <3>3. BodyTypeOK'
      BY <3>2, EmptyBodyType DEF Dispatch, ErrorResponse, BodyTypeOK
    <3> QED BY <3>1, <3>3 DEF Dispatch
  <2>17. ASSUME NEW ok \in BOOLEAN, Respond(ok) PROVE TypeOK'
    BY <2>17, ReplyType, PostType DEF Respond, Response, Invocations, BodyTypeOK
  <2>18. ASSUME NEW ok \in BOOLEAN, Report(ok) PROVE TypeOK'
    <3>1. ErrorAnswer \in Answers
      <4>1. request_id \in Nat
        BY DEF Invocations
      <4> QED BY <4>1, ReplyType, EmptyBodyType DEF ErrorAnswer
    <3>2. MainTypeOK'
      BY <2>18 DEF Report, AfterReport
    <3> QED BY <2>18, <3>1, <3>2, PostType DEF Report
  <2>19. CASE Cleanup
    <3>1. MainTypeOK'
      BY <2>19 DEF Cleanup, ClearRequest, MainTypeOK
    <3>2. BodyTypeOK'
      BY <2>19, EmptyBodyType DEF Cleanup, ClearRequest, ClearBody, BodyTypeOK
    <3>3. StreamTypeOK'
      BY <2>19 DEF Cleanup, ClearRequest, StreamTypeOK
    <3>4. TransferTypeOK'
      BY <2>19 DEF Cleanup, TransferTypeOK
    <3>5. StateTypeOK'
      <4>1. CASE CloseState
        BY <4>1, FreshVMType DEF CloseState, StateTypeOK
      <4> QED BY <2>19, <4>1 DEF Cleanup
    <3> QED
      BY <2>19, <3>1, <3>2, <3>3, <3>4, <3>5 DEF Cleanup
  <2>20. CASE Sigterm
    BY <2>20 DEF Sigterm
  <2>21. CASE UNCHANGED vars
    BY <2>21 DEF vars, mainVars
  <2> QED
    BY <2>1, <2>2, <2>3, <2>4, <2>5, <2>6, <2>7, <2>8, <2>9, <2>10, <2>11, <2>12, <2>13,
       <2>14, <2>15, <2>16, <2>17, <2>18, <2>19, <2>20, <2>21
       DEF Next, Polling, MainStep, ChunkWorks, ChunkEnds
<1> QED BY <1>1, <1>2, PTL DEF Spec
-------------------------------------------------------------------------------
(* The safety properties of main's loop, of the Lua states and of the API.    *)

(* Every call of main leaves the API quiet or leaves a trace in pc, rc or     *)
(* keep_running by which the loop will not poll again.                        *)
LEMMA LoopInvStep == TypeOK /\ LoopInv /\ [Next]_vars => LoopInv'
<1> SUFFICES ASSUME TypeOK, LoopInv, [Next]_vars PROVE LoopInv'
  OBVIOUS
<1> USE DEF LoopInv, Quiet, CanAddHandle
<1>t. srv \in [Invocations -> {"queued", "running", "answered"}]
  BY DEF TypeOK, ApiTypeOK
<1>1. CASE NextFails
  BY <1>1 DEF NextFails, AfterPoll, streamVars, apiVars
<1>2. ASSUME NEW i \in Invocations, NextLost(i) \/ NextMalformed(i) \/ NextInvocation(i)
      PROVE  LoopInv'
  BY <1>2, <1>t DEF NextLost, NextMalformed, NextInvocation, AfterPoll, Deliver, streamVars
<1>3. CASE NextFailed
  BY <1>3 DEF NextFailed, AfterFailedPoll, streamVars, apiVars
<1>4. CASE \E r \in {0, 404, -1} : Prepare(r)
  BY <1>4 DEF Prepare, streamVars, apiVars
<1>5. CASE Acquire
  BY <1>5 DEF Acquire, streamVars, apiVars
<1>6. CASE AcquireFails
  BY <1>6 DEF AcquireFails, streamVars, apiVars
<1>7. CASE ChunkWorks
  BY <1>7 DEF ChunkWorks, ChunkWrite, ChunkFlush, ChunkSetComplete, ChunkSetClose, ChunkSetStatus,
     InRequestEnv, StatusWritable, mainVars, apiVars
<1>8. CASE ChunkFails
  BY <1>8 DEF ChunkFails, EndRun, apiVars
<1>9. CASE \E v \in Results : ChunkReturns(v)
  BY <1>9 DEF ChunkReturns, GoTo, EndRun, PostOrEnd, apiVars
<1>10. CASE Release
  BY <1>10 DEF Release, apiVars
<1>11. ASSUME NEW ok \in BOOLEAN, Finalize(ok) PROVE LoopInv'
  BY <1>11, <1>t DEF Finalize, Accept, apiVars
<1>12. ASSUME NEW ok \in BOOLEAN, Dispatch(ok) PROVE LoopInv'
  BY <1>12, <1>t DEF Dispatch, ErrorResponse, ResponseIsOut, apiVars, TypeOK, MainTypeOK
<1>13. ASSUME NEW ok \in BOOLEAN, Respond(ok) PROVE LoopInv'
  BY <1>13, <1>t DEF Respond, PostAcked, PostFailed, Accept
<1>14. ASSUME NEW ok \in BOOLEAN, Report(ok) PROVE LoopInv'
  BY <1>14, <1>t DEF Report, PostAcked, PostFailed, Accept, AfterReport
<1>15. CASE Cleanup
  BY <1>15 DEF Cleanup, ClearRequest, apiVars
<1>16. CASE Sigterm
  BY <1>16 DEF Sigterm, streamVars, apiVars
<1>17. CASE UNCHANGED vars
  BY <1>17 DEF vars, mainVars, streamVars, apiVars
<1> QED
  BY <1>1, <1>2, <1>3, <1>4, <1>5, <1>6, <1>7, <1>8, <1>9, <1>10, <1>11, <1>12, <1>13, <1>14,
     <1>15, <1>16, <1>17
     DEF Next, Polling, MainStep, ChunkEnds

(* No invocation is left without an answer when the next one is asked for.    *)
THEOREM EveryInvocationAnswered == Spec => []AnsweredBeforePoll
<1>1. Init => LoopInv
  BY DEF Init, LoopInv, Quiet
<1>2. LoopInv => AnsweredBeforePoll
  BY DEF LoopInv, Quiet, AnsweredBeforePoll
<1> QED BY <1>1, <1>2, LoopInvStep, TypeCorrect, PTL DEF Spec

(* libcurl's handle is free whenever the next invocation is asked for.        *)
THEOREM HandleAlwaysFree == Spec => []HandleFree
<1>1. Init => LoopInv
  BY DEF Init, LoopInv, Quiet
<1>2. LoopInv => HandleFree
  BY DEF LoopInv, Quiet, HandleFree
<1> QED BY <1>1, <1>2, LoopInvStep, TypeCorrect, PTL DEF Spec

(* An acknowledged answer leads main to the cleanup, whatever the run's       *)
(* result was.                                                                *)
LEMMA AckInvStep == TypeOK /\ LoopInv /\ AckInv /\ [Next]_vars => AckInv'
<1> SUFFICES ASSUME TypeOK, LoopInv, AckInv, [Next]_vars PROVE AckInv'
  OBVIOUS
<1> USE DEF AckInv
<1>1. CASE NextFails
  BY <1>1 DEF NextFails, AfterPoll, apiVars
<1>2. ASSUME NEW i \in Invocations, NextLost(i) \/ NextMalformed(i) \/ NextInvocation(i)
      PROVE  AckInv'
  BY <1>2 DEF NextLost, NextMalformed, NextInvocation, AfterPoll, Deliver
<1>3. CASE NextFailed
  BY <1>3 DEF NextFailed, apiVars
<1>4. CASE \E r \in {0, 404, -1} : Prepare(r)
  BY <1>4 DEF Prepare, apiVars
<1>5. CASE Acquire
  BY <1>5 DEF Acquire, apiVars
<1>6. CASE AcquireFails
  BY <1>6 DEF AcquireFails, apiVars
<1>7. CASE ChunkWorks
  BY <1>7 DEF ChunkWorks, ChunkWrite, ChunkFlush, ChunkSetComplete, ChunkSetClose, ChunkSetStatus,
     InRequestEnv, StatusWritable, mainVars, streamVars, apiVars
<1>8. CASE ChunkFails
  BY <1>8 DEF ChunkFails, EndRun, apiVars
<1>9. CASE \E v \in Results : ChunkReturns(v)
  BY <1>9, ToIntType DEF ChunkReturns, GoTo, EndRun, PostOrEnd, apiVars
<1>10. CASE Release
  BY <1>10 DEF Release, apiVars
<1>11. ASSUME NEW ok \in BOOLEAN, Finalize(ok) PROVE AckInv'
  BY <1>11 DEF Finalize, apiVars
<1>12. ASSUME NEW ok \in BOOLEAN, Dispatch(ok) PROVE AckInv'
  BY <1>12 DEF Dispatch, ErrorResponse, ResponseIsOut, apiVars, TypeOK, MainTypeOK
<1>13. ASSUME NEW ok \in BOOLEAN, Respond(ok) PROVE AckInv'
  BY <1>13 DEF Respond, PostAcked, PostFailed
<1>14. ASSUME NEW ok \in BOOLEAN, Report(ok) PROVE AckInv'
  BY <1>14 DEF Report, PostAcked, PostFailed
<1>15. CASE Cleanup
  BY <1>15 DEF Cleanup, apiVars
<1>16. CASE Sigterm
  BY <1>16 DEF Sigterm, streamVars, apiVars
<1>17. CASE UNCHANGED vars
  BY <1>17 DEF vars, mainVars, streamVars, apiVars
<1> QED
  BY <1>1, <1>2, <1>3, <1>4, <1>5, <1>6, <1>7, <1>8, <1>9, <1>10, <1>11, <1>12, <1>13, <1>14,
     <1>15, <1>16, <1>17
     DEF Next, Polling, MainStep, ChunkEnds

(* Once its answer is acknowledged, nothing more is posted for a request.     *)
THEOREM NothingPostedAfterAck == Spec => []NothingAfterAck
<1>1. Init => LoopInv /\ AckInv
  BY DEF Init, LoopInv, Quiet, AckInv
<1>2. AckInv => NothingAfterAck
  BY DEF AckInv, NothingAfterAck
<1> QED BY <1>1, <1>2, LoopInvStep, AckInvStep, TypeCorrect, PTL DEF Spec

(* req_count, state_init and state_close tell the history of the Lua state.   *)
LEMMA StateInvStep == TypeOK /\ StateInv /\ [Next]_vars => StateInv'
<1> SUFFICES ASSUME TypeOK, StateInv, [Next]_vars PROVE StateInv'
  OBVIOUS
<1> USE ConfigAssumption DEF StateInv, InRun
<1>t. vm \in [inits : Nat, failed : BOOLEAN, used : Nat] /\ req_count \in Nat
  BY DEF TypeOK, StateTypeOK, VMs
<1>1. CASE Polling
  BY <1>1 DEF Polling, NextFails, NextLost, NextMalformed, NextInvocation, AfterPoll, stateVars,
     lctxVars
<1>2. CASE NextFailed
  BY <1>2 DEF NextFailed, stateVars, lctxVars
<1>3. CASE \E r \in {0, 404, -1} : Prepare(r)
  BY <1>3 DEF Prepare, stateVars, lctxVars
<1>4. CASE Acquire
  BY <1>4, <1>t DEF Acquire, FirstChunk, FreshVM
<1>5. CASE AcquireFails
  BY <1>5 DEF AcquireFails, stateVars, lctxVars
<1>6. CASE ChunkWorks
  BY <1>6 DEF ChunkWorks, ChunkWrite, ChunkFlush, ChunkSetComplete, ChunkSetClose, ChunkSetStatus,
     mainVars, stateVars, lctxVars
<1>7. CASE ChunkFails
  BY <1>7, <1>t DEF ChunkFails, EndRun
<1>8. CASE \E v \in Results : ChunkReturns(v)
  BY <1>8, <1>t DEF ChunkReturns, GoTo, EndRun, PostOrEnd, FirstChunk
<1>9. CASE Release
  <2>0. pc = "release" /\ pc' = "finalize" /\ chunk = "none" /\ chunk' = "none" /\ L
    BY <1>9 DEF Release, lctxVars
  <2>1. CASE MustClose
    BY <1>9, <1>t, <2>0, <2>1 DEF Release, CloseState, FreshVM
  <2>2. CASE ~MustClose
    <3>1. UNCHANGED <<L, state_init, state_close, vm>> /\ req_count' = req_count + 1
      BY <1>9, <2>2 DEF Release
    <3>2. ~state_close /\ (ReqMax > 0 => ~(req_count + 1 >= ReqMax))
      BY <2>2 DEF MustClose
    <3>3. ReqMax > 0 => req_count' < ReqMax
      BY <3>1, <3>2, <1>t
    <3>4. vm'.used = req_count' /\ vm'.inits = IF state_init' /\ HasInit THEN 1 ELSE 0
      BY <2>0, <3>1
    <3>5. ~vm'.failed \/ vm.failed
      BY <3>1
    <3>6. ~vm.failed
      BY <2>2 DEF MustClose
    <3> QED BY <2>0, <3>1, <3>2, <3>3, <3>4
  <2> QED BY <2>1, <2>2
<1>10. ASSUME NEW ok \in BOOLEAN, Finalize(ok) \/ Dispatch(ok) \/ Respond(ok) \/ Report(ok)
       PROVE  StateInv'
  BY <1>10 DEF Finalize, Dispatch, ErrorResponse, Respond, Report, stateVars, lctxVars
<1>11. CASE Cleanup
  BY <1>11, <1>t DEF Cleanup, CloseState, FreshVM, stateVars, lctxVars
<1>12. CASE Sigterm
  BY <1>12 DEF Sigterm, stateVars, lctxVars
<1>13. CASE UNCHANGED vars
  BY <1>13 DEF vars, mainVars, stateVars, lctxVars
<1> QED
  BY <1>1, <1>2, <1>3, <1>4, <1>5, <1>6, <1>7, <1>8, <1>9, <1>10, <1>11, <1>12, <1>13
     DEF Next, MainStep, ChunkEnds

LEMMA StateInvHolds == Spec => [](TypeOK /\ StateInv)
<1>1. Init => StateInv
  BY ConfigAssumption DEF Init, StateInv, InRun, FreshVM
<1> QED BY <1>1, StateInvStep, TypeCorrect, PTL DEF Spec

(* A Lua state that failed, or was asked to close, runs no further request.   *)
THEOREM FailedStateIsClosed == Spec => []ClosedBeforeReuse
<1>1. StateInv => ClosedBeforeReuse
  BY DEF StateInv, InRun, ClosedBeforeReuse
<1> QED BY <1>1, StateInvHolds, PTL

(* The init chunk completes exactly once in a Lua state, before any other.    *)
THEOREM InitChunkOnce == Spec => []InitOncePerState
<1>1. StateInv => InitOncePerState
  BY DEF StateInv, InRun, InitOncePerState
<1> QED BY <1>1, StateInvHolds, PTL

(* No Lua state serves more requests than LWS_REQ_MAX allows.                 *)
THEOREM RequestLimit == Spec => []ReqMaxRespected
<1>1. TypeOK /\ StateInv => ReqMaxRespected
  BY ConfigAssumption DEF TypeOK, StateTypeOK, VMs, StateInv, InRun, ReqMaxRespected
<1> QED BY <1>1, StateInvHolds, PTL
-------------------------------------------------------------------------------
(* What Runtime keeps apart between requests, and what it promises the API.   *)

(* Whichever path a request takes, the cleanup finds all that it left: the    *)
(* read position is not 0 only while the body has memory.                     *)
LEMMA CleanInvStep == TypeOK /\ CleanInv /\ [Next]_vars => CleanInv'
<1> SUFFICES ASSUME TypeOK, CleanInv, [Next]_vars PROVE CleanInv'
  OBVIOUS
<1> USE DEF CleanInv, CleanSlate
<1>t. resp_body \in Seq(Parts) /\ resp_body_pos \in Nat /\ resp_body_data \in BOOLEAN
  BY DEF TypeOK, BodyTypeOK
<1>1. CASE Polling
  BY <1>1 DEF Polling, NextFails, NextLost, NextMalformed, NextInvocation, AfterPoll, bodyVars
<1>2. CASE NextFailed
  BY <1>2 DEF NextFailed, bodyVars
<1>3. CASE \E r \in {0, 404, -1} : Prepare(r)
  BY <1>3 DEF Prepare, bodyVars
<1>4. CASE Acquire \/ AcquireFails
  BY <1>4 DEF Acquire, AcquireFails, bodyVars
<1>5. CASE ChunkWorks
  <2>1. CASE ChunkWrite
    BY <2>1 DEF ChunkWrite, InRequestEnv, mainVars
  <2>2. CASE ChunkFlush
    <3>1. UNCHANGED <<resp_body, resp_body_data, pc>> /\ pc = "run"
      BY <2>2 DEF ChunkFlush, InRequestEnv, mainVars
    <3>2. resp_body = <<>> /\ resp_body_pos = 0 => resp_body_pos' = 0
      BY <2>2 DEF ChunkFlush, StreamBegins, StreamBeginFails, StreamGoesOn, StreamGoesOnFails,
         Drained, PartlyRead
    <3> QED BY <3>1, <3>2
  <2>3. CASE ChunkSetComplete \/ ChunkSetClose \/ \E s \in Statuses : ChunkSetStatus(s)
    BY <2>3 DEF ChunkSetComplete, ChunkSetClose, ChunkSetStatus, StatusWritable, InRequestEnv,
       mainVars, bodyVars
  <2> QED BY <1>5, <2>1, <2>2, <2>3 DEF ChunkWorks
<1>6. CASE ChunkEnds
  BY <1>6 DEF ChunkEnds, ChunkFails, ChunkReturns, EndRun, GoTo, PostOrEnd, bodyVars
<1>7. CASE Release
  BY <1>7 DEF Release, bodyVars
<1>8. ASSUME NEW ok \in BOOLEAN, Finalize(ok) PROVE CleanInv'
  <2>1. resp_body = <<>> /\ resp_body_pos = 0 => resp_body_pos' = 0
    BY <1>8 DEF Finalize, Drained, PartlyRead
  <2> QED BY <1>8, <2>1 DEF Finalize
<1>9. ASSUME NEW ok \in BOOLEAN, Dispatch(ok) PROVE CleanInv'
  BY <1>9, <1>t DEF Dispatch, ErrorResponse
<1>10. ASSUME NEW ok \in BOOLEAN, Respond(ok) \/ Report(ok) PROVE CleanInv'
  BY <1>10 DEF Respond, Report, bodyVars
<1>11. CASE Cleanup
  BY <1>11, <1>t DEF Cleanup, ClearRequest, ClearBody
<1>12. CASE Sigterm
  BY <1>12 DEF Sigterm, bodyVars, streamVars
<1>13. CASE UNCHANGED vars
  BY <1>13 DEF vars, mainVars, bodyVars, streamVars
<1> QED
  BY <1>1, <1>2, <1>3, <1>4, <1>5, <1>6, <1>7, <1>8, <1>9, <1>10, <1>11, <1>12, <1>13
     DEF Next, MainStep

(* A request starts from a clean request context.                             *)
THEOREM RequestStartsClean == Spec => []CleanSlate
<1>1. Init => CleanInv
  BY DEF Init, CleanInv, CleanSlate
<1>2. CleanInv => CleanSlate
  BY DEF CleanInv
<1> QED BY <1>1, <1>2, CleanInvStep, TypeCorrect, PTL DEF Spec

(* The status of the prelude cannot change: the seal comes with it.           *)
LEMMA HeadInvStep == TypeOK /\ CleanInv /\ HeadInv /\ [Next]_vars => HeadInv'
<1> SUFFICES ASSUME TypeOK, CleanInv, HeadInv, [Next]_vars PROVE HeadInv'
  OBVIOUS
<1> USE DEF HeadInv, StreamedHeadIsFinal
<1>1. CASE Polling
  BY <1>1 DEF Polling, NextFails, NextLost, NextMalformed, NextInvocation, AfterPoll, streamVars,
     CleanInv, CleanSlate
<1>2. CASE NextFailed
  BY <1>2 DEF NextFailed, streamVars
<1>3. CASE \E r \in {0, 404, -1} : Prepare(r)
  BY <1>3 DEF Prepare, streamVars
<1>4. CASE Acquire \/ AcquireFails
  BY <1>4 DEF Acquire, AcquireFails, streamVars, lctxVars
<1>5. CASE ChunkWorks
  <2>1. CASE ChunkFlush
    BY <2>1 DEF ChunkFlush, InRequestEnv, StreamBegins, StreamBeginFails, StreamGoesOn,
       StreamGoesOnFails, mainVars
  <2>2. CASE \E s \in Statuses : ChunkSetStatus(s)
    BY <2>2 DEF ChunkSetStatus, StatusWritable, InRequestEnv, streamVars, lctxVars
  <2>3. CASE ChunkWrite \/ ChunkSetComplete \/ ChunkSetClose
    BY <2>3 DEF ChunkWrite, ChunkSetComplete, ChunkSetClose, mainVars, streamVars, lctxVars
  <2> QED BY <1>5, <2>1, <2>2, <2>3 DEF ChunkWorks
<1>6. CASE ChunkEnds
  BY <1>6 DEF ChunkEnds, ChunkFails, ChunkReturns, EndRun, GoTo, PostOrEnd, streamVars
<1>7. CASE Release
  BY <1>7 DEF Release, streamVars
<1>8. ASSUME NEW ok \in BOOLEAN, Finalize(ok) \/ Dispatch(ok) \/ Respond(ok) \/ Report(ok)
      PROVE  HeadInv'
  BY <1>8 DEF Finalize, Dispatch, ErrorResponse, Respond, Report, streamVars
<1>9. CASE Cleanup
  BY <1>9 DEF Cleanup, ClearRequest
<1>10. CASE Sigterm
  BY <1>10 DEF Sigterm, streamVars, lctxVars
<1>11. CASE UNCHANGED vars
  BY <1>11 DEF vars, mainVars, streamVars, lctxVars
<1> QED
  BY <1>1, <1>2, <1>3, <1>4, <1>5, <1>6, <1>7, <1>8, <1>9, <1>10, <1>11 DEF Next, MainStep

(* The status the client was told in a prelude stays the response's status.   *)
THEOREM StreamedHeadStays == Spec => []StreamedHeadIsFinal
<1>1. Init => CleanInv /\ HeadInv
  BY DEF Init, CleanInv, CleanSlate, HeadInv, StreamedHeadIsFinal
<1>2. HeadInv => StreamedHeadIsFinal
  BY DEF HeadInv
<1> QED BY <1>1, <1>2, CleanInvStep, HeadInvStep, TypeCorrect, PTL DEF Spec

(* All that a chunk writes, and the error document, name the request at hand. *)
LEMMA OwnReply ==
  ASSUME OwnInv, answer'.to = request_id, answer'.body \in {resp_body, <<>>}
  PROVE  OwnOutputOnly'
BY DEF OwnInv, OwnOutputOnly

LEMMA OwnPost ==
  ASSUME OwnInv, NEW a, a.to = request_id, a.body \in {resp_body, <<>>},
         PostAcked(a) \/ PostFailed(a)
  PROVE  OwnOutputOnly'
<1>1. CASE answer' = a
  BY <1>1, OwnReply
<1>2. CASE UNCHANGED answer
  BY <1>2 DEF OwnInv, OwnOutputOnly
<1> QED BY <1>1, <1>2 DEF PostAcked, PostFailed, Accept

LEMMA OwnInvStep == TypeOK /\ CleanInv /\ OwnInv /\ [Next]_vars => OwnInv'
<1> SUFFICES ASSUME TypeOK, CleanInv, OwnInv, [Next]_vars PROVE OwnInv'
  OBVIOUS
<1> DEFINE OwnBody == /\ diagnostic \in {0, request_id}
                      /\ \A k \in DOMAIN resp_body : /\ resp_body[k].from = request_id
                                                     /\ resp_body[k].diag \in {0, request_id}
<1>t. /\ resp_body \in Seq(Parts) /\ resp_status \in Nat /\ streaming_prelude \in Nat
      /\ request_id \in Nat
  BY DEF TypeOK, MainTypeOK, BodyTypeOK, StreamTypeOK, Invocations
<1>i. OwnInv <=> OwnBody /\ OwnOutputOnly
  BY DEF OwnInv
<1>b. UNCHANGED <<request_id, diagnostic, resp_body>> => OwnBody'
  BY <1>i
<1>a. UNCHANGED answer => OwnOutputOnly'
  BY <1>i DEF OwnOutputOnly
<1>e. resp_body' = <<>> /\ diagnostic' \in {0, request_id'} => OwnBody'
  OBVIOUS
<1>n. OwnBody' /\ OwnOutputOnly' => OwnInv'
  BY DEF OwnInv
<1> HIDE DEF OwnBody
<1>1. CASE Polling
  <2>1. pc = "next" /\ UNCHANGED <<resp_body, diagnostic>>
    BY <1>1 DEF Polling, NextFails, NextLost, NextMalformed, NextInvocation, AfterPoll, bodyVars
  <2>2. OwnBody'
    BY <1>e, <2>1 DEF CleanInv, CleanSlate
  <2>3. answer' \in {answer, NoAnswer}
    BY <1>1 DEF Polling, NextFails, NextLost, NextMalformed, NextInvocation, Deliver, apiVars
  <2>4. OwnOutputOnly'
    BY <1>a, <2>3 DEF OwnOutputOnly, NoAnswer
  <2> QED BY <1>n, <2>2, <2>4
<1>2. CASE NextFailed \/ (\E r \in {0, 404, -1} : Prepare(r)) \/ Acquire \/ AcquireFails \/ Release
  BY <1>a, <1>b, <1>n, <1>2
     DEF NextFailed, Prepare, Acquire, AcquireFails, Release, bodyVars, apiVars
<1>3. CASE ChunkWorks
  <2>1. CASE ChunkWrite
    <3>1. OwnBody'
      BY <1>i, <1>t, <2>1 DEF ChunkWrite, Part, OwnBody
    <3> QED BY <1>a, <1>n, <2>1, <3>1 DEF ChunkWrite, apiVars
  <2>2. CASE ~ChunkWrite
    BY <1>3, <1>a, <1>b, <1>n, <2>2
       DEF ChunkWorks, ChunkFlush, ChunkSetComplete, ChunkSetClose, ChunkSetStatus, bodyVars, apiVars
  <2> QED BY <2>1, <2>2
<1>4. CASE ChunkEnds
  <2>1. CASE ChunkFails
    <3>1. OwnBody'
      BY <1>i, <2>1 DEF ChunkFails, bodyVars, OwnBody
    <3> QED BY <1>a, <1>n, <2>1, <3>1 DEF ChunkFails, apiVars
  <2>2. CASE \E v \in Results : ChunkReturns(v)
    BY <1>a, <1>b, <1>n, <2>2 DEF ChunkReturns, bodyVars, apiVars
  <2> QED BY <1>4, <2>1, <2>2 DEF ChunkEnds
<1>5. ASSUME NEW ok \in BOOLEAN, Finalize(ok) PROVE OwnInv'
  <2>1. OwnBody'
    BY <1>5, <1>b DEF Finalize
  <2>2. CASE answer' = Streamed
    <3>1. OwnOutputOnly'
      BY <1>i, <2>2, OwnReply DEF Streamed, Reply
    <3> QED BY <1>n, <2>1, <3>1
  <2>3. CASE UNCHANGED answer
    BY <1>a, <1>n, <2>1, <2>3
  <2> QED BY <1>5, <2>2, <2>3 DEF Finalize, Accept, apiVars
<1>6. ASSUME NEW ok \in BOOLEAN, Dispatch(ok) PROVE OwnInv'
  <2>1. resp_body' \in {resp_body, <<>>, ErrorDocument} /\ UNCHANGED <<request_id, diagnostic, answer>>
    BY <1>6 DEF Dispatch, ErrorResponse, apiVars
  <2>2. CASE resp_body' = ErrorDocument
    <3> DEFINE part == ErrorPart(request_id, StatusCode(rc_request))
    <3>1. part.from = request_id /\ part.diag = diagnostic
      BY DEF ErrorPart
    <3>2. DOMAIN resp_body' = {1} /\ resp_body'[1] = part
      BY <2>2 DEF ErrorDocument
    <3>3. OwnBody'
      BY <1>i, <2>1, <3>1, <3>2 DEF OwnBody
    <3> QED BY <1>a, <1>n, <2>1, <3>3
  <2>3. CASE resp_body' = <<>>
    BY <1>a, <1>e, <1>i, <1>n, <2>1, <2>3 DEF OwnBody
  <2> QED BY <1>a, <1>b, <1>n, <2>1, <2>2, <2>3
<1>7. ASSUME NEW ok \in BOOLEAN, Respond(ok) \/ Report(ok) PROVE OwnInv'
  <2>1. OwnBody'
    BY <1>7, <1>b DEF Respond, Report, bodyVars
  <2>2. CASE Respond(ok)
    <3>1. Response.to = request_id /\ Response.body = resp_body
      BY DEF Response, Reply
    <3>2. OwnOutputOnly'
      BY <2>2, <3>1, OwnPost DEF Respond
    <3> QED BY <1>n, <2>1, <3>2
  <2>3. CASE Report(ok)
    <3>1. ErrorAnswer.to = request_id /\ ErrorAnswer.body = <<>>
      BY DEF ErrorAnswer, Reply
    <3>2. OwnOutputOnly'
      BY <2>3, <3>1, OwnPost DEF Report
    <3> QED BY <1>n, <2>1, <3>2
  <2> QED BY <1>7, <2>2, <2>3
<1>8. CASE Cleanup
  BY <1>8, <1>a, <1>e, <1>n DEF Cleanup, ClearRequest, ClearBody, apiVars
<1>9. CASE Sigterm \/ UNCHANGED vars
  BY <1>9, <1>a, <1>b, <1>n DEF Sigterm, vars, bodyVars, apiVars
<1> QED
  BY <1>1, <1>2, <1>3, <1>4, <1>5, <1>6, <1>7, <1>8, <1>9 DEF Next, MainStep

(* No answer carries what another request wrote, nor its diagnostic.          *)
THEOREM AnswersAreOwn == Spec => []OwnOutputOnly
<1>1. Init => CleanInv /\ OwnInv
  BY DEF Init, CleanInv, CleanSlate, OwnInv, OwnOutputOnly, NoAnswer
<1>2. OwnInv => OwnOutputOnly
  BY DEF OwnInv
<1> QED BY <1>1, <1>2, CleanInvStep, OwnInvStep, TypeCorrect, PTL DEF Spec

(* Chunks write no error documents: a body has one only after main has put it *)
(* in the place of everything else.                                           *)
LEMMA BodyInvStep == TypeOK /\ CleanInv /\ BodyInv /\ [Next]_vars => BodyInv'
<1> SUFFICES ASSUME TypeOK, CleanInv, BodyInv, [Next]_vars PROVE BodyInv'
  OBVIOUS
<1> DEFINE Written == \A k \in DOMAIN resp_body : resp_body[k].code = 0
           Handling == {"next", "next_failed", "prepare", "acquire", "run", "release", "finalize",
                        "dispatch"}
<1>t. resp_body \in Seq(Parts) /\ rc_request \in Int
  BY DEF TypeOK, MainTypeOK, BodyTypeOK
<1>i. pc \in Handling => Written
  BY DEF BodyInv
<1>u. UNCHANGED resp_body => (Written <=> Written')
  OBVIOUS
<1>n. (pc' \in Handling => Written') /\ pc' # "respond" => BodyInv'
  BY DEF BodyInv, ErrorReplacesBody
<1> HIDE DEF Written
<1>1. CASE Polling
  BY <1>1, <1>i, <1>u, <1>n
     DEF Polling, NextFails, NextLost, NextMalformed, NextInvocation, AfterPoll, bodyVars
<1>2. CASE NextFailed \/ (\E r \in {0, 404, -1} : Prepare(r)) \/ Acquire \/ AcquireFails \/ Release
  <2>1. UNCHANGED resp_body /\ pc' # "respond" /\ pc \in Handling
    BY <1>2 DEF NextFailed, Prepare, Acquire, AcquireFails, Release, bodyVars
  <2> QED BY <1>i, <1>u, <1>n, <2>1
<1>3. CASE ChunkWorks
  <2>1. UNCHANGED pc /\ pc = "run"
    BY <1>3 DEF ChunkWorks, ChunkWrite, ChunkFlush, ChunkSetComplete, ChunkSetClose, ChunkSetStatus,
       InRequestEnv, StatusWritable, mainVars
  <2>2. CASE ChunkWrite
    <3>1. Written'
      BY <1>i, <1>t, <2>1, <2>2 DEF ChunkWrite, Part, Written
    <3> QED BY <1>n, <2>1, <3>1
  <2>3. CASE ~ChunkWrite
    <3>1. UNCHANGED resp_body
      BY <1>3, <2>3
         DEF ChunkWorks, ChunkFlush, ChunkSetComplete, ChunkSetClose, ChunkSetStatus, bodyVars
    <3> QED BY <1>i, <1>u, <1>n, <2>1, <3>1
  <2> QED BY <2>2, <2>3
<1>4. CASE ChunkEnds
  <2>1. UNCHANGED resp_body /\ pc' \in {"run", "release"} /\ pc = "run"
    BY <1>4 DEF ChunkEnds, ChunkFails, ChunkReturns, EndRun, GoTo, PostOrEnd, bodyVars
  <2> QED BY <1>i, <1>u, <1>n, <2>1
<1>5. ASSUME NEW ok \in BOOLEAN, Finalize(ok) PROVE BodyInv'
  BY <1>5, <1>i, <1>u, <1>n DEF Finalize
<1>6. ASSUME NEW ok \in BOOLEAN, Dispatch(ok) PROVE BodyInv'
  <2>0. pc = "dispatch" /\ UNCHANGED rc_request
    BY <1>6 DEF Dispatch
  <2>1. CASE rc_request > 0 /\ ~ResponseIsOut
    <3>1. ErrorResponse(ok)
      BY <1>6, <2>1 DEF Dispatch
    <3>2. CASE ok
      <4> DEFINE part == ErrorPart(request_id, StatusCode(rc_request))
      <4>1. part.code = StatusCode(rc_request)
        BY DEF ErrorPart
      <4>2. pc' = "respond" /\ resp_body' = <<part>>
        BY <3>1, <3>2 DEF ErrorResponse, ErrorDocument
      <4>3. Len(resp_body') = 1 /\ resp_body'[1] = part
        BY <4>2
      <4>4. StatusCode(rc_request') = StatusCode(rc_request)
        BY <2>0 DEF StatusCode
      <4> QED BY <2>0, <2>1, <4>1, <4>2, <4>3, <4>4 DEF BodyInv, ErrorReplacesBody
    <3>3. CASE ~ok
      <4>1. pc' = "report"
        BY <3>1, <3>3 DEF ErrorResponse
      <4> QED BY <1>n, <4>1
    <3> QED BY <3>2, <3>3
  <2>2. CASE ~(rc_request > 0 /\ ~ResponseIsOut)
    <3>1. UNCHANGED resp_body /\ pc' \in {"report", "cleanup", "respond"}
      BY <1>6, <2>2 DEF Dispatch
    <3>2. pc' = "respond" => ~(rc_request' > 0)
      BY <1>6, <1>t, <2>0, <2>2 DEF Dispatch
    <3>3. Written'
      BY <1>i, <1>u, <2>0, <3>1
    <3> QED BY <3>1, <3>2, <3>3 DEF BodyInv, ErrorReplacesBody, Written
  <2> QED BY <2>1, <2>2
<1>7. ASSUME NEW ok \in BOOLEAN, Respond(ok) \/ Report(ok) PROVE BodyInv'
  BY <1>7, <1>n DEF Respond, Report
<1>8. CASE Cleanup
  <2>1. pc' \in {"next", "exit"} /\ resp_body' = <<>>
    BY <1>8 DEF Cleanup, ClearRequest, ClearBody
  <2> QED BY <1>n, <2>1 DEF Written
<1>9. CASE Sigterm \/ UNCHANGED vars
  <2>1. UNCHANGED <<pc, rc_request, resp_body>>
    BY <1>9 DEF Sigterm, vars, mainVars, bodyVars
  <2> QED BY <2>1 DEF BodyInv, ErrorReplacesBody, StatusCode
<1> QED
  BY <1>1, <1>2, <1>3, <1>4, <1>5, <1>6, <1>7, <1>8, <1>9 DEF Next, MainStep

(* A posted response is the error document alone, or what the chunks wrote.   *)
THEOREM ErrorIsWholeBody == Spec => []ErrorReplacesBody
<1>1. Init => CleanInv /\ BodyInv
  BY DEF Init, CleanInv, CleanSlate, BodyInv, ErrorReplacesBody
<1>2. BodyInv => ErrorReplacesBody
  BY DEF BodyInv
<1> QED BY <1>1, <1>2, CleanInvStep, BodyInvStep, TypeCorrect, PTL DEF Spec

(***************************** The protocol **********************************)
(* What Runtime owes the Lambda runtime API: its steps are those of           *)
(* InvocationProtocol, and a request that could be read is not dropped.       *)

(* main handles an invocation under the ID it was handed out with.            *)
LEMMA RequestInvStep == TypeOK /\ RequestInv /\ [Next]_vars => RequestInv'
<1> SUFFICES ASSUME TypeOK, RequestInv, [Next]_vars PROVE RequestInv'
  OBVIOUS
<1> USE DEF RequestInv
<1>t. /\ srv \in [Invocations -> {"queued", "running", "answered"}]
      /\ request_id \in Invocations \cup {0} /\ 0 \notin Invocations
  BY DEF TypeOK, MainTypeOK, ApiTypeOK, Invocations
<1>a. \A a : Accept(a) /\ UNCHANGED request_id => (request_id' # 0 => srv'[request_id'] # "queued")
  BY <1>t DEF Accept
<1>1. CASE NextFails
  BY <1>1 DEF NextFails, AfterPoll, apiVars
<1>2. ASSUME NEW i \in Invocations, NextLost(i) \/ NextMalformed(i) \/ NextInvocation(i)
      PROVE  RequestInv'
  BY <1>2, <1>t DEF NextLost, NextMalformed, NextInvocation, AfterPoll, Deliver
<1>3. CASE NextFailed
  BY <1>3 DEF NextFailed, apiVars
<1>4. CASE (\E r \in {0, 404, -1} : Prepare(r)) \/ Acquire \/ AcquireFails \/ Release
  BY <1>4 DEF Prepare, Acquire, AcquireFails, Release, apiVars
<1>5. CASE ChunkWorks
  BY <1>5 DEF ChunkWorks, ChunkWrite, ChunkFlush, ChunkSetComplete, ChunkSetClose, ChunkSetStatus,
     InRequestEnv, StatusWritable, mainVars, apiVars
<1>6. CASE ChunkEnds
  BY <1>6 DEF ChunkEnds, ChunkFails, ChunkReturns, GoTo, EndRun, PostOrEnd, apiVars
<1>7. ASSUME NEW ok \in BOOLEAN, Finalize(ok) PROVE RequestInv'
  BY <1>7, <1>a DEF Finalize, apiVars
<1>8. ASSUME NEW ok \in BOOLEAN, Dispatch(ok) PROVE RequestInv'
  BY <1>8 DEF Dispatch, apiVars
<1>9. ASSUME NEW ok \in BOOLEAN, Respond(ok) \/ Report(ok) PROVE RequestInv'
  BY <1>9, <1>a DEF Respond, Report, PostAcked, PostFailed
<1>10. CASE Cleanup
  BY <1>10 DEF Cleanup, ClearRequest
<1>11. CASE Sigterm \/ UNCHANGED vars
  BY <1>11 DEF Sigterm, vars, mainVars, apiVars
<1> QED
  BY <1>1, <1>2, <1>3, <1>4, <1>5, <1>6, <1>7, <1>8, <1>9, <1>10, <1>11
     DEF Next, Polling, MainStep

LEMMA RequestInvHolds == Spec => [](TypeOK /\ LoopInv /\ RequestInv)
<1>1. Init => LoopInv /\ RequestInv
  BY DEF Init, LoopInv, Quiet, RequestInv
<1> QED BY <1>1, LoopInvStep, RequestInvStep, TypeCorrect, PTL DEF Spec

(* Every step as the API sees it: it hands an invocation out, it accepts an   *)
(* answer for the request at hand, main exits, or nothing happens.            *)
LEMMA ApiStep ==
  ASSUME TypeOK, RequestInv, [Next]_vars
  PROVE  \/ pc = "next" /\ pc' # "exit" /\ \E i \in Invocations : Deliver(i)
         \/ /\ pc # "exit" /\ pc' # "exit" /\ request_id \in Invocations
            /\ \E a : Accept(a)
         \/ pc = "cleanup" /\ pc' = "exit" /\ UNCHANGED srv
         \/ (pc' = "exit" <=> pc = "exit") /\ UNCHANGED srv
<1>t. request_id \in Invocations \cup {0}
  BY DEF TypeOK, MainTypeOK
<1>1. CASE Polling
  BY <1>1 DEF Polling, NextFails, NextLost, NextMalformed, NextInvocation, AfterPoll, apiVars
<1>2. CASE NextFailed \/ (\E r \in {0, 404, -1} : Prepare(r)) \/ Acquire \/ AcquireFails \/ Release
  BY <1>2 DEF NextFailed, Prepare, Acquire, AcquireFails, Release, apiVars
<1>3. CASE ChunkWorks
  BY <1>3 DEF ChunkWorks, ChunkWrite, ChunkFlush, ChunkSetComplete, ChunkSetClose, ChunkSetStatus,
     InRequestEnv, StatusWritable, mainVars, apiVars
<1>4. CASE ChunkEnds
  BY <1>4 DEF ChunkEnds, ChunkFails, ChunkReturns, GoTo, EndRun, PostOrEnd, apiVars
<1>5. ASSUME NEW ok \in BOOLEAN, Finalize(ok)
      PROVE  /\ pc # "exit" /\ pc' # "exit" /\ request_id \in Invocations
             /\ (\E a : Accept(a)) \/ UNCHANGED srv
  BY <1>5, <1>t DEF Finalize, RequestInv, apiVars
<1>6. ASSUME NEW ok \in BOOLEAN, Dispatch(ok) PROVE pc = "dispatch" /\ pc' # "exit" /\ UNCHANGED srv
  BY <1>6 DEF Dispatch, ErrorResponse, apiVars
<1>7. ASSUME NEW ok \in BOOLEAN, Respond(ok) \/ Report(ok)
      PROVE  /\ pc # "exit" /\ pc' # "exit" /\ request_id \in Invocations
             /\ (\E a : Accept(a)) \/ UNCHANGED srv
  BY <1>7, <1>t DEF Respond, Report, PostAcked, PostFailed, RequestInv
<1>8. CASE Cleanup
  BY <1>8 DEF Cleanup, apiVars
<1>9. CASE Sigterm \/ UNCHANGED vars
  BY <1>9 DEF Sigterm, vars, mainVars, apiVars
<1> QED
  BY <1>1, <1>2, <1>3, <1>4, <1>5, <1>6, <1>7, <1>8, <1>9 DEF Next, MainStep

(* The states and steps of the runtime are those of the protocol it owes the  *)
(* API: invocations are taken in order, one at a time, each is answered at    *)
(* most once, and after the exit nothing happens.                             *)
THEOREM ImplementsProtocolSafety == Spec => Protocol!Init /\ [][Protocol!Next]_(Protocol!vars)
<1> USE DEF Protocol!Invocations, Invocations
<1>1. Init => Protocol!Init
  BY DEF Init, Protocol!Init
<1>2. TypeOK /\ LoopInv /\ RequestInv /\ [Next]_vars => [Protocol!Next]_(Protocol!vars)
  <2> SUFFICES ASSUME TypeOK, LoopInv, RequestInv, [Next]_vars
               PROVE  [Protocol!Next]_(Protocol!vars)
    OBVIOUS
  <2>1. CASE pc = "next" /\ pc' # "exit" /\ \E i \in Invocations : Deliver(i)
    <3> PICK i \in Invocations : Deliver(i)
      BY <2>1
    <3>1. ASSUME NEW j \in 1 .. (i - 1) PROVE srv[j] = "answered"
      <4>1. j \in Invocations
        BY BoundAssumption
      <4>2. srv[j] # "queued" /\ srv[j] # "running"
        BY <2>1, <4>1 DEF Deliver, LoopInv, Quiet
      <4> QED BY <4>1, <4>2 DEF TypeOK, ApiTypeOK
    <3>2. Protocol!Take(i)
      BY <2>1, <3>1 DEF Protocol!Take, Deliver
    <3> QED BY <3>2 DEF Protocol!Next
  <2>2. CASE /\ pc # "exit" /\ pc' # "exit" /\ request_id \in Invocations
             /\ \E a : Accept(a)
    <3>1. Protocol!Answer(request_id)
      BY <2>2 DEF Protocol!Answer, Accept
    <3> QED BY <2>2, <3>1 DEF Protocol!Next
  <2>3. CASE pc = "cleanup" /\ pc' = "exit" /\ UNCHANGED srv
    BY <2>3 DEF Protocol!Next, Protocol!Stop
  <2>4. CASE (pc' = "exit" <=> pc = "exit") /\ UNCHANGED srv
    BY <2>4 DEF Protocol!vars
  <2> QED BY <2>1, <2>2, <2>3, <2>4, ApiStep
<1> QED BY <1>1, <1>2, RequestInvHolds, PTL DEF Spec

(* A request that could be read is answered before main leaves it, or main    *)
(* ends with a failure.                                                       *)
THEOREM HandledIsNotDropped == Spec => HandledIsAnswered
<1> DEFINE Leaves == pc' = "cleanup" /\ rc' = 0 /\ request_id # 0 /\ pc # "next_failed"
           Answered == srv'[request_id] = "answered"
<1>1. ASSUME TypeOK, LoopInv, RequestInv, Next, Leaves PROVE Answered
  <2>t. request_id \in Invocations /\ srv \in [Invocations -> {"queued", "running", "answered"}]
    BY <1>1 DEF TypeOK, MainTypeOK, ApiTypeOK
  <2>q. Quiet /\ UNCHANGED srv => Answered
    BY <1>1, <2>t DEF Quiet, RequestInv
  <2>a. ASSUME NEW a, Accept(a) PROVE Answered
    BY <2>t, <2>a DEF Accept
  <2>1. ASSUME NEW ok \in BOOLEAN, Dispatch(ok) PROVE Answered
    <3>1. pc = "dispatch" /\ streaming /\ rc_request >= 0 /\ UNCHANGED srv
      BY <1>1, <2>1 DEF Dispatch, ErrorResponse, ResponseIsOut, apiVars, TypeOK, MainTypeOK
    <3> QED BY <1>1, <2>q, <3>1 DEF LoopInv
  <2>2. ASSUME NEW ok \in BOOLEAN, Respond(ok) \/ Report(ok) PROVE Answered
    BY <1>1, <2>2, <2>a DEF Respond, Report, PostAcked, AfterReport
  <2>3. CASE Sigterm
    BY <1>1, <2>3, <2>q DEF Sigterm, LoopInv, apiVars
  <2>4. CASE Polling
    BY <1>1, <2>4 DEF Polling, NextFails, NextLost, NextMalformed, NextInvocation, AfterPoll
  <2>5. CASE ChunkWorks
    BY <1>1, <2>5 DEF ChunkWorks, ChunkWrite, ChunkFlush, ChunkSetComplete, ChunkSetClose,
       ChunkSetStatus, InRequestEnv, StatusWritable, mainVars
  <2>6. CASE ChunkEnds
    BY <1>1, <2>6 DEF ChunkEnds, ChunkFails, ChunkReturns, GoTo, EndRun, PostOrEnd
  <2>7. CASE NextFailed \/ (\E r \in {0, 404, -1} : Prepare(r)) \/ Acquire \/ AcquireFails \/ Release
    BY <1>1, <2>7 DEF NextFailed, Prepare, Acquire, AcquireFails, Release
  <2>8. CASE (\E ok \in BOOLEAN : Finalize(ok)) \/ Cleanup
    BY <1>1, <2>8 DEF Finalize, Cleanup
  <2> QED BY <1>1, <2>1, <2>2, <2>3, <2>4, <2>5, <2>6, <2>7, <2>8 DEF Next, MainStep
<1>2. TypeOK /\ LoopInv /\ RequestInv /\ [Next]_vars => [Leaves => Answered]_vars
  BY <1>1
<1> QED BY <1>2, RequestInvHolds, PTL DEF Spec, HandledIsAnswered

(* A Lua state is closed for a reason.                                        *)
THEOREM StateClosedForCause == Spec => ClosedForCause
<1> DEFINE Cause == state_close \/ (ReqMax > 0 /\ vm.used = ReqMax) \/ pc' = "exit"
<1>1. ASSUME TypeOK, StateInv, Next, L, ~L' PROVE Cause
  <2>1. CASE Release
    <3>1. MustClose
      BY <1>1, <2>1 DEF Release
    <3>2. vm.used = req_count + 1 /\ (ReqMax > 0 => req_count < ReqMax)
      BY <1>1, <2>1 DEF Release, StateInv, InRun
    <3>3. req_count \in Nat
      BY <1>1 DEF TypeOK, StateTypeOK
    <3> QED BY ConfigAssumption, <3>1, <3>2, <3>3 DEF MustClose
  <2>2. CASE Cleanup
    BY <1>1, <2>2 DEF Cleanup, stateVars
  <2>3. CASE Polling \/ NextFailed \/ (\E r \in {0, 404, -1} : Prepare(r)) \/ Acquire \/ AcquireFails
    BY <1>1, <2>3 DEF Polling, NextFails, NextLost, NextMalformed, NextInvocation, AfterPoll,
       NextFailed, Prepare, Acquire, AcquireFails, stateVars
  <2>4. CASE ChunkWorks
    BY <1>1, <2>4 DEF ChunkWorks, ChunkWrite, ChunkFlush, ChunkSetComplete, ChunkSetClose,
       ChunkSetStatus, stateVars
  <2>5. CASE ChunkEnds \/ Sigterm
    BY <1>1, <2>5 DEF ChunkEnds, ChunkFails, ChunkReturns, Sigterm, stateVars
  <2>6. CASE \E ok \in BOOLEAN : Finalize(ok) \/ Dispatch(ok) \/ Respond(ok) \/ Report(ok)
    BY <1>1, <2>6 DEF Finalize, Dispatch, Respond, Report, stateVars
  <2> QED BY <1>1, <2>1, <2>2, <2>3, <2>4, <2>5, <2>6 DEF Next, MainStep
<1>2. TypeOK /\ StateInv /\ [Next]_vars => [L /\ ~L' => Cause]_vars
  BY <1>1
<1> QED BY <1>2, StateInvHolds, PTL DEF Spec, ClosedForCause
===============================================================================
