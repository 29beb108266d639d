------------------------------- MODULE Runtime -------------------------------
(* The custom runtime's request loop: lws_runtime.c's main loop, the request  *)
(* handler of lws_request.c, the Lua state lifecycle of lws_state.c, the      *)
(* chunk sequence of lws_lib.c and the calls of lws_interface.c they make,    *)
(* against the Lambda runtime API (external).  One action stands for one call *)
(* or one operation of a Lua chunk.  How a streamed body is fed to libcurl    *)
(* piece by piece is module Stream; how SIGTERM cancels a poll is module Poll.*)
EXTENDS Integers, Sequences

CONSTANTS
  MaxInvocations,   \* bound: invocations the API ever hands out
  MaxParts,         \* bound: pieces a chunk writes into one response body
  Statuses,         \* what a chunk assigns to response.status
  Results,          \* the lua_Integer values a chunk returns
  IntBits,          \* width of a C int, scaled down
  ReqMax,           \* LWS_REQ_MAX; 0 turns the limit off
  HasInit, HasPre, HasPost,   \* LWS_INIT, LWS_PRE, LWS_POST are set
  Raw,              \* LWS_RAW
  Diagnostic        \* LWS_DIAGNOSTIC

Invocations == 1 .. MaxInvocations

ASSUME BoundAssumption == MaxInvocations \in Nat /\ MaxParts \in Nat
ASSUME WidthAssumption == IntBits \in Nat /\ 2^IntBits \in Nat /\ 2^IntBits > 0
ASSUME ResultAssumption == Results \subseteq Int /\ Statuses \subseteq Nat
ASSUME ConfigAssumption ==
  /\ ReqMax \in Nat
  /\ {HasInit, HasPre, HasPost, Raw, Diagnostic} \subseteq BOOLEAN

(******************************* The state ***********************************)
VARIABLES
  \* main()
  pc,                \* the call main is about to make
  keep_running,      \* cleared by the SIGTERM handler
  rc,                \* exit code: 0 EXIT_SUCCESS, 1 EXIT_FAILURE
  rc_request,        \* what lws_handle_request computed so far
  \* lws_ctx_t, per request
  request_id,        \* 0 is NULL
  resp_status,
  resp_body,         \* sequence of Parts
  resp_body_data,    \* resp_body.data is not NULL
  resp_body_pos,     \* parts read by libcurl while streaming
  diagnostic,        \* invocation whose Lua error is kept; 0 is NULL
  streaming, streaming_paused, streaming_eof,
  streaming_prelude, \* status in the prelude; 0 is NULL
  transfer,          \* the easy handle in the multi handle: none, open, dead
  \* lws_ctx_t, the Lua state
  L,                 \* is open
  req_count, state_init, state_close,
  vm,                \* what happened in the Lua state itself
  \* lws_lua_request_ctx_t
  chunk, complete, sealed,
  \* the Lambda runtime API
  srv,               \* srv[i]: "queued", "running" or "answered"
  answer,            \* the answer it holds for the last invocation
  acked              \* its 2xx for that answer reached the runtime

mainVars   == <<pc, keep_running, rc, rc_request>>
bodyVars   == <<resp_body, resp_body_data, resp_body_pos>>
streamVars == <<streaming, streaming_paused, streaming_eof, streaming_prelude>>
stateVars  == <<L, req_count, state_init, state_close, vm>>
lctxVars   == <<chunk, complete, sealed>>
apiVars    == <<srv, answer, acked>>
vars == <<mainVars, request_id, resp_status, bodyVars, diagnostic, streamVars,
          transfer, stateVars, lctxVars, apiVars>>

(* A piece of a response body: what invocation "from" wrote, or, when code is *)
(* not 0, the JSON error document for that code, with its diagnostic.         *)
Part(i) == [from |-> i, code |-> 0, diag |-> 0]
ErrorPart(i, code) == [from |-> i, code |-> code, diag |-> diagnostic]

NoAnswer == [kind |-> "none", to |-> 0, status |-> 0, body |-> <<>>]
Reply(kind, status, body) == [kind |-> kind, to |-> request_id, status |-> status, body |-> body]
FreshVM == [inits |-> 0, failed |-> FALSE, used |-> 0]

(* Conversion of a lua_Integer to int.                                        *)
ToInt(v) == LET m == v % 2^IntBits IN IF 2 * m >= 2^IntBits THEN m - 2^IntBits ELSE m

Init ==
  /\ pc = "next" /\ keep_running = TRUE /\ rc = 0 /\ rc_request = 0
  /\ request_id = 0 /\ resp_status = 0
  /\ resp_body = <<>> /\ resp_body_data = FALSE /\ resp_body_pos = 0 /\ diagnostic = 0
  /\ streaming = FALSE /\ streaming_paused = FALSE /\ streaming_eof = FALSE
  /\ streaming_prelude = 0 /\ transfer = "none"
  /\ L = FALSE /\ req_count = 0 /\ state_init = FALSE /\ state_close = FALSE /\ vm = FreshVM
  /\ chunk = "none" /\ complete = FALSE /\ sealed = FALSE
  /\ srv = [i \in Invocations |-> "queued"] /\ answer = NoAnswer /\ acked = FALSE

(********************** Transfers to the runtime API *************************)
(* A post runs to its end inside one call.  The API accepts one answer per    *)
(* invocation.                                                                *)
Accept(a) ==
  /\ srv[request_id] = "running"
  /\ srv' = [srv EXCEPT ![request_id] = "answered"]
  /\ answer' = a

MutAddsTwice == TRUE   \* mutant: an attached handle is taken for usable
CanAddHandle == transfer = "none"

PostAcked(a) == CanAddHandle /\ Accept(a) /\ acked' = TRUE /\ UNCHANGED transfer

(* Not built, handle still attached, not sent or refused; or accepted and the *)
(* reply lost; or libcurl's multi handle failed, which leaves the handle      *)
(* attached.                                                                  *)
PostFailed(a) ==
  /\ \/ UNCHANGED <<srv, answer, transfer>>
     \/ CanAddHandle /\ Accept(a) /\ UNCHANGED transfer
     \/ /\ CanAddHandle /\ transfer' = "open"
        /\ Accept(a) \/ UNCHANGED <<srv, answer>>
  /\ UNCHANGED acked

(***************************** Polling ***************************************)
(* The API hands out its next invocation to a pending poll.                   *)
Deliver(i) ==
  /\ srv[i] = "queued" /\ \A j \in 1 .. (i - 1) : srv[j] # "queued"
  /\ srv' = [srv EXCEPT ![i] = "running"]
  /\ answer' = NoAnswer /\ acked' = FALSE

AfterPoll(next, id) ==
  /\ pc = "next" /\ pc' = next /\ request_id' = id
  /\ UNCHANGED <<keep_running, rc, rc_request, resp_status, bodyVars, diagnostic,
                 streamVars, stateVars, lctxVars>>

(* The poll fails: handle still attached, no connection, bad HTTP status,     *)
(* cancelled; or the multi handle fails and leaves the handle attached.       *)
NextFails == transfer' \in {transfer, "open"} /\ UNCHANGED apiVars /\ AfterPoll("next_failed", 0)

(* An invocation was handed out but its reply is lost or has no request ID.   *)
NextLost(i) ==
  CanAddHandle /\ Deliver(i) /\ transfer' \in {"none", "open"} /\ AfterPoll("next_failed", 0)

(* The invocation arrives but is not well formed.                             *)
NextMalformed(i) ==
  CanAddHandle /\ Deliver(i) /\ UNCHANGED transfer /\ AfterPoll("next_failed", i)

NextInvocation(i) ==
  CanAddHandle /\ Deliver(i) /\ UNCHANGED transfer /\ AfterPoll("prepare", i)

(* main's reaction to a failed poll: without a request ID it has to exit.     *)
MutPollsOn == rc   \* mutant: a lost invocation is not noticed
AfterFailedPoll == IF keep_running /\ request_id = 0 THEN 1 ELSE rc

NextFailed ==
  /\ pc = "next_failed"
  /\ pc' = IF keep_running /\ request_id # 0 THEN "report" ELSE "cleanup"
  /\ rc' = AfterFailedPoll
  /\ UNCHANGED <<keep_running, rc_request, request_id, resp_status, bodyVars, diagnostic,
                 streamVars, transfer, stateVars, lctxVars, apiVars>>

(************************* lws_handle_request ********************************)
(* lws_prepare_response and lws_prepare_request: found, 404, or failure.      *)
Prepare(r) ==
  /\ pc = "prepare"
  /\ rc_request' = r
  /\ resp_status' = 200
  /\ pc' = IF r = 0 THEN "acquire" ELSE "dispatch"
  /\ UNCHANGED <<keep_running, rc, request_id, bodyVars, diagnostic, streamVars, transfer,
                 stateVars, lctxVars, apiVars>>

FirstChunk == IF HasPre THEN "pre" ELSE "main"

(* lws_acquire_state, then lws_run up to its first chunk.                     *)
Acquire ==
  /\ pc = "acquire" /\ pc' = "run"
  /\ L' = TRUE
  /\ vm' = [vm EXCEPT !.used = @ + 1]
  /\ complete' = FALSE /\ sealed' = FALSE
  /\ chunk' = IF ~state_init /\ HasInit THEN "init" ELSE FirstChunk
  /\ state_init' = (state_init \/ ~HasInit)
  /\ UNCHANGED <<keep_running, rc, rc_request, request_id, resp_status, bodyVars, diagnostic,
                 streamVars, transfer, req_count, state_close, apiVars>>

AcquireFails ==
  /\ pc = "acquire" /\ pc' = "dispatch"
  /\ ~L
  /\ rc_request' = -1
  /\ UNCHANGED <<keep_running, rc, request_id, resp_status, bodyVars, diagnostic, streamVars,
                 transfer, stateVars, lctxVars, apiVars>>

(*********************** What a Lua chunk does *******************************)
InRequestEnv == pc = "run" /\ chunk \in {"pre", "main", "post"}

(* response.body:write                                                        *)
ChunkWrite ==
  /\ InRequestEnv
  /\ Len(resp_body) < MaxParts
  /\ resp_body' = Append(resp_body, Part(request_id))
  /\ resp_body_data' = TRUE
  /\ UNCHANGED <<mainVars, request_id, resp_status, resp_body_pos, diagnostic, streamVars,
                 transfer, stateVars, lctxVars, apiVars>>

(* response.status is read-only once sealed.                                  *)
MutNotSealed == InRequestEnv   \* mutant: the seal is not looked at
StatusWritable == InRequestEnv /\ ~sealed

(* response.status = s                                                        *)
ChunkSetStatus(s) ==
  /\ StatusWritable
  /\ resp_status' = s
  /\ UNCHANGED <<mainVars, request_id, bodyVars, diagnostic, streamVars, transfer, stateVars,
                 lctxVars, apiVars>>

(* lws.setcomplete                                                            *)
ChunkSetComplete ==
  /\ pc = "run" /\ chunk = "pre"
  /\ complete' = TRUE
  /\ UNCHANGED <<mainVars, request_id, resp_status, bodyVars, diagnostic, streamVars, transfer,
                 stateVars, chunk, sealed, apiVars>>

(* lws.setclose                                                               *)
ChunkSetClose ==
  /\ pc = "run"
  /\ state_close' = TRUE
  /\ UNCHANGED <<mainVars, request_id, resp_status, bodyVars, diagnostic, streamVars, transfer,
                 L, req_count, state_init, vm, lctxVars, apiVars>>

(* How far libcurl got in the body when control comes back.                   *)
Drained == resp_body_pos' = Len(resp_body)
PartlyRead ==
  resp_body_pos' \in resp_body_pos .. (IF transfer = "dead" THEN resp_body_pos ELSE Len(resp_body))

(* The first lws_stream_response of a request succeeds: the transfer waits    *)
(* for more data, or it has already ended without being reaped.               *)
StreamBegins ==
  /\ ~Raw /\ ~streaming /\ transfer = "none"
  /\ streaming' = TRUE
  /\ streaming_prelude' = resp_status
  /\ \/ transfer' = "open" /\ Drained /\ streaming_paused' = TRUE
     \/ transfer' = "dead" /\ PartlyRead /\ streaming_paused' \in BOOLEAN

(* It fails before the handle is added, or in the multi handle afterwards.    *)
StreamBeginFails ==
  /\ ~streaming
  /\ \/ UNCHANGED <<streaming_prelude, transfer, resp_body_pos, streaming_paused>>
     \/ /\ ~Raw /\ streaming_prelude' = resp_status
        /\ \/ UNCHANGED <<transfer, resp_body_pos, streaming_paused>>
           \/ /\ transfer = "none" /\ transfer' = "open"
              /\ PartlyRead /\ streaming_paused' \in BOOLEAN
  /\ UNCHANGED streaming

(* Later calls resume a paused transfer and drive it as far as it goes.       *)
StreamGoesOn ==
  /\ streaming
  /\ \/ transfer = "open" /\ transfer' = "open" /\ Drained /\ streaming_paused' = TRUE
     \/ transfer = "open" /\ transfer' = "dead" /\ PartlyRead /\ streaming_paused' \in BOOLEAN
     \/ transfer = "dead" /\ streaming_paused' = FALSE /\ UNCHANGED <<transfer, resp_body_pos>>
  /\ UNCHANGED <<streaming, streaming_prelude>>

(* curl_easy_pause fails, or the multi handle does after the resumption.      *)
StreamGoesOnFails ==
  /\ streaming
  /\ \/ UNCHANGED <<streaming_paused, resp_body_pos>>
     \/ streaming_paused' \in BOOLEAN /\ PartlyRead
  /\ UNCHANGED <<streaming, streaming_prelude, transfer>>

(* response.body:flush seals the response, then streams; a failure is a Lua   *)
(* error, which the chunk may catch.                                          *)
ChunkFlush ==
  /\ InRequestEnv
  /\ sealed' = TRUE
  /\ StreamBegins \/ StreamBeginFails \/ StreamGoesOn \/ StreamGoesOnFails
  /\ UNCHANGED <<mainVars, request_id, resp_status, resp_body, resp_body_data, diagnostic,
                 streaming_eof, stateVars, chunk, complete, apiVars>>

(******************* The chunk sequence of lws_run ***************************)
EndRun(r) == pc' = "release" /\ chunk' = "none" /\ rc_request' = r
GoTo(c) == chunk' = c /\ UNCHANGED pc
PostOrEnd(r) == IF HasPost THEN GoTo("post") /\ rc_request' = r ELSE EndRun(r)

(* A chunk returns v (nil counts as 0) and v is not negative.                 *)
ChunkReturns(v) ==
  /\ pc = "run" /\ ToInt(v) >= 0
  /\ \/ /\ chunk = "init" /\ GoTo(FirstChunk)
        /\ state_init' = TRUE
        /\ vm' = [vm EXCEPT !.inits = @ + 1]
        /\ UNCHANGED <<rc_request, complete>>
     \/ /\ chunk = "pre"
        /\ complete' = (complete \/ ToInt(v) > 0)
        /\ IF complete' THEN PostOrEnd(ToInt(v)) ELSE GoTo("main") /\ UNCHANGED rc_request
        /\ UNCHANGED <<state_init, vm>>
     \/ /\ chunk = "main" /\ PostOrEnd(ToInt(v))
        /\ UNCHANGED <<complete, state_init, vm>>
     \/ /\ chunk = "post" /\ EndRun(rc_request)
        /\ UNCHANGED <<complete, state_init, vm>>
  /\ UNCHANGED <<keep_running, rc, request_id, resp_status, bodyVars, diagnostic, streamVars,
                 transfer, L, req_count, state_close, sealed, apiVars>>

(* A chunk raises a Lua error, fails to load or returns a negative value: the *)
(* run is aborted, the status is 500 and the state is marked for closing.     *)
ChunkFails ==
  /\ pc = "run"
  /\ EndRun(500)
  /\ state_close' = TRUE
  /\ vm' = [vm EXCEPT !.failed = TRUE]
  /\ diagnostic' \in {diagnostic} \cup (IF Diagnostic THEN {request_id} ELSE {})
  /\ UNCHANGED <<keep_running, rc, request_id, resp_status, bodyVars, streamVars, transfer,
                 L, req_count, state_init, complete, sealed, apiVars>>

(* lws_close_state                                                            *)
MutStaysInitialised ==   \* mutant: state_init survives the state
  /\ L' = FALSE /\ vm' = FreshVM
  /\ req_count' = 0 /\ UNCHANGED state_init /\ state_close' = FALSE
MutKeepsCount ==   \* mutant: req_count survives the state
  /\ L' = FALSE /\ vm' = FreshVM
  /\ UNCHANGED req_count /\ state_init' = FALSE /\ state_close' = FALSE
CloseState ==
  /\ L' = FALSE /\ vm' = FreshVM
  /\ req_count' = 0 /\ state_init' = FALSE /\ state_close' = FALSE

MutIgnoresClose == ReqMax > 0 /\ req_count + 1 >= ReqMax   \* mutant: a failed state is kept
MutOneTooMany == state_close \/ (ReqMax > 0 /\ req_count + 1 > ReqMax)   \* mutant
MustClose == state_close \/ (ReqMax > 0 /\ req_count + 1 >= ReqMax)

(* lws_release_state: close the Lua state, or keep it for the next request.   *)
Release ==
  /\ pc = "release" /\ pc' = "finalize"
  /\ IF MustClose THEN CloseState
     ELSE req_count' = req_count + 1 /\ UNCHANGED <<L, state_init, state_close, vm>>
  /\ UNCHANGED <<keep_running, rc, rc_request, request_id, resp_status, bodyVars, diagnostic,
                 streamVars, transfer, lctxVars, apiVars>>

(* lws_finalize_response: nothing to do, or the stream is driven to its end.  *)
Streamed == Reply("stream", streaming_prelude, resp_body)

Finalize(ok) ==
  /\ pc = "finalize" /\ pc' = "dispatch"
  /\ streaming_eof' = streaming
  /\ \/ ~streaming /\ ok /\ UNCHANGED <<resp_body_pos, streaming_paused, transfer, apiVars>>
     \/ /\ streaming /\ ok
        /\ transfer = "open" /\ transfer' = "none"
        /\ Accept(Streamed) /\ acked' = TRUE
        /\ Drained /\ streaming_paused' = FALSE
     \/ /\ streaming /\ ~ok
        /\ UNCHANGED <<srv, answer>> \/ (transfer = "open" /\ Accept(Streamed))
        /\ \/ transfer' = "none"
           \/ transfer' = transfer   \* resumption or multi handle failed
        /\ PartlyRead /\ streaming_paused' \in BOOLEAN
        /\ UNCHANGED acked
  /\ rc_request' = IF ok THEN rc_request ELSE -1
  /\ UNCHANGED <<keep_running, rc, request_id, resp_status, resp_body, resp_body_data,
                 diagnostic, streaming, streaming_prelude, stateVars, lctxVars>>

(******************** main's treatment of the result *************************)
StatusCode(r) == IF r < 100 \/ r >= 600 THEN 500 ELSE r

(* lws_error_response replaces the body by the error document.                *)
MutAppendsError ==   \* mutant: the body is not truncated first
  Append(resp_body, ErrorPart(request_id, StatusCode(rc_request)))
ErrorDocument == <<ErrorPart(request_id, StatusCode(rc_request))>>

ErrorResponse(ok) ==
  /\ resp_body' \in IF ok THEN {ErrorDocument} ELSE {resp_body, <<>>}
  /\ resp_body_data' = (resp_body_data \/ ok)
  /\ pc' = IF ok THEN "respond" ELSE "report"

MutAlwaysResponds == FALSE   \* mutant: a streamed response is posted once more
MutDropsWhenTerminated == streaming \/ ~keep_running   \* mutant: no response after SIGTERM
ResponseIsOut == streaming

Dispatch(ok) ==
  /\ pc = "dispatch"
  /\ IF rc_request > 0 /\ ~ResponseIsOut THEN ErrorResponse(ok)
     ELSE /\ pc' = CASE rc_request < 0 -> "report"
                     [] rc_request >= 0 /\ ResponseIsOut -> "cleanup"
                     [] OTHER -> "respond"
          /\ UNCHANGED <<resp_body, resp_body_data>>
  /\ UNCHANGED <<keep_running, rc, rc_request, request_id, resp_status, resp_body_pos, diagnostic,
                 streamVars, transfer, stateVars, lctxVars, apiVars>>

Response == Reply("response", resp_status, resp_body)

(* lws_post_response                                                          *)
Respond(ok) ==
  /\ pc = "respond"
  /\ IF ok THEN PostAcked(Response) ELSE PostFailed(Response)
  /\ pc' = IF ok THEN "cleanup" ELSE "report"
  /\ UNCHANGED <<keep_running, rc, rc_request, request_id, resp_status, bodyVars, diagnostic,
                 streamVars, stateVars, lctxVars>>

ErrorAnswer == Reply("error", 0, <<>>)

MutKeepsGoing(ok) == rc                        \* mutant: the failed error post is ignored
MutBadExitCode(ok) == IF ok THEN rc ELSE -1    \* mutant: the call's result becomes the exit code
AfterReport(ok) == IF ok THEN rc ELSE 1

(* lws_post_error for the request at hand; when it fails the loop ends.       *)
Report(ok) ==
  /\ pc = "report" /\ pc' = "cleanup"
  /\ IF ok THEN PostAcked(ErrorAnswer) ELSE PostFailed(ErrorAnswer)
  /\ rc' = AfterReport(ok)
  /\ UNCHANGED <<keep_running, rc_request, request_id, resp_status, bodyVars, diagnostic,
                 streamVars, stateVars, lctxVars>>

MutKeepsPosition ==   \* mutant: the stream position is not reset
  resp_body' = <<>> /\ resp_body_data' = FALSE /\ UNCHANGED resp_body_pos
ClearBody ==
  /\ resp_body' = <<>> /\ resp_body_data' = FALSE
  /\ resp_body_pos' = IF resp_body_data THEN 0 ELSE resp_body_pos

MutKeepsDiagnostic ==   \* mutant: the diagnostic is not freed
  /\ request_id' = 0 /\ ClearBody /\ UNCHANGED diagnostic /\ streaming_prelude' = 0
  /\ streaming' = FALSE /\ streaming_paused' = FALSE /\ streaming_eof' = FALSE
ClearRequest ==
  /\ request_id' = 0 /\ ClearBody /\ diagnostic' = 0 /\ streaming_prelude' = 0
  /\ streaming' = FALSE /\ streaming_paused' = FALSE /\ streaming_eof' = FALSE

(* The request cleanup, the loop's condition and, at its end, the global one. *)
Cleanup ==
  /\ pc = "cleanup"
  /\ ClearRequest
  /\ IF keep_running /\ rc = 0 THEN pc' = "next" /\ UNCHANGED <<transfer, stateVars>>
     ELSE pc' = "exit" /\ transfer' = "none" /\ CloseState
  /\ UNCHANGED <<keep_running, rc, rc_request, resp_status, lctxVars, apiVars>>

(* The signal handler; what it does to a pending poll is module Poll.         *)
Sigterm ==
  /\ pc # "exit" /\ keep_running
  /\ keep_running' = FALSE
  /\ UNCHANGED <<pc, rc, rc_request, request_id, resp_status, bodyVars, diagnostic, streamVars,
                 transfer, stateVars, lctxVars, apiVars>>

(****************************** Specification ********************************)
ChunkEnds == ChunkFails \/ \E v \in Results : ChunkReturns(v)

ChunkWorks ==
  \/ ChunkWrite \/ ChunkFlush \/ ChunkSetComplete \/ ChunkSetClose
  \/ \E s \in Statuses : ChunkSetStatus(s)

Polling ==
  \/ NextFails
  \/ \E i \in Invocations : NextLost(i) \/ NextMalformed(i) \/ NextInvocation(i)

(* The steps of main outside the poll and the chunks.                         *)
MainStep ==
  \/ NextFailed
  \/ \E r \in {0, 404, -1} : Prepare(r)
  \/ Acquire \/ AcquireFails
  \/ Release
  \/ \E ok \in BOOLEAN : Finalize(ok) \/ Dispatch(ok) \/ Respond(ok) \/ Report(ok)
  \/ Cleanup

Next == Polling \/ MainStep \/ ChunkWorks \/ ChunkEnds \/ Sigterm

(* main is one thread that never blocks but in a poll, a chunk and a post:    *)
(* posts end (libcurl drives them until they do), chunks are taken to end,    *)
(* and nothing obliges the API to hand out an invocation.                     *)
Spec == Init /\ [][Next]_vars /\ WF_vars(MainStep) /\ WF_vars(ChunkEnds)

(****************************** Properties ***********************************)
(* Every variable keeps its type.                                             *)
Parts == [from : Nat, code : Int, diag : Nat]
Answers == [kind : {"none", "response", "stream", "error"}, to : Nat, status : Nat,
            body : Seq(Parts)]
VMs == [inits : Nat, failed : BOOLEAN, used : Nat]

MainTypeOK ==
  /\ pc \in {"next", "next_failed", "prepare", "acquire", "run", "release", "finalize",
             "dispatch", "respond", "report", "cleanup", "exit"}
  /\ keep_running \in BOOLEAN /\ rc \in {0, 1} /\ rc_request \in Int
  /\ request_id \in Invocations \cup {0} /\ diagnostic \in Invocations \cup {0}
  /\ resp_status \in Nat

BodyTypeOK ==
  resp_body \in Seq(Parts) /\ resp_body_data \in BOOLEAN /\ resp_body_pos \in Nat

StreamTypeOK ==
  /\ streaming \in BOOLEAN /\ streaming_paused \in BOOLEAN /\ streaming_eof \in BOOLEAN
  /\ streaming_prelude \in Nat

TransferTypeOK == transfer \in {"none", "open", "dead"}

StateTypeOK ==
  /\ L \in BOOLEAN /\ req_count \in Nat /\ state_init \in BOOLEAN /\ state_close \in BOOLEAN
  /\ vm \in VMs

LctxTypeOK ==
  /\ chunk \in {"none", "init", "pre", "main", "post"}
  /\ complete \in BOOLEAN /\ sealed \in BOOLEAN

ApiTypeOK ==
  /\ srv \in [Invocations -> {"queued", "running", "answered"}]
  /\ answer \in Answers /\ acked \in BOOLEAN

TypeOK ==
  /\ MainTypeOK /\ BodyTypeOK /\ StreamTypeOK /\ TransferTypeOK
  /\ StateTypeOK /\ LctxTypeOK /\ ApiTypeOK

(* The next invocation is asked for only when no earlier one is left without  *)
(* an answer: every path through main's loop answers, or ends the loop.       *)
AnsweredBeforePoll == pc = "next" => \A i \in Invocations : srv[i] # "running"

(* Once the API has acknowledged the answer to a request, nothing more is     *)
(* posted for it: no error after a response, no response after a stream.      *)
NothingAfterAck == acked => pc \notin {"respond", "report"}

(* libcurl's easy handle is never left in the multi handle when main polls    *)
(* again: each failure that leaves it there also makes the error post fail,   *)
(* which ends the loop.                                                       *)
HandleFree == pc = "next" => transfer = "none"

(* No answer carries what another request wrote, nor its diagnostic.          *)
OwnOutputOnly ==
  \A k \in DOMAIN answer.body : /\ answer.body[k].from = answer.to
                                /\ answer.body[k].diag \in {0, answer.to}

(* A request starts from a clean request context whichever path the one       *)
(* before it left through, an aborted stream included.                        *)
CleanSlate ==
  pc = "next" =>
    /\ request_id = 0 /\ diagnostic = 0
    /\ resp_body = <<>> /\ ~resp_body_data /\ resp_body_pos = 0
    /\ ~streaming /\ ~streaming_paused /\ ~streaming_eof /\ streaming_prelude = 0

(* What the client was told in the prelude of a stream stays the response's   *)
(* status until the request is over.                                          *)
StreamedHeadIsFinal == streaming_prelude # 0 => resp_status = streaming_prelude

(* A response that is posted holds either the error document for the result   *)
(* of the run and nothing else, or only what the chunks wrote.                *)
ErrorReplacesBody ==
  pc = "respond" => IF rc_request > 0 THEN /\ Len(resp_body) = 1
                                           /\ resp_body[1].code = StatusCode(rc_request)
                    ELSE \A k \in DOMAIN resp_body : resp_body[k].code = 0

(* A Lua state in which a chunk failed, or which a chunk asked to close, runs *)
(* no further request.                                                        *)
ClosedBeforeReuse == pc \notin {"run", "release"} => ~vm.failed /\ ~state_close

(* In each Lua state the init chunk has succeeded exactly once when a request *)
(* chunk runs, and never runs to its end again.                               *)
InitOncePerState ==
  /\ vm.inits <= 1
  /\ chunk \in {"pre", "main", "post"} => vm.inits = (IF HasInit THEN 1 ELSE 0)

(* No Lua state serves more requests than LWS_REQ_MAX allows.                 *)
ReqMaxRespected == ReqMax > 0 => vm.used <= ReqMax

(* A Lua state is closed for a reason: a failure, a request of a chunk, its   *)
(* last request, or the end of the process.                                   *)
ClosedForCause ==
  [][L /\ ~L' => state_close \/ (ReqMax > 0 /\ vm.used = ReqMax) \/ pc' = "exit"]_vars

(* A request that could be read is answered before main leaves it, or main    *)
(* ends with a failure: neither SIGTERM, whenever it comes, nor any error of  *)
(* the handling makes main end in success and drop the request.               *)
HandledIsAnswered ==
  [][pc' = "cleanup" /\ rc' = 0 /\ request_id # 0 /\ pc # "next_failed"
       => srv'[request_id] = "answered"]_vars

(* An invocation handed out is answered, or the process exits.                *)
Settled == \A i \in Invocations : srv[i] = "running" ~> (srv[i] = "answered" \/ pc = "exit")

(* The runtime implements the protocol it owes the API, its liveness included.*)
Protocol == INSTANCE InvocationProtocol WITH status <- srv, stopped <- (pc = "exit")
ImplementsProtocol == Protocol!Spec

(************************* Inductive invariants ******************************)
(* The properties above do not follow from one step alone: these say what     *)
(* holds between the calls of main, too.                                      *)

(* Nothing is owed to the API, and libcurl's handle is free.                  *)
Quiet == transfer = "none" /\ \A i \in Invocations : srv[i] # "running"

LoopInv ==
  /\ pc = "next" => Quiet
  /\ pc = "cleanup" /\ rc = 0 /\ keep_running => Quiet
  /\ pc = "dispatch" /\ streaming /\ rc_request >= 0 => Quiet
  /\ pc \in {"next", "next_failed", "prepare", "acquire"} => ~streaming
  /\ pc \notin {"next", "next_failed", "cleanup", "exit"} \/ (pc = "next_failed" /\ request_id # 0)
       => \A i \in Invocations : srv[i] = "running" => i = request_id

AckInv ==
  /\ acked => pc \in {"next", "next_failed", "dispatch", "cleanup", "exit"}
  /\ acked /\ pc = "dispatch" => streaming /\ rc_request >= 0
  /\ acked /\ pc = "next_failed" => request_id = 0
  /\ pc \in {"acquire", "run", "release", "finalize"} => rc_request >= 0

InRun == pc \in {"run", "release"}

StateInv ==
  /\ ~L => vm = FreshVM /\ req_count = 0 /\ ~state_init /\ ~state_close
  /\ ReqMax > 0 => req_count < ReqMax
  /\ vm.used = IF InRun THEN req_count + 1 ELSE req_count
  /\ ~InRun => ~vm.failed /\ ~state_close
  /\ vm.failed => state_close
  /\ InRun => L
  /\ vm.inits = IF state_init /\ HasInit THEN 1 ELSE 0
  /\ pc = "run" <=> chunk # "none"
  /\ chunk = "init" => ~state_init /\ HasInit
  /\ chunk \in {"pre", "main", "post"} => state_init

(* What is kept of a request's body is gone when its memory is.               *)
CleanInv ==
  /\ CleanSlate
  /\ ~resp_body_data => resp_body = <<>> /\ resp_body_pos = 0

(* While main handles an invocation it has its ID, and took it from the API.  *)
RequestInv ==
  /\ pc \in {"prepare", "acquire", "run", "release", "finalize", "dispatch", "respond", "report"}
       => request_id # 0
  /\ request_id # 0 => srv[request_id] # "queued"

OwnInv ==
  /\ diagnostic \in {0, request_id}
  /\ \A k \in DOMAIN resp_body : resp_body[k].from = request_id /\ resp_body[k].diag \in {0, request_id}
  /\ OwnOutputOnly

(* A prelude exists only behind a seal.                                       *)
HeadInv ==
  /\ StreamedHeadIsFinal
  /\ pc \in {"next_failed", "prepare", "acquire"} => streaming_prelude = 0
  /\ pc = "run" /\ streaming_prelude # 0 => sealed

(* There is no error document before main has looked at the result.           *)
BodyInv ==
  /\ ErrorReplacesBody
  /\ pc \in {"next", "next_failed", "prepare", "acquire", "run", "release", "finalize", "dispatch"}
       => \A k \in DOMAIN resp_body : resp_body[k].code = 0

(* What the documentation says of a positive chunk result: the error response *)
(* is sent for that HTTP status code.                                         *)
ErrorStatusSent ==
  acked /\ answer.kind = "response" =>
    \A k \in DOMAIN answer.body :
      answer.body[k].code \in Results \ {0} => answer.status = answer.body[k].code
===============================================================================
