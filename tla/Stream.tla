-------------------------------- MODULE Stream --------------------------------
(* A streamed response, read by read: lws_stream_response, lws_curl_perform   *)
(* and the read callback lws_handle_read of lws_interface.c, the body they    *)
(* read (lws_request.c), and the cleanup between two requests.  The callback  *)
(* may be given room for any number of bytes, so the prelude, the separator   *)
(* and the body are cut anywhere.  libcurl and the network are external: a    *)
(* transfer may fail whenever it is driven.  curl_easy_pause is taken not to  *)
(* call the read callback itself.                                             *)
EXTENDS Integers, FiniteSetsExt, SequencesExt

CONSTANTS
  PreludeLen, SeparatorLen,   \* bytes, scaled down
  MaxRoom,       \* bound: room the read callback is given
  MaxWrites,     \* bound: bytes the chunks write, over all requests
  MaxRequests    \* bound: requests

ASSUME LengthAssumption == {PreludeLen, SeparatorLen, MaxRoom} \subseteq Nat \ {0}
ASSUME RequestAssumption == MaxWrites \in Nat /\ MaxRequests \in Nat \ {0}

VARIABLES
  pc,         \* chunk, begin (first drive), drive, final, reply, cleanup, exit
  request,    \* number of the request
  streaming, streaming_paused, streaming_eof,
  prelude_len, prelude_pos, separator,
  body,       \* resp_body: bytes, each named by its place among all written ones
  body_pos,   \* resp_body_pos
  transfer,   \* none, open, ended (the API has its end), failed
  wire,       \* what the API was sent for this request
  written,    \* bytes written so far
  rewound,    \* the chunk has truncated the body below what was read of it
  acked       \* the stream was finished, with success

flagVars == <<streaming, streaming_paused, streaming_eof>>
headVars == <<prelude_len, prelude_pos, separator>>
bodyVars == <<body, body_pos>>
histVars == <<wire, written, rewound, acked>>
vars == <<pc, request, flagVars, headVars, bodyVars, transfer, histVars>>

Init ==
  /\ pc = "chunk" /\ request = 1
  /\ streaming = FALSE /\ streaming_paused = FALSE /\ streaming_eof = FALSE
  /\ prelude_len = 0 /\ prelude_pos = 0 /\ separator = 0
  /\ body = <<>> /\ body_pos = 0 /\ transfer = "none"
  /\ wire = <<>> /\ written = 0 /\ rewound = FALSE /\ acked = FALSE

Driving == pc \in {"begin", "drive", "final"}

(**************************** The read callback ******************************)
Fill(n, from, to) == Min({n, to - from})
PreludeByte == -1   \* bytes of the body are numbered from 1
SeparatorByte == 0
Repeat(x, n) == [i \in 1 .. n |-> x]

MutNoRoomLeft(n, fromPrelude) == SeparatorLen - separator   \* mutant: the room is not looked at
SeparatorPart(n, fromPrelude) == Fill(n - fromPrelude, separator, SeparatorLen)

(* There is something to send: one buffer with room for n bytes.              *)
ReadData(n) ==
  LET p == Fill(n, prelude_pos, prelude_len)
      s == SeparatorPart(n, p)
      b == IF body_pos < Len(body) THEN Fill(n - p - s, body_pos, Len(body)) ELSE 0
  IN  /\ p + s + b > 0
      /\ wire' = wire \o Repeat(PreludeByte, p) \o Repeat(SeparatorByte, s)
                      \o SubSeq(body, body_pos + 1, body_pos + b)
      /\ prelude_pos' = prelude_pos + p /\ separator' = separator + s /\ body_pos' = body_pos + b
      /\ UNCHANGED <<streaming_paused, transfer>>

MutIgnoresBody ==   \* mutant: the body is not looked at before the end is
  prelude_pos = prelude_len /\ separator = SeparatorLen
NothingToRead ==
  prelude_pos = prelude_len /\ separator = SeparatorLen /\ body_pos >= Len(body)

(* Nothing to send: end the transfer, or pause it until there is more.        *)
ReadNothing ==
  /\ NothingToRead
  /\ IF streaming_eof THEN transfer' = "ended" /\ UNCHANGED streaming_paused
     ELSE streaming_paused' = TRUE /\ UNCHANGED transfer
  /\ UNCHANGED <<wire, prelude_pos, separator, body_pos>>

Paused == streaming_paused   \* libcurl stops reading when the callback says so

Read ==
  /\ Driving /\ transfer = "open" /\ ~Paused
  /\ ReadNothing \/ \E n \in 1 .. MaxRoom : ReadData(n)
  /\ UNCHANGED <<pc, request, streaming, streaming_eof, prelude_len, body, written, rewound, acked>>

(* The connection breaks, or the API refuses the response.                    *)
TransferFails ==
  /\ Driving /\ transfer = "open"
  /\ transfer' = "failed"
  /\ UNCHANGED <<pc, request, flagVars, headVars, bodyVars, histVars>>

(*************************** lws_stream_response *****************************)
(* The first flush of a request.                                              *)
Begin ==
  /\ pc = "chunk" /\ ~streaming /\ transfer = "none"
  /\ prelude_len' = PreludeLen
  /\ transfer' = "open"
  /\ pc' = "begin"
  /\ UNCHANGED <<request, flagVars, prelude_pos, separator, bodyVars, histVars>>

(* Adding the handle fails: the prelude stays behind.  It also fails when a    *)
(* transfer of this request is still attached.                                *)
BeginFails ==
  /\ pc = "chunk" /\ ~streaming
  /\ prelude_len' = PreludeLen
  /\ UNCHANGED <<pc, request, flagVars, prelude_pos, separator, bodyVars, transfer, histVars>>

(* A paused transfer is resumed before it is driven on.                       *)
MutStaysPaused == streaming_paused   \* mutant: the flag is not cleared
Resumed == FALSE

Flush ==
  /\ pc = "chunk" /\ streaming
  /\ streaming_paused' = Resumed
  /\ pc' = "drive"
  /\ UNCHANGED <<request, streaming, streaming_eof, headVars, bodyVars, transfer, histVars>>

(* lws_curl_perform returns to the chunk: there is no more to send for now,   *)
(* or the transfer is over, which only the final call finds out about.        *)
MutReturnsEarly == TRUE   \* mutant: one round is taken for enough
DoneForNow == streaming_paused \/ transfer # "open"

DriveReturns ==
  /\ pc \in {"begin", "drive"} /\ DoneForNow
  /\ pc' = "chunk"
  /\ streaming' = TRUE
  /\ UNCHANGED <<request, streaming_paused, streaming_eof, headVars, bodyVars, transfer, histVars>>

(* The chunks are done: lws_finalize_response, or an answer of another kind,  *)
(* for which the handle has to be free.                                       *)
Finish ==
  /\ pc = "chunk"
  /\ IF streaming THEN pc' = "final" /\ streaming_eof' = TRUE /\ streaming_paused' = Resumed
     ELSE /\ pc' = IF transfer = "none" THEN "cleanup" ELSE "exit"
          /\ UNCHANGED <<streaming_eof, streaming_paused>>
  /\ UNCHANGED <<request, streaming, headVars, bodyVars, transfer, histVars>>

(* The result is reaped and the handle removed.                               *)
Reap ==
  /\ pc = "final" /\ transfer # "open"
  /\ acked' = (transfer = "ended")
  /\ transfer' = "none"
  /\ pc' = "cleanup"
  /\ UNCHANGED <<request, flagVars, headVars, bodyVars, wire, written, rewound>>

(* curl_multi_perform fails: the handle stays where it is.  A flush is a Lua   *)
(* error then, and after the final call main gives up.                        *)
(* A curl_easy_pause that fails ends the same, the pause flag aside.          *)
CurlFails ==
  /\ Driving
  /\ pc' = IF pc = "final" THEN "exit" ELSE "chunk"
  /\ UNCHANGED <<request, flagVars, headVars, bodyVars, transfer, histVars>>

(******************************* The chunk ***********************************)
Write ==
  /\ pc = "chunk" /\ written < MaxWrites
  /\ written' = written + 1
  /\ body' = Append(body, written + 1)
  /\ UNCHANGED <<pc, request, flagVars, headVars, body_pos, transfer, wire, rewound, acked>>

(* response.body:seek("set", n) truncates; the read position stays behind, so *)
(* that bytes written up to it are never read.                                *)
Seek(n) ==
  /\ pc = "chunk" /\ n \in 0 .. (Len(body) - 1)
  /\ body' = SubSeq(body, 1, n)
  /\ rewound' = (rewound \/ n < body_pos)
  /\ UNCHANGED <<pc, request, flagVars, headVars, body_pos, transfer, wire, written, acked>>

(******************************* Cleanup *************************************)
MutKeepsSeparator ==   \* mutant: the separator counts as sent for the next request
  /\ prelude_len' = 0 /\ prelude_pos' = 0 /\ UNCHANGED separator
ClearHead ==
  /\ prelude_len' = 0
  /\ prelude_pos' = IF prelude_len > 0 THEN 0 ELSE prelude_pos
  /\ separator' = 0

Cleanup ==
  /\ pc = "cleanup" /\ request < MaxRequests
  /\ pc' = "chunk" /\ request' = request + 1
  /\ streaming' = FALSE /\ streaming_paused' = FALSE /\ streaming_eof' = FALSE
  /\ ClearHead
  /\ body' = <<>> /\ body_pos' = 0
  /\ wire' = <<>> /\ rewound' = FALSE /\ acked' = FALSE
  /\ UNCHANGED <<transfer, written>>

(****************************** Specification ********************************)
Curl == Read \/ DriveReturns \/ Reap

Next ==
  \/ Curl \/ TransferFails \/ CurlFails
  \/ Begin \/ BeginFails \/ Flush \/ Finish \/ Write \/ (\E n \in 0 .. MaxWrites : Seek(n))
  \/ Cleanup

(* lws_curl_perform drives the transfer until it returns; the API takes what  *)
(* it is sent, or the connection breaks.                                      *)
Spec == Init /\ [][Next]_vars /\ WF_vars(Curl)

(****************************** Properties ***********************************)
(* Every variable keeps its type.                                             *)
TypeOK ==
  /\ pc \in {"chunk", "begin", "drive", "final", "cleanup", "exit"}
  /\ request \in 1 .. MaxRequests
  /\ {streaming, streaming_paused, streaming_eof, rewound, acked} \subseteq BOOLEAN
  /\ prelude_len \in {0, PreludeLen} /\ prelude_pos \in 0 .. prelude_len
  /\ separator \in 0 .. SeparatorLen
  /\ body \in Seq(1 .. written) /\ body_pos \in 0 .. written /\ written \in 0 .. MaxWrites
  /\ transfer \in {"none", "open", "ended", "failed"}
  /\ wire \in Seq({PreludeByte, SeparatorByte} \cup 1 .. written)

WireHead == Repeat(PreludeByte, PreludeLen) \o Repeat(SeparatorByte, SeparatorLen)
Sent == SubSeq(wire, Len(WireHead) + 1, Len(wire))

(* However the buffers cut it, and whatever the chunk does to the body in     *)
(* between: first the prelude and the separator, once, then bytes of the body *)
(* in the order they were written, none twice.                                *)
WireInOrder ==
  /\ IsPrefix(SubSeq(wire, 1, Min({Len(wire), Len(WireHead)})), WireHead)
  /\ \A i \in DOMAIN Sent : \A j \in 1 .. (i - 1) : Sent[j] < Sent[i]

(* The API was sent the head and the whole body, and nothing else.            *)
BodySent == wire = WireHead \o body

(* A stream that ends with success has sent exactly the body, however often   *)
(* it was flushed and truncated, unless a truncation went below what had been *)
(* sent: that cannot be taken back.                                           *)
CompleteWhenAcked == acked /\ ~rewound => BodySent

(* When a flush returns and the transfer goes on, it has sent exactly the     *)
(* body, and waits for more; again, unless a truncation went below what had   *)
(* been sent.                                                                 *)
FlushDrains ==
  [][DriveReturns /\ transfer = "open" /\ ~rewound => streaming_paused /\ BodySent]_vars

(* RequestProcessing.md: content written to the body is streamed by a flush,  *)
(* "repeatedly as new body content is written".  So when a flush returns and  *)
(* the transfer goes on, each byte of the body has been sent, whatever the    *)
(* chunk did to the body.                                                     *)
FlushSendsWritten ==
  [][DriveReturns /\ transfer = "open" => Range(body) \subseteq Range(wire)]_vars

(* Driving a transfer ends: libcurl's pause is always followed by a return or *)
(* a resumption, and the end of the body by the end of the transfer.          *)
DrivingEnds == Driving ~> ~Driving

(************************* Inductive invariants ******************************)
HeadLen == PreludeLen + SeparatorLen

(* Every byte of the body was written in this request or before.              *)
RoomInv == Len(body) <= written

(* How far the pieces were sent, from the positions: a piece begins when the  *)
(* one before it is complete.                                                 *)
WireInv ==
  /\ wire # <<>> \/ transfer # "none" => prelude_len = PreludeLen
  /\ (Driving => transfer # "none") /\ (pc = "cleanup" => transfer = "none")
  /\ streaming /\ pc = "chunk" => transfer # "none"
  /\ separator > 0 => prelude_pos = PreludeLen
  /\ Len(wire) >= prelude_pos + separator
  /\ Len(wire) > prelude_pos + separator => prelude_pos + separator = HeadLen
  /\ \A i \in DOMAIN wire : /\ i <= PreludeLen => wire[i] = PreludeByte
                            /\ PreludeLen < i /\ i <= HeadLen => wire[i] = SeparatorByte

(* What is still to be read was written after all that has been sent.         *)
OrderInv ==
  /\ \A j \in DOMAIN body : \A i \in 1 .. (j - 1) : body[i] < body[j]
  /\ \A i \in DOMAIN wire : \A j \in DOMAIN body : j > body_pos => wire[i] < body[j]
  /\ \A j \in DOMAIN wire : \A i \in (HeadLen + 1) .. (j - 1) : wire[i] < wire[j]

(* Without a truncation below it, the bytes sent are those before the read    *)
(* position; the end of the transfer, or its pause, has found none behind it. *)
CompleteInv ==
  /\ ~rewound => /\ body_pos <= Len(body)
                 /\ Len(wire) = prelude_pos + separator + body_pos
                 /\ \A k \in 1 .. body_pos : wire[HeadLen + k] = body[k]
  /\ streaming_eof => pc \in {"final", "cleanup", "exit"}
  /\ transfer = "ended" => pc \in {"final", "exit"} /\ NothingToRead
  /\ acked => pc = "cleanup" /\ prelude_len = PreludeLen /\ NothingToRead
  /\ pc = "chunk" /\ transfer = "none" => ~streaming_paused
  /\ Driving /\ transfer = "open" /\ streaming_paused => NothingToRead
===============================================================================
