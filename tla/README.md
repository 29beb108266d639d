# Verification of the LWS custom runtime

TLA+ models of the AWS Lambda custom runtime in `src/` (lambda-lws: a C program that
polls the Lambda runtime API, runs Lua chunks for each invocation and posts the response),
their model checking with TLC, and proofs about them checked by TLAPS.

## 1. Inventory

| Component | Code | State | Operations | Talks to |
| --- | --- | --- | --- | --- |
| main loop | `lws_runtime.c` | `keep_running`, `rc`, `rc_request`, the request context `lws_ctx_t` | poll, handle, answer, clean up, exit; SIGTERM handler | calls everything below, in one thread |
| Lambda interface | `lws_interface.c` | libcurl's easy and multi handle, prelude, separator, `streaming*` flags | next invocation, post response, stream response, post error | runtime API over HTTP; libcurl calls back to read, write, take headers and sockets |
| poll cancellation | `lws_interface.c`, `lws_runtime.c` | `in_poll`, `cancel_poll`, `curl_socket` | `lws_cancel_poll`, socket callback | signal handler against main |
| request handling | `lws_request.c` | response status, body, files | prepare, run, finalise, error response | Lua state, interface, stat cache |
| Lua state | `lws_state.c` | `L`, `req_count`, `state_init`, `state_close` | create, acquire, run, release, close | chunk sequence |
| chunk sequence, library | `lws_lib.c` | per-request Lua context: `chunk`, `complete`, `sealed` | `lws_run`, `lws_call`, `setcomplete`, `setclose`, `response.status`, `body:write`, `body:flush` | request context; interface for flush |
| hash table | `lws_table.c` | slots, order queue, count | get, set, clear, rehash, next | headers of requests and responses; stat cache |
| stat cache | `lws_request.c` | a capped table | file status of a path | file system |
| text conversions | `lws_codec.c`, parts of `lws_lib.c`, `lws_interface.c`, `lws_request.c` | a buffer at a time | base64, UTF-8 test, query parser, cookies, path substitution | request and response of the request context |
| body buffers | `lws_interface.c`, `lws_request.c` | length, capacity | grow, encode in place | libcurl and Lua's files write into them |
| HTTP names | `lws_http.c` | a constant table | binary search | error documents |
| log, strings, config, JSON binding | other files | none | I/O, views | |

What is hard about it: main is one thread, but the signal handler interrupts it anywhere;
every call to the API can fail, be refused, or succeed with its reply lost; a streamed
response leaves a transfer open across Lua code; one request context, one libcurl handle
and one Lua state are reused by all requests, so each path out of a request must clean up;
the table moves entries behind its callers' backs.

What makes each component correct:

* main loop and interface: every invocation handed out gets exactly one answer or the process
  exits; none after an acknowledged one; no data of one request reaches another; the handle
  is free when a poll begins.
* poll cancellation: SIGTERM ends the process, with at most one further invocation.
* Lua state: a state that failed is not reused; init exactly once; the request limit.
* chunk sequence: the status is fixed once sent; an error replaces the body, with its status.
* table: an ordered map, LRU when capped, that always keeps a free slot and can be traversed.
* text and buffers: the result is what its standard or its inverse says, nothing is written outside of what
  was measured, and a conversion in place never overwrites what it has still to read.

## 2. Plan

1. `InvocationProtocol`, `Runtime`, `RuntimeProofs` - done.
2. `Poll` - done. 3. `LruMap`, `Table` - done.
4. `Stream` - done: the read callback at the granularity of buffers.
5. `Base64`, `Utf8`, `Args`, `Cookies`, `Paths`, `Buffers`, `Statuses`, checked side by side by `MCText` - done.
6. Proofs: all safety of `Runtime` and the safety half of its refinement, the safety of `Poll` and of `Stream` - done.
7. Proofs: `Table` and its refinement of `LruMap`, and the safety of every conversion of text - done. What is left to TLC is liveness.

## 3. The models

**InvocationProtocol** says what a runtime owes the API: invocations are taken in order and one at
a time, each is answered at most once, and each taken one is answered or the process stops.

**Runtime** has one action per call main makes. `pc` names the call that is due: `next` (poll),
`next_failed`, `prepare`, `acquire`, `run` (a Lua chunk is active), `release`, `finalize`,
`dispatch` (main looks at the result), `respond`, `report` (error post), `cleanup`, `exit`.
Variables have the names of the fields of `lws_ctx_t` where they stand for one. While `pc = "run"`,
Lua code performs any of the library's operations in any order (`ChunkWrite`, `ChunkSetStatus`,
`ChunkFlush`, ...), then returns any of `Results` or fails. `vm` is a history of the Lua state.
A part of a body is a record of who wrote it; `ErrorPart` is the error document. `transfer` is
where libcurl's easy handle is: `none`, `open` (attached and alive), `dead` (attached, the transfer
has ended but nobody has read its result). `srv`, `answer` and `acked` are the API's side.
Calls to the API have every outcome: not sent, refused, accepted, accepted with a lost
reply, and libcurl's own failure that returns with the handle attached (`lws_curl_perform`
leaves without `curl_multi_remove_handle`). SIGTERM is possible at any `pc`.

**Poll** takes the poll apart: `in_poll = 1`, libcurl's use of its connection or the socket callback,
the wait, and the handler's `close` of whatever `curl_socket` holds, with the descriptor table
of the process, the API that closes connections, and Lua code that opens and closes files.

**Stream** takes the streamed response apart that is one step in `Runtime`: `Begin` and `Flush` are the two halves
of `lws_stream_response`, `Read` is one call of the read callback with any room up to `MaxRoom`, `DriveReturns`
and `Reap` are the exits of `lws_curl_perform`, `Finish` is `lws_finalize_response`. Bytes of the body are numbered as they are written, so
`wire` shows which arrived. Lua code writes, flushes and truncates (`Seek`) in between; the history variable `rewound` notes a
truncation below the read position. `transfer` is `none`, `open`, `ended` or
`failed`. That `curl_easy_pause` does not itself call the read callback is an assumption on libcurl.

**LruMap** is the map callers see. **Table** is `lws_table.c`: slots, double hashing, Brent's
relocation, tombstones, rehash, queue. The hash function is any of a set, chosen at the start.
`used` is a history variable: without it, a lookup that does not touch the queue could not be
told from no lookup. `cap` is chosen at the start, too: 0 for the header tables, which are not capped. `visited` is the history of
a traversal with `lws_table_next`; sets in between leave the traversal going, as its caller finds its place again by key, and
clearing the table or reaching the end ends it.

The conversions of text are state machines too, with one step per turn of a loop, so that what a buffer holds half-way can be looked at.
**Base64** has the buffer that `lws_base64_encode` works on from its end and `lws_base64_decode` from its start; a
character is no byte, so a cell read after it was overwritten shows. **Utf8** has the automaton's table, in the
form of its classes and transitions, and is compared with the Unicode standard's table of well-formed
sequences. **Args** is `lws_parseargs` with `lws_unescape_url`, compared with a definition that
splits first and unescapes then. **Cookies** joins the folding of an invocation's cookies, in a pass that measures and a pass
that writes, with the split of a Set-Cookie header. **Paths** is `lws_prepare_request` with `lws_string_sub`; what `regexec` and `stat` say is
chosen. **Buffers** has lengths and capacities only, with the arithmetic of a scaled-down `size_t`: the growth of
both bodies, failed reallocations, truncation, streaming, and the base64 form in the same memory. **Statuses** is the binary search on
the codes of the table. **MCText** puts them side by side: one of them works, the others are idle.

Names of definitions and the lines they stand for are in `PROJECT.json` ("map"). Operators named
`Mut...` are deliberate mistakes that replace a definition to see that a property notices.

## 4. Runs

| Run | Question | Result |
| --- | --- | --- |
| `runtime` | four requests with `LWS_REQ_MAX` = 2, all chunks, paths and failures, streaming, SIGTERM | all hold, refinement and liveness included |
| `runtime_status` | does the error response carry the result's status? | violated: `lws_error_response` leaves `resp_status` as it was |
| `poll` | at most one late invocation; a cancelled poll ends; a busy API lets SIGTERM through | all hold |
| `poll_term` | does SIGTERM end an idle runtime? | violated: lost before the socket is captured |
| `poll_socket` | is only the poll's socket closed? | violated: a stale number |
| `stream` | the bytes of two streamed requests, in every sequence of buffers, with flushes, seeks and failures | all hold |
| `stream_flush` | has a flush that returns sent what was written? | violated after a seek below what was sent: new bytes are skipped |
| `table` | capped or not: moves, growth, tombstones, LRU eviction, failed allocations, clearing, traversal | all hold |
| `text` | each conversion against its reference, each buffer against its measure | all hold |
| `table_freed` | does a lookup find set entries only? | violated if freed memory still reads the same |
| `table_oom` | is `count` the number of set slots whatever allocation fails? | violated: key allocation after a move |
| `text_match` | is $0 the match of `LWS_MATCH`? | violated: an expression without groups is not applied |

Bounds. `MaxInvocations = 4` with `ReqMax = 2` lets a Lua state reach its limit and be closed, and the next one reach it again; it
has requests after one another in one state and in two, which is what carry-over needs. `MaxParts = 2` is for a body
flushed in part and written again. All optional chunks are there and streaming is possible; that the safety
properties also hold with fewer chunks, with `Raw` or without a limit is left to the theorems, which are for every configuration. `Results` holds a failure, a success, a valid HTTP code and one that wraps to a code out of range:
`IntBits = 11` scales the width of `int` so that 2048 plays the role of 2^32. Three
descriptors suffice in `Poll` for the poll's connection, its replacement and one of Lua's. Four keys with hashes
0, 5 and 6 (up to a renaming of the keys) collide in every pattern at 5 slots with two step widths, fill
the first size beyond its load of 3 and force a rehash to 7 slots. `Stream` scales the prelude to two bytes, the separator to three, and a buffer to at
most three, so that buffers end inside each part and span two of them; five bytes allow a truncation below what
was sent and writes that pass it again. `MCText` looks at all sequences of up to seven bytes out of three (all zeros, all ones, mixed) for the
encoder, and of up to eight characters of four kinds for the decoder, so that there are two full blocks and each remainder; at the ends of all ranges of
bytes, up to four, the longest character, for `Utf8`; at query strings of up to five characters, enough for an escape behind a key and a
'=', of which two digits stand for all; at up to three cookies with commas and blanks; at templates of up to four characters on a path that
itself holds a reference; at all codes from 99 to 600. For `Buffers`, `SizeMax` is 63, the threshold 16
and the first capacity 4 (for 2^64 - 1, 1 MiB and 4096), so that a buffer doubles, grows by half, and reaches the end of the numbers. Deadlock is
not checked where the process may exit or the conversion ends (`Runtime`, `Poll`, `Stream`, `MCText`).

Fairness. `Runtime`: weak fairness of main's steps and of the end of chunks: main is one thread that
blocks only in libcurl, which is driven until the transfer ends, and in Lua code, which is taken to
terminate. Polling is not fair: the API may have nothing to hand out. `Poll`: weak fairness of main's steps;
the delivery of an invocation is fair only as the hypothesis of `TermEndsBusy`. `Stream`: weak fairness of libcurl's calls and returns while it is
driven: the API takes what it is sent or the connection breaks (`CURLOPT_TIMEOUT` is 0, so the code itself sets no limit). The
chunk is not fair.

`CompleteWhenAcked` and `FlushDrains` compare the wire with the body, and so cover truncations of what was not sent yet. They exclude a
truncation below what was sent (`rewound`): `lws_seek_response_body` sets the length and leaves `resp_body_pos`, and the read callback sends
only what lies behind `resp_body_pos`. Write three bytes, flush, seek to 0, write one, flush: the second flush finds nothing
to send, pauses the transfer and returns, and the new byte is never sent. The stream still ends with success, and neither the client nor the
chunk is told. `RequestProcessing.md:118-120` promises that a flush streams what was written, again as new content is written; `stream_flush`
shows that this does not hold then (`FlushSendsWritten`). What holds for such a stream, too, is `WireInOrder`.

`Settled` and `ImplementsProtocol` count the exit of the process as settling: Lambda then reports the
invocation as failed by itself.

## 5. Proofs

Every theorem is of the form `Spec => []Inv` or `Spec => [][A]_vars`, for every value of the constants that satisfies the named
assumptions of the module. The strengthened invariants stand at the end of the component's module; TLC checked each of them
before it was proved. Every safety invariant and action property of the passing runs is proved, and the safety half of both refinements.

The assumptions are hardly more than the types of the constants (no length is zero, the keys are finitely many), with these exceptions: the table's sizes are odd primes (`SizesAssumption`;
they are in `lws_table.c`, and the probe chains need it), a buffer's first capacity and padding fit in the range of its `size_t`
(`CapacityAssumption`), a percent sign is no hexadecimal digit (`DigitsAssumption`), and the groups `regexec` reports lie within
the path (`GroupsAssumption`).

**Runtime**, for every number of invocations and parts, every set of results and statuses, every width of `int`
(`WidthAssumption`), every `ReqMax` and configuration (`ConfigAssumption`). `RuntimeProofs` has `TypeOK` and, for the life of the loop and of the Lua state:

* `LoopInv`, which strengthens `AnsweredBeforePoll` and `HandleFree`. Neither is inductive: whether the handle is free and no
  invocation is running at `next` depends on the outcome of the report before. `LoopInv` says so at the points in between:
  at a `cleanup` that lets the loop go on, at a `dispatch` after a good stream, and that only
  the request at hand can be running.
* `AckInv` for `NothingAfterAck`: an acknowledged answer leads to `cleanup`, or to `dispatch` with a stream whose result is not a
  failure.
* `StateInv` for `ClosedBeforeReuse`, `InitOncePerState` and `ReqMaxRespected`: it ties `req_count`,
  `state_init` and `state_close` to the history `vm` and to `pc`, and says that a failed state is marked for closing.

For what a request finds and leaves:

* `CleanInv` for `CleanSlate`: without memory for the body there is no body and no position in it, so that freeing the one
  forgets the others.
* `RequestInv` and `OwnInv` for `OwnOutputOnly`: the parts of the body and the diagnostic are those of the request at
  hand, so the answers given are. It rests on `CleanInv`: a request's first part is its own because nothing was left.
* `HeadInv` for `StreamedHeadIsFinal`: there is a prelude only where the status is sealed, and none before a chunk runs.
* `BodyInv` for `ErrorReplacesBody`: before main has looked at the result no part of the body is an error document.

Last, it maps `Runtime` to `InvocationProtocol`: the initial states and each step map to one of the protocol's or to a
stutter (`ImplementsProtocolSafety`). The invariants above say which: `RequestInv`, for one, that an answer is for an
invocation that was taken. Its two action properties, `HandledIsAnswered` and `ClosedForCause`, follow from
`LoopInv` and `StateInv`.

**Poll** (`PollProofs`), for every set of descriptors (`FdAssumption`): `TypeOK`, and `LateInv` for `AtMostOneLate`: once an
invocation was taken after SIGTERM, `keep_running` is cleared and main is past the poll.

**Stream** (`StreamProofs`), for all lengths of the prelude and the separator, every room of a buffer and every number of writes and
requests (`LengthAssumption`, `RequestAssumption`). `WireInv` gives the bytes of prelude and separator that were sent, from the two
positions. `OrderInv` strengthens `WireInOrder`: the body is in the order of writing, and what is still to be read was
written after all that was sent. It needs `RoomInv`, by which a new byte is newer than those kept after a truncation.
`CompleteInv` strengthens `CompleteWhenAcked`: unless the body was truncated below the read position, the bytes sent are those before it, and the
end of the transfer, or its pause, found none behind it. Then the wire is the head and the body (`AllIsSent`), which gives `CompleteWhenAcked` where
the transfer has ended and `FlushDrains` where a flush returns. The lemmas in between say what one
call of the read callback copies.

**Text** (`TextProofs`). The behaviours of `MCText` are those of one component while the others stand still; the theorems are about that
component alone (`BuffersSpec`, `StatusSpec`, `ArgsSpec`, `CookiesSpec`).

* `GrowthInv` for `BufferFits`, for every `SizeMax`, first capacity, threshold and padding (`CapacityAssumption`): all sizes are in the range of
  `size_t`, and the room being made is for the data at hand. So none of the sums on the way wraps around unnoticed.
* `SearchInv` for `StatusFound`, for every `int`: no code outside of the range still searched is the first match. That the
  table is sorted, which the search needs, is proved from the table.
* `UnescapeInv` for `UnescapeFits`, for every query string and set of digits (`StringsAssumption`): the output is behind the reader by as many
  characters as the escape it is in still owes.
* `FitInv` for `CookiesFit`, for every list of cookies (`CookiesAssumption`). The measured length is a sum over the list, and a sum by recursion
  would need an induction for each step. `FitInv` says instead that there are partial totals `f`, `g` which the pass that measures has followed
  so far and the pass that writes follows again; each step extends them by one cookie.

**Induction** (`ProbeTheorems`). The library's induction theorems take an operator as a parameter, which the provers cannot instantiate. `Induction`
takes a set of numbers instead: a proof names the set of the positions a claim holds for, and shows that it has 0 and is closed
under the successor. It follows from `LeastNatural`, which rests on the library's well-founded order of the naturals. The module also has what the
chains need of remainders: multiples of a step smaller than a prime size visit every slot once (`PrimeCycle`).

**Table** (`TableProofs`), for every set of keys, every hash function, every list of odd primes as sizes, every cap (`SizesAssumption`, `CapAssumption`,
`HashAssumption`, `KeyAssumption`). `TableInv` has three parts:

* `Placed`: the chain of a set entry's key reaches its slot (`Reached`) without passing an unused one. So a lookup that stops at an unused slot
  misses nothing. Deleting leaves a tombstone and keeps it; Brent's move puts an entry on a later slot of its own chain, which is why
  it keeps it, too; the rehash into a table without tombstones builds it again, by induction over the slots moved.
* `Queued`: the queue holds the set slots, which have different keys; `count` is its length.
* `Typed` and the load: that some slot is free, together with `PrimeCycle`, makes each insertion find one.

From it follow `TypeOK`, `CountIsEntries`, `LoadRespected` and `LookupAgrees`; with `VisitInv`, by which a traversal has given the keys of the queue up to where it
is, `PairsVisitsAll`; and `TableRefines`, which maps each operation, failed ones included, to one of `LruMap` or a stutter: it is `ImplementsMap`.
The theorems that need it have `NoFaults` as a hypothesis, which excludes exactly what the runs `table_freed` and `table_oom` show: the freed key of
a removed entry that still compares equal, and memory that runs out for a key after an entry was moved. The first breaks
`Placed`'s use in lookups, the second `Queued`; with either the properties are false. The passing run `table` has the same setting.

**Codecs** (`CodecProofs`), for every byte sequence and every text (`SampleAssumption`, `PlainsAssumption`, `TextsAssumption`).

* `ScanInv` for `Utf8Agrees`: there is a last position up to which the characters are complete (`Boundary`); from there on, what was read and what the
  automaton's state waits for (`Awaited`) make up the ranges of the character that begins there (`After`). That the standard's reading
  (`Judged`) is the same is an induction over positions.
* `CodecInv` for `EncodesInPlace` and `DecodesInPlace`: `EncodeInv` gives the write position from the read position, with the
  input before the one and the result behind the other; `DecodeInv` likewise from the front, where writes stay behind reads. The
  block lemmas are arithmetic on three bytes or four digits; decoding what was encoded is the identity by them.

**Agreement** (`AgreementProofs`), for texts of every length (`PathAssumption`, `TemplatesAssumption`, `GroupsAssumption`, `CookiesAssumption`,
`StringsAssumption`, `DigitsAssumption`). Each compares a conversion that goes over a text with a definition that looks at it as a whole. The
references are stated by position, what each position stands for, and concatenated; the first lemmas say what one position more adds to a concatenation.

* `PathInv` for `SubstitutionAgrees`: before position `i` the measured length, and then the written text, are those of the first `i - 1`
  characters of the template; the position is never on the number of a reference, so no digit is read twice; and a group that
  is unset stops the first pass, so the second meets none.
* `PartsInv` for `CookiesAgree`: the parts of the header written so far are those of the cookies written, as folding one more at a comma
  adds its parts and changes none; the split has found the parts that end before the character at hand.
* `FieldsInv` for `ArgsAgree`. For the unescaping, what precedes the escape the reader is in is unescaped, and no earlier escape reaches into it
  (`Reads`); this is where escapes that do not overlap are needed. For the parser, a field begins at a part or, while a key
  waits, behind its '=' (`Waits`), and the table holds the fields of the parts ended before, the last one of each key.

Only model-checked: liveness (`Settled`, `CancelledPollEnds`, `TermEndsBusy`, `DrivingEnds`, the fairness half of `ImplementsProtocol`), which is
out of the prover's reach.

## 6. Not modelled

* Configuration parsing and a start that fails (they precede the loop), logging, the JSON binding, the garbage collection of the Lua state.
* The split of an API header line (`lws_handle_header`); the checks of an event's fields and of lengths near `SIZE_MAX`
  on the way, which fail as a whole (`NextMalformed`, `Allocate`, `MainIsReady`).
* In `Buffers`, the Content-Length hint: `content_length` is set from the headers only after the body was received
  and reset in the cleanup, so it is -1 whenever `lws_handle_write` runs.
* In `Args`, the branch for Lua 5.1, which refuses long fields; in `Base64`, the overflow of `lws_base64_encode_len`, which
  `Buffers` has.
* The read hook of files (`lws_lib.c:640`): what it stands in for is Lua's io library. Its test of the format lets `*l` and `*n` pass as `*a`.
* Files that appear or go after the stat cache has seen them: it keeps a file's first status for the life of the process.
* An event without any body: `lws_get_next_invocation` would zero the padding behind a NULL buffer; the runtime API sends a document.
* In `Table`: expiry (never enabled), removal of a single key (never called), what happens inside a table after
  the two violations above.
* In `Poll`, the handler runs to its end between two steps of main, as a signal handler of a
  single-threaded process does; a second SIGTERM is allowed.

Two results to read with care: a cookie with a comma of its own, as in an Expires attribute, is cut at it when it is sent back in
Set-Cookie (`CookiesAgree` says so; folded cookies cannot be told from it), and a query field with a
second '=' ends its value there (`ArgsAgree` leaves such fields out).
