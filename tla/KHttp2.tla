------------------------------- MODULE KHttp2 -------------------------------
(***************************************************************************)
(* One HTTP/2 server connection (class KHttp2) and the streams on it       *)
(* (KHttp2Context, driven by a KHttp2Sink in a request fiber).             *)
(*                                                                         *)
(* Everything here runs on one selector thread.  The actors that           *)
(* interleave are the read callback (on_read_result, which parses frames), *)
(* the write callback (on_write_result), the request fibers, and time.  A  *)
(* callback runs to completion; a fiber runs until it sleeps in            *)
(* kfiber_wait.  kfiber_wakeup only makes a fiber runnable.                *)
(*                                                                         *)
(* Frames are abstracted to their effect on this state; byte strings to    *)
(* their length; write_buffer to the order of the buffers that have a      *)
(* waiting fiber, with every run of buffers nobody waits for as one NoCtx. *)
(***************************************************************************)
EXTENDS Integers, Sequences, FiniteSets

CONSTANTS
  Streams,            \* stream ids the peer may use
  PeerFrames,         \* kinds of frame the peer sends in this instance
  Faults,             \* what else happens in it: "error", "silence", "slow"
  SinkOps,            \* calls the request handler makes in this instance
  Increments,         \* WINDOW_UPDATE increments
  InitWindows,        \* SETTINGS_INITIAL_WINDOW_SIZE values
  FrameSizes,         \* SETTINGS_MAX_FRAME_SIZE values
  DataLens,           \* lengths of DATA frames
  WriteLens,          \* lengths passed to write
  ReadLens,           \* buffer lengths passed to read
  BodySizes,          \* body sizes of a response, -1 when unknown
  TimeoutCounts,      \* arguments of set_time_out
  Duplex,             \* a stream may be read and written by two fibers at once
  MaxWindow,          \* KGL_HTTP_V2_MAX_WINDOW
  DefaultWindow,      \* KGL_HTTP_V2_DEFAULT_WINDOW
  DefaultFrameSize,   \* KGL_HTTP_V2_DEFAULT_FRAME_SIZE
  StreamRecvWindow,   \* KGL_HTTP_V2_STREAM_RECV_WINDOW
  ConnRecvWindow,     \* KGL_HTTP_V2_CONNECTION_RECV_WINDOW
  FileWidth           \* 2^16: a sendfile frame has its length cast to uint16_t

ASSUME StreamsAssumption == Streams \subseteq Nat \ {0}
ASSUME SizesAssumption ==
  /\ Increments \subseteq Nat /\ InitWindows \subseteq Nat
  /\ DataLens \subseteq Nat /\ FrameSizes \subseteq Nat \ {0}
  /\ WriteLens \subseteq Nat \ {0} /\ ReadLens \subseteq Nat \ {0}
  /\ BodySizes \subseteq Nat \cup {-1} /\ TimeoutCounts \subseteq Nat
  /\ Duplex \in BOOLEAN
ASSUME WindowsAssumption ==
  /\ MaxWindow \in Nat /\ DefaultWindow \in 0..MaxWindow
  /\ DefaultFrameSize \in Nat \ {0}
  /\ StreamRecvWindow \in Nat \ {0} /\ ConnRecvWindow \in Nat \ {0}
  /\ FileWidth \in Nat \ {0}
  /\ \A v \in InitWindows : v <= MaxWindow

VARIABLES
  \* the connection object
  deleted,            \* ~KHttp2 has run
  closed, read_processing, write_processing,
  self_goaway, peer_goaway, pinged,
  down,               \* selectable_shutdown was called on the socket
  processing,         \* count of sinks that hold the connection
  send_window, init_window, frame_size, recv_window,
  last_peer_sid,
  write_buffer,       \* what is queued for the socket, see above
  queue,              \* active_queue: the streams under a timeout
  expired,            \* those of queue whose time has run out
  tmo_left,           \* further timeouts a queued stream is granted
  scan,               \* nodes check_write_wait has still to visit
  \* the frame parser, kgl_http_v2_state_t
  phase,              \* where on_read_result is
  handler, stream, length, fin, padded,
  \* the streams
  ctx,                \* allocated KHttp2Contexts
  node,               \* streams reachable through streams_index
  live,               \* streams whose KHttp2Sink exists, with its fiber
  flag,               \* the one-bit fields of a context
  num,                \* the integer fields of a context
  read_wait,          \* streams with a read event
  write_wait,         \* kind of the write event
  rsleep, wsleep      \* streams with a fiber asleep in read, in write

NoCtx == 0
NoStream == 0

Flags == {"in_closed", "out_closed", "rst", "parsed_header",
          "destroy_by_http2", "send_header", "write_trailer", "responded",
          "sendfile"}

\* IS_WRITE_WAIT_FOR_WINDOW, _WRITING and _HUP tell the kinds apart.
WaitKinds == {"none", "WINDOW", "WRITING", "HUP"}

lifeVars == <<deleted, closed, read_processing, processing, down>>
goVars == <<self_goaway, peer_goaway, last_peer_sid>>
outVars == <<write_buffer, write_processing>>
queueVars == <<queue, expired, tmo_left>>
parseVars == <<handler, stream, length, fin, padded>>
treeVars == <<ctx, node, live>>
readWaitVars == <<read_wait, rsleep>>
writeWaitVars == <<write_wait, wsleep>>
vars == <<lifeVars, goVars, outVars, queueVars, parseVars, treeVars,
          readWaitVars, writeWaitVars, pinged, phase, scan,
          send_window, init_window, frame_size, recv_window, flag, num>>

Min(a, b) == IF a < b THEN a ELSE b

Has(s, f) == f \in flag[s]

\* The fields KHttp2Context::Init gives a new context; the model also keeps
\* them for a stream that has no context.
FreshNum(w) == [send_window |-> w, recv_window |-> StreamRecvWindow,
                buffered |-> 0, content_left |-> 0, wait_len |-> 0,
                tmo |-> 0]
NoNum == FreshNum(0)

Init ==
  /\ deleted = FALSE /\ closed = FALSE /\ down = FALSE
  /\ read_processing = TRUE
  /\ write_processing = TRUE           \* server() queued SETTINGS
  /\ write_buffer = <<NoCtx>>
  /\ self_goaway = FALSE /\ peer_goaway = FALSE /\ pinged = FALSE
  /\ processing = 0 /\ last_peer_sid = 0
  /\ send_window = DefaultWindow /\ init_window = DefaultWindow
  /\ frame_size = DefaultFrameSize /\ recv_window = ConnRecvWindow
  /\ queue = {} /\ expired = {} /\ scan = {}
  /\ phase = "wait" /\ handler = "head" /\ stream = NoStream
  /\ length = 0 /\ fin = FALSE /\ padded = FALSE
  /\ ctx = {} /\ node = {} /\ live = {}
  /\ flag = [s \in Streams |-> {}]
  /\ num = [s \in Streams |-> NoNum]
  /\ tmo_left = [s \in Streams |-> 0]
  /\ read_wait = {} /\ rsleep = {} /\ wsleep = {}
  /\ write_wait = [s \in Streams |-> "none"]

-----------------------------------------------------------------------------
(* Helpers the handlers share.                                             *)

\* KHttp2WriteBuffer::push of buffers without a waiter.
WithControl(b) == IF b # <<>> /\ b[Len(b)] = NoCtx THEN b ELSE Append(b, NoCtx)

\* Queue control frames when pushed holds, and call start_write when start.
Push(pushed, start) ==
  /\ write_buffer' = IF pushed THEN WithControl(write_buffer) ELSE write_buffer
  /\ write_processing' = (write_processing \/ (start /\ ~closed))

\* Mutant: off by one, the timeout that starts is counted off.
AddQueueCounted(s) ==
  /\ queue' = queue \cup {s}
  /\ expired' = expired \ {s}
  /\ tmo_left' = [tmo_left EXCEPT ![s] = num[s].tmo - 1]

\* KHttp2::AddQueue, KHttp2Context::RemoveQueue: the timer starts afresh.
AddQueue(s) ==
  /\ queue' = queue \cup {s}
  /\ expired' = expired \ {s}
  /\ tmo_left' = [tmo_left EXCEPT ![s] = num[s].tmo]
RemoveQueue(S) ==
  /\ queue' = queue \ S
  /\ expired' = expired \ S
  /\ UNCHANGED tmo_left

\* Mutant: the other half of a stream is forgotten.
FlushQueueAlways(s, waiting) == RemoveQueue({s})

\* FlushQueue: keep the stream queued only while somebody still waits.
FlushQueue(s, waiting) == IF waiting THEN AddQueue(s) ELSE RemoveQueue({s})

IsWriteClosed(s) == ~read_processing \/ closed \/ Has(s, "out_closed")

\* What a reset sets on a stream.
RstFlags == {"in_closed", "out_closed", "rst"}

\* Both halves of the stream have ended.
BothClosed(s) == Has(s, "in_closed") /\ Has(s, "out_closed")

\* Mutant: only a readhup callback is handed back.
TakesHup(s) == write_wait[s] = "HUP"

\* The write event terminate_stream, rst_stream and close hand back: every
\* one but a WRITING one, which http2_buff::clean hands back.
TakesWrite(s) == write_wait[s] # "WRITING"

\* terminate_stream without the RST_STREAM frame: events are taken off the
\* stream, both halves closed, the sleepers woken with -1.
Cut(S) ==
  /\ flag' = [s \in Streams |-> IF s \in S THEN flag[s] \cup RstFlags ELSE flag[s]]
  /\ read_wait' = read_wait \ S
  /\ rsleep' = rsleep \ S
  /\ write_wait' = [s \in Streams |->
                      IF s \in S /\ TakesWrite(s) THEN "none" ELSE write_wait[s]]
  /\ wsleep' = wsleep \ {s \in S : TakesWrite(s)}
  /\ RemoveQueue(S)

\* terminate_stream: does it send RST_STREAM?
SendsRst(s) == ~BothClosed(s) /\ s \in node /\ read_processing

terminate_stream(s) ==
  /\ Cut({s})
  /\ Push(SendsRst(s), SendsRst(s))

shutdown(s) ==
  IF Has(s, "rst")
  THEN UNCHANGED <<flag, readWaitVars, writeWaitVars, queueVars, outVars>>
  ELSE terminate_stream(s)

\* Mutant: the connection window is not looked at.
RoomInStream(sw) == Min(frame_size, sw)

\* on_write_window_ready: how much may be sent when the stream window is sw.
Room(sw) == Min(Min(frame_size, sw), send_window)

\* Mutant: off by one.
EndsLate(left, sent) == left > 0 /\ left - sent < 0

\* build_write_buffer: these bytes complete the content length.
Ends(left, sent) == left > 0 /\ left - sent <= 0

\* build_write_buffer: the bytes of one frame, a file's cast to uint16_t.
FrameLen(room, blen, file) ==
  LET n == Min(room, blen) IN IF file /\ n >= FileWidth THEN n % FileWidth ELSE n

\* The sendfile bit is set by sendfile and cleared by write.
AsFile(fl, file) == IF file THEN fl \cup {"sendfile"} ELSE fl \ {"sendfile"}

\* on_write_window_ready together with build_write_buffer, for a write of
\* blen bytes, of a file or of memory, when the stream window is sw.
on_write_window_ready(s, sw, blen, file) ==
  LET room == Room(sw)
      sent == FrameLen(room, blen, file)
      left == num[s].content_left
  IN IF room <= 0
     THEN /\ num' = [num EXCEPT ![s].send_window = sw, ![s].wait_len = blen]
          /\ write_wait' = [write_wait EXCEPT ![s] = "WINDOW"]
          /\ flag' = [flag EXCEPT ![s] = AsFile(@, file)]
          /\ AddQueue(s)
          /\ UNCHANGED <<send_window, outVars>>
     ELSE /\ num' = [num EXCEPT ![s].send_window = sw - sent, ![s].wait_len = 0,
                                ![s].content_left = IF left > 0 THEN left - sent ELSE left]
          /\ send_window' = send_window - sent
          /\ flag' = [flag EXCEPT ![s] = AsFile(@, file) \cup
                        (IF Ends(left, sent) THEN {"out_closed"} ELSE {})]
          /\ write_wait' = [write_wait EXCEPT ![s] = "WRITING"]
          /\ write_buffer' = Append(write_buffer, s)
          /\ write_processing' = TRUE
          /\ FlushQueue(s, s \in read_wait)

-----------------------------------------------------------------------------
(* The end of a context, of a frame and of the connection.                 *)

\* can_destroy, with n sinks left and the two processing flags.
can_destroy(n, rp, wp) == n = 0 /\ ~rp /\ ~wp

\* release_admin, ReleaseStateStream: Destroy the context of s.
Destroy(s) ==
  /\ ctx' = ctx \ {s}
  /\ flag' = [flag EXCEPT ![s] = {}]
  /\ num' = [num EXCEPT ![s] = NoNum]

\* state_complete: ReleaseStateStream drops the parser's stream, destroying
\* it when its sink has gone meanwhile; fl and nm are the fields so far.
state_complete(s, fl, nm) ==
  /\ handler' = "head" /\ stream' = NoStream
  /\ length' = 0 /\ fin' = FALSE /\ padded' = FALSE
  /\ IF s # NoStream /\ Has(s, "destroy_by_http2")
     THEN Destroy(s)
     ELSE flag' = fl /\ num' = nm /\ UNCHANGED ctx

\* The parser holds a stream whose header is not complete: there is a sink
\* but no fiber.
Incomplete == stream # NoStream /\ ~Has(stream, "parsed_header")

\* delete this: ~KHttp2 with ReleaseStateStream.  Deleting the sink of an
\* incomplete stream runs release, which takes down processing once more.
DeleteThis(n) ==
  /\ deleted' = TRUE
  /\ processing' = IF Incomplete THEN n - 1 ELSE n
  /\ write_buffer' = <<>>
  /\ stream' = NoStream /\ handler' = "head"
  /\ length' = 0 /\ fin' = FALSE /\ padded' = FALSE

\* The contexts ~KHttp2 destroys.
LastContexts ==
  IF stream # NoStream /\ (Incomplete \/ Has(stream, "destroy_by_http2"))
  THEN {stream} ELSE {}

\* The fibers close(false) wakes through remove_buff.
Buffered(b) == {b[i] : i \in 1..Len(b)} \ {NoCtx}

\* KHttp2::close(read): every stream with a node is cut, a failed write also
\* drops the write buffer, and the connection goes with its last user.
close(read) ==
  LET gone == can_destroy(processing, read_processing /\ ~read, write_processing /\ read)
      last == IF gone THEN LastContexts ELSE {}
      back == {s \in node : TakesWrite(s)}
                \cup (IF read THEN {} ELSE Buffered(write_buffer))
  IN /\ closed' = TRUE
     /\ read_processing' = (read_processing /\ ~read)
     /\ self_goaway' = (self_goaway \/ read)
     /\ write_processing' = (write_processing /\ read)
     /\ flag' = [s \in Streams |-> IF s \in last THEN {}
                                   ELSE IF s \in node THEN flag[s] \cup RstFlags ELSE flag[s]]
     /\ num' = [s \in Streams |-> IF s \in last THEN NoNum ELSE num[s]]
     /\ read_wait' = read_wait \ node
     /\ rsleep' = rsleep \ node
     /\ write_wait' = [s \in Streams |-> IF s \in back THEN "none" ELSE write_wait[s]]
     /\ wsleep' = wsleep \ back
     /\ RemoveQueue(node)
     /\ ctx' = ctx \ last
     /\ node' = node \ last
     /\ phase' = "wait"
     /\ IF gone
        THEN DeleteThis(processing)
        ELSE /\ write_buffer' = IF read THEN write_buffer ELSE <<>>
             /\ UNCHANGED <<deleted, processing, parseVars>>
     /\ UNCHANGED <<down, peer_goaway, last_peer_sid, scan, live,
                    send_window, init_window, frame_size, recv_window>>

-----------------------------------------------------------------------------
(* The read callback.  A frame is handled when its bytes have come; DATA   *)
(* and HEADERS may come in several reads, between which everyone else      *)
(* runs.  phase is "wait" while the selector waits for the socket, "loop"  *)
(* between two handlers of one on_read_result, "head" and "ping" inside    *)
(* check_stream_timeout called by state_head and by ping.                  *)

Readable == ~deleted /\ read_processing /\ scan = {}

\* state_head: the next frame is of this kind and timeouts are settled.
FrameStart(kind) ==
  /\ Readable /\ handler = "head" /\ phase \in {"wait", "loop", "head"}
  /\ expired = {}
  /\ kind \in PeerFrames

\* More bytes for the frame that handler h is in the middle of.
FrameGoesOn(h) == Readable /\ handler = h /\ phase = "wait"

\* The handler returned, on_read_result goes on.
Parsed == phase' = "loop" /\ pinged' = FALSE

\* check_stream_timeout, one turn of its loop: from state_head or from ping.
check_stream_timeout(s) ==
  /\ Readable /\ s \in expired
  /\ \/ /\ handler = "head" /\ phase \in {"wait", "loop", "head"}
        /\ phase' = "head"
     \/ /\ ~pinged /\ phase \in {"wait", "ping"}
        /\ phase' = "ping" /\ "silence" \in Faults
  /\ \/ /\ tmo_left[s] > 0
        /\ tmo_left' = [tmo_left EXCEPT ![s] = @ - 1]
        /\ expired' = expired \ {s}
        /\ UNCHANGED <<queue, flag, readWaitVars, writeWaitVars, outVars>>
     \/ /\ tmo_left[s] = 0
        /\ IF Has(s, "rst")
           THEN RemoveQueue({s}) /\ UNCHANGED <<flag, readWaitVars, writeWaitVars, outVars>>
           ELSE terminate_stream(s)
  /\ UNCHANGED <<lifeVars, goVars, parseVars, treeVars, pinged, scan,
                 send_window, init_window, frame_size, recv_window, num>>

\* state_headers for a new stream; whole when END_HEADERS came with it.
NewHeaders(s, f, whole) ==
  /\ FrameStart(IF whole THEN "HEADERS" ELSE "HEADERS_SPLIT")
  /\ s >= last_peer_sid /\ ~self_goaway /\ s \notin node
  /\ last_peer_sid' = s
  /\ node' = node \cup {s} /\ ctx' = ctx \cup {s}
  /\ num' = [num EXCEPT ![s] = FreshNum(init_window)]
  /\ tmo_left' = [tmo_left EXCEPT ![s] = 0]
  /\ flag' = [flag EXCEPT ![s] = (IF f THEN {"in_closed"} ELSE {})
                                   \cup (IF whole THEN {"parsed_header"} ELSE {})]
  /\ IF whole
     THEN /\ live' = live \cup {s} /\ processing' = processing + 1
          /\ UNCHANGED parseVars
     ELSE /\ handler' = "header_block" /\ stream' = s /\ fin' = f
          /\ UNCHANGED <<live, processing, length, padded>>
  /\ Parsed
  /\ UNCHANGED <<deleted, closed, read_processing, down, self_goaway, peer_goaway,
                 outVars, queue, expired, readWaitVars, writeWaitVars, scan,
                 send_window, init_window, frame_size, recv_window>>

\* state_header_complete for a new stream: on_header_success counts the
\* request and creates its fiber.
NewHeadersComplete ==
  /\ FrameGoesOn("header_block") /\ ~Has(stream, "parsed_header")
  /\ flag' = [flag EXCEPT ![stream] = @ \cup {"parsed_header"}]
  /\ live' = live \cup {stream} /\ processing' = processing + 1
  /\ handler' = "head" /\ stream' = NoStream /\ fin' = FALSE
  /\ Parsed
  /\ UNCHANGED <<deleted, closed, read_processing, down, goVars, outVars, queueVars,
                 length, padded, ctx, node, readWaitVars, writeWaitVars, scan,
                 send_window, init_window, frame_size, recv_window, num>>

\* state_headers on a connection that sent GOAWAY, or for a stream that
\* depends on itself: RST_STREAM and the block is skipped.
RefusedHeaders(s, itself) ==
  /\ FrameStart("HEADERS_REFUSED")
  /\ s >= last_peer_sid
  /\ self_goaway \/ itself
  /\ last_peer_sid' = IF self_goaway THEN last_peer_sid ELSE s
  /\ Push(TRUE, TRUE)
  /\ Parsed
  /\ UNCHANGED <<lifeVars, self_goaway, peer_goaway, queueVars, parseVars, treeVars,
                 readWaitVars, writeWaitVars, scan,
                 send_window, init_window, frame_size, recv_window, flag, num>>

\* on_header_success for trailers: the reader is woken with 0, or, when the
\* stream is no longer available, ReleaseStateStream drops it.
TrailersDone(s) ==
  IF Has(s, "rst") \/ Has(s, "destroy_by_http2")
  THEN /\ state_complete(s, flag, num)
       /\ UNCHANGED readWaitVars
  ELSE /\ state_complete(NoStream, flag, num)
       /\ read_wait' = read_wait \ {s} /\ rsleep' = rsleep \ {s}

\* state_headers for a stream that exists: its trailers.
Trailers(s, f, whole) ==
  /\ FrameStart(IF whole THEN "TRAILERS" ELSE "TRAILERS_SPLIT")
  /\ s >= last_peer_sid /\ ~self_goaway /\ s \in node
  /\ last_peer_sid' = s
  /\ RemoveQueue({s})
  /\ \/ /\ Has(s, "rst") \/ Has(s, "in_closed")
        /\ UNCHANGED <<parseVars, ctx, readWaitVars, flag, num>>
     \/ /\ ~Has(s, "rst") /\ ~Has(s, "in_closed") /\ whole
        /\ UNCHANGED <<parseVars, ctx, num>>
        /\ flag' = IF f THEN [flag EXCEPT ![s] = @ \cup {"in_closed"}] ELSE flag
        /\ read_wait' = read_wait \ {s} /\ rsleep' = rsleep \ {s}
     \/ /\ ~Has(s, "rst") /\ ~Has(s, "in_closed") /\ ~whole
        /\ flag' = IF f THEN [flag EXCEPT ![s] = @ \cup {"in_closed"}] ELSE flag
        /\ handler' = "header_block" /\ stream' = s /\ fin' = f
        /\ UNCHANGED <<length, padded, ctx, readWaitVars, num>>
  /\ Parsed
  /\ UNCHANGED <<lifeVars, self_goaway, peer_goaway, outVars, node, live,
                 writeWaitVars, scan, send_window, init_window, frame_size, recv_window>>

TrailersComplete ==
  /\ FrameGoesOn("header_block") /\ Has(stream, "parsed_header")
  /\ TrailersDone(stream)
  /\ Parsed
  /\ UNCHANGED <<lifeVars, goVars, outVars, queueVars, node, live, writeWaitVars, scan,
                 send_window, init_window, frame_size, recv_window>>

\* state_read_data: n of the left bytes are here.  They go to the read
\* buffer, a waiting reader takes up to rl of them, and the last byte of a
\* frame with END_STREAM closes the half.
state_read_data(s, left, f, pad, n, rl, nm) ==
  LET waits == s \in read_wait
      ends == n = left /\ f
      held == nm[s].buffered + n
      taken == IF waits /\ n > 0 THEN Min(rl, held) ELSE 0
      nm1 == [nm EXCEPT ![s].buffered = held - taken]
      fl1 == IF ends THEN [flag EXCEPT ![s] = @ \cup {"in_closed"}] ELSE flag
  IN /\ IF waits /\ (n > 0 \/ ends)
        THEN /\ read_wait' = read_wait \ {s} /\ rsleep' = rsleep \ {s}
             /\ FlushQueue(s, write_wait[s] = "WINDOW")
        ELSE UNCHANGED <<readWaitVars, queueVars>>
     /\ IF n < left \/ pad
        THEN /\ handler' = IF n < left THEN "read_data" ELSE "skip"
             /\ stream' = s /\ length' = left - n /\ fin' = f /\ padded' = pad
             /\ flag' = fl1 /\ num' = nm1 /\ UNCHANGED ctx
        ELSE state_complete(s, fl1, nm1)

\* state_data takes a frame of L bytes off the connection window and refills
\* the window when it is low; whether it had to, and what is left.
Refills(L) == recv_window - L < ConnRecvWindow \div 4
TakeRecvWindow(L) ==
  recv_window' = IF Refills(L) THEN ConnRecvWindow ELSE recv_window - L

\* state_data, the frame exceeds the connection window.
DataOverrun(L) ==
  /\ FrameStart("DATA") /\ L > recv_window
  /\ close(TRUE) /\ pinged' = FALSE

\* state_data, no such stream.
DataUnknown(s, L) ==
  /\ FrameStart("DATA") /\ L <= recv_window /\ s \notin node
  /\ TakeRecvWindow(L)
  /\ Push(Refills(L), Refills(L))
  /\ Parsed
  /\ UNCHANGED <<lifeVars, goVars, queueVars, parseVars, treeVars, readWaitVars,
                 writeWaitVars, scan, send_window, init_window, frame_size, flag, num>>

\* state_data, the stream cannot take the frame: its header is missing, the
\* frame exceeds its window, or its input has ended.
DataRefused(s, L) ==
  LET over == ~Has(s, "parsed_header") \/ L > num[s].recv_window
  IN /\ FrameStart("DATA") /\ L <= recv_window /\ s \in node
     /\ over \/ Has(s, "in_closed")
     /\ TakeRecvWindow(L)
     /\ Cut({s})
     /\ Push(Refills(L) \/ SendsRst(s), SendsRst(s) \/ (~over /\ Refills(L)))
     /\ num' = IF over THEN num ELSE [num EXCEPT ![s].recv_window = @ - L]
     /\ Parsed
     /\ UNCHANGED <<lifeVars, goVars, parseVars, treeVars, scan,
                    send_window, init_window, frame_size>>

\* state_data, the stream takes the frame, of which n bytes are here.
Data(s, L, f, pad, n, rl) ==
  /\ FrameStart("DATA") /\ L <= recv_window /\ s \in node
  /\ Has(s, "parsed_header") /\ L <= num[s].recv_window /\ ~Has(s, "in_closed")
  /\ TakeRecvWindow(L)
  /\ Push(Refills(L), Refills(L))
  /\ state_read_data(s, L, f, pad, n, rl, [num EXCEPT ![s].recv_window = @ - L])
  /\ Parsed
  /\ UNCHANGED <<lifeVars, goVars, node, live, writeWaitVars, scan,
                 send_window, init_window, frame_size>>

\* state_read_data, n more bytes of the frame.
DataGoesOn(n, rl) ==
  /\ FrameGoesOn("read_data")
  /\ n \in 1..length
  /\ state_read_data(stream, length, fin, padded, n, rl, num)
  /\ Parsed
  /\ UNCHANGED <<lifeVars, goVars, outVars, node, live, writeWaitVars, scan,
                 send_window, init_window, frame_size, recv_window>>

\* state_skip, the padding has come.
SkipComplete ==
  /\ FrameGoesOn("skip")
  /\ state_complete(stream, flag, num)
  /\ Parsed
  /\ UNCHANGED <<lifeVars, goVars, outVars, queueVars, node, live, readWaitVars,
                 writeWaitVars, scan, send_window, init_window, frame_size, recv_window>>

\* state_rst_stream.
RstStream(s) ==
  /\ FrameStart("RST_STREAM") /\ s \in node
  /\ Cut({s})
  /\ num' = [num EXCEPT ![s].buffered = 0]
  /\ Parsed
  /\ UNCHANGED <<lifeVars, goVars, outVars, parseVars, treeVars, scan,
                 send_window, init_window, frame_size, recv_window>>

\* state_window_update for a stream.
WindowUpdate(s, w) ==
  LET sw == num[s].send_window + w
  IN /\ FrameStart("WINDOW_UPDATE") /\ s \in node
     /\ \/ /\ w > MaxWindow - num[s].send_window
           /\ terminate_stream(s)
           /\ UNCHANGED <<send_window, num>>
        \/ /\ w <= MaxWindow - num[s].send_window
           /\ write_wait[s] = "WINDOW"
           /\ on_write_window_ready(s, sw, num[s].wait_len, Has(s, "sendfile"))
           /\ UNCHANGED <<wsleep, readWaitVars>>
        \/ /\ w <= MaxWindow - num[s].send_window
           /\ write_wait[s] # "WINDOW"
           /\ num' = [num EXCEPT ![s].send_window = sw]
           /\ UNCHANGED <<send_window, flag, outVars, queueVars, readWaitVars, writeWaitVars>>
     /\ Parsed
     /\ UNCHANGED <<lifeVars, goVars, parseVars, treeVars, scan,
                    init_window, frame_size, recv_window>>

\* Mutant: off by one.
Overdrawn == send_window < 0

\* The connection window is used up.
UsedUp == send_window <= 0

\* state_window_update for the connection: check_write_wait only when the
\* window had been used up.
ConnWindowUpdate(w) ==
  /\ FrameStart("WINDOW_UPDATE")
  /\ w <= MaxWindow - send_window
  /\ send_window' = send_window + w
  /\ scan' = IF UsedUp THEN node ELSE {}
  /\ Parsed
  /\ UNCHANGED <<lifeVars, goVars, outVars, queueVars, parseVars, treeVars, readWaitVars,
                 writeWaitVars, init_window, frame_size, recv_window, flag, num>>

\* check_write_wait, one turn of its loop: give a waiting writer its window.
check_write_wait(s) ==
  /\ s \in scan
  /\ IF send_window <= 0
     THEN /\ scan' = {}
          /\ UNCHANGED <<send_window, flag, num, outVars, queueVars, write_wait>>
     ELSE /\ scan' = scan \ {s}
          /\ IF num[s].send_window > 0 /\ write_wait[s] = "WINDOW"
             THEN on_write_window_ready(s, num[s].send_window, num[s].wait_len,
                                        Has(s, "sendfile"))
             ELSE UNCHANGED <<send_window, flag, num, outVars, queueVars, write_wait>>
  /\ UNCHANGED <<lifeVars, goVars, parseVars, treeVars, readWaitVars, wsleep, pinged,
                 phase, init_window, frame_size, recv_window>>

\* Mutant: a smaller setting takes nothing back.
AdjustedUp(s, delta) ==
  IF delta > 0 /\ num[s].send_window <= MaxWindow - delta
  THEN num[s].send_window + delta ELSE num[s].send_window

\* adjust_windows: a stream whose window would overflow is passed over.
Adjusted(s, delta) ==
  IF delta > 0 /\ num[s].send_window > MaxWindow - delta
  THEN num[s].send_window ELSE num[s].send_window + delta

\* state_settings with INITIAL_WINDOW_SIZE: acknowledge, adjust_windows.
SettingsWindow(v) ==
  /\ FrameStart("SETTINGS")
  /\ Push(TRUE, TRUE)
  /\ init_window' = v
  /\ num' = [s \in Streams |->
               IF s \in node THEN [num[s] EXCEPT !.send_window = Adjusted(s, v - init_window)]
                             ELSE num[s]]
  /\ scan' = node
  /\ Parsed
  /\ UNCHANGED <<lifeVars, goVars, queueVars, parseVars, treeVars, readWaitVars,
                 writeWaitVars, send_window, frame_size, recv_window, flag>>

\* state_settings with MAX_FRAME_SIZE.
SettingsFrameSize(v) ==
  /\ FrameStart("SETTINGS")
  /\ Push(TRUE, TRUE)
  /\ frame_size' = v
  /\ Parsed
  /\ UNCHANGED <<lifeVars, goVars, queueVars, parseVars, treeVars, readWaitVars,
                 writeWaitVars, scan, send_window, init_window, recv_window, flag, num>>

\* state_ping: the answer is queued.
PingFrame ==
  /\ FrameStart("PING")
  /\ Push(TRUE, TRUE)
  /\ Parsed
  /\ UNCHANGED <<lifeVars, goVars, queueVars, parseVars, treeVars, readWaitVars,
                 writeWaitVars, scan, send_window, init_window, frame_size, recv_window,
                 flag, num>>

\* state_goaway.
GoawayFrame ==
  /\ FrameStart("GOAWAY")
  /\ peer_goaway' = TRUE
  /\ Parsed
  /\ UNCHANGED <<lifeVars, self_goaway, last_peer_sid, outVars, queueVars, parseVars,
                 treeVars, readWaitVars, writeWaitVars, scan,
                 send_window, init_window, frame_size, recv_window, flag, num>>

\* The frames that change nothing: PRIORITY, ALTSVC, PUSH_PROMISE, an
\* acknowledgement, RST_STREAM or WINDOW_UPDATE for a stream that is not there.
IdleFrame ==
  /\ FrameStart("IDLE")
  /\ Parsed
  /\ UNCHANGED <<lifeVars, goVars, outVars, queueVars, parseVars, treeVars, readWaitVars,
                 writeWaitVars, scan, send_window, init_window, frame_size, recv_window,
                 flag, num>>

\* on_read_result with an error or end of file, and every handler that
\* rejects its frame: close(true).
ReadError ==
  /\ Readable /\ phase \in {"wait", "loop", "head"}
  /\ down \/ closed \/ "error" \in Faults
  /\ close(TRUE)
  /\ UNCHANGED pinged

\* on_read_result with ST_ERR_TIME_OUT: a second silent period, or a
\* connection with nothing left to do, shuts the socket down.
ReadTimeoutShutdown ==
  /\ "silence" \in Faults
  /\ Readable /\ phase = "wait" /\ ~down
  /\ pinged \/ (self_goaway /\ processing = 0 /\ ~write_processing)
  /\ down' = TRUE
  /\ UNCHANGED <<deleted, closed, read_processing, processing, goVars, outVars, queueVars,
                 parseVars, treeVars, readWaitVars, writeWaitVars, pinged, phase, scan,
                 send_window, init_window, frame_size, recv_window, flag, num>>

\* on_read_result with ST_ERR_TIME_OUT: ping.
ReadTimeoutPing ==
  /\ "silence" \in Faults
  /\ Readable /\ phase \in {"wait", "ping"}
  /\ ~pinged /\ expired = {}
  /\ ~(self_goaway /\ processing = 0 /\ ~write_processing)
  /\ pinged' = TRUE /\ phase' = "wait"
  /\ Push(TRUE, TRUE)
  /\ UNCHANGED <<lifeVars, goVars, queueVars, parseVars, treeVars, readWaitVars,
                 writeWaitVars, scan, send_window, init_window, frame_size, recv_window,
                 flag, num>>

\* start_read at the end of on_read_result; idle when last_stream_msec is
\* long past.
StartRead(idle) ==
  LET says == processing = 0 /\ ~self_goaway /\ idle /\ "silence" \in Faults
      writes == write_processing \/ (says /\ ~closed)
  IN /\ Readable /\ phase = "loop"
     /\ \/ /\ processing = 0 /\ ~writes /\ peer_goaway
           /\ close(TRUE)
        \/ /\ ~(processing = 0 /\ ~writes /\ peer_goaway)
           /\ phase' = "wait"
           /\ self_goaway' = (self_goaway \/ says)
           /\ Push(says, says)
           /\ UNCHANGED <<lifeVars, peer_goaway, last_peer_sid, queueVars, parseVars,
                          treeVars, readWaitVars, writeWaitVars, scan,
                          send_window, init_window, frame_size, recv_window, flag, num>>
     /\ UNCHANGED pinged

\* Time passes: some of the queued streams run out of it.
Elapse(S) ==
  /\ "slow" \in Faults
  /\ ~deleted /\ phase = "wait" /\ scan = {}
  /\ S # {} /\ S \subseteq queue \ expired
  /\ expired' = expired \cup S
  /\ UNCHANGED <<lifeVars, goVars, outVars, queue, tmo_left, parseVars, treeVars,
                 readWaitVars, writeWaitVars, pinged, phase, scan,
                 send_window, init_window, frame_size, recv_window, flag, num>>

-----------------------------------------------------------------------------
(* The write callback.                                                     *)

Writable == ~deleted /\ write_processing /\ phase = "wait" /\ scan = {}

\* Mutant: one write per wakeup.
GoesOnNever(n) == FALSE

\* try_write: is there more to write after the first n buffers?
GoesOnWriting(n) == n < Len(write_buffer)

\* on_write_result: the first n buffers have been written, their fibers are
\* woken by http2_buff::clean; then try_write or CloseWrite.
WriteDone(n) ==
  LET written == Buffered(SubSeq(write_buffer, 1, n))
      gone == can_destroy(processing, read_processing, GoesOnWriting(n))
      last == IF gone THEN LastContexts ELSE {}
  IN /\ Writable /\ n \in 1..Len(write_buffer)
     /\ write_wait' = [s \in Streams |-> IF s \in written THEN "none" ELSE write_wait[s]]
     /\ wsleep' = wsleep \ written
     /\ write_processing' = GoesOnWriting(n)
     /\ flag' = [s \in Streams |-> IF s \in last THEN {} ELSE flag[s]]
     /\ num' = [s \in Streams |-> IF s \in last THEN NoNum ELSE num[s]]
     /\ ctx' = ctx \ last /\ node' = node \ last
     /\ IF gone
        THEN DeleteThis(processing)
        ELSE /\ write_buffer' = SubSeq(write_buffer, n + 1, Len(write_buffer))
             /\ UNCHANGED <<deleted, processing, parseVars>>
     /\ UNCHANGED <<closed, read_processing, down, goVars, queueVars, live, readWaitVars,
                    pinged, phase, scan, send_window, init_window, frame_size, recv_window>>

\* on_write_result or NextWrite with an error: close(false).
WriteError ==
  /\ Writable /\ ("error" \in Faults \/ down)
  /\ close(FALSE)
  /\ UNCHANGED pinged

-----------------------------------------------------------------------------
(* The request fibers: what a handler may call on its KHttp2Sink.  The     *)
(* handler itself is external; it keeps the order KSink asks for.          *)

Running(s, op) ==
  /\ ~deleted /\ phase = "wait" /\ scan = {}
  /\ s \in live /\ op \in SinkOps

\* No fiber of the stream sleeps that would have to make this call.
MayRead(s) == s \notin rsleep /\ (Duplex \/ s \notin wsleep)
MayWrite(s) == s \notin wsleep /\ (Duplex \/ s \notin rsleep)

\* Mutant: the window is given anew only when it is used up.
TopsUpEmpty(s) ==
  /\ ~Has(s, "in_closed")
  /\ num[s].recv_window + num[s].buffered = 0

\* check_recv_window tops the stream's window up when little is left of it.
TopsUp(s) ==
  /\ ~Has(s, "in_closed")
  /\ num[s].recv_window + num[s].buffered < StreamRecvWindow \div 4

\* KHttp2::read: buffered bytes, or -1 after a reset, or 0 at the end of the
\* input, or sleep.
Read(s, rl) ==
  LET window == IF TopsUp(s) THEN StreamRecvWindow ELSE num[s].recv_window
      got == Min(rl, num[s].buffered)
      sleeps == got = 0 /\ ~Has(s, "rst") /\ ~Has(s, "in_closed")
  IN /\ Running(s, "read") /\ MayRead(s)
     /\ write_wait' = [write_wait EXCEPT ![s] = IF @ = "HUP" THEN "none" ELSE @]
     /\ Push(TopsUp(s), TopsUp(s))
     /\ num' = [num EXCEPT ![s].recv_window = window, ![s].buffered = @ - got]
     /\ IF sleeps
        THEN /\ read_wait' = read_wait \cup {s} /\ rsleep' = rsleep \cup {s}
             /\ AddQueue(s)
        ELSE UNCHANGED <<readWaitVars, queueVars>>
     /\ UNCHANGED <<lifeVars, goVars, parseVars, treeVars, wsleep, pinged, phase, scan,
                    send_window, init_window, frame_size, recv_window, flag>>

\* add_status, add_header: send_header is there from the first one on.
AddHeader(s) ==
  /\ Running(s, "respond") /\ MayWrite(s)
  /\ ~Has(s, "responded") /\ ~Has(s, "send_header")
  /\ flag' = [flag EXCEPT ![s] = @ \cup {"send_header"}]
  /\ UNCHANGED <<lifeVars, goVars, outVars, queueVars, parseVars, treeVars, readWaitVars,
                 writeWaitVars, pinged, phase, scan,
                 send_window, init_window, frame_size, recv_window, num>>

\* response_100_continue: a header frame that does not end the stream.
Continue100(s) ==
  /\ Running(s, "continue") /\ MayWrite(s)
  /\ ~Has(s, "responded") /\ ~Has(s, "send_header")
  /\ Push(read_processing, read_processing)
  /\ flag' = [flag EXCEPT ![s] = IF read_processing THEN @ ELSE @ \cup {"send_header"}]
  /\ UNCHANGED <<lifeVars, goVars, queueVars, parseVars, treeVars, readWaitVars,
                 writeWaitVars, pinged, phase, scan,
                 send_window, init_window, frame_size, recv_window, num>>

\* start_response_body with send_header: nothing is sent once the read side
\* is closed.
StartResponse(s, body) ==
  /\ Running(s, "respond") /\ MayWrite(s)
  /\ Has(s, "send_header") /\ ~Has(s, "responded")
  /\ num' = [num EXCEPT ![s].content_left = body]
  /\ Push(read_processing, read_processing)
  /\ flag' = [flag EXCEPT ![s] =
       IF read_processing
       THEN (@ \ {"send_header"}) \cup {"responded"} \cup
              (IF body = 0 THEN {"out_closed"} ELSE {})
       ELSE @ \cup {"responded"}]
  /\ UNCHANGED <<lifeVars, goVars, queueVars, parseVars, treeVars, readWaitVars,
                 writeWaitVars, pinged, phase, scan,
                 send_window, init_window, frame_size, recv_window>>

\* response_trailer, the first one: from now on send_header is the trailer.
ResponseTrailer(s) ==
  /\ Running(s, "trailer") /\ MayWrite(s)
  /\ Has(s, "responded") /\ ~Has(s, "write_trailer") /\ num[s].content_left = -1
  /\ flag' = [flag EXCEPT ![s] = @ \cup {"write_trailer", "send_header"}]
  /\ Push(Has(s, "send_header") /\ read_processing, Has(s, "send_header") /\ read_processing)
  /\ UNCHANGED <<lifeVars, goVars, queueVars, parseVars, treeVars, readWaitVars,
                 writeWaitVars, pinged, phase, scan,
                 send_window, init_window, frame_size, recv_window, num>>

\* What KHttp2::write and KHttp2::sendfile of n bytes have in common: -1 on a
\* closed stream, otherwise sleep until what the windows admit is written.
Transmit(s, n, file) ==
  /\ MayWrite(s)
  /\ Has(s, "responded") /\ ~Has(s, "write_trailer")
  /\ num[s].content_left > 0 => n <= num[s].content_left
  /\ IF IsWriteClosed(s)
     THEN /\ write_wait' = [write_wait EXCEPT ![s] = "none"]
          /\ UNCHANGED <<send_window, flag, num, outVars, queueVars, wsleep>>
     ELSE /\ on_write_window_ready(s, num[s].send_window, n, file)
          /\ wsleep' = wsleep \cup {s}
  /\ UNCHANGED <<lifeVars, goVars, parseVars, treeVars, readWaitVars, pinged, phase, scan,
                 init_window, frame_size, recv_window>>

Write(s, n) == Running(s, "write") /\ Transmit(s, n, FALSE)
Sendfile(s, n) == Running(s, "sendfile") /\ Transmit(s, n, TRUE)

\* readhup and remove_readhup.
ReadHup(s) ==
  /\ Running(s, "readhup")
  /\ write_wait[s] = "none" /\ s \notin read_wait
  /\ write_wait' = [write_wait EXCEPT ![s] = "HUP"]
  /\ UNCHANGED <<lifeVars, goVars, outVars, queueVars, parseVars, treeVars, readWaitVars,
                 wsleep, pinged, phase, scan,
                 send_window, init_window, frame_size, recv_window, flag, num>>

RemoveReadHup(s) ==
  /\ Running(s, "readhup")
  /\ write_wait[s] = "HUP"
  /\ write_wait' = [write_wait EXCEPT ![s] = "none"]
  /\ UNCHANGED <<lifeVars, goVars, outVars, queueVars, parseVars, treeVars, readWaitVars,
                 wsleep, pinged, phase, scan,
                 send_window, init_window, frame_size, recv_window, flag, num>>

\* shutdown, called for the stream by whoever holds its sink.
Shutdown(s) ==
  /\ Running(s, "shutdown")
  /\ shutdown(s)
  /\ UNCHANGED <<lifeVars, goVars, parseVars, treeVars, pinged, phase, scan,
                 send_window, init_window, frame_size, recv_window, num>>

\* set_time_out.
SetTimeOut(s, n) ==
  /\ Running(s, "timeout") /\ (MayRead(s) \/ MayWrite(s))
  /\ num' = [num EXCEPT ![s].tmo = n]
  /\ tmo_left' = [tmo_left EXCEPT ![s] = n]
  /\ UNCHANGED <<lifeVars, goVars, outVars, queue, expired, parseVars, treeVars,
                 readWaitVars, writeWaitVars, pinged, phase, scan,
                 send_window, init_window, frame_size, recv_window, flag>>

\* Mutant: the frame parser is forgotten.
UsedByNobody(s) == FALSE

\* release_admin: the frame parser still holds the context.
UsedByParser(s) == stream = s

\* ~KHttp2Sink at the end of the fiber: shutdown when the body is short of
\* its content length, else write_end; then release_stream and
\* release_admin, which deletes the connection with its last user.  expect
\* when the request waited for 100-continue and its body was never read.
Finish(s, expect) ==
  LET short == num[s].content_left > 0
      cut == short /\ ~Has(s, "rst")
      ends == ~short /\ ~IsWriteClosed(s)
      in1 == Has(s, "in_closed") \/ cut \/ (~short /\ expect)
      out1 == Has(s, "out_closed") \/ cut \/ ends
      resets == ~(in1 /\ out1)
      pushed == (cut /\ SendsRst(s)) \/ ends \/ resets
      gone == can_destroy(processing - 1, read_processing,
                          write_processing \/ (pushed /\ ~closed))
      kept == UsedByParser(s) /\ ~gone
      last == (IF kept THEN {} ELSE {s}) \cup (IF gone THEN LastContexts ELSE {})
      fin1 == {"in_closed", "out_closed", "destroy_by_http2"}
                \cup (IF cut \/ resets THEN {"rst"} ELSE {})
  IN /\ ~deleted /\ phase = "wait" /\ scan = {} /\ s \in live
     /\ s \notin rsleep \cup wsleep /\ write_wait[s] = "none"
     /\ expect => "continue" \in SinkOps
     /\ live' = live \ {s}
     /\ node' = node \ ({s} \cup last)
     /\ ctx' = ctx \ last
     /\ flag' = [x \in Streams |-> IF x \in last THEN {}
                                   ELSE IF x = s THEN flag[x] \cup fin1 ELSE flag[x]]
     /\ num' = [x \in Streams |-> IF x \in last THEN NoNum ELSE num[x]]
     /\ IF cut THEN RemoveQueue({s}) ELSE UNCHANGED queueVars
     /\ IF gone
        THEN DeleteThis(processing - 1) /\ UNCHANGED write_processing
        ELSE /\ Push(pushed, pushed)
             /\ processing' = processing - 1
             /\ UNCHANGED <<deleted, parseVars>>
     /\ UNCHANGED <<closed, read_processing, down, goVars, readWaitVars, writeWaitVars,
                    pinged, phase, scan, send_window, init_window, frame_size, recv_window>>

-----------------------------------------------------------------------------
HeaderFrames ==
  \/ \E s \in Streams, f, w \in BOOLEAN : NewHeaders(s, f, w)
  \/ NewHeadersComplete
  \/ \E s \in Streams, d \in BOOLEAN : RefusedHeaders(s, d)
  \/ \E s \in Streams, f, w \in BOOLEAN : Trailers(s, f, w)
  \/ TrailersComplete

DataFrames ==
  \/ \E L \in DataLens : DataOverrun(L)
  \/ \E s \in Streams, L \in DataLens : DataUnknown(s, L)
  \/ \E s \in Streams, L \in DataLens : DataRefused(s, L)
  \/ \E s \in Streams, L \in DataLens, f, pad \in BOOLEAN, rl \in ReadLens :
       \E n \in 0..L : Data(s, L, f, pad, n, rl)
  \/ \E n \in 1..length, rl \in ReadLens : DataGoesOn(n, rl)
  \/ SkipComplete

ControlFrames ==
  \/ \E s \in Streams : RstStream(s)
  \/ \E s \in Streams, w \in Increments : WindowUpdate(s, w)
  \/ \E w \in Increments : ConnWindowUpdate(w)
  \/ \E v \in InitWindows : SettingsWindow(v)
  \/ \E v \in FrameSizes : SettingsFrameSize(v)
  \/ PingFrame
  \/ GoawayFrame
  \/ IdleFrame

ReadSide ==
  \/ HeaderFrames
  \/ DataFrames
  \/ ControlFrames
  \/ \E s \in Streams : check_stream_timeout(s)
  \/ \E s \in Streams : check_write_wait(s)
  \/ \E idle \in BOOLEAN : StartRead(idle)
  \/ ReadTimeoutPing
  \/ ReadTimeoutShutdown
  \/ ReadError

WriteSide ==
  \/ \E n \in 1..Len(write_buffer) : WriteDone(n)
  \/ WriteError

Fiber(s) ==
  \/ \E rl \in ReadLens : Read(s, rl)
  \/ AddHeader(s)
  \/ Continue100(s)
  \/ \E b \in BodySizes : StartResponse(s, b)
  \/ ResponseTrailer(s)
  \/ \E n \in WriteLens : Write(s, n)
  \/ \E n \in WriteLens : Sendfile(s, n)
  \/ ReadHup(s)
  \/ RemoveReadHup(s)
  \/ Shutdown(s)
  \/ \E n \in TimeoutCounts : SetTimeOut(s, n)
  \/ \E e \in BOOLEAN : Finish(s, e)

\* The object is gone and nothing happens any more.
Gone == deleted /\ UNCHANGED vars

Next ==
  \/ Gone
  \/ ReadSide
  \/ WriteSide
  \/ \E s \in Streams : Fiber(s)
  \/ \E S \in SUBSET Streams : Elapse(S)

Spec == Init /\ [][Next]_vars

-----------------------------------------------------------------------------
(* Properties.                                                             *)

\* Types of the variables.
ConnType ==
  /\ deleted \in BOOLEAN /\ closed \in BOOLEAN /\ down \in BOOLEAN
  /\ read_processing \in BOOLEAN /\ pinged \in BOOLEAN
  /\ self_goaway \in BOOLEAN /\ peer_goaway \in BOOLEAN
  /\ processing \in Int /\ last_peer_sid \in Streams \cup {0}
  /\ phase \in {"wait", "loop", "head", "ping"}
WindowType ==
  /\ send_window \in Int /\ init_window \in 0..MaxWindow
  /\ frame_size \in Nat \ {0} /\ recv_window \in 0..ConnRecvWindow
  /\ scan \subseteq Streams
OutType ==
  /\ write_buffer \in Seq(Streams \cup {NoCtx})
  /\ write_processing \in BOOLEAN
QueueType ==
  /\ queue \subseteq Streams /\ expired \subseteq queue
  /\ tmo_left \in [Streams -> Nat]
ParserType ==
  /\ handler \in {"head", "header_block", "read_data", "skip"}
  /\ stream \in IF handler = "head" THEN {NoStream} ELSE Streams
  /\ length \in Nat /\ fin \in BOOLEAN /\ padded \in BOOLEAN
TreeType == ctx \subseteq Streams /\ node \subseteq Streams /\ live \subseteq Streams
FlagType == flag \in [Streams -> SUBSET Flags]
StreamNum == [send_window : Int, recv_window : 0..StreamRecvWindow, buffered : Nat,
              content_left : Int, wait_len : Nat, tmo : Nat]
NumType == num \in [Streams -> StreamNum]
WaitType ==
  /\ read_wait \subseteq Streams /\ rsleep \subseteq Streams /\ wsleep \subseteq Streams
  /\ write_wait \in [Streams -> WaitKinds]

\* The type invariant: windows stay in their unsigned ranges, and the frame
\* parser holds a stream exactly while it is inside a frame.
TypeOK ==
  /\ ConnType /\ WindowType /\ OutType /\ QueueType /\ ParserType
  /\ TreeType /\ FlagType /\ NumType /\ WaitType

Waits(kind) == {s \in Streams : write_wait[s] = kind}

\* A writer waits for window only while it has none: its stream's window or
\* the connection's is used up, unless check_write_wait is on its way to it
\* (on_write_window_ready, check_write_wait, adjust_windows).
NoStalledWriter ==
  \A s \in Waits("WINDOW") :
    num[s].send_window <= 0 \/ send_window <= 0 \/ s \in scan

\* The windows the peer granted are never overdrawn: the unsigned connection
\* window does not wrap and no window passes KGL_HTTP_V2_MAX_WINDOW.
WindowsInRange ==
  /\ send_window \in 0..MaxWindow
  /\ \A s \in Streams : num[s].send_window <= MaxWindow

StreamWindows ==
  INSTANCE SendWindow WITH
    conn <- send_window, initial <- init_window, open <- node,
    win <- [s \in Streams |-> IF s \in node THEN num[s].send_window ELSE 0]

\* The connection keeps the contract of SendWindow: every byte a writer is
\* given is taken off its stream's window and the connection's at once, however
\* SETTINGS, WINDOW_UPDATE and check_write_wait are interleaved, and no window
\* grows by more than the peer granted.
KeepsContract == StreamWindows!Spec

\* What NoStalledWriter and WindowsInRange rest on: a sink's stream is
\* reachable for the frame parser with its header complete, no reachable
\* context is marked for destruction, and only the fiber of a sink waits for window.
TreeInv ==
  /\ live \subseteq node
  /\ \A s \in live : Has(s, "parsed_header")
  /\ \A s \in node : ~Has(s, "destroy_by_http2")
  /\ Incomplete => stream \in node
  /\ Waits("WINDOW") \subseteq live

\* A writer waits for window only on a stream it may still write to, which
\* on_write_window_ready asserts before it builds a frame.
WindowWaiterOpen == \A s \in Waits("WINDOW") : ~IsWriteClosed(s)

\* No wakeup of a writer is lost: a fiber sleeping in write has its event on
\* the stream, and one that waits for its bytes to be written owns exactly
\* one buffer of a write buffer that is being written.
NoLostWriter ==
  /\ wsleep = Waits("WINDOW") \cup Waits("WRITING")
  /\ Waits("WRITING") = Buffered(write_buffer)
  /\ \A i, j \in 1..Len(write_buffer) :
       write_buffer[i] = write_buffer[j] /\ write_buffer[i] # NoCtx => i = j
  /\ Waits("WRITING") # {} => write_processing

\* No wakeup of a reader is lost: a fiber sleeping in read has its event on a
\* stream the frame parser finds, whose reset has not been seen.
NoLostReader ==
  /\ rsleep = read_wait
  /\ \A s \in read_wait : s \in node /\ ~Has(s, "rst")

\* What the code may still touch is still allocated: contexts of sinks, of
\* nodes, of the parser, of buffers; and a context whose sink has gone is
\* kept only for the parser.
NoDangling ==
  /\ live \cup node \cup Buffered(write_buffer) \subseteq ctx
  /\ stream # NoStream => stream \in ctx
  /\ \A s \in ctx \ live : s = stream
  /\ live \subseteq node

\* processing counts the sinks, so the connection outlives them all; when it
\* is deleted nothing is left in it (the kasserts of ~KHttp2).
ConnectionOutlivesStreams ==
  /\ ~deleted => processing = Cardinality(live)
  /\ deleted => ctx = {} /\ node = {} /\ live = {} /\ rsleep = {} /\ wsleep = {}

\* Once the read side is closed every stream is reset, so nothing can be
\* queued for the socket (kassert(read_processing) in start_write) and nobody
\* waits for a frame that cannot come.
ReadSideClosed ==
  ~read_processing =>
    \A s \in live : /\ {"in_closed", "out_closed", "rst"} \subseteq flag[s]
                     /\ s \notin read_wait /\ write_wait[s] # "WINDOW"

\* active_queue holds exactly the streams somebody waits on: no waiter is
\* without a timeout, no context is freed while it is linked.
QueueIsWaiters == queue = read_wait \cup Waits("WINDOW")

\* Bytes of the frame being read that are still to come for s.
Coming(s) == IF stream = s /\ handler = "read_data" THEN length ELSE 0

\* A reader sleeps only while the peer may send to it: a quarter of the
\* window is open or on its way (check_recv_window before read sleeps).
NoStalledReader ==
  \A s \in read_wait :
    Has(s, "in_closed") \/ num[s].recv_window + Coming(s) >= StreamRecvWindow \div 4

\* However slowly a handler reads, a stream holds and has granted less than
\* two windows and a quarter (check_recv_window counts what is buffered).
RecvBound ==
  \A s \in ctx : num[s].recv_window + num[s].buffered + Coming(s)
                   < 2 * StreamRecvWindow + StreamRecvWindow \div 4

\* A reader can always be served and a peer never overruns it.
RecvWindow == NoStalledReader /\ RecvBound

\* Trailers are what takes a waiting stream off active_queue.
NoTrailers == PeerFrames \cap {"TRAILERS", "TRAILERS_SPLIT"} = {}

\* Whoever waits can be reached: by the frame parser, by the window it waits
\* for and, where no trailers come, by the timer.
WaitersReached ==
  /\ NoLostReader
  /\ WindowWaiterOpen
  /\ NoTrailers => QueueIsWaiters

\* In whichever order a stream, its handler and the connection end, what is
\* closed stays quiet and what is still used stays allocated.
Lifetimes == ReadSideClosed /\ ConnectionOutlivesStreams /\ NoDangling

\* A response of known length ends its stream with its last byte and never
\* goes past it (build_write_buffer, send_header with an empty body).
EndMatchesLength ==
  \A s \in live :
    /\ num[s].content_left >= -1
    /\ Has(s, "responded") /\ num[s].content_left = 0 => Has(s, "out_closed")

\* check_write_wait and state_window_update: kassert(stream->queue.next) for
\* a stream that waits for window.
WindowWaiterQueued == Waits("WINDOW") \subseteq queue

\* release_admin: assert(processing >= 0).
ProcessingNotNegative == processing >= 0

\* is_available: kassert(!destroy_by_http2) for a stream that is not reset,
\* which the handlers of a header block call on the parser's stream.
AvailableStream ==
  handler = "header_block" =>
    Has(stream, "rst") \/ ~Has(stream, "destroy_by_http2")

\* build_write_buffer: assert(total_len > 0), every frame a writer is granted
\* carries some of its bytes.
FrameNotEmpty ==
  [][\A s \in Streams :
       write_wait[s] # "WRITING" /\ write_wait'[s] = "WRITING" => send_window' < send_window]_vars

-----------------------------------------------------------------------------
(* Liveness.                                                               *)

\* The selector delivers a read event sooner or later, a timeout if nothing
\* else; on_read_result returns, because its buffer is finite; a write
\* completes or fails; time passes; a handler returns.  All but the first are
\* strong because a read callback in progress disables them, again and again
\* when the peer keeps sending.
Fairness ==
  /\ WF_vars(ReadSide)
  /\ SF_vars(\E idle \in BOOLEAN : StartRead(idle))
  /\ SF_vars(WriteSide)
  /\ SF_vars(Elapse(queue \ expired))
  /\ \A s \in Streams : SF_vars(Finish(s, FALSE))

FairSpec == Spec /\ Fairness

\* A fiber that sleeps in read or write is woken, by the peer or by its
\* timeout, even if the peer only keeps the connection busy.
SleepersWake ==
  \A s \in Streams : (s \in rsleep \cup wsleep) ~> (s \notin rsleep \cup wsleep)

\* A connection whose read side has failed is deleted.
ConnectionFreed == ~read_processing ~> deleted
=============================================================================
