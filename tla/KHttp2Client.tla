---------------------------- MODULE KHttp2Client ----------------------------
(***************************************************************************)
(* One HTTP/2 connection to an upstream (KHttp2 with client_model set) and *)
(* the KHttp2Upstream streams on it.  A user fiber owns each stream and    *)
(* calls connect, set_header_callback, send_method_path, write_all,        *)
(* send_trailer, write_end, read_header, read and Destroy; another fiber   *)
(* may shut a stream down at any time.  All calls and all frame handlers   *)
(* run on the connection's selector, so each is one step; the user may     *)
(* yield between two calls, and a header block may arrive in two reads.    *)
(*                                                                         *)
(* ctx[s] is the KHttp2Context: read_wait is "none", "cb" (a callback and  *)
(* no fiber), "hdr" (a fiber in ReadHeader) or "body" (a fiber in read);   *)
(* queue tells whether it is linked in active_queue.  w records the frames *)
(* pushed for the stream, got and trailer the fields its callback and its  *)
(* trailer list received.  Flow control and the socket's pace are those of *)
(* KHttp2 and KHttp2WriteBuffer and are left out here.                     *)
(***************************************************************************)
EXTENDS Integers, Sequences, FiniteSets

CONSTANTS Streams,    \* the streams users may open
          Admin,      \* the stream client() returns with the connection
          Kinds,      \* requests users make
          Interim,    \* informational responses the peer sends
          Split,      \* may a header block arrive in two reads?
          MaxStream,  \* max_stream
          SidMax      \* the last id after which connect refuses

\* What is assumed of the constants.
ClientAssumption ==
    /\ Admin \in Streams /\ "none" \notin Streams
    /\ Kinds \subseteq {"get", "put", "expect", "chunk", "trailer", "connect"}
    /\ Interim \subseteq {"100", "103"}
    /\ Split \in BOOLEAN
    /\ MaxStream \in Nat \ {0} /\ SidMax \in Nat

ASSUME Parameters == ClientAssumption

VARIABLES conn,   \* read_processing, closed, goaway and last_self_sid
          ctx,    \* the stream contexts with their users
          block,  \* the header block being read (state.stream and the rest of it)
          sent,   \* what the peer has sent on each stream
          split   \* history: streams a header block of which came in two reads

vars == <<conn, ctx, block, sent, split>>

NoBlock == [s |-> "none", rest |-> <<>>]

Fields(k) == CASE k = "final"   -> <<"status", "field">>
               [] k = "trailer" -> <<"t1", "t2">>
               [] OTHER         -> <<k>>

NoStream == [pc |-> "none", life |-> "none", node |-> 0, in_closed |-> FALSE,
             out_closed |-> FALSE, rst |-> FALSE, parsed_header |-> FALSE,
             is_100_continue |-> FALSE, send_header |-> FALSE,
             write_trailer |-> FALSE, has_upgrade |-> FALSE, has_expect |-> FALSE,
             content_left |-> 0, read_wait |-> "none", queue |-> FALSE,
             read_buffer |-> FALSE, kind |-> "none", w |-> <<>>,
             got |-> {}, trailer |-> {}]

\* create_stream in client mode: only the context, no sink
create_stream == [NoStream EXCEPT !.pc = "new", !.life = "live"]

\* client(): preface, SETTINGS and WINDOW_UPDATE are pushed, and the admin
\* stream is made without a node
Init ==
    /\ conn = [read_processing |-> TRUE, closed |-> FALSE, goaway |-> FALSE,
               last_self_sid |-> 1]
    /\ ctx = [s \in Streams |-> IF s = Admin THEN create_stream ELSE NoStream]
    /\ block = NoBlock
    /\ sent = [s \in Streams |-> "none"] /\ split = {}

----------------------------------------------------------------------------
(* Helpers of the handlers: each takes a context and returns the new one. *)

Waits(c) == c.read_wait \in {"hdr", "body"}

\* get_node finds a stream from send_header to release_stream
Known(c) == c.node # 0

IsAvailable(c) == ~c.rst /\ c.life # "doomed"

IsWriteClosed(c) == ~conn.read_processing \/ conn.closed \/ c.out_closed

\* send_header: the first block gives the stream its node and its id
SendHeader(c, body_end) ==
    IF ~conn.read_processing THEN c
    ELSE [c EXCEPT !.node = IF @ = 0 THEN conn.last_self_sid + 2 ELSE @,
                   !.w = Append(@, CASE c.write_trailer /\ body_end   -> "T."
                                     [] c.write_trailer /\ ~body_end  -> "T"
                                     [] ~c.write_trailer /\ body_end  -> "H."
                                     [] ~c.write_trailer /\ ~body_end -> "H"),
                   !.out_closed = @ \/ body_end,
                   !.send_header = FALSE]

PendingHeader(c, body_end) == IF c.send_header THEN SendHeader(c, body_end) ELSE c

\* what close, RST_STREAM and terminate_stream do to a context and its reader
Broken(c) ==
    [c EXCEPT !.in_closed = TRUE, !.out_closed = TRUE, !.rst = TRUE, !.queue = FALSE,
              !.read_wait = "none", !.pc = IF Waits(c) THEN "failed" ELSE @]

\* terminate_stream also tells the peer, if it knows the stream and is still there
terminate_stream(c) ==
    [Broken(c) EXCEPT !.w = IF ~(c.in_closed /\ c.out_closed) /\ c.node # 0
                               /\ conn.read_processing
                            THEN Append(@, "R") ELSE @]

\* the call of the user of s: its context becomes c
Call(s, c) ==
    /\ ctx' = [ctx EXCEPT ![s] = c]
    /\ conn' = [conn EXCEPT !.last_self_sid =
                    IF ctx[s].node = 0 /\ c.node # 0 THEN c.node ELSE @]
    /\ UNCHANGED <<block, sent, split>>

----------------------------------------------------------------------------
(* The user of a stream *)

Connect(s) ==
    /\ ctx[s].pc = "none"
    /\ ~conn.goaway /\ conn.last_self_sid <= SidMax
    /\ Cardinality({t \in Streams : ctx[t].pc \notin {"none", "gone"}}) < MaxStream
    /\ Call(s, create_stream)

set_header_callback(s) ==
    /\ ctx[s].pc = "new"
    /\ Call(s, [ctx[s] EXCEPT !.pc = "cb", !.read_wait = "cb"])

\* send_method_path, the other header fields and set_content_length: the
\* length of a CONNECT stays unknown
SendMethod(s) ==
    /\ ctx[s].pc = "cb"
    /\ \E k \in Kinds :
        Call(s, [ctx[s] EXCEPT !.pc = "head", !.kind = k, !.send_header = TRUE,
                     !.has_upgrade = (k = "connect"), !.has_expect = (k = "expect"),
                     !.content_left = CASE k = "get" -> 0
                                        [] k \in {"put", "expect"} -> 1
                                        [] OTHER -> -1])

\* the user with a body writes it; one that expects 100 waits for that first
MayWrite(c) ==
    /\ c.pc = "head" /\ c.content_left # 0
    /\ c.kind = "expect" => c.got # {}
    /\ \A i \in 1..Len(c.w) : c.w[i] # "D"

\* write_all: a closed stream fails, else the pending header goes first; the
\* last byte of a known length closes the stream
Write(s) ==
    LET c == ctx[s]
        h == PendingHeader(c, c.content_left = 0)
        d == IF c.content_left = -1
             THEN [h EXCEPT !.w = Append(@, "D")]
             ELSE [h EXCEPT !.w = Append(@, "D."), !.content_left = 0, !.out_closed = TRUE]
    IN  /\ MayWrite(c)
        /\ Call(s, IF IsWriteClosed(c) THEN [c EXCEPT !.pc = "failed"] ELSE d)

\* send_trailer: the header of the request goes out before the first trailer
SendTrailer(s) ==
    LET c == ctx[s]
    IN  /\ c.pc = "head" /\ c.kind = "trailer" /\ ~c.write_trailer
        /\ Call(s, [PendingHeader(c, FALSE) EXCEPT !.write_trailer = TRUE,
                                                   !.send_header = TRUE])

\* write_end, which only a body of unknown length needs
WriteEnd(s) ==
    LET c == ctx[s]
        e == CASE IsWriteClosed(c) -> c
               [] ~IsWriteClosed(c) /\ c.send_header /\ ~c.write_trailer ->
                    SendHeader([c EXCEPT !.content_left = 0], TRUE)
               [] ~IsWriteClosed(c) /\ c.send_header /\ c.write_trailer ->
                    SendHeader([c EXCEPT !.w = Append(@, "D")], TRUE)
               [] OTHER -> [c EXCEPT !.w = Append(@, "D."), !.out_closed = TRUE]
    IN  /\ c.pc = "head" /\ c.kind \in {"chunk", "trailer"}
        /\ Call(s, [e EXCEPT !.pc = "ended"])

\* read_header: the pending header is sent, then ReadHeader returns at once or
\* puts the fiber into the callback's event and waits
ReadHeader(c) ==
    IF c.rst THEN [c EXCEPT !.pc = "failed"]
    ELSE IF c.parsed_header THEN [c EXCEPT !.pc = "answered"]
    ELSE [c EXCEPT !.pc = "wait", !.read_wait = "hdr", !.queue = TRUE]

read_header(s) ==
    LET c == ctx[s]
    IN  /\ \/ c.pc = "ended"
           \/ /\ c.pc = "head" /\ c.kind \notin {"chunk", "trailer"}
              /\ c.kind = "put" => c.content_left = 0
        /\ Call(s, ReadHeader(PendingHeader(c, c.content_left = 0)))

\* a slip: the end is sent whatever was sent before
EndAlways(c) ==
    IF ~c.has_upgrade \/ c.has_expect
    THEN [c EXCEPT !.out_closed = TRUE, !.w = Append(@, "D.")] ELSE c

\* read closes the sending side, then returns buffered data or the end, or waits
EndOnRead(c) ==
    IF ~c.out_closed /\ (~c.has_upgrade \/ c.has_expect)
    THEN [c EXCEPT !.out_closed = TRUE, !.w = Append(@, "D.")] ELSE c

ReadBody(c) ==
    CASE c.read_buffer -> [c EXCEPT !.read_buffer = FALSE]
      [] ~c.read_buffer /\ c.rst -> [c EXCEPT !.pc = "failed"]
      [] ~c.read_buffer /\ ~c.rst /\ c.in_closed -> [c EXCEPT !.pc = "done"]
      [] OTHER -> [c EXCEPT !.pc = "rwait", !.read_wait = "body", !.queue = TRUE]

Read(s) == ctx[s].pc = "answered" /\ Call(s, ReadBody(EndOnRead(ctx[s])))

\* shutdown, from any fiber of the selector
Shutdown(s) ==
    /\ ctx[s].pc \notin {"none", "gone"} /\ ~ctx[s].rst
    /\ Call(s, terminate_stream(ctx[s]))

\* release_stream: the callback and the node go; an unfinished stream is reset
release_stream(c) ==
    LET e == [c EXCEPT !.read_wait = "none", !.node = 0]
    IN  IF c.in_closed /\ c.out_closed THEN e
        ELSE [e EXCEPT !.in_closed = TRUE, !.out_closed = TRUE, !.rst = TRUE,
                       !.w = IF c.node # 0 THEN Append(@, "R") ELSE @]

\* a slip: the context is freed although the parser holds it
LifeNow(s) == "gone"

\* release_admin: the context the parser still holds is left to the parser
Life(s) == IF block.s = s THEN "doomed" ELSE "gone"

Destroy(s) ==
    LET c == ctx[s]
    IN  /\ c.pc \notin {"none", "wait", "rwait", "gone"}
        /\ ctx' = [ctx EXCEPT ![s] =
                      [release_stream(c) EXCEPT !.pc = "gone", !.life = Life(s)]]
        /\ UNCHANGED <<conn, block, sent, split>>

----------------------------------------------------------------------------
(* The frames of the peer *)

\* KHttp2Upstream::parse_header for one field of the block
parse_header(c, f) ==
    CASE ~IsAvailable(c) -> c
      [] IsAvailable(c) /\ f = "100" ->
           [c EXCEPT !.is_100_continue = TRUE,
                     !.got = IF c.read_wait = "none" THEN @ ELSE @ \cup {f}]
      [] IsAvailable(c) /\ f # "100" /\ c.parsed_header ->
           [c EXCEPT !.trailer = @ \cup {f}]
      [] OTHER -> [c EXCEPT !.got = IF c.read_wait = "none" THEN @ ELSE @ \cup {f}]

\* a slip: the event is deleted after a 100 as well
on_header_successOnce(c) ==
    [c EXCEPT !.parsed_header = @ \/ ~c.is_100_continue, !.is_100_continue = FALSE,
              !.read_wait = "none",
              !.pc = CASE c.read_wait = "hdr" -> IF c.is_100_continue THEN "head" ELSE "answered"
                       [] c.read_wait = "body" -> "done"
                       [] OTHER                -> @]

\* on_header_success: after a 100 the callback stays for the next block
on_header_success(c) ==
    IF c.is_100_continue
    THEN [c EXCEPT !.is_100_continue = FALSE,
                   !.read_wait = IF @ = "hdr" THEN "cb" ELSE @,
                   !.pc = IF c.read_wait = "hdr" THEN "head" ELSE @]
    ELSE LET p == [c EXCEPT !.parsed_header = TRUE]
         IN  IF ~IsAvailable(p) THEN p
             ELSE [p EXCEPT !.read_wait = "none",
                            !.pc = CASE c.read_wait = "hdr"  -> "answered"
                                     [] c.read_wait = "body" -> "done"
                                     [] OTHER                -> @]

\* the rest of a block, ReleaseStateStream included
Finish(c, rest) ==
    LET d == on_header_success(IF rest = <<>> THEN c ELSE parse_header(c, Head(rest)))
    IN  [d EXCEPT !.life = IF @ = "doomed" THEN "gone" ELSE @]

\* the peer answers a request it has seen, in the order of the protocol
MaySend(s, k, e) ==
    /\ ctx[s].w # <<>>
    /\ \/ k \in Interim /\ sent[s] \in {"none", "interim"} /\ ~e
          /\ (k = "100" => ctx[s].kind = "expect")
       \/ k = "final" /\ sent[s] \in {"none", "interim"}
       \/ k = "trailer" /\ sent[s] \in {"final", "data"} /\ e

SentAfter(k, e) == CASE e -> "end" [] k \in Interim -> "interim" [] OTHER -> k

\* state_headers: the stream leaves the queue; an unknown or closed one is skipped
Headers(s, k, e) ==
    LET c == [ctx[s] EXCEPT !.queue = FALSE]
        open == [c EXCEPT !.in_closed = e]
        first == parse_header(open, Head(Fields(k)))
    IN  /\ conn.read_processing /\ block = NoBlock
        /\ MaySend(s, k, e)
        /\ sent' = [sent EXCEPT ![s] = SentAfter(k, e)]
        /\ UNCHANGED conn
        /\ IF ~Known(ctx[s]) \/ c.rst \/ c.in_closed
           THEN ctx' = [ctx EXCEPT ![s] = IF Known(ctx[s]) THEN c ELSE @]
                /\ UNCHANGED <<block, split>>
           ELSE \/ /\ ctx' = [ctx EXCEPT ![s] = Finish(first, Tail(Fields(k)))]
                   /\ UNCHANGED <<block, split>>
                \/ /\ Split
                   /\ ctx' = [ctx EXCEPT ![s] = first]
                   /\ block' = [s |-> s, rest |-> Tail(Fields(k))]
                   /\ split' = split \cup {s}

\* the second read of the block
HeadersEnd ==
    /\ conn.read_processing /\ block # NoBlock
    /\ ctx' = [ctx EXCEPT ![block.s] = Finish(@, block.rest)]
    /\ block' = NoBlock
    /\ UNCHANGED <<conn, sent, split>>

\* state_data and state_read_data, with (n) or without bytes
Data(s, n, e) ==
    LET c == ctx[s]
        took == IF n THEN [c EXCEPT !.read_buffer = (c.read_wait # "body"),
                                    !.in_closed = e]
                ELSE [c EXCEPT !.in_closed = e]
        wakes == c.read_wait = "body" /\ (n \/ e)
        woken == [took EXCEPT !.read_wait = "none", !.queue = FALSE,
                              !.pc = IF n THEN "answered" ELSE "done"]
    IN  /\ conn.read_processing /\ block = NoBlock
        /\ n \/ e
        /\ sent[s] = "final"
        /\ sent' = [sent EXCEPT ![s] = IF e THEN "end" ELSE "data"]
        /\ UNCHANGED <<conn, block, split>>
        /\ ctx' = [ctx EXCEPT ![s] =
                      IF ~Known(c) THEN c
                      ELSE IF ~c.parsed_header \/ c.in_closed THEN terminate_stream(c)
                      ELSE IF wakes THEN woken ELSE took]

RstStream(s) ==
    /\ conn.read_processing /\ block = NoBlock
    /\ ctx[s].w # <<>> /\ sent[s] # "end"
    /\ sent' = [sent EXCEPT ![s] = "end"]
    /\ ctx' = [ctx EXCEPT ![s] = IF Known(@) THEN [Broken(@) EXCEPT !.read_buffer = FALSE]
                                 ELSE @]
    /\ UNCHANGED <<conn, block, split>>

Goaway ==
    /\ conn.read_processing /\ block = NoBlock /\ ~conn.goaway
    /\ conn' = [conn EXCEPT !.goaway = TRUE]
    /\ UNCHANGED <<ctx, block, sent, split>>

\* close(read): every stream that has a node is broken and its reader woken
close(read) ==
    /\ conn.read_processing /\ (read \/ ~conn.closed)
    /\ conn' = [conn EXCEPT !.closed = TRUE, !.read_processing = @ /\ ~read,
                            !.goaway = @ \/ read]
    /\ ctx' = [s \in Streams |-> IF Known(ctx[s]) THEN Broken(ctx[s]) ELSE ctx[s]]
    /\ UNCHANGED <<block, sent, split>>

\* check_stream_timeout, called from the read timeout of the connection
StreamTimeout(s) ==
    /\ conn.read_processing /\ ctx[s].queue
    /\ Call(s, IF ctx[s].rst THEN [ctx[s] EXCEPT !.queue = FALSE]
               ELSE terminate_stream(ctx[s]))

\* every stream was given back; KHttp2 deletes itself (KSockPool has the rest)
Terminated ==
    /\ \A s \in Streams : ctx[s].pc \in {"none", "gone"}
    /\ UNCHANGED vars

Next ==
    \/ \E s \in Streams :
        \/ Connect(s) \/ set_header_callback(s) \/ SendMethod(s) \/ Write(s)
        \/ SendTrailer(s) \/ WriteEnd(s) \/ read_header(s) \/ Read(s)
        \/ Shutdown(s) \/ Destroy(s) \/ RstStream(s) \/ StreamTimeout(s)
        \/ \E k \in {"final", "trailer"} \cup Interim, e \in BOOLEAN : Headers(s, k, e)
        \/ \E n, e \in BOOLEAN : Data(s, n, e)
    \/ HeadersEnd \/ Goaway \/ Terminated
    \/ \E read \in BOOLEAN : close(read)

Spec == Init /\ [][Next]_vars

(***************************************************************************)
(* Fairness.  The connection's read timeout keeps running                  *)
(* check_stream_timeout while the connection is read; a peer that leaves a *)
(* header block unfinished cannot answer the ping either, so the           *)
(* connection is closed in the end.                                        *)
(***************************************************************************)
Fairness ==
    /\ \A s \in Streams : WF_vars(StreamTimeout(s))
    /\ WF_vars(HeadersEnd \/ (block # NoBlock /\ close(TRUE)))

FairSpec == Spec /\ Fairness

----------------------------------------------------------------------------
(* Properties *)

(* A stream's frames begin with its HEADERS, of which there is one, and    *)
(* none but RST_STREAM follows the frame that ends them or, unless the     *)
(* request has trailers, an RST_STREAM, whatever fiber and handler pushed. *)
FrameOrder(s) ==
    LET w == ctx[s].w
    IN  /\ w # <<>> => w[1] \in {"H", "H."}
        /\ \A i \in 1..Len(w) : w[i] \in {"H", "H."} => i = 1
        /\ \A i \in 1..Len(w) - 1 : w[i] \in {"H.", "D.", "T."} => w[i + 1] = "R"
        /\ ctx[s].kind # "trailer" => \A i \in 1..Len(w) - 1 : w[i] # "R"

(* send_header gives a stream the next odd id when its header is pushed:   *)
(* it is above those of all streams whose header went out before.          *)
NewIdIncreases ==
    \A s \in Streams : (ctx[s].node = 0 /\ ctx'[s].node # 0) =>
        /\ ctx'[s].node % 2 = 1
        /\ \A t \in Streams \ {s} : ctx[t].node < ctx'[s].node

(* kassert(read_processing) in start_write: no call and no handler pushes  *)
(* a frame once close(true) has run, whatever the user still does with     *)
(* streams it holds.                                                       *)
PushesWhileReading ==
    \A s \in Streams : ctx'[s].w # ctx[s].w => conn.read_processing

(* What the peer receives is in the order of the protocol: the frames of   *)
(* each stream, the ids of new streams, and nothing after the last read.   *)
FramesInOrder ==
    /\ [](\A s \in Streams : FrameOrder(s))
    /\ [][NewIdIncreases /\ PushesWhileReading]_vars

(* A user whose read_header returned with the final header has all of it,  *)
(* also when a 100 was read first and the rest arrived while the user was  *)
(* writing, no field of a trailer block went to the header callback, and a *)
(* stream has all of a trailer block or none of it once that is read.      *)
HeaderComplete ==
    \A s \in Streams :
        /\ ctx[s].pc \in {"answered", "rwait", "done"} => {"status", "field"} \subseteq ctx[s].got
        /\ ctx[s].got \cap {"t1", "t2"} = {}
        /\ (s \notin split /\ ctx[s].trailer # {}) => {"t1", "t2"} \subseteq ctx[s].trailer

(* release_admin and ReleaseStateStream: the context the parser holds in   *)
(* state.stream is never freed under it, and is freed once the block ends. *)
ParserHoldsLive ==
    \A s \in Streams : (ctx[s].life = "doomed") <=> (block.s = s /\ ctx[s].pc = "gone")

(* active_queue is for streams whose fiber waits: check_stream_timeout     *)
(* finds no stream there that nobody waits for, nor one already released,  *)
(* unless a header block of the stream came in two reads.                  *)
QueueHasWaiter ==
    \A s \in Streams \ split : ctx[s].queue => Waits(ctx[s]) /\ ctx[s].life = "live"

(* The contexts the parser and the timeout reach are alive.                *)
StreamsLive == ParserHoldsLive /\ QueueHasWaiter

(* A fiber waiting for the header of a request that was sent is woken: by  *)
(* the header, a reset, a shutdown, a closed connection or its timeout.    *)
HeaderReaderWoken ==
    \A s \in Streams :
        (ctx[s].pc = "wait" /\ ctx[s].node # 0) ~> (ctx[s].pc # "wait")

(* terminate_stream says the node is made by the actual write or read: a   *)
(* fiber that reads a header has a node, through which close can find it.  *)
NodeWhenReading == \A s \in Streams : Waits(ctx[s]) => ctx[s].node # 0

(* kassert(stream->queue.next == NULL) in on_header_success.               *)
HeaderQueueClear ==
    [][\A s \in Streams : (~ctx[s].parsed_header /\ ctx'[s].parsed_header
                             /\ ctx[s].read_wait # "none") => ~ctx'[s].queue]_vars

(* Nothing is sent on a stream after its RST_STREAM.                       *)
NothingAfterReset ==
    \A s \in Streams : \A i \in 1..Len(ctx[s].w) - 1 : ctx[s].w[i] # "R"

(* The block after an informational one is not taken for a trailer.        *)
NextIsNotTrailer == \A s \in Streams : "status" \notin ctx[s].trailer

=============================================================================
