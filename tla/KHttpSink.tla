------------------------------ MODULE KHttpSink ------------------------------
(***************************************************************************)
(* One HTTP/1 connection: the loop that reads, parses and answers requests *)
(* (KHttpSink::start), with the request handler, which may use the sink in *)
(* any order its contract allows, and a client that pipelines requests cut *)
(* anywhere by the network, waits for 100 (Continue) where it asked for it *)
(* and may hang up.  A request is its line, the end of its header and the  *)
(* bytes of its body; a chunked body ends with a mark of its own, and its  *)
(* decoding is KDechunkEngine's.                                           *)
(***************************************************************************)
EXTENDS Integers, Sequences, SequencesExt, FiniteSets

CONSTANTS
  Kinds,        \* the requests clients send
  MaxRequests, MaxRead,
  Lengths,      \* the lengths handlers promise; -1 is unknown
  MaxWrites,    \* the writes of one handler
  Uses,         \* what handlers do besides: see May
  NotHandshake  \* plain HTTP on a port for SSL

VARIABLES
  script, todo, wire,                \* the client: requests, not sent, not received
  hung, broken,                      \* it hung up; writes fail
  pc, cur, cn,                       \* the fiber, the request it is at, its connection
  buffer, hot, dechunk, dbuf,        \* received; parsed of it; the chunk decoder and its buffer
  data, rc, response_left, out,      \* KRequestData, the pending header, what was written
  promised, writes, failed           \* the handler: what it announced; its writes; a read failed

client == <<script, todo, hung, broken>>
input == <<buffer, hot, dechunk, dbuf, wire>>
answer == <<rc, response_left, out, promised, writes, failed>>
vars == <<script, todo, wire, hung, broken, pc, cur, cn, buffer, hot, dechunk, dbuf,
          data, rc, response_left, out, promised, writes, failed>>

May(use) == use \in Uses
Least(a, b) == IF a < b THEN a ELSE b
Drop(s, n) == SubSeq(s, n + 1, Len(s))
Part(i, p) == [req |-> i, part |-> p]
Body(i, r) == [k \in 1..r.bytes |-> Part(i, "byte")] \o IF r.chunked THEN <<Part(i, "last")>> ELSE <<>>
Message(i, r) == <<Part(i, "line"), Part(i, "end")>> \o Body(i, r)
InBody(s) == s.part \in {"byte", "last"}
Mark(t, n) == [t |-> t, n |-> n]
Marks(t) == <<Mark(t, 0)>>

\* KRequestData::init, and what the next request line sets.
NoData == [meth |-> "UNSET", ver |-> 11, keep |-> FALSE, close |-> FALSE, upgrade |-> FALSE,
           expect |-> FALSE, te |-> FALSE, chunk0 |-> FALSE, sent |-> FALSE, chunked |-> FALSE,
           left_read |-> 0, status |-> 0]

Init ==
  /\ \E n \in 1..MaxRequests : script \in [1..n -> Kinds]
  /\ todo = FlattenSeq([i \in DOMAIN script |-> Message(i, script[i])])
  /\ wire = <<>> /\ hung = FALSE /\ broken = FALSE
  /\ pc = "read" /\ cur = 0 /\ cn = "open"
  /\ buffer = <<>> /\ hot = 0 /\ dechunk = FALSE /\ dbuf = <<>>
  /\ data = NoData /\ rc = <<>> /\ response_left = -1 /\ out = <<>>
  /\ promised = -1 /\ writes = 0 /\ failed = FALSE

-----------------------------------------------------------------------------
(***************************************************************************)
(* The client, and what it makes of what the sink writes.                  *)
(***************************************************************************)
NoBody(code) == code = 204
ReadHead(c, s) ==
  LET last == Drop(script, c.n)[1].meth = "HEAD" \/ NoBody(c.code) \/ c.len = 0
  IN  CASE s.t = "length" -> [c EXCEPT !.len = s.n]
        [] s.t = "chunked" -> [c EXCEPT !.te = TRUE]
        [] s.t \in {"close", "keep", "upgrade"} -> [c EXCEPT !.told = s.t]
        [] s.t = "end" -> IF c.told = "upgrade" THEN [c EXCEPT !.mode = "raw"]
                          ELSE IF last THEN [c EXCEPT !.mode = "idle", !.n = @ + 1]
                          ELSE [c EXCEPT !.mode = IF c.te THEN "chunks" ELSE IF c.len > 0 THEN "body" ELSE "raw"]
        [] OTHER -> [c EXCEPT !.mode = "bad"]
Receive(c, s) ==
  CASE c.mode = "idle" /\ s.t = "100" -> [c EXCEPT !.mode = "interim"]
    [] c.mode = "idle" /\ s.t = "status" /\ c.n < Len(script) /\ c.told # "close" ->
         [c EXCEPT !.mode = "head", !.code = s.n, !.len = -1, !.te = FALSE, !.told = "keep"]
    [] c.mode = "interim" /\ s.t = "end" -> [c EXCEPT !.mode = "idle"]
    [] c.mode = "head" -> ReadHead(c, s)
    [] c.mode = "body" /\ s.t = "data" /\ s.n <= c.len ->
         IF s.n = c.len THEN [c EXCEPT !.mode = "idle", !.n = @ + 1] ELSE [c EXCEPT !.len = @ - s.n]
    [] c.mode = "raw" /\ s.t = "data" -> c
    [] c.mode = "chunks" /\ s.t = "chunk" -> c
    [] c.mode = "chunks" /\ s.t = "zero" -> [c EXCEPT !.mode = "tail"]
    [] c.mode = "tail" /\ s.t = "trailer" -> c
    [] c.mode = "tail" /\ s.t = "fin" -> [c EXCEPT !.mode = "idle", !.n = @ + 1]
    [] OTHER -> [c EXCEPT !.mode = "bad"]
Fresh == [mode |-> "idle", n |-> 0, code |-> 0, len |-> -1, te |-> FALSE, told |-> "keep"]
Client == FoldLeft(Receive, Fresh, out)

Answers(s) == Cardinality({k \in 1..Len(s) : s[k].t = "status"})
Told100(i) == \E k \in 1..Len(out) : out[k].t = "100" /\ Answers(SubSeq(out, 1, k)) = i - 1
Waits == InBody(Head(todo)) /\ script[Head(todo).req].expect /\ ~Told100(Head(todo).req)

\* The client sends on, except a body it awaits 100 for.
Send == /\ todo # <<>> /\ ~Waits
        /\ wire' = Append(wire, Head(todo)) /\ todo' = Tail(todo)
        /\ UNCHANGED <<script, hung, broken, pc, cur, cn, buffer, hot, dechunk, dbuf, data, answer>>

\* A final answer instead of 100: the client leaves the body out.
Omit == /\ todo # <<>> /\ Waits /\ Answers(out) >= Head(todo).req
        /\ todo' = SelectSeq(todo, LAMBDA s : s.req # Head(todo).req)
        /\ UNCHANGED <<script, wire, hung, broken, pc, cur, cn, buffer, hot, dechunk, dbuf, data, answer>>

Hangup == /\ ~hung /\ hung' = TRUE /\ todo' = <<>>
          /\ UNCHANGED <<script, wire, broken, pc, cur, cn, buffer, hot, dechunk, dbuf, data, answer>>
Break == /\ hung /\ ~broken /\ broken' = TRUE
         /\ UNCHANGED <<script, todo, hung, wire, pc, cur, cn, buffer, hot, dechunk, dbuf, data, answer>>

-----------------------------------------------------------------------------
\* kfiber_net_read of at most n: what it may return.
Incoming(n) == {SubSeq(wire, 1, k) : k \in 1..Least(Least(n, MaxRead), Len(wire))}
Taken(s) == wire' = Drop(wire, Len(s))
Eof == wire = <<>> /\ (hung \/ todo = <<>>)
Gone == pc' = "gone" /\ cn' = IF cn = "open" THEN "closed" ELSE cn

\* start: more of the header.
ReadHeader ==
  /\ pc = "read" /\ (\E s \in Incoming(MaxRead) : buffer' = buffer \o s /\ Taken(s))
  /\ pc' = "parse" /\ UNCHANGED <<client, cur, cn, hot, dechunk, dbuf, data, answer>>
ReadEnds ==
  /\ pc \in {"read", "again"} /\ Eof /\ Gone
  /\ UNCHANGED <<client, input, cur, data, answer>>

\* parse: the buffer is used up; a header that took too long ends the connection.
Continue ==
  /\ pc = "parse" /\ hot = Len(buffer)
  /\ \/ pc' = "read" /\ UNCHANGED cn
     \/ Gone
  /\ UNCHANGED <<client, input, cur, data, answer>>

\* parse_header of the first line and the fields: what the request asks.
Asks(r) == [data EXCEPT !.meth = r.meth, !.ver = r.ver, !.keep = r.keep, !.expect = r.expect,
                        !.chunked = r.chunked, !.left_read = IF r.chunked THEN -1 ELSE r.bytes]
At == buffer[hot + 1]

ParseLine ==
  /\ pc = "parse" /\ hot < Len(buffer) /\ At.part = "line" /\ ~script[At.req].bad
  /\ hot' = hot + 1 /\ cur' = At.req
  /\ data' = Asks(script[At.req])
  /\ IF script[At.req].meth = "PRI" THEN pc' = "gone" /\ cn' = "http2" ELSE UNCHANGED <<pc, cn>>
  /\ UNCHANGED <<client, buffer, dechunk, dbuf, wire, answer>>

\* A line that is no request line.
ParseError ==
  /\ pc = "parse" /\ hot < Len(buffer)
  /\ InBody(At) \/ (At.part = "line" /\ script[At.req].bad)
  /\ Gone /\ UNCHANGED <<client, input, cur, data, answer>>

\* The header is complete: to the handler, or to the end without a host.
Finished ==
  /\ pc = "parse" /\ hot < Len(buffer) /\ At.part = "end"
  /\ hot' = hot + 1
  /\ dechunk' = data.chunked /\ dbuf' = IF data.chunked THEN Drop(buffer, hot + 1) ELSE dbuf
  /\ promised' = -1 /\ writes' = 0 /\ failed' = FALSE
  /\ IF NotHandshake THEN pc' = "plain" /\ data' = [data EXCEPT !.close = TRUE]
     ELSE IF script[cur].host THEN pc' = "handle" /\ UNCHANGED data
     ELSE pc' = "pipe" /\ data' = [data EXCEPT !.close = TRUE]
  /\ UNCHANGED <<client, cur, cn, buffer, wire, rc, response_left, out>>

-----------------------------------------------------------------------------
(***************************************************************************)
(* The handler.                                                            *)
(***************************************************************************)
Handling == pc = "handle"
Sent(s) == out' = out \o s /\ rc' = <<>>

\* internal_response_status: in front of the header.
StatusLine(code) == <<Mark("status", code)>>
ResponseStatus(code) ==
  /\ Handling /\ data.status = 0
  /\ data' = [data EXCEPT !.status = code]
  /\ rc' = StatusLine(code) \o rc
  /\ UNCHANGED <<client, input, pc, cur, cn, response_left, out, promised, writes, failed>>

Upgrade ==
  /\ Handling /\ May("upgrade") /\ ~data.sent /\ ~data.upgrade /\ data.left_read = 0
  /\ data' = [data EXCEPT !.upgrade = TRUE]
  /\ UNCHANGED <<client, input, pc, cur, cn, answer>>

Connection(d) == IF d.upgrade THEN Marks("upgrade") ELSE IF d.close \/ ~d.keep THEN Marks("close")
                 ELSE IF d.ver > 10 THEN <<>> ELSE Marks("keep")
Framing(d, n) == IF NoBody(d.status) THEN <<>> ELSE IF n >= 0 THEN <<Mark("length", n)>>
                 ELSE IF d.te THEN Marks("chunked") ELSE <<>>

\* start_response_body and internal_start_response_body.
StartResponseBody(n) ==
  /\ Handling /\ ~data.sent /\ data.status > 0 /\ (data.upgrade => n = -1)
  /\ LET unknown == n < 0 /\ ~NoBody(data.status)
         d == [data EXCEPT !.sent = TRUE, !.close = @ \/ (unknown /\ data.ver = 10),
                           !.te = unknown /\ data.ver # 10 /\ ~data.upgrade]
         head == rc \o Framing(d, n) \o Connection(d) \o Marks("end")
     IN  /\ data' = d
         /\ response_left' = IF NoBody(d.status) \/ d.meth = "HEAD" THEN 0 ELSE n
         /\ IF data.upgrade /\ ~broken THEN Sent(head) ELSE rc' = head /\ UNCHANGED out
         /\ promised' = IF NoBody(d.status) \/ d.meth = "HEAD" THEN 0 ELSE n
  /\ UNCHANGED <<client, input, pc, cur, cn, writes, failed>>

\* on_success_response.
Left(n) == IF response_left >= 0 THEN response_left - n ELSE response_left

\* A handler writes no more than it promised.
MayWrite(n) == /\ Handling /\ data.sent /\ writes < MaxWrites /\ ~data.chunk0
               /\ promised >= 0 => n <= promised

\* write_all: the pending header, the chunk's size, the data.
WriteAll(n) ==
  /\ MayWrite(n)
  /\ IF broken THEN rc' = <<>> /\ UNCHANGED <<out, response_left, promised>>
     ELSE /\ Sent(rc \o <<Mark(IF data.te THEN "chunk" ELSE "data", n)>>)
          /\ response_left' = Left(n)
          /\ promised' = IF promised >= 0 THEN promised - n ELSE promised
  /\ writes' = writes + 1
  /\ UNCHANGED <<client, input, pc, cur, cn, data, failed>>

\* sendfile: a chunk of the file is closed with the three bytes of "\r\n".
SendFile(n) ==
  /\ MayWrite(n) /\ ~broken /\ (data.te => May("file"))
  /\ Sent(rc \o IF data.te THEN <<Mark("chunk", n), Mark("nul", 0)>> ELSE <<Mark("data", n)>>)
  /\ response_left' = Left(n) /\ promised' = IF promised >= 0 THEN promised - n ELSE promised
  /\ writes' = writes + 1
  /\ UNCHANGED <<client, input, pc, cur, cn, data, failed>>

\* response_trailer: straight to the connection.
ResponseTrailer ==
  /\ Handling /\ data.sent /\ writes < MaxWrites
  /\ (rc = <<>> \/ May("early_trailer")) /\ (data.meth # "HEAD" \/ May("head_trailer"))
  /\ IF ~data.te \/ broken THEN UNCHANGED <<out, data>>
     ELSE /\ out' = out \o (IF data.chunk0 THEN <<>> ELSE Marks("zero")) \o Marks("trailer")
          /\ data' = [data EXCEPT !.chunk0 = TRUE]
  /\ writes' = writes + 1
  /\ UNCHANGED <<client, input, pc, cur, cn, rc, response_left, promised, failed>>

Sends100 == data.expect

\* KSink::read: 100 (Continue) first, if the client waits for it.
ReadBody ==
  /\ Handling /\ ~failed /\ (data.left_read # 0 \/ data.upgrade)
  /\ data.status = 0 \/ data.upgrade \/ May("late_read")
  /\ pc' = "body"
  /\ IF Sends100
     THEN /\ response_left' = 0
          /\ IF broken THEN rc' = Marks("100") \o rc \o Marks("end") /\ UNCHANGED out
             ELSE Sent(Marks("100") \o rc \o Marks("end"))
     ELSE UNCHANGED <<rc, out, response_left>>
  /\ data' = [data EXCEPT !.expect = FALSE]
  /\ UNCHANGED <<client, input, cur, cn, promised, writes, failed>>

LeftRead(n) == [data EXCEPT !.left_read = IF @ > 0 THEN @ - n ELSE @]
Want == IF data.upgrade THEN MaxRead ELSE data.left_read
Resume == IF pc = "body" THEN pc' = "handle" ELSE UNCHANGED pc

\* internal_read: from the buffer, or from the connection no more than is wanted.
ReadBuffered ==
  /\ pc \in {"body", "skip"} /\ ~dechunk /\ hot < Len(buffer) /\ Want > 0
  /\ \E n \in 1..Least(Want, Len(buffer) - hot) : hot' = hot + n /\ data' = LeftRead(n)
  /\ Resume
  /\ UNCHANGED <<client, cur, cn, buffer, dechunk, dbuf, wire, answer>>
ReadNet ==
  /\ pc \in {"body", "skip"} /\ ~dechunk /\ hot = Len(buffer)
  /\ \E s \in Incoming(Want) : data' = LeftRead(Len(s)) /\ Taken(s)
  /\ Resume
  /\ UNCHANGED <<client, cur, cn, buffer, hot, dechunk, dbuf, answer>>

\* KDechunkContext::read: as much as there is; the end of the body leaves the rest.
ReadFromNet ==
  /\ pc \in {"body", "skip"} /\ dechunk /\ dbuf = <<>>
  /\ \E s \in Incoming(MaxRead) : dbuf' = s /\ Taken(s)
  /\ UNCHANGED <<client, pc, cur, cn, buffer, hot, dechunk, data, answer>>
Dechunk ==
  /\ pc \in {"body", "skip"} /\ dechunk /\ dbuf # <<>>
  /\ dbuf' = Tail(dbuf)
  /\ IF dbuf[1].part = "last" THEN data' = [data EXCEPT !.left_read = 0] ELSE UNCHANGED data
  /\ IF pc = "skip" /\ dbuf[1].part = "last" THEN pc' = "next" ELSE Resume
  /\ UNCHANGED <<client, cur, cn, buffer, hot, dechunk, wire, answer>>

\* The connection ended: the handler gives up, or skip_post.
BodyEnds ==
  /\ pc \in {"body", "skip"} /\ Eof /\ IF dechunk THEN dbuf = <<>> ELSE hot = Len(buffer)
  /\ IF pc = "body" THEN pc' = "handle" /\ failed' = TRUE /\ UNCHANGED cn ELSE Gone /\ UNCHANGED failed
  /\ UNCHANGED <<client, input, cur, data, rc, response_left, out, promised, writes>>

-----------------------------------------------------------------------------
Short == response_left > 0

\* The mark that ends a chunked body, unless trailers started it.
Zero == IF data.te /\ response_left = -1
        THEN (IF data.chunk0 THEN <<>> ELSE Marks("zero")) \o Marks("fin") ELSE <<>>

RcKept == rc
RcClean == <<>>

\* A header that is still pending goes out; the connection closes behind a write
\* that failed and a body that is short.
EndRequest ==
  /\ Handling /\ data.sent /\ pc' = "pipe"
  /\ IF broken /\ rc # <<>> THEN data' = [data EXCEPT !.close = TRUE] /\ UNCHANGED <<rc, out>>
     ELSE IF Short THEN data' = [data EXCEPT !.close = TRUE] /\ out' = out \o rc /\ UNCHANGED rc
     ELSE /\ rc' = RcClean
          /\ data' = [data EXCEPT !.chunk0 = @ \/ Zero # <<>>, !.close = @ \/ (broken /\ Zero # <<>>)]
          /\ out' = out \o rc \o IF broken THEN <<>> ELSE Zero
  /\ UNCHANGED <<client, input, cur, cn, response_left, promised, writes, failed>>

\* handle_http2https_error: the body is written unless the request is HEAD.
PlainError ==
  /\ pc = "plain" /\ Gone
  /\ LET head == <<Mark("status", 497), Mark("length", 1)>> \o Connection(data) \o Marks("end")
     IN  IF data.meth = "HEAD" \/ broken THEN rc' = head /\ UNCHANGED out
         ELSE Sent(head \o <<Mark("data", 1)>>)
  /\ UNCHANGED <<client, input, cur, data, response_left, promised, writes, failed>>

\* start_pipe_line.
Closes == data.close \/ data.upgrade \/ ~data.keep
SkipNever == FALSE
SkipPost == data.left_read # 0 /\ ~data.expect
StartPipeLine ==
  /\ pc = "pipe"
  /\ IF Closes THEN Gone
     ELSE pc' = (IF SkipPost THEN "skip" ELSE "next") /\ UNCHANGED cn
  /\ UNCHANGED <<client, input, cur, data, answer>>
Skipped ==
  /\ pc = "skip" /\ ~dechunk /\ data.left_read = 0 /\ pc' = "next"
  /\ UNCHANGED <<client, input, cur, cn, data, answer>>

\* reset_pipeline, then what is left in the decoder or behind the parsed header.
Rest == IF dechunk THEN dbuf ELSE Drop(buffer, hot)
NextRequest ==
  /\ pc = "next" /\ pc' = IF Rest = <<>> THEN "again" ELSE "parse"
  /\ IF Rest = <<>> THEN UNCHANGED <<buffer, hot>> ELSE buffer' = Rest /\ hot' = 0
  /\ data' = NoData /\ dechunk' = FALSE /\ dbuf' = <<>>
  /\ UNCHANGED <<client, wire, cur, cn, answer>>

\* Nothing is left: the next request comes in a new buffer.
ReadAgain ==
  /\ pc = "again" /\ (\E s \in Incoming(MaxRead) : buffer' = s /\ Taken(s)) /\ hot' = 0
  /\ pc' = "parse" /\ UNCHANGED <<client, cur, cn, dechunk, dbuf, data, answer>>

Done == pc = "gone" /\ UNCHANGED vars

WriteSizes == 1..2
Handler == (\E code \in {200, 204} : ResponseStatus(code)) \/ Upgrade \/ (\E n \in Lengths : StartResponseBody(n))
           \/ (\E n \in WriteSizes : WriteAll(n)) \/ (\E n \in WriteSizes : SendFile(n))
           \/ ResponseTrailer \/ ReadBody \/ EndRequest
Server == ReadHeader \/ ReadEnds \/ Continue \/ ParseLine \/ ParseError \/ Finished
          \/ ReadBuffered \/ ReadNet \/ ReadFromNet \/ Dechunk \/ BodyEnds \/ PlainError
          \/ StartPipeLine \/ Skipped \/ NextRequest \/ ReadAgain
Next == Send \/ Omit \/ Hangup \/ Break \/ Handler \/ Server \/ Done

Spec == Init /\ [][Next]_vars

-----------------------------------------------------------------------------
Arrived == (IF dechunk THEN dbuf ELSE IF pc = "again" THEN <<>> ELSE Drop(buffer, hot)) \o wire
BodyComing == Cardinality({k \in 1..Len(Arrived \o todo) :
                             InBody((Arrived \o todo)[k]) /\ (Arrived \o todo)[k].req = cur})

(***************************************************************************)
(* What the sink takes for the body of a request is that body, however the *)
(* requests are cut and whoever reads it: while a request is handled       *)
(* left_read says how much of it is still to come, and a new header starts *)
(* where the last body ended (internal_read, skip_post, save_point and the *)
(* swap of the decoder's buffer).                                          *)
(***************************************************************************)
InStep ==
  hung \/ data.upgrade \/ pc = "gone" \/
  /\ pc \in {"handle", "body", "skip", "pipe", "next"} /\ ~data.expect =>
       IF dechunk THEN (data.left_read = -1) <=> (BodyComing > 0) ELSE data.left_read = BodyComing
  /\ pc \in {"read", "parse", "again"} /\ data.meth = "UNSET" /\ Arrived # <<>> => Arrived[1].part = "line"

(***************************************************************************)
(* The client can follow every byte the sink writes: one answer to each    *)
(* request, its header before its body, as long a body as was announced    *)
(* (none for HEAD), chunks that end once, and nothing after "close".       *)
(***************************************************************************)
ClientFollows == Client.mode # "bad"

(***************************************************************************)
(* The sink goes on to another request only when the client has had the    *)
(* whole answer to the one before (end_request, start_pipe_line).          *)
(***************************************************************************)
AnsweredBeforeNext ==
  ~hung /\ pc \in {"next", "again", "skip"} => Client.mode = "idle" /\ Client.n = cur

(***************************************************************************)
(* No byte of an answer is left for the next one: rc is empty when a       *)
(* header is parsed (kassert(rc.get_buf() == nullptr)).                    *)
(***************************************************************************)
NoResidue == pc \in {"read", "parse", "again"} => rc = <<>>

(***************************************************************************)
(* response_left counts what the handler announced less what it wrote, so  *)
(* that assert(response_left >= len) holds for a handler that keeps to it. *)
(***************************************************************************)
LeftOver == pc = "handle" /\ data.sent => response_left = promised

(***************************************************************************)
(* "request is HEAD method so do not send any body" (start_response_body). *)
(***************************************************************************)
HeadHasNoBody ==
  (\A i \in DOMAIN script : script[i].meth = "HEAD") =>
    \A k \in 1..Len(out) : out[k].t \notin {"data", "chunk", "zero", "trailer", "fin"}

(***************************************************************************)
(* Plain HTTP on a port for SSL is answered (handle_http2https_error).     *)
(***************************************************************************)
PlainAnswered == NotHandshake /\ pc = "gone" /\ data.close /\ ~hung => Client.n = cur

FairSpec == /\ Spec /\ WF_vars(Send) /\ WF_vars(Omit) /\ WF_vars(Server)
            /\ WF_vars(Handler)

=============================================================================
