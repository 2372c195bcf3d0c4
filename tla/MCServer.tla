--------------------------- MODULE MCServer ----------------------------------
(***************************************************************************)
(* The sinks of a server that are not of HTTP/2: HTTP/3 with the sink of   *)
(* one request stream (the constants of the configuration are its own) and *)
(* its QUIC engines, and HTTP/1.x with the decoder of chunked bodies, the  *)
(* header parser and the writing of an answer. The parts are checked one   *)
(* at a time: a behaviour is one of one part, chosen at its start; the     *)
(* others rest, or are off.                                                *)
(***************************************************************************)
EXTENDS KHttp3Sink, Sequences

CONSTANTS
  Modulus, MaxChunkSize, e1, e2, c1, c2

VARIABLES
  part,     \* which of the parts moves
  \* KHttpSink
  script, todo, wire, hung, broken, http1_pc, cur, cn, buffer, hot, dechunk, dbuf, data, rc,
  response_left, out, promised, writes, failed,
  \* KDechunkEngine
  dechunk_data, lines, dechunk_wire, buf, status, chunk_size, real, dechunk_out, trailers,
  \* KHttpParser
  input, sent, parser_buf, parser, parser_out, waiting,
  \* KTcpServerSink
  tcp_pc, tcp_rc, total_len, tcp_status, body, suffix, tcp_buf, buf_length, length, iov,
  tcp_wire, send_size, tcp_response_left,
  \* KHttp3Server
  owner, start, stopping, refs, destroyed, tasks, tick, recv, cooled, shut, pending, conn,
  packets

\* The announced sizes, and -1 for unknown.
MCSizes == {-1, 0, 2, 3}

Request(meth, ver, keep, bytes, chunked, expect) ==
  [meth |-> meth, ver |-> ver, keep |-> keep, host |-> TRUE, bad |-> FALSE, bytes |-> bytes,
   chunked |-> chunked, expect |-> expect]
Get == Request("GET", 11, TRUE, 0, FALSE, FALSE)
HeadRequest == Request("HEAD", 11, TRUE, 0, FALSE, FALSE)
Post == Request("POST", 11, TRUE, 2, FALSE, FALSE)
PostChunked == Request("POST", 11, TRUE, 1, TRUE, FALSE)
PostExpect == Request("POST", 11, TRUE, 1, FALSE, TRUE)
PostChunkedExpect == Request("POST", 11, TRUE, 1, TRUE, TRUE)
MCBodies == {Get, Post, PostChunked, PostExpect, PostChunkedExpect}
MCAnswers == {Get, HeadRequest, Request("GET", 10, TRUE, 0, FALSE, FALSE),
              Request("GET", 11, FALSE, 0, FALSE, FALSE), [Get EXCEPT !.host = FALSE],
              [Get EXCEPT !.bad = TRUE], Request("PRI", 11, FALSE, 0, FALSE, FALSE)}
MCPlain == {Get, Post, PostChunked}

\* Bytes of a chunked message, as KDechunkEngine numbers them: digits are themselves.
MCSizeLines == {<<2>>, <<0, 3>>, <<1>>, <<1, 0>>}
MCExtensions == {<<>>, <<18, 3>>}
MCChunkEnds == {<<16, 17>>, <<17>>}
MCData == <<17, 0, 16>> \o [i \in 1..13 |-> 20]
MCTrailerLines == {<<20, 19, 20>>, <<20, 18, 20>>}

MCFirstLines == {<<"a", " ", "a">>, <<"a", " ", " ", ":">>}
MCPlainLines == {<<"a", ":", "a">>, <<"a", ":", " ", "a">>, <<"a", " ", ":", "a">>, <<"a", ":">>}
MCFolds == {<<"a", ":", "a">>, <<"a", ":", "a", "\n", " ", "a">>,
            <<"a", ":", "\n", " ", "a", "\n", " ", "a">>}
MCLineEnds == {<<"\n">>, <<"\r", "\n">>}

\* Bodies of every kind, pipelined.
BodiesSink == INSTANCE KHttpSink WITH
  Kinds <- MCBodies, MaxRequests <- 2, MaxRead <- 2, Lengths <- {1}, MaxWrites <- 1,
  Uses <- {}, NotHandshake <- FALSE, pc <- http1_pc

\* Answers of every kind: to HEAD, HTTP/1.0, no host, no request at all, a
\* switch to HTTP/2.
AnswersSink == INSTANCE KHttpSink WITH
  Kinds <- MCAnswers, MaxRequests <- 2, MaxRead <- 1, Lengths <- {-1, 0, 2}, MaxWrites <- 2,
  Uses <- {"upgrade"}, NotHandshake <- FALSE, pc <- http1_pc

\* Plain HTTP on a port for SSL.
PlainSink == INSTANCE KHttpSink WITH
  Kinds <- MCPlain, MaxRequests <- 2, MaxRead <- 2, Lengths <- {1}, MaxWrites <- 1,
  Uses <- {}, NotHandshake <- TRUE, pc <- http1_pc

Http1Off ==
  /\ script = 0 /\ todo = 0 /\ wire = 0 /\ hung = 0 /\ broken = 0 /\ http1_pc = 0 /\ cur = 0
  /\ /\ cn = 0 /\ buffer = 0 /\ hot = 0 /\ dechunk = 0 /\ dbuf = 0 /\ data = 0 /\ rc = 0
  /\ /\ response_left = 0 /\ out = 0 /\ promised = 0 /\ writes = 0 /\ failed = 0

\* Two chunks and two trailers through KDechunkContext::read; 1,0 is a size
\* beyond MaxChunkSize.
Dechunk == INSTANCE KDechunkEngine WITH
  SizeLines <- MCSizeLines, Extensions <- MCExtensions, LineEnds <- MCChunkEnds,
  Bodies <- MCData, TrailerLines <- MCTrailerLines, MaxChunks <- 2, MaxTrailers <- 2,
  MaxRead <- 3, InPlace <- FALSE, data <- dechunk_data, wire <- dechunk_wire,
  out <- dechunk_out

\* The same without trailers, decoded in the caller's buffer.
Reader == INSTANCE KDechunkEngine WITH
  SizeLines <- MCSizeLines, Extensions <- MCExtensions, LineEnds <- MCChunkEnds,
  Bodies <- MCData, TrailerLines <- MCTrailerLines, MaxChunks <- 2, MaxTrailers <- 0,
  MaxRead <- 3, InPlace <- TRUE, data <- dechunk_data, wire <- dechunk_wire,
  out <- dechunk_out

DechunkOff ==
  /\ dechunk_data = 0 /\ lines = 0 /\ dechunk_wire = 0 /\ buf = 0 /\ status = 0
  /\ chunk_size = 0 /\ real = 0 /\ dechunk_out = 0 /\ trailers = 0

\* Up to two header lines cut anywhere.
Parser == INSTANCE KHttpParser WITH
  FirstLines <- MCFirstLines, Lines <- MCPlainLines, MaxLines <- 2, LineEnds <- MCLineEnds,
  Blank <- 1, Cuts <- TRUE, Garbage <- {"a", " "}, buf <- parser_buf, out <- parser_out

\* Folded lines, in one piece.
Folds == INSTANCE KHttpParser WITH
  FirstLines <- MCFirstLines, Lines <- MCFolds, MaxLines <- 2, LineEnds <- MCLineEnds,
  Blank <- 1, Cuts <- FALSE, Garbage <- {"a", " "}, buf <- parser_buf, out <- parser_out

ParserOff ==
  /\ input = 0 /\ sent = 0 /\ parser_buf = 0 /\ parser = 0 /\ parser_out = 0
  /\ waiting = 0

\* Chains longer than the iovec of 3.
Tcp == INSTANCE KTcpServerSink WITH
  IovCount <- 3, MaxUsed <- 2, MaxHead <- 2, MaxBody <- 3, MaxSuffix <- 1, pc <- tcp_pc,
  rc <- tcp_rc, status <- tcp_status, buf <- tcp_buf, wire <- tcp_wire,
  response_left <- tcp_response_left

\* Two engines on two selectors, two connections, up to three packets.
Server == INSTANCE KHttp3Server WITH
  Engines <- {e1, e2}, Conns <- {c1, c2}, MaxPackets <- 3, MaxSinks <- 1

\* The sink before the headers of a request without a body.
SinkRests == Init /\ stream.coming = 0

ASSUME
  /\ Dechunk!DechunkAssumption
  /\ Reader!DechunkAssumption
  /\ Parser!BoundsAssumption
  /\ Folds!BoundsAssumption
  /\ Tcp!SinkAssumption
  /\ Server!EnginesAssumption
  /\ BoundsAssumption

-----------------------------------------------------------------------------

http1Vars == <<script, todo, wire, hung, broken, http1_pc, cur, cn, buffer, hot, dechunk, dbuf, data, rc,
  response_left, out, promised, writes, failed>>
dechunkVars == <<dechunk_data, lines, dechunk_wire, buf, status, chunk_size, real, dechunk_out,
  trailers>>
parserVars == <<input, sent, parser_buf, parser, parser_out, waiting>>
tcpVars == <<tcp_pc, tcp_rc, total_len, tcp_status, body, suffix, tcp_buf, buf_length, length,
  iov, tcp_wire, send_size, tcp_response_left>>
serverVars == <<owner, start, stopping, refs, destroyed, tasks, tick, recv, cooled, shut, pending,
  conn, packets>>
allVars == <<part, http1Vars, dechunkVars, parserVars, tcpVars, serverVars, vars>>

MCInit ==
  /\ part \in {"bodies", "answers", "plain", "dechunk", "reader", "parser", "folds",
              "tcp", "server", "sink"}
  /\ \/ part = "bodies" /\ BodiesSink!Init
     \/ part = "answers" /\ AnswersSink!Init
     \/ part = "plain" /\ PlainSink!Init
     \/ part \notin {"bodies", "answers", "plain"} /\ Http1Off
  /\ \/ part = "dechunk" /\ Dechunk!Init
     \/ part = "reader" /\ Reader!Init
     \/ part \notin {"dechunk", "reader"} /\ DechunkOff
  /\ \/ part = "parser" /\ Parser!Init
     \/ part = "folds" /\ Folds!Init
     \/ part \notin {"parser", "folds"} /\ ParserOff
  /\ Tcp!Init
  /\ Server!Init
  /\ \/ part = "sink" /\ Init
     \/ part # "sink" /\ SinkRests

\* These parts come to an end.
Stopped == part \in {"sink"} /\ UNCHANGED allVars

MCNext ==
  \/ /\ part = "bodies" /\ BodiesSink!Next
     /\ UNCHANGED <<part, dechunkVars, parserVars, tcpVars, serverVars, vars>>
  \/ /\ part = "answers" /\ AnswersSink!Next
     /\ UNCHANGED <<part, dechunkVars, parserVars, tcpVars, serverVars, vars>>
  \/ /\ part = "plain" /\ PlainSink!Next
     /\ UNCHANGED <<part, dechunkVars, parserVars, tcpVars, serverVars, vars>>
  \/ /\ part = "dechunk" /\ Dechunk!Next
     /\ UNCHANGED <<part, http1Vars, parserVars, tcpVars, serverVars, vars>>
  \/ /\ part = "reader" /\ Reader!Next
     /\ UNCHANGED <<part, http1Vars, parserVars, tcpVars, serverVars, vars>>
  \/ /\ part = "parser" /\ Parser!Next
     /\ UNCHANGED <<part, http1Vars, dechunkVars, tcpVars, serverVars, vars>>
  \/ /\ part = "folds" /\ Folds!Next
     /\ UNCHANGED <<part, http1Vars, dechunkVars, tcpVars, serverVars, vars>>
  \/ /\ part = "tcp" /\ Tcp!Next
     /\ UNCHANGED <<part, http1Vars, dechunkVars, parserVars, serverVars, vars>>
  \/ /\ part = "server" /\ Server!Next
     /\ UNCHANGED <<part, http1Vars, dechunkVars, parserVars, tcpVars, vars>>
  \/ /\ part = "sink" /\ Next
     /\ UNCHANGED <<part, http1Vars, dechunkVars, parserVars, tcpVars, serverVars>>
  \/ Stopped

MCSpec == MCInit /\ [][MCNext]_allVars

-----------------------------------------------------------------------------

\* What the sink takes for the body of a request is that body, however the
\* requests are cut and whoever reads it: while a request is handled left_read
\* says how much of it is still to come, and a new header starts where the last
\* body ended (internal_read, skip_post, save_point and the swap of the
\* decoder's buffer).
InStep == part = "bodies" => BodiesSink!InStep

\* The client can follow every byte the sink writes: one answer to each
\* request, its header before its body, as long a body as was announced (none
\* for HEAD), chunks that end once, and nothing after "close".  The sink goes
\* on only when the client has had the whole answer (end_request,
\* start_pipe_line), with no byte of it left in rc (kassert(rc.get_buf() ==
\* nullptr)) and response_left counted down; and plain HTTP on a port for SSL
\* is answered too (handle_http2https_error).
ClientFollows ==
  /\ part = "answers" =>
       /\ AnswersSink!ClientFollows
       /\ AnswersSink!AnsweredBeforeNext
       /\ AnswersSink!NoResidue
       /\ AnswersSink!LeftOver
  /\ part = "plain" => PlainSink!PlainAnswered

\* However the message is cut and read, the reader gets the data and the
\* trailers that were sent, the decoder stops where the message ends, with the
\* next request untouched, and refuses no message whose chunks are within
\* KHTTPD_MAX_CHUNK_SIZE.
DecodesMessage ==
  /\ part = "dechunk" => Dechunk!DecodesMessage /\ Dechunk!RefusesOnlyLarge
  /\ part = "reader" => Reader!DecodesMessage

\* Wherever the network cuts the message, the parser hands out its headers, in
\* order, each once and whole, stops at the first byte of the body and has
\* counted what lies before it (header_len, which the callers hold against
\* MAX_HTTP_HEAD_SIZE).
CutIndependent ==
  /\ part = "parser" => Parser!CutIndependent /\ Parser!StopsAtBody
  /\ part = "folds" => Folds!CutIndependent

\* An answer leaves as it was put together, however the chain falls into
\* batches and wherever the socket fails: status line, fields in order, body,
\* nothing twice, left out or read behind the end of the chain, and what
\* write_buf returns is what was not sent.  on_success_response counts bytes of
\* the body only, so that its assert(response_left >= len) holds.
SentInOrder ==
  /\ Tcp!SentInOrder
  /\ Tcp!HeaderFirst
  /\ Tcp!InsideChain
  /\ Tcp!CountsBody

\* The references of the HTTP/3 server are those of its owner, of starting or
\* reading engines, their ticks, packets between selectors and connections; a
\* tick ends only when its engine has no connection left to run
\* (kgl_h3_engine_tick), and when the engines are deleted nothing can call into
\* them any more (assert(selector_tick == NULL) in ~KHttp3ServerEngine).
EnginesCounted ==
  /\ Server!RefsMatch
  /\ Server!ConnsDriven
  /\ Server!NothingLeft

=============================================================================
