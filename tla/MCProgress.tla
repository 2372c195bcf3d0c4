--------------------------- MODULE MCProgress --------------------------------
(***************************************************************************)
(* What must eventually happen, component by component, and the event that *)
(* threads wait on (the constants of the configuration are its own). A     *)
(* behaviour is one of one part, chosen at its start; the others rest, or  *)
(* are off, and fairness is asked of the part that moves.                  *)
(***************************************************************************)
EXTENDS KCondWait, Integers, Sequences, TLC

CONSTANTS
  stream1, e1, e2, c1, c2, u1, u2, f1, f2, r1

VARIABLES
  part,     \* which of the parts moves
  \* KHttp2WriteBuffer
  buffers, hot, left, tcp_cork, tcp_no_cork_at_empty, write_wait, write_processing, closed,
  buffer_pc, offered, got, remove_list, pushes, pushed, wire, broken, urgent,
  \* KHttp2Client
  conn, ctx, block, sent, split,
  \* KTsUpstream
  ts_pc, posted, cut, stream, parse, header, last_header, next, cursor, delivered, off,
  \* KHttpSink
  script, todo, http1_wire, hung, http1_broken, http1_pc, cur, cn, buffer, http1_hot,
  dechunk, dbuf, data, rc, response_left, out, promised, writes, failed,
  \* KHttpParser
  input, parser_sent, buf, parser, parser_out, waiting,
  \* KHttp3Server
  owner, start, stopping, refs, destroyed, tasks, tick, recv, cooled, shut, pending,
  server_conn, packets,
  \* KHttp3Sink
  http3_stream, sink, http3_pc, http3_notice, http3_w, rq, peer,
  \* KPreRequest
  flags, tls, alpn, hdrs, accept_wire, sending, stage, hdr, accept_left, body, proxy,
  opaque, accept_owner, close, readers, ends, unwanted,
  \* KSockPool
  now, life_time, pool_refs, pool_owner, deleted, pool, size, us, pool_conn,
  \* KSockPoolMonitor
  word, store, error_count, max_error_count, monitor_refs, monitor_owner, fiber, busy, up,
  wanted, changes,
  \* KWebDav
  dav_conn, dav_pool, srv, dav_rq, token, held, dav_broken, dav_next

Request(bytes, chunked, expect) ==
  [meth |-> "POST", ver |-> 11, keep |-> TRUE, host |-> TRUE, bad |-> FALSE, bytes |-> bytes,
   chunked |-> chunked, expect |-> expect]
MCRequests == {Request(0, FALSE, FALSE), Request(2, FALSE, FALSE), Request(1, TRUE, FALSE),
               Request(1, FALSE, TRUE), Request(1, TRUE, TRUE)}
MCFirstLines == {<<"a", " ", "a">>, <<"a", " ", " ", ":">>}
MCLineEnds == {<<"\n">>}
ProxyHeader(sig, ver, cmd, len) ==
  [sig |-> sig, ver |-> ver, cmd |-> cmd, family |-> 0, proto |-> 1, len |-> len]
MCHeaders == {ProxyHeader(TRUE, 2, 1, k) : k \in {1, 2, 5}}
             \cup {ProxyHeader(FALSE, 2, 1, 2), ProxyHeader(TRUE, 2, 0, 2)}
MCServers == {{"SSL", "SSL_PROXY"}, {"PROXY", "SSL", "SSL_PROXY"}}
MCChains == {<<2, 0, 1>>}
MCControls == {[len |-> 0, tcp_nodelay |-> FALSE], [len |-> 1, tcp_nodelay |-> TRUE]}
MCOps == f1 :> {"LOCK", "PUT", "GET"}

Out == INSTANCE KHttp2WriteBuffer WITH
  Streams <- {1, 3}, Chains <- MCChains, FileLens <- {2}, Rooms <- {3},
  Controls <- MCControls, HeaderLen <- 1, MaxIov <- 3, MaxPushes <- 2,
  pc <- buffer_pc

Client == INSTANCE KHttp2Client WITH
  Streams <- {stream1}, Admin <- stream1, MaxStream <- 2, SidMax <- 3, Split <- TRUE,
  Kinds <- {"get", "expect", "chunk"}, Interim <- {"100"}

Ts == INSTANCE KTsUpstream WITH
  Interim <- FALSE, Trailers <- TRUE, pc <- ts_pc

Http1 == INSTANCE KHttpSink WITH
  Kinds <- MCRequests, MaxRequests <- 1, MaxRead <- 2, Lengths <- {1}, MaxWrites <- 1,
  Uses <- {}, NotHandshake <- FALSE, wire <- http1_wire, broken <- http1_broken,
  pc <- http1_pc, hot <- http1_hot

Http1Off ==
  /\ script = 0 /\ todo = 0 /\ http1_wire = 0 /\ hung = 0 /\ http1_broken = 0
  /\ http1_pc = 0 /\ cur = 0 /\ cn = 0 /\ buffer = 0 /\ http1_hot = 0 /\ dechunk = 0
  /\ dbuf = 0 /\ data = 0 /\ rc = 0 /\ response_left = 0 /\ out = 0 /\ promised = 0
  /\ writes = 0 /\ failed = 0

Parser == INSTANCE KHttpParser WITH
  FirstLines <- MCFirstLines, Lines <- {<<"a", ":", "a">>}, MaxLines <- 1,
  LineEnds <- MCLineEnds, Blank <- 1, Cuts <- TRUE, Garbage <- {"a", " "},
  sent <- parser_sent, out <- parser_out

ParserOff ==
  /\ input = 0 /\ parser_sent = 0 /\ buf = 0 /\ parser = 0 /\ parser_out = 0
  /\ waiting = 0

Server == INSTANCE KHttp3Server WITH
  Engines <- {e1, e2}, Conns <- {c1}, MaxPackets <- 2, MaxSinks <- 1, conn <- server_conn

Http3 == INSTANCE KHttp3Sink WITH
  MaxBody <- 1, Sizes <- {-1, 0, 2}, MaxAsk <- 3, BufCount <- 2, Expects <- BOOLEAN,
  Kinds <- {"str", "buf"}, Faults <- {"error", "refuse"}, MaxCalls <- 3,
  stream <- http3_stream, pc <- http3_pc, w <- http3_w, notice <- http3_notice

Http3Off ==
  /\ http3_stream = 0 /\ sink = 0 /\ http3_pc = 0 /\ http3_notice = 0 /\ http3_w = 0 /\ rq = 0
  /\ /\ peer = 0

Accepted == INSTANCE KPreRequest WITH
  Servers <- MCServers, Headers <- MCHeaders, HdrSize <- 2, V4Size <- 2, V6Size <- 3,
  MaxLen <- 4, NewConnection <- {{}, {"success"}}, wire <- accept_wire, left <- accept_left,
  owner <- accept_owner

AcceptOff ==
  /\ flags = 0 /\ tls = 0 /\ alpn = 0 /\ hdrs = 0 /\ accept_wire = 0 /\ sending = 0
  /\ stage = 0 /\ hdr = 0 /\ accept_left = 0 /\ body = 0 /\ proxy = 0 /\ opaque = 0
  /\ accept_owner = 0 /\ close = 0 /\ readers = 0 /\ ends = 0 /\ unwanted = 0

Pool == INSTANCE KSockPool WITH
  Conns <- {c1}, Handles <- {u1, u2}, Kinds <- {"tcp", "http", "h2", "h2ws"},
  LifeTimes <- {-1, 0, 2}, LifeWidth <- 8, GcTimes <- {-1, 0, 1}, H2Life <- 3,
  MaxStream <- 2, Epoch <- 10, MaxNow <- 1, refs <- pool_refs, owner <- pool_owner,
  conn <- pool_conn

Monitor == INSTANCE KSockPoolMonitor WITH
  Fibers <- {f1, f2}, Requests <- {r1}, MaxErrors <- {0, 2}, ErrWidth <- 4, Changes <- 3,
  Torn <- FALSE, refs <- monitor_refs, owner <- monitor_owner

Dav == INSTANCE KWebDav WITH
  Conns <- {c1, c2}, Fibers <- {f1}, OpsOf <- MCOps, MaxOps <- 3, PutPieces <- 1,
  Framings <- {"none", "chunked"}, Faults <- {"die"}, Cycle <- FALSE, conn <- dav_conn,
  pool <- dav_pool, rq <- dav_rq, broken <- dav_broken, next <- dav_next

ASSUME
  /\ WaitAssumption
  /\ Out!BufferAssumption
  /\ Client!ClientAssumption
  /\ Ts!TsAssumption
  /\ Parser!BoundsAssumption
  /\ Server!EnginesAssumption
  /\ Http3!BoundsAssumption
  /\ Accepted!SizeAssumption
  /\ Pool!PoolAssumption
  /\ Monitor!MonitorAssumption
  /\ Dav!BoundsAssumption

-----------------------------------------------------------------------------

outVars == <<buffers, hot, left, tcp_cork, tcp_no_cork_at_empty, write_wait, write_processing,
  closed, buffer_pc, offered, got, remove_list, pushes, pushed, wire, broken, urgent>>
clientVars == <<conn, ctx, block, sent, split>>
tsVars == <<ts_pc, posted, cut, stream, parse, header, last_header, next, cursor, delivered, off>>
http1Vars == <<script, todo, http1_wire, hung, http1_broken, http1_pc, cur, cn, buffer, http1_hot,
  dechunk, dbuf, data, rc, response_left, out, promised, writes, failed>>
parserVars == <<input, parser_sent, buf, parser, parser_out, waiting>>
serverVars == <<owner, start, stopping, refs, destroyed, tasks, tick, recv, cooled, shut, pending,
  server_conn, packets>>
http3Vars == <<http3_stream, sink, http3_pc, http3_notice, http3_w, rq, peer>>
acceptVars == <<flags, tls, alpn, hdrs, accept_wire, sending, stage, hdr, accept_left, body, proxy,
  opaque, accept_owner, close, readers, ends, unwanted>>
poolVars == <<now, life_time, pool_refs, pool_owner, deleted, pool, size, us, pool_conn>>
monitorVars == <<word, store, error_count, max_error_count, monitor_refs, monitor_owner, fiber, busy,
  up, wanted, changes>>
davVars == <<dav_conn, dav_pool, srv, dav_rq, token, held, dav_broken, dav_next>>
allVars == <<part, vars, outVars, clientVars, tsVars, http1Vars, parserVars, serverVars, http3Vars,
  acceptVars, poolVars, monitorVars, davVars>>

\* An event that nobody used yet.
EventRests == Init /\ ~autoreset /\ ~spurious

MCInit ==
  /\ part \in {"out", "client", "ts", "http1", "parser", "server", "http3", "accept",
              "pool", "monitor", "dav", "event"}
  /\ \/ part = "event" /\ Init
     \/ part # "event" /\ EventRests
  /\ Out!Init
  /\ Client!Init
  /\ Ts!Init
  /\ \/ part = "http1" /\ Http1!Init
     \/ part # "http1" /\ Http1Off
  /\ \/ part = "parser" /\ Parser!Init
     \/ part # "parser" /\ ParserOff
  /\ Server!Init
  /\ \/ part = "http3" /\ Http3!Init
     \/ part # "http3" /\ Http3Off
  /\ \/ part = "accept" /\ Accepted!Init
     \/ part # "accept" /\ AcceptOff
  /\ Pool!Init
  /\ Monitor!Init
  /\ Dav!Init

\* These parts come to an end.
Stopped == part \in {"client", "ts", "parser", "server", "http3", "accept", "dav", "event"}
           /\ UNCHANGED allVars

MCNext ==
  \/ /\ part = "out" /\ Out!Next
     /\ UNCHANGED <<part, vars, clientVars, tsVars, http1Vars, parserVars, serverVars, http3Vars,
          acceptVars, poolVars, monitorVars, davVars>>
  \/ /\ part = "client" /\ Client!Next
     /\ UNCHANGED <<part, vars, outVars, tsVars, http1Vars, parserVars, serverVars, http3Vars,
          acceptVars, poolVars, monitorVars, davVars>>
  \/ /\ part = "ts" /\ Ts!Next
     /\ UNCHANGED <<part, vars, outVars, clientVars, http1Vars, parserVars, serverVars, http3Vars,
          acceptVars, poolVars, monitorVars, davVars>>
  \/ /\ part = "http1" /\ Http1!Next
     /\ UNCHANGED <<part, vars, outVars, clientVars, tsVars, parserVars, serverVars, http3Vars,
          acceptVars, poolVars, monitorVars, davVars>>
  \/ /\ part = "parser" /\ Parser!Next
     /\ UNCHANGED <<part, vars, outVars, clientVars, tsVars, http1Vars, serverVars, http3Vars,
          acceptVars, poolVars, monitorVars, davVars>>
  \/ /\ part = "server" /\ Server!Next
     /\ UNCHANGED <<part, vars, outVars, clientVars, tsVars, http1Vars, parserVars, http3Vars,
          acceptVars, poolVars, monitorVars, davVars>>
  \/ /\ part = "http3" /\ Http3!Next
     /\ UNCHANGED <<part, vars, outVars, clientVars, tsVars, http1Vars, parserVars, serverVars,
          acceptVars, poolVars, monitorVars, davVars>>
  \/ /\ part = "accept" /\ Accepted!Next
     /\ UNCHANGED <<part, vars, outVars, clientVars, tsVars, http1Vars, parserVars, serverVars,
          http3Vars, poolVars, monitorVars, davVars>>
  \/ /\ part = "pool" /\ Pool!Next
     /\ UNCHANGED <<part, vars, outVars, clientVars, tsVars, http1Vars, parserVars, serverVars,
          http3Vars, acceptVars, monitorVars, davVars>>
  \/ /\ part = "monitor" /\ Monitor!Next
     /\ UNCHANGED <<part, vars, outVars, clientVars, tsVars, http1Vars, parserVars, serverVars,
          http3Vars, acceptVars, poolVars, davVars>>
  \/ /\ part = "dav" /\ Dav!Next
     /\ UNCHANGED <<part, vars, outVars, clientVars, tsVars, http1Vars, parserVars, serverVars,
          http3Vars, acceptVars, poolVars, monitorVars>>
  \/ /\ part = "event" /\ Next
     /\ UNCHANGED <<part, outVars, clientVars, tsVars, http1Vars, parserVars, serverVars,
          http3Vars, acceptVars, poolVars, monitorVars, davVars>>
  \/ Stopped

MCSpec == MCInit /\ [][MCNext]_allVars

\* What has to go on, part by part: the callbacks of the selector, the fibers
\* it runs, the peer that sends what it announced, and the timers.
MCFairness ==
  /\ WF_outVars(part = "out" /\ Out!Callback)
  /\ WF_outVars(part = "out" /\ (Out!WriteError \/ \E k \in 1..Len(offered) : Out!SocketTakes(k)))
  /\ WF_clientVars(part = "client" /\ Client!StreamTimeout(stream1))
  /\ WF_clientVars(part = "client" /\ (Client!HeadersEnd \/ (block # Client!NoBlock /\ Client!close(TRUE))))
  /\ WF_tsVars(part = "ts" /\ Ts!Selector)
  /\ WF_tsVars(part = "ts" /\ Ts!Caller)
  /\ WF_tsVars(part = "ts" /\ Ts!Field)
  /\ WF_http1Vars(part = "http1" /\ Http1!Send)
  /\ WF_http1Vars(part = "http1" /\ Http1!Omit)
  /\ WF_http1Vars(part = "http1" /\ Http1!Server)
  /\ WF_http1Vars(part = "http1" /\ Http1!Handler)
  /\ WF_parserVars(part = "parser" /\ Parser!Parse)
  /\ WF_parserVars(part = "parser" /\ Parser!Arrive)
  /\ WF_serverVars(part = "server" /\ Server!Shutdown)
  /\ WF_serverVars(part = "server" /\ Server!ShutdownNext)
  /\ WF_serverVars(part = "server" /\ Server!Release)
  /\ \A e \in {e1, e2} :
       /\ WF_serverVars(part = "server" /\ (Server!StartEngine(e) \/ Server!StopEngine(e) \/ Server!Package(e)))
       /\ WF_serverVars(part = "server" /\ Server!ReceiveFails(e))
       /\ WF_serverVars(part = "server" /\ Server!Tick(e))
       /\ WF_serverVars(part = "server" /\ Server!Process(e))
  /\ SF_serverVars(part = "server" /\ Server!ConnClosed(c1))
  /\ WF_serverVars(part = "server" /\ Server!SinkEnds(c1))
  /\ WF_http3Vars(part = "http3" /\ Http3!Arrive)
  /\ WF_http3Vars(part = "http3" /\ Http3!Callback)
  /\ WF_http3Vars(part = "http3" /\ Http3!Handler)
  /\ WF_http3Vars(part = "http3" /\ Http3!Resume)
  /\ WF_acceptVars(part = "accept" /\ (Accepted!Accept \/ Accepted!ProxyRead \/ Accepted!ProxyEof
       \/ Accepted!FirstPackage \/ Accepted!PeekEof \/ Accepted!SslAccept \/ Accepted!SslFails))
  /\ \A h \in {u1, u2} : WF_poolVars(part = "pool" /\ Pool!GiveBack(h))
  /\ WF_poolVars(part = "pool" /\ \E same \in BOOLEAN : Pool!Delete(same))
  /\ \A x \in {"owner", f1, f2, r1} : WF_monitorVars(part = "monitor" /\ Monitor!Store(x))
  /\ \A f \in {f1, f2} :
       WF_monitorVars(part = "monitor" /\ (Monitor!MonitorProbe(f) \/ Monitor!MonitorStopped(f)
                                             \/ Monitor!MonitorClears(f) \/ Monitor!MonitorEnds(f)))
  /\ WF_monitorVars(part = "monitor" /\ \E f \in {f1, f2} : Monitor!CreateFiber(f))
  /\ WF_monitorVars(part = "monitor" /\ Monitor!RemoveOwner)
  /\ WF_davVars(part = "dav" /\ Dav!Step(f1))
  /\ \A c \in {c1, c2} : WF_davVars(part = "dav" /\ Dav!Answer(c))
MCFairSpec == MCSpec /\ MCFairness

-----------------------------------------------------------------------------

\* Every fiber that was given something to do comes to its end.  A sleeper in a
\* write is woken, by success or failure; one that waits for the header of a
\* request that was sent, by the header, a reset, a shutdown, a closed
\* connection or its timeout; the caller of an upstream of another thread
\* returns and deletes it.  With a client that sends what it has and a handler
\* that goes on to the end, a header that came whole is parsed, every HTTP/1
\* request is followed by the next or the connection ends, and so does every
\* HTTP/3 request whatever operation of it fails; nobody holds an accepted
\* connection whose client said all it has to say or hung up; and every WebDAV
\* operation returns.
FibersFinish ==
  /\ Out!WritersWake
  /\ Client!HeaderReaderWoken
  /\ (part = "ts") ~> (ts_pc = "deleted")
  /\ (part = "parser") ~> (part = "parser" /\ parser.finished)
  /\ (part = "http1") ~> (part = "http1" /\ http1_pc = "gone")
  /\ (part = "http3" /\ http3_pc = "run") ~> (part = "http3" /\ http3_pc = "done")
  /\ (part = "accept") ~> (part = "accept" /\ stage = "done")
  /\ Dav!OpsEnd

\* What was let go is freed: an HTTP/3 server (release), an upstream container
\* with all that was handed out (remove), its monitor fibers (shutdown); and a
\* monitored server that stays up is used again, whatever late errors come.
ServersSettle ==
  /\ Server!Freed
  /\ Pool!Drained
  /\ Monitor!MonitorsEnd
  /\ Monitor!Recovers

=============================================================================
