# khttpd: a TLA+ model and its proofs

khttpd is an HTTP server and client library in C++ on top of the fiber and
selector library kasync. This directory holds TLA+ models of its core, the TLC
configurations that check them, and TLAPS proofs of the results that matter most.
`PROJECT.json` maps every definition to the lines it models and lists runs,
mutants, hazards, findings and theorems.

## 1. The system

| component | state | operations | hard part |
|---|---|---|---|
| HTTP/2 connection, `KHttp2.cpp/.h` | life flags, `processing`, windows of both directions, frame parser, stream tree, `active_queue`, write buffer | frame handlers, `read`, `write`, `sendfile`, `shutdown`, `readhup`, `close`, `ping`, `check_stream_timeout`, `release` | three kinds of actor share it; every frame may arrive in several reads; who frees it |
| HTTP/2 stream, `KHttp2Context` | half-close flags, `rst`, windows, read buffer (`KSendBuffer`), read and write event, content length, timeout link | `Init`, `Destroy`, `build_write_buffer`, `is_available` | owned by sink, tree, parser and buffers at once |
| HTTP/2 sink, `KHttp2Sink` | a request bound to a stream | response calls, destructor | its end races everything the parser does |
| HTTP/2 write buffer, header blocks | list of buffers with waiters; chunks of a header block | `push`, `getReadBuffer`, `readSuccess`, `clean`; `write`, `insert`, `create` | a buffer owns the wakeup of one fiber; a block may not fit a frame |
| HPACK tables, Huffman code | ring of entries, ring of bytes | `table_size`, `add_header`, `get_indexed_header` | must move in step with the peer |
| HTTP/2 upstream (client mode) | stream contexts, header callback | `connect`, `send_header`, `read_header`, `read`, `Destroy` | interim, final and trailer headers on one stream, while the user writes |
| HTTP/1.x sink, parser, chunk decoder, TCP sink | read buffer, `left_read`, `rc`, parse state, chunk state | request loop, `read`, `skip_post`, answers, `dechunk`, `write_buf` | message boundaries cut anywhere; answers leave through several calls |
| `KSink`, `KRequestData` | what the header fields of a request mean | `parse_header`, `begin_request`, `adjust_range`, reset | fields in any order; the object is used again |
| HTTP/3 server and sinks | engines, ticks, references, stream flags | start, tick, packet hand-over, shutdown; lsquic callbacks | lifetimes over threads; a callback from inside a call |
| connection pool and monitor | idle list with expiry, references, error count, flags | `get_pool_socket`, `gc`, `refresh`, `clean`, `health`, monitor fiber | several selector threads |
| upstreams (`KTsUpstream`, `KHttpUpstream`) | header list; send and read buffer | calls joined on another selector | two threads on one list |
| accept, PROXY protocol, dispatch | one header | callbacks from accept to sink | every callback may be the last |
| utilities | header list, dates, codings, condition wait | | arithmetic and pointers |
| WebDAV client, `davlib` | connections, lock token, XML tree | operations, XML parser, file list | pairing of request and answer |

An accepted connection goes through the callbacks of `KPreRequest` and is given to
a sink. For HTTP/2, `on_read_result` runs the frame handlers on what the socket
delivered; a complete HEADERS block creates a request fiber, which calls the
connection through its `KHttp2Sink`. A fiber that must wait leaves an event on the
stream and sleeps; a frame handler, the write callback, a timeout or `close` hands
the event back and wakes it. For HTTP/1 one fiber reads, parses, runs the handler
and answers; for HTTP/3 lsquic calls back into the sink. All of this happens on one
selector thread: a callback runs to completion, a fiber runs until it sleeps. What
makes it hard is the order in which these pieces run. Threads meet in few places:
the pool and its monitor, `KTsUpstream`, the packets and references of HTTP/3, and
`KCondWait`.

What makes each component correct is stated in section 3, property by property;
the hazards behind them are in `PROJECT.json`, each at its line.

## 2. Modules

### Component modules

State is the members of the class under their names; history variables are marked
as such at their declaration. An action is one run of a handler or one call with
everything it does. Where a loop changes shared state between its turns, or another
thread may come in between, an action is one turn or one load or store.

| module | state | actions |
|---|---|---|
| `KHttp2` | a server connection: life flags, windows, `queue`, parser (`phase`, `handler`, `stream`, `length`), `node` (`streams_index`), `live` (sinks), flags and numbers of each context, events (`read_wait`, `write_wait`) apart from sleeping fibers (`rsleep`, `wsleep`), buffers with a waiter | frame handlers, cut frames as start and continuation; `StartRead`, read time-outs and errors; `WriteDone`, `WriteError`; the calls of a fiber; `Elapse` |
| `KHttp2WriteBuffer` | list of buffers, `hot`, `left`, cork, waiters, the iovec offered | `Control`, `Writing` (frames of `build_write_buffer`), `SocketTakes`, the turns of `readSuccess` and `remove_buff`, `clean` |
| `KHttp2HeaderFrame` | chunks of a header block, frames built | `Write`, `AllocBuffer`, `Insert`, the turns of `create` |
| `KHttp2HeaderBlock` | tokens of a header block in frames and reads, handler, `field_rest` | one handler call per step |
| `KHttp2Table` | `entries`, `added`, `deleted`, `reused`, `storage`, `pos` | `AddHeader`, `Resize` |
| `KHttp2Hpack` | the encoder's and the decoder's table, the block being read | fields of every kind in blocks of every kind, the end of the stream between two reads |
| `KSendBuffer` | blocks as heap nodes with `next` | `append`, `copy_read_buffer`, `clean` |
| `KHttp2Client` | contexts of upstream streams, the block being read; history: what the peer sent, the streams that had a block in two reads | every call of `KHttp2Upstream`, the frame handlers in client mode |
| `KTsUpstream` | the list of header fields, one load or store at a time | caller, selector, shutdown by a third fiber |
| `KHttpSink` | client script, read buffer, `data`, `rc`, `response_left` | request loop, calls of the handler, pieces the client sends |
| `KDechunkEngine` | `chunk_size` with its state bits, buffer | pieces of the decoder, reads of any size |
| `KHttpParser` | buffer, parser flags | `Parse`, `Arrive` |
| `KTcpServerSink` | chain, place in it, iovec | header calls, `InternalWrite`, batches of `write_buf` |
| `KHttp3Server` | references, engines, their selector queues, packets, connections | start, shutdown in turns, tick, receive, hand-over, connections |
| `KHttp3Sink` | lsquic's view of the stream, `st_flags`, fiber, notices | callbacks, calls of the handler, `OnClose` |
| `KPreRequest` | server flags, client, stage, PROXY header, owner | every callback from accept to sink |
| `KRequestHeader` | `KRequestData`, and what a fresh one would hold | `Line`, `Field`, `BeginRequest`, ranges, `NextRequest` |
| `KHttpHeaderManager` | cells, `header`, `last`, the buffer they point into | the list operations, `MoveBuffer` |
| `KHttpTime`, `KHttpTimeText` | a date and its day number; the cursor in a text | the next and the last day; the tests of `kgl_parse_http_time` |
| `KHttpCoding` | a text | grows by a byte; codings are functions of it |
| `KSockPool` | idle list, upstreams, connections, references, clock | take, give back, refresh, clean, remove, time |
| `KSockPoolMonitor` | the word of flags, stores under way, monitor fibers | start, probe, stop, requests that succeed or fail |
| `KCondWait` | `ev`, threads asleep or woken | `notice`, steps of `wait` and `tryWait` |
| `KWebDav` | connections with both buffers, pool, server, requests, lock token | operations step by step, answers, death and expiry of connections |
| `KXml` | open elements, tree, file list | one piece of the text per step |
| `KAutoArray` | the union of object and block, `count`, `cap` | the array operations |

Abstract specifications: `SendWindow` (flow control), `SendQueue` (write buffer),
`HpackTable`, `ByteQueue` (receive buffer), `ObjList` (array). `KeepsContract`,
`SendsInOrder`, `TablesAgree`, `BufferIsQueue` and `ArrayIsList` say that `KHttp2`,
`KHttp2WriteBuffer`, `KHttp2Table`, `KSendBuffer` and `KAutoArray` implement them.

Abstractions. Data is reduced to what the properties tell apart: in `KHttp2` bytes
are lengths and headers have no contents; elsewhere a byte is known by its place
(`KHttp2WriteBuffer`, `KTcpServerSink`) or by its role (`KDechunkEngine`,
`KHttpParser`, `KXml`). Widths that matter are kept and scaled: the chunk size
(`Modulus`), life times (`LifeWidth`), error counts, the 16 bits of `FileWidth`. A
timer is the choice which of the queued streams expire. The handler of a request is
external: it may make any calls in any order that `KSink` allows. So is the peer,
which sends anything the handlers accept; a frame they reject closes the connection.
Every name that ends the enumeration of a counter (`Max...`) is a bound of the
instance, not of the code.

### Modules for TLC

A component has few variables in common with another, so the instances are
gathered: `MCKHttp2Streams`, `MCHttp2Wire`, `MCUpstream`, `MCServer`, `MCRequest`,
`MCWebDav` and `MCProgress` declare the variables of several component modules and
a variable `part`. The initial predicate chooses a part, and a behaviour is a behaviour
of the instance of that name; the others rest in a state of theirs, or are off (all 0)
where they have many initial states. An invariant of a component is stated for all
its instances, or for the parts it is about. Parts that may come to an end are
listed in `Stopped`, so that deadlock is checked for all others.

Where a component of the group is proved about, the group extends its module, with the
component's constants in the configuration, so that the run checks the very definition
the theorem is about: `KHttp2` in `MCKHttp2Streams`, `KHttp2WriteBuffer` in
`MCHttp2Wire`, `KHttp2Client` in `MCUpstream`, `KSockPool` in `MCWebDav`, `KHttp3Sink`
in `MCServer`, `KCondWait` in `MCProgress`. The group's own specification is then called
`MCSpec`. `MCKHttp2` extends `KHttp2` for its own configurations. The
assumptions of the component modules (`...Assumption`) are checked for every instance by
the ASSUME of the module that makes it.

## 3. Runs

| run | instance | properties | states |
|---|---|---|---|
| `send` | `KHttp2`: 1 stream, windows up to 2, SETTINGS 0, updates 1 and 2, split headers and trailers, DATA, files | `TypeOK` `NoStalledWriter` `WindowsInRange` `NoLostWriter` `KeepsContract` | 401,000 |
| `streams` | `KHttp2` six times: 2 writers that share the windows, with SETTINGS 0 and 2; bodies received (window 8, DATA of 0, 1, 8); 2 streams closed in every order; frames cut while their stream goes away; reader and writer under a timer; every answer | `RecvWindow` `WaitersReached` `Lifetimes` `EndMatchesLength` | 507,000 |
| `live_write` | `KHttp2`: 1 stream, read and written, a refused one, GOAWAY, every fault, fair | `SleepersWake` `ConnectionFreed` | 45,000 |
| `http2_wire` | write buffer of 2 writers, a file and control frames; blocks of 3 fields in chunks of 3 and frames of 7; blocks read in up to 3 frames and any reads; table of 9; both HPACK tables; receive buffer of 5 bytes | `BufferConsistent` `SendsInOrder` `BlockSent` `BlockRead` `TablesAgree` `BufferIsQueue` | 344,000 |
| `upstream` | `KHttp2Client` with 1 stream of every kind and with 2, blocks in two reads; `KTsUpstream`; 2 monitor fibers with torn stores | `FramesInOrder` `HeaderComplete` `StreamsLive` `HandedOver` | 172,000 |
| `server` | `KHttpSink` with 2 pipelined requests: bodies, answers, plain HTTP on an SSL port; decoder, parser, `write_buf`; HTTP/3 with 2 engines and 2 connections, and one of its sinks | `InStep` `ClientFollows` `DecodesMessage` `CutIndependent` `SentInOrder` `EnginesCounted` `SinkAndStream` | 352,000 |
| `requests` | fields in every order on two requests, preconditions, ranges, HTTP/2 pseudo fields; 3 header cells; accept with PROXY headers of every length; codings of 4 bytes; every day from 1960 to 2101; date texts of up to 40 characters | `HeaderMeans` `FieldsKept` `OneOwner` `TextsKeepMeaning` `DatesRight` | 636,000 |
| `webdav` | pool of 2 connections and 3 handles of every kind; two fibers, and one with every operation, on connections that die and bodies that fail to be read; XML documents three deep, any pieces in any order, multistatus answers; arrays of 4 | `OwnAnswer` `TreeIsDocument` `PoolCounts` `ArrayIsList` | 633,000 |
| `progress` | eleven components, smaller instances, fair; an event with 2 threads, of both kinds, woken by notices only or also without | `NoticesCount` `FibersFinish` `ServersSettle` | 41,000 |
| `trailer_queue`, `header_close`, `file_width` | `KHttp2`, one case each | an assertion of the code that TLC finds violated | |

A property that a run checks is what one component, or one side of a connection,
promises. Most are conjunctions whose parts are invariants of the component
modules, each stated there with the code it is about; the property in the module for
TLC says for which part each holds. Read first:

* Flow control. `NoStalledWriter`: a writer that waits for window is never left
  with both windows open; `WaitersReached` says it of two that compete.
  `KeepsContract`: what is sent was granted by the peer, on the stream and on the
  connection, through any order of WINDOW_UPDATE and SETTINGS. `RecvWindow`: the
  receive window is topped up in time and never beyond two windows and a quarter.
* Wakeups. `NoLostWriter`, `WaitersReached` (`NoLostReader`, `WindowWaiterOpen`,
  `QueueIsWaiters`), `OneNoticePerWriter`, `QueueHasWaiter`, `WaiterRegistered`,
  `NoticesCount`: for every sleeper there is an event that somebody will hand back;
  `SleepersWake` and `FibersFinish` say it is handed back.
* Lifetimes. `Lifetimes` (`ReadSideClosed`, `ConnectionOutlivesStreams`,
  `NoDangling`), `StreamsLive`, `PoolCounts`, `EnginesCounted`, `SinkAndStream`, `HandedOver`
  (one thread in the header list, `NoRace`; references of a monitored server); and
  that what was let go is freed: `ConnectionFreed`, `ServersSettle`.
* Messages. `BlockRead`, `DecodesMessage`, `CutIndependent`, `InStep`, `OneOwner`
  (`ConsumesHeader`): what is read does not depend on how the network cuts it.
  `SendsInOrder`, `BlockSent`, `ClientFollows`, `SentInOrder`, `FramesInOrder`: what
  is written can be followed by the peer in every order of the handler's calls.
* Reuse. `HeaderMeans` (`RequestIsolated`), `ClientFollows` (`NoResidue`,
  `LeftOver`), `OwnAnswer` (`PooledAtRest`, `BuffersGone`), `PoolCounts`
  (`PoolIntact`): nothing of one request reaches the next on the same connection.

Why the bounds are enough. A window of 1 or 2 takes all the values that matter:
negative, zero, less than a write, a whole write, the maximum. Two streams are the
smallest instance in which one writer takes the window another waits for, and in
which one sink ends while another keeps the connection alive; no handler looks at
more than one stream beside its own. Two pipelined requests show everything one
leaves to the next. Chunk, frame, iovec and block sizes are small enough that every
loop takes none, one and several turns, ends exactly at a boundary and wraps.
Three handles on two connections are a stream, its sibling and the admin stream.
Two monitor fibers and a request are the smallest race for the flags. Dates cover a
leap year at a century (2000), one that is not (2100), and both sides of 1970.
`Interchangeable` permutes the connections and handles of the pool, which the code
never compares by order; no liveness property is checked under it.

No run sets `CHECK_DEADLOCK FALSE`.

### Fairness

Nothing is assumed of a peer beyond sending what it announced, or hanging up.

| module | assumed | why |
|---|---|---|
| `KHttp2` | `WF(ReadSide)`, `SF(StartRead)`, `SF(WriteSide)`, `SF(Elapse)`, `SF(Finish)` | the selector delivers read events or a time-out, a read buffer is finite, a write completes or fails, time passes for queued streams, a handler that does not sleep returns. Strong where a read callback in progress disables the action for its duration |
| `KHttp2WriteBuffer` | callbacks go on; the socket takes something or fails | kasync reports one of the two |
| `KHttp2Client` | the stream time-out; the rest of a block arrives or the connection closes | `check_stream_timeout` runs with every read time-out |
| `KTsUpstream` | both threads run | threads are scheduled; the peer answers or the stream ends |
| `KHttpSink` | the client sends what it has, the fiber and the handler go on | a client that falls silent meets the read time-out of the socket, the same as `Hangup` |
| `KHttpParser` | what was sent arrives, the caller parses | |
| `KHttp3Server` | every posted call and tick runs, the owner goes on; strong for the end of a connection | selectors run what they are given; QUIC's idle time-out ends a connection in the end |
| `KHttp3Sink` | callbacks, the handler and resumed fibers run | lsquic calls a stream that wants to be called and can make progress |
| `KPreRequest` | some callback runs | read, time-out or error |
| `KSockPool` | handles are given back, a container without references is deleted | requests end |
| `KSockPoolMonitor` | stores complete, monitor fibers run | fibers are scheduled; a probe connects or fails |
| `KWebDav` | an operation goes on, the server answers | |

### Disagreements with assertions of the code

Three are runs of their own:

| run | assertion | cause |
|---|---|---|
| `trailer_queue` | `kassert(stream->queue.next)`, `KHttp2.cpp:2022`, `2175` | trailers unlink a stream whose writer waits for window, `KHttp2.cpp:1843` |
| `header_close` | `assert(processing >= 0)`, `KHttp2.cpp:888` | the sink of an incomplete stream was never counted, `KHttp2.cpp:2252` |
| `file_width` | `assert(total_len > 0)`, `KHttp2.h:387` | a 16-bit cast of a frame length, `KHttp2.h:348` |

After the incomplete stream of a dying connection has been deleted the code goes on
with a null node; the model ends there, with the connection deleted.

### Other departures

More places where the code does not do what a comment, an assertion or a log line
of it says. Each is an outcome of a module here, and the definition named in the
third column says what is expected; TLC refutes it on the instance in the fourth
(other constants as in the run of the module). The runs above choose instances that
leave the case out, so that what else the property says is checked.

| source | what happens | definition | instance |
|---|---|---|---|
| `KHttp2.h:332` | a sink may end between two reads of its trailers, which `is_available` asserts cannot be | `KHttp2!AvailableStream` | PeerFrames HEADERS, TRAILERS_SPLIT; responses |
| `KHttp2WriteBuffer.cpp:61` | a block longer than a frame: the first frame's header is cleared, the second's is not | `KHttp2HeaderFrame!LongBlock` | as run |
| `KHttp2Table.cpp:219` | a size update before the first header is lost | `KHttp2Table!ResizeHolds` | EarlyResize |
| `KHttp2.cpp:2321` | the string of a field to be indexed is skipped when the sink is gone; an earlier string is indexed | `KHttp2Hpack!Synced` | kinds new, trailers |
| `KHttp2.cpp:1846` | a block for a stream that is gone is skipped without decoding; later indexes find other headers | `KHttp2Hpack!HeaderRight` | kinds new, gone |
| `KHttp2.cpp:2276` | the block of a refused stream is decoded without a pool, which `KHttp2Table.cpp:107` asserts | `KHttp2Hpack!PoolPresent` | kinds new, refused |
| `KHttp2.cpp:1068` | `send_header` makes no node on a closing connection, and the fiber that then reads the header is reached by nobody | `KHttp2Client!NodeWhenReading` | kind get |
| `KHttp2.cpp:958` | `ReadHeader` between the two reads of a block puts the stream back into the queue; `KHttp2.cpp:590` asserts it is not there | `KHttp2Client!HeaderQueueClear` | Split, kind put |
| `KHttp2Upstream.cpp:49` | `read_header` sends the pending HEADERS of a trailer after RST_STREAM | `KHttp2Client!NothingAfterReset` | kind trailer |
| `KHttp2Upstream.cpp:14` | only 100 is informational; after 103 the final header goes to the trailers | `KHttp2Client!NextIsNotTrailer` | Interim 103 |
| `KDechunkEngine.cpp:69` | the size wraps in 32 bits before it is compared with its limit | `KDechunkEngine!SizeBounded` | sizes of three digits |
| `KDechunkEngine.cpp:33` | a trailer line of one character is taken for the end | `KDechunkEngine!EndsAtEnd` | trailers of one character |
| `KHttpSink.cpp:27` | HEAD as plain HTTP on an SSL port gets no answer | `KHttpSink!PlainAnswered` | HEAD, NotHandshake |
| `KHttpSink.cpp:79` | a handler that starts its answer before it reads a body with Expect loses `response_left` to the 100 | `KHttpSink!LeftOver` | Uses late_read |
| `KHttpSink.cpp:240` | trailers are written to the answer of a HEAD | `KHttpSink!HeadHasNoBody` | Uses head_trailer |
| `KHttpSink.cpp:135` | a chunk of a file ends in CR, LF and NUL, because of `sizeof` | `KHttpSink!ClientFollows` | Uses file |
| `KHttpSink.cpp:263` | trailers before any body are written before the header | `KHttpSink!ClientFollows` | Uses early_trailer |
| `KPoolableSocketContainer.cpp:54` | `refreshList` stops at the first upstream that has not expired, in a list not ordered by expiry | `KSockPool!RefreshRemovesExpired` | kind http |
| `KHttp2Upstream.h:112` | an admin stream made by `gc` expires at once, so the connection is not pooled | `KSockPool!AdminPooled` | as run |
| `KSockPoolHelper.cpp:375` | flags in one word: a store of `disable_flag` sets `monitor` again, and the monitor of a removed server never ends | `KSockPoolMonitor!MonitorsEnd` | Torn |
| `KSockPoolHelper.cpp:108` | a monitor that was stopped clears `monitor` for the one started after it | `KSockPoolMonitor!StopsWhenStopped` | as run |
| `KHttp3.cpp:72` | `on_close` wakes no fiber that waits in the sink | `KHttp3Sink!HeadReturns` | fault close, fair |
| `KHttp3Sink.h:123` | `on_read` from inside `internal_read` finds STF_READ not set, which `KHttp3Sink.cpp:24` asserts | `KHttp3Sink!ReadAsserted` | no faults |
| `KHttp3Sink.cpp:38` | after a 100 the final header is refused | `KHttp3Sink!HeadAsserted` | Expects TRUE |
| `KHttp3Sink.h:156` | `write_all` of a buffer chain returns 0 after a failure or with more than 64 buffers | `KHttp3Sink!WriteAllTruth` | kind buf |
| `KSink.h:516` | `bytes=-0` serves the first byte | `KRequestHeader!LastRangeIsLast` | ranges |
| `KSink.h:436` | Content-Length after Transfer-Encoding: chunked overwrites the -1 | `KRequestHeader!ChunkedLengthUnknown` | both fields |
| `KHttpLib.cpp:685` | a second `:path`, or an absolute one after `:authority`, is written over the first; `KHttpLib.cpp:594` asserts NULL | `KRequestHeader!UrlWrittenOnce` | protos h2 |
| `KHttpHeaderManager.h:188` | `remove` leaves `last` NULL or in the middle | `KHttpHeaderManager!InsertHasLast` | Careful FALSE |
| `KPreRequest.cpp:97` | a client that negotiates h2 skips the PROXY header inside TLS | `KPreRequest!ProxyInSsl` | servers SSL, SSL_PROXY |
| `KProxy.cpp:58` | the family byte is compared whole, so 0x11 (TCP over IPv4) is refused | `KPreRequest!StreamFamilyAccepted` | headers of streams |
| `KWebDavRequest.h:28` | a connection whose PUT was not sent whole is kept | `KWebDav!OwnAnswer` | fault source |
| `KWebDavClient.cpp:72` | a broken connection goes back to the pool and is taken again | `KWebDav!Recovers` | `BusySpec`, Cycle |
| `KTsUpstream.cpp:106` | after a 100 the callback appends while the caller walks the list | `KTsUpstream!HeaderHandedOver` | Interim |
| `KTsUpstream.h:62` | `send_trailer` runs on the caller's thread | `KTsUpstream!OnSelector` | Trailers |
| `KHttpParser.h:97` | a folded line at the end of the data is joined or not by what lies behind it | `KHttpParser!CutIndependent` | folded lines, Cuts |
| `KHttpParser.h:43` | a line without separator is consumed and more data asked for | `KHttpParser!ContinueConsumesNothing` | line without colon |
| `KAutoArray.h:142` | `remove` of one of two keeps `cap`, which the next call asserts is 0; a release build is not harmed | `KAutoArray!AssertsHold` | as run |
| `KXml.cpp:361` | text after a comment or CDATA section ends the document | `KXml!EndsAtEnd` | nested texts |
| `KXmlDocument.cpp:111` | a second root element trips `assert(root == nullptr)` | `KXml!RootOnce` | any pieces |
| `KCondWait.h:80` | an event without autoreset is cleared by the first waiter that finds it there | `KCondWait!EverybodyPasses` | Modes FALSE, fair |
| `KCondWait.h:84` | a spurious wakeup returns as if noticed | `KCondWait!OncePerNotice` | Spurious |

Smaller observations met while modelling: If-Range without a byte range leaves
`data.range` zeroed; `range->to` is not clipped to the file, and a suffix range at
least as long as the file is refused; `parse_method` never refuses; HTTP/2 ignores
the result of `parse_header`; `write_buf` with length 0 never sends the suffix (no
caller does that); `KCondWait::tryWait` never waits, its deadline being invalid;
day 0 of a month is accepted; `b64decode` trims zero bytes from the end; the reader
of XML does not deliver a text after a child, and only the first propstat of a
response is looked at. In client mode, HEADERS for an unknown stream are skipped
without HPACK decoding, a HEADERS frame is sent for a stream shut down before its
header without RST_STREAM, and `read` returns 0 before a split trailer block is
complete. A chain with `MAX_IOVECT_COUNT` - 1 empty nodes in a row (`KHttp2WriteBuffer.h:239`)
makes an empty iovec, and `on_write_result` takes the 0 of such a write for an error
(`OfferIsPrefix`, chain `<<1, 0, 0, 1>>`).

## 4. Proofs

Each theorem holds for every value of the constants under the assumptions named
here, which TLC evaluates on the instances the runs make. `KCondWait` and
`KSockPoolMonitor` hold their own proofs.

| module | theorem | says `Spec => []` of | under |
|---|---|---|---|
| `KHttp2Proofs` | `TypeCorrect` | `TypeOK` | the three assumptions of `KHttp2` |
| | `NoWriterStalls`, `WindowsNeverOverdrawn` | `NoStalledWriter`, `WindowsInRange` | the same |
| | `ContractKept` | `KeepsContract`: `KHttp2` implements `SendWindow` | the same |
| `KHttp2LifeProofs` | `NoWriterLost`, `LifetimesKept` | `NoLostWriter`, `Lifetimes` | the same |
| | `ReceiversServed`, `EveryWaiterReached`, `ResponsesEndInTime` | `RecvWindow`, `WaitersReached`, `EndMatchesLength` | the same |
| `KHttp2ClientProofs` | `FramesAlwaysInOrder` | `FramesInOrder` | `ClientAssumption` |
| | `StreamsAlwaysLive` | `StreamsLive` | the same |
| | `HeaderAlwaysComplete` | `HeaderComplete` | and no informational response but 100 |
| `KHttp2WriteBufferProofs` | `SendsAlwaysInOrder` | `SendsInOrder`: `KHttp2WriteBuffer` implements `SendQueue` | `BufferAssumption` |
| | `BufferAlwaysConsistent` | `BufferConsistent` | and `ChainsFilled` |
| `KSockPoolProofs` | `PoolKeepsCount` | `PoolCounts` | `PoolAssumption` |
| `KSockPoolMonitor` | `MonitorKeepsRefs` | `MonitorRefs` | nothing |
| `KCondWait` | `NoticeCounted` | `NoticesCount` | `WaitAssumption` |
| `KHttp3SinkProofs` | `SinkOutlivesUse` | `SinkAlive` | `BoundsAssumption` |
| | `AnswerWholeOrReset` | `CompleteOrReset` | and no request asks for a 100 |
| | `SinkKeepsPromises` | `SinkAndStream` | and handlers write strings |

The assumptions say what the code's types and settings give. For `KHttp2`: stream ids
are positive, sizes are natural numbers, frame sizes and the receive windows are
positive, and the initial window and every SETTINGS value for it is at most
`MaxWindow` (what `state_settings_params` rejects otherwise). For the client: `"none"`
is not a stream, the kinds of request are the six that exist, and the informational
responses a peer may send are 100 and 103. For the write buffer: 0 (the NULL of a
buffer's `ctx`) is not a stream, a frame header and every file and window that is
written for are positive, an iovec has room for a buffer, and a chain ends with a node
that holds something. For the pool: the kinds of upstream are the four that exist,
`MaxStream` and the life time of an admin stream are natural numbers, and the clock
starts past any life time (it counts seconds from 1970). For the event: a number of
waits per thread is a natural number. None bounds the streams, connections, upstreams,
fibers, threads, buffers or bytes. What `HeaderAlwaysComplete`, `AnswerWholeOrReset`
and `SinkKeepsPromises` assume beyond that excludes three departures of section 3
(`KHttp2Upstream.cpp:14`, `KHttp3Sink.cpp:38`, `KHttp3Sink.h:156`) in which the code
breaks the property. `ChainsFilled`, of `BufferAlwaysConsistent`, excludes the chain
that makes an empty iovec (end of section 3); `SendsAlwaysInOrder` does without it.

### One HTTP/2 connection

No property of the runs `send` and `streams` is inductive alone. The invariant is built
in layers, the first two in `KHttp2Proofs`, the others in `KHttp2LifeProofs`, which
extends it.

* `TypeOK` is inductive. Besides types it says that the receive windows, unsigned in
  the code, stay within their ranges, and that the parser holds a stream exactly while
  it is inside a frame. There is a lemma per shared operator (`Cut`, `close`,
  `state_complete`, `state_read_data`, `on_write_window_ready`), then one per action.
* `FlowInv` adds the send windows. `NoStalledWriter` needs `WindowsInRange`, because
  `ConnWindowUpdate` starts a scan only for a window that was used up; and the scan
  visits `node`, so a window waiter has to be in `node`. That is `TreeInv`: a sink's
  stream is in the tree with its header complete, a context in the tree is not marked
  for destruction, and only streams with a sink have a window waiter. `GrantFlow`
  carries the argument for one turn of `on_write_window_ready`: what is sent is at most
  either window, and a writer is left waiting only if one of them is not positive.
* `ContractKept` maps a stream of `node` to its `send_window` and every other stream to
  no window. A step that moves no window is a stutter (`Kept`), `close` closes every
  window (`KeptCloses`), and `GrantSends` covers WINDOW_UPDATE, SETTINGS, the scan and
  the calls that write: the credit that came and the bytes that went are one step of
  `GrantAndSend`.
* `LifeInv` adds who owns what. `ContextInv`: a context whose sink is gone is the frame
  parser's, and is marked for it or has an incomplete header, so that `Cut` and `close`
  destroy it; `processing` counts the sinks. `WriterInv`: a sleeping writer has its
  event on the stream or in exactly one buffer. `ReaderInv`: a sleeping reader is in the
  tree and not reset. `ClosedInv`: a reset closes the output, so when `close` resets
  every stream nobody is left to wait. The layers need each other: that a reset finds
  no waiter uses `ClosedInv`, that `close` leaves nothing queued uses `ContextInv`.
* `ReadInv` adds lengths. `LengthInv`: a writer that waits asked for no more than
  is left of its response. `RecvInv`: the frame that is being read was taken off a
  window, and `check_recv_window` ran before a reader sleeps. `QueueInv`: without
  trailers `active_queue` is the set of waiters (with trailers it is not, which
  `trailer_queue` shows).

### The streams of a client connection

`Base` says of each context by itself what it looks like between two steps; only the
parser's block and `conn.read_processing` are shared. So there is one lemma per call
and per handler about the context it works on, and the others are left alone.

* `Ordered`: the frames pushed so far against the flags. A frame that ends the stream
  leaves `out_closed` and no pending HEADERS, RST_STREAM closes both sides, and HEADERS
  are pending only before the first frame or for trailers. The frame a call may push
  next then keeps the order of the protocol. Kind `trailer` is the exception to silence
  after RST_STREAM (the departure at `KHttp2Upstream.cpp:49`).
* `Numbered`: a stream has a node exactly from its first frame until its user gives it
  back, and once the connection is not read every stream with a node is closed both
  ways. From it follow the ids, and that nothing is pushed after the last read.
* `Waiting`: the event on the stream is the one its fiber waits for, and a stream that
  is neither reset nor answered has one.
* `Held`: a context given back is kept exactly while the parser is inside its block.
* `Queued`: a stream in `active_queue` has somebody who waits. It is claimed only for
  streams outside `split`, whose `ReadHeader` between two reads of a block queues them a
  second time (the departure at `KHttp2.cpp:958`).

`Answers` relates what the peer has sent on a stream, and what of it is still to be
read, to what the user was told: a final header whose rest has not come is not parsed
yet, has its status, and is not a 100. With one informational code a second header
block is the final one, and what follows it is a trailer. A step that tells
nobody of a field (`Quiet`) keeps it, which settles most actions at once.

### The write buffer

Both theorems rest on `BInv`, whose conjuncts need each other. `Splits` (in `Counted`)
is the core: what was pushed is the wire followed by the bytes of the list, of which the
first `got` are on the wire already. A push appends to both sides, the socket moves bytes
over, a turn of `readSuccess` drops bytes that are out. `Spanned` bounds that turn: the
socket was offered the bytes of whole buffers (`OfferFacts`), so `got` never reaches past
a file, which moves its offset by all of `got`, not by what is its own. `Notes` counts
the buffers a writer is noted on. `Places` says where the last byte of such a buffer is:
it was pushed once, because bytes carry the number of their push, and is on the wire once
the buffer is on the `remove_list`, unless the connection failed. That a buffer with a
writer on it is not empty (`Lively`) is needed there, and holds because a chain ends with
a node that is not.

`SendsAlwaysInOrder`: `owed` is the place of a byte that no step moves (`LastByte` is the
same whether a header is read in part, used up or cleaned), so all of the callback between
the socket and `remove_buff` is a stutter; a push is `Accept`, `SocketTakes` is
`Transmit`, `close(false)` is `Break`, and `clean` is `Complete` or `Fail`.

`BufferAlwaysConsistent` adds `Dense`: files are not empty, nor is the buffer before a
file, nor all of `MaxIov` - 1 buffers in a row; then no iovec is empty. The rest is read
off `BInv`.

The length of a list (`Sums`) and its bytes (`FlattenSeq`) are recursive functions. What
they compute is proved by counting (`NatInSet`): if n were not in a set that holds 0 and
with each number the next, adding 1 would map the set up to n one to one into itself
without 0, which the pigeonhole principle excludes.

### The pool

`PoolInv` says in one place what connections, upstreams and the list have to do with
each other, with these three as parameters. Every operation first sweeps the
list of what has expired and then does something to what is left; so there is one lemma
that a sweep keeps the relation between the three, whatever part of the list goes, and
then one for each operation on a state it holds in. A connection counts exactly
the upstreams on it, so releasing one is a step of a cardinality (`FiniteSetTheorems`);
that an idle upstream of a shared connection is its one admin stream is what makes
`gc` of the last stream leave exactly one upstream behind.

### The monitor and the event

`RefsInv` adds to `MonitorRefs` that the fibers alive are finitely many; nothing bounds
them, because a stop and a start may come while the last fiber still sleeps. `WaitInv`
counts a notice that was given but not yet returned by a `wait` as owed: by the event
that is set, or by the thread it woke. There is at most one of the two because an
event with autoreset has one user, which the code promises and `Init` assumes.

### One HTTP/3 sink

`LifeInv` (of `KHttp3SinkProofs`): a fiber that lives has said so in the flags of its
sink, which is what `on_close` asks before it deletes. With it, lsquic holds no freed
sink and every waiter is registered. `ExactInv` follows the bytes: what is
left of the answer (`content_left`), what the write under way still holds, and what the
peer has got add up to what the header announced, also while a result lies in the
condition and the fiber has not run yet. From it follows that a
clean end comes only after the last byte.

### Only model-checked

All liveness and `ENABLED`, which are out of the prover's reach, as is what a RECURSIVE
operator computes (`KHttpParser`, the codings, the strings of the HPACK ring). So far
also the other refinements (`TablesAgree`, `BufferIsQueue`, `ArrayIsList`) and the
invariants of the remaining modules, from `KHttp2HeaderFrame` to `KXml`.

## 5. Not modelled

* Huffman codes and the static HPACK table: generated data.
* The connection preface, the h2c upgrade, `send_settings`, the joining of cookie
  fields: straight-line code at the start of a connection or after a header.
* `KAutoBuffer`, string helpers, mime types, formatting of answers, logging, traffic
  counters, memory exhaustion other than where a module names it.
* Parsing and dumping the configuration of the pool; TLS configuration; setting up
  the server; the counters and the iteration over sinks of `KSink`.
* `KSendBuffer::pushHead`, `insert` and `KXmlNode::update`, `copy_child_from` have no
  caller. XML attributes, `qname_config`, and unterminated comments are left out of
  `KXml`; a document that ends with elements open gives no root there, as in the code.
* `KTsUpstream` is modelled for multi-stream upstreams, whose selector may differ
  from the caller's.
* Examples. kasync, lsquic, sockets, TLS and the WebDAV server are external and
  modelled by what the code here relies on.

## 6. Plan

1. `HeaderHandedOver` and `NoRace` of `KTsUpstream`: at most one of the two threads is in
   the list.
2. `EnginesCounted` of `KHttp3Server` and `OneOwner` of `KPreRequest`.
3. The refinements of `KAutoArray` and, with the lemmas on sums and concatenations of
   `KHttp2WriteBufferProofs`, of `KSendBuffer`.
