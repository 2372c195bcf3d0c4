---------------------------- MODULE KHttp3Sink ----------------------------
(***************************************************************************)
(* One HTTP/3 request: its lsquic stream, the KHttp3Sink the stream points *)
(* to, and the fiber that runs the handler (KHttp3Sink.h, KHttp3Sink.cpp,  *)
(* the stream callbacks of KHttp3.cpp).  lsquic calls on_read, on_write    *)
(* and on_close on the thread of the engine; the fiber runs on the same    *)
(* thread and yields only where it waits on a condition, so every step     *)
(* between two waits is one action.  Assertions are not part of the steps: *)
(* they are the properties.  The library is external: what it may return   *)
(* is Faults.                                                              *)
(***************************************************************************)
EXTENDS Integers, FiniteSets

CONSTANTS
    MaxBody,    \* bytes of the longest request body
    Sizes,      \* the body sizes handlers announce; -1 is "unknown"
    MaxAsk,     \* bytes of the longest write
    BufCount,   \* KGL_RQ_WRITE_BUF_COUNT, buffers handed over in one write
    Expects,    \* whether the request says Expect: 100-continue
    Kinds,      \* which write_all handlers use: "str", "buf"
    Faults,     \* what fails: "close" the stream goes, "error" an operation, "refuse" a want
    MaxCalls    \* calls a handler makes on the sink

\* What is assumed of the constants.
BoundsAssumption ==
    /\ MaxBody \in Nat /\ MaxAsk \in Nat \ {0} /\ MaxCalls \in Nat
    /\ BufCount \in Nat \ {0}
    /\ Sizes \subseteq Int /\ Expects \subseteq BOOLEAN
    /\ Kinds \subseteq {"str", "buf"} /\ Faults \subseteq {"close", "error", "refuse"}

VARIABLES
    stream,     \* the lsquic stream: whether it has the sink as its context, what it
                \* wants to be called for, body bytes under way and arrived, and its end
    sink,       \* KHttp3Sink: st # NULL, st_flags, content_left, and whether it exists
    pc,         \* where the fiber is: not created, running, waiting in an operation, gone
    notice,     \* what ev[OP_READ].cd and ev[OP_WRITE].cd hold, None when not noticed
    w,          \* the write_all in progress, and what the last one returned
    rq,         \* the request as the handler and KSink see it
    peer        \* what reached the client: answers, bytes, the announced size, the end

vars == <<stream, sink, pc, notice, w, rq, peer>>

None == -2        \* a condition nobody has noticed; results are -1 and up
NoWrite == [kind |-> "str", length |-> 0, hot |-> 0, ask |-> 0, done |-> 0, ret |-> 0]

\* http_server_on_new_stream: the sink is made, and waits for the headers.
Init ==
    /\ \E n \in 0..MaxBody:
          stream = [ctx |-> TRUE, want |-> {"read"}, coming |-> n, arrived |-> 0, open |-> TRUE]
    /\ sink = [alive |-> TRUE, st |-> FALSE, flags |-> {}, left |-> 0]
    /\ pc = "none"
    /\ notice = [read |-> None, write |-> None]
    /\ w = NoWrite
    /\ \E e \in Expects: rq = [expect |-> e, started |-> FALSE, failed |-> FALSE, calls |-> 0]
    /\ peer = [heads |-> 0, bytes |-> 0, size |-> -1, end |-> "no"]

----------------------------------------------------------------------------
\* The stream and its callbacks.

Called(op) == stream.open /\ stream.ctx /\ op \in stream.want

\* A piece of the request body comes in.
Arrive ==
    /\ stream.open /\ stream.coming > 0
    /\ stream' = [stream EXCEPT !.coming = @ - 1, !.arrived = @ + 1]
    /\ UNCHANGED <<sink, pc, notice, w, rq, peer>>

\* on_read the first time: the headers are there, the fiber is created.
OnHeaders ==
    /\ Called("read") /\ ~sink.st
    /\ stream' = [stream EXCEPT !.want = @ \ {"read"}]
    /\ sink' = [sink EXCEPT !.st = TRUE, !.flags = @ \cup {"RREADY", "PROCESSING"}]
    /\ pc' = "run"
    /\ UNCHANGED <<notice, w, rq, peer>>

\* lsquic_stream_readv: some of what has arrived, 0 at the end of the body, -1 when
\* there is nothing yet.
ReadvResults ==
    (IF stream.arrived > 0 THEN 1..stream.arrived
     ELSE IF stream.coming = 0 THEN {0} ELSE {-1})
    \cup (IF "error" \in Faults THEN {-1} ELSE {})

Taken(got) == IF got > 0 THEN got ELSE 0

DeliverMute(got, nt) ==
    /\ stream' = [stream EXCEPT !.want = @ \ {"read"}, !.arrived = @ - Taken(got)]
    /\ notice' = [nt EXCEPT !.read = IF got < 0 THEN @ ELSE got]

\* on_read for a body read: the result goes to the fiber.
Deliver(got, nt) ==
    /\ stream' = [stream EXCEPT !.want = @ \ {"read"}, !.arrived = @ - Taken(got)]
    /\ notice' = [nt EXCEPT !.read = got]

OnRead ==
    /\ Called("read") /\ sink.st
    /\ stream.arrived > 0 \/ stream.coming = 0
    /\ \E got \in ReadvResults: Deliver(got, notice)
    /\ sink' = [sink EXCEPT !.flags = @ \ {"RREADY", "READ"}]
    /\ UNCHANGED <<pc, w, rq, peer>>

\* on_write: the first call sends the response headers, the others the data.
OnWrite ==
    /\ Called("write") /\ "WRITE" \in sink.flags
    /\ stream' = [stream EXCEPT !.want = @ \ {"write"}]
    /\ IF "HEADER_SENT" \notin sink.flags
       THEN \E got \in {0} \cup (IF "error" \in Faults THEN {-1} ELSE {}):
               /\ sink' = [sink EXCEPT !.flags = (@ \ {"WRITE"}) \cup {"HEADER_SENT"}]
               /\ notice' = [notice EXCEPT !.write = got]
               /\ peer' = [peer EXCEPT !.heads = @ + 1 + got]
       ELSE \E got \in 1..w.hot \cup (IF "error" \in Faults THEN {-1} ELSE {}):
               /\ sink' = [sink EXCEPT !.flags = @ \ {"WRITE"}]
               /\ notice' = [notice EXCEPT !.write = got]
               /\ peer' = [peer EXCEPT !.bytes = @ + Taken(got)]
    /\ UNCHANGED <<pc, w, rq>>

\* http_server_on_close: a sink in use is detached, one without a request deleted.
CloseSink ==
    IF ~stream.ctx THEN sink
    ELSE IF "PROCESSING" \in sink.flags THEN [sink EXCEPT !.st = FALSE]
    ELSE [sink EXCEPT !.alive = FALSE]

OnClose ==
    /\ stream.open
    /\ "close" \in Faults \/ peer.end # "no"
    /\ stream' = [stream EXCEPT !.open = FALSE, !.ctx = FALSE, !.want = {}]
    /\ sink' = CloseSink
    /\ UNCHANGED <<pc, notice, w, rq, peer>>

----------------------------------------------------------------------------
\* The handler's calls, by the fiber.

Running == pc = "run"
Call == Running /\ rq.calls < MaxCalls
Calling == [rq EXCEPT !.calls = @ + 1]

\* lsquic_stream_wantread or _wantwrite: the fiber waits, or the stream refuses.  sk is
\* the sink, nt what the conditions hold, at this point of the step.
Want(op, waits, sk, nt) ==
    /\ notice' = nt
    /\ \/ /\ stream' = [stream EXCEPT !.want = @ \cup {op}]
          /\ pc' = waits
          /\ sink' = [sk EXCEPT !.flags = @ \cup {IF op = "read" THEN "READ" ELSE "WRITE"}]
       \/ "refuse" \in Faults /\ pc' = "run" /\ sink' = sk /\ UNCHANGED stream

\* internal_start_response_body has an early return.
CannotStart == ~sink.st \/ "HEADER_SENT" \in sink.flags

\* internal_start_response_body: content_left is set before the stream is asked.
StartHead(size) ==
    \/ ~CannotStart /\ Want("write", "head", [sink EXCEPT !.left = size], notice)
    \/ CannotStart /\ pc' = "run" /\ UNCHANGED <<stream, sink, notice>>

\* internal_read: what made the stream readable is taken at once, by on_read called
\* from here.
InternalRead(sk, nt) ==
    \/ ~sk.st /\ pc' = "run" /\ sink' = sk /\ notice' = nt /\ UNCHANGED stream
    \/ /\ sk.st /\ "RREADY" \in sk.flags
       /\ \E got \in ReadvResults: Deliver(got, nt)
       /\ sink' = [sk EXCEPT !.flags = (@ \ {"RREADY"}) \cup {"READ"}]
       /\ pc' = "read"
    \/ sk.st /\ "RREADY" \notin sk.flags /\ Want("read", "read", sk, nt)

\* response_100_continue: the same start of a response, of size 0; its failure is not
\* looked at.
Continue ==
    LET sk == [sink EXCEPT !.left = 0] IN
    \/ /\ ~CannotStart
       /\ stream' = [stream EXCEPT !.want = @ \cup {"write"}]
       /\ pc' = "continue"
       /\ sink' = [sk EXCEPT !.flags = @ \cup {"WRITE"}]
       /\ UNCHANGED notice
    \/ ~CannotStart /\ "refuse" \in Faults /\ InternalRead(sk, notice)
    \/ CannotStart /\ InternalRead(sink, notice)

\* KSink::read: an announced expectation is answered first.
Read ==
    /\ Call
    /\ rq' = [Calling EXCEPT !.expect = FALSE]
    /\ IF rq.expect THEN Continue ELSE InternalRead(sink, notice)
    /\ UNCHANGED <<w, peer>>

\* KSink::start_response_body.
StartResponse ==
    /\ Call /\ ~rq.started
    /\ \E size \in Sizes: StartHead(size) /\ peer' = [peer EXCEPT !.size = size]
    /\ rq' = [Calling EXCEPT !.started = TRUE, !.failed = pc' = "run"]
    /\ UNCHANGED w

\* The iovecs write_all fills next: one for a string, BufCount of the list's (each of
\* one byte here) for a kbuf list, whose bytes leave length at once.
NextHot(kind, length) == IF kind = "str" \/ length < BufCount THEN length ELSE BufCount
Prepared(x) ==
    LET hot == NextHot(x.kind, x.length)
    IN  [x EXCEPT !.hot = hot, !.length = IF x.kind = "buf" THEN @ - hot ELSE @]

\* write_all returns.
Return(x, ret) == [x EXCEPT !.hot = 0, !.length = 0, !.ret = ret]

\* internal_write of the iovecs of x.
InternalWrite(x, sk, nt) ==
    \/ /\ sk.st /\ Want("write", "write", sk, nt)
       /\ w' = IF pc' = "write" THEN x ELSE Return(x, x.length)
    \/ /\ ~sk.st /\ pc' = "run" /\ w' = Return(x, x.length)
       /\ sink' = sk /\ notice' = nt /\ UNCHANGED stream

\* write_all, called by a handler that has started its answer, within the size announced.
WriteAll ==
    /\ Call /\ rq.started /\ ~rq.failed
    /\ \E n \in 1..MaxAsk, kind \in Kinds:
          /\ peer.size < 0 \/ peer.bytes + n <= peer.size
          /\ InternalWrite(Prepared([kind |-> kind, length |-> n, hot |-> 0, ask |-> n,
                                     done |-> 0, ret |-> 0]), sink, notice)
    /\ rq' = [Calling EXCEPT !.failed = pc' = "run"]
    /\ UNCHANGED peer

\* The fiber wakes in internal_read.
ReadDone ==
    /\ pc = "read" /\ notice.read # None
    /\ pc' = "run"
    /\ notice' = [notice EXCEPT !.read = None]
    /\ UNCHANGED <<stream, sink, w, rq, peer>>

\* It wakes in response_100_continue and goes on to read the body.
ContinueDone ==
    /\ pc = "continue" /\ notice.write # None
    /\ InternalRead(sink, [notice EXCEPT !.write = None])
    /\ UNCHANGED <<w, rq, peer>>

\* It wakes in internal_start_response_body.
HeadDone ==
    /\ pc = "head" /\ notice.write # None
    /\ notice' = [notice EXCEPT !.write = None]
    /\ rq' = [rq EXCEPT !.failed = notice.write < 0]
    /\ pc' = "run"
    /\ UNCHANGED <<stream, sink, w, peer>>

AccountedAll(got) == IF sink.left > 0 THEN sink.left - w.hot ELSE sink.left

\* internal_write accounts for what was written, an error's -1 too.
Accounted(got) == IF sink.left > 0 THEN sink.left - got ELSE sink.left

\* It wakes in internal_write: write_all goes on with what is left, or returns.
WriteDone ==
    /\ pc = "write" /\ notice.write # None
    /\ LET got  == notice.write
           x    == [w EXCEPT !.length = @ - got, !.hot = @ - got, !.done = @ + got]
           sk   == [sink EXCEPT !.left = Accounted(got)]
           nt   == [notice EXCEPT !.write = None]
       IN  IF got > 0 /\ (x.hot > 0 \/ x.length > 0)
           THEN InternalWrite(IF x.hot > 0 THEN x ELSE Prepared(x), sk, nt)
           ELSE /\ w' = IF got > 0 THEN Return(x, 0) ELSE Return(w, w.length)
                /\ pc' = "run" /\ sink' = sk /\ notice' = nt
                /\ UNCHANGED stream
    /\ rq' = [rq EXCEPT !.failed = pc' = "run" /\ (w'.ret # 0 \/ notice.write < 0)]
    /\ UNCHANGED peer

\* ~KHttp3Sink: how the stream ends for the client.
EndOf == IF sink.left > 0 THEN "reset" ELSE "fin"

\* ~KHttp3Sink: the stream forgets the sink.
Detached == [stream EXCEPT !.ctx = FALSE]

\* The handler is done, at any point of its answer; the fiber deletes the sink.
End ==
    /\ Running
    /\ pc' = "done"
    /\ IF sink.st
       THEN stream' = Detached /\ peer' = [peer EXCEPT !.end = EndOf]
       ELSE UNCHANGED <<stream, peer>>
    /\ sink' = [sink EXCEPT !.alive = FALSE, !.flags = @ \ {"PROCESSING"}]
    /\ UNCHANGED <<notice, w, rq>>

Handler == Read \/ StartResponse \/ WriteAll \/ End
Resume == ReadDone \/ ContinueDone \/ HeadDone \/ WriteDone
Callback == OnHeaders \/ OnRead \/ OnWrite
Next == Arrive \/ Callback \/ OnClose \/ Handler \/ Resume

Spec == Init /\ [][Next]_vars
\* lsquic goes on calling for what is wanted, and the selector runs the fiber.
FairSpec == Spec /\ WF_vars(Arrive) /\ WF_vars(Callback) /\ WF_vars(Handler) /\ WF_vars(Resume)

----------------------------------------------------------------------------
\* lsquic never holds a sink that is gone: the destructor takes the sink out of the
\* stream before it closes it, and on_close deletes only a sink with no fiber
\* (KHttp3Sink.h ~KHttp3Sink, KHttp3.cpp http_server_on_close).
NoFreedSink == stream.ctx => sink.alive

\* A sink whose fiber lives is not deleted, by on_close either (is_processing).
FiberHasSink == pc \notin {"none", "done"} => sink.alive

\* A fiber that waits is one lsquic will call back, as long as the stream is there: the
\* wish is registered, or the answer is already in the condition.
WaiterRegistered ==
    stream.ctx =>
        /\ pc = "read" => "read" \in stream.want \/ notice.read # None
        /\ pc \in {"head", "continue", "write"} => "write" \in stream.want \/ notice.write # None

\* The client is never shown a clean end of an answer of known size that is not all
\* there: the destructor resets the stream while content_left > 0.
CompleteOrReset ==
    peer.end = "fin" /\ rq.started /\ peer.size >= 0 => peer.bytes = peer.size

\* KSink.h: write_all "if failed return left byte to send. if return 0 will all
\* success."
WriteAllTruth == pc = "run" /\ w.ret = 0 => w.done = w.ask

\* The lifetimes: lsquic holds no sink that is gone, no fiber lives without its sink,
\* and none waits for what nobody will tell it while the stream is there.
SinkAlive == NoFreedSink /\ FiberHasSink /\ WaiterRegistered

\* All of what a sink and its stream owe each other, in whatever order they end.
SinkAndStream == SinkAlive /\ CompleteOrReset /\ WriteAllTruth

\* KHttp3Sink.h says internal_start_response_body returns the header length, or -1 on an
\* error: it returns, when the stream goes while it waits too.
HeadReturns == (pc = "head") ~> (pc # "head")

\* on_read asserts STF_READ for every read that is not the first.
ReadAsserted == [][notice.read = None /\ notice'.read # None => "READ" \in sink.flags]_vars

\* internal_start_response_body asserts that no header was sent before.
HeadAsserted == [][~rq.started /\ rq'.started => "HEADER_SENT" \notin sink.flags]_vars
============================================================================
