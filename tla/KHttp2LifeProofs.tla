-------------------------- MODULE KHttp2LifeProofs --------------------------
(***************************************************************************)
(* Who waits and what lives on an HTTP/2 connection, its receiving side,   *)
(* its timeouts and the length of its responses: NoLostWriter, Lifetimes,  *)
(* RecvWindow, WaitersReached and EndMatchesLength are invariants of       *)
(* KHttp2 for every set of streams, all sizes and every kind of frame.     *)
(*                                                                         *)
(* The invariant comes in layers, each proved from the ones before.        *)
(* ContextInv says which contexts are allocated and that processing counts *)
(* the sinks, WriterInv who waits for a write, ReaderInv who waits to      *)
(* read, and ClosedInv what a closed half rules out; together LifeInv.  On *)
(* these rest RecvInv, which bounds what a stream holds, counting the      *)
(* bytes of the frame that is being read, LengthInv, how much of a         *)
(* response a waiting writer may still send, and QueueInv, who is linked   *)
(* in active_queue.  In each layer most actions are quiet, and the proof   *)
(* is about the others.                                                    *)
(***************************************************************************)
EXTENDS KHttp2Proofs, FiniteSetTheorems

USE DEF lifeVars, goVars, outVars, queueVars, parseVars, treeVars,
        readWaitVars, writeWaitVars, NoStream, NoCtx

-----------------------------------------------------------------------------
(* Who waits and what lives: the shapes of a step.                         *)

\* The flags the invariants of this module speak of.
Told(s) == flag[s] \cap {"in_closed", "out_closed", "rst", "parsed_header",
                         "destroy_by_http2", "responded"}

\* Nothing is taken off the write buffer, control frames may join it.
OnlyQueues ==
  /\ write_buffer' \in {write_buffer, WithControl(write_buffer)}
  /\ write_processing => write_processing'

\* The same contexts, the same sinks, the parser where it is.
SameStreams ==
  /\ UNCHANGED <<deleted, closed, read_processing, processing, ctx, node, live,
                 stream, handler, length>>
  /\ deleted => scan' \subseteq scan

\* Nobody is put to sleep or woken; only a stream that was reset leaves
\* active_queue, and only the window or the timeout of a stream may change.
IdleStep ==
  /\ SameStreams /\ OnlyQueues
  /\ UNCHANGED <<readWaitVars, writeWaitVars>>
  /\ queue' \subseteq queue /\ \A s \in queue \ queue' : Has(s, "rst")
  /\ \A s \in Streams :
       /\ Told(s)' = Told(s)
       /\ num'[s].recv_window = num[s].recv_window
       /\ num'[s].buffered = num[s].buffered
       /\ num'[s].content_left = num[s].content_left
       /\ num'[s].wait_len = num[s].wait_len

\* One stream is cut; what it had received may be dropped.
CutStep(s) ==
  /\ SameStreams /\ OnlyQueues /\ ~deleted
  /\ Cut({s})
  /\ \A x \in Streams :
       /\ num'[x].recv_window <= num[x].recv_window
       /\ num'[x].buffered <= num[x].buffered
       /\ num'[x].content_left = num[x].content_left
       /\ num'[x].wait_len = num[x].wait_len
       /\ x # s => num'[x] = num[x]

\* A writer asks for window: one that waits, or one that calls write.
GrantStep(s, sw, blen, file) ==
  /\ SameStreams /\ s \in live /\ sw <= MaxWindow
  /\ on_write_window_ready(s, sw, blen, file)
  /\ \/ /\ write_wait[s] = "WINDOW" /\ blen = num[s].wait_len
        /\ UNCHANGED wsleep
     \/ /\ ~deleted /\ s \notin wsleep /\ ~IsWriteClosed(s) /\ Has(s, "responded")
        /\ num[s].content_left > 0 => blen <= num[s].content_left
        /\ wsleep' = wsleep \cup {s}
  /\ UNCHANGED readWaitVars

\* A readhup callback is set or taken back.
HupStep(s, kind) ==
  /\ SameStreams /\ ~deleted
  /\ s \in live
  /\ s \notin wsleep \/ write_wait[s] \in {"none", "HUP"}
  /\ write_wait' = [write_wait EXCEPT ![s] = kind]
  /\ UNCHANGED <<wsleep, readWaitVars, queue, flag, num, outVars>>

\* The connection is closed.
CloseStep(read) == close(read) /\ ~deleted /\ scan = {}

\* Everything a step can be.
Shapes ==
  \/ IdleStep
  \/ \E s \in Streams : CutStep(s)
  \/ \E s \in Streams, sw \in Int, blen \in Nat, file \in BOOLEAN : GrantStep(s, sw, blen, file)
  \/ \E s \in Streams, kind \in {"none", "HUP"} : HupStep(s, kind)
  \/ \E read \in BOOLEAN : CloseStep(read)
  \/ \E s \in Streams, f, w \in BOOLEAN : NewHeaders(s, f, w)
  \/ NewHeadersComplete
  \/ \E s \in Streams, f, w \in BOOLEAN : Trailers(s, f, w)
  \/ TrailersComplete
  \/ \E s \in Streams, L \in DataLens, f, pad \in BOOLEAN, rl \in ReadLens :
       \E n \in 0..L : Data(s, L, f, pad, n, rl)
  \/ \E n \in 1..length, rl \in ReadLens : DataGoesOn(n, rl)
  \/ SkipComplete
  \/ \E n \in 1..Len(write_buffer) : WriteDone(n)
  \/ \E s \in Streams, rl \in ReadLens : Read(s, rl)
  \/ \E s \in Streams, b \in BodySizes : StartResponse(s, b)
  \/ \E s \in Streams, e \in BOOLEAN : Finish(s, e)

\* KHttp2WriteBuffer::push only queues.
LEMMA PushQueues ==
  ASSUME NEW pushed, NEW start, Push(pushed, start) \/ UNCHANGED outVars
  PROVE  OnlyQueues
  <1>1. write_buffer' \in {write_buffer, WithControl(write_buffer)} BY DEF Push
  <1>2. CASE Push(pushed, start)
    <2>1. write_processing => write_processing' BY <1>2 DEF Push
    <2> QED BY <1>1, <2>1 DEF OnlyQueues
  <1>3. CASE UNCHANGED outVars
    <2>1. write_processing' = write_processing BY <1>3
    <2>2. write_processing => write_processing' BY <2>1
    <2> QED BY <1>1, <2>2 DEF OnlyQueues
  <1> QED BY <1>2, <1>3

\* The frames handled at once.
LEMMA ControlShapes ==
  ASSUME FlowInv, ControlFrames
  PROVE  Shapes
  <1>0. /\ flag \in [Streams -> SUBSET Flags] /\ num \in [Streams -> StreamNum]
    BY DEF FlowInv, TypeOK, FlagType, NumType
  <1>1. ASSUME NEW s \in Streams, RstStream(s)
        PROVE  Shapes
    <2>1. CutStep(s)
      BY <1>0, <1>1 DEF RstStream, FrameStart, Readable, CutStep, SameStreams, OnlyQueues, StreamNum
    <2> QED BY <2>1 DEF Shapes
  <1>2. ASSUME NEW s \in Streams, NEW w \in Increments, WindowUpdate(s, w)
        PROVE  Shapes
    <2> DEFINE sw == num[s].send_window + w
    <2>1. num[s].send_window \in Int /\ num[s].wait_len \in Nat /\ w \in Nat
      BY <1>0, SizesAssumption DEF StreamNum
    <2>2. SameStreams /\ ~deleted
      BY <1>2 DEF WindowUpdate, FrameStart, Readable, SameStreams
    <2>3. CASE terminate_stream(s) /\ UNCHANGED num
      <3>1. CutStep(s)
        BY <1>0, <2>2, <2>3, PushQueues DEF CutStep, terminate_stream, StreamNum
      <3> QED BY <3>1 DEF Shapes
    <2>4. CASE /\ write_wait[s] = "WINDOW" /\ w <= MaxWindow - num[s].send_window
               /\ on_write_window_ready(s, sw, num[s].wait_len, Has(s, "sendfile"))
               /\ UNCHANGED <<wsleep, readWaitVars>>
      <3>1. sw \in Int /\ sw <= MaxWindow BY <2>1, <2>4, WindowsAssumption
      <3>2. s \in live BY <2>4 DEF FlowInv, TreeInv, Waits
      <3>3. Has(s, "sendfile") \in BOOLEAN BY DEF Has
      <3> HIDE DEF sw
      <3>4. GrantStep(s, sw, num[s].wait_len, Has(s, "sendfile"))
        BY <2>2, <2>4, <3>1, <3>2 DEF GrantStep
      <3> QED BY <2>1, <3>1, <3>3, <3>4 DEF Shapes
    <2>5. CASE /\ num' = [num EXCEPT ![s].send_window = sw]
               /\ UNCHANGED <<flag, outVars, queueVars, readWaitVars, writeWaitVars>>
      <3>1. IdleStep
        BY <1>0, <2>2, <2>5 DEF IdleStep, OnlyQueues, Told, StreamNum
      <3> QED BY <3>1 DEF Shapes
    <2> QED BY <1>2, <2>3, <2>4, <2>5 DEF WindowUpdate
  <1>3. ASSUME NEW v \in InitWindows, SettingsWindow(v)
        PROVE  Shapes
    <2>1. IdleStep
      BY <1>0, <1>3 DEF SettingsWindow, FrameStart, Readable, Push, IdleStep, SameStreams,
         OnlyQueues, Told, StreamNum
    <2> QED BY <2>1 DEF Shapes
  <1>4. CASE \/ \E w \in Increments : ConnWindowUpdate(w)
             \/ \E v \in FrameSizes : SettingsFrameSize(v)
             \/ PingFrame \/ GoawayFrame \/ IdleFrame
    <2>0. OnlyQueues
      <3>1. Push(TRUE, TRUE) \/ UNCHANGED outVars
        BY <1>4 DEF ConnWindowUpdate, SettingsFrameSize, PingFrame, GoawayFrame, IdleFrame
      <3> QED BY <3>1, PushQueues
    <2>1. UNCHANGED <<lifeVars, ctx, node, live, stream, handler, length, queue,
                      readWaitVars, writeWaitVars, flag, num>> /\ ~deleted
      BY <1>4 DEF ConnWindowUpdate, SettingsFrameSize, PingFrame, GoawayFrame,
         IdleFrame, FrameStart, Readable
    <2>2. IdleStep BY <2>0, <2>1 DEF IdleStep, SameStreams, Told
    <2> QED BY <2>2 DEF Shapes
  <1> QED BY <1>1, <1>2, <1>3, <1>4 DEF ControlFrames

\* Every step of the read callback.
LEMMA ReadSideShapes ==
  ASSUME FlowInv, ReadSide
  PROVE  Shapes
  <1>0. /\ flag \in [Streams -> SUBSET Flags] /\ num \in [Streams -> StreamNum]
    BY DEF FlowInv, TypeOK, FlagType, NumType
  <1>1. CASE HeaderFrames
    <2>1. CASE \E s \in Streams, d \in BOOLEAN : RefusedHeaders(s, d)
      <3>1. IdleStep
        BY <2>1 DEF RefusedHeaders, FrameStart, Readable, Push, IdleStep, SameStreams,
           OnlyQueues, Told
      <3> QED BY <3>1 DEF Shapes
    <2> QED BY <1>1, <2>1 DEF HeaderFrames, Shapes
  <1>2. CASE DataFrames
    <2>1. ASSUME NEW L \in DataLens, DataOverrun(L) PROVE Shapes
      <3>1. CloseStep(TRUE) BY <2>1 DEF DataOverrun, FrameStart, Readable, CloseStep
      <3> QED BY <3>1 DEF Shapes
    <2>2. CASE \E s \in Streams, L \in DataLens : DataUnknown(s, L)
      <3>1. IdleStep
        BY <2>2 DEF DataUnknown, FrameStart, Readable, Push, IdleStep, SameStreams,
           OnlyQueues, Told
      <3> QED BY <3>1 DEF Shapes
    <2>3. ASSUME NEW s \in Streams, NEW L \in DataLens, DataRefused(s, L) PROVE Shapes
      <3>1. L \in Nat BY SizesAssumption
      <3>2. \A x \in Streams :
              /\ num'[x].recv_window <= num[x].recv_window
              /\ num'[x].buffered = num[x].buffered
              /\ num'[x].content_left = num[x].content_left
              /\ num'[x].wait_len = num[x].wait_len
              /\ x # s => num'[x] = num[x]
        BY <1>0, <2>3, <3>1, WindowsAssumption DEF DataRefused, StreamNum
      <3>3. CutStep(s)
        BY <1>0, <2>3, <3>2, PushQueues DEF DataRefused, FrameStart, Readable, CutStep,
           SameStreams, StreamNum
      <3> QED BY <3>3 DEF Shapes
    <2> QED BY <1>2, <2>1, <2>2, <2>3 DEF DataFrames, Shapes
  <1>3. CASE ControlFrames BY <1>3, ControlShapes
  <1>4. ASSUME NEW s \in Streams, check_stream_timeout(s)
        PROVE  Shapes
    <2>1. SameStreams /\ UNCHANGED num /\ ~deleted
      BY <1>4 DEF check_stream_timeout, Readable, SameStreams
    <2>2. CASE terminate_stream(s)
      <3>1. CutStep(s)
        BY <1>0, <2>1, <2>2, PushQueues DEF CutStep, terminate_stream, StreamNum
      <3> QED BY <3>1 DEF Shapes
    <2>3. CASE ~terminate_stream(s)
      <3>1. IdleStep
        BY <1>4, <2>1, <2>3 DEF check_stream_timeout, RemoveQueue, IdleStep, OnlyQueues, Told
      <3> QED BY <3>1 DEF Shapes
    <2> QED BY <2>2, <2>3
  <1>5. ASSUME NEW s \in Streams, check_write_wait(s)
        PROVE  Shapes
    <2>1. SameStreams /\ UNCHANGED <<wsleep, readWaitVars>>
      BY <1>5 DEF check_write_wait, SameStreams
    <2>2. CASE on_write_window_ready(s, num[s].send_window, num[s].wait_len, Has(s, "sendfile"))
               /\ write_wait[s] = "WINDOW"
      <3>1. /\ num[s].send_window \in Int /\ num[s].wait_len \in Nat
            /\ num[s].send_window <= MaxWindow
        BY <1>0 DEF FlowInv, StreamNum, WindowsInRange
      <3>2. s \in live BY <2>2 DEF FlowInv, TreeInv, Waits
      <3>3. Has(s, "sendfile") \in BOOLEAN BY DEF Has
      <3>4. GrantStep(s, num[s].send_window, num[s].wait_len, Has(s, "sendfile"))
        BY <2>1, <2>2, <3>1, <3>2 DEF GrantStep
      <3> QED BY <3>1, <3>3, <3>4 DEF Shapes
    <2>3. CASE UNCHANGED <<flag, num, outVars, queueVars, write_wait>>
      <3>1. IdleStep BY <2>1, <2>3 DEF IdleStep, OnlyQueues, Told
      <3> QED BY <3>1 DEF Shapes
    <2> QED BY <1>5, <2>2, <2>3 DEF check_write_wait
  <1>6. ASSUME NEW idle \in BOOLEAN, StartRead(idle)
        PROVE  Shapes
    <2>1. CASE close(TRUE)
      <3>1. CloseStep(TRUE) BY <1>6, <2>1 DEF StartRead, Readable, CloseStep
      <3> QED BY <3>1 DEF Shapes
    <2>2. CASE ~close(TRUE)
      <3>1. IdleStep
        BY <1>6, <2>2 DEF StartRead, Push, Readable, IdleStep, SameStreams, OnlyQueues, Told
      <3> QED BY <3>1 DEF Shapes
    <2> QED BY <2>1, <2>2
  <1>7. CASE ReadTimeoutPing \/ ReadTimeoutShutdown
    <2>0. OnlyQueues
      <3>1. Push(TRUE, TRUE) \/ UNCHANGED outVars
        BY <1>7 DEF ReadTimeoutPing, ReadTimeoutShutdown
      <3> QED BY <3>1, PushQueues
    <2>1. UNCHANGED <<deleted, closed, read_processing, processing, ctx, node, live,
                      stream, handler, length, queue, readWaitVars, writeWaitVars,
                      flag, num>> /\ ~deleted
      BY <1>7 DEF ReadTimeoutPing, ReadTimeoutShutdown, Readable
    <2>2. IdleStep BY <2>0, <2>1 DEF IdleStep, SameStreams, Told
    <2> QED BY <2>2 DEF Shapes
  <1>8. CASE ReadError
    <2>1. CloseStep(TRUE) BY <1>8 DEF ReadError, Readable, CloseStep
    <2> QED BY <2>1 DEF Shapes
  <1> QED BY <1>1, <1>2, <1>3, <1>4, <1>5, <1>6, <1>7, <1>8 DEF ReadSide

\* Every call of a request fiber.
LEMMA FiberShapes ==
  ASSUME FlowInv, NEW s \in Streams, Fiber(s)
  PROVE  Shapes
  <1>0. /\ flag \in [Streams -> SUBSET Flags] /\ num \in [Streams -> StreamNum]
    BY DEF FlowInv, TypeOK, FlagType, NumType
  <1>1. CASE AddHeader(s) \/ Continue100(s) \/ ResponseTrailer(s)
    <2>1. SameStreams /\ UNCHANGED <<num, queue, readWaitVars, writeWaitVars>> /\ OnlyQueues
      <3>1. OnlyQueues
        BY <1>1, PushQueues DEF AddHeader, Continue100, ResponseTrailer, OnlyQueues
      <3> QED
        BY <1>1, <3>1 DEF AddHeader, Continue100, ResponseTrailer, Running, SameStreams
    <2>2. flag'[s] \ {"send_header", "write_trailer"} = flag[s] \ {"send_header", "write_trailer"}
      BY <1>0, <1>1 DEF AddHeader, Continue100, ResponseTrailer
    <2>3. \A x \in Streams \ {s} : flag'[x] = flag[x]
      BY <1>0, <1>1 DEF AddHeader, Continue100, ResponseTrailer
    <2>4. \A x \in Streams : Told(x)' = Told(x) BY <2>2, <2>3 DEF Told
    <2>5. IdleStep BY <2>1, <2>4 DEF IdleStep
    <2> QED BY <2>5 DEF Shapes
  <1>2. ASSUME NEW n \in WriteLens, NEW file \in BOOLEAN, Transmit(s, n, file),
               \E op \in SinkOps : Running(s, op)
        PROVE  Shapes
    <2>1. SameStreams /\ s \in live /\ ~deleted /\ s \notin wsleep /\ UNCHANGED readWaitVars
      BY <1>2 DEF Transmit, Running, SameStreams, MayWrite
    <2>2. CASE IsWriteClosed(s)
      <3>1. HupStep(s, "none") BY <1>2, <2>1, <2>2 DEF Transmit, HupStep
      <3> QED BY <3>1 DEF Shapes
    <2>3. CASE ~IsWriteClosed(s)
      <3>1. on_write_window_ready(s, num[s].send_window, n, file) /\ wsleep' = wsleep \cup {s}
            /\ Has(s, "responded") /\ (num[s].content_left > 0 => n <= num[s].content_left)
        BY <1>2, <2>3 DEF Transmit
      <3>2. num[s].send_window \in Int BY <1>0 DEF StreamNum
      <3>3. num[s].send_window <= MaxWindow BY DEF FlowInv, WindowsInRange
      <3>4. n \in Nat BY SizesAssumption
      <3>5. GrantStep(s, num[s].send_window, n, file)
        BY <2>1, <2>3, <3>1, <3>3 DEF GrantStep
      <3> QED BY <3>2, <3>4, <3>5 DEF Shapes
    <2> QED BY <2>2, <2>3
  <1>3. CASE ReadHup(s) \/ RemoveReadHup(s)
    <2>1. HupStep(s, "HUP") \/ HupStep(s, "none")
      BY <1>3 DEF ReadHup, RemoveReadHup, Running, HupStep, SameStreams
    <2> QED BY <2>1 DEF Shapes
  <1>4. CASE Shutdown(s)
    <2>1. SameStreams /\ UNCHANGED num /\ ~deleted /\ shutdown(s)
      BY <1>4 DEF Shutdown, Running, SameStreams
    <2>2. CASE terminate_stream(s)
      <3>1. CutStep(s)
        BY <1>0, <2>1, <2>2, PushQueues DEF CutStep, terminate_stream, StreamNum
      <3> QED BY <3>1 DEF Shapes
    <2>3. CASE ~terminate_stream(s)
      <3>1. IdleStep BY <2>1, <2>3 DEF shutdown, IdleStep, OnlyQueues, Told
      <3> QED BY <3>1 DEF Shapes
    <2> QED BY <2>2, <2>3
  <1>5. ASSUME NEW n \in TimeoutCounts, SetTimeOut(s, n)
        PROVE  Shapes
    <2>1. IdleStep
      BY <1>0, <1>5 DEF SetTimeOut, Running, IdleStep, SameStreams, OnlyQueues, Told, StreamNum
    <2> QED BY <2>1 DEF Shapes
  <1>6. CASE \/ \E rl \in ReadLens : Read(s, rl)
             \/ \E b \in BodySizes : StartResponse(s, b)
             \/ \E e \in BOOLEAN : Finish(s, e)
    BY <1>6 DEF Shapes
  <1>7. (\E n \in WriteLens : Write(s, n) \/ Sendfile(s, n)) => Shapes
    BY <1>2 DEF Write, Sendfile, Running
  <1> QED BY <1>1, <1>3, <1>4, <1>5, <1>6, <1>7 DEF Fiber

\* Every step has one of the shapes.
LEMMA NextShapes ==
  ASSUME FlowInv, [Next]_vars
  PROVE  Shapes
  <1>1. CASE ReadSide BY <1>1, ReadSideShapes
  <1>2. CASE WriteSide
    <2>1. ASSUME WriteError PROVE Shapes
      <3>1. CloseStep(FALSE) BY <2>1 DEF WriteError, Writable, CloseStep
      <3> QED BY <3>1 DEF Shapes
    <2> QED BY <1>2, <2>1 DEF WriteSide, Shapes
  <1>3. ASSUME NEW s \in Streams, Fiber(s) PROVE Shapes
    BY <1>3, FiberShapes
  <1>4. CASE (\E S \in SUBSET Streams : Elapse(S)) \/ UNCHANGED vars
    <2>1. IdleStep
      BY <1>4 DEF Elapse, vars, IdleStep, SameStreams, OnlyQueues, Told
    <2> QED BY <2>1 DEF Shapes
  <1> QED BY <1>1, <1>2, <1>3, <1>4 DEF Next, Gone

\* What Finish does: it destroys last, with the connection when gone, and
\* marks the context the parser still holds with fin1.
FinishParts(s, gone, last, fin1) ==
  /\ FinishOutline(s, gone, last, fin1)
  /\ {"out_closed", "destroy_by_http2"} \subseteq fin1
  /\ fin1 \cap {"parsed_header", "responded"} = {}
  /\ ctx' = ctx \ last
  /\ queue' \in {queue, queue \ {s}}
  /\ gone => processing = 1 /\ deleted' = TRUE /\ write_buffer' = <<>>
  /\ ~gone => OnlyQueues /\ processing' = processing - 1 /\ UNCHANGED <<deleted, parseVars>>

\* Finish has these parts.
LEMMA FinishDoes ==
  ASSUME FlowInv, NEW s \in Streams, NEW e \in BOOLEAN, Finish(s, e)
  PROVE  \E gone \in BOOLEAN, last \in SUBSET Streams, fin1 \in SUBSET Flags :
           FinishParts(s, gone, last, fin1)
  <1> DEFINE short == num[s].content_left > 0
             cut == short /\ ~Has(s, "rst")
             ends == ~short /\ ~IsWriteClosed(s)
             in1 == Has(s, "in_closed") \/ cut \/ (~short /\ e)
             out1 == Has(s, "out_closed") \/ cut \/ ends
             resets == ~(in1 /\ out1)
             pushed == (cut /\ SendsRst(s)) \/ ends \/ resets
             gone == can_destroy(processing - 1, read_processing,
                                 write_processing \/ (pushed /\ ~closed))
             kept == UsedByParser(s) /\ ~gone
             last == (IF kept THEN {} ELSE {s}) \cup (IF gone THEN LastContexts ELSE {})
             fin1 == {"in_closed", "out_closed", "destroy_by_http2"}
                       \cup (IF cut \/ resets THEN {"rst"} ELSE {})
  <1>1. /\ node' = node \ ({s} \cup last) /\ ctx' = ctx \ last
        /\ flag' = [x \in Streams |-> IF x \in last THEN {}
                                      ELSE IF x = s THEN flag[x] \cup fin1 ELSE flag[x]]
        /\ num' = [x \in Streams |-> IF x \in last THEN NoNum ELSE num[x]]
        /\ queue' \in {queue, queue \ {s}}
    BY DEF Finish, RemoveQueue
  <1>2. /\ fin1 \in SUBSET Flags /\ fin1 \cap {"parsed_header", "responded"} = {}
        /\ {"out_closed", "destroy_by_http2"} \subseteq fin1
    BY DEF Flags
  <1> HIDE DEF fin1
  <1>3. CASE gone
    <2>1. processing - 1 = 0 BY <1>3 DEF can_destroy
    <2>2. processing = 1 BY <2>1 DEF FlowInv, TypeOK, ConnType
    <2>3. DeleteThis(processing - 1) BY <1>3 DEF Finish
    <2>4. stream' = NoStream /\ deleted' = TRUE /\ write_buffer' = <<>>
      BY <2>3 DEF DeleteThis
    <2>5. last = {s} \cup LastContexts BY <1>3
    <2>6. last \in SUBSET Streams BY <2>5, LastNotLive
    <2> HIDE DEF last
    <2>7. FinishParts(s, TRUE, last, fin1)
      BY <1>1, <1>2, <2>2, <2>4, <2>5 DEF FinishParts, FinishOutline
    <2> QED BY <1>2, <2>6, <2>7
  <1>4. CASE ~gone
    <2>1. Push(pushed, pushed) /\ processing' = processing - 1 /\ UNCHANGED <<deleted, parseVars>>
      BY <1>4 DEF Finish
    <2>2. OnlyQueues BY <2>1, PushQueues
    <2>3. last = IF stream = s THEN {} ELSE {s} BY <1>4 DEF UsedByParser
    <2> HIDE DEF last
    <2>4. FinishParts(s, FALSE, last, fin1)
      BY <1>1, <1>2, <2>1, <2>2, <2>3 DEF FinishParts, FinishOutline
    <2> QED BY <1>2, <2>3, <2>4
  <1> QED BY <1>3, <1>4

-----------------------------------------------------------------------------
(* Contexts.                                                               *)

\* What NoDangling and ConnectionOutlivesStreams rest on: a context without a
\* sink is the frame parser's, and is destroyed with the connection, because
\* it is marked or its header is incomplete.
ContextInv ==
  /\ live \cup node \subseteq ctx
  /\ stream # NoStream => stream \in ctx
  /\ \A s \in ctx \ live :
       s = stream /\ (Has(s, "destroy_by_http2") \/ ~Has(s, "parsed_header"))
  /\ Incomplete => handler = "header_block"
  /\ IsFiniteSet(live)
  /\ ~deleted => processing = Cardinality(live)
  /\ deleted => ctx = {} /\ scan = {}

\* The step creates and destroys nothing, and the parser stays where it is.
QuietContexts ==
  /\ UNCHANGED <<ctx, node, live, deleted, processing, stream, handler>>
  /\ deleted => scan' = {}
  /\ \A s \in Streams : Marks(s)' = Marks(s)

\* A quiet step keeps ContextInv.
LEMMA ContextsKept ==
  ASSUME FlowInv, ContextInv, QuietContexts
  PROVE  ContextInv'
  <1>1. stream \in Streams \cup {NoStream} /\ ctx \subseteq Streams
    BY DEF FlowInv, TypeOK, ParserType, TreeType
  <1>2. \A s \in Streams : /\ Has(s, "parsed_header")' = Has(s, "parsed_header")
                           /\ Has(s, "destroy_by_http2")' = Has(s, "destroy_by_http2")
    BY DEF QuietContexts, Marks, Has
  <1>3. Incomplete' => Incomplete
    BY <1>1, <1>2 DEF QuietContexts, Incomplete
  <1> QED BY <1>1, <1>2, <1>3 DEF QuietContexts, ContextInv

\* While the connection stands, nobody but the parser keeps a context that
\* has no sink; without sinks only those ~KHttp2 destroys are left.
LEMMA LastOfAll ==
  ASSUME FlowInv, ContextInv, NEW S \in SUBSET Streams, live \subseteq S
  PROVE  ctx \ (S \cup LastContexts) = {}
  <1>1. \A s \in ctx \ live : s \in LastContexts
    BY StreamsAssumption DEF ContextInv, LastContexts, Incomplete, FlowInv, TypeOK, TreeType
  <1> QED BY <1>1

\* The parser drops its stream at the end of a frame.
LEMMA CompleteContexts ==
  ASSUME FlowInv, ContextInv, NEW s \in Streams \cup {NoStream},
         NEW fl \in [Streams -> SUBSET Flags], NEW nm,
         \A x \in Streams : fl[x] \cap {"parsed_header", "destroy_by_http2"} = Marks(x),
         ~Incomplete,
         stream \in {NoStream, s} \/ ~Has(stream, "destroy_by_http2"),
         state_complete(s, fl, nm),
         UNCHANGED <<node, live, deleted, processing, scan>>
  PROVE  ContextInv'
  <1>1. stream \in Streams \cup {NoStream} /\ ctx \subseteq Streams /\ flag \in [Streams -> SUBSET Flags]
    BY DEF FlowInv, TypeOK, ParserType, TreeType, FlagType
  <1>2. stream' = NoStream /\ ~Incomplete'
    BY DEF state_complete, Incomplete
  <1>3. CASE s # NoStream /\ Has(s, "destroy_by_http2")
    <2>1. s \notin node /\ s \notin live
      BY <1>3 DEF FlowInv, TreeInv
    <2>2. ctx' = ctx \ {s} BY <1>3 DEF state_complete, Destroy
    <2>3. \A x \in ctx \ live : x = stream /\ x # NoStream /\ Has(x, "destroy_by_http2")
      BY <1>1, StreamsAssumption DEF ContextInv, Incomplete
    <2>4. ctx' \subseteq live BY <2>2, <2>3, <1>1
    <2> QED BY <1>2, <2>1, <2>2, <2>4 DEF ContextInv
  <1>4. CASE ~(s # NoStream /\ Has(s, "destroy_by_http2"))
    <2>1. ctx' = ctx BY <1>4 DEF state_complete
    <2>2. \A x \in ctx \ live : x = stream /\ x # NoStream /\ Has(x, "destroy_by_http2")
      BY <1>1, StreamsAssumption DEF ContextInv, Incomplete
    <2>3. ctx \subseteq live BY <1>4, <2>2
    <2> QED BY <1>2, <2>1, <2>3 DEF ContextInv
  <1> QED BY <1>3, <1>4

\* close deletes the connection only when no sink is left.
LEMMA CloseContexts ==
  ASSUME FlowInv, ContextInv, NEW read \in BOOLEAN, close(read), ~deleted, scan = {}
  PROVE  ContextInv'
  <1> DEFINE gone == can_destroy(processing, read_processing /\ ~read, write_processing /\ read)
             last == IF gone THEN LastContexts ELSE {}
  <1>1. /\ live' = live /\ node' = node \ last /\ ctx' = ctx \ last /\ scan' = {}
        /\ \A x \in Streams : flag'[x] = IF x \in last THEN {}
                                 ELSE IF x \in node THEN flag[x] \cup RstFlags ELSE flag[x]
    BY DEF close
  <1>2. CASE gone
    <2>1. processing = 0 BY <1>2 DEF can_destroy
    <2>2. live = {} BY <2>1, FS_EmptySet DEF ContextInv
    <2>3. deleted' = TRUE /\ stream' = NoStream BY <1>2 DEF close, DeleteThis
    <2>4. ctx' = {} BY <1>1, <1>2, <2>2, LastOfAll, ctx \ ({} \cup LastContexts) = {}
    <2>5. node' = {} BY <1>1, <1>2, <2>4 DEF ContextInv
    <2> QED BY <1>1, <2>2, <2>3, <2>4, <2>5 DEF ContextInv, Incomplete
  <1>3. CASE ~gone
    <2>1. UNCHANGED <<deleted, processing, stream, handler>> BY <1>3 DEF close
    <2>2. \A x \in Streams : Marks(x)' = Marks(x)
      BY <1>1, <1>3 DEF Marks, RstFlags
    <2> QED BY <1>1, <1>3, <2>1, <2>2, ContextsKept DEF QuietContexts
  <1> QED BY <1>2, <1>3

\* Neither does any of the bytes of a DATA frame create or destroy a context;
\* the last ones make the parser drop its stream.
LEMMA ReadDataContexts ==
  ASSUME FlowInv, ContextInv, NEW s \in Streams, s \in ctx, Has(s, "parsed_header"),
         stream \in {NoStream, s}, NEW left, NEW f, NEW pad, NEW n, NEW rl, NEW nm,
         state_read_data(s, left, f, pad, n, rl, nm),
         UNCHANGED <<node, live, deleted, processing, scan>>
  PROVE  ContextInv'
  <1> DEFINE waits == s \in read_wait
             ends == n = left /\ f
             held == nm[s].buffered + n
             taken == IF waits /\ n > 0 THEN Min(rl, held) ELSE 0
             nm1 == [nm EXCEPT ![s].buffered = held - taken]
             fl1 == IF ends THEN [flag EXCEPT ![s] = @ \cup {"in_closed"}] ELSE flag
  <1>0. flag \in [Streams -> SUBSET Flags] /\ ctx \subseteq Streams /\ s # NoStream
    BY StreamsAssumption DEF FlowInv, TypeOK, FlagType, TreeType
  <1>1. fl1 \in [Streams -> SUBSET Flags]
    BY <1>0 DEF Flags
  <1>2. \A x \in Streams : fl1[x] \cap {"parsed_header", "destroy_by_http2"} = Marks(x)
    BY <1>0 DEF Marks
  <1>3. ~Incomplete BY DEF Incomplete
  <1>4. \/ stream' = s /\ flag' = fl1 /\ UNCHANGED ctx
        \/ state_complete(s, fl1, nm1)
    BY DEF state_read_data
  <1> HIDE DEF nm1, fl1
  <1>5. CASE state_complete(s, fl1, nm1)
    BY <1>1, <1>2, <1>3, <1>5, CompleteContexts
  <1>6. CASE stream' = s /\ flag' = fl1 /\ UNCHANGED ctx
    <2>1. \A x \in Streams : Marks(x)' = Marks(x) BY <1>2, <1>6 DEF Marks
    <2>2. ~Incomplete' BY <1>6, <2>1 DEF Incomplete, Has, Marks
    <2>3. \A x \in ctx \ live : x = s /\ (Has(x, "destroy_by_http2") \/ ~Has(x, "parsed_header"))'
      BY <1>0, <2>1, StreamsAssumption DEF ContextInv, Has, Marks
    <2> QED BY <1>6, <2>2, <2>3 DEF ContextInv
  <1> QED BY <1>4, <1>5, <1>6

\* HEADERS: a context is created with its node; its sink comes with the end
\* of the header block, and only that is counted.
LEMMA HeaderContexts ==
  ASSUME FlowInv, ContextInv,
         \/ \E s \in Streams, f, w \in BOOLEAN : NewHeaders(s, f, w)
         \/ NewHeadersComplete
         \/ \E s \in Streams, f, w \in BOOLEAN : Trailers(s, f, w)
         \/ TrailersComplete
  PROVE  ContextInv'
  <1>0. /\ stream \in Streams \cup {NoStream} /\ flag \in [Streams -> SUBSET Flags]
        /\ num \in [Streams -> StreamNum] /\ ctx \subseteq Streams /\ processing \in Int
    BY DEF FlowInv, TypeOK, ConnType, ParserType, FlagType, NumType, TreeType
  <1>1. ASSUME NEW s \in Streams, NEW f \in BOOLEAN, NEW w \in BOOLEAN, NewHeaders(s, f, w)
        PROVE  ContextInv'
    <2>1. handler = "head" /\ stream = NoStream /\ ~deleted
      BY <1>1 DEF NewHeaders, FrameStart, Readable, FlowInv, TypeOK, ParserType
    <2>2. ctx \subseteq live BY <1>0, <2>1, StreamsAssumption DEF ContextInv
    <2>3. s \notin ctx /\ s \notin live /\ s # NoStream
      BY <1>1, <2>2, StreamsAssumption DEF NewHeaders, FlowInv, TreeInv
    <2>4. /\ node' = node \cup {s} /\ ctx' = ctx \cup {s} /\ deleted' = deleted
          /\ flag'[s] = (IF f THEN {"in_closed"} ELSE {}) \cup (IF w THEN {"parsed_header"} ELSE {})
      BY <1>0, <1>1 DEF NewHeaders
    <2>5. CASE w
      <3>1. live' = live \cup {s} /\ processing' = processing + 1 /\ stream' = NoStream
        BY <1>1, <2>1, <2>5 DEF NewHeaders
      <3>2. IsFiniteSet(live') /\ processing' = Cardinality(live')
        BY <2>1, <2>3, <3>1, FS_AddElement DEF ContextInv
      <3> QED BY <2>1, <2>2, <2>4, <3>1, <3>2 DEF ContextInv, Incomplete
    <2>6. CASE ~w
      <3>1. UNCHANGED <<live, processing>> /\ stream' = s /\ handler' = "header_block"
        BY <1>1, <2>6 DEF NewHeaders
      <3>2. \A x \in ctx' \ live' : x = s /\ ~Has(x, "parsed_header")'
        BY <2>2, <2>4, <2>6, <3>1 DEF Has
      <3> QED BY <2>1, <2>4, <3>1, <3>2 DEF ContextInv
    <2> QED BY <2>5, <2>6
  <1>2. CASE NewHeadersComplete
    <2>1. /\ stream \in Streams /\ ~Has(stream, "parsed_header") /\ ~deleted
          /\ live' = live \cup {stream} /\ processing' = processing + 1 /\ stream' = NoStream
          /\ UNCHANGED <<ctx, node, deleted>>
      BY <1>2, <1>0 DEF NewHeadersComplete, FrameGoesOn, Readable, FlowInv, TypeOK, ParserType
    <2>2. stream \notin live /\ stream \in ctx
      BY <2>1, StreamsAssumption DEF FlowInv, TreeInv, ContextInv
    <2>3. IsFiniteSet(live') /\ processing' = Cardinality(live')
      BY <2>1, <2>2, FS_AddElement DEF ContextInv
    <2>4. ctx' \subseteq live' BY <2>1 DEF ContextInv
    <2> QED BY <2>1, <2>2, <2>3, <2>4 DEF ContextInv, Incomplete
  <1>3. ASSUME NEW s \in Streams, NEW f \in BOOLEAN, NEW w \in BOOLEAN, Trailers(s, f, w)
        PROVE  ContextInv'
    <2>1. /\ handler = "head" /\ stream = NoStream /\ ~deleted /\ s \in node
          /\ UNCHANGED <<ctx, node, live, deleted, processing, scan>>
      BY <1>3 DEF Trailers, FrameStart, Readable, FlowInv, TypeOK, ParserType
    <2>2. \A x \in Streams : Marks(x)' = Marks(x)
      BY <1>0, <1>3 DEF Trailers, Marks
    <2>3. \/ UNCHANGED <<stream, handler>>
          \/ stream' = s /\ handler' = "header_block"
      BY <1>3 DEF Trailers
    <2>4. CASE UNCHANGED <<stream, handler>>
      BY <2>1, <2>2, <2>4, ContextsKept DEF QuietContexts
    <2>5. CASE stream' = s /\ handler' = "header_block"
      <3>1. ctx \subseteq live BY <1>0, <2>1, StreamsAssumption DEF ContextInv
      <3> QED BY <2>1, <2>5, <3>1 DEF ContextInv
    <2> QED BY <2>3, <2>4, <2>5
  <1>4. CASE TrailersComplete
    <2>1. /\ ~Incomplete /\ ~deleted
          /\ UNCHANGED <<node, live, deleted, processing, scan>>
      BY <1>4 DEF TrailersComplete, FrameGoesOn, Readable, Incomplete
    <2>2. \/ state_complete(stream, flag, num)
          \/ state_complete(NoStream, flag, num) /\ ~Has(stream, "destroy_by_http2")
      BY <1>4 DEF TrailersComplete, TrailersDone
    <2> QED BY <1>0, <2>1, <2>2, CompleteContexts DEF Marks
  <1> QED BY <1>1, <1>2, <1>3, <1>4

\* DATA frames destroy at most the context their sink has left.
LEMMA DataContexts ==
  ASSUME FlowInv, ContextInv,
         \/ \E s \in Streams, L \in DataLens, f, pad \in BOOLEAN, rl \in ReadLens :
              \E n \in 0..L : Data(s, L, f, pad, n, rl)
         \/ \E n \in 1..length, rl \in ReadLens : DataGoesOn(n, rl)
         \/ SkipComplete
  PROVE  ContextInv'
  <1>0. /\ stream \in Streams \cup {NoStream} /\ flag \in [Streams -> SUBSET Flags]
        /\ num \in [Streams -> StreamNum] /\ ctx \subseteq Streams
    BY DEF FlowInv, TypeOK, ParserType, FlagType, NumType, TreeType
  <1>1. ASSUME NEW s \in Streams, NEW L \in DataLens, NEW f \in BOOLEAN, NEW pad \in BOOLEAN,
               NEW rl \in ReadLens, NEW n \in 0..L, Data(s, L, f, pad, n, rl)
        PROVE  ContextInv'
    <2>1. /\ stream = NoStream /\ s \in ctx /\ Has(s, "parsed_header")
          /\ UNCHANGED <<node, live, deleted, processing, scan>>
      BY <1>1 DEF Data, FrameStart, FlowInv, TypeOK, ParserType, ContextInv
    <2>2. state_read_data(s, L, f, pad, n, rl, [num EXCEPT ![s].recv_window = @ - L])
      BY <1>1 DEF Data
    <2> QED BY <2>1, <2>2, ReadDataContexts
  <1>2. ASSUME NEW n \in 1..length, NEW rl \in ReadLens, DataGoesOn(n, rl)
        PROVE  ContextInv'
    <2>1. /\ handler = "read_data" /\ stream \in Streams
          /\ UNCHANGED <<node, live, deleted, processing, scan>>
          /\ state_read_data(stream, length, fin, padded, n, rl, num)
      BY <1>2 DEF DataGoesOn, FrameGoesOn, FlowInv, TypeOK, ParserType
    <2>2. stream \in ctx /\ Has(stream, "parsed_header")
      BY <2>1, StreamsAssumption DEF ContextInv, Incomplete
    <2> QED BY <2>1, <2>2, ReadDataContexts
  <1>3. CASE SkipComplete
    <2>1. /\ handler = "skip" /\ state_complete(stream, flag, num)
          /\ UNCHANGED <<node, live, deleted, processing, scan>>
      BY <1>3 DEF SkipComplete, FrameGoesOn
    <2>2. ~Incomplete BY <2>1 DEF ContextInv
    <2> QED BY <1>0, <2>1, <2>2, CompleteContexts DEF Marks
  <1> QED BY <1>1, <1>2, <1>3

\* The last bytes are written: a connection whose read side has ended goes,
\* if no sink is left.
LEMMA WriteDoneContexts ==
  ASSUME FlowInv, ContextInv, NEW n \in 1..Len(write_buffer), WriteDone(n)
  PROVE  ContextInv'
  <1> DEFINE gone == can_destroy(processing, read_processing, GoesOnWriting(n))
             last == IF gone THEN LastContexts ELSE {}
  <1>1. /\ live' = live /\ node' = node \ last /\ ctx' = ctx \ last
        /\ scan = {} /\ scan' = {} /\ ~deleted
        /\ \A x \in Streams : flag'[x] = IF x \in last THEN {} ELSE flag[x]
    BY DEF WriteDone, Writable
  <1>2. CASE gone
    <2>1. processing = 0 BY <1>2 DEF can_destroy
    <2>2. live = {} BY <1>1, <2>1, FS_EmptySet DEF ContextInv
    <2>3. DeleteThis(processing) BY <1>2 DEF WriteDone
    <2>4. deleted' = TRUE /\ stream' = NoStream BY <2>3 DEF DeleteThis
    <2>5. ctx' = {} BY <1>1, <1>2, <2>2, LastOfAll, ctx \ ({} \cup LastContexts) = {}
    <2>6. node' = {} BY <1>1, <1>2, <2>5 DEF ContextInv
    <2> QED BY <1>1, <2>2, <2>4, <2>5, <2>6 DEF ContextInv, Incomplete
  <1>3. CASE ~gone
    <2>1. UNCHANGED <<deleted, processing, stream, handler>> BY <1>3 DEF WriteDone
    <2>2. \A x \in Streams : Marks(x)' = Marks(x) BY <1>1, <1>3 DEF Marks
    <2> QED BY <1>1, <1>3, <2>1, <2>2, ContextsKept DEF QuietContexts
  <1> QED BY <1>2, <1>3

\* ~KHttp2Sink: the context goes with its sink, unless the parser holds it;
\* the connection goes with its last sink.
LEMMA FinishContexts ==
  ASSUME FlowInv, ContextInv, NEW s \in Streams, NEW e \in BOOLEAN, Finish(s, e)
  PROVE  ContextInv'
  <1>1. ~deleted /\ scan = {} /\ scan' = {} /\ s \in live /\ live' = live \ {s}
    BY DEF Finish
  <1>2. /\ IsFiniteSet(live') /\ Cardinality(live') = Cardinality(live) - 1
        /\ processing = Cardinality(live) /\ IsFiniteSet(live)
    BY <1>1, FS_RemoveElement DEF ContextInv
  <1>3. PICK gone \in BOOLEAN, last \in SUBSET Streams, fin1 \in SUBSET Flags :
          FinishParts(s, gone, last, fin1)
    BY FinishDoes
  <1> USE DEF FinishParts, FinishOutline
  <1>4. \A x \in Streams : flag'[x] = IF x \in last THEN {}
                             ELSE IF x = s THEN flag[x] \cup fin1 ELSE flag[x]
    BY <1>3
  <1>5. CASE gone
    <2>1. live' = {} BY <1>2, <1>3, <1>5, FS_EmptySet
    <2>2. deleted' = TRUE /\ stream' = NoStream BY <1>3, <1>5
    <2>3. ctx' = {}
      <3>1. live \subseteq {s} BY <1>1, <2>1
      <3>2. ctx \ ({s} \cup LastContexts) = {} BY <3>1, LastOfAll
      <3> QED BY <1>3, <1>5, <3>2
    <2>4. node' = {} BY <1>3, <1>5, <2>3 DEF ContextInv
    <2> QED BY <1>1, <1>2, <2>1, <2>2, <2>3, <2>4 DEF ContextInv, Incomplete
  <1>6. CASE ~gone
    <2>1. /\ UNCHANGED <<deleted, stream, handler>> /\ processing' = processing - 1
          /\ last = IF stream = s THEN {} ELSE {s}
          /\ ctx' = ctx \ last /\ node' = node \ ({s} \cup last)
      BY <1>3, <1>6
    <2>2. live' \cup node' \subseteq ctx' BY <1>1, <2>1 DEF ContextInv
    <2>3. stream # NoStream => stream \in ctx' BY <2>1 DEF ContextInv
    <2>4. \A x \in ctx' \ live' :
            x = stream /\ (Has(x, "destroy_by_http2") \/ ~Has(x, "parsed_header"))'
      <3> SUFFICES ASSUME NEW x \in ctx' \ live'
                   PROVE  x = stream /\ (Has(x, "destroy_by_http2") \/ ~Has(x, "parsed_header"))'
        OBVIOUS
      <3>1. x \in Streams /\ x \in ctx /\ x \notin last
        BY <2>1 DEF FlowInv, TypeOK, TreeType
      <3>2. CASE x = s BY <1>3, <1>4, <2>1, <3>1, <3>2 DEF Has
      <3>3. CASE x # s
        <4>1. x \notin live BY <1>1, <3>3
        <4> QED BY <1>4, <3>1, <3>3, <4>1 DEF Has, ContextInv
      <3> QED BY <3>2, <3>3
    <2>5. Incomplete' => Incomplete
      <3>1. stream \in Streams \cup {NoStream} BY DEF FlowInv, TypeOK, ParserType
      <3>2. Has(s, "parsed_header") BY <1>1 DEF FlowInv, TreeInv
      <3>3. stream = s => ~Incomplete' BY <1>4, <2>1, <3>2 DEF Incomplete, Has
      <3>4. stream # s => (Incomplete' => Incomplete)
        BY <1>4, <2>1, <3>1 DEF Incomplete, Has
      <3> QED BY <3>3, <3>4
    <2> QED BY <1>1, <1>2, <2>1, <2>2, <2>3, <2>4, <2>5 DEF ContextInv
  <1> QED BY <1>5, <1>6

\* The fields a request gets and the bytes it is granted mark nothing.
LEMMA GrantMarks ==
  ASSUME FlowInv, NEW s \in Streams, NEW sw \in Int, NEW blen \in Nat, NEW file \in BOOLEAN,
         GrantStep(s, sw, blen, file)
  PROVE  \A x \in Streams : Marks(x)' = Marks(x)
  BY WindowReadyFlow DEF GrantStep

\* Every step keeps ContextInv.
LEMMA NextContexts ==
  ASSUME FlowInv, ContextInv, [Next]_vars
  PROVE  ContextInv'
  <1>0. flag \in [Streams -> SUBSET Flags] BY DEF FlowInv, TypeOK, FlagType
  <1>1. SameStreams /\ (\A x \in Streams : Marks(x)' = Marks(x)) => ContextInv'
    BY ContextsKept DEF SameStreams, QuietContexts, ContextInv
  <1>2. CASE IdleStep
    <2>1. \A x \in Streams : Marks(x)' = Marks(x) BY <1>2 DEF IdleStep, Told, Marks
    <2> QED BY <1>1, <1>2, <2>1 DEF IdleStep
  <1>3. ASSUME NEW s \in Streams, CutStep(s) PROVE ContextInv'
    BY <1>1, <1>3, CutQuiet DEF CutStep
  <1>4. ASSUME NEW s \in Streams, NEW sw \in Int, NEW blen \in Nat, NEW file \in BOOLEAN,
               GrantStep(s, sw, blen, file)
        PROVE  ContextInv'
    BY <1>1, <1>4, GrantMarks DEF GrantStep
  <1>5. ASSUME NEW s \in Streams, NEW kind, HupStep(s, kind) PROVE ContextInv'
    BY <1>1, <1>5 DEF HupStep, Marks
  <1>6. ASSUME NEW read \in BOOLEAN, CloseStep(read) PROVE ContextInv'
    BY <1>6, CloseContexts DEF CloseStep
  <1>7. ASSUME NEW s \in Streams, NEW rl \in ReadLens, Read(s, rl) PROVE ContextInv'
    <2>1. SameStreams /\ UNCHANGED flag BY <1>7 DEF Read, Running, SameStreams
    <2> QED BY <1>1, <2>1 DEF Marks
  <1>8. ASSUME NEW s \in Streams, NEW b \in BodySizes, StartResponse(s, b) PROVE ContextInv'
    <2>1. SameStreams BY <1>8 DEF StartResponse, Running, SameStreams
    <2>2. \A x \in Streams : Marks(x)' = Marks(x) BY <1>0, <1>8 DEF StartResponse, Marks
    <2> QED BY <1>1, <2>1, <2>2
  <1> QED
    BY NextShapes, <1>2, <1>3, <1>4, <1>5, <1>6, <1>7, <1>8, HeaderContexts, DataContexts,
       WriteDoneContexts, FinishContexts DEF Shapes

\* Without a count there are no sinks.
LEMMA NoSinks ==
  ASSUME ContextInv, ~deleted, processing = 0
  PROVE  live = {}
  BY FS_EmptySet DEF ContextInv

-----------------------------------------------------------------------------
(* Who waits to write.                                                     *)

\* Only fibers wait on a stream for its writes.
WriterInv ==
  /\ NoLostWriter
  /\ \A s \in Streams : write_wait[s] # "none" => s \in live

\* No stream has two buffers in b.
Solo(b) == \A i, j \in 1..Len(b) : b[i] = b[j] /\ b[i] # NoCtx => i = j

Buffers == Seq(Streams \cup {NoCtx})

\* Control frames wake nobody.
LEMMA BufferedControl ==
  ASSUME NEW b \in Buffers
  PROVE  /\ WithControl(b) \in Buffers
         /\ Buffered(WithControl(b)) = Buffered(b)
         /\ Solo(b) => Solo(WithControl(b))
  <1>1. CASE WithControl(b) = b BY <1>1
  <1>2. CASE WithControl(b) = Append(b, NoCtx)
    <2>1. /\ Append(b, NoCtx) \in Buffers /\ Len(Append(b, NoCtx)) = Len(b) + 1
          /\ \A i \in 1..Len(b) : Append(b, NoCtx)[i] = b[i]
          /\ Append(b, NoCtx)[Len(b) + 1] = NoCtx
      BY DEF Buffers
    <2>2. Buffered(Append(b, NoCtx)) = Buffered(b)
      BY <2>1 DEF Buffered, Buffers
    <2>3. Solo(b) => Solo(Append(b, NoCtx))
      BY <2>1 DEF Solo, Buffers
    <2> QED BY <1>2, <2>1, <2>2, <2>3
  <1> QED BY <1>1, <1>2 DEF WithControl

\* A writer's buffer is queued.
LEMMA BufferedAppend ==
  ASSUME NEW b \in Buffers, NEW s \in Streams, s \notin Buffered(b), Solo(b)
  PROVE  Buffered(Append(b, s)) = Buffered(b) \cup {s} /\ Solo(Append(b, s))
  <1>0. s # NoCtx BY StreamsAssumption
  <1>1. /\ Append(b, s) \in Buffers /\ Len(Append(b, s)) = Len(b) + 1
        /\ \A i \in 1..Len(b) : Append(b, s)[i] = b[i]
        /\ Append(b, s)[Len(b) + 1] = s
    BY DEF Buffers
  <1>2. \A i \in 1..Len(b) : b[i] # s BY <1>0 DEF Buffered
  <1>3. Buffered(Append(b, s)) = Buffered(b) \cup {s}
    BY <1>0, <1>1 DEF Buffered, Buffers
  <1>4. Solo(Append(b, s))
    BY <1>1, <1>2 DEF Solo, Buffers
  <1> QED BY <1>3, <1>4

\* The first n buffers are written, the others are still waited for.
LEMMA BufferedRest ==
  ASSUME NEW b \in Buffers, NEW n \in 1..Len(b), Solo(b)
  PROVE  /\ Buffered(SubSeq(b, 1, n)) \subseteq Buffered(b)
         /\ Buffered(SubSeq(b, n + 1, Len(b))) = Buffered(b) \ Buffered(SubSeq(b, 1, n))
         /\ Solo(SubSeq(b, n + 1, Len(b)))
         /\ Buffered(SubSeq(b, n + 1, Len(b))) # {} => n < Len(b)
  <1> DEFINE first == SubSeq(b, 1, n)
             rest == SubSeq(b, n + 1, Len(b))
  <1>1. n \in Nat /\ Len(b) \in Nat /\ n <= Len(b) BY DEF Buffers
  <1>2. Len(first) = n /\ \A i \in 1..n : first[i] = b[i]
    BY <1>1 DEF Buffers
  <1>3. Len(rest) = Len(b) - n /\ \A i \in 1..(Len(b) - n) : rest[i] = b[i + n]
    BY <1>1 DEF Buffers
  <1> HIDE DEF first, rest
  <1>4. Buffered(first) \subseteq Buffered(b) BY <1>1, <1>2 DEF Buffered
  <1>5. Buffered(rest) \subseteq Buffered(b)
    <2> SUFFICES ASSUME NEW i \in 1..(Len(b) - n) PROVE \E j \in 1..Len(b) : b[j] = rest[i]
      BY <1>3 DEF Buffered
    <2>1. i + n \in 1..Len(b) /\ rest[i] = b[i + n] BY <1>1, <1>3
    <2> QED BY <2>1
  <1>6. Buffered(rest) \cap Buffered(first) = {}
    <2> SUFFICES ASSUME NEW i \in 1..(Len(b) - n), NEW j \in 1..n, rest[i] # NoCtx
                 PROVE  rest[i] # first[j]
      BY <1>2, <1>3 DEF Buffered
    <2>1. i + n \in 1..Len(b) /\ j \in 1..Len(b) /\ i + n # j BY <1>1
    <2> QED BY <1>2, <1>3, <2>1 DEF Solo
  <1>7. Buffered(b) \subseteq Buffered(first) \cup Buffered(rest)
    <2> SUFFICES ASSUME NEW i \in 1..Len(b)
                 PROVE  \/ \E j \in 1..n : first[j] = b[i]
                        \/ \E j \in 1..(Len(b) - n) : rest[j] = b[i]
      BY <1>2, <1>3 DEF Buffered
    <2>1. CASE i <= n BY <1>1, <1>2, <2>1
    <2>2. CASE i > n
      <3>1. i - n \in 1..(Len(b) - n) /\ (i - n) + n = i BY <1>1, <2>2
      <3>2. rest[i - n] = b[i] BY <1>3, <3>1
      <3> QED BY <3>1, <3>2
    <2> QED BY <1>1, <2>1, <2>2
  <1>8. Solo(rest)
    <2> SUFFICES ASSUME NEW i \in 1..(Len(b) - n), NEW j \in 1..(Len(b) - n),
                        rest[i] = rest[j], rest[i] # NoCtx
                 PROVE  i = j
      BY <1>3 DEF Solo
    <2>1. i + n \in 1..Len(b) /\ j + n \in 1..Len(b) BY <1>1
    <2>2. i + n = j + n BY <1>3, <2>1 DEF Solo
    <2> QED BY <1>1, <2>2
  <1>9. Buffered(rest) # {} => n < Len(b) BY <1>1, <1>3 DEF Buffered
  <1> QED BY <1>4, <1>5, <1>6, <1>7, <1>8, <1>9 DEF first, rest

\* A step that queues at most control frames and keeps who waits for bytes
\* to be written.
LEMMA WritersKept ==
  ASSUME FlowInv, WriterInv, OnlyQueues, Waits("WRITING")' = Waits("WRITING"),
         wsleep' = Waits("WINDOW")' \cup Waits("WRITING")',
         \A s \in Streams : write_wait'[s] # "none" => s \in live'
  PROVE  WriterInv'
  <1>1. write_buffer \in Buffers BY DEF FlowInv, TypeOK, OutType, Buffers
  <1>2. Solo(write_buffer) BY DEF WriterInv, NoLostWriter, Solo
  <1>3. Buffered(write_buffer)' = Buffered(write_buffer) /\ Solo(write_buffer)'
    BY <1>1, <1>2, BufferedControl DEF OnlyQueues
  <1>4. Waits("WRITING")' # {} => write_processing' BY DEF WriterInv, NoLostWriter, OnlyQueues
  <1> QED BY <1>3, <1>4 DEF WriterInv, NoLostWriter, Solo

\* A connection without sinks has no writers.
LEMMA WritersGone ==
  ASSUME FlowInv, WriterInv, live' = {}, write_buffer' = <<>>, wsleep' \subseteq wsleep,
         \A s \in Streams : write_wait'[s] = "none" /\ write_wait[s] = "none"
  PROVE  WriterInv'
  <1>1. Waits("WINDOW") = {} /\ Waits("WRITING") = {} BY DEF Waits
  <1>2. wsleep' = {} BY <1>1 DEF WriterInv, NoLostWriter
  <1>3. Waits("WINDOW")' = {} /\ Waits("WRITING")' = {} BY DEF Waits
  <1>4. Buffered(write_buffer)' = {} BY DEF Buffered
  <1>5. \A i, j \in 1..Len(write_buffer') : i = j OBVIOUS
  <1> QED BY <1>2, <1>3, <1>4, <1>5 DEF WriterInv, NoLostWriter

\* A writer gets its window, or waits for it.
LEMMA GrantWriters ==
  ASSUME FlowInv, WriterInv, NEW s \in Streams, NEW sw \in Int, NEW blen \in Nat,
         NEW file \in BOOLEAN, GrantStep(s, sw, blen, file)
  PROVE  WriterInv'
  <1>0. /\ write_wait \in [Streams -> WaitKinds] /\ wsleep \subseteq Streams
        /\ write_buffer \in Buffers
    BY DEF FlowInv, TypeOK, WaitType, OutType, Buffers
  <1>1. s \notin Waits("WRITING") /\ s \in live /\ live' = live /\ wsleep' = wsleep \cup {s}
    BY DEF GrantStep, SameStreams, WriterInv, NoLostWriter, Waits
  <1>2. CASE Room(sw) <= 0
    <2>1. write_wait' = [write_wait EXCEPT ![s] = "WINDOW"] /\ UNCHANGED outVars
      BY <1>2 DEF GrantStep, on_write_window_ready
    <2>2. Waits("WRITING")' = Waits("WRITING") /\ Waits("WINDOW")' = Waits("WINDOW") \cup {s}
      BY <1>0, <1>1, <2>1 DEF Waits
    <2>3. OnlyQueues BY <2>1, PushQueues
    <2>4. \A x \in Streams : write_wait'[x] # "none" => x \in live'
      BY <1>0, <1>1, <2>1 DEF WriterInv
    <2>5. wsleep' = Waits("WINDOW")' \cup Waits("WRITING")'
      BY <1>1, <2>2 DEF WriterInv, NoLostWriter
    <2> QED BY <2>2, <2>3, <2>4, <2>5, WritersKept
  <1>3. CASE ~(Room(sw) <= 0)
    <2>1. /\ write_wait' = [write_wait EXCEPT ![s] = "WRITING"]
          /\ write_buffer' = Append(write_buffer, s) /\ write_processing' = TRUE
      BY <1>3 DEF GrantStep, on_write_window_ready
    <2>2. /\ Waits("WRITING")' = Waits("WRITING") \cup {s}
          /\ Waits("WINDOW")' = Waits("WINDOW") \ {s}
      BY <1>0, <1>1, <2>1 DEF Waits
    <2>3. s \notin Buffered(write_buffer) /\ Solo(write_buffer)
      BY <1>1 DEF WriterInv, NoLostWriter, Solo
    <2>4. Buffered(write_buffer)' = Buffered(write_buffer) \cup {s} /\ Solo(write_buffer)'
      BY <1>0, <2>1, <2>3, BufferedAppend
    <2>5. \A x \in Streams : write_wait'[x] # "none" => x \in live'
      BY <1>0, <1>1, <2>1 DEF WriterInv
    <2>6. wsleep' = Waits("WINDOW")' \cup Waits("WRITING")'
      BY <1>1, <2>2 DEF WriterInv, NoLostWriter
    <2>7. Waits("WRITING")' = Buffered(write_buffer)'
      BY <2>2, <2>4 DEF WriterInv, NoLostWriter
    <2> QED BY <2>1, <2>4, <2>5, <2>6, <2>7 DEF WriterInv, NoLostWriter, Solo
  <1> QED BY <1>2, <1>3

\* close takes every writer off its stream; what is being written is waited
\* for until http2_buff::clean, unless the write has failed.
LEMMA CloseWriters ==
  ASSUME FlowInv, ContextInv, WriterInv, NEW read \in BOOLEAN, CloseStep(read)
  PROVE  WriterInv'
  <1> DEFINE gone == can_destroy(processing, read_processing /\ ~read, write_processing /\ read)
             back == {s \in node : TakesWrite(s)}
                       \cup (IF read THEN {} ELSE Buffered(write_buffer))
  <1>0. write_wait \in [Streams -> WaitKinds] /\ wsleep \subseteq Streams
    BY DEF FlowInv, TypeOK, WaitType
  <1>1. /\ live' = live /\ wsleep' = wsleep \ back
        /\ \A s \in Streams : write_wait'[s] = IF s \in back THEN "none" ELSE write_wait[s]
        /\ write_processing' = (write_processing /\ read)
    BY DEF CloseStep, close
  <1>2. \A s \in Streams : write_wait[s] # "none" => s \in node /\ s \in live
    BY DEF WriterInv, FlowInv, TreeInv
  <1>3. CASE gone
    <2>1. processing = 0 BY <1>3 DEF can_destroy
    <2>2. live = {} BY <2>1, NoSinks DEF CloseStep
    <2>3. \A s \in Streams : write_wait'[s] = "none" /\ write_wait[s] = "none"
      BY <1>1, <1>2, <2>2
    <2>4. write_buffer' = <<>> BY <1>3 DEF CloseStep, close, DeleteThis
    <2>5. wsleep' \subseteq wsleep BY <1>1
    <2> QED BY <1>1, <2>2, <2>3, <2>4, <2>5, WritersGone
  <1>4. CASE ~gone /\ read
    <2>1. write_buffer' = write_buffer BY <1>4 DEF CloseStep, close
    <2>2. write_processing' = write_processing
      BY <1>1, <1>4 DEF FlowInv, TypeOK, OutType
    <2>3. OnlyQueues BY <2>1, <2>2, PushQueues
    <2>4. back = {s \in node : TakesWrite(s)} BY <1>4
    <2> HIDE DEF back
    <2>5. Waits("WRITING")' = Waits("WRITING") /\ Waits("WINDOW")' = {}
      BY <1>1, <1>2, <2>4 DEF Waits, TakesWrite
    <2>6. wsleep' = Waits("WRITING")
      BY <1>1, <1>2, <2>4 DEF Waits, TakesWrite, WriterInv, NoLostWriter
    <2>7. \A s \in Streams : write_wait'[s] # "none" => s \in live' BY <1>1, <1>2
    <2> QED BY <2>3, <2>5, <2>6, <2>7, WritersKept
  <1>5. CASE ~gone /\ ~read
    <2>1. write_buffer' = <<>> BY <1>5 DEF CloseStep, close
    <2>2. \A s \in Streams : write_wait'[s] = "none"
      BY <1>1, <1>2, <1>5 DEF TakesWrite, WriterInv, NoLostWriter, Waits
    <2>3. wsleep' = {}
      BY <1>0, <1>1, <1>2, <1>5 DEF TakesWrite, WriterInv, NoLostWriter, Waits
    <2>4. Waits("WRITING")' = {} /\ Waits("WINDOW")' = {} BY <2>2 DEF Waits
    <2>5. Buffered(write_buffer)' = {} BY <2>1 DEF Buffered
    <2>6. \A i, j \in 1..Len(write_buffer') : i = j BY <2>1
    <2> QED BY <2>2, <2>3, <2>4, <2>5, <2>6 DEF WriterInv, NoLostWriter
  <1> QED BY <1>3, <1>4, <1>5

\* http2_buff::clean wakes exactly the writers whose buffers are written.
LEMMA WriteDoneWriters ==
  ASSUME FlowInv, ContextInv, WriterInv, NEW n \in 1..Len(write_buffer), WriteDone(n)
  PROVE  WriterInv'
  <1> DEFINE written == Buffered(SubSeq(write_buffer, 1, n))
             rest == SubSeq(write_buffer, n + 1, Len(write_buffer))
             gone == can_destroy(processing, read_processing, GoesOnWriting(n))
  <1>0. /\ write_wait \in [Streams -> WaitKinds] /\ wsleep \subseteq Streams
        /\ write_buffer \in Buffers /\ Solo(write_buffer)
    BY DEF FlowInv, TypeOK, WaitType, OutType, Buffers, WriterInv, NoLostWriter, Solo
  <1>1. /\ live' = live /\ wsleep' = wsleep \ written /\ ~deleted
        /\ \A s \in Streams : write_wait'[s] = IF s \in written THEN "none" ELSE write_wait[s]
        /\ write_processing' = GoesOnWriting(n)
    BY DEF WriteDone, Writable
  <1>2. /\ written \subseteq Buffered(write_buffer)
        /\ Buffered(rest) = Buffered(write_buffer) \ written /\ Solo(rest)
        /\ Buffered(rest) # {} => n < Len(write_buffer)
    BY <1>0, BufferedRest
  <1>3. CASE gone
    <2>1. processing = 0 BY <1>3 DEF can_destroy
    <2>2. live = {} BY <1>1, <2>1, NoSinks
    <2>3. \A s \in Streams : write_wait'[s] = "none" /\ write_wait[s] = "none"
      BY <1>1, <2>2 DEF WriterInv
    <2>4. DeleteThis(processing) BY <1>3 DEF WriteDone
    <2>5. write_buffer' = <<>> BY <2>4 DEF DeleteThis
    <2>6. wsleep' \subseteq wsleep BY <1>1
    <2> QED BY <1>1, <2>2, <2>3, <2>5, <2>6, WritersGone
  <1>4. CASE ~gone
    <2>1. write_buffer' = rest BY <1>4 DEF WriteDone
    <2> HIDE DEF written, rest
    <2>2. written \subseteq Waits("WRITING") BY <1>2 DEF WriterInv, NoLostWriter
    <2>3. Waits("WRITING")' = Waits("WRITING") \ written /\ Waits("WINDOW")' = Waits("WINDOW")
      BY <1>1, <2>2 DEF Waits
    <2>4. Waits("WRITING") \cap Waits("WINDOW") = {} BY DEF Waits
    <2>5. wsleep' = Waits("WINDOW")' \cup Waits("WRITING")'
      BY <1>1, <2>2, <2>3, <2>4 DEF WriterInv, NoLostWriter
    <2>6. Waits("WRITING")' = Buffered(write_buffer)'
      BY <1>2, <2>1, <2>3 DEF WriterInv, NoLostWriter
    <2>7. Solo(write_buffer)' BY <1>2, <2>1
    <2>8. Waits("WRITING")' # {} => write_processing'
      BY <1>1, <1>2, <2>1, <2>6 DEF GoesOnWriting
    <2>9. \A s \in Streams : write_wait'[s] # "none" => s \in live'
      BY <1>1 DEF WriterInv
    <2> QED BY <2>5, <2>6, <2>7, <2>8, <2>9 DEF WriterInv, NoLostWriter, Solo
  <1> QED BY <1>3, <1>4

\* A fiber that ends does not wait to write.
LEMMA FinishWriters ==
  ASSUME FlowInv, ContextInv, WriterInv, ContextInv', NEW s \in Streams, NEW e \in BOOLEAN,
         Finish(s, e)
  PROVE  WriterInv'
  <1>1. /\ live' = live \ {s} /\ write_wait[s] = "none" /\ UNCHANGED writeWaitVars
    BY DEF Finish
  <1>2. \A x \in Streams : write_wait'[x] # "none" => x \in live'
    BY <1>1 DEF WriterInv
  <1>3. OnlyQueues \/ (live' = {} /\ write_buffer' = <<>>)
    <2>1. PICK gone \in BOOLEAN, last \in SUBSET Streams, fin1 \in SUBSET Flags :
            FinishParts(s, gone, last, fin1)
      BY FinishDoes
    <2>2. CASE gone
      <3>1. processing = 1 /\ write_buffer' = <<>> BY <2>1, <2>2 DEF FinishParts
      <3>2. ~deleted /\ s \in live BY DEF Finish
      <3>3. IsFiniteSet(live) /\ processing = Cardinality(live) BY <3>2 DEF ContextInv
      <3>4. IsFiniteSet(live') /\ Cardinality(live') = 0
        BY <1>1, <3>1, <3>2, <3>3, FS_RemoveElement
      <3> QED BY <3>1, <3>4, FS_EmptySet
    <2>3. CASE ~gone
      <3>1. FinishParts(s, gone, last, fin1) => OnlyQueues BY <2>3 DEF FinishParts
      <3> QED BY <2>1, <3>1
    <2> QED BY <2>2, <2>3
  <1>4. CASE OnlyQueues
    BY <1>1, <1>2, <1>4, WritersKept DEF Waits, WriterInv, NoLostWriter
  <1>5. CASE live' = {} /\ write_buffer' = <<>>
    BY <1>1, <1>2, <1>5, WritersGone
  <1> QED BY <1>3, <1>4, <1>5

\* Every step keeps WriterInv.
LEMMA NextWriters ==
  ASSUME FlowInv, ContextInv, WriterInv, ContextInv', [Next]_vars
  PROVE  WriterInv'
  <1>0. write_wait \in [Streams -> WaitKinds] /\ wsleep \subseteq Streams
    BY DEF FlowInv, TypeOK, WaitType
  <1>1. OnlyQueues /\ UNCHANGED writeWaitVars /\ live \subseteq live' => WriterInv'
    BY WritersKept DEF Waits, WriterInv, NoLostWriter
  <1>2. CASE IdleStep BY <1>1, <1>2 DEF IdleStep, SameStreams
  <1>3. ASSUME NEW s \in Streams, CutStep(s) PROVE WriterInv'
    <2>1. /\ OnlyQueues /\ live' = live
          /\ \A x \in Streams : write_wait'[x] = IF x \in {s} /\ TakesWrite(x) THEN "none"
                                                 ELSE write_wait[x]
          /\ wsleep' = wsleep \ {x \in {s} : TakesWrite(x)}
      BY <1>3 DEF CutStep, SameStreams, Cut
    <2>2. Waits("WRITING")' = Waits("WRITING") BY <2>1 DEF Waits, TakesWrite
    <2>3. wsleep' = Waits("WINDOW")' \cup Waits("WRITING")'
      BY <2>1 DEF Waits, TakesWrite, WriterInv, NoLostWriter
    <2>4. \A x \in Streams : write_wait'[x] # "none" => x \in live'
      BY <2>1 DEF WriterInv
    <2> QED BY <2>1, <2>2, <2>3, <2>4, WritersKept
  <1>4. ASSUME NEW s \in Streams, NEW sw \in Int, NEW blen \in Nat, NEW file \in BOOLEAN,
               GrantStep(s, sw, blen, file)
        PROVE  WriterInv'
    BY <1>4, GrantWriters
  <1>5. ASSUME NEW s \in live, NEW kind \in {"none", "HUP"},
               write_wait' = [write_wait EXCEPT ![s] = kind],
               s \notin wsleep \/ write_wait[s] \in {"none", "HUP"},
               live' = live, OnlyQueues, UNCHANGED wsleep
        PROVE  WriterInv'
    <2>1. s \in Streams BY DEF FlowInv, TypeOK, TreeType
    <2>2. write_wait[s] \in {"none", "HUP"}
      BY <1>0, <1>5, <2>1 DEF WriterInv, NoLostWriter, Waits, WaitKinds
    <2>3. Waits("WRITING")' = Waits("WRITING") /\ Waits("WINDOW")' = Waits("WINDOW")
      BY <1>0, <1>5, <2>1, <2>2 DEF Waits
    <2>4. \A x \in Streams : write_wait'[x] # "none" => x \in live'
      BY <1>0, <1>5, <2>1 DEF WriterInv
    <2> QED BY <1>5, <2>3, <2>4, WritersKept DEF WriterInv, NoLostWriter
  <1>6. ASSUME NEW s \in Streams, NEW kind \in {"none", "HUP"}, HupStep(s, kind)
         PROVE  WriterInv'
    BY <1>5, <1>6, PushQueues DEF HupStep, SameStreams
  <1>7. ASSUME NEW s \in Streams, NEW rl \in ReadLens, Read(s, rl) PROVE WriterInv'
    <2>1. CASE write_wait[s] \in {"none", "HUP"}
      <3>1. write_wait' = [write_wait EXCEPT ![s] = "none"]
        BY <1>0, <1>7, <2>1 DEF Read
      <3>2. s \in live /\ live' = live /\ UNCHANGED wsleep /\ OnlyQueues
        BY <1>7, PushQueues DEF Read, Running
      <3> QED BY <1>5, <2>1, <3>1, <3>2
    <2>2. CASE write_wait[s] \notin {"none", "HUP"}
      <3>1. UNCHANGED writeWaitVars /\ live' = live
        BY <1>0, <1>7, <2>2 DEF Read
      <3> QED BY <1>1, <1>7, <3>1, PushQueues DEF Read
    <2> QED BY <2>1, <2>2
  <1>8. ASSUME NEW read \in BOOLEAN, CloseStep(read) PROVE WriterInv'
    BY <1>8, CloseWriters
  <1>9. ASSUME NEW s \in Streams, NEW f \in BOOLEAN, NEW w \in BOOLEAN,
               NewHeaders(s, f, w) \/ Trailers(s, f, w)
        PROVE  WriterInv'
    <2>1. UNCHANGED <<outVars, writeWaitVars>> /\ live \subseteq live'
      BY <1>9 DEF NewHeaders, Trailers
    <2> QED BY <1>1, <2>1, PushQueues
  <1>10. CASE \/ NewHeadersComplete \/ TrailersComplete \/ SkipComplete
             \/ \E n \in 1..length, rl \in ReadLens : DataGoesOn(n, rl)
    <2>1. UNCHANGED <<outVars, writeWaitVars>> /\ live \subseteq live'
      BY <1>10 DEF NewHeadersComplete, TrailersComplete, SkipComplete, DataGoesOn
    <2> QED BY <1>1, <2>1, PushQueues
  <1>11. ASSUME NEW s \in Streams, NEW L \in DataLens, NEW f \in BOOLEAN, NEW pad \in BOOLEAN,
                NEW rl \in ReadLens, NEW n \in 0..L, Data(s, L, f, pad, n, rl)
         PROVE  WriterInv'
    BY <1>1, <1>11, PushQueues DEF Data
  <1>12. ASSUME NEW s \in Streams, NEW b \in BodySizes, StartResponse(s, b)
         PROVE  WriterInv'
    BY <1>1, <1>12, PushQueues DEF StartResponse
  <1> QED
    BY NextShapes, <1>2, <1>3, <1>4, <1>6, <1>7, <1>8, <1>9, <1>10, <1>11, <1>12,
       WriteDoneWriters, FinishWriters DEF Shapes

-----------------------------------------------------------------------------
(* Who waits to read.                                                      *)

\* Only fibers wait on a stream for its input.
ReaderInv == NoLostReader /\ read_wait \subseteq live

\* A step that puts nobody to sleep and resets nobody that still waits.
LEMMA ReadersKept ==
  ASSUME FlowInv', ReaderInv, rsleep' = read_wait', read_wait' \subseteq read_wait,
         \A s \in read_wait' : s \in live' /\ (Has(s, "rst")' => Has(s, "rst"))
  PROVE  ReaderInv'
  BY DEF ReaderInv, NoLostReader, FlowInv, TreeInv

\* The last bytes of a frame end the input of no other stream.
LEMMA CompleteReaders ==
  ASSUME FlowInv, NEW s \in Streams \cup {NoStream}, NEW fl \in [Streams -> SUBSET Flags],
         NEW nm, state_complete(s, fl, nm),
         \A x \in Streams : "rst" \in fl[x] => Has(x, "rst")
  PROVE  \A x \in Streams : Has(x, "rst")' => Has(x, "rst")
  <1>1. CASE flag' = fl BY <1>1 DEF Has
  <1>2. CASE flag' = [flag EXCEPT ![s] = {}]
    BY <1>2 DEF Has, FlowInv, TypeOK, FlagType
  <1> QED BY <1>1, <1>2 DEF state_complete, Destroy

\* state_read_data wakes the reader that it serves.
LEMMA ReadDataReaders ==
  ASSUME FlowInv, FlowInv', ReaderInv, NEW s \in Streams, NEW left, NEW f, NEW pad, NEW n, NEW rl, NEW nm,
         state_read_data(s, left, f, pad, n, rl, nm), live' = live
  PROVE  ReaderInv'
  <1> DEFINE waits == s \in read_wait
             ends == n = left /\ f
             held == nm[s].buffered + n
             taken == IF waits /\ n > 0 THEN Min(rl, held) ELSE 0
             nm1 == [nm EXCEPT ![s].buffered = held - taken]
             fl1 == IF ends THEN [flag EXCEPT ![s] = @ \cup {"in_closed"}] ELSE flag
  <1>0. flag \in [Streams -> SUBSET Flags] BY DEF FlowInv, TypeOK, FlagType
  <1>1. fl1 \in [Streams -> SUBSET Flags] BY <1>0 DEF Flags
  <1>2. \A x \in Streams : "rst" \in fl1[x] => Has(x, "rst") BY <1>0 DEF Has
  <1>3. \/ UNCHANGED readWaitVars
        \/ read_wait' = read_wait \ {s} /\ rsleep' = rsleep \ {s}
    BY DEF state_read_data
  <1>4. flag' = fl1 \/ state_complete(s, fl1, nm1) BY DEF state_read_data
  <1> HIDE DEF fl1, nm1
  <1>5. \A x \in Streams : Has(x, "rst")' => Has(x, "rst")
    <2>1. CASE flag' = fl1 BY <1>2, <2>1 DEF Has
    <2>2. CASE state_complete(s, fl1, nm1) BY <1>1, <1>2, <2>2, CompleteReaders
    <2> QED BY <1>4, <2>1, <2>2
  <1>6. read_wait' \subseteq read_wait /\ rsleep' = read_wait' /\ read_wait' \subseteq live'
    BY <1>3 DEF ReaderInv, NoLostReader
  <1> QED BY <1>5, <1>6, ReadersKept DEF FlowInv, TypeOK, WaitType

\* A step that leaves readers and sinks alone and resets nobody.
LEMMA ReadersQuiet ==
  ASSUME FlowInv, FlowInv', ReaderInv, UNCHANGED readWaitVars, live \subseteq live',
         \A s \in Streams : Has(s, "rst")' => Has(s, "rst")
  PROVE  ReaderInv'
  <1>1. read_wait \subseteq Streams BY DEF FlowInv, TypeOK, WaitType
  <1> QED BY <1>1, ReadersKept DEF ReaderInv, NoLostReader

\* Every step keeps ReaderInv.
LEMMA NextReaders ==
  ASSUME FlowInv, ContextInv, ReaderInv, FlowInv', ContextInv', [Next]_vars
  PROVE  ReaderInv'
  <1>0. /\ flag \in [Streams -> SUBSET Flags] /\ flag' \in [Streams -> SUBSET Flags]
        /\ read_wait \subseteq Streams /\ stream \in Streams \cup {NoStream}
        /\ num \in [Streams -> StreamNum]
    BY DEF FlowInv, TypeOK, FlagType, WaitType, ParserType, NumType
  <1>1. CASE IdleStep
    <2>1. \A x \in Streams : Has(x, "rst")' => Has(x, "rst") BY <1>1 DEF IdleStep, Told, Has
    <2> QED BY <1>1, <2>1, ReadersQuiet DEF IdleStep, SameStreams
  <1>2. ASSUME NEW s \in Streams, CutStep(s) PROVE ReaderInv'
    <2>1. /\ read_wait' = read_wait \ {s} /\ rsleep' = rsleep \ {s} /\ live' = live
          /\ \A x \in Streams : flag'[x] = IF x \in {s} THEN flag[x] \cup RstFlags ELSE flag[x]
      BY <1>2 DEF CutStep, Cut, SameStreams
    <2>2. \A x \in read_wait' : x \in live' /\ (Has(x, "rst")' => Has(x, "rst"))
      BY <1>0, <2>1 DEF Has, ReaderInv
    <2> QED BY <2>1, <2>2, ReadersKept DEF ReaderInv, NoLostReader
  <1>3. ASSUME NEW s \in Streams, NEW sw \in Int, NEW blen \in Nat, NEW file \in BOOLEAN,
               GrantStep(s, sw, blen, file)
        PROVE  ReaderInv'
    <2>1. \A x \in Streams : Has(x, "rst")' => Has(x, "rst")
      BY <1>0, <1>3 DEF GrantStep, on_write_window_ready, AsFile, Has
    <2> QED BY <1>3, <2>1, ReadersQuiet DEF GrantStep, SameStreams
  <1>4. ASSUME NEW s \in Streams, NEW kind, HupStep(s, kind) PROVE ReaderInv'
    BY <1>4, ReadersQuiet DEF HupStep, SameStreams, Has
  <1>5. ASSUME NEW read \in BOOLEAN, CloseStep(read) PROVE ReaderInv'
    <2>1. read_wait' = {} /\ rsleep' = {}
      BY <1>5 DEF CloseStep, close, ReaderInv, NoLostReader
    <2> QED BY <2>1 DEF ReaderInv, NoLostReader
  <1>6. ASSUME NEW s \in Streams, NEW f \in BOOLEAN, NEW w \in BOOLEAN, NewHeaders(s, f, w)
        PROVE  ReaderInv'
    <2>1. UNCHANGED readWaitVars /\ live \subseteq live' BY <1>6 DEF NewHeaders
    <2>2. \A x \in Streams : Has(x, "rst")' => Has(x, "rst")
      BY <1>0, <1>6 DEF NewHeaders, Has
    <2> QED BY <2>1, <2>2, ReadersQuiet
  <1>7. CASE NewHeadersComplete
    <2>1. UNCHANGED readWaitVars /\ live \subseteq live' BY <1>7 DEF NewHeadersComplete
    <2>2. \A x \in Streams : Has(x, "rst")' => Has(x, "rst")
      BY <1>0, <1>7 DEF NewHeadersComplete, Has
    <2> QED BY <2>1, <2>2, ReadersQuiet
  <1>8. ASSUME NEW s \in Streams, NEW f \in BOOLEAN, NEW w \in BOOLEAN, Trailers(s, f, w)
        PROVE  ReaderInv'
    <2>1. /\ live' = live
          /\ \/ UNCHANGED readWaitVars
             \/ read_wait' = read_wait \ {s} /\ rsleep' = rsleep \ {s}
      BY <1>8 DEF Trailers
    <2>2. \A x \in Streams : Has(x, "rst")' => Has(x, "rst")
      BY <1>0, <1>8 DEF Trailers, Has
    <2>3. read_wait' \subseteq read_wait /\ rsleep' = read_wait' /\ read_wait' \subseteq live'
      BY <2>1 DEF ReaderInv, NoLostReader
    <2> QED BY <1>0, <2>2, <2>3, ReadersKept
  <1>9. CASE TrailersComplete \/ SkipComplete
    <2>1. /\ live' = live
          /\ \/ UNCHANGED readWaitVars
             \/ read_wait' = read_wait \ {stream} /\ rsleep' = rsleep \ {stream}
      BY <1>9 DEF TrailersComplete, SkipComplete, TrailersDone
    <2>2. state_complete(stream, flag, num) \/ state_complete(NoStream, flag, num)
      BY <1>9 DEF TrailersComplete, SkipComplete, TrailersDone
    <2>3. \A x \in Streams : Has(x, "rst")' => Has(x, "rst")
      BY <1>0, <2>2, CompleteReaders DEF Has
    <2>4. read_wait' \subseteq read_wait /\ rsleep' = read_wait' /\ read_wait' \subseteq live'
      BY <2>1 DEF ReaderInv, NoLostReader
    <2> QED BY <1>0, <2>3, <2>4, ReadersKept
  <1>10. ASSUME NEW s \in Streams, NEW L \in DataLens, NEW f \in BOOLEAN, NEW pad \in BOOLEAN,
                NEW rl \in ReadLens, NEW n \in 0..L, Data(s, L, f, pad, n, rl)
         PROVE  ReaderInv'
    BY <1>10, ReadDataReaders DEF Data
  <1>11. ASSUME NEW n \in 1..length, NEW rl \in ReadLens, DataGoesOn(n, rl)
         PROVE  ReaderInv'
    <2>1. stream \in Streams
      BY <1>11 DEF DataGoesOn, FrameGoesOn, FlowInv, TypeOK, ParserType
    <2> QED BY <1>11, <2>1, ReadDataReaders DEF DataGoesOn
  <1>12. ASSUME NEW n \in 1..Len(write_buffer), WriteDone(n) PROVE ReaderInv'
    <2>1. UNCHANGED readWaitVars /\ live' = live BY <1>12 DEF WriteDone
    <2>2. \A x \in Streams : Has(x, "rst")' => Has(x, "rst") BY <1>12 DEF WriteDone, Has
    <2> QED BY <2>1, <2>2, ReadersQuiet
  <1>13. ASSUME NEW s \in Streams, NEW rl \in ReadLens, Read(s, rl) PROVE ReaderInv'
    <2>1. s \in live /\ live' = live /\ flag' = flag BY <1>13 DEF Read, Running
    <2>2. CASE UNCHANGED readWaitVars BY <2>1, <2>2, ReadersQuiet DEF Has
    <2>3. CASE ~UNCHANGED readWaitVars
      <3>1. /\ read_wait' = read_wait \cup {s} /\ rsleep' = rsleep \cup {s}
            /\ ~Has(s, "rst")
        BY <1>13, <2>3 DEF Read
      <3> QED BY <2>1, <3>1 DEF ReaderInv, NoLostReader, FlowInv, TreeInv, Has
    <2> QED BY <2>2, <2>3
  <1>14. ASSUME NEW s \in Streams, NEW b \in BodySizes, StartResponse(s, b)
         PROVE  ReaderInv'
    <2>1. UNCHANGED readWaitVars /\ live' = live BY <1>14 DEF StartResponse
    <2>2. \A x \in Streams : Has(x, "rst")' => Has(x, "rst")
      BY <1>0, <1>14 DEF StartResponse, Has
    <2> QED BY <2>1, <2>2, ReadersQuiet
  <1>15. ASSUME NEW s \in Streams, NEW e \in BOOLEAN, Finish(s, e) PROVE ReaderInv'
    <2>1. /\ UNCHANGED readWaitVars /\ live' = live \ {s} /\ s \notin rsleep
      BY <1>15 DEF Finish
    <2>2. \A x \in Streams \ {s} : Has(x, "rst")' => Has(x, "rst")
      <3>1. PICK gone \in BOOLEAN, last \in SUBSET Streams, more \in SUBSET Flags :
              FinishOutline(s, gone, last, more)
        BY <1>15, FinishShape
      <3> QED BY <3>1 DEF FinishOutline, Has
    <2> QED BY <1>0, <2>1, <2>2, ReadersKept DEF ReaderInv, NoLostReader
  <1> QED
    BY NextShapes, <1>1, <1>2, <1>3, <1>4, <1>5, <1>6, <1>7, <1>8, <1>9, <1>10, <1>11,
       <1>12, <1>13, <1>14, <1>15 DEF Shapes

-----------------------------------------------------------------------------
(* What is closed.                                                         *)

\* A reset closes the output, and writers wait only where it is open.
ClosedInv ==
  /\ ReadSideClosed
  /\ WindowWaiterOpen
  /\ \A s \in Streams : Has(s, "rst") => Has(s, "out_closed")

\* A step that neither closes the connection nor the output of a stream with
\* a waiting writer, and takes no flag of a reset from a sink's stream.
LEMMA ClosedKept ==
  ASSUME FlowInv, ClosedInv, FlowInv', ReaderInv', UNCHANGED <<read_processing, closed>>,
         QuietWaits,
         read_processing \/ live' \subseteq live,
         \A s \in live' : RstFlags \cap flag[s] \subseteq flag'[s],
         \A s \in Streams : Has(s, "rst")' => Has(s, "out_closed")',
         \A s \in Streams : /\ write_wait'[s] = "WINDOW"
                            /\ Has(s, "out_closed")'
                            => Has(s, "out_closed")
  PROVE  ClosedInv'
  <1>1. WindowWaiterOpen'
    BY DEF ClosedInv, WindowWaiterOpen, Waits, IsWriteClosed, QuietWaits
  <1>2. ReadSideClosed'
    <2> SUFFICES ASSUME ~read_processing', NEW s \in live'
                 PROVE  /\ {"in_closed", "out_closed", "rst"} \subseteq flag'[s]
                        /\ s \notin read_wait' /\ write_wait'[s] # "WINDOW"
      BY DEF ReadSideClosed
    <2>1. s \in live /\ s \in Streams BY DEF FlowInv, TypeOK, TreeType
    <2>2. {"in_closed", "out_closed", "rst"} \subseteq flag'[s]
      BY <2>1 DEF ClosedInv, ReadSideClosed, RstFlags
    <2>3. s \notin read_wait' BY <2>2 DEF ReaderInv, NoLostReader, Has
    <2>4. write_wait'[s] # "WINDOW" BY <1>1, <2>1 DEF WindowWaiterOpen, Waits, IsWriteClosed
    <2> QED BY <2>2, <2>3, <2>4
  <1> QED BY <1>1, <1>2 DEF ClosedInv

\* state_complete clears all flags of a stream or none.
LEMMA CompleteFlags ==
  ASSUME FlowInv, NEW s \in Streams \cup {NoStream}, NEW fl \in [Streams -> SUBSET Flags],
         NEW nm, state_complete(s, fl, nm),
         \A x \in Streams : fl[x] \in {flag[x], flag[x] \cup {"in_closed"}},
         live' \subseteq live
  PROVE  /\ \A x \in Streams : flag'[x] \in {{}, flag[x], flag[x] \cup {"in_closed"}}
         /\ \A x \in live' : RstFlags \cap flag[x] \subseteq flag'[x]
  <1>0. flag \in [Streams -> SUBSET Flags] /\ live \subseteq Streams
    BY DEF FlowInv, TypeOK, FlagType, TreeType
  <1>1. CASE s # NoStream /\ Has(s, "destroy_by_http2")
    <2>1. flag' = [flag EXCEPT ![s] = {}] BY <1>1 DEF state_complete, Destroy
    <2>2. s \notin live BY <1>1 DEF FlowInv, TreeInv
    <2> QED BY <1>0, <2>1, <2>2
  <1>2. CASE ~(s # NoStream /\ Has(s, "destroy_by_http2"))
    <2>1. flag' = fl BY <1>2 DEF state_complete
    <2> QED BY <1>0, <2>1
  <1> QED BY <1>1, <1>2

\* state_read_data closes at most the input.
LEMMA ReadDataFlags ==
  ASSUME FlowInv, NEW s \in Streams, NEW left, NEW f, NEW pad, NEW n, NEW rl, NEW nm,
         state_read_data(s, left, f, pad, n, rl, nm), live' = live
  PROVE  /\ \A x \in Streams : flag'[x] \in {{}, flag[x], flag[x] \cup {"in_closed"}}
         /\ \A x \in live' : RstFlags \cap flag[x] \subseteq flag'[x]
  <1> DEFINE waits == s \in read_wait
             ends == n = left /\ f
             held == nm[s].buffered + n
             taken == IF waits /\ n > 0 THEN Min(rl, held) ELSE 0
             nm1 == [nm EXCEPT ![s].buffered = held - taken]
             fl1 == IF ends THEN [flag EXCEPT ![s] = @ \cup {"in_closed"}] ELSE flag
  <1>0. flag \in [Streams -> SUBSET Flags] /\ live \subseteq Streams
    BY DEF FlowInv, TypeOK, FlagType, TreeType
  <1>1. fl1 \in [Streams -> SUBSET Flags] BY <1>0 DEF Flags
  <1>2. \A x \in Streams : fl1[x] \in {flag[x], flag[x] \cup {"in_closed"}} BY <1>0
  <1>3. flag' = fl1 \/ state_complete(s, fl1, nm1) BY DEF state_read_data
  <1> HIDE DEF fl1, nm1
  <1>4. CASE flag' = fl1 BY <1>0, <1>2, <1>4
  <1>5. CASE state_complete(s, fl1, nm1) BY <1>1, <1>2, <1>5, CompleteFlags
  <1> QED BY <1>3, <1>4, <1>5

\* close resets the stream of every sink and wakes every writer that waits
\* for window.
LEMMA CloseClosed ==
  ASSUME FlowInv, ClosedInv, ReaderInv, FlowInv', ReaderInv', NEW read \in BOOLEAN, CloseStep(read)
  PROVE  ClosedInv'
  <1> DEFINE gone == can_destroy(processing, read_processing /\ ~read, write_processing /\ read)
             last == IF gone THEN LastContexts ELSE {}
             back == {s \in node : TakesWrite(s)}
                       \cup (IF read THEN {} ELSE Buffered(write_buffer))
  <1>0. live \subseteq node /\ live \subseteq Streams /\ last \cap live = {}
    BY LastNotLive DEF FlowInv, TypeOK, TreeType, TreeInv
  <1>1. /\ live' = live
        /\ \A s \in Streams : write_wait'[s] = IF s \in back THEN "none" ELSE write_wait[s]
        /\ \A x \in Streams : flag'[x] = IF x \in last THEN {}
                                 ELSE IF x \in node THEN flag[x] \cup RstFlags ELSE flag[x]
    BY DEF CloseStep, close
  <1>2. \A s \in Streams : write_wait'[s] # "WINDOW"
    <2> SUFFICES ASSUME NEW s \in Streams, write_wait[s] = "WINDOW" PROVE s \in back
      BY <1>1
    <2>1. s \in node BY <1>0 DEF FlowInv, TreeInv, Waits
    <2> QED BY <2>1 DEF TakesWrite
  <1> HIDE DEF last, back
  <1>3. \A s \in live' : RstFlags \subseteq flag'[s] BY <1>0, <1>1
  <1>4. \A s \in live' : s \notin read_wait'
    BY <1>3 DEF ReaderInv, NoLostReader, RstFlags, Has
  <1>5. \A s \in Streams : Has(s, "rst")' => Has(s, "out_closed")'
    BY <1>1 DEF ClosedInv, Has, RstFlags
  <1>6. WindowWaiterOpen' BY <1>2 DEF WindowWaiterOpen, Waits
  <1>7. ReadSideClosed' BY <1>0, <1>1, <1>2, <1>3, <1>4 DEF ReadSideClosed, RstFlags
  <1> QED BY <1>5, <1>6, <1>7 DEF ClosedInv

\* ~KHttp2Sink closes both halves of what is left.
LEMMA FinishClosed ==
  ASSUME FlowInv, ClosedInv, FlowInv', ReaderInv', NEW s \in Streams, NEW e \in BOOLEAN, Finish(s, e)
  PROVE  ClosedInv'
  <1>1. /\ s \in live /\ live' = live \ {s} /\ write_wait[s] = "none"
        /\ UNCHANGED <<read_processing, closed, write_wait>>
    BY DEF Finish
  <1>2. PICK gone \in BOOLEAN, last \in SUBSET Streams, fin1 \in SUBSET Flags :
          FinishParts(s, gone, last, fin1)
    BY FinishDoes
  <1> USE DEF FinishParts, FinishOutline
  <1>3. /\ last \cap live' = {}
        /\ \A x \in Streams : flag'[x] = IF x \in last THEN {}
                                 ELSE IF x = s THEN flag[x] \cup fin1 ELSE flag[x]
    BY <1>1, <1>2, LastNotLive
  <1>4. \A x \in live' : RstFlags \cap flag[x] \subseteq flag'[x]
    BY <1>1, <1>3 DEF FlowInv, TypeOK, TreeType
  <1>5. \A x \in Streams : Has(x, "rst")' => Has(x, "out_closed")'
    BY <1>2, <1>3 DEF ClosedInv, Has
  <1>6. \A x \in Streams : write_wait'[x] = "WINDOW" /\ Has(x, "out_closed")' => Has(x, "out_closed")
    BY <1>1, <1>3 DEF Has
  <1>7. QuietWaits BY <1>1 DEF QuietWaits
  <1> QED BY <1>1, <1>4, <1>5, <1>6, <1>7, ClosedKept

\* Every step keeps ClosedInv.
LEMMA NextClosed ==
  ASSUME FlowInv, ContextInv, WriterInv, ReaderInv, ClosedInv, FlowInv', ReaderInv', [Next]_vars
  PROVE  ClosedInv'
  <1>0. /\ flag \in [Streams -> SUBSET Flags] /\ live \subseteq Streams /\ live' \subseteq Streams
        /\ write_wait \in [Streams -> WaitKinds] /\ stream \in Streams \cup {NoStream}
    BY DEF FlowInv, TypeOK, FlagType, TreeType, WaitType, ParserType
  <1>1. CASE IdleStep
    <2>1. \A x \in Streams : Told(x)' = Told(x) BY <1>1 DEF IdleStep
    <2>2. /\ \A x \in live' : RstFlags \cap flag[x] \subseteq flag'[x]
          /\ \A x \in Streams : Has(x, "rst")' => Has(x, "out_closed")'
          /\ \A x \in Streams : Has(x, "out_closed")' => Has(x, "out_closed")
      BY <1>0, <2>1 DEF Told, Has, RstFlags, ClosedInv
    <2> QED BY <1>1, <2>2, ClosedKept DEF IdleStep, SameStreams, QuietWaits
  <1>2. ASSUME NEW s \in Streams, CutStep(s) PROVE ClosedInv'
    <2>1. /\ UNCHANGED <<live, read_processing, closed>>
          /\ \A x \in Streams : flag'[x] = IF x \in {s} THEN flag[x] \cup RstFlags ELSE flag[x]
          /\ \A x \in Streams : write_wait'[x] = IF x \in {s} /\ TakesWrite(x) THEN "none"
                                                 ELSE write_wait[x]
      BY <1>2 DEF CutStep, SameStreams, Cut
    <2>2. QuietWaits /\ write_wait'[s] # "WINDOW" BY <2>1 DEF QuietWaits, TakesWrite
    <2>3. /\ \A x \in live' : RstFlags \cap flag[x] \subseteq flag'[x]
          /\ \A x \in Streams : Has(x, "rst")' => Has(x, "out_closed")'
          /\ \A x \in Streams \ {s} : Has(x, "out_closed")' => Has(x, "out_closed")
      BY <1>0, <2>1 DEF Has, RstFlags, ClosedInv
    <2> QED BY <2>1, <2>2, <2>3, ClosedKept
  <1>3. ASSUME NEW s \in Streams, NEW sw \in Int, NEW blen \in Nat, NEW file \in BOOLEAN,
               GrantStep(s, sw, blen, file)
        PROVE  ClosedInv'
    <2>1. UNCHANGED <<live, read_processing, closed>> /\ s \in Streams /\ ~IsWriteClosed(s)
      BY <1>3 DEF GrantStep, SameStreams, ClosedInv, WindowWaiterOpen, Waits
    <2>2. \A x \in Streams \ {s} : write_wait'[x] = write_wait[x] /\ flag'[x] = flag[x]
      BY <1>0, <1>3 DEF GrantStep, on_write_window_ready
    <2>3. /\ RstFlags \cap flag[s] \subseteq flag'[s]
          /\ Has(s, "rst")' => Has(s, "rst")
          /\ write_wait'[s] = "WINDOW" /\ Has(s, "out_closed")' => Has(s, "out_closed")
      <3>1. CASE Room(sw) <= 0
        BY <1>0, <1>3, <3>1 DEF GrantStep, on_write_window_ready, AsFile, RstFlags, Has
      <3>2. CASE ~(Room(sw) <= 0)
        BY <1>0, <1>3, <3>2 DEF GrantStep, on_write_window_ready, AsFile, RstFlags, Has
      <3> QED BY <3>1, <3>2
    <2>4. WindowWaiterOpen'
      BY <2>1, <2>2, <2>3 DEF ClosedInv, WindowWaiterOpen, Waits, IsWriteClosed, Has
    <2>5. \A x \in live' : RstFlags \cap flag[x] \subseteq flag'[x]
      BY <1>0, <2>1, <2>2, <2>3
    <2>6. \A x \in Streams : Has(x, "rst")' => Has(x, "out_closed")'
      BY <2>2, <2>3 DEF ClosedInv, Has, RstFlags
    <2>7. ReadSideClosed' BY <2>1 DEF IsWriteClosed, ReadSideClosed
    <2> QED BY <2>4, <2>6, <2>7 DEF ClosedInv
  <1>4. ASSUME NEW s \in Streams, NEW kind \in {"none", "HUP"}, HupStep(s, kind) PROVE ClosedInv'
    <2>1. QuietWaits BY <1>0, <1>4 DEF HupStep, QuietWaits
    <2>2. UNCHANGED <<live, read_processing, closed, flag>> BY <1>4 DEF HupStep, SameStreams
    <2> QED BY <2>1, <2>2, ClosedKept DEF Has, ClosedInv
  <1>5. ASSUME NEW read \in BOOLEAN, CloseStep(read) PROVE ClosedInv'
    BY <1>5, CloseClosed
  <1>6. ASSUME NEW s \in Streams, NEW f \in BOOLEAN, NEW w \in BOOLEAN, NewHeaders(s, f, w)
        PROVE  ClosedInv'
    <2>1. /\ UNCHANGED <<read_processing, closed, write_wait>> /\ read_processing
          /\ s \notin live /\ live' \subseteq live \cup {s} /\ s \in node'
          /\ flag'[s] \in SUBSET {"in_closed", "parsed_header"}
          /\ \A x \in Streams \ {s} : flag'[x] = flag[x]
      BY <1>0, <1>6 DEF NewHeaders, FrameStart, Readable, FlowInv, TreeInv
    <2>2. write_wait[s] # "WINDOW" BY <2>1 DEF FlowInv, TreeInv, Waits
    <2>3. WindowWaiterOpen'
      BY <2>1, <2>2 DEF ClosedInv, WindowWaiterOpen, Waits, IsWriteClosed, Has
    <2>4. \A x \in Streams : Has(x, "rst")' => Has(x, "out_closed")'
      BY <2>1 DEF ClosedInv, Has
    <2>5. ReadSideClosed' BY <2>1 DEF ReadSideClosed
    <2> QED BY <2>3, <2>4, <2>5 DEF ClosedInv
  <1>7. ASSUME \/ NewHeadersComplete
               \/ \E s \in Streams, f, w \in BOOLEAN : Trailers(s, f, w)
               \/ TrailersComplete
               \/ \E s \in Streams, L \in DataLens, f, pad \in BOOLEAN, rl \in ReadLens :
                    \E n \in 0..L : Data(s, L, f, pad, n, rl)
               \/ \E n \in 1..length, rl \in ReadLens : DataGoesOn(n, rl)
               \/ SkipComplete
        PROVE  ClosedInv'
    <2>1. /\ UNCHANGED <<read_processing, closed, write_wait>> /\ read_processing
      BY <1>7 DEF NewHeadersComplete, Trailers, TrailersComplete, Data, DataGoesOn, SkipComplete,
         FrameStart, FrameGoesOn, Readable
    <2> DEFINE FewFlags ==
                 \A x \in Streams : flag'[x] \in {{}, flag[x], flag[x] \cup {"in_closed"},
                                                 flag[x] \cup {"parsed_header"}}
    <2>2. FewFlags
      <3>1. CASE NewHeadersComplete
        BY <1>0, <3>1 DEF NewHeadersComplete
      <3>2. ASSUME NEW s \in Streams, NEW f \in BOOLEAN, NEW w \in BOOLEAN, Trailers(s, f, w)
            PROVE  FewFlags
        BY <1>0, <3>2 DEF Trailers
      <3>3. CASE TrailersComplete \/ SkipComplete
        <4>1. state_complete(stream, flag, num) \/ state_complete(NoStream, flag, num)
          BY <3>3 DEF TrailersComplete, SkipComplete, TrailersDone
        <4>2. live' \subseteq live BY <3>3 DEF TrailersComplete, SkipComplete
        <4> QED BY <1>0, <4>1, <4>2, CompleteFlags
      <3>4. ASSUME NEW s \in Streams, NEW L \in DataLens, NEW f \in BOOLEAN, NEW pad \in BOOLEAN,
                   NEW rl \in ReadLens, NEW n \in 0..L, Data(s, L, f, pad, n, rl)
            PROVE  FewFlags
        BY <3>4, ReadDataFlags DEF Data
      <3>5. ASSUME NEW n \in 1..length, NEW rl \in ReadLens, DataGoesOn(n, rl)
            PROVE  FewFlags
        <4>1. stream \in Streams
          BY <3>5 DEF DataGoesOn, FrameGoesOn, FlowInv, TypeOK, ParserType
        <4> QED BY <3>5, <4>1, ReadDataFlags DEF DataGoesOn
      <3> QED BY <1>7, <3>1, <3>2, <3>3, <3>4, <3>5
    <2>3. WindowWaiterOpen'
      BY <2>1, <2>2 DEF ClosedInv, WindowWaiterOpen, Waits, IsWriteClosed, Has
    <2>4. \A x \in Streams : Has(x, "rst")' => Has(x, "out_closed")'
      BY <2>2 DEF ClosedInv, Has
    <2>5. ReadSideClosed' BY <2>1 DEF ReadSideClosed
    <2> QED BY <2>3, <2>4, <2>5 DEF ClosedInv
  <1>8. ASSUME NEW n \in 1..Len(write_buffer), WriteDone(n) PROVE ClosedInv'
    <2> DEFINE gone == can_destroy(processing, read_processing, GoesOnWriting(n))
               last == IF gone THEN LastContexts ELSE {}
               written == Buffered(SubSeq(write_buffer, 1, n))
    <2>1. /\ UNCHANGED <<live, read_processing, closed>>
          /\ \A x \in Streams : flag'[x] = IF x \in last THEN {} ELSE flag[x]
          /\ \A x \in Streams : write_wait'[x] = IF x \in written THEN "none" ELSE write_wait[x]
      BY <1>8 DEF WriteDone
    <2>2. last \cap live = {} BY LastNotLive
    <2> HIDE DEF last, written
    <2>3. QuietWaits BY <2>1 DEF QuietWaits
    <2>4. /\ \A x \in live' : RstFlags \cap flag[x] \subseteq flag'[x]
          /\ \A x \in Streams : Has(x, "rst")' => Has(x, "out_closed")'
          /\ \A x \in Streams : Has(x, "out_closed")' => Has(x, "out_closed")
      BY <1>0, <2>1, <2>2 DEF Has, ClosedInv
    <2> QED BY <2>1, <2>3, <2>4, ClosedKept
  <1>9. ASSUME NEW s \in Streams, NEW rl \in ReadLens, Read(s, rl) PROVE ClosedInv'
    <2>1. UNCHANGED <<live, read_processing, closed, flag>> BY <1>9 DEF Read
    <2>2. QuietWaits BY <1>0, <1>9 DEF Read, QuietWaits
    <2> QED BY <2>1, <2>2, ClosedKept DEF Has, ClosedInv
  <1>10. ASSUME NEW s \in Streams, NEW b \in BodySizes, StartResponse(s, b) PROVE ClosedInv'
    <2>1. UNCHANGED <<live, read_processing, closed, write_wait>> /\ s \notin wsleep
      BY <1>10 DEF StartResponse, MayWrite
    <2>2. write_wait[s] # "WINDOW" BY <2>1 DEF WriterInv, NoLostWriter, Waits
    <2>3. /\ \A x \in Streams \ {s} : flag'[x] = flag[x]
          /\ flag'[s] \in {(flag[s] \ {"send_header"}) \cup {"responded"} \cup {"out_closed"},
                           (flag[s] \ {"send_header"}) \cup {"responded"},
                           flag[s] \cup {"responded"}}
      BY <1>0, <1>10 DEF StartResponse
    <2>4. /\ \A x \in live' : RstFlags \cap flag[x] \subseteq flag'[x]
          /\ \A x \in Streams : Has(x, "rst")' => Has(x, "out_closed")'
          /\ \A x \in Streams \ {s} : Has(x, "out_closed")' => Has(x, "out_closed")
      BY <1>0, <2>1, <2>3 DEF Has, ClosedInv, RstFlags
    <2> QED BY <2>1, <2>2, <2>4, ClosedKept DEF QuietWaits
  <1>11. ASSUME NEW s \in Streams, NEW e \in BOOLEAN, Finish(s, e) PROVE ClosedInv'
    BY <1>11, FinishClosed
  <1> QED
    BY NextShapes, <1>1, <1>2, <1>3, <1>4, <1>5, <1>6, <1>7, <1>8, <1>9, <1>10, <1>11 DEF Shapes

-----------------------------------------------------------------------------
(* All four layers.                                                        *)

\* The inductive invariant of who waits and what lives.
LifeInv == FlowInv /\ ContextInv /\ WriterInv /\ ReaderInv /\ ClosedInv

\* A connection starts without streams.
LEMMA InitLife == Init => LifeInv
  <1> SUFFICES ASSUME Init PROVE LifeInv OBVIOUS
  <1>1. FlowInv BY InitFlow
  <1>2. ContextInv BY FS_EmptySet DEF Init, ContextInv, Incomplete
  <1>3. WriterInv
    <2>1. Buffered(write_buffer) = {} BY DEF Init, Buffered
    <2>2. Waits("WINDOW") = {} /\ Waits("WRITING") = {} BY DEF Init, Waits
    <2>3. \A i, j \in 1..Len(write_buffer) : i = j BY DEF Init
    <2> QED BY <2>1, <2>2, <2>3 DEF Init, WriterInv, NoLostWriter
  <1>4. ReaderInv BY DEF Init, ReaderInv, NoLostReader
  <1>5. ClosedInv BY DEF Init, ClosedInv, ReadSideClosed, WindowWaiterOpen, Waits, Has
  <1> QED BY <1>1, <1>2, <1>3, <1>4, <1>5 DEF LifeInv

\* LifeInv is inductive.
LEMMA NextLife ==
  ASSUME LifeInv, [Next]_vars
  PROVE  LifeInv'
  <1> USE DEF LifeInv
  <1>1. FlowInv' BY NextFlow
  <1>2. ContextInv' BY NextContexts
  <1>3. WriterInv' BY <1>2, NextWriters
  <1>4. ReaderInv' BY <1>1, <1>2, NextReaders
  <1>5. ClosedInv' BY <1>1, <1>4, NextClosed
  <1> QED BY <1>1, <1>2, <1>3, <1>4, <1>5

\* LifeInv is an invariant.
LEMMA LifeCorrect == Spec => []LifeInv
  <1>1. Init => LifeInv BY InitLife
  <1>2. LifeInv /\ [Next]_vars => LifeInv' BY NextLife
  <1> QED BY <1>1, <1>2, PTL DEF Spec

\* No wakeup of a writer is lost, whatever http2_buff::clean, close,
\* terminate_stream and the window updates do to it in whatever order: a
\* fiber that sleeps in write has its event on the stream, and one that waits
\* for its bytes to be written owns exactly one buffer of a write buffer that
\* is being written.
THEOREM NoWriterLost == Spec => []NoLostWriter
  <1>1. LifeInv => NoLostWriter BY DEF LifeInv, WriterInv
  <1> QED BY <1>1, LifeCorrect, PTL

\* In whichever order a stream, its handler and the connection end, through
\* ~KHttp2Sink, close and ReleaseStateStream: a closed read side has reset
\* every stream, processing counts the sinks and the connection outlives
\* them, and everything that is still reachable is allocated.
THEOREM LifetimesKept == Spec => []Lifetimes
  <1>1. LifeInv => Lifetimes
    <2> SUFFICES ASSUME LifeInv PROVE Lifetimes OBVIOUS
    <2> USE DEF LifeInv
    <2>1. live \subseteq node /\ live \subseteq ctx /\ node \subseteq ctx
      BY DEF ContextInv, FlowInv, TreeInv
    <2>2. Buffered(write_buffer) \subseteq live /\ wsleep \subseteq live
      BY DEF WriterInv, NoLostWriter, Waits
    <2>3. rsleep \subseteq live BY DEF ReaderInv, NoLostReader
    <2>4. NoDangling BY <2>1, <2>2 DEF NoDangling, ContextInv
    <2>5. ConnectionOutlivesStreams BY <2>1, <2>2, <2>3 DEF ConnectionOutlivesStreams, ContextInv
    <2> QED BY <2>4, <2>5 DEF Lifetimes, ClosedInv
  <1> QED BY <1>1, LifeCorrect, PTL

-----------------------------------------------------------------------------
(* The receiving side: what the steps do to the fields of a stream.        *)

\* The stream has lost its context, or has a new one.
Emptied(s) ==
  /\ num'[s].recv_window = StreamRecvWindow
  /\ num'[s].buffered = 0
  /\ num'[s].content_left = 0
  /\ ~Has(s, "responded")'

\* The response of the stream goes on as before, or there is none.
SameResponse(s) ==
  /\ num'[s].content_left = num[s].content_left
  /\ num'[s].wait_len = num[s].wait_len
  /\ Has(s, "responded")' => Has(s, "responded")
  /\ Has(s, "out_closed") => Has(s, "out_closed")'

ResponseKept(s) == Emptied(s) \/ SameResponse(s)

\* What the peer may still send or has sent for the stream.
Granted(s) == num[s].recv_window + Coming(s)
Held(s) == Granted(s) + num[s].buffered

\* So does its input: what is held does not grow, and whoever waits for it
\* has waited before and may hope for no less.
SameInput(s) ==
  /\ Held(s)' <= Held(s)
  /\ Coming(s)' <= Coming(s) \/ Coming(s)' <= num[s].recv_window
  /\ s \in read_wait' =>
       /\ s \in read_wait /\ Granted(s)' >= Granted(s)
       /\ Has(s, "in_closed") => Has(s, "in_closed")'

InputKept(s) ==
  \/ Emptied(s) /\ Coming(s)' = 0 /\ s \notin read_wait'
  \/ SameInput(s)

\* A context that is gone leaves the fields of a fresh one.
LEMMA EmptiedFields ==
  ASSUME NEW s \in Streams, NEW w, num'[s] = FreshNum(w), "responded" \notin flag'[s]
  PROVE  Emptied(s)
  BY DEF Emptied, FreshNum, Has

\* The end of a frame empties the parser's stream when its sink is gone.
LEMMA CompleteFields ==
  ASSUME FlowInv, NEW s \in Streams \cup {NoStream}, NEW fl \in [Streams -> SUBSET Flags],
         NEW nm \in [Streams -> StreamNum], state_complete(s, fl, nm)
  PROVE  /\ handler' = "head" /\ stream' = NoStream
         /\ \/ /\ flag' = fl /\ num' = nm
               /\ s # NoStream => ~Has(s, "destroy_by_http2")
            \/ /\ s # NoStream /\ Has(s, "destroy_by_http2")
               /\ flag'[s] = {} /\ num'[s] = NoNum
               /\ \A x \in Streams \ {s} : flag'[x] = flag[x] /\ num'[x] = num[x]
  <1>0. flag \in [Streams -> SUBSET Flags] /\ num \in [Streams -> StreamNum]
    BY DEF FlowInv, TypeOK, FlagType, NumType
  <1>1. CASE s # NoStream /\ Has(s, "destroy_by_http2")
    <2>1. flag' = [flag EXCEPT ![s] = {}] /\ num' = [num EXCEPT ![s] = NoNum]
      BY <1>1 DEF state_complete, Destroy
    <2> QED BY <1>0, <1>1, <2>1 DEF state_complete
  <1>2. CASE ~(s # NoStream /\ Has(s, "destroy_by_http2"))
    BY <1>2 DEF state_complete
  <1> QED BY <1>1, <1>2

\* What n of the left bytes of a DATA frame do: no more is buffered than has
\* come, the parser keeps the stream while bytes are missing, and a reader is
\* woken by the first byte and by the end of its input.
ReadDataParts(s, left, f, n, nm) ==
  /\ \A x \in Streams \ {s} : num'[x] = num[x] /\ flag'[x] = flag[x]
  /\ \/ Emptied(s) /\ Has(s, "destroy_by_http2") /\ n = left
     \/ /\ flag'[s] \in {flag[s], flag[s] \cup {"in_closed"}}
        /\ num'[s].recv_window = nm[s].recv_window
        /\ num'[s].content_left = nm[s].content_left
        /\ num'[s].wait_len = nm[s].wait_len
        /\ num'[s].buffered <= nm[s].buffered + n
  /\ IF n < left
     THEN handler' = "read_data" /\ stream' = s /\ length' = left - n
     ELSE handler' # "read_data"
  /\ handler' # "header_block"
  /\ IF s \in read_wait /\ (n > 0 \/ (n = left /\ f))
     THEN /\ read_wait' = read_wait \ {s} /\ rsleep' = rsleep \ {s}
          /\ FlushQueue(s, write_wait[s] = "WINDOW")
     ELSE UNCHANGED <<readWaitVars, queueVars>>

\* state_read_data has these parts.
LEMMA ReadDataDoes ==
  ASSUME FlowInv, NEW s \in Streams, NEW left \in Nat, NEW f \in BOOLEAN, NEW pad \in BOOLEAN,
         NEW n \in 0..left, NEW rl \in ReadLens, NEW nm \in [Streams -> StreamNum],
         \A x \in Streams \ {s} : nm[x] = num[x],
         state_read_data(s, left, f, pad, n, rl, nm)
  PROVE  ReadDataParts(s, left, f, n, nm)
  <1> DEFINE waits == s \in read_wait
             ends == n = left /\ f
             held == nm[s].buffered + n
             taken == IF waits /\ n > 0 THEN Min(rl, held) ELSE 0
             nm1 == [nm EXCEPT ![s].buffered = held - taken]
             fl1 == IF ends THEN [flag EXCEPT ![s] = @ \cup {"in_closed"}] ELSE flag
  <1>0. /\ flag \in [Streams -> SUBSET Flags] /\ num \in [Streams -> StreamNum]
        /\ s # NoStream
    BY StreamsAssumption DEF FlowInv, TypeOK, FlagType, NumType
  <1>1. nm[s].buffered \in Nat /\ held \in Nat /\ n \in Nat BY DEF StreamNum
  <1>2. taken \in 0..held
    <2>1. Min(rl, held) \in 0..held BY <1>1, SizesAssumption DEF Min
    <2> QED BY <1>1, <2>1
  <1>3. /\ nm1 \in [Streams -> StreamNum] /\ nm1[s] = [nm[s] EXCEPT !.buffered = held - taken]
        /\ \A x \in Streams \ {s} : nm1[x] = num[x]
    BY <1>1, <1>2 DEF StreamNum
  <1>4. /\ fl1 \in [Streams -> SUBSET Flags] /\ fl1[s] \in {flag[s], flag[s] \cup {"in_closed"}}
        /\ \A x \in Streams \ {s} : fl1[x] = flag[x]
    BY <1>0 DEF Flags
  <1>5. IF n < left \/ pad
        THEN /\ handler' = IF n < left THEN "read_data" ELSE "skip"
             /\ stream' = s /\ length' = left - n
             /\ flag' = fl1 /\ num' = nm1
        ELSE state_complete(s, fl1, nm1)
    BY DEF state_read_data
  <1>6. /\ num'[s].recv_window = nm[s].recv_window
        /\ num'[s].content_left = nm[s].content_left
        /\ num'[s].wait_len = nm[s].wait_len
        /\ num'[s].buffered <= nm[s].buffered + n
        \/ num' # nm1
    BY <1>1, <1>2, <1>3 DEF StreamNum
  <1>7. IF s \in read_wait /\ (n > 0 \/ (n = left /\ f))
        THEN /\ read_wait' = read_wait \ {s} /\ rsleep' = rsleep \ {s}
             /\ FlushQueue(s, write_wait[s] = "WINDOW")
        ELSE UNCHANGED <<readWaitVars, queueVars>>
    BY DEF state_read_data
  <1> HIDE DEF nm1, fl1, taken, held
  <1>8. CASE n < left \/ pad
    BY <1>3, <1>4, <1>5, <1>6, <1>7, <1>8 DEF ReadDataParts
  <1>9. CASE ~(n < left \/ pad)
    <2>1. /\ handler' = "head"
          /\ \/ flag' = fl1 /\ num' = nm1
             \/ /\ Has(s, "destroy_by_http2") /\ flag'[s] = {} /\ num'[s] = NoNum
                /\ \A x \in Streams \ {s} : flag'[x] = flag[x] /\ num'[x] = num[x]
      BY <1>0, <1>3, <1>4, <1>5, <1>9, CompleteFields
    <2>2. num'[s] = NoNum /\ flag'[s] = {} => Emptied(s) BY EmptiedFields DEF NoNum
    <2> QED BY <1>3, <1>4, <1>6, <1>7, <1>9, <2>1, <2>2 DEF ReadDataParts
  <1> QED BY <1>8, <1>9

-----------------------------------------------------------------------------
(* How much of a response is left, and how much of its input.              *)

\* What EndMatchesLength rests on: a writer that waits asked for no more than
\* is left.
LengthInv ==
  /\ \A s \in Streams :
       /\ num[s].content_left >= -1
       /\ Has(s, "responded") /\ num[s].content_left = 0 => Has(s, "out_closed")
  /\ \A s \in Waits("WINDOW") :
       num[s].content_left > 0 => num[s].wait_len <= num[s].content_left

\* What RecvWindow rests on: the frame that is being read has its length
\* taken off a window.
RecvInv ==
  /\ \A s \in Streams :
       /\ Coming(s) <= StreamRecvWindow
       /\ Held(s) < 2 * StreamRecvWindow + StreamRecvWindow \div 4
  /\ NoStalledReader

\* A step that keeps every response keeps LengthInv.
LEMMA LengthKept ==
  ASSUME LengthInv, QuietWaits, \A s \in Streams : ResponseKept(s)
  PROVE  LengthInv'
  <1>1. \A s \in Streams :
          /\ num'[s].content_left >= -1
          /\ Has(s, "responded")' /\ num'[s].content_left = 0 => Has(s, "out_closed")'
    BY DEF LengthInv, ResponseKept, Emptied, SameResponse
  <1>2. ASSUME NEW s \in Streams, write_wait'[s] = "WINDOW", num'[s].content_left > 0
        PROVE  num'[s].wait_len <= num'[s].content_left
    BY <1>2 DEF LengthInv, ResponseKept, Emptied, SameResponse, QuietWaits, Waits
  <1> QED BY <1>1, <1>2 DEF LengthInv, Waits

\* What is held is a number.
LEMMA HeldInt ==
  ASSUME FlowInv, NEW s \in Streams
  PROVE  /\ Coming(s) \in Nat /\ num[s].recv_window \in 0..StreamRecvWindow
         /\ num[s].buffered \in Nat /\ Granted(s) \in Int /\ Held(s) \in Int
  <1>1. length \in Nat /\ num[s] \in StreamNum
    BY DEF FlowInv, TypeOK, ParserType, NumType
  <1> QED BY <1>1, WindowsAssumption DEF Coming, Granted, Held, StreamNum

\* A step that keeps every input keeps RecvInv.
LEMMA RecvKept ==
  ASSUME FlowInv, FlowInv', RecvInv, \A s \in Streams : InputKept(s)
  PROVE  RecvInv'
  <1>0. StreamRecvWindow \in Nat \ {0} /\ StreamRecvWindow \div 4 \in Nat
    BY WindowsAssumption
  <1>1. ASSUME NEW s \in Streams
        PROVE  Coming(s)' <= StreamRecvWindow
               /\ Held(s)' < 2 * StreamRecvWindow + StreamRecvWindow \div 4
    <2>1. Coming(s) \in Nat /\ num[s].recv_window \in 0..StreamRecvWindow /\ Held(s) \in Int
      BY HeldInt
    <2>2. /\ Coming(s)' \in Nat /\ num'[s].recv_window \in 0..StreamRecvWindow
          /\ num'[s].buffered \in Nat /\ Held(s)' \in Int
      <3>1. length' \in Nat /\ num'[s] \in StreamNum
        BY DEF FlowInv, TypeOK, ParserType, NumType
      <3> QED BY <3>1, <1>0 DEF Coming, Granted, Held, StreamNum
    <2>3. CASE Emptied(s) /\ Coming(s)' = 0
      <3>1. Held(s)' = StreamRecvWindow BY <1>0, <2>2, <2>3 DEF Emptied, Held, Granted
      <3> QED BY <1>0, <2>3, <3>1
    <2>4. CASE SameInput(s)
      BY <1>0, <2>1, <2>2, <2>4 DEF SameInput, RecvInv
    <2> QED BY <2>3, <2>4 DEF InputKept
  <1>2. ASSUME NEW s \in Streams, s \in read_wait', ~Has(s, "in_closed")'
        PROVE  Granted(s)' >= StreamRecvWindow \div 4
    <2>1. SameInput(s) BY <1>2 DEF InputKept
    <2>2. s \in read_wait /\ ~Has(s, "in_closed") /\ Granted(s)' >= Granted(s)
      BY <1>2, <2>1 DEF SameInput
    <2>3. Granted(s) >= StreamRecvWindow \div 4
      BY <2>2 DEF RecvInv, NoStalledReader, Granted
    <2>4. Granted(s)' \in Int
      <3>1. length' \in Nat /\ num'[s] \in StreamNum
        BY DEF FlowInv, TypeOK, ParserType, NumType
      <3> QED BY <3>1, <1>0 DEF Coming, Granted, StreamNum
    <2>5. Granted(s) \in Int BY HeldInt
    <2> QED BY <1>0, <2>2, <2>3, <2>4, <2>5
  <1>3. read_wait' \subseteq Streams BY DEF FlowInv, TypeOK, WaitType
  <1>4. NoStalledReader' BY <1>2, <1>3 DEF NoStalledReader, Granted
  <1> QED BY <1>1, <1>4 DEF RecvInv

-----------------------------------------------------------------------------
(* The steps that keep the fields of every stream.                         *)

KeepsFields == QuietWaits /\ \A s \in Streams : ResponseKept(s) /\ InputKept(s)

\* The input of a stream is as it was, or some of it was dropped.
LEMMA InputSame ==
  ASSUME FlowInv, FlowInv', NEW s \in Streams,
         num'[s].recv_window = num[s].recv_window, num'[s].buffered <= num[s].buffered,
         Coming(s)' = Coming(s), Has(s, "in_closed") => Has(s, "in_closed")',
         s \in read_wait' => s \in read_wait
  PROVE  InputKept(s)
  <1>1. Coming(s) \in Nat /\ num[s] \in StreamNum /\ num'[s] \in StreamNum
    BY HeldInt DEF FlowInv, TypeOK, NumType
  <1> QED BY <1>1, WindowsAssumption DEF InputKept, SameInput, Held, Granted, StreamNum

\* A stream no field of which changes, but for closed halves.
LEMMA FieldsSame ==
  ASSUME FlowInv, FlowInv', NEW s \in Streams, num'[s] = num[s],
         Coming(s)' = Coming(s), flag[s] \subseteq flag'[s],
         Has(s, "responded")' => Has(s, "responded"), s \in read_wait' => s \in read_wait
  PROVE  ResponseKept(s) /\ InputKept(s)
  <1>1. num[s].buffered <= num[s].buffered BY HeldInt
  <1>2. Has(s, "in_closed") => Has(s, "in_closed")' BY DEF Has
  <1>3. InputKept(s) BY <1>1, <1>2, InputSame
  <1> QED BY <1>3 DEF ResponseKept, SameResponse, Has

\* The step destroys last, with the connection when gone, and otherwise
\* closes halves of streams.
LEMMA FieldsDestroyed ==
  ASSUME FlowInv, FlowInv', NEW last \in SUBSET Streams, read_wait' \subseteq read_wait,
         \A x \in last : flag'[x] = {} /\ num'[x] = NoNum /\ x \notin read_wait',
         \A x \in Streams \ last :
           flag[x] \subseteq flag'[x] /\ num'[x] = num[x] /\ (Has(x, "responded")' => Has(x, "responded")),
         \/ UNCHANGED <<stream, handler, length>> /\ stream \notin last
         \/ handler' = "head" /\ read_wait' = {}
         \/ handler' = "head" /\ handler # "read_data"
  PROVE  \A x \in Streams : ResponseKept(x) /\ InputKept(x)
  <1> SUFFICES ASSUME NEW x \in Streams PROVE ResponseKept(x) /\ InputKept(x)
    OBVIOUS
  <1>1. CASE x \in last
    <2>1. Emptied(x) BY <1>1, EmptiedFields DEF NoNum
    <2>2. Coming(x)' = 0 BY <1>1 DEF Coming
    <2> QED BY <1>1, <2>1, <2>2 DEF ResponseKept, InputKept
  <1>2. CASE x \notin last /\ Coming(x)' = Coming(x)
    BY <1>2, FieldsSame
  <1>3. CASE x \notin last /\ handler' = "head" /\ read_wait' = {}
    <2>1. Coming(x)' = 0 BY <1>3 DEF Coming
    <2>2. Coming(x) \in Nat /\ num[x] \in StreamNum
      BY HeldInt DEF FlowInv, TypeOK, NumType
    <2>3. num'[x] = num[x] BY <1>3
    <2>4. Held(x)' <= Held(x) BY <2>1, <2>2, <2>3 DEF Held, Granted, StreamNum
    <2>5. InputKept(x) BY <1>3, <2>1, <2>2, <2>4 DEF InputKept, SameInput
    <2> QED BY <1>3, <2>3, <2>5 DEF ResponseKept, SameResponse, Has
  <1> QED BY <1>1, <1>2, <1>3 DEF Coming

\* close.
LEMMA CloseFields ==
  ASSUME FlowInv, FlowInv', ContextInv, ReaderInv, NEW read \in BOOLEAN, CloseStep(read)
  PROVE  KeepsFields
  <1> DEFINE gone == can_destroy(processing, read_processing /\ ~read, write_processing /\ read)
             last == IF gone THEN LastContexts ELSE {}
  <1>1. /\ \A x \in Streams : flag'[x] = IF x \in last THEN {}
                                 ELSE IF x \in node THEN flag[x] \cup RstFlags ELSE flag[x]
        /\ \A x \in Streams : num'[x] = IF x \in last THEN NoNum ELSE num[x]
        /\ read_wait' = read_wait \ node
        /\ \A x \in Streams : write_wait'[x] \in {"none", write_wait[x]}
    BY DEF CloseStep, close
  <1>2. read_wait' = {} BY <1>1 DEF ReaderInv, NoLostReader
  <1>3. last \in SUBSET Streams BY LastNotLive
  <1>4. \/ UNCHANGED <<stream, handler, length>> /\ stream \notin last
        \/ handler' = "head" /\ read_wait' = {}
    <2>1. CASE gone BY <1>2, <2>1 DEF CloseStep, close, DeleteThis
    <2>2. CASE ~gone BY <2>2 DEF CloseStep, close
    <2> QED BY <2>1, <2>2
  <1>5. QuietWaits BY <1>1 DEF QuietWaits
  <1> HIDE DEF last
  <1>6. \A x \in Streams \ last :
          flag[x] \subseteq flag'[x] /\ num'[x] = num[x] /\ (Has(x, "responded")' => Has(x, "responded"))
    <2> TAKE x \in Streams \ last
    <2>1. flag'[x] \in {flag[x], flag[x] \cup RstFlags} /\ num'[x] = num[x] BY <1>1
    <2> QED BY <2>1 DEF Has, RstFlags
  <1> QED BY <1>1, <1>2, <1>3, <1>4, <1>5, <1>6, FieldsDestroyed DEF KeepsFields

\* on_write_result.
LEMMA WriteDoneFields ==
  ASSUME FlowInv, FlowInv', ContextInv, ReaderInv, NEW n \in 1..Len(write_buffer), WriteDone(n)
  PROVE  KeepsFields
  <1> DEFINE gone == can_destroy(processing, read_processing, GoesOnWriting(n))
             last == IF gone THEN LastContexts ELSE {}
  <1>1. /\ \A x \in Streams : flag'[x] = IF x \in last THEN {} ELSE flag[x]
        /\ \A x \in Streams : num'[x] = IF x \in last THEN NoNum ELSE num[x]
        /\ read_wait' = read_wait /\ ~deleted
        /\ \A x \in Streams : write_wait'[x] \in {"none", write_wait[x]}
    BY DEF WriteDone, Writable
  <1>2. gone => read_wait = {}
    <2>1. gone => processing = 0 BY DEF can_destroy
    <2> QED BY <1>1, <2>1, NoSinks DEF ReaderInv
  <1>3. last \in SUBSET Streams BY LastNotLive
  <1>4. \/ UNCHANGED <<stream, handler, length>> /\ stream \notin last
        \/ handler' = "head" /\ read_wait' = {}
    <2>1. CASE gone BY <1>1, <1>2, <2>1 DEF WriteDone, DeleteThis
    <2>2. CASE ~gone BY <2>2 DEF WriteDone
    <2> QED BY <2>1, <2>2
  <1>5. QuietWaits BY <1>1 DEF QuietWaits
  <1>6. last # {} => read_wait' = {} BY <1>1, <1>2
  <1> HIDE DEF last
  <1>7. \A x \in Streams \ last :
          flag[x] \subseteq flag'[x] /\ num'[x] = num[x] /\ (Has(x, "responded")' => Has(x, "responded"))
    BY <1>1 DEF Has
  <1> QED BY <1>1, <1>3, <1>4, <1>5, <1>6, <1>7, FieldsDestroyed DEF KeepsFields

\* ~KHttp2Sink.
LEMMA FinishFields ==
  ASSUME FlowInv, FlowInv', ContextInv, ReaderInv, ReaderInv', NEW s \in Streams, NEW e \in BOOLEAN,
         Finish(s, e)
  PROVE  KeepsFields
  <1>1. /\ ~deleted /\ s \in live /\ live' = live \ {s}
        /\ UNCHANGED <<write_wait, read_wait>>
    BY DEF Finish
  <1>2. PICK gone \in BOOLEAN, last \in SUBSET Streams, fin1 \in SUBSET Flags :
          FinishParts(s, gone, last, fin1)
    BY FinishDoes
  <1>3. /\ \A x \in Streams : flag'[x] = IF x \in last THEN {}
                                ELSE IF x = s THEN flag[x] \cup fin1 ELSE flag[x]
        /\ \A x \in Streams : num'[x] = IF x \in last THEN NoNum ELSE num[x]
        /\ last \cap live' = {}
    BY <1>1, <1>2, LastNotLive DEF FinishParts, FinishOutline
  <1>4. gone => live' = {}
    <2>1. gone => processing = 1 BY <1>2 DEF FinishParts
    <2>2. IsFiniteSet(live) /\ processing = Cardinality(live) BY <1>1 DEF ContextInv
    <2>3. IsFiniteSet(live') /\ Cardinality(live') = Cardinality(live) - 1
      BY <1>1, <2>2, FS_RemoveElement
    <2> QED BY <2>1, <2>2, <2>3, FS_EmptySet
  <1>5. \/ UNCHANGED <<stream, handler, length>> /\ stream \notin last
        \/ handler' = "head" /\ read_wait' = {}
    <2>1. CASE gone
      <3>1. handler' = "head"
        <4>1. stream' = NoStream BY <1>2, <2>1 DEF FinishParts, FinishOutline
        <4> QED BY <4>1, StreamsAssumption DEF FlowInv, TypeOK, ParserType
      <3> QED BY <1>4, <2>1, <3>1 DEF ReaderInv
    <2>2. CASE ~gone
      BY <1>2, <2>2, StreamsAssumption DEF FinishParts, FinishOutline
    <2> QED BY <2>1, <2>2
  <1>6. read_wait' \cap last = {} BY <1>3 DEF ReaderInv
  <1>7. \A x \in Streams \ last :
          flag[x] \subseteq flag'[x] /\ num'[x] = num[x] /\ (Has(x, "responded")' => Has(x, "responded"))
    BY <1>2, <1>3 DEF FinishParts, Has
  <1>8. QuietWaits BY <1>1 DEF QuietWaits
  <1> QED BY <1>1, <1>3, <1>5, <1>6, <1>7, <1>8, FieldsDestroyed DEF KeepsFields

\* HEADERS: a new stream starts with fresh fields; one that exists keeps its.
LEMMA HeaderFields ==
  ASSUME FlowInv, FlowInv', ReaderInv,
         \/ \E s \in Streams, f, w \in BOOLEAN : NewHeaders(s, f, w)
         \/ NewHeadersComplete
         \/ \E s \in Streams, f, w \in BOOLEAN : Trailers(s, f, w)
  PROVE  KeepsFields
  <1>0. /\ flag \in [Streams -> SUBSET Flags] /\ num \in [Streams -> StreamNum]
        /\ stream \in Streams \cup {NoStream}
    BY DEF FlowInv, TypeOK, FlagType, NumType, ParserType
  <1>1. ASSUME NEW s \in Streams, NEW f \in BOOLEAN, NEW w \in BOOLEAN, NewHeaders(s, f, w)
        PROVE  KeepsFields
    <2>1. /\ s \notin node /\ handler = "head" /\ handler' # "read_data"
          /\ UNCHANGED <<read_wait, write_wait>>
          /\ num'[s] = FreshNum(init_window)
          /\ flag'[s] \subseteq {"in_closed", "parsed_header"}
          /\ \A x \in Streams \ {s} : num'[x] = num[x] /\ flag'[x] = flag[x]
      BY <1>0, <1>1 DEF NewHeaders, FrameStart
    <2>2. \A x \in Streams : Coming(x) = 0 /\ Coming(x)' = 0 BY <2>1 DEF Coming
    <2>3. Emptied(s) BY <2>1, EmptiedFields
    <2>4. s \notin read_wait' BY <2>1 DEF ReaderInv, NoLostReader
    <2>5. \A x \in Streams \ {s} : ResponseKept(x) /\ InputKept(x)
      BY <2>1, <2>2, FieldsSame DEF Has
    <2> QED BY <2>1, <2>2, <2>3, <2>4, <2>5 DEF KeepsFields, QuietWaits, ResponseKept, InputKept
  <1>2. CASE NewHeadersComplete
    <2>1. /\ handler = "header_block" /\ handler' = "head"
          /\ UNCHANGED <<read_wait, write_wait, num>>
          /\ \A x \in Streams : flag'[x] \in {flag[x], flag[x] \cup {"parsed_header"}}
      BY <1>0, <1>2 DEF NewHeadersComplete, FrameGoesOn
    <2>2. \A x \in Streams : Coming(x) = 0 /\ Coming(x)' = 0 BY <2>1 DEF Coming
    <2> QED BY <2>1, <2>2, FieldsSame DEF KeepsFields, QuietWaits, Has
  <1>3. ASSUME NEW s \in Streams, NEW f \in BOOLEAN, NEW w \in BOOLEAN, Trailers(s, f, w)
        PROVE  KeepsFields
    <2>1. /\ handler = "head" /\ handler' # "read_data"
          /\ UNCHANGED write_wait /\ read_wait' \subseteq read_wait
          /\ UNCHANGED num
          /\ \A x \in Streams : flag'[x] \in {flag[x], flag[x] \cup {"in_closed"}}
      BY <1>0, <1>3 DEF Trailers, FrameStart
    <2>2. \A x \in Streams : Coming(x) = 0 /\ Coming(x)' = 0 BY <2>1 DEF Coming
    <2> QED BY <2>1, <2>2, FieldsSame DEF KeepsFields, QuietWaits, Has
  <1> QED BY <1>1, <1>2, <1>3

\* The end of a frame that carried no bytes of a body, or whose bytes have
\* all come.
LEMMA EndFields ==
  ASSUME FlowInv, FlowInv', ReaderInv, ReaderInv', TrailersComplete \/ SkipComplete
  PROVE  KeepsFields
  <1>0. /\ flag \in [Streams -> SUBSET Flags] /\ num \in [Streams -> StreamNum]
        /\ stream \in Streams \cup {NoStream}
    BY DEF FlowInv, TypeOK, FlagType, NumType, ParserType
  <1>1. /\ handler \in {"header_block", "skip"}
        /\ live' = live /\ UNCHANGED write_wait /\ read_wait' \subseteq read_wait
        /\ state_complete(stream, flag, num) \/ state_complete(NoStream, flag, num)
    BY DEF TrailersComplete, SkipComplete, TrailersDone, FrameGoesOn
  <1>2. PICK s \in Streams \cup {NoStream} :
          /\ handler' = "head"
          /\ \/ flag' = flag /\ num' = num
             \/ /\ s # NoStream /\ Has(s, "destroy_by_http2")
                /\ flag'[s] = {} /\ num'[s] = NoNum
                /\ \A x \in Streams \ {s} : flag'[x] = flag[x] /\ num'[x] = num[x]
    BY <1>0, <1>1, CompleteFields
  <1>3. QuietWaits BY <1>1 DEF QuietWaits
  <1>4. CASE flag' = flag /\ num' = num
    <2>1. \A x \in Streams : Coming(x) = 0 /\ Coming(x)' = 0 BY <1>1, <1>2 DEF Coming
    <2> QED BY <1>1, <1>3, <1>4, <2>1, FieldsSame DEF KeepsFields, Has
  <1>5. CASE ~(flag' = flag /\ num' = num)
    <2>1. {s} \in SUBSET Streams BY <1>2, <1>5
    <2>2. s \notin live BY <1>2, <1>5 DEF FlowInv, TreeInv
    <2>3. s \notin read_wait' BY <1>1, <2>2 DEF ReaderInv
    <2>4. \A x \in Streams \ {s} :
          flag[x] \subseteq flag'[x] /\ num'[x] = num[x] /\ (Has(x, "responded")' => Has(x, "responded"))
      BY <1>2, <1>5 DEF Has
    <2> QED BY <1>1, <1>2, <1>3, <1>5, <2>1, <2>3, <2>4, FieldsDestroyed DEF KeepsFields
  <1> QED BY <1>4, <1>5

\* The bytes of a DATA frame go from what is granted to what is buffered.
LEMMA ReadDataFields ==
  ASSUME FlowInv, FlowInv', ReaderInv, ReaderInv', live' = live, UNCHANGED write_wait,
         NEW s \in Streams, NEW left \in Nat, NEW n \in 0..left, NEW f \in BOOLEAN,
         NEW nm \in [Streams -> StreamNum], ReadDataParts(s, left, f, n, nm),
         nm[s].recv_window + left = Granted(s), nm[s].buffered = num[s].buffered,
         nm[s].content_left = num[s].content_left, nm[s].wait_len = num[s].wait_len,
         left <= Coming(s) \/ left <= num[s].recv_window,
         \A x \in Streams \ {s} : Coming(x) = 0
  PROVE  KeepsFields
  <1>0. /\ flag \in [Streams -> SUBSET Flags] /\ num[s] \in StreamNum /\ num'[s] \in StreamNum
        /\ nm[s] \in StreamNum /\ read_wait \subseteq Streams
    BY DEF FlowInv, TypeOK, FlagType, NumType, WaitType
  <1>1. /\ read_wait' \subseteq read_wait
        /\ s \in read_wait' => s \in read_wait /\ ~(n > 0)
    <2>1. CASE UNCHANGED readWaitVars /\ ~(s \in read_wait /\ (n > 0 \/ (n = left /\ f)))
      BY <2>1
    <2>2. CASE read_wait' = read_wait \ {s} BY <2>2
    <2> QED BY <2>1, <2>2 DEF ReadDataParts
  <1>2. ASSUME NEW x \in Streams \ {s} PROVE ResponseKept(x) /\ InputKept(x)
    <2>1. num'[x] = num[x] /\ flag'[x] = flag[x] BY DEF ReadDataParts
    <2>2. Coming(x)' = 0 BY DEF ReadDataParts, Coming
    <2> QED BY <1>1, <2>1, <2>2, FieldsSame DEF Has
  <1>3. Coming(s)' = IF n < left THEN left - n ELSE 0 BY DEF ReadDataParts, Coming
  <1>4. ASSUME Emptied(s), Has(s, "destroy_by_http2"), n = left
        PROVE  ResponseKept(s) /\ InputKept(s)
    <2>1. s \notin live' BY <1>4 DEF FlowInv, TreeInv
    <2>2. s \notin read_wait' BY <2>1 DEF ReaderInv
    <2>3. Coming(s)' = 0 BY <1>3, <1>4
    <2> QED BY <1>4, <2>2, <2>3 DEF ResponseKept, InputKept
  <1>5. ASSUME flag'[s] \in {flag[s], flag[s] \cup {"in_closed"}},
               num'[s].recv_window = nm[s].recv_window,
               num'[s].content_left = nm[s].content_left,
               num'[s].wait_len = nm[s].wait_len,
               num'[s].buffered <= nm[s].buffered + n
        PROVE  ResponseKept(s) /\ InputKept(s)
    <2>1. ResponseKept(s) BY <1>5 DEF ResponseKept, SameResponse, Has
    <2>2. Coming(s)' = left - n BY <1>3
    <2>3. Held(s)' <= Held(s)
      BY <1>0, <1>5, <2>2, HeldInt, WindowsAssumption DEF Held, Granted, StreamNum
    <2>4. Coming(s)' <= Coming(s) \/ Coming(s)' <= num[s].recv_window
      <3>1. Coming(s) \in Nat /\ num[s].recv_window \in Nat
        BY HeldInt, WindowsAssumption
      <3> QED BY <2>2, <3>1
    <2>5. s \in read_wait' => n = 0 BY <1>1
    <2>6. s \in read_wait' => Granted(s)' >= Granted(s)
      BY <1>0, <1>5, <2>2, <2>5, HeldInt, WindowsAssumption DEF Granted, StreamNum
    <2>7. Has(s, "in_closed") => Has(s, "in_closed")' BY <1>5 DEF Has
    <2>8. SameInput(s) BY <1>1, <2>3, <2>4, <2>6, <2>7 DEF SameInput
    <2> QED BY <2>1, <2>8 DEF InputKept
  <1>6. ResponseKept(s) /\ InputKept(s) BY <1>4, <1>5 DEF ReadDataParts
  <1> QED BY <1>2, <1>6 DEF KeepsFields, QuietWaits

\* DATA, whole or in pieces.
LEMMA DataFields ==
  ASSUME FlowInv, FlowInv', ReaderInv, ReaderInv',
         \/ \E s \in Streams, L \in DataLens, f, pad \in BOOLEAN, rl \in ReadLens :
              \E n \in 0..L : Data(s, L, f, pad, n, rl)
         \/ \E n \in 1..length, rl \in ReadLens : DataGoesOn(n, rl)
  PROVE  KeepsFields
  <1>0. /\ num \in [Streams -> StreamNum] /\ length \in Nat
        /\ fin \in BOOLEAN /\ padded \in BOOLEAN
    BY DEF FlowInv, TypeOK, NumType, ParserType
  <1>1. ASSUME NEW s \in Streams, NEW L \in DataLens, NEW f \in BOOLEAN, NEW pad \in BOOLEAN,
               NEW rl \in ReadLens, NEW n \in 0..L, Data(s, L, f, pad, n, rl)
        PROVE  KeepsFields
    <2> DEFINE nm == [num EXCEPT ![s].recv_window = @ - L]
    <2>1. /\ handler = "head" /\ L <= num[s].recv_window /\ UNCHANGED <<live, write_wait>>
          /\ state_read_data(s, L, f, pad, n, rl, nm)
      BY <1>1 DEF Data, FrameStart
    <2>2. L \in Nat BY SizesAssumption
    <2>3. /\ nm \in [Streams -> StreamNum] /\ nm[s] = [num[s] EXCEPT !.recv_window = @ - L]
          /\ \A x \in Streams \ {s} : nm[x] = num[x]
      BY <1>0, <2>1, <2>2, WindowsAssumption DEF StreamNum
    <2> HIDE DEF nm
    <2>4. ReadDataParts(s, L, f, n, nm) BY <2>1, <2>2, <2>3, ReadDataDoes
    <2>5. \A x \in Streams : Coming(x) = 0 BY <2>1 DEF Coming
    <2>6. nm[s].recv_window + L = Granted(s)
      BY <1>0, <2>2, <2>3, <2>5, WindowsAssumption DEF Granted, StreamNum
    <2>7. /\ nm[s].buffered = num[s].buffered /\ nm[s].content_left = num[s].content_left
          /\ nm[s].wait_len = num[s].wait_len
      BY <1>0, <2>3 DEF StreamNum
    <2> QED BY <2>1, <2>2, <2>3, <2>4, <2>5, <2>6, <2>7, ReadDataFields
  <1>2. ASSUME NEW n \in 1..length, NEW rl \in ReadLens, DataGoesOn(n, rl)
        PROVE  KeepsFields
    <2>1. /\ handler = "read_data" /\ UNCHANGED <<live, write_wait>>
          /\ state_read_data(stream, length, fin, padded, n, rl, num)
      BY <1>2 DEF DataGoesOn, FrameGoesOn
    <2>2. stream \in Streams BY <2>1 DEF FlowInv, TypeOK, ParserType
    <2>3. n \in 0..length BY <1>0
    <2>4. ReadDataParts(stream, length, fin, n, num)
      BY <1>0, <2>1, <2>2, <2>3, ReadDataDoes
    <2>5. Coming(stream) = length /\ \A x \in Streams \ {stream} : Coming(x) = 0
      BY <2>1 DEF Coming
    <2>6. num[stream].recv_window + length = Granted(stream)
      BY <2>5 DEF Granted
    <2>7. length <= Coming(stream) BY <1>0, <2>5
    <2> QED BY <1>0, <2>1, <2>2, <2>3, <2>4, <2>5, <2>6, <2>7, ReadDataFields
  <1> QED BY <1>1, <1>2

\* Everything else a step can be; only the last three change what is left of
\* a response or what is granted to a peer.
LEMMA StepFields ==
  ASSUME LifeInv, LifeInv', [Next]_vars
  PROVE  \/ KeepsFields
         \/ \E s \in Streams, sw \in Int, blen \in Nat, file \in BOOLEAN :
              GrantStep(s, sw, blen, file)
         \/ \E s \in Streams, b \in BodySizes : StartResponse(s, b)
         \/ \E s \in Streams, rl \in ReadLens : Read(s, rl)
  <1> USE DEF LifeInv
  <1>0. /\ flag \in [Streams -> SUBSET Flags] /\ num \in [Streams -> StreamNum]
        /\ write_wait \in [Streams -> WaitKinds]
    BY DEF FlowInv, TypeOK, FlagType, NumType, WaitType
  <1>1. ASSUME IdleStep PROVE KeepsFields
    <2>1. QuietWaits BY <1>1 DEF IdleStep, QuietWaits
    <2>2. ASSUME NEW x \in Streams PROVE ResponseKept(x) /\ InputKept(x)
      <3>1. /\ num'[x].recv_window = num[x].recv_window
            /\ num'[x].buffered = num[x].buffered
            /\ num'[x].content_left = num[x].content_left
            /\ num'[x].wait_len = num[x].wait_len
            /\ Told(x)' = Told(x) /\ Coming(x)' = Coming(x) /\ read_wait' = read_wait
        BY <1>1 DEF IdleStep, SameStreams, Coming
      <3>2. num'[x].buffered <= num[x].buffered BY <3>1, HeldInt
      <3>3. InputKept(x) BY <3>1, <3>2, InputSame DEF Told, Has
      <3> QED BY <3>1, <3>3 DEF ResponseKept, SameResponse, Told, Has
    <2> QED BY <2>1, <2>2 DEF KeepsFields
  <1>2. ASSUME NEW s \in Streams, CutStep(s) PROVE KeepsFields
    <2>1. /\ read_wait' = read_wait \ {s}
          /\ \A x \in Streams : flag'[x] \in {flag[x], flag[x] \cup RstFlags}
          /\ \A x \in Streams : write_wait'[x] \in {"none", write_wait[x]}
          /\ \A x \in Streams : Coming(x)' = Coming(x)
      BY <1>2 DEF CutStep, Cut, SameStreams, Coming
    <2>2. \A x \in Streams : /\ flag[x] \subseteq flag'[x]
                             /\ Has(x, "responded")' => Has(x, "responded")
      BY <2>1 DEF RstFlags, Has
    <2>3. ASSUME NEW x \in Streams \ {s} PROVE ResponseKept(x) /\ InputKept(x)
      <3>1. num'[x] = num[x] BY <1>2 DEF CutStep
      <3> QED BY <2>1, <2>2, <3>1, FieldsSame
    <2>4. ResponseKept(s)
      BY <1>2, <2>2 DEF CutStep, ResponseKept, SameResponse, Has
    <2>5. InputKept(s)
      <3>1. num'[s].recv_window <= num[s].recv_window /\ num'[s].buffered <= num[s].buffered
        BY <1>2 DEF CutStep
      <3>2. num[s] \in StreamNum /\ num'[s] \in StreamNum
        BY DEF FlowInv, TypeOK, NumType
      <3>3. Held(s)' <= Held(s)
        BY <2>1, <3>1, <3>2, HeldInt, WindowsAssumption DEF Held, Granted, StreamNum
      <3>4. Coming(s)' <= Coming(s) BY <2>1, HeldInt
      <3> QED BY <2>1, <3>3, <3>4 DEF InputKept, SameInput
    <2> QED BY <2>1, <2>3, <2>4, <2>5 DEF KeepsFields, QuietWaits
  <1>3. ASSUME NEW s \in Streams, NEW kind \in {"none", "HUP"}, HupStep(s, kind)
        PROVE  KeepsFields
    <2>1. QuietWaits BY <1>0, <1>3 DEF HupStep, QuietWaits
    <2>2. \A x \in Streams : Coming(x)' = Coming(x) BY <1>3 DEF HupStep, SameStreams, Coming
    <2> QED BY <1>3, <2>1, <2>2, FieldsSame DEF HupStep, KeepsFields, Has
  <1> QED
    BY NextShapes, <1>1, <1>2, <1>3, CloseFields, HeaderFields, EndFields, DataFields,
       WriteDoneFields, FinishFields DEF Shapes

\* on_write_window_ready says nothing of the input.
LEMMA GrantInput ==
  ASSUME FlowInv, FlowInv', NEW s \in Streams, NEW sw \in Int, NEW blen \in Nat,
         NEW file \in BOOLEAN, GrantStep(s, sw, blen, file)
  PROVE  \A x \in Streams : InputKept(x)
  <1>0. flag \in [Streams -> SUBSET Flags] /\ num \in [Streams -> StreamNum]
    BY DEF FlowInv, TypeOK, FlagType, NumType
  <1>1. /\ \A x \in Streams : num'[x].recv_window = num[x].recv_window
        /\ \A x \in Streams : num'[x].buffered = num[x].buffered
    <2> DEFINE sent == FrameLen(Room(sw), blen, file)
               left == num[s].content_left
               c == IF left > 0 THEN left - sent ELSE left
    <2>1. \/ num' = [num EXCEPT ![s].send_window = sw, ![s].wait_len = blen]
          \/ num' = [num EXCEPT ![s].send_window = sw - sent, ![s].wait_len = 0,
                                ![s].content_left = c]
      BY DEF GrantStep, on_write_window_ready
    <2> HIDE DEF sent, c
    <2> QED BY <1>0, <2>1 DEF StreamNum
  <1>2. \A x \in Streams : Has(x, "in_closed") => Has(x, "in_closed")'
    <2>1. CASE Room(sw) <= 0
      BY <1>0, <2>1 DEF GrantStep, on_write_window_ready, AsFile, Has
    <2>2. CASE ~(Room(sw) <= 0)
      BY <1>0, <2>2 DEF GrantStep, on_write_window_ready, AsFile, Has
    <2> QED BY <2>1, <2>2
  <1>3. UNCHANGED read_wait /\ \A x \in Streams : Coming(x)' = Coming(x)
    BY DEF GrantStep, SameStreams, Coming
  <1> TAKE x \in Streams
  <1>4. num'[x].buffered <= num[x].buffered BY <1>1, HeldInt
  <1> QED BY <1>1, <1>2, <1>3, <1>4, InputSame

\* The bytes a writer is granted are no more than it asked for, so the
\* response ends with its last byte.
LEMMA GrantLength ==
  ASSUME FlowInv, LengthInv, NEW s \in Streams, NEW sw \in Int, NEW blen \in Nat,
         NEW file \in BOOLEAN, GrantStep(s, sw, blen, file)
  PROVE  LengthInv'
  <1> DEFINE room == Room(sw)
             sent == FrameLen(room, blen, file)
             left == num[s].content_left
  <1>0. /\ flag \in [Streams -> SUBSET Flags] /\ num \in [Streams -> StreamNum]
        /\ write_wait \in [Streams -> WaitKinds]
    BY DEF FlowInv, TypeOK, FlagType, NumType, WaitType
  <1>1. room \in Int BY MinInt DEF Room, FlowInv, TypeOK, WindowType
  <1>2. sent \in Int /\ sent <= blen /\ (room > 0 => sent >= 0) BY <1>1, FrameLenInt
  <1>3. left \in Int /\ left >= -1 /\ (Has(s, "responded") /\ left = 0 => Has(s, "out_closed"))
    BY <1>0 DEF LengthInv, StreamNum
  <1>4. left > 0 => blen <= left
    BY DEF GrantStep, LengthInv, Waits
  <1> HIDE DEF room, sent, left
  <1>5. /\ \A x \in Streams \ {s} : /\ num'[x] = num[x] /\ flag'[x] = flag[x]
                                    /\ write_wait'[x] = write_wait[x]
        /\ IF room <= 0
           THEN /\ num'[s].content_left = left /\ num'[s].wait_len = blen
                /\ write_wait'[s] = "WINDOW" /\ flag'[s] = AsFile(flag[s], file)
           ELSE /\ num'[s].content_left = IF left > 0 THEN left - sent ELSE left
                /\ write_wait'[s] = "WRITING"
                /\ flag'[s] = AsFile(flag[s], file) \cup
                                (IF Ends(left, sent) THEN {"out_closed"} ELSE {})
    <2>1. CASE room <= 0
      BY <1>0, <2>1 DEF GrantStep, on_write_window_ready, room, sent, left, StreamNum
    <2>2. CASE ~(room <= 0)
      <3> DEFINE c == IF left > 0 THEN left - sent ELSE left
      <3>1. /\ num' = [num EXCEPT ![s].send_window = sw - sent, ![s].wait_len = 0,
                                  ![s].content_left = c]
            /\ write_wait' = [write_wait EXCEPT ![s] = "WRITING"]
            /\ flag' = [flag EXCEPT ![s] = AsFile(@, file) \cup
                                (IF Ends(left, sent) THEN {"out_closed"} ELSE {})]
        BY <2>2 DEF GrantStep, on_write_window_ready, room, sent, left
      <3> HIDE DEF c
      <3>2. num'[s].content_left = c /\ \A x \in Streams \ {s} : num'[x] = num[x]
        BY <1>0, <3>1 DEF StreamNum
      <3> QED BY <1>0, <2>2, <3>1, <3>2 DEF c
    <2> QED BY <2>1, <2>2
  <1>6. \A x \in Streams \ {s} : Has(x, "responded")' = Has(x, "responded")
                                 /\ Has(x, "out_closed")' = Has(x, "out_closed")
    BY <1>5 DEF Has
  <1>7. /\ num'[s].content_left >= -1
        /\ Has(s, "responded")' /\ num'[s].content_left = 0 => Has(s, "out_closed")'
        /\ write_wait'[s] = "WINDOW" /\ num'[s].content_left > 0 =>
             num'[s].wait_len <= num'[s].content_left
    <2>1. CASE room <= 0
      BY <1>3, <1>4, <1>5, <2>1 DEF AsFile, Has
    <2>2. CASE ~(room <= 0) /\ left > 0
      <3>1. num'[s].content_left = left - sent /\ 0 <= left - sent /\ left - sent \in Int
        BY <1>1, <1>2, <1>3, <1>4, <1>5, <2>2
      <3>2. left - sent = 0 => Has(s, "out_closed")'
        BY <1>5, <2>2 DEF Has, Ends
      <3> QED BY <1>5, <2>2, <3>1, <3>2
    <2>3. CASE ~(room <= 0) /\ ~(left > 0)
      <3>1. num'[s].content_left = left BY <1>5, <2>3
      <3>2. /\ Has(s, "responded")' => Has(s, "responded")
            /\ Has(s, "out_closed") => Has(s, "out_closed")'
        BY <1>5, <2>3 DEF AsFile, Has, Ends
      <3> QED BY <1>3, <1>5, <2>3, <3>1, <3>2
    <2> QED BY <2>1, <2>2, <2>3
  <1>8. \A x \in Streams :
          /\ num'[x].content_left >= -1
          /\ Has(x, "responded")' /\ num'[x].content_left = 0 => Has(x, "out_closed")'
    BY <1>5, <1>6, <1>7 DEF LengthInv
  <1>9. \A x \in Waits("WINDOW")' :
          num'[x].content_left > 0 => num'[x].wait_len <= num'[x].content_left
    BY <1>5, <1>7 DEF LengthInv, Waits
  <1> QED BY <1>8, <1>9 DEF LengthInv

\* send_header: an empty body ends the stream, and so did what closed the
\* read side.
LEMMA ResponseStarts ==
  ASSUME LifeInv, LifeInv', LengthInv, NEW s \in Streams, NEW b \in BodySizes, StartResponse(s, b)
  PROVE  LengthInv' /\ \A x \in Streams : InputKept(x)
  <1> USE DEF LifeInv
  <1>0. /\ flag \in [Streams -> SUBSET Flags] /\ num \in [Streams -> StreamNum]
        /\ b \in Int /\ b >= -1
    BY SizesAssumption DEF FlowInv, TypeOK, FlagType, NumType
  <1>1. /\ \A x \in Streams \ {s} : num'[x] = num[x] /\ flag'[x] = flag[x]
        /\ num'[s] = [num[s] EXCEPT !.content_left = b]
        /\ UNCHANGED <<write_wait, read_wait, stream, handler, length>>
        /\ s \in live /\ s \notin wsleep
    BY <1>0 DEF StartResponse, Running, MayWrite
  <1>2. b = 0 => Has(s, "out_closed")'
    <2>1. CASE read_processing BY <1>0, <2>1 DEF StartResponse, Has
    <2>2. CASE ~read_processing
      <3>1. Has(s, "out_closed") BY <1>1, <2>2 DEF ClosedInv, ReadSideClosed, Has
      <3> QED BY <1>0, <2>2, <3>1 DEF StartResponse, Has
    <2> QED BY <2>1, <2>2
  <1>3. /\ Has(s, "in_closed") => Has(s, "in_closed")'
        /\ Has(s, "out_closed") => Has(s, "out_closed")'
    BY <1>0 DEF StartResponse, Has
  <1>4. num'[s].content_left = b BY <1>0, <1>1 DEF StreamNum
  <1>5. write_wait[s] # "WINDOW" BY <1>1 DEF WriterInv, NoLostWriter, Waits
  <1>6. LengthInv'
    <2>1. \A x \in Streams :
          /\ num'[x].content_left >= -1
          /\ Has(x, "responded")' /\ num'[x].content_left = 0 => Has(x, "out_closed")'
      BY <1>0, <1>1, <1>2, <1>4 DEF LengthInv, Has
    <2>2. \A x \in Waits("WINDOW")' :
          num'[x].content_left > 0 => num'[x].wait_len <= num'[x].content_left
      BY <1>1, <1>5 DEF LengthInv, Waits
    <2> QED BY <2>1, <2>2 DEF LengthInv
  <1>7. ASSUME NEW x \in Streams PROVE InputKept(x)
    <2>1. /\ num'[x].recv_window = num[x].recv_window
          /\ num'[x].buffered = num[x].buffered
      BY <1>0, <1>1 DEF StreamNum
    <2>2. num'[x].buffered <= num[x].buffered BY <2>1, HeldInt
    <2>3. Has(x, "in_closed") => Has(x, "in_closed")' BY <1>1, <1>3 DEF Has
    <2>4. Coming(x)' = Coming(x) BY <1>1 DEF Coming
    <2> QED BY <1>1, <2>1, <2>2, <2>3, <2>4, InputSame
  <1> QED BY <1>6, <1>7

\* check_recv_window: a stream that is topped up held less than a quarter
\* window, and a reader that sleeps finds nothing buffered and at least a
\* quarter window granted.
LEMMA ReadTopsUp ==
  ASSUME LifeInv, LifeInv', LengthInv, RecvInv, NEW s \in Streams, NEW rl \in ReadLens, Read(s, rl)
  PROVE  LengthInv' /\ RecvInv'
  <1> USE DEF LifeInv
  <1> DEFINE q == StreamRecvWindow \div 4
             window == IF TopsUp(s) THEN StreamRecvWindow ELSE num[s].recv_window
             got == Min(rl, num[s].buffered)
             left == num[s].buffered - got
  <1>0. /\ num \in [Streams -> StreamNum] /\ write_wait \in [Streams -> WaitKinds]
        /\ rl \in Nat \ {0} /\ read_wait \subseteq Streams
    BY SizesAssumption DEF FlowInv, TypeOK, NumType, WaitType
  <1>1. StreamRecvWindow \in Nat \ {0} /\ q \in Nat /\ q <= StreamRecvWindow
    BY WindowsAssumption
  <1>2. /\ num[s].recv_window \in 0..StreamRecvWindow /\ num[s].buffered \in Nat
        /\ Coming(s) \in Nat /\ Held(s) \in Int
    BY HeldInt
  <1>3. left \in Nat /\ left <= num[s].buffered /\ (got = 0 => num[s].buffered = 0)
    BY <1>0, <1>2 DEF Min
  <1>4. window \in 0..StreamRecvWindow BY <1>1, <1>2
  <1>5. num' = [num EXCEPT ![s].recv_window = window, ![s].buffered = left]
    BY DEF Read
  <1>6. /\ UNCHANGED <<flag, stream, handler, length>>
        /\ \A x \in Streams : write_wait'[x] \in {"none", write_wait[x]}
        /\ \A x \in Streams : Coming(x)' = Coming(x)
    BY <1>0 DEF Read, Coming
  <1>7. \/ read_wait' = read_wait
        \/ /\ read_wait' = read_wait \cup {s}
           /\ got = 0 /\ ~Has(s, "in_closed")
    BY DEF Read
  <1> HIDE DEF window, got, left, q
  <1>8. /\ num'[s].recv_window = window /\ num'[s].buffered = left
        /\ num'[s].content_left = num[s].content_left /\ num'[s].wait_len = num[s].wait_len
        /\ \A x \in Streams \ {s} : num'[x] = num[x]
    BY <1>0, <1>5 DEF StreamNum
  <1>9. LengthInv'
    <2>1. QuietWaits BY <1>6 DEF QuietWaits
    <2>2. \A x \in Streams : ResponseKept(x)
      BY <1>6, <1>8 DEF ResponseKept, SameResponse, Has
    <2> QED BY <2>1, <2>2, LengthKept
  <1>10. Held(s)' < 2 * StreamRecvWindow + q
    <2>1. Held(s)' = window + Coming(s) + left BY <1>6, <1>8 DEF Held, Granted
    <2>2. CASE TopsUp(s)
      <3>1. num[s].buffered < q
        BY <1>1, <1>2, <2>2 DEF TopsUp, q
      <3>2. Coming(s) <= StreamRecvWindow BY DEF RecvInv
      <3>3. window = StreamRecvWindow BY <2>2 DEF window
      <3> QED BY <1>1, <1>2, <1>3, <2>1, <3>1, <3>2, <3>3
    <2>3. CASE ~TopsUp(s)
      <3>1. window = num[s].recv_window BY <2>3 DEF window
      <3>2. Held(s) = num[s].recv_window + Coming(s) + num[s].buffered BY DEF Held, Granted
      <3>3. Held(s) < 2 * StreamRecvWindow + q BY DEF RecvInv, q
      <3> QED BY <1>1, <1>2, <1>3, <2>1, <3>1, <3>2, <3>3
    <2> QED BY <2>2, <2>3
  <1>11. \A x \in Streams : /\ Coming(x)' <= StreamRecvWindow
                            /\ Held(x)' < 2 * StreamRecvWindow + q
    <2> TAKE x \in Streams
    <2>1. x # s => Held(x)' = Held(x) BY <1>6, <1>8 DEF Held, Granted
    <2> QED BY <1>6, <1>10, <2>1 DEF RecvInv, q
  <1>12. NoStalledReader'
    <2> SUFFICES ASSUME NEW x \in read_wait', ~Has(x, "in_closed")'
                 PROVE  num'[x].recv_window + Coming(x)' >= q
      BY DEF NoStalledReader, q
    <2>0. x \in Streams /\ ~Has(x, "in_closed") BY <1>0, <1>6, <1>7 DEF Has
    <2>1. CASE x # s
      BY <1>6, <1>7, <1>8, <2>0, <2>1 DEF RecvInv, NoStalledReader, q
    <2>2. CASE x = s /\ TopsUp(s)
      BY <1>1, <1>2, <1>6, <1>8, <2>2 DEF window
    <2>3. CASE x = s /\ ~TopsUp(s)
      <3>1. window = num[s].recv_window BY <2>3 DEF window
      <3>2. num[s].recv_window + num[s].buffered >= q
        BY <1>1, <1>2, <2>0, <2>3 DEF TopsUp, q
      <3>3. CASE s \in read_wait
        BY <1>6, <1>8, <2>0, <2>3, <3>1, <3>3 DEF RecvInv, NoStalledReader, q
      <3>4. CASE s \notin read_wait
        <4>1. num[s].buffered = 0 BY <1>3, <1>7, <2>3, <3>4
        <4> QED BY <1>1, <1>2, <1>6, <1>8, <2>3, <3>1, <3>2, <4>1
      <3> QED BY <3>3, <3>4
    <2> QED BY <2>1, <2>2, <2>3
  <1> QED BY <1>9, <1>11, <1>12 DEF RecvInv, q

\* Every step keeps LengthInv and RecvInv.
LEMMA NextFields ==
  ASSUME LifeInv, LifeInv', LengthInv, RecvInv, [Next]_vars
  PROVE  LengthInv' /\ RecvInv'
  <1>1. FlowInv /\ FlowInv' BY DEF LifeInv
  <1>2. CASE KeepsFields BY <1>1, <1>2, LengthKept, RecvKept DEF KeepsFields
  <1>3. ASSUME NEW s \in Streams, NEW sw \in Int, NEW blen \in Nat, NEW file \in BOOLEAN,
               GrantStep(s, sw, blen, file)
        PROVE  LengthInv' /\ RecvInv'
    BY <1>1, <1>3, GrantInput, GrantLength, RecvKept
  <1>4. ASSUME NEW s \in Streams, NEW b \in BodySizes, StartResponse(s, b)
        PROVE  LengthInv' /\ RecvInv'
    BY <1>1, <1>4, ResponseStarts, RecvKept
  <1> QED BY <1>2, <1>3, <1>4, StepFields, ReadTopsUp

-----------------------------------------------------------------------------
(* Who is linked in active_queue.                                          *)

\* The parser is inside a header block only for a new stream.
NewBlock == handler = "header_block" => ~Has(stream, "parsed_header")

\* Without trailers active_queue holds the waiters.
QueueInv == NoTrailers => QueueIsWaiters /\ NewBlock

\* A stream that was reset is nobody's to wait on.
LEMMA ResetQuiet ==
  ASSUME LifeInv, NEW s \in Streams, Has(s, "rst")
  PROVE  s \notin read_wait /\ write_wait[s] # "WINDOW"
  BY DEF LifeInv, ReaderInv, NoLostReader, ClosedInv, WindowWaiterOpen, Waits, IsWriteClosed

\* Where no trailers come there are no steps for them.
LEMMA TrailersNeverCome ==
  ASSUME NoTrailers, NewBlock
  PROVE  /\ ~TrailersComplete
         /\ \A s \in Streams, f, w \in BOOLEAN : ~Trailers(s, f, w)
  <1>1. ~TrailersComplete BY DEF TrailersComplete, FrameGoesOn, NewBlock
  <1>2. ASSUME NEW s \in Streams, NEW f \in BOOLEAN, NEW w \in BOOLEAN, Trailers(s, f, w)
        PROVE  FALSE
    <2>1. {"TRAILERS", "TRAILERS_SPLIT"} \cap PeerFrames # {}
      BY <1>2 DEF Trailers, FrameStart
    <2> QED BY <2>1 DEF NoTrailers
  <1> QED BY <1>1, <1>2

\* The parser enters a header block with a HEADERS frame only, and its end
\* completes the header.
LEMMA NextBlock ==
  ASSUME LifeInv, FlowInv', NoTrailers, NewBlock, [Next]_vars
  PROVE  NewBlock'
  <1> USE DEF LifeInv
  <1>0. /\ flag \in [Streams -> SUBSET Flags] /\ stream \in Streams \cup {NoStream}
        /\ handler = "header_block" => stream \in Streams
        /\ handler' = "header_block" => stream' \in Streams
    BY StreamsAssumption DEF FlowInv, TypeOK, FlagType, ParserType
  <1>1. ASSUME UNCHANGED <<stream, handler>>,
               \A x \in Streams : Has(x, "parsed_header")' => Has(x, "parsed_header")
        PROVE  NewBlock'
    BY <1>0, <1>1 DEF NewBlock, Has
  <1>2. CASE IdleStep BY <1>1, <1>2 DEF IdleStep, SameStreams, Told, Has
  <1>3. ASSUME NEW s \in Streams, CutStep(s) PROVE NewBlock'
    <2>1. \A x \in Streams : flag'[x] \in {flag[x], flag[x] \cup RstFlags}
      BY <1>3 DEF CutStep, Cut
    <2>2. \A x \in Streams : Has(x, "parsed_header")' => Has(x, "parsed_header")
      BY <2>1 DEF RstFlags, Has
    <2> QED BY <1>1, <1>3, <2>2 DEF CutStep, SameStreams
  <1>4. ASSUME NEW s \in Streams, NEW sw \in Int, NEW blen \in Nat, NEW file \in BOOLEAN,
               GrantStep(s, sw, blen, file)
        PROVE  NewBlock'
    <2>1. \A x \in Streams : Marks(x)' = Marks(x) BY <1>4, GrantMarks
    <2> QED BY <1>1, <1>4, <2>1 DEF GrantStep, SameStreams, Marks, Has
  <1>5. ASSUME NEW s \in Streams, NEW kind, HupStep(s, kind) PROVE NewBlock'
    BY <1>1, <1>5 DEF HupStep, SameStreams, Has
  <1>6. ASSUME NEW read \in BOOLEAN, CloseStep(read) PROVE NewBlock'
    <2>1. \A x \in Streams : flag'[x] \in {{}, flag[x], flag[x] \cup RstFlags}
      BY <1>6 DEF CloseStep, close
    <2>2. \A x \in Streams : Has(x, "parsed_header")' => Has(x, "parsed_header")
      BY <2>1 DEF RstFlags, Has
    <2>3. UNCHANGED <<stream, handler>> \/ handler' = "head"
      BY <1>6 DEF CloseStep, close, DeleteThis
    <2> QED BY <1>1, <2>2, <2>3 DEF NewBlock
  <1>7. ASSUME NEW s \in Streams, NEW f \in BOOLEAN, NEW w \in BOOLEAN, NewHeaders(s, f, w)
        PROVE  NewBlock'
    <2>1. handler = "head" BY <1>7 DEF NewHeaders, FrameStart
    <2> QED BY <1>0, <1>7, <2>1 DEF NewHeaders, NewBlock, Has
  <1>8. CASE NewHeadersComplete \/ SkipComplete
    BY <1>8 DEF NewHeadersComplete, SkipComplete, state_complete, NewBlock
  <1>9. ASSUME \/ \E s \in Streams, L \in DataLens, f, pad \in BOOLEAN, rl \in ReadLens :
                    \E n \in 0..L : Data(s, L, f, pad, n, rl)
               \/ \E n \in 1..length, rl \in ReadLens : DataGoesOn(n, rl)
        PROVE  NewBlock'
    <2>1. ASSUME NEW s, NEW left, NEW f, NEW pad, NEW n, NEW rl, NEW nm,
                 state_read_data(s, left, f, pad, n, rl, nm)
          PROVE  handler' # "header_block"
      BY <2>1 DEF state_read_data, state_complete
    <2>2. ASSUME NEW s \in Streams, NEW L \in DataLens, NEW f \in BOOLEAN, NEW pad \in BOOLEAN,
                 NEW rl \in ReadLens, NEW n \in 0..L, Data(s, L, f, pad, n, rl)
          PROVE  handler' # "header_block"
      <3>1. PICK nm : state_read_data(s, L, f, pad, n, rl, nm) BY <2>2 DEF Data
      <3> QED BY <2>1, <3>1
    <2>3. ASSUME NEW n \in 1..length, NEW rl \in ReadLens, DataGoesOn(n, rl)
          PROVE  handler' # "header_block"
      <3>1. state_read_data(stream, length, fin, padded, n, rl, num) BY <2>3 DEF DataGoesOn
      <3> QED BY <2>1, <3>1
    <2>4. handler' # "header_block" BY <1>9, <2>2, <2>3
    <2> QED BY <2>4 DEF NewBlock
  <1>10. ASSUME NEW n \in 1..Len(write_buffer), WriteDone(n) PROVE NewBlock'
    <2>1. \A x \in Streams : flag'[x] \in {{}, flag[x]} BY <1>10 DEF WriteDone
    <2>2. UNCHANGED <<stream, handler>> \/ handler' = "head"
      BY <1>10 DEF WriteDone, DeleteThis
    <2> QED BY <1>1, <2>1, <2>2 DEF NewBlock, Has
  <1>11. ASSUME NEW s \in Streams, NEW rl \in ReadLens, Read(s, rl) PROVE NewBlock'
    BY <1>1, <1>11 DEF Read, Has
  <1>12. ASSUME NEW s \in Streams, NEW b \in BodySizes, StartResponse(s, b) PROVE NewBlock'
    <2>1. \A x \in Streams : Marks(x)' = Marks(x) BY <1>0, <1>12 DEF StartResponse, Marks
    <2> QED BY <1>1, <1>12, <2>1 DEF StartResponse, Marks, Has
  <1>13. ASSUME NEW s \in Streams, NEW e \in BOOLEAN, Finish(s, e) PROVE NewBlock'
    <2>1. PICK gone \in BOOLEAN, last \in SUBSET Streams, fin1 \in SUBSET Flags :
            FinishParts(s, gone, last, fin1)
      BY <1>13, FinishDoes
    <2>2. \A x \in Streams : Has(x, "parsed_header")' => Has(x, "parsed_header")
      BY <2>1 DEF FinishParts, FinishOutline, Has
    <2>3. UNCHANGED <<stream, handler>> \/ handler' = "head"
      BY <1>13 DEF Finish, DeleteThis
    <2> QED BY <1>1, <2>2, <2>3 DEF NewBlock
  <1> QED
    BY NextShapes, TrailersNeverCome, <1>2, <1>3, <1>4, <1>5, <1>6, <1>7, <1>8, <1>9, <1>10,
       <1>11, <1>12, <1>13 DEF Shapes

\* Whoever starts to wait is queued, and leaves active_queue when the last of
\* its fibers has been woken.
LEMMA NextQueue ==
  ASSUME LifeInv, LifeInv', NoTrailers, NewBlock, QueueIsWaiters, [Next]_vars
  PROVE  QueueIsWaiters'
  <1> USE DEF LifeInv
  <1>0. /\ queue \subseteq Streams /\ read_wait \subseteq Streams
        /\ write_wait \in [Streams -> WaitKinds]
        /\ queue = read_wait \cup Waits("WINDOW") /\ read_wait \subseteq node
        /\ Waits("WINDOW") \subseteq node
    BY DEF FlowInv, TypeOK, QueueType, WaitType, QueueIsWaiters, ReaderInv, NoLostReader,
       TreeInv
  <1>1. ASSUME UNCHANGED queue, read_wait' = read_wait,
               \A x \in Streams : write_wait'[x] = "WINDOW" <=> write_wait[x] = "WINDOW"
        PROVE  QueueIsWaiters'
    <2>1. Waits("WINDOW")' = Waits("WINDOW") BY <1>1 DEF Waits
    <2> QED BY <1>0, <1>1, <2>1 DEF QueueIsWaiters
  <1>2. CASE IdleStep
    <2>1. UNCHANGED <<read_wait, write_wait>> /\ queue' \subseteq queue
          /\ \A s \in queue \ queue' : Has(s, "rst")
      BY <1>2 DEF IdleStep
    <2>2. queue' = queue BY <1>0, <2>1, ResetQuiet DEF Waits
    <2> QED BY <1>1, <2>1, <2>2
  <1>3. ASSUME NEW s \in Streams, CutStep(s) PROVE QueueIsWaiters'
    <2>1. /\ queue' = queue \ {s} /\ read_wait' = read_wait \ {s}
          /\ \A x \in Streams : write_wait'[x] = IF x \in {s} /\ TakesWrite(x) THEN "none"
                                                 ELSE write_wait[x]
      BY <1>3 DEF CutStep, Cut, RemoveQueue
    <2>2. Waits("WINDOW")' = Waits("WINDOW") \ {s} BY <2>1 DEF Waits, TakesWrite
    <2> QED BY <1>0, <2>1, <2>2 DEF QueueIsWaiters
  <1>4. ASSUME NEW s \in Streams, NEW sw \in Int, NEW blen \in Nat, NEW file \in BOOLEAN,
               GrantStep(s, sw, blen, file)
        PROVE  QueueIsWaiters'
    <2>0. read_wait' = read_wait BY <1>4 DEF GrantStep
    <2>1. CASE Room(sw) <= 0
      <3>1. write_wait' = [write_wait EXCEPT ![s] = "WINDOW"] /\ queue' = queue \cup {s}
        BY <1>4, <2>1 DEF GrantStep, on_write_window_ready, AddQueue
      <3>2. Waits("WINDOW")' = Waits("WINDOW") \cup {s} BY <1>0, <3>1 DEF Waits
      <3> QED BY <1>0, <2>0, <3>1, <3>2 DEF QueueIsWaiters
    <2>2. CASE ~(Room(sw) <= 0)
      <3>1. write_wait' = [write_wait EXCEPT ![s] = "WRITING"]
            /\ queue' = IF s \in read_wait THEN queue \cup {s} ELSE queue \ {s}
        BY <1>4, <2>2 DEF GrantStep, on_write_window_ready, FlushQueue, AddQueue, RemoveQueue
      <3>2. Waits("WINDOW")' = Waits("WINDOW") \ {s} BY <1>0, <3>1 DEF Waits
      <3> QED BY <1>0, <2>0, <3>1, <3>2 DEF QueueIsWaiters
    <2> QED BY <2>1, <2>2
  <1>5. ASSUME NEW s \in Streams, NEW kind \in {"none", "HUP"}, HupStep(s, kind)
        PROVE  QueueIsWaiters'
    <2>1. write_wait[s] # "WINDOW"
      BY <1>5 DEF HupStep, WriterInv, NoLostWriter, Waits
    <2>2. /\ UNCHANGED queue /\ read_wait' = read_wait
          /\ \A x \in Streams : write_wait'[x] = IF x = s THEN kind ELSE write_wait[x]
      BY <1>0, <1>5 DEF HupStep
    <2> QED BY <1>1, <2>1, <2>2
  <1>6. ASSUME NEW read \in BOOLEAN, CloseStep(read) PROVE QueueIsWaiters'
    <2> DEFINE back == {s \in node : TakesWrite(s)}
                         \cup (IF read THEN {} ELSE Buffered(write_buffer))
    <2>1. /\ queue' = queue \ node /\ read_wait' = read_wait \ node
          /\ \A x \in Streams : write_wait'[x] = IF x \in back THEN "none" ELSE write_wait[x]
      BY <1>6 DEF CloseStep, close, RemoveQueue
    <2>2. \A x \in Streams : x \in node /\ write_wait[x] = "WINDOW" => x \in back
      BY DEF TakesWrite
    <2> HIDE DEF back
    <2>3. Waits("WINDOW")' = {} BY <1>0, <2>1, <2>2 DEF Waits
    <2> QED BY <1>0, <2>1, <2>3 DEF QueueIsWaiters
  <1>7. ASSUME \/ \E s \in Streams, f, w \in BOOLEAN : NewHeaders(s, f, w)
               \/ NewHeadersComplete \/ SkipComplete
               \/ \E s \in Streams, b \in BodySizes : StartResponse(s, b)
        PROVE  QueueIsWaiters'
    <2>1. UNCHANGED <<queue, read_wait, write_wait>>
      BY <1>7 DEF NewHeaders, NewHeadersComplete, SkipComplete, StartResponse
    <2> QED BY <1>1, <2>1
  <1>8. ASSUME NEW s \in Streams, NEW left, NEW f, NEW pad, NEW n, NEW rl, NEW nm,
               state_read_data(s, left, f, pad, n, rl, nm), UNCHANGED write_wait
        PROVE  QueueIsWaiters'
    <2>1. CASE UNCHANGED <<queue, read_wait>> BY <1>1, <1>8, <2>1
    <2>2. CASE read_wait' = read_wait \ {s} /\ FlushQueue(s, write_wait[s] = "WINDOW")
      <3>1. queue' = IF write_wait[s] = "WINDOW" THEN queue \cup {s} ELSE queue \ {s}
        BY <2>2 DEF FlushQueue, AddQueue, RemoveQueue
      <3>2. Waits("WINDOW")' = Waits("WINDOW") BY <1>8 DEF Waits
      <3>3. s \in Waits("WINDOW") <=> write_wait[s] = "WINDOW" BY DEF Waits
      <3> QED BY <1>0, <2>2, <3>1, <3>2, <3>3 DEF QueueIsWaiters
    <2> QED BY <1>8, <2>1, <2>2 DEF state_read_data
  <1>9. ASSUME NEW s \in Streams, NEW L \in DataLens, NEW f \in BOOLEAN, NEW pad \in BOOLEAN,
               NEW rl \in ReadLens, NEW n \in 0..L, Data(s, L, f, pad, n, rl)
        PROVE  QueueIsWaiters'
    BY <1>8, <1>9 DEF Data
  <1>10. ASSUME NEW n \in 1..length, NEW rl \in ReadLens, DataGoesOn(n, rl)
         PROVE  QueueIsWaiters'
    <2>1. stream \in Streams
      BY <1>10 DEF DataGoesOn, FrameGoesOn, FlowInv, TypeOK, ParserType
    <2> QED BY <1>8, <1>10, <2>1 DEF DataGoesOn
  <1>11. ASSUME NEW n \in 1..Len(write_buffer), WriteDone(n) PROVE QueueIsWaiters'
    <2> DEFINE written == Buffered(SubSeq(write_buffer, 1, n))
    <2>1. UNCHANGED <<queue, read_wait>>
          /\ \A x \in Streams : write_wait'[x] = IF x \in written THEN "none" ELSE write_wait[x]
      BY <1>11 DEF WriteDone
    <2>2. written \subseteq Buffered(write_buffer)
      BY BufferedRest DEF FlowInv, TypeOK, OutType, Buffers, WriterInv, NoLostWriter, Solo
    <2>3. \A x \in written : write_wait[x] = "WRITING"
      BY <2>2 DEF WriterInv, NoLostWriter, Waits
    <2> HIDE DEF written
    <2> QED BY <1>1, <2>1, <2>3
  <1>12. ASSUME NEW s \in Streams, NEW rl \in ReadLens, Read(s, rl) PROVE QueueIsWaiters'
    <2>1. \A x \in Streams : write_wait'[x] = "WINDOW" <=> write_wait[x] = "WINDOW"
      BY <1>0, <1>12 DEF Read
    <2>2. CASE UNCHANGED <<queue, read_wait>> BY <1>1, <2>1, <2>2
    <2>3. CASE read_wait' = read_wait \cup {s} /\ queue' = queue \cup {s}
      <3>1. Waits("WINDOW")' = Waits("WINDOW") BY <2>1 DEF Waits
      <3> QED BY <1>0, <2>3, <3>1 DEF QueueIsWaiters
    <2> QED BY <1>12, <2>2, <2>3 DEF Read, AddQueue
  <1>13. ASSUME NEW s \in Streams, NEW e \in BOOLEAN, Finish(s, e) PROVE QueueIsWaiters'
    <2>1. s \notin rsleep /\ write_wait[s] = "none" /\ UNCHANGED <<read_wait, write_wait>>
          /\ queue' \in {queue, queue \ {s}}
      BY <1>13 DEF Finish, RemoveQueue
    <2>2. s \notin queue BY <1>0, <2>1 DEF ReaderInv, NoLostReader, Waits
    <2> QED BY <1>1, <2>1, <2>2
  <1> QED
    BY NextShapes, TrailersNeverCome, <1>2, <1>3, <1>4, <1>5, <1>6, <1>7, <1>9, <1>10,
       <1>11, <1>12, <1>13 DEF Shapes

-----------------------------------------------------------------------------
(* All together.                                                           *)

\* The inductive invariant of the receiving side as well.
ReadInv == LifeInv /\ LengthInv /\ RecvInv /\ QueueInv

\* A connection starts with full windows and without waiters.
LEMMA InitRead == Init => ReadInv
  <1> SUFFICES ASSUME Init PROVE ReadInv OBVIOUS
  <1>1. LifeInv BY InitLife
  <1>2. StreamRecvWindow \in Nat \ {0} /\ StreamRecvWindow \div 4 \in Nat
    BY WindowsAssumption
  <1>3. \A s \in Streams : num[s] = NoNum /\ flag[s] = {} /\ write_wait[s] = "none"
                           /\ Coming(s) = 0
    BY DEF Init, Coming
  <1>4. read_wait = {} /\ queue = {} /\ Waits("WINDOW") = {} BY <1>3 DEF Init, Waits
  <1>5. LengthInv BY <1>3, <1>4 DEF LengthInv, NoNum, FreshNum, Has
  <1>6. RecvInv BY <1>2, <1>3, <1>4 DEF RecvInv, Held, Granted, NoNum, FreshNum, NoStalledReader
  <1>7. QueueInv BY <1>4 DEF Init, QueueInv, QueueIsWaiters, NewBlock
  <1> QED BY <1>1, <1>5, <1>6, <1>7 DEF ReadInv

\* ReadInv is inductive.
LEMMA NextRead ==
  ASSUME ReadInv, [Next]_vars
  PROVE  ReadInv'
  <1> USE DEF ReadInv
  <1>1. LifeInv' BY NextLife
  <1>2. LengthInv' /\ RecvInv' BY <1>1, NextFields
  <1>3. QueueInv'
    <2> SUFFICES ASSUME NoTrailers PROVE QueueIsWaiters' /\ NewBlock'
      BY DEF QueueInv, NoTrailers
    <2>1. QueueIsWaiters /\ NewBlock BY DEF QueueInv
    <2>2. FlowInv' BY <1>1 DEF LifeInv
    <2> QED BY <1>1, <2>1, <2>2, NextQueue, NextBlock
  <1> QED BY <1>1, <1>2, <1>3

\* ReadInv is an invariant.
LEMMA ReadCorrect == Spec => []ReadInv
  <1>1. Init => ReadInv BY InitRead
  <1>2. ReadInv /\ [Next]_vars => ReadInv' BY NextRead
  <1> QED BY <1>1, <1>2, PTL DEF Spec

\* However state_data, KHttp2::read and check_recv_window are interleaved, a
\* reader sleeps only while the peer may send to its stream, and no stream
\* holds or has granted two windows and a quarter.
THEOREM ReceiversServed == Spec => []RecvWindow
  <1>1. ReadInv => RecvWindow
    <2> SUFFICES ASSUME ReadInv PROVE RecvWindow OBVIOUS
    <2>1. ctx \subseteq Streams BY DEF ReadInv, LifeInv, FlowInv, TypeOK, TreeType
    <2>2. RecvBound
      <3> SUFFICES ASSUME NEW s \in ctx
                   PROVE  num[s].recv_window + num[s].buffered + Coming(s)
                            < 2 * StreamRecvWindow + StreamRecvWindow \div 4
        BY DEF RecvBound
      <3>1. num[s].recv_window \in Nat /\ num[s].buffered \in Nat /\ Coming(s) \in Nat
        BY <2>1, HeldInt, WindowsAssumption DEF ReadInv, LifeInv
      <3>2. Held(s) < 2 * StreamRecvWindow + StreamRecvWindow \div 4
        BY <2>1 DEF ReadInv, RecvInv
      <3>3. Held(s) = num[s].recv_window + num[s].buffered + Coming(s)
        BY <3>1 DEF Held, Granted
      <3> QED BY <3>2, <3>3
    <2> QED BY <2>2 DEF ReadInv, RecvInv, RecvWindow
  <1> QED BY <1>1, ReadCorrect, PTL

\* Whoever waits can be reached: a reader by the frame parser, a writer by
\* the window it waits for, and both, where no trailers come, by the timer of
\* active_queue, through FlushQueue, terminate_stream and close.
THEOREM EveryWaiterReached == Spec => []WaitersReached
  <1>1. ReadInv => WaitersReached
    BY DEF ReadInv, LifeInv, ReaderInv, ClosedInv, QueueInv, WaitersReached
  <1> QED BY <1>1, ReadCorrect, PTL

\* A response of known length ends its stream with its last byte: neither
\* build_write_buffer nor send_header leaves a finished response open, and
\* no write takes more than is left, however the windows cut it up.
THEOREM ResponsesEndInTime == Spec => []EndMatchesLength
  <1>1. ReadInv => EndMatchesLength
    BY DEF ReadInv, LifeInv, FlowInv, TypeOK, TreeType, LengthInv, EndMatchesLength
  <1> QED BY <1>1, ReadCorrect, PTL
=============================================================================
