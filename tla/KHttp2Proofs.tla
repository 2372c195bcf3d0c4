---------------------------- MODULE KHttp2Proofs ----------------------------
(***************************************************************************)
(* The types and the flow control of the sending side: TypeOK,             *)
(* NoStalledWriter and WindowsInRange are invariants of KHttp2, and KHttp2 *)
(* implements SendWindow, for every set of streams and all sizes.          *)
(*                                                                         *)
(* TypeOK is inductive by itself: first the operators that handlers share, *)
(* then one lemma per group of actions, each going through the actions of  *)
(* the group.  The others are not.  A writer must not be forgotten by the  *)
(* scan of check_write_wait, which visits the nodes only, so the invariant *)
(* has to say that a waiting writer is reachable there (TreeInv), and that *)
(* in turn needs that no reachable context is marked for destruction.      *)
(* Most actions are quiet, they leave all of that alone; the others hand   *)
(* out window, create or destroy contexts, or cut streams.                 *)
(***************************************************************************)
EXTENDS KHttp2, TLAPS

USE DEF lifeVars, goVars, outVars, queueVars, parseVars, treeVars,
        readWaitVars, writeWaitVars, NoStream, NoCtx

-----------------------------------------------------------------------------

\* Min picks one of two integers.
LEMMA MinInt ==
  ASSUME NEW a \in Int, NEW b \in Int
  PROVE  Min(a, b) \in Int /\ Min(a, b) <= a /\ Min(a, b) <= b /\ Min(a, b) \in {a, b}
  BY DEF Min

\* A frame is as long as the windows and the data allow, or shorter.
LEMMA FrameLenInt ==
  ASSUME NEW room \in Int, NEW blen \in Nat, NEW file
  PROVE  /\ FrameLen(room, blen, file) \in Int
         /\ room > 0 => FrameLen(room, blen, file) \in 0..room
         /\ FrameLen(room, blen, file) <= blen
  <1> DEFINE n == Min(room, blen)
  <1>1. n \in Int /\ n <= room /\ n <= blen /\ (room > 0 => n >= 0) BY DEF Min
  <1> HIDE DEF n
  <1>2. CASE file /\ n >= FileWidth
    <2> DEFINE m == n % FileWidth
    <2>1. m \in 0..(FileWidth - 1) BY <1>1, WindowsAssumption
    <2>2. FrameLen(room, blen, file) = m BY <1>2 DEF FrameLen, n
    <2>3. n >= FileWidth BY <1>2
    <2> HIDE DEF m
    <2>4. m \in Int /\ 0 <= m /\ m <= n BY <1>1, <2>1, <2>3, WindowsAssumption
    <2> QED BY <1>1, <2>2, <2>4
  <1>3. CASE ~(file /\ n >= FileWidth)
    <2>1. FrameLen(room, blen, file) = n BY <1>3 DEF FrameLen, n
    <2> QED BY <1>1, <2>1
  <1> QED BY <1>2, <1>3

\* A fresh context has integer fields of the right ranges.
LEMMA FreshNumType ==
  ASSUME NEW w \in Int
  PROVE  FreshNum(w) \in StreamNum
  BY WindowsAssumption DEF FreshNum, StreamNum

\* So have the fields kept for a stream without a context.
LEMMA NoNumType == NoNum \in StreamNum
  BY FreshNumType DEF NoNum

\* KHttp2WriteBuffer::push and start_write keep the types of the write side.
LEMMA PushType ==
  ASSUME OutType, NEW pushed, NEW start, Push(pushed, start)
  PROVE  OutType'
  <1>1. WithControl(write_buffer) \in Seq(Streams \cup {0})
    BY DEF WithControl, OutType
  <1> QED BY <1>1 DEF Push, OutType

\* Linking a stream in active_queue keeps the queue types.
LEMMA AddQueueType ==
  ASSUME QueueType, NumType, NEW s \in Streams, AddQueue(s)
  PROVE  QueueType'
  BY DEF AddQueue, QueueType, NumType, StreamNum

\* Unlinking streams keeps the queue types.
LEMMA RemoveQueueType ==
  ASSUME QueueType, NEW S, RemoveQueue(S)
  PROVE  QueueType'
  BY DEF RemoveQueue, QueueType

\* FlushQueue keeps the queue types.
LEMMA FlushQueueType ==
  ASSUME QueueType, NumType, NEW s \in Streams, NEW waiting, FlushQueue(s, waiting)
  PROVE  QueueType'
  BY AddQueueType, RemoveQueueType DEF FlushQueue

\* Taking the events off streams and closing their halves keeps the types.
LEMMA CutType ==
  ASSUME FlagType, WaitType, QueueType, NEW S \in SUBSET Streams, Cut(S)
  PROVE  FlagType' /\ WaitType' /\ QueueType'
  <1>1. FlagType' BY DEF Cut, FlagType, RstFlags, Flags
  <1>2. WaitType' BY DEF Cut, WaitType, WaitKinds
  <1>3. QueueType' BY RemoveQueueType DEF Cut
  <1> QED BY <1>1, <1>2, <1>3

\* terminate_stream keeps the types.
LEMMA TerminateType ==
  ASSUME FlagType, WaitType, QueueType, OutType, NEW s \in Streams, terminate_stream(s)
  PROVE  FlagType' /\ WaitType' /\ QueueType' /\ OutType'
  BY CutType, PushType DEF terminate_stream

\* on_write_window_ready keeps the types of all it changes.
LEMMA WindowReadyType ==
  ASSUME TypeOK, NEW s \in Streams, NEW sw \in Int, NEW blen \in Nat,
         NEW file, on_write_window_ready(s, sw, blen, file)
  PROVE  /\ send_window' \in Int
         /\ write_wait' \in [Streams -> WaitKinds]
         /\ NumType' /\ FlagType' /\ OutType' /\ QueueType'
  <1> DEFINE room == Room(sw)
             sent == FrameLen(room, blen, file)
             left == num[s].content_left
  <1>1. room \in Int BY MinInt DEF Room, TypeOK, WindowType
  <1>2. sent \in Int BY <1>1, FrameLenInt
  <1>3. left \in Int BY DEF TypeOK, NumType, StreamNum
  <1> HIDE DEF room, sent, left
  <1>4. CASE room <= 0
    <2>1. /\ num' = [num EXCEPT ![s].send_window = sw, ![s].wait_len = blen]
          /\ write_wait' = [write_wait EXCEPT ![s] = "WINDOW"]
          /\ flag' = [flag EXCEPT ![s] = AsFile(@, file)]
          /\ AddQueue(s)
          /\ UNCHANGED <<send_window, outVars>>
      BY <1>4 DEF on_write_window_ready, room
    <2>2. NumType' BY <2>1 DEF TypeOK, NumType, StreamNum
    <2>3. QueueType' BY <2>1, AddQueueType DEF TypeOK
    <2>4. write_wait' \in [Streams -> WaitKinds] BY <2>1 DEF TypeOK, WaitType, WaitKinds
    <2>5. FlagType' BY <2>1 DEF TypeOK, FlagType, Flags, AsFile
    <2> QED BY <2>1, <2>2, <2>3, <2>4, <2>5 DEF TypeOK, OutType, WindowType
  <1>5. CASE ~(room <= 0)
    <2> DEFINE c == IF left > 0 THEN left - sent ELSE left
    <2>1. num' = [num EXCEPT ![s].send_window = sw - sent, ![s].wait_len = 0,
                             ![s].content_left = c]
      BY <1>5 DEF on_write_window_ready, room, sent, left
    <2>2. /\ send_window' = send_window - sent
          /\ write_wait' = [write_wait EXCEPT ![s] = "WRITING"]
          /\ write_buffer' = Append(write_buffer, s)
          /\ write_processing' = TRUE
          /\ FlushQueue(s, s \in read_wait)
      BY <1>5 DEF on_write_window_ready, room, sent
    <2>3. flag' = [flag EXCEPT ![s] = AsFile(@, file) \cup
                                (IF Ends(left, sent) THEN {"out_closed"} ELSE {})]
      BY <1>5 DEF on_write_window_ready, room, sent, left
    <2>4. NumType'
      <3>1. c \in Int /\ sw - sent \in Int BY <1>2, <1>3
      <3> HIDE DEF c
      <3> QED BY <2>1, <3>1 DEF TypeOK, NumType, StreamNum
    <2>5. FlagType' BY <2>3 DEF TypeOK, FlagType, Flags, AsFile
    <2>6. OutType' BY <2>2 DEF TypeOK, OutType
    <2>7. QueueType' BY <2>2, FlushQueueType DEF TypeOK
    <2>8. write_wait' \in [Streams -> WaitKinds] BY <2>2 DEF TypeOK, WaitType, WaitKinds
    <2>9. send_window' \in Int BY <2>2, <1>2 DEF TypeOK, WindowType
    <2> QED BY <2>4, <2>5, <2>6, <2>7, <2>8, <2>9
  <1> QED BY <1>4, <1>5

\* state_complete leaves the parser at a frame head without a stream.
LEMMA StateCompleteType ==
  ASSUME TreeType, NEW s \in Streams \cup {NoStream},
         NEW fl \in [Streams -> SUBSET Flags], NEW nm \in [Streams -> StreamNum],
         FlagType, NumType, state_complete(s, fl, nm)
  PROVE  ctx' \in SUBSET Streams /\ FlagType' /\ NumType' /\ ParserType'
  <1>1. ParserType' BY DEF state_complete, ParserType
  <1>2. CASE s # NoStream /\ Has(s, "destroy_by_http2")
    <2>1. Destroy(s) BY <1>2 DEF state_complete
    <2>2. ctx' \in SUBSET Streams BY <2>1 DEF Destroy, TreeType
    <2>3. FlagType' BY <2>1 DEF Destroy, FlagType
    <2>4. NumType' BY <2>1, NoNumType DEF Destroy, NumType
    <2> QED BY <1>1, <2>2, <2>3, <2>4
  <1>3. CASE ~(s # NoStream /\ Has(s, "destroy_by_http2"))
    <2>1. flag' = fl /\ num' = nm /\ ctx' = ctx BY <1>3 DEF state_complete
    <2> QED BY <1>1, <2>1 DEF FlagType, NumType, TreeType
  <1> QED BY <1>2, <1>3

\* ~KHttp2 keeps the types.
LEMMA DeleteThisType ==
  ASSUME NEW n \in Int, DeleteThis(n)
  PROVE  deleted' \in BOOLEAN /\ processing' \in Int
         /\ write_buffer' \in Seq(Streams \cup {NoCtx}) /\ ParserType'
  <1>1. ParserType' BY DEF DeleteThis, ParserType
  <1>2. write_buffer' \in Seq(Streams \cup {NoCtx}) BY DEF DeleteThis
  <1>3. deleted' \in BOOLEAN BY DEF DeleteThis
  <1>4. processing' \in Int BY DEF DeleteThis
  <1> QED BY <1>1, <1>2, <1>3, <1>4

\* KHttp2::close keeps the type invariant.
LEMMA CloseType ==
  ASSUME TypeOK, NEW read \in BOOLEAN, close(read), pinged' \in BOOLEAN
  PROVE  TypeOK'
  <1>1. ConnType' /\ write_buffer' \in Seq(Streams \cup {NoCtx}) /\ ParserType'
    <2>1. /\ deleted' \in BOOLEAN /\ processing' \in Int
          /\ write_buffer' \in Seq(Streams \cup {NoCtx}) /\ ParserType'
      <3>1. CASE DeleteThis(processing)
        BY <3>1, DeleteThisType DEF TypeOK, ConnType
      <3>2. CASE /\ write_buffer' = IF read THEN write_buffer ELSE <<>>
                 /\ UNCHANGED <<deleted, processing, parseVars>>
        <4>1. ParserType' BY <3>2 DEF TypeOK, ParserType
        <4>2. write_buffer' \in Seq(Streams \cup {NoCtx}) BY <3>2 DEF TypeOK, OutType
        <4> QED BY <3>2, <4>1, <4>2 DEF TypeOK, ConnType
      <3> QED BY <3>1, <3>2 DEF close
    <2>2. /\ closed' \in BOOLEAN /\ read_processing' \in BOOLEAN /\ self_goaway' \in BOOLEAN
          /\ phase' = "wait" /\ UNCHANGED <<down, peer_goaway, last_peer_sid>>
      BY DEF close
    <2> QED BY <2>1, <2>2 DEF TypeOK, ConnType
  <1>2. OutType' BY <1>1 DEF close, OutType
  <1>3. WindowType' BY DEF close, TypeOK, WindowType
  <1>4. QueueType' BY RemoveQueueType DEF close, TypeOK
  <1>5. TreeType' BY DEF close, TypeOK, TreeType
  <1>6. FlagType' BY DEF close, TypeOK, FlagType, RstFlags, Flags
  <1>7. NumType' BY NoNumType DEF close, TypeOK, NumType
  <1>8. WaitType' BY DEF close, TypeOK, WaitType, WaitKinds
  <1> QED BY <1>1, <1>2, <1>3, <1>4, <1>5, <1>6, <1>7, <1>8 DEF TypeOK

\* state_read_data keeps the types: what is taken was buffered.
LEMMA ReadDataType ==
  ASSUME TypeOK, NEW s \in Streams, NEW left \in Nat, NEW f \in BOOLEAN, NEW pad \in BOOLEAN,
         NEW n \in 0..left, NEW rl \in ReadLens, NEW nm \in [Streams -> StreamNum],
         state_read_data(s, left, f, pad, n, rl, nm)
  PROVE  /\ ctx' \in SUBSET Streams /\ FlagType' /\ NumType' /\ ParserType' /\ QueueType'
         /\ read_wait' \in SUBSET Streams /\ rsleep' \in SUBSET Streams
  <1> DEFINE waits == s \in read_wait
             ends == n = left /\ f
             held == nm[s].buffered + n
             taken == IF waits /\ n > 0 THEN Min(rl, held) ELSE 0
             nm1 == [nm EXCEPT ![s].buffered = held - taken]
             fl1 == IF ends THEN [flag EXCEPT ![s] = @ \cup {"in_closed"}] ELSE flag
  <1>1. nm1 \in [Streams -> StreamNum]
    <2>1. held \in Nat BY DEF StreamNum
    <2>2. rl \in Nat BY SizesAssumption
    <2>3. held - taken \in Nat BY <2>1, <2>2 DEF Min
    <2> HIDE DEF held, taken
    <2> QED BY <2>3 DEF StreamNum
  <1>2. fl1 \in [Streams -> SUBSET Flags] BY DEF TypeOK, FlagType, Flags
  <1>3. QueueType'
    <2>1. FlushQueue(s, write_wait[s] = "WINDOW") \/ UNCHANGED queueVars
      BY DEF state_read_data
    <2> QED BY <2>1, FlushQueueType DEF TypeOK, QueueType
  <1>4. read_wait' \in SUBSET Streams /\ rsleep' \in SUBSET Streams
    BY DEF state_read_data, TypeOK, WaitType
  <1>5. \/ /\ handler' \in {"read_data", "skip"}
           /\ stream' = s /\ length' = left - n /\ fin' = f /\ padded' = pad
           /\ flag' = fl1 /\ num' = nm1 /\ UNCHANGED ctx
        \/ state_complete(s, fl1, nm1)
    BY DEF state_read_data
  <1> HIDE DEF nm1, fl1
  <1>6. CASE state_complete(s, fl1, nm1)
    BY <1>1, <1>2, <1>3, <1>4, <1>6, StateCompleteType DEF TypeOK
  <1>7. CASE /\ handler' \in {"read_data", "skip"}
             /\ stream' = s /\ length' = left - n /\ fin' = f /\ padded' = pad
             /\ flag' = fl1 /\ num' = nm1 /\ UNCHANGED ctx
    <2>1. ParserType' BY <1>7 DEF ParserType
    <2> QED BY <1>1, <1>2, <1>3, <1>4, <1>7, <2>1 DEF TypeOK, FlagType, NumType, TreeType
  <1> QED BY <1>5, <1>6, <1>7

\* HEADERS frames, whole, split or refused, keep the type invariant.
LEMMA HeaderFramesType ==
  ASSUME TypeOK, HeaderFrames
  PROVE  TypeOK'
  <1>1. ASSUME NEW s \in Streams, NEW f \in BOOLEAN, NEW w \in BOOLEAN, NewHeaders(s, f, w)
       PROVE  TypeOK'
    <2>1. WindowType' /\ OutType' /\ WaitType'
      BY <1>1 DEF NewHeaders, TypeOK, WindowType, OutType, WaitType
    <2>2. ConnType'
      <3>1. processing' \in Int BY <1>1 DEF NewHeaders, TypeOK, ConnType
      <3>2. last_peer_sid' \in Streams BY <1>1 DEF NewHeaders
      <3>3. UNCHANGED <<deleted, closed, read_processing, down, self_goaway, peer_goaway>> BY <1>1 DEF NewHeaders
      <3> QED BY <1>1, <3>1, <3>2, <3>3 DEF NewHeaders, Parsed, TypeOK, ConnType
    <2>3. QueueType'
      BY <1>1 DEF NewHeaders, TypeOK, QueueType
    <2>4. ParserType'
      BY <1>1 DEF NewHeaders, TypeOK, ParserType
    <2>5. TreeType'
      BY <1>1 DEF NewHeaders, TypeOK, TreeType
    <2>6. FlagType'
      BY <1>1 DEF NewHeaders, TypeOK, FlagType, Flags
    <2>7. NumType'
      BY <1>1, FreshNumType DEF NewHeaders, TypeOK, NumType, WindowType
    <2> QED BY <2>1, <2>2, <2>3, <2>4, <2>5, <2>6, <2>7 DEF TypeOK
  <1>2. ASSUME NewHeadersComplete
       PROVE  TypeOK'
    <2>1. WindowType' /\ OutType' /\ QueueType' /\ NumType' /\ WaitType'
      BY <1>2 DEF NewHeadersComplete, TypeOK, WindowType, OutType, QueueType, NumType, WaitType
    <2>2. ConnType'
      <3>1. processing' \in Int /\ phase' = "loop" /\ pinged' = FALSE
            /\ UNCHANGED <<deleted, closed, read_processing, down, goVars>>
        BY <1>2 DEF NewHeadersComplete, Parsed, TypeOK, ConnType
      <3> QED BY <3>1 DEF TypeOK, ConnType
    <2>3. ParserType'
      BY <1>2 DEF NewHeadersComplete, TypeOK, ParserType
    <2>4. TreeType'
      BY <1>2 DEF NewHeadersComplete, FrameGoesOn, TypeOK, TreeType, ParserType
    <2>5. FlagType'
      BY <1>2 DEF NewHeadersComplete, TypeOK, FlagType, Flags
    <2> QED BY <2>1, <2>2, <2>3, <2>4, <2>5 DEF TypeOK
  <1>3. ASSUME NEW s \in Streams, NEW d \in BOOLEAN, RefusedHeaders(s, d)
       PROVE  TypeOK'
    <2>1. WindowType' /\ QueueType' /\ ParserType' /\ TreeType' /\ FlagType' /\ NumType'
          /\ WaitType'
      BY <1>3 DEF RefusedHeaders, TypeOK, WindowType, QueueType, ParserType, TreeType,
          FlagType, NumType, WaitType
    <2>2. ConnType' BY <1>3 DEF RefusedHeaders, Parsed, TypeOK, ConnType
    <2>3. OutType'
      BY <1>3, PushType DEF RefusedHeaders, TypeOK
    <2> QED BY <2>1, <2>2, <2>3 DEF TypeOK
  <1>4. ASSUME NEW s \in Streams, NEW f \in BOOLEAN, NEW w \in BOOLEAN, Trailers(s, f, w)
       PROVE  TypeOK'
    <2>1. WindowType' /\ OutType'
      BY <1>4 DEF Trailers, TypeOK, WindowType, OutType
    <2>2. ConnType'
      <3>1. last_peer_sid' \in Streams /\ phase' = "loop" /\ pinged' = FALSE
            /\ UNCHANGED <<lifeVars, self_goaway, peer_goaway>>
        BY <1>4 DEF Trailers, Parsed
      <3> QED BY <3>1 DEF TypeOK, ConnType
    <2>3. QueueType'
      BY <1>4, RemoveQueueType DEF Trailers, TypeOK
    <2>4. ParserType'
      BY <1>4 DEF Trailers, TypeOK, ParserType
    <2>5. TreeType'
      BY <1>4 DEF Trailers, TypeOK, TreeType
    <2>6. FlagType'
      BY <1>4 DEF Trailers, TypeOK, FlagType, Flags
    <2>7. NumType'
      BY <1>4 DEF Trailers, TypeOK, NumType
    <2>8. WaitType'
      BY <1>4 DEF Trailers, TypeOK, WaitType
    <2> QED BY <2>1, <2>2, <2>3, <2>4, <2>5, <2>6, <2>7, <2>8 DEF TypeOK
  <1>5. ASSUME TrailersComplete
       PROVE  TypeOK'
    <2>1. WindowType' /\ OutType' /\ QueueType'
      BY <1>5 DEF TrailersComplete, TypeOK, WindowType, OutType, QueueType
    <2>2. ConnType' BY <1>5 DEF TrailersComplete, Parsed, TypeOK, ConnType
    <2>3. ParserType' /\ TreeType' /\ FlagType' /\ NumType'
      <3>1. \E s \in Streams \cup {NoStream} : state_complete(s, flag, num)
        BY <1>5 DEF TrailersComplete, TrailersDone, FrameGoesOn, TypeOK, ParserType
      <3>2. ctx' \in SUBSET Streams /\ FlagType' /\ NumType' /\ ParserType'
        BY <3>1, StateCompleteType DEF TypeOK, FlagType, NumType
      <3> QED BY <1>5, <3>2 DEF TrailersComplete, TypeOK, TreeType
    <2>4. WaitType'
      BY <1>5 DEF TrailersComplete, TrailersDone, TypeOK, WaitType
    <2> QED BY <2>1, <2>2, <2>3, <2>4 DEF TypeOK
  <1> QED BY <1>1, <1>2, <1>3, <1>4, <1>5 DEF HeaderFrames

\* DATA frames keep the type invariant: a window is charged only for what it holds.
LEMMA DataFramesType ==
  ASSUME TypeOK, DataFrames
  PROVE  TypeOK'
  <1>1. ASSUME NEW L \in DataLens, DataOverrun(L)
       PROVE  TypeOK'
    BY <1>1, CloseType DEF DataOverrun
  <1>2. ASSUME NEW s \in Streams, NEW L \in DataLens, DataUnknown(s, L)
       PROVE  TypeOK'
    <2>1. QueueType' /\ ParserType' /\ TreeType' /\ FlagType' /\ NumType' /\ WaitType'
      BY <1>2 DEF DataUnknown, TypeOK, QueueType, ParserType, TreeType, FlagType, NumType,
          WaitType
    <2>2. ConnType' BY <1>2 DEF DataUnknown, Parsed, TypeOK, ConnType
    <2>3. WindowType'
      BY <1>2, SizesAssumption, WindowsAssumption DEF DataUnknown, TakeRecvWindow, TypeOK,
          WindowType
    <2>4. OutType'
      BY <1>2, PushType DEF DataUnknown, TypeOK
    <2> QED BY <2>1, <2>2, <2>3, <2>4 DEF TypeOK
  <1>3. ASSUME NEW s \in Streams, NEW L \in DataLens, DataRefused(s, L)
       PROVE  TypeOK'
    <2>1. ParserType' /\ TreeType'
      BY <1>3 DEF DataRefused, TypeOK, ParserType, TreeType
    <2>2. ConnType' BY <1>3 DEF DataRefused, Parsed, TypeOK, ConnType
    <2>3. WindowType'
      BY <1>3, SizesAssumption, WindowsAssumption DEF DataRefused, TakeRecvWindow, TypeOK,
          WindowType
    <2>4. OutType'
      BY <1>3, PushType DEF DataRefused, TypeOK
    <2>5. QueueType' /\ FlagType' /\ WaitType'
      BY <1>3, CutType DEF DataRefused, TypeOK
    <2>6. NumType'
      <3>1. CASE ~Has(s, "parsed_header") \/ L > num[s].recv_window
        BY <1>3, <3>1 DEF DataRefused, TypeOK, NumType
      <3>2. CASE ~(~Has(s, "parsed_header") \/ L > num[s].recv_window)
        <4>1. num' = [num EXCEPT ![s].recv_window = @ - L] BY <1>3, <3>2 DEF DataRefused
        <4>2. num[s].recv_window - L \in 0..StreamRecvWindow
          BY <3>2, SizesAssumption, WindowsAssumption DEF TypeOK, NumType, StreamNum
        <4> QED BY <4>1, <4>2 DEF TypeOK, NumType, StreamNum
      <3> QED BY <3>1, <3>2
    <2> QED BY <2>1, <2>2, <2>3, <2>4, <2>5, <2>6 DEF TypeOK
  <1>4. ASSUME NEW s \in Streams, NEW L \in DataLens, NEW f \in BOOLEAN,
      NEW pad \in BOOLEAN, NEW rl \in ReadLens, NEW n \in 0..L, Data(s, L, f, pad, n, rl)
       PROVE  TypeOK'
    <2>1. ConnType' BY <1>4 DEF Data, Parsed, TypeOK, ConnType
    <2>2. WindowType'
      BY <1>4, SizesAssumption, WindowsAssumption DEF Data, TakeRecvWindow, TypeOK, WindowType
    <2>3. OutType'
      BY <1>4, PushType DEF Data, TypeOK
    <2>4. QueueType' /\ ParserType' /\ TreeType' /\ FlagType' /\ NumType' /\ WaitType'
      <3>1. num[s].recv_window - L \in 0..StreamRecvWindow /\ L \in Nat
        BY <1>4, SizesAssumption, WindowsAssumption DEF Data, TypeOK, NumType, StreamNum
      <3>2. [num EXCEPT ![s].recv_window = @ - L] \in [Streams -> StreamNum]
        BY <3>1 DEF TypeOK, NumType, StreamNum
      <3>3. state_read_data(s, L, f, pad, n, rl, [num EXCEPT ![s].recv_window = @ - L])
        BY <1>4 DEF Data
      <3>4. UNCHANGED <<node, live, writeWaitVars>> BY <1>4 DEF Data
      <3>5. /\ ctx' \in SUBSET Streams /\ FlagType' /\ NumType' /\ ParserType' /\ QueueType'
            /\ read_wait' \in SUBSET Streams /\ rsleep' \in SUBSET Streams
        BY <3>1, <3>2, <3>3, ReadDataType
      <3> QED BY <3>4, <3>5 DEF TypeOK, TreeType, WaitType
    <2> QED BY <2>1, <2>2, <2>3, <2>4 DEF TypeOK
  <1>5. ASSUME NEW n \in 1..length, NEW rl \in ReadLens, DataGoesOn(n, rl)
       PROVE  TypeOK'
    <2>1. WindowType' /\ OutType'
      BY <1>5 DEF DataGoesOn, TypeOK, WindowType, OutType
    <2>2. ConnType' BY <1>5 DEF DataGoesOn, Parsed, TypeOK, ConnType
    <2>3. QueueType' /\ ParserType' /\ TreeType' /\ FlagType' /\ NumType' /\ WaitType'
      <3>1. /\ stream \in Streams /\ length \in Nat /\ fin \in BOOLEAN /\ padded \in BOOLEAN
            /\ n \in 0..length /\ num \in [Streams -> StreamNum]
        BY <1>5 DEF DataGoesOn, FrameGoesOn, TypeOK, ParserType, NumType
      <3>2. state_read_data(stream, length, fin, padded, n, rl, num)
        BY <1>5 DEF DataGoesOn
      <3>3. UNCHANGED <<node, live, writeWaitVars>> BY <1>5 DEF DataGoesOn
      <3> QED BY <3>1, <3>2, <3>3, ReadDataType DEF TypeOK, TreeType, WaitType
    <2> QED BY <2>1, <2>2, <2>3 DEF TypeOK
  <1>6. ASSUME SkipComplete
       PROVE  TypeOK'
    <2>1. WindowType' /\ OutType' /\ QueueType' /\ WaitType'
      BY <1>6 DEF SkipComplete, TypeOK, WindowType, OutType, QueueType, WaitType
    <2>2. ConnType' BY <1>6 DEF SkipComplete, Parsed, TypeOK, ConnType
    <2>3. ParserType' /\ TreeType' /\ FlagType' /\ NumType'
      <3>1. state_complete(stream, flag, num) /\ stream \in Streams
        BY <1>6 DEF SkipComplete, FrameGoesOn, TypeOK, ParserType
      <3>2. ctx' \in SUBSET Streams /\ FlagType' /\ NumType' /\ ParserType'
        BY <3>1, StateCompleteType DEF TypeOK, FlagType, NumType
      <3> QED BY <1>6, <3>2 DEF SkipComplete, TypeOK, TreeType
    <2> QED BY <2>1, <2>2, <2>3 DEF TypeOK
  <1> QED BY <1>1, <1>2, <1>3, <1>4, <1>5, <1>6 DEF DataFrames

\* The other frames keep the type invariant.
LEMMA ControlFramesType ==
  ASSUME TypeOK, ControlFrames
  PROVE  TypeOK'
  <1>1. ASSUME NEW s \in Streams, RstStream(s)
       PROVE  TypeOK'
    <2>1. WindowType' /\ OutType' /\ ParserType' /\ TreeType'
      BY <1>1 DEF RstStream, TypeOK, WindowType, OutType, ParserType, TreeType
    <2>2. ConnType' BY <1>1 DEF RstStream, Parsed, TypeOK, ConnType
    <2>3. QueueType' /\ FlagType' /\ WaitType'
      BY <1>1, CutType DEF RstStream, TypeOK
    <2>4. NumType'
      BY <1>1 DEF RstStream, TypeOK, NumType, StreamNum
    <2> QED BY <2>1, <2>2, <2>3, <2>4 DEF TypeOK
  <1>2. ASSUME NEW s \in Streams, NEW w \in Increments, WindowUpdate(s, w)
       PROVE  TypeOK'
    <2>1. ParserType' /\ TreeType'
      BY <1>2 DEF WindowUpdate, TypeOK, ParserType, TreeType
    <2>2. ConnType' BY <1>2 DEF WindowUpdate, Parsed, TypeOK, ConnType
    <2>3. WindowType' /\ OutType' /\ QueueType' /\ FlagType' /\ NumType' /\ WaitType'
      <3>1. num[s].send_window \in Int /\ num[s].wait_len \in Nat /\ w \in Nat
        BY SizesAssumption DEF TypeOK, NumType, StreamNum
      <3> DEFINE sw == num[s].send_window + w
      <3>2. \/ terminate_stream(s) /\ UNCHANGED <<send_window, num>>
            \/ /\ on_write_window_ready(s, sw, num[s].wait_len, Has(s, "sendfile"))
               /\ UNCHANGED <<wsleep, readWaitVars>>
            \/ /\ num' = [num EXCEPT ![s].send_window = sw]
               /\ UNCHANGED <<send_window, flag, outVars, queueVars, readWaitVars, writeWaitVars>>
        BY <1>2 DEF WindowUpdate
      <3>3. UNCHANGED <<scan, init_window, frame_size, recv_window>> BY <1>2 DEF WindowUpdate
      <3>4. sw \in Int BY <3>1
      <3> HIDE DEF sw
      <3>5. CASE terminate_stream(s) /\ UNCHANGED <<send_window, num>>
        BY <3>3, <3>5, TerminateType DEF TypeOK, WindowType, NumType
      <3>6. CASE /\ on_write_window_ready(s, sw, num[s].wait_len, Has(s, "sendfile"))
                 /\ UNCHANGED <<wsleep, readWaitVars>>
        BY <3>1, <3>3, <3>4, <3>6, WindowReadyType DEF TypeOK, WindowType, WaitType
      <3>7. CASE /\ num' = [num EXCEPT ![s].send_window = sw]
                 /\ UNCHANGED <<send_window, flag, outVars, queueVars, readWaitVars, writeWaitVars>>
        <4>1. NumType' BY <3>4, <3>7 DEF TypeOK, NumType, StreamNum
        <4> QED
          BY <3>3, <3>7, <4>1 DEF TypeOK, WindowType, OutType, QueueType, FlagType, WaitType
      <3> QED BY <3>2, <3>5, <3>6, <3>7
    <2> QED BY <2>1, <2>2, <2>3 DEF TypeOK
  <1>3. ASSUME NEW w \in Increments, ConnWindowUpdate(w)
       PROVE  TypeOK'
    <2>1. OutType' /\ QueueType' /\ ParserType' /\ TreeType' /\ FlagType' /\ NumType'
          /\ WaitType'
      BY <1>3 DEF ConnWindowUpdate, TypeOK, OutType, QueueType, ParserType, TreeType,
          FlagType, NumType, WaitType
    <2>2. ConnType' BY <1>3 DEF ConnWindowUpdate, Parsed, TypeOK, ConnType
    <2>3. WindowType'
      BY <1>3, SizesAssumption DEF ConnWindowUpdate, TypeOK, WindowType, TreeType
    <2> QED BY <2>1, <2>2, <2>3 DEF TypeOK
  <1>4. ASSUME NEW v \in InitWindows, SettingsWindow(v)
       PROVE  TypeOK'
    <2>1. QueueType' /\ ParserType' /\ TreeType' /\ FlagType' /\ WaitType'
      BY <1>4 DEF SettingsWindow, TypeOK, QueueType, ParserType, TreeType, FlagType, WaitType
    <2>2. ConnType' BY <1>4 DEF SettingsWindow, Parsed, TypeOK, ConnType
    <2>3. WindowType' /\ NumType'
      <3>1. v \in 0..MaxWindow BY SizesAssumption, WindowsAssumption
      <3>2. \A s \in Streams : Adjusted(s, v - init_window) \in Int
        BY <3>1, WindowsAssumption DEF Adjusted, TypeOK, WindowType, NumType, StreamNum
      <3>3. \A s \in Streams :
              [num[s] EXCEPT !.send_window = Adjusted(s, v - init_window)] \in StreamNum
        BY <3>2 DEF TypeOK, NumType, StreamNum
      <3>4. NumType' BY <1>4, <3>3 DEF SettingsWindow, TypeOK, NumType
      <3>5. WindowType' BY <1>4, <3>1 DEF SettingsWindow, TypeOK, WindowType, TreeType
      <3> QED BY <3>4, <3>5
    <2>4. OutType'
      BY <1>4, PushType DEF SettingsWindow, TypeOK
    <2> QED BY <2>1, <2>2, <2>3, <2>4 DEF TypeOK
  <1>5. ASSUME NEW v \in FrameSizes, SettingsFrameSize(v)
       PROVE  TypeOK'
    <2>1. QueueType' /\ ParserType' /\ TreeType' /\ FlagType' /\ NumType' /\ WaitType'
      BY <1>5 DEF SettingsFrameSize, TypeOK, QueueType, ParserType, TreeType, FlagType,
          NumType, WaitType
    <2>2. ConnType' BY <1>5 DEF SettingsFrameSize, Parsed, TypeOK, ConnType
    <2>3. WindowType'
      BY <1>5, SizesAssumption DEF SettingsFrameSize, TypeOK, WindowType
    <2>4. OutType'
      BY <1>5, PushType DEF SettingsFrameSize, TypeOK
    <2> QED BY <2>1, <2>2, <2>3, <2>4 DEF TypeOK
  <1>6. ASSUME PingFrame
       PROVE  TypeOK'
    <2>1. WindowType' /\ QueueType' /\ ParserType' /\ TreeType' /\ FlagType' /\ NumType'
          /\ WaitType'
      BY <1>6 DEF PingFrame, TypeOK, WindowType, QueueType, ParserType, TreeType,
          FlagType, NumType, WaitType
    <2>2. ConnType' BY <1>6 DEF PingFrame, Parsed, TypeOK, ConnType
    <2>3. OutType'
      BY <1>6, PushType DEF PingFrame, TypeOK
    <2> QED BY <2>1, <2>2, <2>3 DEF TypeOK
  <1>7. ASSUME GoawayFrame
       PROVE  TypeOK'
    <2>1. WindowType' /\ OutType' /\ QueueType' /\ ParserType' /\ TreeType' /\ FlagType'
          /\ NumType' /\ WaitType'
      BY <1>7 DEF GoawayFrame, TypeOK, WindowType, OutType, QueueType, ParserType,
          TreeType, FlagType, NumType, WaitType
    <2>2. ConnType' BY <1>7 DEF GoawayFrame, Parsed, TypeOK, ConnType
    <2> QED BY <2>1, <2>2 DEF TypeOK
  <1>8. ASSUME IdleFrame
       PROVE  TypeOK'
    <2>1. WindowType' /\ OutType' /\ QueueType' /\ ParserType' /\ TreeType' /\ FlagType'
          /\ NumType' /\ WaitType'
      BY <1>8 DEF IdleFrame, TypeOK, WindowType, OutType, QueueType, ParserType, TreeType,
          FlagType, NumType, WaitType
    <2>2. ConnType' BY <1>8 DEF IdleFrame, Parsed, TypeOK, ConnType
    <2> QED BY <2>1, <2>2 DEF TypeOK
  <1> QED BY <1>1, <1>2, <1>3, <1>4, <1>5, <1>6, <1>7, <1>8 DEF ControlFrames

\* Every step of the read callback keeps the type invariant.
LEMMA ReadSideType ==
  ASSUME TypeOK, ReadSide
  PROVE  TypeOK'
  <1>1. CASE HeaderFrames BY <1>1, HeaderFramesType
  <1>2. CASE DataFrames BY <1>2, DataFramesType
  <1>3. CASE ControlFrames BY <1>3, ControlFramesType
  <1>4. ASSUME NEW s \in Streams, check_stream_timeout(s)
       PROVE  TypeOK'
    <2>1. WindowType' /\ ParserType' /\ TreeType' /\ NumType'
      BY <1>4 DEF check_stream_timeout, TypeOK, WindowType, ParserType, TreeType, NumType
    <2>2. ConnType'
      <3>1. phase' \in {"head", "ping"} /\ UNCHANGED <<lifeVars, goVars, pinged>>
        BY <1>4 DEF check_stream_timeout, Parsed
      <3> QED BY <3>1 DEF TypeOK, ConnType
    <2>3. OutType' /\ QueueType' /\ FlagType' /\ WaitType'
      <3>1. \/ /\ tmo_left' = [tmo_left EXCEPT ![s] = @ - 1] /\ tmo_left[s] > 0
               /\ expired' = expired \ {s}
               /\ UNCHANGED <<queue, flag, readWaitVars, writeWaitVars, outVars>>
            \/ RemoveQueue({s}) /\ UNCHANGED <<flag, readWaitVars, writeWaitVars, outVars>>
            \/ terminate_stream(s)
        BY <1>4 DEF check_stream_timeout
      <3>2. CASE /\ tmo_left' = [tmo_left EXCEPT ![s] = @ - 1] /\ tmo_left[s] > 0
                 /\ expired' = expired \ {s}
                 /\ UNCHANGED <<queue, flag, readWaitVars, writeWaitVars, outVars>>
        BY <3>2 DEF TypeOK, QueueType, FlagType, WaitType, OutType
      <3>3. CASE RemoveQueue({s}) /\ UNCHANGED <<flag, readWaitVars, writeWaitVars, outVars>>
        BY <3>3, RemoveQueueType DEF TypeOK, FlagType, WaitType, OutType
      <3>4. CASE terminate_stream(s)
        BY <3>4, TerminateType DEF TypeOK
      <3> QED BY <3>1, <3>2, <3>3, <3>4
    <2> QED BY <2>1, <2>2, <2>3 DEF TypeOK
  <1>5. ASSUME NEW s \in Streams, check_write_wait(s)
       PROVE  TypeOK'
    <2>1. ParserType' /\ TreeType'
      BY <1>5 DEF check_write_wait, TypeOK, ParserType, TreeType
    <2>2. ConnType' BY <1>5 DEF check_write_wait, Parsed, TypeOK, ConnType
    <2>3. WindowType' /\ OutType' /\ QueueType' /\ FlagType' /\ NumType' /\ WaitType'
      <3>1. num[s].send_window \in Int /\ num[s].wait_len \in Nat
        BY DEF TypeOK, NumType, StreamNum
      <3>2. \/ on_write_window_ready(s, num[s].send_window, num[s].wait_len,
                                  Has(s, "sendfile"))
            \/ UNCHANGED <<send_window, flag, num, outVars, queueVars, write_wait>>
        BY <1>5 DEF check_write_wait
      <3>3. /\ UNCHANGED <<init_window, frame_size, recv_window, readWaitVars, wsleep>>
            /\ scan' \in SUBSET Streams
        BY <1>5 DEF check_write_wait, TypeOK, WindowType
      <3>4. CASE on_write_window_ready(s, num[s].send_window, num[s].wait_len,
                                  Has(s, "sendfile"))
        BY <3>1, <3>3, <3>4, WindowReadyType DEF TypeOK, WindowType, WaitType
      <3>5. CASE UNCHANGED <<send_window, flag, num, outVars, queueVars, write_wait>>
        BY <3>3, <3>5 DEF TypeOK, WindowType, OutType, QueueType, FlagType, NumType, WaitType
      <3> QED BY <3>2, <3>4, <3>5
    <2> QED BY <2>1, <2>2, <2>3 DEF TypeOK
  <1>6. ASSUME NEW idle \in BOOLEAN, StartRead(idle)
       PROVE  TypeOK'
    <2>1. CASE close(TRUE) /\ UNCHANGED pinged
      BY <2>1, CloseType DEF TypeOK, ConnType
    <2>2. CASE /\ phase' = "wait"
               /\ self_goaway' \in BOOLEAN
               /\ OutType'
               /\ UNCHANGED <<lifeVars, peer_goaway, last_peer_sid, queueVars, parseVars,
                              treeVars, readWaitVars, writeWaitVars, scan, send_window,
                              init_window, frame_size, recv_window, flag, num, pinged>>
      <3>1. ConnType' BY <2>2 DEF TypeOK, ConnType
      <3>2. WindowType' /\ QueueType' /\ ParserType' /\ TreeType' /\ FlagType'
            /\ NumType' /\ WaitType'
        BY <2>2 DEF TypeOK, WindowType, QueueType, ParserType, TreeType, FlagType,
            NumType, WaitType
      <3> QED BY <2>2, <3>1, <3>2 DEF TypeOK
    <2> QED BY <1>6, <2>1, <2>2, PushType DEF StartRead, TypeOK
  <1>7. ASSUME ReadTimeoutPing
       PROVE  TypeOK'
    <2>1. WindowType' /\ QueueType' /\ ParserType' /\ TreeType' /\ FlagType' /\ NumType'
          /\ WaitType'
      BY <1>7 DEF ReadTimeoutPing, TypeOK, WindowType, QueueType, ParserType, TreeType,
          FlagType, NumType, WaitType
    <2>2. ConnType'
      <3>1. phase' = "wait" /\ pinged' = TRUE /\ UNCHANGED <<lifeVars, goVars>>
        BY <1>7 DEF ReadTimeoutPing, Parsed
      <3> QED BY <3>1 DEF TypeOK, ConnType
    <2>3. OutType'
      BY <1>7, PushType DEF ReadTimeoutPing, TypeOK
    <2> QED BY <2>1, <2>2, <2>3 DEF TypeOK
  <1>8. ASSUME ReadTimeoutShutdown
       PROVE  TypeOK'
    <2>1. WindowType' /\ OutType' /\ QueueType' /\ ParserType' /\ TreeType' /\ FlagType'
          /\ NumType' /\ WaitType'
      BY <1>8 DEF ReadTimeoutShutdown, TypeOK, WindowType, OutType, QueueType, ParserType,
          TreeType, FlagType, NumType, WaitType
    <2>2. ConnType' BY <1>8 DEF ReadTimeoutShutdown, Parsed, TypeOK, ConnType
    <2> QED BY <2>1, <2>2 DEF TypeOK
  <1>9. ASSUME ReadError
       PROVE  TypeOK'
    BY <1>9, CloseType DEF ReadError, TypeOK, ConnType
  <1> QED BY <1>1, <1>2, <1>3, <1>4, <1>5, <1>6, <1>7, <1>8, <1>9 DEF ReadSide

\* Every step of the write callback keeps the type invariant.
LEMMA WriteSideType ==
  ASSUME TypeOK, WriteSide
  PROVE  TypeOK'
  <1>1. ASSUME NEW n \in 1..Len(write_buffer), WriteDone(n)
       PROVE  TypeOK'
    <2>1. WindowType' /\ QueueType'
      BY <1>1 DEF WriteDone, TypeOK, WindowType, QueueType
    <2>2. ConnType' /\ OutType' /\ ParserType'
      <3>1. \/ DeleteThis(processing)
            \/ /\ write_buffer' = SubSeq(write_buffer, n + 1, Len(write_buffer))
               /\ UNCHANGED <<deleted, processing, parseVars>>
        BY <1>1 DEF WriteDone
      <3>2. /\ write_processing' \in BOOLEAN
            /\ UNCHANGED <<closed, read_processing, down, goVars, pinged, phase>>
        BY <1>1 DEF WriteDone, GoesOnWriting
      <3>3. /\ deleted' \in BOOLEAN /\ processing' \in Int /\ ParserType'
            /\ write_buffer' \in Seq(Streams \cup {NoCtx})
        <4>1. CASE DeleteThis(processing)
          BY <4>1, DeleteThisType DEF TypeOK, ConnType
        <4>2. CASE /\ write_buffer' = SubSeq(write_buffer, n + 1, Len(write_buffer))
                   /\ UNCHANGED <<deleted, processing, parseVars>>
          <5>1. ParserType' BY <4>2 DEF TypeOK, ParserType
          <5>2. SubSeq(write_buffer, n + 1, Len(write_buffer)) \in Seq(Streams \cup {NoCtx})
            BY <1>1 DEF TypeOK, OutType
          <5> QED BY <4>2, <5>1, <5>2 DEF TypeOK, ConnType
        <4> QED BY <3>1, <4>1, <4>2
      <3>4. ConnType' BY <3>2, <3>3 DEF TypeOK, ConnType
      <3> QED BY <3>2, <3>3, <3>4 DEF OutType
    <2>3. TreeType'
      BY <1>1 DEF WriteDone, TypeOK, TreeType
    <2>4. FlagType'
      BY <1>1 DEF WriteDone, TypeOK, FlagType
    <2>5. NumType'
      BY <1>1, NoNumType DEF WriteDone, TypeOK, NumType
    <2>6. WaitType'
      BY <1>1 DEF WriteDone, TypeOK, WaitType, WaitKinds
    <2> QED BY <2>1, <2>2, <2>3, <2>4, <2>5, <2>6 DEF TypeOK
  <1>2. ASSUME WriteError
       PROVE  TypeOK'
    BY <1>2, CloseType DEF WriteError, TypeOK, ConnType
  <1> QED BY <1>1, <1>2 DEF WriteSide

\* Every call of a request fiber keeps the type invariant.
LEMMA FiberType ==
  ASSUME TypeOK, NEW s \in Streams, Fiber(s)
  PROVE  TypeOK'
  <1>1. ASSUME NEW rl \in ReadLens, Read(s, rl)
       PROVE  TypeOK'
    <2>1. WindowType' /\ ParserType' /\ TreeType' /\ FlagType'
      BY <1>1 DEF Read, TypeOK, WindowType, ParserType, TreeType, FlagType
    <2>2. ConnType' BY <1>1 DEF Read, Parsed, TypeOK, ConnType
    <2>3. OutType'
      BY <1>1, PushType DEF Read, TypeOK
    <2>4. QueueType'
      <3>1. AddQueue(s) \/ UNCHANGED queueVars BY <1>1 DEF Read
      <3> QED BY <3>1, AddQueueType DEF TypeOK, QueueType
    <2>5. NumType'
      <3> DEFINE got == Min(rl, num[s].buffered)
                 window == IF TopsUp(s) THEN StreamRecvWindow ELSE num[s].recv_window
      <3>1. num' = [num EXCEPT ![s].recv_window = window, ![s].buffered = @ - got]
        BY <1>1 DEF Read
      <3>2. window \in 0..StreamRecvWindow
        BY WindowsAssumption DEF TypeOK, NumType, StreamNum
      <3>3. num[s].buffered - got \in Nat
        BY SizesAssumption DEF Min, TypeOK, NumType, StreamNum
      <3> HIDE DEF got, window
      <3> QED BY <3>1, <3>2, <3>3 DEF TypeOK, NumType, StreamNum
    <2>6. WaitType'
      BY <1>1 DEF Read, TypeOK, WaitType, WaitKinds
    <2> QED BY <2>1, <2>2, <2>3, <2>4, <2>5, <2>6 DEF TypeOK
  <1>2. ASSUME AddHeader(s)
       PROVE  TypeOK'
    <2>1. WindowType' /\ OutType' /\ QueueType' /\ ParserType' /\ TreeType' /\ NumType'
          /\ WaitType'
      BY <1>2 DEF AddHeader, TypeOK, WindowType, OutType, QueueType, ParserType, TreeType,
          NumType, WaitType
    <2>2. ConnType' BY <1>2 DEF AddHeader, Parsed, TypeOK, ConnType
    <2>3. FlagType'
      BY <1>2 DEF AddHeader, TypeOK, FlagType, Flags
    <2> QED BY <2>1, <2>2, <2>3 DEF TypeOK
  <1>3. ASSUME Continue100(s)
       PROVE  TypeOK'
    <2>1. WindowType' /\ QueueType' /\ ParserType' /\ TreeType' /\ NumType' /\ WaitType'
      BY <1>3 DEF Continue100, TypeOK, WindowType, QueueType, ParserType, TreeType,
          NumType, WaitType
    <2>2. ConnType' BY <1>3 DEF Continue100, Parsed, TypeOK, ConnType
    <2>3. OutType'
      BY <1>3, PushType DEF Continue100, TypeOK
    <2>4. FlagType'
      BY <1>3 DEF Continue100, TypeOK, FlagType, Flags
    <2> QED BY <2>1, <2>2, <2>3, <2>4 DEF TypeOK
  <1>4. ASSUME NEW b \in BodySizes, StartResponse(s, b)
       PROVE  TypeOK'
    <2>1. WindowType' /\ QueueType' /\ ParserType' /\ TreeType' /\ WaitType'
      BY <1>4 DEF StartResponse, TypeOK, WindowType, QueueType, ParserType, TreeType, WaitType
    <2>2. ConnType' BY <1>4 DEF StartResponse, Parsed, TypeOK, ConnType
    <2>3. OutType'
      BY <1>4, PushType DEF StartResponse, TypeOK
    <2>4. FlagType'
      BY <1>4 DEF StartResponse, TypeOK, FlagType, Flags
    <2>5. NumType'
      BY <1>4, SizesAssumption DEF StartResponse, TypeOK, NumType, StreamNum
    <2> QED BY <2>1, <2>2, <2>3, <2>4, <2>5 DEF TypeOK
  <1>5. ASSUME ResponseTrailer(s)
       PROVE  TypeOK'
    <2>1. WindowType' /\ QueueType' /\ ParserType' /\ TreeType' /\ NumType' /\ WaitType'
      BY <1>5 DEF ResponseTrailer, TypeOK, WindowType, QueueType, ParserType, TreeType,
          NumType, WaitType
    <2>2. ConnType' BY <1>5 DEF ResponseTrailer, Parsed, TypeOK, ConnType
    <2>3. OutType'
      BY <1>5, PushType DEF ResponseTrailer, TypeOK
    <2>4. FlagType'
      BY <1>5 DEF ResponseTrailer, TypeOK, FlagType, Flags
    <2> QED BY <2>1, <2>2, <2>3, <2>4 DEF TypeOK
  <1>6. ASSUME NEW n \in WriteLens, NEW file \in BOOLEAN, Transmit(s, n, file)
       PROVE  TypeOK'
    <2>1. ParserType' /\ TreeType'
      BY <1>6 DEF Transmit, TypeOK, ParserType, TreeType
    <2>2. ConnType' BY <1>6 DEF Transmit, Parsed, TypeOK, ConnType
    <2>3. WindowType' /\ OutType' /\ QueueType' /\ FlagType' /\ NumType' /\ WaitType'
      <3>1. num[s].send_window \in Int /\ n \in Nat
        BY SizesAssumption DEF TypeOK, NumType, StreamNum
      <3>2. \/ /\ write_wait' = [write_wait EXCEPT ![s] = "none"]
               /\ UNCHANGED <<send_window, flag, num, outVars, queueVars, wsleep>>
            \/ /\ on_write_window_ready(s, num[s].send_window, n, file)
               /\ wsleep' = wsleep \cup {s}
        BY <1>6 DEF Transmit
      <3>3. UNCHANGED <<scan, init_window, frame_size, recv_window, readWaitVars>>
        BY <1>6 DEF Transmit
      <3>4. CASE /\ write_wait' = [write_wait EXCEPT ![s] = "none"]
                 /\ UNCHANGED <<send_window, flag, num, outVars, queueVars, wsleep>>
        <4>1. WaitType' BY <3>3, <3>4 DEF TypeOK, WaitType, WaitKinds
        <4> QED
          BY <3>3, <3>4, <4>1 DEF TypeOK, WindowType, OutType, QueueType, FlagType, NumType
      <3>5. CASE /\ on_write_window_ready(s, num[s].send_window, n, file)
                 /\ wsleep' = wsleep \cup {s}
        BY <3>1, <3>3, <3>5, WindowReadyType DEF TypeOK, WindowType, WaitType
      <3> QED BY <3>2, <3>4, <3>5
    <2> QED BY <2>1, <2>2, <2>3 DEF TypeOK
  <1>7. ASSUME ReadHup(s)
       PROVE  TypeOK'
    <2>1. WindowType' /\ OutType' /\ QueueType' /\ ParserType' /\ TreeType' /\ FlagType'
          /\ NumType'
      BY <1>7 DEF ReadHup, TypeOK, WindowType, OutType, QueueType, ParserType, TreeType,
          FlagType, NumType
    <2>2. ConnType' BY <1>7 DEF ReadHup, Parsed, TypeOK, ConnType
    <2>3. WaitType'
      BY <1>7 DEF ReadHup, TypeOK, WaitType, WaitKinds
    <2> QED BY <2>1, <2>2, <2>3 DEF TypeOK
  <1>8. ASSUME RemoveReadHup(s)
       PROVE  TypeOK'
    <2>1. WindowType' /\ OutType' /\ QueueType' /\ ParserType' /\ TreeType' /\ FlagType'
          /\ NumType'
      BY <1>8 DEF RemoveReadHup, TypeOK, WindowType, OutType, QueueType, ParserType,
          TreeType, FlagType, NumType
    <2>2. ConnType' BY <1>8 DEF RemoveReadHup, Parsed, TypeOK, ConnType
    <2>3. WaitType'
      BY <1>8 DEF RemoveReadHup, TypeOK, WaitType, WaitKinds
    <2> QED BY <2>1, <2>2, <2>3 DEF TypeOK
  <1>9. ASSUME Shutdown(s)
       PROVE  TypeOK'
    <2>1. WindowType' /\ ParserType' /\ TreeType' /\ NumType'
      BY <1>9 DEF Shutdown, TypeOK, WindowType, ParserType, TreeType, NumType
    <2>2. ConnType' BY <1>9 DEF Shutdown, Parsed, TypeOK, ConnType
    <2>3. OutType' /\ QueueType' /\ FlagType' /\ WaitType'
      <3>1. CASE terminate_stream(s) BY <3>1, TerminateType DEF TypeOK
      <3>2. CASE UNCHANGED <<flag, readWaitVars, writeWaitVars, queueVars, outVars>>
        BY <3>2 DEF TypeOK, FlagType, WaitType, QueueType, OutType
      <3> QED BY <1>9, <3>1, <3>2 DEF Shutdown, shutdown
    <2> QED BY <2>1, <2>2, <2>3 DEF TypeOK
  <1>10. ASSUME NEW n \in TimeoutCounts, SetTimeOut(s, n)
       PROVE  TypeOK'
    <2>1. WindowType' /\ OutType' /\ ParserType' /\ TreeType' /\ FlagType' /\ WaitType'
      BY <1>10 DEF SetTimeOut, TypeOK, WindowType, OutType, ParserType, TreeType,
          FlagType, WaitType
    <2>2. ConnType' BY <1>10 DEF SetTimeOut, Parsed, TypeOK, ConnType
    <2>3. QueueType'
      BY <1>10, SizesAssumption DEF SetTimeOut, TypeOK, QueueType
    <2>4. NumType'
      BY <1>10, SizesAssumption DEF SetTimeOut, TypeOK, NumType, StreamNum
    <2> QED BY <2>1, <2>2, <2>3, <2>4 DEF TypeOK
  <1>11. ASSUME NEW e \in BOOLEAN, Finish(s, e)
       PROVE  TypeOK'
    <2>1. WindowType' /\ WaitType'
      BY <1>11 DEF Finish, TypeOK, WindowType, WaitType
    <2>2. ConnType' /\ OutType' /\ ParserType'
      <3>1. \/ DeleteThis(processing - 1) /\ UNCHANGED write_processing
            \/ /\ \E p : Push(p, p)
               /\ processing' = processing - 1
               /\ UNCHANGED <<deleted, parseVars>>
        BY <1>11 DEF Finish
      <3>2. UNCHANGED <<closed, read_processing, down, goVars, pinged, phase>>
        BY <1>11 DEF Finish
      <3>3. processing - 1 \in Int BY DEF TypeOK, ConnType
      <3>4. CASE DeleteThis(processing - 1) /\ UNCHANGED write_processing
        <4>1. /\ deleted' \in BOOLEAN /\ processing' \in Int /\ ParserType'
              /\ write_buffer' \in Seq(Streams \cup {NoCtx})
          BY <3>3, <3>4, DeleteThisType
        <4>2. ConnType' BY <3>2, <4>1 DEF TypeOK, ConnType
        <4> QED BY <3>4, <4>1, <4>2 DEF TypeOK, OutType
      <3>5. CASE /\ \E p : Push(p, p)
                 /\ processing' = processing - 1
                 /\ UNCHANGED <<deleted, parseVars>>
        <4>1. ConnType' BY <3>2, <3>3, <3>5 DEF TypeOK, ConnType
        <4>2. ParserType' BY <3>5 DEF TypeOK, ParserType
        <4> QED BY <3>5, <4>1, <4>2, PushType DEF TypeOK
      <3> QED BY <3>1, <3>4, <3>5
    <2>3. QueueType'
      <3>1. RemoveQueue({s}) \/ UNCHANGED queueVars BY <1>11 DEF Finish
      <3> QED BY <3>1, RemoveQueueType DEF TypeOK, QueueType
    <2>4. TreeType'
      BY <1>11 DEF Finish, TypeOK, TreeType
    <2>5. FlagType'
      BY <1>11 DEF Finish, TypeOK, FlagType, Flags
    <2>6. NumType'
      BY <1>11, NoNumType DEF Finish, TypeOK, NumType
    <2> QED BY <2>1, <2>2, <2>3, <2>4, <2>5, <2>6 DEF TypeOK
  <1> QED BY <1>1, <1>2, <1>3, <1>4, <1>5, <1>6, <1>7, <1>8, <1>9, <1>10, <1>11
    DEF Fiber, Write, Sendfile

\* The passing of time keeps the type invariant.
LEMMA ElapseType ==
  ASSUME TypeOK, NEW S \in SUBSET Streams, Elapse(S)
  PROVE  TypeOK'
  <1>1. QueueType' BY DEF Elapse, TypeOK, QueueType
  <1>2. WindowType' /\ OutType' /\ ParserType' /\ TreeType' /\ FlagType' /\ NumType'
        /\ WaitType'
    BY DEF Elapse, TypeOK, WindowType, OutType, ParserType, TreeType, FlagType, NumType,
        WaitType
  <1>3. ConnType' BY DEF Elapse, TypeOK, ConnType
  <1> QED BY <1>1, <1>2, <1>3 DEF TypeOK

\* The initial state has the right types.
LEMMA InitType == Init => TypeOK
  <1> SUFFICES ASSUME Init PROVE TypeOK OBVIOUS
  <1>1. ConnType
    <2>1. /\ deleted \in BOOLEAN /\ closed \in BOOLEAN /\ down \in BOOLEAN
          /\ read_processing \in BOOLEAN /\ pinged \in BOOLEAN
          /\ self_goaway \in BOOLEAN /\ peer_goaway \in BOOLEAN
      BY DEF Init
    <2>2. /\ processing \in Int /\ last_peer_sid \in Streams \cup {0}
          /\ phase \in {"wait", "loop", "head", "ping"}
      BY DEF Init
    <2> QED BY <2>1, <2>2 DEF ConnType
  <1>2. WindowType /\ QueueType /\ TreeType /\ WaitType
    BY WindowsAssumption DEF Init, WindowType, QueueType, TreeType, WaitType, WaitKinds
  <1>3. OutType BY DEF Init, OutType
  <1>4. ParserType BY DEF Init, ParserType
  <1>5. FlagType BY DEF Init, FlagType
  <1>6. NumType BY NoNumType DEF Init, NumType
  <1> QED BY <1>1, <1>2, <1>3, <1>4, <1>5, <1>6 DEF TypeOK

\* TypeOK is inductive.
LEMMA NextType ==
  ASSUME TypeOK, [Next]_vars
  PROVE  TypeOK'
  <1>1. CASE ReadSide BY <1>1, ReadSideType
  <1>2. CASE WriteSide BY <1>2, WriteSideType
  <1>3. ASSUME NEW s \in Streams, Fiber(s) PROVE TypeOK'
    BY <1>3, FiberType
  <1>4. ASSUME NEW S \in SUBSET Streams, Elapse(S) PROVE TypeOK'
    BY <1>4, ElapseType
  <1>5. CASE UNCHANGED vars
    <2>1. ConnType' BY <1>5 DEF vars, TypeOK, ConnType
    <2>2. WindowType' /\ OutType' /\ QueueType' /\ ParserType' /\ TreeType' /\ FlagType'
          /\ NumType' /\ WaitType'
      BY <1>5 DEF vars, TypeOK, WindowType, OutType, QueueType, ParserType, TreeType,
                  FlagType, NumType, WaitType
    <2> QED BY <2>1, <2>2 DEF TypeOK
  <1> QED BY <1>1, <1>2, <1>3, <1>4, <1>5 DEF Next, Gone

\* Every variable keeps its type whatever the peer, the selector and the
\* handlers do, for any set of streams and any sizes: no receive window goes
\* below zero and the parser holds a stream exactly inside a frame.
THEOREM TypeCorrect == Spec => []TypeOK
  <1>1. Init => TypeOK BY InitType
  <1>2. TypeOK /\ [Next]_vars => TypeOK' BY NextType
  <1> QED BY <1>1, <1>2, PTL DEF Spec

-----------------------------------------------------------------------------
(* Flow control: steps that leave the relevant state alone.                *)

\* The flags that TreeInv speaks of.
Marks(s) == flag[s] \cap {"parsed_header", "destroy_by_http2"}

\* The step keeps the streams and their marks; the parser may move.
QuietTree ==
  /\ UNCHANGED <<live, node>>
  /\ stream' \in {stream, NoStream} \cup node
  /\ \A s \in Streams : Marks(s)' = Marks(s)

\* The step makes nobody wait for window.
QuietWaits == \A s \in Streams : write_wait'[s] = "WINDOW" => write_wait[s] = "WINDOW"

\* The step changes no send window, or empties it.
QuietWindows ==
  /\ UNCHANGED <<send_window, scan>>
  /\ \A s \in Streams : \/ num'[s].send_window = num[s].send_window
                        \/ num'[s].send_window = 0

\* The flow control invariant.
FlowInv == TypeOK /\ TreeInv /\ NoStalledWriter /\ WindowsInRange

\* A quiet step keeps TreeInv.
LEMMA TreeKept ==
  ASSUME FlowInv, QuietTree, QuietWaits
  PROVE  TreeInv'
  <1>1. live' \subseteq node'
    BY DEF FlowInv, TreeInv, QuietTree
  <1>2. \A s \in live' : Has(s, "parsed_header")'
    BY DEF FlowInv, TreeInv, QuietTree, Marks, Has, TypeOK, TreeType
  <1>3. \A s \in node' : ~Has(s, "destroy_by_http2")'
    BY DEF FlowInv, TreeInv, QuietTree, Marks, Has, TypeOK, TreeType
  <1>4. Incomplete' => stream' \in node'
    <2>1. stream \in Streams \cup {NoStream} BY DEF FlowInv, TypeOK, ParserType
    <2> QED BY <2>1 DEF FlowInv, TreeInv, QuietTree, Marks, Has, Incomplete
  <1>5. Waits("WINDOW")' \subseteq live'
    BY DEF FlowInv, TreeInv, QuietTree, QuietWaits, Waits
  <1> QED BY <1>1, <1>2, <1>3, <1>4, <1>5 DEF TreeInv

\* A quiet step keeps the window properties.
LEMMA WindowsKept ==
  ASSUME FlowInv, QuietWindows, QuietWaits
  PROVE  NoStalledWriter' /\ WindowsInRange'
  <1>1. NoStalledWriter'
    BY DEF FlowInv, NoStalledWriter, QuietWindows, QuietWaits, Waits
  <1>2. WindowsInRange'
    BY WindowsAssumption DEF FlowInv, WindowsInRange, QuietWindows
  <1> QED BY <1>1, <1>2

\* Cut and terminate_stream are quiet.
LEMMA CutQuiet ==
  ASSUME FlowInv, NEW S \in SUBSET Streams, Cut(S)
  PROVE  QuietWaits /\ \A s \in Streams : Marks(s)' = Marks(s)
  <1>1. QuietWaits BY DEF Cut, QuietWaits
  <1>2. \A s \in Streams : Marks(s)' = Marks(s)
    BY DEF Cut, Marks, RstFlags, FlowInv, TypeOK, FlagType
  <1> QED BY <1>1, <1>2

\* What giving a writer its window does to the marks and the waiters: nothing
\* new but s itself, and s only if one of its windows is used up.
LEMMA WindowReadyFlow ==
  ASSUME FlowInv, NEW s \in Streams, NEW sw \in Int, sw <= MaxWindow, NEW blen \in Nat,
         NEW file, on_write_window_ready(s, sw, blen, file)
  PROVE  /\ \A x \in Streams : Marks(x)' = Marks(x)
         /\ \A x \in Streams \ {s} : write_wait'[x] = write_wait[x]
         /\ write_wait'[s] = "WINDOW" => num'[s].send_window <= 0 \/ send_window' <= 0
         /\ send_window' \in 0..MaxWindow /\ send_window' <= send_window
         /\ num'[s].send_window <= MaxWindow
         /\ \A x \in Streams \ {s} : num'[x].send_window = num[x].send_window
  <1> DEFINE room == Room(sw)
             sent == FrameLen(room, blen, file)
             left == num[s].content_left
  <1>1. room \in Int /\ room <= send_window /\ (room <= 0 => sw <= 0 \/ send_window <= 0)
    BY DEF Room, Min, FlowInv, TypeOK, WindowType
  <1>2. room > 0 => sent \in 0..send_window
    BY <1>1, FrameLenInt DEF FlowInv, TypeOK, WindowType
  <1>3. send_window \in 0..MaxWindow BY DEF FlowInv, WindowsInRange
  <1>4. num \in [Streams -> StreamNum] BY DEF FlowInv, TypeOK, NumType
  <1>5. flag \in [Streams -> SUBSET Flags] /\ write_wait \in [Streams -> WaitKinds]
    BY DEF FlowInv, TypeOK, FlagType, WaitType
  <1> HIDE DEF room, sent, left
  <1>6. CASE room <= 0
    <2>1. /\ num' = [num EXCEPT ![s].send_window = sw, ![s].wait_len = blen]
          /\ write_wait' = [write_wait EXCEPT ![s] = "WINDOW"]
          /\ flag' = [flag EXCEPT ![s] = AsFile(@, file)]
          /\ UNCHANGED send_window
      BY <1>6 DEF on_write_window_ready, room
    <2>2. /\ num'[s].send_window = sw
          /\ \A x \in Streams \ {s} : num'[x].send_window = num[x].send_window
      BY <1>4, <2>1 DEF StreamNum
    <2>3. \A x \in Streams : Marks(x)' = Marks(x) BY <1>5, <2>1 DEF Marks, AsFile
    <2>4. \A x \in Streams \ {s} : write_wait'[x] = write_wait[x] BY <1>5, <2>1
    <2>5. /\ send_window' \in 0..MaxWindow /\ send_window' <= send_window
          /\ num'[s].send_window <= MaxWindow
      BY <1>3, <2>1, <2>2, WindowsAssumption
    <2>6. num'[s].send_window <= 0 \/ send_window' <= 0 BY <1>1, <1>6, <2>1, <2>2
    <2> QED BY <2>2, <2>3, <2>4, <2>5, <2>6
  <1>7. CASE ~(room <= 0)
    <2> DEFINE c == IF left > 0 THEN left - sent ELSE left
    <2>1. num' = [num EXCEPT ![s].send_window = sw - sent, ![s].wait_len = 0,
                             ![s].content_left = c]
      BY <1>7 DEF on_write_window_ready, room, sent, left
    <2>2. /\ send_window' = send_window - sent
          /\ write_wait' = [write_wait EXCEPT ![s] = "WRITING"]
      BY <1>7 DEF on_write_window_ready, room, sent
    <2>3. flag' = [flag EXCEPT ![s] = AsFile(@, file) \cup
                                (IF Ends(left, sent) THEN {"out_closed"} ELSE {})]
      BY <1>7 DEF on_write_window_ready, room, sent, left
    <2> HIDE DEF c
    <2>4. /\ num'[s].send_window = sw - sent
          /\ \A x \in Streams \ {s} : num'[x].send_window = num[x].send_window
      BY <1>4, <2>1 DEF StreamNum
    <2>5. \A x \in Streams : Marks(x)' = Marks(x) BY <1>5, <2>3 DEF Marks, AsFile
    <2>6. /\ \A x \in Streams \ {s} : write_wait'[x] = write_wait[x]
          /\ write_wait'[s] = "WRITING"
      BY <1>5, <2>2
    <2>7. /\ send_window' \in 0..MaxWindow /\ send_window' <= send_window
          /\ num'[s].send_window <= MaxWindow
      BY <1>1, <1>2, <1>3, <1>7, <2>2, <2>4, WindowsAssumption
    <2> QED BY <2>4, <2>5, <2>6, <2>7
  <1> QED BY <1>6, <1>7

\* Neither does a step that releases streams and contexts, as long as it
\* releases no context that stays reachable.
LEMMA TreeReleased ==
  ASSUME FlowInv, live' \subseteq live, node' \subseteq node, live' \subseteq node',
         \A x \in node' : Marks(x)' = Marks(x),
         \/ stream' = NoStream
         \/ stream' = stream /\ (Incomplete' => Incomplete /\ stream \in node'),
         Waits("WINDOW")' \subseteq live'
  PROVE  TreeInv'
  <1>1. \A x \in live' : Has(x, "parsed_header")'
    BY DEF FlowInv, TreeInv, Marks, Has
  <1>2. \A x \in node' : ~Has(x, "destroy_by_http2")'
    BY DEF FlowInv, TreeInv, Marks, Has
  <1>3. Incomplete' => stream' \in node'
    BY DEF Incomplete
  <1> QED BY <1>1, <1>2, <1>3 DEF TreeInv

\* The contexts ~KHttp2 destroys belong to no sink.
LEMMA LastNotLive ==
  ASSUME FlowInv
  PROVE  LastContexts \cap live = {} /\ LastContexts \subseteq Streams
  <1>1. stream \in Streams \cup {NoStream} BY DEF FlowInv, TypeOK, ParserType
  <1> QED BY <1>1 DEF FlowInv, TreeInv, LastContexts, Incomplete

\* The end of a frame: state_complete destroys no context that is reachable.
LEMMA CompleteFlow ==
  ASSUME FlowInv, NEW s \in Streams \cup {NoStream},
         NEW fl \in [Streams -> SUBSET Flags], NEW nm \in [Streams -> StreamNum],
         \A x \in Streams : /\ fl[x] \cap {"parsed_header", "destroy_by_http2"} = Marks(x)
                            /\ nm[x].send_window = num[x].send_window,
         state_complete(s, fl, nm), UNCHANGED <<node, live, write_wait, send_window, scan>>
  PROVE  TreeInv' /\ NoStalledWriter' /\ WindowsInRange'
  <1>1. stream' = NoStream BY DEF state_complete
  <1>2. QuietWaits BY DEF QuietWaits
  <1>3. CASE s # NoStream /\ Has(s, "destroy_by_http2")
    <2>1. s \in Streams /\ s \notin node /\ s \notin live
      BY <1>3 DEF FlowInv, TreeInv
    <2>2. Destroy(s) BY <1>3 DEF state_complete
    <2>3. \A x \in Streams \ {s} : flag'[x] = flag[x] /\ num'[x] = num[x]
      BY <2>2 DEF Destroy, FlowInv, TypeOK, FlagType, NumType
    <2>4. num'[s].send_window = 0
      BY <2>1, <2>2 DEF Destroy, NoNum, FreshNum, FlowInv, TypeOK, NumType
    <2>5. TreeInv'
      BY <1>1, <1>2, <2>1, <2>3 DEF FlowInv, TreeInv, TypeOK, TreeType, Has, Incomplete,
          Waits, QuietWaits
    <2>6. QuietWindows BY <2>3, <2>4 DEF QuietWindows
    <2> QED BY <1>2, <2>5, <2>6, WindowsKept
  <1>4. CASE ~(s # NoStream /\ Has(s, "destroy_by_http2"))
    <2>1. flag' = fl /\ num' = nm BY <1>4 DEF state_complete
    <2>2. \A x \in Streams : Marks(x)' = Marks(x) BY <2>1 DEF Marks
    <2>3. QuietWindows BY <2>1 DEF QuietWindows
    <2> QED BY <1>1, <1>2, <2>2, <2>3, TreeKept, WindowsKept DEF QuietTree
  <1> QED BY <1>3, <1>4

\* close wakes or fails whoever waits and destroys no stream of a sink.
LEMMA CloseFlow ==
  ASSUME FlowInv, NEW read \in BOOLEAN, close(read)
  PROVE  TreeInv' /\ NoStalledWriter' /\ WindowsInRange'
  <1> DEFINE gone == can_destroy(processing, read_processing /\ ~read, write_processing /\ read)
             last == IF gone THEN LastContexts ELSE {}
  <1>1. QuietWaits
    BY DEF close, QuietWaits, FlowInv, TypeOK, WaitType
  <1>2. /\ live' = live /\ node' = node \ last
        /\ UNCHANGED <<send_window, scan>>
    BY DEF close
  <1>3. \A x \in Streams : flag'[x] = IF x \in last THEN {}
                               ELSE IF x \in node THEN flag[x] \cup RstFlags ELSE flag[x]
    BY DEF close
  <1>4. \A x \in Streams : num'[x] = IF x \in last THEN NoNum ELSE num[x]
    BY DEF close
  <1>5. (gone => stream' = NoStream) /\ (~gone => stream' = stream)
    <2>1. CASE gone
      <3>1. DeleteThis(processing) BY <2>1 DEF close
      <3>2. stream' = NoStream BY <3>1 DEF DeleteThis
      <3> QED BY <2>1, <3>2
    <2>2. CASE ~gone
      <3>1. UNCHANGED parseVars BY <2>2 DEF close
      <3> QED BY <2>2, <3>1
    <2> QED BY <2>1, <2>2
  <1>6. last \cap live = {} BY LastNotLive
  <1>7. ~gone => last = {} OBVIOUS
  <1> HIDE DEF gone, last
  <1>8. QuietWindows
    BY <1>2, <1>4 DEF QuietWindows, NoNum, FreshNum
  <1>9. TreeInv'
    <2>1. live' \subseteq node' BY <1>2, <1>6 DEF FlowInv, TreeInv
    <2>2. \A x \in node' : Marks(x)' = Marks(x)
      BY <1>2, <1>3 DEF Marks, RstFlags, FlowInv, TypeOK, TreeType
    <2>3. \/ stream' = NoStream
          \/ stream' = stream /\ (Incomplete' => Incomplete /\ stream \in node')
      <3>1. CASE ~gone /\ stream' = stream
        <4>1. stream \in Streams \cup {NoStream} BY DEF FlowInv, TypeOK, ParserType
        <4>2. Incomplete' => Incomplete
          BY <1>3, <1>7, <3>1, <4>1 DEF Incomplete, Has
        <4> QED BY <1>2, <1>7, <3>1, <4>2 DEF FlowInv, TreeInv
      <3> QED BY <1>5, <3>1
    <2>4. Waits("WINDOW")' \subseteq live'
      BY <1>1, <1>2 DEF QuietWaits, Waits, FlowInv, TreeInv
    <2> QED BY <1>2, <2>1, <2>2, <2>3, <2>4, TreeReleased
  <1> QED BY <1>1, <1>8, <1>9, WindowsKept

\* A writer that gets its window, or starts to write: its stream belongs to a
\* sink, and whoever else waits for window is no worse off.
LEMMA GrantFlow ==
  ASSUME FlowInv, NEW s \in Streams, NEW sw \in Int, sw <= MaxWindow, NEW blen \in Nat,
         NEW file, on_write_window_ready(s, sw, blen, file), s \in live,
         UNCHANGED <<node, live, stream>>, scan \subseteq scan' \cup {s}
  PROVE  TreeInv' /\ NoStalledWriter' /\ WindowsInRange'
  <1>1. /\ \A x \in Streams : Marks(x)' = Marks(x)
        /\ \A x \in Streams \ {s} : write_wait'[x] = write_wait[x]
        /\ write_wait'[s] = "WINDOW" => num'[s].send_window <= 0 \/ send_window' <= 0
        /\ send_window' \in 0..MaxWindow /\ send_window' <= send_window
        /\ num'[s].send_window <= MaxWindow
        /\ \A x \in Streams \ {s} : num'[x].send_window = num[x].send_window
    BY WindowReadyFlow
  <1>2. live' \subseteq node' /\ Waits("WINDOW")' \subseteq live'
    BY <1>1 DEF FlowInv, TreeInv, Waits
  <1>3. Incomplete' => Incomplete
    <2>1. stream \in Streams \cup {NoStream} BY DEF FlowInv, TypeOK, ParserType
    <2> QED BY <1>1, <2>1 DEF Incomplete, Has, Marks
  <1>4. TreeInv'
    <2>1. \A x \in node' : Marks(x)' = Marks(x) BY <1>1 DEF FlowInv, TypeOK, TreeType
    <2> QED BY <1>2, <1>3, <2>1, TreeReleased DEF FlowInv, TreeInv
  <1>5. NoStalledWriter'
    <2> SUFFICES ASSUME NEW x \in Streams, write_wait'[x] = "WINDOW"
                 PROVE  num'[x].send_window <= 0 \/ send_window' <= 0 \/ x \in scan'
      BY DEF NoStalledWriter, Waits
    <2>1. CASE x = s BY <1>1, <2>1
    <2>2. CASE x # s
      <3>1. num[x].send_window <= 0 \/ send_window <= 0 \/ x \in scan
        BY <1>1, <2>2 DEF FlowInv, NoStalledWriter, Waits
      <3>2. send_window \in Int BY DEF FlowInv, TypeOK, WindowType
      <3> QED BY <1>1, <2>2, <3>1, <3>2
    <2> QED BY <2>1, <2>2
  <1>6. WindowsInRange'
    BY <1>1 DEF FlowInv, WindowsInRange
  <1> QED BY <1>4, <1>5, <1>6

-----------------------------------------------------------------------------
(* One lemma per actor.                                                    *)

\* HEADERS: a new stream has the initial window and no writer.
LEMMA HeaderFramesFlow ==
  ASSUME FlowInv, HeaderFrames
  PROVE  TreeInv' /\ NoStalledWriter' /\ WindowsInRange'
  <1>1. ASSUME NEW s \in Streams, NEW f \in BOOLEAN, NEW w \in BOOLEAN, NewHeaders(s, f, w)
        PROVE  TreeInv' /\ NoStalledWriter' /\ WindowsInRange'
    <2>1. s \notin node /\ s \notin live /\ write_wait[s] # "WINDOW"
      BY <1>1 DEF NewHeaders, FlowInv, TreeInv, Waits
    <2>2. TreeInv'
      <3>1. /\ node' = node \cup {s} /\ live' \in {live, live \cup {s}}
            /\ UNCHANGED write_wait
        BY <1>1 DEF NewHeaders
      <3>2. \A x \in Streams \ {s} : flag'[x] = flag[x]
        BY <1>1 DEF NewHeaders, FlowInv, TypeOK, FlagType
      <3>3. /\ "destroy_by_http2" \notin flag'[s]
            /\ w => "parsed_header" \in flag'[s] /\ stream' = stream
            /\ ~w => live' = live /\ stream' = s
        BY <1>1 DEF NewHeaders, FlowInv, TypeOK, FlagType
      <3>4. handler = "head" /\ stream = NoStream
        BY <1>1 DEF NewHeaders, FrameStart, FlowInv, TypeOK, ParserType
      <3>5. /\ live' \subseteq node' /\ Waits("WINDOW")' \subseteq live'
            /\ Incomplete' => stream' \in node'
        BY <3>1, <3>3, <3>4 DEF FlowInv, TreeInv, Waits, Incomplete
      <3>6. /\ \A x \in live' : Has(x, "parsed_header")'
            /\ \A x \in node' : ~Has(x, "destroy_by_http2")'
        BY <2>1, <3>1, <3>2, <3>3 DEF FlowInv, TreeInv, Has, TypeOK, TreeType
      <3> QED BY <3>5, <3>6 DEF TreeInv
    <2>3. /\ UNCHANGED <<write_wait, scan, send_window>>
          /\ num'[s].send_window = init_window
          /\ \A x \in Streams \ {s} : num'[x] = num[x]
      BY <1>1 DEF NewHeaders, FreshNum, FlowInv, TypeOK, NumType
    <2>4. NoStalledWriter'
      BY <2>1, <2>3 DEF FlowInv, NoStalledWriter, Waits
    <2>5. WindowsInRange'
      BY <2>3 DEF FlowInv, WindowsInRange, TypeOK, WindowType
    <2> QED BY <2>2, <2>4, <2>5
  <1>2. ASSUME NewHeadersComplete
        PROVE  TreeInv' /\ NoStalledWriter' /\ WindowsInRange'
    <2>1. stream \in Streams /\ stream \in node
      BY <1>2, StreamsAssumption
      DEF NewHeadersComplete, FrameGoesOn, Incomplete, FlowInv, TypeOK, ParserType, TreeInv
    <2>2. /\ live' = live \cup {stream} /\ stream' = NoStream
          /\ UNCHANGED <<node, write_wait>>
          /\ flag'[stream] = flag[stream] \cup {"parsed_header"}
          /\ \A x \in Streams \ {stream} : flag'[x] = flag[x]
      BY <1>2, <2>1 DEF NewHeadersComplete, FlowInv, TypeOK, FlagType
    <2>3. TreeInv'
      <3>1. /\ live' \subseteq node' /\ Waits("WINDOW")' \subseteq live'
            /\ Incomplete' => stream' \in node'
        BY <2>1, <2>2 DEF FlowInv, TreeInv, Waits, Incomplete
      <3>2. /\ \A x \in live' : Has(x, "parsed_header")'
            /\ \A x \in node' : ~Has(x, "destroy_by_http2")'
        BY <2>1, <2>2 DEF FlowInv, TreeInv, Has, TypeOK, TreeType
      <3> QED BY <3>1, <3>2 DEF TreeInv
    <2>4. QuietWindows /\ QuietWaits
      BY <1>2 DEF NewHeadersComplete, QuietWindows, QuietWaits
    <2> QED BY <2>3, <2>4, WindowsKept
  <1>3. ASSUME NEW s \in Streams, NEW d \in BOOLEAN, RefusedHeaders(s, d)
        PROVE  TreeInv' /\ NoStalledWriter' /\ WindowsInRange'
    <2>1. QuietTree BY <1>3 DEF RefusedHeaders, QuietTree, Marks
    <2>2. QuietWindows /\ QuietWaits BY <1>3 DEF RefusedHeaders, QuietWindows, QuietWaits
    <2> QED BY <2>1, <2>2, TreeKept, WindowsKept
  <1>4. ASSUME NEW s \in Streams, NEW f \in BOOLEAN, NEW w \in BOOLEAN, Trailers(s, f, w)
        PROVE  TreeInv' /\ NoStalledWriter' /\ WindowsInRange'
    <2>1. QuietWindows /\ QuietWaits BY <1>4 DEF Trailers, QuietWindows, QuietWaits
    <2>2. \A x \in Streams : Marks(x)' = Marks(x)
      BY <1>4 DEF Trailers, Marks, FlowInv, TypeOK, FlagType
    <2>3. UNCHANGED <<node, live>> /\ stream' \in {stream, s} /\ s \in node
      BY <1>4 DEF Trailers
    <2> QED BY <2>1, <2>2, <2>3, TreeKept, WindowsKept DEF QuietTree
  <1>5. ASSUME TrailersComplete
        PROVE  TreeInv' /\ NoStalledWriter' /\ WindowsInRange'
    <2>1. PICK s \in {stream, NoStream} : state_complete(s, flag, num)
      BY <1>5 DEF TrailersComplete, TrailersDone
    <2>2. UNCHANGED <<node, live, write_wait, send_window, scan>>
      BY <1>5 DEF TrailersComplete
    <2>3. /\ stream \in Streams \cup {NoStream} /\ flag \in [Streams -> SUBSET Flags]
          /\ num \in [Streams -> StreamNum]
      BY DEF FlowInv, TypeOK, ParserType, FlagType, NumType
    <2> QED BY <2>1, <2>2, <2>3, CompleteFlow DEF Marks
  <1> QED BY <1>1, <1>2, <1>3, <1>4, <1>5 DEF HeaderFrames

\* What is read of a DATA frame moves no send window.
LEMMA ReadDataFlow ==
  ASSUME FlowInv, NEW s \in Streams, s = stream \/ s \in node,
         NEW left \in Nat, NEW f \in BOOLEAN, NEW pad \in BOOLEAN,
         NEW n \in 0..left, NEW rl \in ReadLens, NEW nm \in [Streams -> StreamNum],
         \A x \in Streams : nm[x].send_window = num[x].send_window,
         state_read_data(s, left, f, pad, n, rl, nm),
         UNCHANGED <<node, live, writeWaitVars, send_window, scan>>
  PROVE  TreeInv' /\ NoStalledWriter' /\ WindowsInRange'
  <1> DEFINE waits == s \in read_wait
             ends == n = left /\ f
             held == nm[s].buffered + n
             taken == IF waits /\ n > 0 THEN Min(rl, held) ELSE 0
             nm1 == [nm EXCEPT ![s].buffered = held - taken]
             fl1 == IF ends THEN [flag EXCEPT ![s] = @ \cup {"in_closed"}] ELSE flag
  <1>1. nm1 \in [Streams -> StreamNum]
    <2>1. held \in Nat BY DEF StreamNum
    <2>2. rl \in Nat BY SizesAssumption
    <2>3. held - taken \in Nat BY <2>1, <2>2 DEF Min
    <2> HIDE DEF held, taken
    <2> QED BY <2>3 DEF StreamNum
  <1>2. \A x \in Streams : nm1[x].send_window = num[x].send_window
    <2> HIDE DEF held, taken
    <2> QED BY DEF StreamNum
  <1>3. fl1 \in [Streams -> SUBSET Flags]
    BY DEF FlowInv, TypeOK, FlagType, Flags
  <1>4. \A x \in Streams : fl1[x] \cap {"parsed_header", "destroy_by_http2"} = Marks(x)
    BY DEF Marks, FlowInv, TypeOK, FlagType
  <1>5. \/ stream' = s /\ flag' = fl1 /\ num' = nm1
        \/ state_complete(s, fl1, nm1)
    BY DEF state_read_data
  <1> HIDE DEF nm1, fl1
  <1>6. CASE state_complete(s, fl1, nm1)
    BY <1>1, <1>2, <1>3, <1>4, <1>6, CompleteFlow
  <1>7. CASE stream' = s /\ flag' = fl1 /\ num' = nm1
    <2>1. \A x \in Streams : Marks(x)' = Marks(x) BY <1>4, <1>7 DEF Marks
    <2>2. QuietTree BY <1>7, <2>1 DEF QuietTree
    <2>3. QuietWaits BY DEF QuietWaits
    <2>4. QuietWindows BY <1>2, <1>7 DEF QuietWindows
    <2> QED BY <2>2, <2>3, <2>4, TreeKept, WindowsKept
  <1> QED BY <1>5, <1>6, <1>7

\* DATA frames keep the flow control invariant.
LEMMA DataFramesFlow ==
  ASSUME FlowInv, DataFrames
  PROVE  TreeInv' /\ NoStalledWriter' /\ WindowsInRange'
  <1>1. ASSUME NEW L \in DataLens, DataOverrun(L)
        PROVE  TreeInv' /\ NoStalledWriter' /\ WindowsInRange'
    BY <1>1, CloseFlow DEF DataOverrun
  <1>2. ASSUME NEW s \in Streams, NEW L \in DataLens, DataUnknown(s, L)
        PROVE  TreeInv' /\ NoStalledWriter' /\ WindowsInRange'
    <2>1. QuietTree BY <1>2 DEF DataUnknown, QuietTree, Marks
    <2>2. QuietWindows /\ QuietWaits BY <1>2 DEF DataUnknown, QuietWindows, QuietWaits
    <2> QED BY <2>1, <2>2, TreeKept, WindowsKept
  <1>3. ASSUME NEW s \in Streams, NEW L \in DataLens, DataRefused(s, L)
        PROVE  TreeInv' /\ NoStalledWriter' /\ WindowsInRange'
    <2>1. QuietWaits /\ \A x \in Streams : Marks(x)' = Marks(x)
      BY <1>3, CutQuiet DEF DataRefused
    <2>2. QuietTree BY <1>3, <2>1 DEF DataRefused, QuietTree
    <2>3. num' = num \/ num' = [num EXCEPT ![s].recv_window = @ - L]
      BY <1>3 DEF DataRefused
    <2>4. \A x \in Streams : num'[x].send_window = num[x].send_window
      BY <2>3 DEF FlowInv, TypeOK, NumType, StreamNum
    <2>5. QuietWindows BY <1>3, <2>4 DEF DataRefused, QuietWindows
    <2> QED BY <2>1, <2>2, <2>5, TreeKept, WindowsKept
  <1>4. ASSUME NEW s \in Streams, NEW L \in DataLens, NEW f \in BOOLEAN, NEW pad \in BOOLEAN,
               NEW rl \in ReadLens, NEW n \in 0..L, Data(s, L, f, pad, n, rl)
        PROVE  TreeInv' /\ NoStalledWriter' /\ WindowsInRange'
    <2> DEFINE nm == [num EXCEPT ![s].recv_window = @ - L]
    <2>1. num[s].recv_window - L \in 0..StreamRecvWindow /\ L \in Nat
      BY <1>4, SizesAssumption, WindowsAssumption
      DEF Data, FlowInv, TypeOK, NumType, StreamNum
    <2>2. /\ nm \in [Streams -> StreamNum]
          /\ \A x \in Streams : nm[x].send_window = num[x].send_window
      BY <2>1 DEF FlowInv, TypeOK, NumType, StreamNum
    <2>3. state_read_data(s, L, f, pad, n, rl, nm) /\ s \in node
      BY <1>4 DEF Data
    <2>4. UNCHANGED <<node, live, writeWaitVars, send_window, scan>> BY <1>4 DEF Data
    <2> HIDE DEF nm
    <2> QED BY <2>1, <2>2, <2>3, <2>4, ReadDataFlow
  <1>5. ASSUME NEW n \in 1..length, NEW rl \in ReadLens, DataGoesOn(n, rl)
        PROVE  TreeInv' /\ NoStalledWriter' /\ WindowsInRange'
    <2>1. /\ stream \in Streams /\ length \in Nat /\ fin \in BOOLEAN /\ padded \in BOOLEAN
          /\ n \in 0..length /\ num \in [Streams -> StreamNum]
      BY <1>5 DEF DataGoesOn, FrameGoesOn, FlowInv, TypeOK, ParserType, NumType
    <2>2. state_read_data(stream, length, fin, padded, n, rl, num) BY <1>5 DEF DataGoesOn
    <2>3. UNCHANGED <<node, live, writeWaitVars, send_window, scan>> BY <1>5 DEF DataGoesOn
    <2> QED BY <2>1, <2>2, <2>3, ReadDataFlow
  <1>6. ASSUME SkipComplete
        PROVE  TreeInv' /\ NoStalledWriter' /\ WindowsInRange'
    <2>1. /\ stream \in Streams \cup {NoStream} /\ flag \in [Streams -> SUBSET Flags]
          /\ num \in [Streams -> StreamNum]
      BY DEF FlowInv, TypeOK, ParserType, FlagType, NumType
    <2>2. /\ state_complete(stream, flag, num)
          /\ UNCHANGED <<node, live, write_wait, send_window, scan>>
      BY <1>6 DEF SkipComplete
    <2> QED BY <2>1, <2>2, CompleteFlow DEF Marks
  <1> QED BY <1>1, <1>2, <1>3, <1>4, <1>5, <1>6 DEF DataFrames

\* RST_STREAM, WINDOW_UPDATE, SETTINGS and the rest: the first place where
\* windows open.
LEMMA ControlFramesFlow ==
  ASSUME FlowInv, ControlFrames
  PROVE  TreeInv' /\ NoStalledWriter' /\ WindowsInRange'
  <1>1. ASSUME NEW s \in Streams, RstStream(s)
        PROVE  TreeInv' /\ NoStalledWriter' /\ WindowsInRange'
    <2>1. QuietWaits /\ \A x \in Streams : Marks(x)' = Marks(x)
      BY <1>1, CutQuiet DEF RstStream
    <2>2. QuietTree BY <1>1, <2>1 DEF RstStream, QuietTree
    <2>3. \A x \in Streams : num'[x].send_window = num[x].send_window
      BY <1>1 DEF RstStream, FlowInv, TypeOK, NumType, StreamNum
    <2>4. QuietWindows BY <1>1, <2>3 DEF RstStream, QuietWindows
    <2> QED BY <2>1, <2>2, <2>4, TreeKept, WindowsKept
  <1>2. ASSUME NEW s \in Streams, NEW w \in Increments, WindowUpdate(s, w)
        PROVE  TreeInv' /\ NoStalledWriter' /\ WindowsInRange'
    <2> DEFINE sw == num[s].send_window + w
    <2>1. num[s].send_window \in Int /\ num[s].wait_len \in Nat /\ w \in Nat
      BY SizesAssumption DEF FlowInv, TypeOK, NumType, StreamNum
    <2>2. UNCHANGED <<node, live, stream, scan>> /\ scan = {}
      BY <1>2 DEF WindowUpdate, FrameStart, Readable
    <2>3. CASE terminate_stream(s) /\ UNCHANGED <<send_window, num>>
      <3>1. Cut({s}) BY <2>3 DEF terminate_stream
      <3>2. QuietWaits /\ \A x \in Streams : Marks(x)' = Marks(x) BY <3>1, CutQuiet
      <3>3. QuietTree BY <2>2, <3>2 DEF QuietTree
      <3>4. QuietWindows BY <2>2, <2>3 DEF QuietWindows
      <3> QED BY <3>2, <3>3, <3>4, TreeKept, WindowsKept
    <2>4. CASE /\ write_wait[s] = "WINDOW" /\ w <= MaxWindow - num[s].send_window
               /\ on_write_window_ready(s, sw, num[s].wait_len, Has(s, "sendfile"))
      <3>1. sw \in Int /\ sw <= MaxWindow BY <2>1, <2>4, WindowsAssumption
      <3> HIDE DEF sw
      <3> QED BY <2>1, <2>2, <2>4, <3>1, GrantFlow DEF FlowInv, TreeInv, Waits
    <2>5. CASE /\ write_wait[s] # "WINDOW" /\ w <= MaxWindow - num[s].send_window
               /\ num' = [num EXCEPT ![s].send_window = sw]
               /\ UNCHANGED <<send_window, flag, writeWaitVars>>
      <3>1. sw \in Int /\ sw <= MaxWindow BY <2>1, <2>5, WindowsAssumption
      <3> HIDE DEF sw
      <3>2. /\ num'[s].send_window = sw
            /\ \A x \in Streams \ {s} : num'[x].send_window = num[x].send_window
        BY <2>5 DEF FlowInv, TypeOK, NumType, StreamNum
      <3>3. QuietTree BY <2>2, <2>5 DEF QuietTree, Marks
      <3>4. QuietWaits BY <2>5 DEF QuietWaits
      <3>5. NoStalledWriter'
        BY <2>2, <2>5, <3>2 DEF FlowInv, NoStalledWriter, Waits
      <3>6. WindowsInRange' BY <2>5, <3>1, <3>2 DEF FlowInv, WindowsInRange
      <3> QED BY <3>3, <3>4, <3>5, <3>6, TreeKept
    <2> QED BY <1>2, <2>3, <2>4, <2>5 DEF WindowUpdate
  <1>3. ASSUME NEW w \in Increments, ConnWindowUpdate(w)
        PROVE  TreeInv' /\ NoStalledWriter' /\ WindowsInRange'
    <2>1. QuietTree /\ QuietWaits
      BY <1>3 DEF ConnWindowUpdate, QuietTree, QuietWaits, Marks
    <2>2. send_window \in 0..MaxWindow /\ w \in Nat
      BY SizesAssumption DEF FlowInv, WindowsInRange
    <2>3. /\ w <= MaxWindow - send_window /\ send_window' = send_window + w
          /\ scan' = IF UsedUp THEN node ELSE {}
          /\ UNCHANGED <<num, write_wait>> /\ scan = {}
      BY <1>3 DEF ConnWindowUpdate, FrameStart, Readable
    <2>4. Waits("WINDOW") \subseteq node BY DEF FlowInv, TreeInv
    <2>5. NoStalledWriter'
      BY <2>3, <2>4 DEF FlowInv, NoStalledWriter, Waits, UsedUp
    <2>6. WindowsInRange'
      BY <2>2, <2>3, WindowsAssumption DEF FlowInv, WindowsInRange
    <2> QED BY <2>1, <2>5, <2>6, TreeKept
  <1>4. ASSUME NEW v \in InitWindows, SettingsWindow(v)
        PROVE  TreeInv' /\ NoStalledWriter' /\ WindowsInRange'
    <2>1. QuietTree /\ QuietWaits
      BY <1>4 DEF SettingsWindow, QuietTree, QuietWaits, Marks
    <2>2. scan' = node /\ UNCHANGED <<send_window, write_wait>> BY <1>4 DEF SettingsWindow
    <2>3. Waits("WINDOW") \subseteq node BY DEF FlowInv, TreeInv
    <2>4. NoStalledWriter'
      BY <2>2, <2>3 DEF NoStalledWriter, Waits
    <2>5. v \in 0..MaxWindow /\ init_window \in 0..MaxWindow
      BY SizesAssumption, WindowsAssumption DEF FlowInv, TypeOK, WindowType
    <2>6. \A s \in Streams : Adjusted(s, v - init_window) <= MaxWindow
      BY <2>5, WindowsAssumption
      DEF Adjusted, FlowInv, WindowsInRange, TypeOK, NumType, StreamNum
    <2>7. \A s \in Streams : num'[s].send_window \in
                               {num[s].send_window, Adjusted(s, v - init_window)}
      BY <1>4 DEF SettingsWindow, FlowInv, TypeOK, NumType, StreamNum
    <2>8. WindowsInRange'
      BY <2>2, <2>6, <2>7 DEF FlowInv, WindowsInRange
    <2> QED BY <2>1, <2>4, <2>8, TreeKept
  <1>5. ASSUME NEW v \in FrameSizes, SettingsFrameSize(v)
        PROVE  TreeInv' /\ NoStalledWriter' /\ WindowsInRange'
    <2>1. QuietTree BY <1>5 DEF SettingsFrameSize, QuietTree, Marks
    <2>2. QuietWindows /\ QuietWaits BY <1>5 DEF SettingsFrameSize, QuietWindows, QuietWaits
    <2> QED BY <2>1, <2>2, TreeKept, WindowsKept
  <1>6. CASE PingFrame
    <2>1. QuietTree BY <1>6 DEF PingFrame, QuietTree, Marks
    <2>2. QuietWindows /\ QuietWaits BY <1>6 DEF PingFrame, QuietWindows, QuietWaits
    <2> QED BY <2>1, <2>2, TreeKept, WindowsKept
  <1>7. CASE GoawayFrame
    <2>1. QuietTree BY <1>7 DEF GoawayFrame, QuietTree, Marks
    <2>2. QuietWindows /\ QuietWaits BY <1>7 DEF GoawayFrame, QuietWindows, QuietWaits
    <2> QED BY <2>1, <2>2, TreeKept, WindowsKept
  <1>8. CASE IdleFrame
    <2>1. QuietTree BY <1>8 DEF IdleFrame, QuietTree, Marks
    <2>2. QuietWindows /\ QuietWaits BY <1>8 DEF IdleFrame, QuietWindows, QuietWaits
    <2> QED BY <2>1, <2>2, TreeKept, WindowsKept
  <1> QED BY <1>1, <1>2, <1>3, <1>4, <1>5, <1>6, <1>7, <1>8 DEF ControlFrames

\* The outline of Finish: what it destroys (last, with the connection when
\* gone) and which flags the context keeps when the parser still holds it.
FinishOutline(s, gone, last, more) ==
  /\ gone => last = {s} \cup LastContexts /\ stream' = NoStream
  /\ ~gone => last = (IF stream = s THEN {} ELSE {s}) /\ stream' = stream
  /\ node' = node \ ({s} \cup last)
  /\ flag' = [x \in Streams |-> IF x \in last THEN {}
                                ELSE IF x = s THEN flag[x] \cup more ELSE flag[x]]
  /\ num' = [x \in Streams |-> IF x \in last THEN NoNum ELSE num[x]]

\* Finish has that outline.
LEMMA FinishShape ==
  ASSUME FlowInv, NEW s \in Streams, NEW e \in BOOLEAN, Finish(s, e)
  PROVE  \E gone \in BOOLEAN, last \in SUBSET Streams, more \in SUBSET Flags :
           FinishOutline(s, gone, last, more)
  <1> DEFINE short == num[s].content_left > 0
             cut == short /\ ~Has(s, "rst")
             ends == ~short /\ ~IsWriteClosed(s)
             in1 == Has(s, "in_closed") \/ cut \/ (~short /\ e)
             out1 == Has(s, "out_closed") \/ cut \/ ends
             resets == ~(in1 /\ out1)
             pushed == (cut /\ SendsRst(s)) \/ ends \/ resets
             gone == can_destroy(processing - 1, read_processing,
                                 write_processing \/ (pushed /\ ~closed))
             kept == UsedByParser(s) /\ ~gone
             last == (IF kept THEN {} ELSE {s}) \cup (IF gone THEN LastContexts ELSE {})
             more == {"in_closed", "out_closed", "destroy_by_http2"}
                       \cup (IF cut \/ resets THEN {"rst"} ELSE {})
  <1>1. /\ node' = node \ ({s} \cup last)
        /\ flag' = [x \in Streams |-> IF x \in last THEN {}
                                      ELSE IF x = s THEN flag[x] \cup more ELSE flag[x]]
        /\ num' = [x \in Streams |-> IF x \in last THEN NoNum ELSE num[x]]
    BY DEF Finish
  <1>2. CASE gone
    <2>1. DeleteThis(processing - 1) BY <1>2 DEF Finish
    <2>2. stream' = NoStream BY <2>1 DEF DeleteThis
    <2>3. last = {s} \cup LastContexts BY <1>2
    <2>4. more \in SUBSET Flags BY DEF Flags
    <2>5. last \in SUBSET Streams BY <2>3, LastNotLive
    <2> HIDE DEF last, more
    <2>6. FinishOutline(s, TRUE, last, more)
      BY <1>1, <2>2, <2>3 DEF FinishOutline
    <2> QED BY <2>4, <2>5, <2>6
  <1>3. CASE ~gone
    <2>1. UNCHANGED parseVars BY <1>3 DEF Finish
    <2>2. last = IF stream = s THEN {} ELSE {s} BY <1>3 DEF UsedByParser
    <2>3. more \in SUBSET Flags BY DEF Flags
    <2> HIDE DEF last, more
    <2>4. last \in SUBSET Streams BY <2>2
    <2>5. FinishOutline(s, FALSE, last, more)
      BY <1>1, <2>1, <2>2 DEF FinishOutline
    <2> QED BY <2>3, <2>4, <2>5
  <1> QED BY <1>2, <1>3

\* Every step of the read callback, check_write_wait among them.
LEMMA ReadSideFlow ==
  ASSUME FlowInv, ReadSide
  PROVE  TreeInv' /\ NoStalledWriter' /\ WindowsInRange'
  <1>1. CASE HeaderFrames BY <1>1, HeaderFramesFlow
  <1>2. CASE DataFrames BY <1>2, DataFramesFlow
  <1>3. CASE ControlFrames BY <1>3, ControlFramesFlow
  <1>4. ASSUME NEW s \in Streams, check_stream_timeout(s)
        PROVE  TreeInv' /\ NoStalledWriter' /\ WindowsInRange'
    <2>1. UNCHANGED <<node, live, stream, send_window, scan, num>>
      BY <1>4 DEF check_stream_timeout
    <2>2. UNCHANGED <<flag, write_wait>> \/ Cut({s})
      BY <1>4 DEF check_stream_timeout, terminate_stream
    <2>3. QuietWaits /\ \A x \in Streams : Marks(x)' = Marks(x)
      <3>1. CASE Cut({s}) BY <3>1, CutQuiet
      <3>2. CASE UNCHANGED <<flag, write_wait>> BY <3>2 DEF QuietWaits, Marks
      <3> QED BY <2>2, <3>1, <3>2
    <2>4. QuietTree /\ QuietWindows BY <2>1, <2>3 DEF QuietTree, QuietWindows
    <2> QED BY <2>3, <2>4, TreeKept, WindowsKept
  <1>5. ASSUME NEW s \in Streams, check_write_wait(s)
        PROVE  TreeInv' /\ NoStalledWriter' /\ WindowsInRange'
    <2>1. UNCHANGED <<node, live, stream>> BY <1>5 DEF check_write_wait
    <2>2. CASE send_window <= 0
      <3>1. UNCHANGED <<send_window, flag, num, write_wait>> BY <1>5, <2>2 DEF check_write_wait
      <3>2. QuietTree /\ QuietWaits BY <2>1, <3>1 DEF QuietTree, QuietWaits, Marks
      <3>3. NoStalledWriter' /\ WindowsInRange'
        BY <2>2, <3>1 DEF FlowInv, NoStalledWriter, WindowsInRange
      <3> QED BY <3>2, <3>3, TreeKept
    <2>3. CASE /\ ~(send_window <= 0) /\ num[s].send_window > 0
               /\ write_wait[s] = "WINDOW"
      <3>1. /\ on_write_window_ready(s, num[s].send_window, num[s].wait_len,
                                     Has(s, "sendfile"))
            /\ scan' = scan \ {s}
        BY <1>5, <2>3 DEF check_write_wait
      <3>2. /\ num[s].send_window \in Int /\ num[s].wait_len \in Nat
            /\ num[s].send_window <= MaxWindow
        BY DEF FlowInv, TypeOK, NumType, StreamNum, WindowsInRange
      <3>3. s \in live BY <2>3 DEF FlowInv, TreeInv, Waits
      <3> QED BY <2>1, <3>1, <3>2, <3>3, GrantFlow
    <2>4. CASE ~(send_window <= 0) /\ ~(num[s].send_window > 0 /\ write_wait[s] = "WINDOW")
      <3>1. UNCHANGED <<send_window, flag, num, write_wait>> /\ scan' = scan \ {s}
        BY <1>5, <2>4 DEF check_write_wait
      <3>2. QuietTree /\ QuietWaits BY <2>1, <3>1 DEF QuietTree, QuietWaits, Marks
      <3>3. num[s].send_window \in Int BY DEF FlowInv, TypeOK, NumType, StreamNum
      <3>4. NoStalledWriter'
        BY <2>4, <3>1, <3>3 DEF FlowInv, NoStalledWriter, Waits
      <3>5. WindowsInRange' BY <3>1 DEF FlowInv, WindowsInRange
      <3> QED BY <3>2, <3>4, <3>5, TreeKept
    <2> QED BY <2>2, <2>3, <2>4
  <1>6. ASSUME NEW idle \in BOOLEAN, StartRead(idle)
        PROVE  TreeInv' /\ NoStalledWriter' /\ WindowsInRange'
    <2>1. \/ close(TRUE)
          \/ UNCHANGED <<node, live, stream, flag, write_wait, send_window, scan, num>>
      BY <1>6 DEF StartRead
    <2>2. CASE close(TRUE) BY <2>2, CloseFlow
    <2>3. CASE UNCHANGED <<node, live, stream, flag, write_wait, send_window, scan, num>>
      <3>1. QuietTree /\ QuietWaits /\ QuietWindows
        BY <2>3 DEF QuietTree, QuietWaits, QuietWindows, Marks
      <3> QED BY <3>1, TreeKept, WindowsKept
    <2> QED BY <2>1, <2>2, <2>3
  <1>7. CASE ReadTimeoutPing \/ ReadTimeoutShutdown
    <2>1. UNCHANGED <<node, live, stream, flag, write_wait, send_window, scan, num>>
      BY <1>7 DEF ReadTimeoutPing, ReadTimeoutShutdown
    <2>2. QuietTree /\ QuietWaits /\ QuietWindows
      BY <2>1 DEF QuietTree, QuietWaits, QuietWindows, Marks
    <2> QED BY <2>2, TreeKept, WindowsKept
  <1>8. CASE ReadError BY <1>8, CloseFlow DEF ReadError
  <1> QED BY <1>1, <1>2, <1>3, <1>4, <1>5, <1>6, <1>7, <1>8 DEF ReadSide

\* Every step of the write callback.
LEMMA WriteSideFlow ==
  ASSUME FlowInv, WriteSide
  PROVE  TreeInv' /\ NoStalledWriter' /\ WindowsInRange'
  <1>1. ASSUME NEW n \in 1..Len(write_buffer), WriteDone(n)
        PROVE  TreeInv' /\ NoStalledWriter' /\ WindowsInRange'
    <2> DEFINE gone == can_destroy(processing, read_processing, GoesOnWriting(n))
               last == IF gone THEN LastContexts ELSE {}
    <2>1. QuietWaits
      BY <1>1 DEF WriteDone, QuietWaits, FlowInv, TypeOK, WaitType
    <2>2. /\ live' = live /\ node' = node \ last
          /\ UNCHANGED <<send_window, scan>>
      BY <1>1 DEF WriteDone
    <2>3. \A x \in Streams : /\ flag'[x] = IF x \in last THEN {} ELSE flag[x]
                             /\ num'[x] = IF x \in last THEN NoNum ELSE num[x]
      BY <1>1 DEF WriteDone
    <2>4. (gone => stream' = NoStream) /\ (~gone => stream' = stream)
      <3>1. CASE gone
        <4>1. DeleteThis(processing) BY <1>1, <3>1 DEF WriteDone
        <4>2. stream' = NoStream BY <4>1 DEF DeleteThis
        <4> QED BY <3>1, <4>2
      <3>2. CASE ~gone
        <4>1. UNCHANGED parseVars BY <1>1, <3>2 DEF WriteDone
        <4> QED BY <3>2, <4>1
      <3> QED BY <3>1, <3>2
    <2>5. last \cap live = {} BY LastNotLive
    <2>6. ~gone => last = {} OBVIOUS
    <2> HIDE DEF gone, last
    <2>7. QuietWindows
      BY <2>2, <2>3 DEF QuietWindows, NoNum, FreshNum
    <2>8. TreeInv'
      <3>1. live' \subseteq node' BY <2>2, <2>5 DEF FlowInv, TreeInv
      <3>2. \A x \in node' : Marks(x)' = Marks(x)
        BY <2>2, <2>3 DEF Marks, FlowInv, TypeOK, TreeType
      <3>3. \/ stream' = NoStream
            \/ stream' = stream /\ (Incomplete' => Incomplete /\ stream \in node')
        <4>1. CASE ~gone /\ stream' = stream
          <5>1. stream \in Streams \cup {NoStream} BY DEF FlowInv, TypeOK, ParserType
          <5>2. Incomplete' => Incomplete
            BY <2>3, <2>6, <4>1, <5>1 DEF Incomplete, Has
          <5> QED BY <2>2, <2>6, <4>1, <5>2 DEF FlowInv, TreeInv
        <4> QED BY <2>4, <4>1
      <3>4. Waits("WINDOW")' \subseteq live'
        BY <2>1, <2>2 DEF QuietWaits, Waits, FlowInv, TreeInv
      <3> QED BY <2>2, <3>1, <3>2, <3>3, <3>4, TreeReleased
    <2> QED BY <2>1, <2>7, <2>8, WindowsKept
  <1>2. CASE WriteError BY <1>2, CloseFlow DEF WriteError
  <1> QED BY <1>1, <1>2 DEF WriteSide

\* ~KHttp2Sink: the stream leaves the tree together with its writer.
LEMMA FinishFlow ==
  ASSUME FlowInv, NEW s \in Streams, NEW e \in BOOLEAN, Finish(s, e)
  PROVE  TreeInv' /\ NoStalledWriter' /\ WindowsInRange'
  <1>1. /\ s \in live /\ write_wait[s] = "none" /\ live' = live \ {s}
        /\ UNCHANGED <<write_wait, send_window, scan>>
    BY DEF Finish
  <1>2. PICK gone \in BOOLEAN, last \in SUBSET Streams, more \in SUBSET Flags :
          FinishOutline(s, gone, last, more)
    BY FinishShape
  <1> USE DEF FinishOutline
  <1>3. last \cap live' = {} BY <1>1, <1>2, LastNotLive
  <1>4. QuietWaits BY <1>1 DEF QuietWaits
  <1>5. QuietWindows BY <1>1, <1>2 DEF QuietWindows, NoNum, FreshNum
  <1>6. TreeInv'
    <2>1. live' \subseteq node' BY <1>1, <1>2, <1>3 DEF FlowInv, TreeInv
    <2>2. \A x \in node' : Marks(x)' = Marks(x)
      BY <1>2 DEF Marks, FlowInv, TypeOK, TreeType
    <2>3. \/ stream' = NoStream
          \/ stream' = stream /\ (Incomplete' => Incomplete /\ stream \in node')
      <3>1. CASE ~gone
        <4>1. stream \in Streams \cup {NoStream} BY DEF FlowInv, TypeOK, ParserType
        <4>2. Has(s, "parsed_header") BY <1>1 DEF FlowInv, TreeInv
        <4>3. stream = s => ~Incomplete'
          BY <1>2, <3>1, <4>2 DEF Incomplete, Has
        <4>4. stream # s => (Incomplete' => Incomplete)
          BY <1>2, <3>1, <4>1 DEF Incomplete, Has
        <4> QED BY <1>2, <3>1, <4>3, <4>4 DEF FlowInv, TreeInv
      <3> QED BY <1>2, <3>1
    <2>4. Waits("WINDOW")' \subseteq live'
      BY <1>1 DEF Waits, FlowInv, TreeInv
    <2> QED BY <1>1, <1>2, <2>1, <2>2, <2>3, <2>4, TreeReleased
  <1> QED BY <1>4, <1>5, <1>6, WindowsKept

\* The calls of a request fiber.  Only a write waits for window, and only
\* when it finds one used up.
LEMMA FiberFlow ==
  ASSUME FlowInv, NEW s \in Streams, Fiber(s)
  PROVE  TreeInv' /\ NoStalledWriter' /\ WindowsInRange'
  <1>0. /\ flag \in [Streams -> SUBSET Flags] /\ num \in [Streams -> StreamNum]
        /\ write_wait \in [Streams -> WaitKinds]
    BY DEF FlowInv, TypeOK, FlagType, NumType, WaitType
  <1>1. ASSUME NEW rl \in ReadLens, Read(s, rl)
        PROVE  TreeInv' /\ NoStalledWriter' /\ WindowsInRange'
    <2>1. QuietTree BY <1>1 DEF Read, QuietTree, Marks
    <2>2. QuietWaits BY <1>0, <1>1 DEF Read, QuietWaits
    <2>3. QuietWindows BY <1>0, <1>1 DEF Read, QuietWindows, StreamNum
    <2> QED BY <2>1, <2>2, <2>3, TreeKept, WindowsKept
  <1>2. CASE AddHeader(s)
    <2>1. QuietTree BY <1>0, <1>2 DEF AddHeader, QuietTree, Marks
    <2>2. QuietWaits /\ QuietWindows BY <1>2 DEF AddHeader, QuietWaits, QuietWindows
    <2> QED BY <2>1, <2>2, TreeKept, WindowsKept
  <1>3. CASE Continue100(s)
    <2>1. QuietTree BY <1>0, <1>3 DEF Continue100, QuietTree, Marks
    <2>2. QuietWaits /\ QuietWindows BY <1>3 DEF Continue100, QuietWaits, QuietWindows
    <2> QED BY <2>1, <2>2, TreeKept, WindowsKept
  <1>4. ASSUME NEW b \in BodySizes, StartResponse(s, b)
        PROVE  TreeInv' /\ NoStalledWriter' /\ WindowsInRange'
    <2>1. QuietTree BY <1>0, <1>4 DEF StartResponse, QuietTree, Marks
    <2>2. QuietWaits BY <1>4 DEF StartResponse, QuietWaits
    <2>3. QuietWindows BY <1>0, <1>4 DEF StartResponse, QuietWindows, StreamNum
    <2> QED BY <2>1, <2>2, <2>3, TreeKept, WindowsKept
  <1>5. CASE ResponseTrailer(s)
    <2>1. QuietTree BY <1>0, <1>5 DEF ResponseTrailer, QuietTree, Marks
    <2>2. QuietWaits /\ QuietWindows BY <1>5 DEF ResponseTrailer, QuietWaits, QuietWindows
    <2> QED BY <2>1, <2>2, TreeKept, WindowsKept
  <1>6. ASSUME NEW n \in WriteLens, NEW file \in BOOLEAN, Transmit(s, n, file), s \in live
        PROVE  TreeInv' /\ NoStalledWriter' /\ WindowsInRange'
    <2>1. s \in live /\ UNCHANGED <<node, live, stream, scan>>
      BY <1>6 DEF Transmit
    <2>2. CASE IsWriteClosed(s)
      <3>1. UNCHANGED <<send_window, flag, num>> BY <1>6, <2>2 DEF Transmit
      <3>2. QuietWaits BY <1>0, <1>6, <2>2 DEF Transmit, QuietWaits
      <3>3. QuietTree /\ QuietWindows BY <2>1, <3>1 DEF QuietTree, QuietWindows, Marks
      <3> QED BY <3>2, <3>3, TreeKept, WindowsKept
    <2>3. CASE ~IsWriteClosed(s)
      <3>1. on_write_window_ready(s, num[s].send_window, n, file) BY <1>6, <2>3 DEF Transmit
      <3>2. num[s].send_window \in Int BY <1>0 DEF StreamNum
      <3>3. num[s].send_window <= MaxWindow BY DEF FlowInv, WindowsInRange
      <3>4. n \in Nat BY SizesAssumption
      <3>5. scan \subseteq scan' \cup {s} BY <2>1
      <3> QED BY <2>1, <3>1, <3>2, <3>3, <3>4, <3>5, GrantFlow
    <2> QED BY <2>2, <2>3
  <1>7. CASE ReadHup(s) \/ RemoveReadHup(s)
    <2>1. QuietTree BY <1>7 DEF ReadHup, RemoveReadHup, QuietTree, Marks
    <2>2. QuietWaits BY <1>0, <1>7 DEF ReadHup, RemoveReadHup, QuietWaits
    <2>3. QuietWindows BY <1>7 DEF ReadHup, RemoveReadHup, QuietWindows
    <2> QED BY <2>1, <2>2, <2>3, TreeKept, WindowsKept
  <1>8. CASE Shutdown(s)
    <2>1. UNCHANGED <<node, live, stream, send_window, scan, num>>
      BY <1>8 DEF Shutdown
    <2>2. UNCHANGED <<flag, write_wait>> \/ Cut({s})
      BY <1>8 DEF Shutdown, shutdown, terminate_stream
    <2>3. QuietWaits /\ \A x \in Streams : Marks(x)' = Marks(x)
      <3>1. CASE Cut({s}) BY <3>1, CutQuiet
      <3>2. CASE UNCHANGED <<flag, write_wait>> BY <3>2 DEF QuietWaits, Marks
      <3> QED BY <2>2, <3>1, <3>2
    <2>4. QuietTree /\ QuietWindows BY <2>1, <2>3 DEF QuietTree, QuietWindows
    <2> QED BY <2>3, <2>4, TreeKept, WindowsKept
  <1>9. ASSUME NEW n \in TimeoutCounts, SetTimeOut(s, n)
        PROVE  TreeInv' /\ NoStalledWriter' /\ WindowsInRange'
    <2>1. QuietTree BY <1>9 DEF SetTimeOut, QuietTree, Marks
    <2>2. QuietWaits BY <1>9 DEF SetTimeOut, QuietWaits
    <2>3. QuietWindows BY <1>0, <1>9 DEF SetTimeOut, QuietWindows, StreamNum
    <2> QED BY <2>1, <2>2, <2>3, TreeKept, WindowsKept
  <1>10. ASSUME NEW e \in BOOLEAN, Finish(s, e)
        PROVE  TreeInv' /\ NoStalledWriter' /\ WindowsInRange'
    BY <1>10, FinishFlow
  <1> QED
    BY <1>1, <1>2, <1>3, <1>4, <1>5, <1>6, <1>7, <1>8, <1>9, <1>10
    DEF Fiber, Write, Sendfile, Running

\* A connection starts with no stream and the default window.
LEMMA InitFlow == Init => FlowInv
  <1> SUFFICES ASSUME Init PROVE FlowInv OBVIOUS
  <1>1. TypeOK BY InitType
  <1>2. TreeInv BY DEF Init, TreeInv, Waits, Incomplete
  <1>3. NoStalledWriter BY DEF Init, NoStalledWriter, Waits
  <1>4. WindowsInRange
    BY WindowsAssumption DEF Init, WindowsInRange, NoNum, FreshNum
  <1> QED BY <1>1, <1>2, <1>3, <1>4 DEF FlowInv

\* FlowInv is inductive.
LEMMA NextFlow ==
  ASSUME FlowInv, [Next]_vars
  PROVE  FlowInv'
  <1>1. TypeOK' BY NextType DEF FlowInv
  <1>2. CASE ReadSide BY <1>1, <1>2, ReadSideFlow DEF FlowInv
  <1>3. CASE WriteSide BY <1>1, <1>3, WriteSideFlow DEF FlowInv
  <1>4. ASSUME NEW s \in Streams, Fiber(s) PROVE FlowInv'
    BY <1>1, <1>4, FiberFlow DEF FlowInv
  <1>5. CASE \/ \E S \in SUBSET Streams : Elapse(S)
             \/ UNCHANGED vars
    <2>1. UNCHANGED <<node, live, stream, flag, write_wait, send_window, scan, num>>
      BY <1>5 DEF Elapse, vars
    <2>2. QuietTree /\ QuietWaits /\ QuietWindows
      BY <2>1 DEF QuietTree, QuietWaits, QuietWindows, Marks
    <2> QED BY <1>1, <2>2, TreeKept, WindowsKept DEF FlowInv
  <1> QED BY <1>2, <1>3, <1>4, <1>5 DEF Next, Gone

\* The invariant the two theorems below follow from.
LEMMA FlowCorrect == Spec => []FlowInv
  <1>1. Init => FlowInv BY InitFlow
  <1>2. FlowInv /\ [Next]_vars => FlowInv' BY NextFlow
  <1> QED BY <1>1, <1>2, PTL DEF Spec

\* Whatever WINDOW_UPDATE and SETTINGS frames come, in whatever order with
\* the writes, no writer is left waiting for window while both its windows
\* are open, outside the loop of check_write_wait that is about to serve it:
\* on_write_window_ready, check_write_wait and adjust_windows wake them all.
THEOREM NoWriterStalls == Spec => []NoStalledWriter
  <1>1. FlowInv => NoStalledWriter BY DEF FlowInv
  <1> QED BY <1>1, FlowCorrect, PTL

\* The send windows: the connection's, an unsigned number, is never overdrawn
\* by on_write_window_ready, and neither it nor a stream's passes
\* KGL_HTTP_V2_MAX_WINDOW by state_window_update or adjust_windows.
THEOREM WindowsNeverOverdrawn == Spec => []WindowsInRange
  <1>1. FlowInv => WindowsInRange BY DEF FlowInv
  <1> QED BY <1>1, FlowCorrect, PTL

-----------------------------------------------------------------------------
(* KHttp2 implements SendWindow.                                           *)
(*                                                                         *)
(* Nearly every step only closes streams, or changes no window at all,     *)
(* which is the same to SendWindow (Kept).  The others are the start of a  *)
(* stream, WINDOW_UPDATE, SETTINGS and the three places that let a writer  *)
(* send.  FlowInv is needed because the bytes sent have to be covered by a *)
(* connection window that has not wrapped, and because a context that is   *)
(* destroyed must not be one that is reachable.                            *)

\* What the refinement mapping takes for win.
Win == [x \in Streams |-> IF x \in node THEN num[x].send_window ELSE 0]

\* A step after which the window of one stream is v.
LEMMA OneWindow ==
  ASSUME NEW s \in Streams, NEW v, s \in node', num'[s].send_window = v,
         node' = node \cup {s},
         \A x \in Streams \ {s} : num'[x].send_window = num[x].send_window
  PROVE  Win' = [Win EXCEPT ![s] = v]
  BY DEF Win

\* The step closes some streams and leaves the windows of the others alone.
Kept ==
  /\ UNCHANGED <<send_window, init_window>>
  /\ node' \subseteq node
  /\ \A x \in node' : num'[x].send_window = num[x].send_window

\* Such a step closes streams for SendWindow.
LEMMA KeptCloses ==
  ASSUME FlowInv, Kept
  PROVE  StreamWindows!Next
  <1>1. StreamWindows!Close BY DEF Kept, StreamWindows!Close
  <1> QED BY <1>1 DEF StreamWindows!Next

\* The end of a frame leaves every window alone: a context it destroys is not
\* reachable any more.
LEMMA CompleteKept ==
  ASSUME FlowInv, NEW s \in Streams \cup {NoStream}, NEW fl, NEW nm,
         \A x \in node : nm[x].send_window = num[x].send_window,
         state_complete(s, fl, nm), UNCHANGED <<node, send_window, init_window>>
  PROVE  Kept
  <1>1. CASE s # NoStream /\ Has(s, "destroy_by_http2")
    <2>1. Destroy(s) /\ s \notin node BY <1>1 DEF state_complete, FlowInv, TreeInv
    <2> QED BY <2>1 DEF Destroy, Kept, FlowInv, TypeOK, NumType, TreeType
  <1>2. CASE ~(s # NoStream /\ Has(s, "destroy_by_http2"))
    BY <1>2 DEF state_complete, Kept
  <1> QED BY <1>1, <1>2

\* close closes no more than the stream the parser holds.
LEMMA CloseKept ==
  ASSUME FlowInv, NEW read \in BOOLEAN, close(read)
  PROVE  Kept
  <1> DEFINE gone == can_destroy(processing, read_processing /\ ~read, write_processing /\ read)
             last == IF gone THEN LastContexts ELSE {}
  <1>1. /\ node' = node \ last /\ UNCHANGED <<send_window, init_window>>
        /\ num' = [x \in Streams |-> IF x \in last THEN NoNum ELSE num[x]]
    BY DEF close
  <1> HIDE DEF last
  <1> QED BY <1>1 DEF Kept, FlowInv, TypeOK, TreeType

\* A writer that is served: the bytes it gets are taken off both windows, and
\* both had them, after n more were granted to the stream.
LEMMA GrantSends ==
  ASSUME FlowInv, NEW s \in node, NEW n \in Increments \cup {0}, NEW blen \in Nat, NEW file,
         num[s].send_window + n <= MaxWindow,
         on_write_window_ready(s, num[s].send_window + n, blen, file),
         UNCHANGED <<node, init_window>>
  PROVE  StreamWindows!Next
  <1> DEFINE sw == num[s].send_window + n
             room == Room(sw)
             sent == FrameLen(room, blen, file)
             m == IF room <= 0 THEN 0 ELSE sent
  <1>1. /\ s \in Streams /\ n \in Nat /\ send_window \in 0..MaxWindow
        /\ num \in [Streams -> StreamNum] /\ num[s].send_window \in Int
    BY SizesAssumption, WindowsAssumption
    DEF FlowInv, TypeOK, TreeType, NumType, StreamNum, WindowsInRange
  <1>2. room \in Int /\ room <= send_window /\ room <= sw
    BY <1>1 DEF Room, Min, FlowInv, TypeOK, WindowType
  <1>3. room > 0 => sent \in Nat /\ sent <= room BY <1>2, FrameLenInt
  <1>4. m \in 0..send_window /\ (m = 0 \/ m <= sw)
    <2> HIDE DEF room, sent, sw
    <2>1. sw \in Int BY <1>1 DEF sw
    <2> QED BY <1>1, <1>2, <1>3, <2>1
  <1>5. /\ send_window' = send_window - m
        /\ num'[s].send_window = sw - m
        /\ \A x \in Streams \ {s} : num'[x].send_window = num[x].send_window
    <2> HIDE DEF room, sent
    <2>1. CASE room <= 0
      <3>1. /\ num' = [num EXCEPT ![s].send_window = sw, ![s].wait_len = blen]
            /\ UNCHANGED send_window
        BY <2>1 DEF on_write_window_ready, room
      <3>2. /\ num'[s].send_window = sw
            /\ \A x \in Streams \ {s} : num'[x].send_window = num[x].send_window
        BY <1>1, <3>1 DEF StreamNum
      <3> QED BY <1>1, <2>1, <3>1, <3>2
    <2>2. CASE ~(room <= 0)
      <3> DEFINE left == num[s].content_left
                 c == IF left > 0 THEN left - sent ELSE left
      <3>1. /\ num' = [num EXCEPT ![s].send_window = sw - sent, ![s].wait_len = 0,
                                  ![s].content_left = c]
            /\ send_window' = send_window - sent
        BY <2>2 DEF on_write_window_ready, room, sent
      <3> HIDE DEF c
      <3>2. /\ num'[s].send_window = sw - sent
            /\ \A x \in Streams \ {s} : num'[x].send_window = num[x].send_window
        BY <1>1, <3>1 DEF StreamNum
      <3> QED BY <2>2, <3>1, <3>2
    <2> QED BY <2>1, <2>2
  <1> HIDE DEF room, sent, m
  <1>6. PICK k \in 0..send_window : k = m BY <1>4
  <1>7. Win' = [Win EXCEPT ![s] = sw - k]
    BY <1>1, <1>5, <1>6, OneWindow
  <1>8. Win[s] = num[s].send_window BY <1>1 DEF Win
  <1>9. Win[s] + n <= MaxWindow /\ Win' = [Win EXCEPT ![s] = @ + n - k]
    <2>1. Win[s] + n = sw BY <1>8
    <2>2. Win[s] + n - k = sw - k BY <1>1, <1>8
    <2> HIDE DEF sw
    <2>3. Win' = [Win EXCEPT ![s] = Win[s] + n - k] BY <1>7, <2>2, Zenon
    <2>4. sw <= MaxWindow BY DEF sw
    <2> QED BY <2>1, <2>3, <2>4
  <1>10. k = 0 \/ (k <= Win[s] + n /\ k <= send_window) BY <1>1, <1>4, <1>6, <1>8
  <1>11. StreamWindows!GrantAndSend(s, n, k)
    BY <1>5, <1>6, <1>9, <1>10 DEF StreamWindows!GrantAndSend, Win
  <1> QED BY <1>1, <1>11 DEF StreamWindows!Next

-----------------------------------------------------------------------------
(* One lemma per actor.                                                    *)

\* HEADERS opens a stream with the initial window.
LEMMA HeaderFramesContract ==
  ASSUME FlowInv, HeaderFrames
  PROVE  StreamWindows!Next
  <1>1. ASSUME NEW s \in Streams, NEW f \in BOOLEAN, NEW w \in BOOLEAN, NewHeaders(s, f, w)
        PROVE  StreamWindows!Next
    <2>1. /\ s \notin node /\ node' = node \cup {s}
          /\ UNCHANGED <<send_window, init_window>>
          /\ num' = [num EXCEPT ![s] = FreshNum(init_window)]
      BY <1>1 DEF NewHeaders
    <2>2. /\ num'[s].send_window = init_window
          /\ \A x \in Streams \ {s} : num'[x] = num[x]
      BY <2>1 DEF FreshNum, FlowInv, TypeOK, NumType
    <2>3. Win' = [Win EXCEPT ![s] = init_window] BY <2>1, <2>2, OneWindow
    <2>4. StreamWindows!Open(s) BY <2>1, <2>3 DEF StreamWindows!Open, Win
    <2> QED BY <2>4 DEF StreamWindows!Next
  <1>2. ASSUME \/ NewHeadersComplete
               \/ \E s \in Streams, d \in BOOLEAN : RefusedHeaders(s, d)
               \/ \E s \in Streams, f, w \in BOOLEAN : Trailers(s, f, w)
        PROVE  StreamWindows!Next
    <2>1. UNCHANGED <<node, num, send_window, init_window>>
      BY <1>2 DEF NewHeadersComplete, RefusedHeaders, Trailers
    <2> QED BY <2>1, KeptCloses DEF Kept
  <1>3. ASSUME TrailersComplete
        PROVE  StreamWindows!Next
    <2>1. PICK s \in {stream, NoStream} : state_complete(s, flag, num)
      BY <1>3 DEF TrailersComplete, TrailersDone
    <2>2. UNCHANGED <<node, send_window, init_window>> BY <1>3 DEF TrailersComplete
    <2>3. stream \in Streams \cup {NoStream} BY DEF FlowInv, TypeOK, ParserType
    <2> QED BY <2>1, <2>2, <2>3, CompleteKept, KeptCloses
  <1> QED BY <1>1, <1>2, <1>3 DEF HeaderFrames

\* What is read of a DATA frame moves no send window.
LEMMA ReadDataKept ==
  ASSUME FlowInv, NEW s \in Streams, NEW left, NEW f, NEW pad, NEW n, NEW rl,
         NEW nm \in [Streams -> StreamNum],
         \A x \in Streams : nm[x].send_window = num[x].send_window,
         state_read_data(s, left, f, pad, n, rl, nm),
         UNCHANGED <<node, send_window, init_window>>
  PROVE  Kept
  <1> DEFINE held == nm[s].buffered + n
             taken == IF s \in read_wait /\ n > 0 THEN Min(rl, held) ELSE 0
             nm1 == [nm EXCEPT ![s].buffered = held - taken]
             fl1 == IF n = left /\ f THEN [flag EXCEPT ![s] = @ \cup {"in_closed"}] ELSE flag
  <1>1. num' = nm1 \/ state_complete(s, fl1, nm1)
    BY DEF state_read_data
  <1>2. \A x \in node : nm1[x].send_window = num[x].send_window
    <2> HIDE DEF held, taken
    <2> QED BY DEF StreamNum, FlowInv, TypeOK, TreeType
  <1> HIDE DEF nm1, fl1
  <1>3. CASE num' = nm1 BY <1>2, <1>3 DEF Kept
  <1>4. CASE state_complete(s, fl1, nm1) BY <1>2, <1>4, CompleteKept
  <1> QED BY <1>1, <1>3, <1>4

\* DATA frames leave the send windows alone.
LEMMA DataFramesContract ==
  ASSUME FlowInv, DataFrames
  PROVE  StreamWindows!Next
  <1>1. ASSUME NEW L \in DataLens, DataOverrun(L) PROVE Kept
    BY <1>1, CloseKept DEF DataOverrun
  <1>2. ASSUME NEW s \in Streams, NEW L \in DataLens, DataUnknown(s, L) PROVE Kept
    BY <1>2 DEF DataUnknown, Kept
  <1>3. ASSUME NEW s \in Streams, NEW L \in DataLens, DataRefused(s, L) PROVE Kept
    <2>1. num' = num \/ num' = [num EXCEPT ![s].recv_window = @ - L]
      BY <1>3 DEF DataRefused
    <2>2. \A x \in Streams : num'[x].send_window = num[x].send_window
      BY <2>1 DEF FlowInv, TypeOK, NumType, StreamNum
    <2>3. UNCHANGED <<node, send_window, init_window>> BY <1>3 DEF DataRefused
    <2> QED BY <2>2, <2>3 DEF Kept, FlowInv, TypeOK, TreeType
  <1>4. ASSUME NEW s \in Streams, NEW L \in DataLens, NEW f \in BOOLEAN, NEW pad \in BOOLEAN,
               NEW rl \in ReadLens, NEW n \in 0..L, Data(s, L, f, pad, n, rl)
        PROVE  Kept
    <2> DEFINE nm == [num EXCEPT ![s].recv_window = @ - L]
    <2>1. num[s].recv_window - L \in 0..StreamRecvWindow
      BY <1>4, SizesAssumption, WindowsAssumption
      DEF Data, FlowInv, TypeOK, NumType, StreamNum
    <2>2. /\ nm \in [Streams -> StreamNum]
          /\ \A x \in Streams : nm[x].send_window = num[x].send_window
      BY <2>1 DEF FlowInv, TypeOK, NumType, StreamNum
    <2>3. /\ state_read_data(s, L, f, pad, n, rl, nm)
          /\ UNCHANGED <<node, send_window, init_window>>
      BY <1>4 DEF Data
    <2> HIDE DEF nm
    <2> QED BY <2>2, <2>3, ReadDataKept
  <1>5. ASSUME NEW n \in 1..length, NEW rl \in ReadLens, DataGoesOn(n, rl) PROVE Kept
    <2>1. stream \in Streams /\ num \in [Streams -> StreamNum]
      BY <1>5 DEF DataGoesOn, FrameGoesOn, FlowInv, TypeOK, ParserType, NumType
    <2>2. /\ state_read_data(stream, length, fin, padded, n, rl, num)
          /\ UNCHANGED <<node, send_window, init_window>>
      BY <1>5 DEF DataGoesOn
    <2> QED BY <2>1, <2>2, ReadDataKept
  <1>6. ASSUME SkipComplete PROVE Kept
    <2>1. stream \in Streams \cup {NoStream} BY DEF FlowInv, TypeOK, ParserType
    <2>2. /\ state_complete(stream, flag, num)
          /\ UNCHANGED <<node, send_window, init_window>>
      BY <1>6 DEF SkipComplete
    <2> QED BY <2>1, <2>2, CompleteKept
  <1>7. Kept BY <1>1, <1>2, <1>3, <1>4, <1>5, <1>6 DEF DataFrames
  <1> QED BY <1>7, KeptCloses

\* The other frames: WINDOW_UPDATE and SETTINGS move windows as the peer says.
LEMMA ControlFramesContract ==
  ASSUME FlowInv, ControlFrames
  PROVE  StreamWindows!Next
  <1>0. num \in [Streams -> StreamNum] /\ node \subseteq Streams /\ send_window \in 0..MaxWindow
    BY DEF FlowInv, TypeOK, NumType, TreeType, WindowsInRange
  <1>1. ASSUME NEW s \in Streams, RstStream(s)
        PROVE  StreamWindows!Next
    <2>1. /\ num' = [num EXCEPT ![s].buffered = 0]
          /\ UNCHANGED <<node, send_window, init_window>>
      BY <1>1 DEF RstStream
    <2>2. \A x \in Streams : num'[x].send_window = num[x].send_window
      BY <1>0, <2>1 DEF StreamNum
    <2> QED BY <1>0, <2>1, <2>2, KeptCloses DEF Kept
  <1>2. ASSUME NEW s \in Streams, NEW w \in Increments, WindowUpdate(s, w)
        PROVE  StreamWindows!Next
    <2> DEFINE sw == num[s].send_window + w
    <2>1. s \in node /\ UNCHANGED <<node, init_window>> BY <1>2 DEF WindowUpdate
    <2>2. num[s].send_window \in Int /\ num[s].wait_len \in Nat /\ w \in Nat /\ MaxWindow \in Nat
      BY <1>0, SizesAssumption, WindowsAssumption DEF StreamNum
    <2>3. CASE UNCHANGED <<send_window, num>> BY <2>1, <2>3, KeptCloses DEF Kept
    <2>4. CASE /\ w <= MaxWindow - num[s].send_window
               /\ on_write_window_ready(s, sw, num[s].wait_len, Has(s, "sendfile"))
      <3>1. num[s].send_window + w <= MaxWindow BY <2>2, <2>4
      <3> QED BY <2>1, <2>2, <2>4, <3>1, GrantSends
    <2>5. CASE /\ w <= MaxWindow - num[s].send_window
               /\ num' = [num EXCEPT ![s].send_window = sw]
               /\ UNCHANGED send_window
      <3>1. /\ num'[s].send_window = sw
            /\ \A x \in Streams \ {s} : num'[x].send_window = num[x].send_window
        BY <1>0, <2>5 DEF StreamNum
      <3>2. Win' = [Win EXCEPT ![s] = sw]
        BY <2>1, <3>1, OneWindow
      <3>3. Win[s] = num[s].send_window BY <2>1 DEF Win
      <3>4. Win[s] + w - 0 = sw /\ Win[s] + w <= MaxWindow BY <2>2, <2>5, <3>3
      <3> HIDE DEF sw
      <3>5. Win' = [Win EXCEPT ![s] = Win[s] + w - 0] BY <3>2, <3>4, Zenon
      <3>6. send_window' = send_window - 0 BY <1>0, <2>5
      <3>7. StreamWindows!GrantAndSend(s, w, 0)
        BY <2>1, <3>4, <3>5, <3>6 DEF StreamWindows!GrantAndSend, Win
      <3>8. 0 \in 0..send_window BY <1>0
      <3> QED BY <3>7, <3>8 DEF StreamWindows!Next
    <2> QED BY <1>2, <2>3, <2>4, <2>5 DEF WindowUpdate
  <1>3. ASSUME NEW w \in Increments, ConnWindowUpdate(w)
        PROVE  StreamWindows!Next
    <2>1. /\ UNCHANGED <<node, num, init_window>> /\ send_window' = send_window + w
          /\ w <= MaxWindow - send_window
      BY <1>3 DEF ConnWindowUpdate
    <2>2. w \in Nat /\ MaxWindow \in Nat BY SizesAssumption, WindowsAssumption
    <2>3. send_window + w <= MaxWindow BY <1>0, <2>1, <2>2
    <2>4. StreamWindows!GrantConnection(w)
      BY <2>1, <2>3 DEF StreamWindows!GrantConnection
    <2> QED BY <2>4 DEF StreamWindows!Next
  <1>4. ASSUME NEW v \in InitWindows, SettingsWindow(v)
        PROVE  StreamWindows!Next
    <2>1. /\ UNCHANGED <<node, send_window>> /\ init_window' = v
          /\ num' = [x \in Streams |->
               IF x \in node THEN [num[x] EXCEPT !.send_window = Adjusted(x, v - init_window)]
                             ELSE num[x]]
      BY <1>4 DEF SettingsWindow
    <2>2. v \in 0..MaxWindow /\ init_window \in 0..MaxWindow /\ MaxWindow \in Nat
      BY SizesAssumption, WindowsAssumption DEF FlowInv, TypeOK, WindowType
    <2>3. \A x \in node : num[x].send_window \in Int /\ num[x].send_window <= MaxWindow
      BY <1>0 DEF StreamNum, FlowInv, WindowsInRange
    <2>4. \A x \in node : num'[x].send_window = Adjusted(x, v - init_window)
      BY <1>0, <2>1 DEF StreamNum
    <2>5. \A x \in node : /\ Adjusted(x, v - init_window) <= MaxWindow
                          /\ Adjusted(x, v - init_window) - num[x].send_window <= v - init_window
      BY <2>2, <2>3 DEF Adjusted
    <2>6. \A x \in node : /\ Win'[x] <= MaxWindow
                          /\ Win'[x] - Win[x] <= init_window' - init_window
      BY <1>0, <2>1, <2>4, <2>5 DEF Win
    <2>7. Win' = [x \in Streams |-> IF x \in node THEN Win'[x] ELSE 0]
      BY <2>1 DEF Win
    <2>8. StreamWindows!Settings
      BY <2>1, <2>2, <2>6, <2>7 DEF StreamWindows!Settings, Win
    <2> QED BY <2>8 DEF StreamWindows!Next
  <1>5. ASSUME \/ \E v \in FrameSizes : SettingsFrameSize(v)
               \/ PingFrame \/ GoawayFrame \/ IdleFrame
        PROVE  StreamWindows!Next
    <2>1. UNCHANGED <<node, num, send_window, init_window>>
      BY <1>5 DEF SettingsFrameSize, PingFrame, GoawayFrame, IdleFrame
    <2> QED BY <2>1, KeptCloses DEF Kept
  <1> QED BY <1>1, <1>2, <1>3, <1>4, <1>5 DEF ControlFrames

\* The read callback, check_write_wait among its steps.
LEMMA ReadSideContract ==
  ASSUME FlowInv, ReadSide
  PROVE  StreamWindows!Next
  <1>1. CASE HeaderFrames BY <1>1, HeaderFramesContract
  <1>2. CASE DataFrames BY <1>2, DataFramesContract
  <1>3. CASE ControlFrames BY <1>3, ControlFramesContract
  <1>4. ASSUME NEW s \in Streams, check_write_wait(s)
        PROVE  StreamWindows!Next
    <2>1. UNCHANGED <<node, init_window>> BY <1>4 DEF check_write_wait
    <2>2. CASE UNCHANGED <<send_window, num>> BY <2>1, <2>2, KeptCloses DEF Kept
    <2>3. CASE /\ write_wait[s] = "WINDOW"
               /\ on_write_window_ready(s, num[s].send_window, num[s].wait_len,
                                        Has(s, "sendfile"))
      <3>1. /\ num[s].send_window \in Int /\ num[s].wait_len \in Nat
            /\ num[s].send_window <= MaxWindow
        BY DEF FlowInv, TypeOK, NumType, StreamNum, WindowsInRange
      <3>2. s \in node BY <2>3 DEF FlowInv, TreeInv, Waits
      <3>3. num[s].send_window + 0 = num[s].send_window BY <3>1
      <3> QED BY <2>1, <2>3, <3>1, <3>2, <3>3, GrantSends
    <2> QED BY <1>4, <2>2, <2>3 DEF check_write_wait
  <1>5. ASSUME NEW idle \in BOOLEAN, StartRead(idle)
        PROVE  StreamWindows!Next
    <2>1. close(TRUE) \/ UNCHANGED <<node, num, send_window, init_window>>
      BY <1>5 DEF StartRead
    <2> QED BY <2>1, CloseKept, KeptCloses DEF Kept
  <1>6. ASSUME \/ \E s \in Streams : check_stream_timeout(s)
               \/ ReadTimeoutPing \/ ReadTimeoutShutdown
        PROVE  StreamWindows!Next
    <2>1. UNCHANGED <<node, num, send_window, init_window>>
      BY <1>6 DEF check_stream_timeout, ReadTimeoutPing, ReadTimeoutShutdown
    <2> QED BY <2>1, KeptCloses DEF Kept
  <1>7. CASE ReadError BY <1>7, CloseKept, KeptCloses DEF ReadError
  <1> QED BY <1>1, <1>2, <1>3, <1>4, <1>5, <1>6, <1>7 DEF ReadSide

\* The write callback moves no window; it may delete the connection.
LEMMA WriteSideContract ==
  ASSUME FlowInv, WriteSide
  PROVE  StreamWindows!Next
  <1>1. ASSUME NEW n \in 1..Len(write_buffer), WriteDone(n)
        PROVE  StreamWindows!Next
    <2> DEFINE gone == can_destroy(processing, read_processing, GoesOnWriting(n))
               last == IF gone THEN LastContexts ELSE {}
    <2>1. /\ node' = node \ last /\ UNCHANGED <<send_window, init_window>>
          /\ num' = [x \in Streams |-> IF x \in last THEN NoNum ELSE num[x]]
      BY <1>1 DEF WriteDone
    <2> HIDE DEF last
    <2>2. Kept BY <2>1 DEF Kept, FlowInv, TypeOK, TreeType
    <2> QED BY <2>2, KeptCloses
  <1>2. CASE WriteError BY <1>2, CloseKept, KeptCloses DEF WriteError
  <1> QED BY <1>1, <1>2 DEF WriteSide

\* The calls of a request fiber: a write spends window, the end of the sink
\* closes the stream.
LEMMA FiberContract ==
  ASSUME FlowInv, NEW s \in Streams, Fiber(s)
  PROVE  StreamWindows!Next
  <1>0. num \in [Streams -> StreamNum] /\ node \subseteq Streams
    BY DEF FlowInv, TypeOK, NumType, TreeType
  <1>1. ASSUME NEW n \in WriteLens, NEW file \in BOOLEAN, Transmit(s, n, file), s \in live
        PROVE  StreamWindows!Next
    <2>1. s \in node /\ UNCHANGED <<node, init_window>>
      BY <1>1 DEF Transmit, FlowInv, TreeInv
    <2>2. CASE UNCHANGED <<send_window, num>> BY <2>1, <2>2, KeptCloses DEF Kept
    <2>3. CASE on_write_window_ready(s, num[s].send_window, n, file)
      <3>1. num[s].send_window \in Int /\ num[s].send_window <= MaxWindow /\ n \in Nat
        BY <1>0, SizesAssumption DEF StreamNum, FlowInv, WindowsInRange
      <3>2. num[s].send_window + 0 = num[s].send_window BY <3>1
      <3> QED BY <2>1, <2>3, <3>1, <3>2, GrantSends
    <2> QED BY <1>1, <2>2, <2>3 DEF Transmit
  <1>2. ASSUME \/ \E rl \in ReadLens : Read(s, rl)
               \/ \E b \in BodySizes : StartResponse(s, b)
               \/ \E n \in TimeoutCounts : SetTimeOut(s, n)
        PROVE  StreamWindows!Next
    <2>1. UNCHANGED <<node, send_window, init_window>>
      BY <1>2 DEF Read, StartResponse, SetTimeOut
    <2>2. \A x \in Streams : num'[x].send_window = num[x].send_window
      <3>1. ASSUME NEW rl \in ReadLens, Read(s, rl)
            PROVE  \A x \in Streams : num'[x].send_window = num[x].send_window
        BY <1>0, <3>1 DEF Read, StreamNum
      <3>2. ASSUME NEW b \in BodySizes, StartResponse(s, b)
            PROVE  \A x \in Streams : num'[x].send_window = num[x].send_window
        BY <1>0, <3>2 DEF StartResponse, StreamNum
      <3>3. ASSUME NEW n \in TimeoutCounts, SetTimeOut(s, n)
            PROVE  \A x \in Streams : num'[x].send_window = num[x].send_window
        BY <1>0, <3>3 DEF SetTimeOut, StreamNum
      <3> QED BY <1>2, <3>1, <3>2, <3>3
    <2> QED BY <1>0, <2>1, <2>2, KeptCloses DEF Kept
  <1>3. ASSUME \/ AddHeader(s) \/ Continue100(s) \/ ResponseTrailer(s)
               \/ ReadHup(s) \/ RemoveReadHup(s) \/ Shutdown(s)
        PROVE  StreamWindows!Next
    <2>1. UNCHANGED <<node, num, send_window, init_window>>
      BY <1>3 DEF AddHeader, Continue100, ResponseTrailer, ReadHup, RemoveReadHup, Shutdown
    <2> QED BY <2>1, KeptCloses DEF Kept
  <1>4. ASSUME NEW e \in BOOLEAN, Finish(s, e)
        PROVE  StreamWindows!Next
    <2>1. UNCHANGED <<send_window, init_window>> BY <1>4 DEF Finish
    <2>2. PICK gone \in BOOLEAN, last \in SUBSET Streams, more \in SUBSET Flags :
            FinishOutline(s, gone, last, more)
      BY <1>4, FinishShape
    <2>3. Kept BY <1>0, <2>1, <2>2 DEF FinishOutline, Kept
    <2> QED BY <2>3, KeptCloses
  <1> QED BY <1>1, <1>2, <1>3, <1>4 DEF Fiber, Write, Sendfile, Running

\* A connection starts as SendWindow does.
LEMMA InitContract == Init => StreamWindows!Init
  BY DEF Init, StreamWindows!Init

\* Every step is one of SendWindow, or changes nothing it speaks of.
LEMMA NextContract ==
  ASSUME FlowInv, [Next]_vars
  PROVE  [StreamWindows!Next]_(StreamWindows!vars)
  <1>1. CASE ReadSide BY <1>1, ReadSideContract
  <1>2. CASE WriteSide BY <1>2, WriteSideContract
  <1>3. ASSUME NEW s \in Streams, Fiber(s) PROVE StreamWindows!Next
    BY <1>3, FiberContract
  <1>4. CASE (\E S \in SUBSET Streams : Elapse(S)) \/ UNCHANGED vars
    <2>1. UNCHANGED <<node, num, send_window, init_window>> BY <1>4 DEF Elapse, vars
    <2>2. Kept BY <2>1 DEF Kept
    <2> QED BY <2>2, KeptCloses
  <1> QED BY <1>1, <1>2, <1>3, <1>4 DEF Next, Gone

\* For every number of streams and all windows, KHttp2 keeps the contract of
\* flow control: what on_write_window_ready lets a writer send is covered by
\* the stream's and the connection's window and taken off both, and
\* state_window_update and adjust_windows add no more than the peer granted.
THEOREM ContractKept == Spec => KeepsContract
  <1>1. Init => StreamWindows!Init BY InitContract
  <1>2. FlowInv /\ [Next]_vars => [StreamWindows!Next]_(StreamWindows!vars)
    BY NextContract
  <1> QED BY <1>1, <1>2, FlowCorrect, PTL DEF Spec, KeepsContract, StreamWindows!Spec
=============================================================================
