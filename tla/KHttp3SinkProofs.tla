-------------------------- MODULE KHttp3SinkProofs --------------------------
(***************************************************************************)
(* A sink of HTTP/3 and its stream may end in any order, for requests of   *)
(* any length, answers of any size and every fault of the library.         *)
(*                                                                         *)
(* The first part, LifeInv, is about lifetimes.  That lsquic holds no sink *)
(* that is gone needs to know that a request being processed says so in    *)
(* its flags (on_close asks them), and that a waiting fiber is one that    *)
(* will be called needs to know that on_read with st = NULL is the first   *)
(* one.  The second part, ExactInv, follows the bytes: what content_left   *)
(* still counts, what write_all holds and what the peer has got, also      *)
(* while a result lies in the condition and the fiber has not run.         *)
(***************************************************************************)
EXTENDS KHttp3Sink, TLAPS

Flags == {"RREADY", "PROCESSING", "READ", "WRITE", "HEADER_SENT"}
WriteWaits == {"head", "continue", "write"}
Alive == {"run", "read", "head", "continue", "write"}    \* the fiber is there

StreamRec == [ctx: BOOLEAN, want: SUBSET {"read", "write"}, coming: Nat, arrived: Nat,
              open: BOOLEAN]
SinkRec == [alive: BOOLEAN, st: BOOLEAN, flags: SUBSET Flags, left: Int]
NoticeRec == [read: Int, write: Int]
WriteRec == [kind: {"str", "buf"}, length: Int, hot: Int, ask: Nat, done: Int, ret: Int]
RqRec == [expect: BOOLEAN, started: BOOLEAN, failed: BOOLEAN, calls: Nat]
PeerRec == [heads: Int, bytes: Nat, size: Int, end: {"no", "reset", "fin"}]

TypeOK ==
  /\ stream \in StreamRec /\ sink \in SinkRec /\ notice \in NoticeRec
  /\ w \in WriteRec /\ rq \in RqRec /\ peer \in PeerRec
  /\ pc \in Alive \cup {"none", "done"}

\* A fiber and its sink say so to each other, and the stream has its sink until
\* one of the two ends.
Bound ==
  /\ pc \in Alive => "PROCESSING" \in sink.flags
  /\ pc = "none" => ~sink.st
  /\ pc = "done" => ~stream.ctx
  /\ stream.ctx /\ pc # "none" => sink.st

LifeInv == TypeOK /\ Bound /\ NoFreedSink /\ FiberHasSink /\ WaiterRegistered

-----------------------------------------------------------------------------
(* What the operators the calls are made of return.                        *)

\* The sink changed in its flags and in content_left only.
OnlyFlags(sk) ==
  /\ sk \in SinkRec /\ sk.alive = sink.alive /\ sk.st = sink.st
  /\ ("PROCESSING" \in sk.flags <=> "PROCESSING" \in sink.flags)

\* A stream as before, but for what it is wanted for and what has been read.
OnlyWants ==
  /\ stream' \in StreamRec /\ stream'.ctx = stream.ctx /\ stream'.open = stream.open

LEMMA WantRegisters ==
  ASSUME TypeOK, NEW op \in {"read", "write"}, NEW waits, NEW sk, NEW nt,
         OnlyFlags(sk), Want(op, waits, sk, nt)
  PROVE  /\ notice' = nt /\ OnlyWants /\ OnlyFlags(sink') /\ sink'.left = sk.left
         /\ \/ /\ pc' = waits /\ op \in stream'.want
               /\ sink'.flags = sk.flags \cup {IF op = "read" THEN "READ" ELSE "WRITE"}
            \/ pc' = "run" /\ sink' = sk
  <1>1. CASE pc' = waits /\ stream' = [stream EXCEPT !.want = @ \cup {op}]
             /\ sink' = [sk EXCEPT !.flags = @ \cup {IF op = "read" THEN "READ" ELSE "WRITE"}]
             /\ notice' = nt
    <2>1. OnlyWants /\ op \in stream'.want BY <1>1 DEF TypeOK, StreamRec, OnlyWants
    <2>2. sink' = [alive |-> sk.alive, st |-> sk.st, left |-> sk.left,
                   flags |-> sk.flags \cup {IF op = "read" THEN "READ" ELSE "WRITE"}]
      BY <1>1 DEF OnlyFlags, SinkRec
    <2>3. OnlyFlags(sink') BY <2>2 DEF OnlyFlags, SinkRec, Flags
    <2> QED BY <1>1, <2>1, <2>2, <2>3
  <1>2. CASE pc' = "run" /\ sink' = sk /\ UNCHANGED stream /\ notice' = nt
    BY <1>2 DEF TypeOK, OnlyWants
  <1> QED BY <1>1, <1>2 DEF Want

LEMMA DeliverNotices ==
  ASSUME TypeOK, NEW nt \in NoticeRec, NEW got \in ReadvResults, Deliver(got, nt)
  PROVE  /\ OnlyWants /\ stream'.want = stream.want \ {"read"}
         /\ notice' = [read |-> got, write |-> nt.write]
         /\ got \in Int /\ got # None
  <1>1. got \in Int /\ got >= -1 /\ (got > 0 => got <= stream.arrived)
    BY DEF ReadvResults, TypeOK, StreamRec
  <1>2. stream.arrived - Taken(got) \in Nat BY <1>1 DEF Taken, TypeOK, StreamRec
  <1>3. stream' = [ctx |-> stream.ctx, want |-> stream.want \ {"read"}, coming |-> stream.coming,
                   arrived |-> stream.arrived - Taken(got), open |-> stream.open]
    BY DEF Deliver, TypeOK, StreamRec
  <1>4. OnlyWants /\ stream'.want = stream.want \ {"read"}
    BY <1>2, <1>3 DEF OnlyWants, TypeOK, StreamRec
  <1>5. notice' = [read |-> got, write |-> nt.write] BY DEF Deliver, NoticeRec
  <1> QED BY <1>1, <1>4, <1>5 DEF None

LEMMA InternalReadWaits ==
  ASSUME TypeOK, NEW sk, NEW nt \in NoticeRec, OnlyFlags(sk), InternalRead(sk, nt)
  PROVE  /\ OnlyWants /\ OnlyFlags(sink') /\ sink'.left = sk.left
         /\ sink'.flags \cap {"WRITE", "HEADER_SENT"} = sk.flags \cap {"WRITE", "HEADER_SENT"}
         /\ notice' \in NoticeRec /\ notice'.write = nt.write
         /\ \/ pc' = "run"
            \/ pc' = "read" /\ ("read" \in stream'.want \/ notice'.read # None)
  <1>1. CASE ~sk.st /\ pc' = "run" /\ sink' = sk /\ notice' = nt /\ UNCHANGED stream
    BY <1>1 DEF TypeOK, OnlyWants
  <1>2. CASE /\ \E got \in ReadvResults : Deliver(got, nt)
             /\ sink' = [sk EXCEPT !.flags = (@ \ {"RREADY"}) \cup {"READ"}]
             /\ pc' = "read"
    <2>1. sink' = [alive |-> sk.alive, st |-> sk.st, left |-> sk.left,
                   flags |-> (sk.flags \ {"RREADY"}) \cup {"READ"}]
      BY <1>2 DEF OnlyFlags, SinkRec
    <2>2. OnlyFlags(sink') BY <2>1 DEF OnlyFlags, SinkRec, Flags
    <2>3. OnlyWants /\ notice' \in NoticeRec /\ notice'.write = nt.write /\ notice'.read # None
      BY <1>2, DeliverNotices DEF NoticeRec
    <2> QED BY <1>2, <2>1, <2>2, <2>3
  <1>3. CASE Want("read", "read", sk, nt)
    BY <1>3, WantRegisters
  <1> QED BY <1>1, <1>2, <1>3 DEF InternalRead

-----------------------------------------------------------------------------
(* Lifetimes.                                                              *)

LEMMA InitLife == ASSUME BoundsAssumption, Init PROVE LifeInv
  <1>1. PICK n \in 0..MaxBody :
          stream = [ctx |-> TRUE, want |-> {"read"}, coming |-> n, arrived |-> 0, open |-> TRUE]
    BY DEF Init
  <1>2. PICK e \in Expects :
          rq = [expect |-> e, started |-> FALSE, failed |-> FALSE, calls |-> 0]
    BY DEF Init
  <1>3. n \in Nat /\ e \in BOOLEAN BY DEF BoundsAssumption
  <1>4. TypeOK
    BY <1>1, <1>2, <1>3 DEF Init, TypeOK, StreamRec, SinkRec, NoticeRec, WriteRec, RqRec, PeerRec,
       None, NoWrite, Alive
  <1> QED
    BY <1>1, <1>4 DEF Init, LifeInv, Bound, NoFreedSink, FiberHasSink, WaiterRegistered, Alive

\* A step of the fiber that leaves the sink there, and leaves a wish or an answer
\* behind when it waits.
FiberStep ==
  /\ pc \in Alive /\ pc' \in Alive
  /\ OnlyWants /\ OnlyFlags(sink')
  /\ notice' \in NoticeRec /\ w' \in WriteRec /\ rq' \in RqRec /\ peer' \in PeerRec
  /\ pc' = "read" => "read" \in stream'.want \/ notice'.read # None
  /\ pc' \in WriteWaits => "write" \in stream'.want \/ notice'.write # None

LEMMA FiberStepLife == ASSUME LifeInv, FiberStep PROVE LifeInv'
  <1> USE DEF LifeInv
  <1>1. TypeOK' BY DEF FiberStep, TypeOK, OnlyWants, OnlyFlags, Alive
  <1>2. Bound' /\ NoFreedSink' /\ FiberHasSink'
    BY DEF FiberStep, OnlyWants, OnlyFlags, Bound, NoFreedSink, FiberHasSink, Alive
  <1>3. WaiterRegistered' BY DEF FiberStep, WaiterRegistered, WriteWaits
  <1> QED BY <1>1, <1>2, <1>3

LEMMA ReadLife == ASSUME LifeInv, Read PROVE LifeInv'
  <1> USE DEF LifeInv
  <1>1. rq' = [expect |-> FALSE, started |-> rq.started, failed |-> rq.failed, calls |-> rq.calls + 1]
    BY DEF Read, Calling, TypeOK, RqRec
  <1>2. rq' \in RqRec BY <1>1 DEF TypeOK, RqRec
  <1>3. OnlyFlags(sink) /\ notice \in NoticeRec BY DEF OnlyFlags, TypeOK
  <1>4. CASE InternalRead(sink, notice)
    <2>1. FiberStep
      BY <1>2, <1>3, <1>4, InternalReadWaits DEF Read, Call, Running, FiberStep, TypeOK, Alive, WriteWaits
    <2> QED BY <2>1, FiberStepLife
  <1>5. CASE Continue
    <2> DEFINE sk == [sink EXCEPT !.left = 0]
    <2>1. sk = [alive |-> sink.alive, st |-> sink.st, flags |-> sink.flags, left |-> 0]
      BY DEF TypeOK, SinkRec
    <2>2. OnlyFlags(sk) BY <2>1 DEF OnlyFlags, TypeOK, SinkRec
    <2>3. CASE InternalRead(sk, notice)
      <3>1. FiberStep
        BY <1>2, <1>3, <2>2, <2>3, InternalReadWaits
           DEF Read, Call, Running, FiberStep, TypeOK, Alive, WriteWaits
      <3> QED BY <3>1, FiberStepLife
    <2>4. CASE /\ stream' = [stream EXCEPT !.want = @ \cup {"write"}] /\ UNCHANGED notice
               /\ pc' = "continue" /\ sink' = [sk EXCEPT !.flags = @ \cup {"WRITE"}]
      <3>1. Want("write", "continue", sk, notice) BY <2>4 DEF Want
      <3>2. FiberStep
        BY <1>2, <1>3, <2>2, <2>4, <3>1, WantRegisters
           DEF Read, Call, Running, FiberStep, TypeOK, Alive, WriteWaits
      <3> QED BY <3>2, FiberStepLife
    <2> QED BY <1>4, <1>5, <2>3, <2>4 DEF Continue
  <1> QED BY <1>4, <1>5 DEF Read

LEMMA StartResponseLife == ASSUME BoundsAssumption, LifeInv, StartResponse PROVE LifeInv'
  <1> USE DEF LifeInv
  <1>1. PICK size \in Sizes : StartHead(size) /\ peer' = [peer EXCEPT !.size = size]
    BY DEF StartResponse
  <1>2. size \in Int BY DEF BoundsAssumption
  <1>3. peer' = [heads |-> peer.heads, bytes |-> peer.bytes, size |-> size, end |-> peer.end]
    BY <1>1 DEF TypeOK, PeerRec
  <1>4. peer' \in PeerRec BY <1>2, <1>3 DEF TypeOK, PeerRec
  <1>5. rq' = [expect |-> rq.expect, started |-> TRUE, failed |-> pc' = "run", calls |-> rq.calls + 1]
    BY DEF StartResponse, Calling, TypeOK, RqRec
  <1>6. rq' \in RqRec BY <1>5 DEF TypeOK, RqRec
  <1> DEFINE sk == [sink EXCEPT !.left = size]
  <1>7. sk = [alive |-> sink.alive, st |-> sink.st, flags |-> sink.flags, left |-> size]
    BY DEF TypeOK, SinkRec
  <1>8. OnlyFlags(sk) BY <1>2, <1>7 DEF OnlyFlags, TypeOK, SinkRec
  <1>9. FiberStep
    <2>1. CASE Want("write", "head", sk, notice)
      BY <1>4, <1>6, <1>8, <2>1, WantRegisters
         DEF StartResponse, Call, Running, FiberStep, TypeOK, Alive, WriteWaits
    <2>2. CASE pc' = "run" /\ UNCHANGED <<stream, sink, notice>>
      BY <1>4, <1>6, <2>2
         DEF StartResponse, Call, Running, FiberStep, TypeOK, Alive, WriteWaits, OnlyWants, OnlyFlags
    <2> QED BY <1>1, <2>1, <2>2 DEF StartHead
  <1> QED BY <1>9, FiberStepLife

\* What a write_all holds after a step of InternalWrite.
LEMMA InternalWriteWaits ==
  ASSUME TypeOK, NEW x \in WriteRec, NEW sk, NEW nt \in NoticeRec, OnlyFlags(sk),
         InternalWrite(x, sk, nt)
  PROVE  /\ notice' = nt /\ OnlyWants /\ OnlyFlags(sink') /\ sink'.left = sk.left
         /\ \/ /\ pc' = "write" /\ "write" \in stream'.want /\ w' = x
               /\ sink'.flags = sk.flags \cup {"WRITE"}
            \/ pc' = "run" /\ sink' = sk /\ w' = Return(x, x.length)
  <1>1. CASE /\ Want("write", "write", sk, nt)
             /\ w' = IF pc' = "write" THEN x ELSE Return(x, x.length)
    BY <1>1, WantRegisters
  <1>2. CASE /\ pc' = "run" /\ w' = Return(x, x.length)
             /\ sink' = sk /\ notice' = nt /\ UNCHANGED stream
    BY <1>2 DEF TypeOK, OnlyWants
  <1> QED BY <1>1, <1>2 DEF InternalWrite

LEMMA ReturnTyped ==
  ASSUME NEW x \in WriteRec, NEW ret \in Int
  PROVE  /\ Return(x, ret) \in WriteRec
         /\ Return(x, ret) = [kind |-> x.kind, length |-> 0, hot |-> 0, ask |-> x.ask,
                              done |-> x.done, ret |-> ret]
  <1>1. PICK y : y = Return(x, ret) OBVIOUS
  <1>2. y = [kind |-> x.kind, length |-> 0, hot |-> 0, ask |-> x.ask, done |-> x.done, ret |-> ret]
    BY <1>1 DEF Return, WriteRec
  <1>3. y \in WriteRec BY <1>2 DEF WriteRec
  <1> QED BY <1>1, <1>2, <1>3

LEMMA InternalWriteTyped ==
  ASSUME TypeOK, NEW x \in WriteRec, NEW sk, NEW nt \in NoticeRec, OnlyFlags(sk),
         InternalWrite(x, sk, nt)
  PROVE  w' \in WriteRec
  <1>1. x.length \in Int BY DEF WriteRec
  <1>2. w' = x \/ w' = Return(x, x.length) BY InternalWriteWaits
  <1> QED BY <1>1, <1>2, ReturnTyped

LEMMA PreparedTyped ==
  ASSUME BoundsAssumption, NEW x \in WriteRec, x.length > 0
  PROVE  /\ Prepared(x) \in WriteRec
         /\ Prepared(x).hot \in 1..x.length
         /\ Prepared(x).kind = x.kind /\ Prepared(x).ask = x.ask
         /\ Prepared(x).done = x.done /\ Prepared(x).ret = x.ret
         /\ Prepared(x).length = IF x.kind = "buf" THEN x.length - Prepared(x).hot ELSE x.length
         /\ x.kind = "str" => Prepared(x).hot = x.length
  <1> DEFINE hot == NextHot(x.kind, x.length)
  <1>1. hot \in 1..x.length /\ (x.kind = "str" => hot = x.length)
    BY DEF NextHot, BoundsAssumption, WriteRec
  <1>2. PICK y : y = Prepared(x) OBVIOUS
  <1>3. y = [x EXCEPT !.hot = hot, !.length = IF x.kind = "buf" THEN @ - hot ELSE @]
    BY <1>2 DEF Prepared
  <1> HIDE DEF hot
  <1>4. y = [kind |-> x.kind, ask |-> x.ask, done |-> x.done, ret |-> x.ret, hot |-> hot,
             length |-> IF x.kind = "buf" THEN x.length - hot ELSE x.length]
    BY <1>3 DEF WriteRec
  <1>5. hot \in Int /\ (IF x.kind = "buf" THEN x.length - hot ELSE x.length) \in Int
    BY <1>1 DEF WriteRec
  <1>6. y \in WriteRec BY <1>4, <1>5 DEF WriteRec
  <1> QED BY <1>1, <1>2, <1>4, <1>6

\* The write_all a handler begins.
NewWrite(kind, n) == [kind |-> kind, length |-> n, hot |-> 0, ask |-> n, done |-> 0, ret |-> 0]

LEMMA NewWriteTyped ==
  ASSUME NEW kind \in {"str", "buf"}, NEW n \in Nat
  PROVE  NewWrite(kind, n) \in WriteRec
  BY DEF NewWrite, WriteRec

LEMMA WriteAllLife == ASSUME BoundsAssumption, LifeInv, WriteAll PROVE LifeInv'
  <1> USE DEF LifeInv
  <1>1. PICK n \in 1..MaxAsk, kind \in Kinds :
          InternalWrite(Prepared([kind |-> kind, length |-> n, hot |-> 0, ask |-> n,
                                  done |-> 0, ret |-> 0]), sink, notice)
    BY DEF WriteAll
  <1> DEFINE a == NewWrite(kind, n)
  <1>2. a \in WriteRec /\ a.length > 0
    <2>1. n \in Nat /\ n > 0 /\ kind \in {"str", "buf"} BY DEF BoundsAssumption
    <2>2. a.length = n BY DEF NewWrite
    <2> QED BY <2>1, <2>2, NewWriteTyped
  <1> HIDE DEF a
  <1>3. Prepared(a) \in WriteRec BY <1>2, PreparedTyped
  <1>4. OnlyFlags(sink) /\ notice \in NoticeRec BY DEF OnlyFlags, TypeOK
  <1>5. InternalWrite(Prepared(a), sink, notice) BY <1>1 DEF a, NewWrite
  <1>6. w' \in WriteRec BY <1>3, <1>4, <1>5, InternalWriteTyped
  <1>7. rq' = [expect |-> rq.expect, started |-> rq.started, failed |-> pc' = "run", calls |-> rq.calls + 1]
    BY DEF WriteAll, Calling, TypeOK, RqRec
  <1>8. rq' \in RqRec BY <1>7 DEF TypeOK, RqRec
  <1>9. FiberStep
    BY <1>3, <1>4, <1>5, <1>6, <1>8, InternalWriteWaits
       DEF WriteAll, Call, Running, FiberStep, TypeOK, Alive, WriteWaits
  <1> QED BY <1>9, FiberStepLife

\* How write_all goes on when the fiber wakes in internal_write: x is what it holds
\* then, sk the sink and nt the conditions.
GoesOn(x, sk, nt) ==
  IF notice.write > 0 /\ (x.hot > 0 \/ x.length > 0)
  THEN InternalWrite(IF x.hot > 0 THEN x ELSE Prepared(x), sk, nt)
  ELSE /\ w' = IF notice.write > 0 THEN Return(x, 0) ELSE Return(w, w.length)
       /\ pc' = "run" /\ sink' = sk /\ notice' = nt
       /\ UNCHANGED stream

LEMMA WriteDoneGoesOn ==
  ASSUME TypeOK, WriteDone
  PROVE  \E x \in WriteRec, sk \in SinkRec, nt \in NoticeRec :
           /\ x = [kind |-> w.kind, length |-> w.length - notice.write, hot |-> w.hot - notice.write,
                   ask |-> w.ask, done |-> w.done + notice.write, ret |-> w.ret]
           /\ OnlyFlags(sk) /\ sk.flags = sink.flags /\ sk.left = Accounted(notice.write)
           /\ nt = [read |-> notice.read, write |-> None]
           /\ GoesOn(x, sk, nt)
  <1> DEFINE x == [w EXCEPT !.length = @ - notice.write, !.hot = @ - notice.write,
                           !.done = @ + notice.write]
             sk == [sink EXCEPT !.left = Accounted(notice.write)]
             nt == [notice EXCEPT !.write = None]
             fx == [kind |-> w.kind, length |-> w.length - notice.write,
                    hot |-> w.hot - notice.write, ask |-> w.ask, done |-> w.done + notice.write,
                    ret |-> w.ret]
  <1>1. notice.write \in Int /\ notice.read \in Int BY DEF TypeOK, NoticeRec
  <1>2. GoesOn(x, sk, nt) BY Zenon DEF WriteDone, GoesOn
  <1>3. PICK y : y = x OBVIOUS
  <1>4. y = fx BY <1>1, <1>3 DEF TypeOK, WriteRec
  <1>5. y \in WriteRec BY <1>1, <1>4 DEF TypeOK, WriteRec
  <1>6. sk = [alive |-> sink.alive, st |-> sink.st, flags |-> sink.flags,
              left |-> Accounted(notice.write)]
    BY DEF TypeOK, SinkRec
  <1>7. Accounted(notice.write) \in Int BY <1>1 DEF Accounted, TypeOK, SinkRec
  <1>8. /\ sk \in SinkRec /\ OnlyFlags(sk)
        /\ sk.flags = sink.flags /\ sk.left = Accounted(notice.write)
    BY <1>6, <1>7 DEF OnlyFlags, TypeOK, SinkRec
  <1>9. nt = [read |-> notice.read, write |-> None] BY DEF TypeOK, NoticeRec
  <1>10. nt \in NoticeRec BY <1>1, <1>9 DEF NoticeRec, None
  <1>11. x \in WriteRec /\ x = fx BY <1>3, <1>4, <1>5
  <1> HIDE DEF x, sk, nt
  <1> QED BY <1>2, <1>8, <1>9, <1>10, <1>11, Zenon

LEMMA WriteDoneLife == ASSUME BoundsAssumption, LifeInv, WriteDone PROVE LifeInv'
  <1> USE DEF LifeInv
  <1>1. PICK x \in WriteRec, sk \in SinkRec, nt \in NoticeRec :
          OnlyFlags(sk) /\ GoesOn(x, sk, nt)
    BY WriteDoneGoesOn, Zenon
  <1>2. rq' = [expect |-> rq.expect, started |-> rq.started, calls |-> rq.calls,
               failed |-> pc' = "run" /\ (w'.ret # 0 \/ notice.write < 0)]
    BY DEF WriteDone, TypeOK, RqRec
  <1>3. rq' \in RqRec BY <1>2 DEF TypeOK, RqRec
  <1>4. CASE notice.write > 0 /\ (x.hot > 0 \/ x.length > 0)
             /\ InternalWrite(IF x.hot > 0 THEN x ELSE Prepared(x), sk, nt)
    <2> DEFINE y == IF x.hot > 0 THEN x ELSE Prepared(x)
    <2>1. y \in WriteRec BY <1>4, PreparedTyped
    <2> HIDE DEF y
    <2>2. InternalWrite(y, sk, nt) BY <1>4 DEF y
    <2>3. w' \in WriteRec BY <1>1, <2>1, <2>2, InternalWriteTyped
    <2>4. FiberStep
      BY <1>1, <1>3, <2>1, <2>2, <2>3, InternalWriteWaits
         DEF WriteDone, FiberStep, TypeOK, Alive, WriteWaits
    <2> QED BY <2>4, FiberStepLife
  <1>5. CASE w' = (IF notice.write > 0 THEN Return(x, 0) ELSE Return(w, w.length))
             /\ pc' = "run" /\ sink' = sk /\ notice' = nt /\ UNCHANGED stream
    <2>1. w.length \in Int /\ w \in WriteRec BY DEF TypeOK, WriteRec
    <2>2. w' \in WriteRec BY <1>5, <2>1, ReturnTyped
    <2>3. FiberStep
      BY <1>1, <1>3, <1>5, <2>2 DEF WriteDone, FiberStep, TypeOK, Alive, WriteWaits, OnlyWants
    <2> QED BY <2>3, FiberStepLife
  <1> QED BY <1>1, <1>4, <1>5 DEF GoesOn

LEMMA ReadDoneLife == ASSUME LifeInv, ReadDone PROVE LifeInv'
  <1> USE DEF LifeInv
  <1>1. notice' = [read |-> None, write |-> notice.write]
    BY DEF ReadDone, TypeOK, NoticeRec
  <1>2. notice' \in NoticeRec BY <1>1 DEF TypeOK, NoticeRec, None
  <1>3. FiberStep
    BY <1>2 DEF ReadDone, FiberStep, TypeOK, Alive, WriteWaits, OnlyWants, OnlyFlags
  <1> QED BY <1>3, FiberStepLife

LEMMA HeadDoneLife == ASSUME LifeInv, HeadDone PROVE LifeInv'
  <1> USE DEF LifeInv
  <1>1. notice' = [read |-> notice.read, write |-> None]
    BY DEF HeadDone, TypeOK, NoticeRec
  <1>2. notice' \in NoticeRec BY <1>1 DEF TypeOK, NoticeRec, None
  <1>3. rq' = [expect |-> rq.expect, started |-> rq.started, calls |-> rq.calls,
               failed |-> notice.write < 0]
    BY DEF HeadDone, TypeOK, RqRec
  <1>4. rq' \in RqRec BY <1>3 DEF TypeOK, RqRec
  <1>5. FiberStep
    BY <1>2, <1>4 DEF HeadDone, FiberStep, TypeOK, Alive, WriteWaits, OnlyWants, OnlyFlags
  <1> QED BY <1>5, FiberStepLife

LEMMA ContinueDoneLife == ASSUME LifeInv, ContinueDone PROVE LifeInv'
  <1> USE DEF LifeInv
  <1>1. PICK nt : nt = [notice EXCEPT !.write = None] OBVIOUS
  <1>2. nt = [read |-> notice.read, write |-> None] BY <1>1 DEF TypeOK, NoticeRec
  <1>3. nt \in NoticeRec BY <1>2 DEF TypeOK, NoticeRec, None
  <1>4. OnlyFlags(sink) BY DEF OnlyFlags, TypeOK
  <1>5. InternalRead(sink, nt) BY <1>1 DEF ContinueDone
  <1>6. FiberStep
    BY <1>3, <1>4, <1>5, InternalReadWaits
       DEF ContinueDone, FiberStep, TypeOK, Alive, WriteWaits
  <1> QED BY <1>6, FiberStepLife

LEMMA ArriveLife == ASSUME LifeInv, Arrive PROVE LifeInv'
  <1> USE DEF LifeInv
  <1>1. stream' = [ctx |-> stream.ctx, want |-> stream.want, coming |-> stream.coming - 1,
                   arrived |-> stream.arrived + 1, open |-> stream.open]
    BY DEF Arrive, TypeOK, StreamRec
  <1>2. stream.coming - 1 \in Nat /\ stream.arrived + 1 \in Nat
    BY DEF Arrive, TypeOK, StreamRec
  <1>3. stream' \in StreamRec BY <1>1, <1>2 DEF TypeOK, StreamRec
  <1> QED BY <1>1, <1>3 DEF Arrive, TypeOK, Bound, NoFreedSink, FiberHasSink, WaiterRegistered

LEMMA OnHeadersLife == ASSUME LifeInv, OnHeaders PROVE LifeInv'
  <1> USE DEF LifeInv
  <1>1. stream' = [ctx |-> stream.ctx, want |-> stream.want \ {"read"}, coming |-> stream.coming,
                   arrived |-> stream.arrived, open |-> stream.open]
    BY DEF OnHeaders, TypeOK, StreamRec
  <1>2. sink' = [alive |-> sink.alive, st |-> TRUE, left |-> sink.left,
                 flags |-> sink.flags \cup {"RREADY", "PROCESSING"}]
    BY DEF OnHeaders, TypeOK, SinkRec
  <1>3. pc = "none" /\ pc' = "run" /\ stream.ctx
    BY DEF OnHeaders, Called, Bound, TypeOK, Alive
  <1>4. TypeOK'
    <2>1. stream' \in StreamRec BY <1>1 DEF TypeOK, StreamRec
    <2>2. sink' \in SinkRec BY <1>2 DEF TypeOK, SinkRec, Flags
    <2> QED BY <1>3, <2>1, <2>2 DEF OnHeaders, TypeOK, Alive
  <1>5. Bound' /\ NoFreedSink' /\ FiberHasSink' /\ WaiterRegistered'
    BY <1>1, <1>2, <1>3 DEF Bound, NoFreedSink, FiberHasSink, WaiterRegistered, Alive
  <1> QED BY <1>4, <1>5

\* A callback that answers the fiber that waits.
Answers ==
  /\ stream' \in StreamRec /\ stream'.ctx = stream.ctx
  /\ OnlyFlags(sink') /\ notice' \in NoticeRec /\ peer' \in PeerRec
  /\ UNCHANGED <<pc, w, rq>>
  /\ "read" \in stream.want => "read" \in stream'.want \/ notice'.read # None
  /\ "write" \in stream.want => "write" \in stream'.want \/ notice'.write # None
  /\ notice.read # None => notice'.read # None
  /\ notice.write # None => notice'.write # None

LEMMA AnswersLife == ASSUME LifeInv, Answers PROVE LifeInv'
  <1> USE DEF LifeInv
  <1>1. TypeOK' BY DEF Answers, TypeOK, OnlyFlags
  <1>2. Bound' /\ NoFreedSink' /\ FiberHasSink'
    BY DEF Answers, OnlyFlags, Bound, NoFreedSink, FiberHasSink, Alive
  <1>3. WaiterRegistered' BY DEF Answers, WaiterRegistered
  <1> QED BY <1>1, <1>2, <1>3

LEMMA OnReadLife == ASSUME LifeInv, OnRead PROVE LifeInv'
  <1> USE DEF LifeInv
  <1>1. sink' = [alive |-> sink.alive, st |-> sink.st, left |-> sink.left,
                 flags |-> sink.flags \ {"RREADY", "READ"}]
    BY DEF OnRead, TypeOK, SinkRec
  <1>2. OnlyFlags(sink') BY <1>1 DEF OnlyFlags, TypeOK, SinkRec
  <1>3. PICK got \in ReadvResults : Deliver(got, notice) BY DEF OnRead
  <1>4. notice \in NoticeRec BY DEF TypeOK
  <1>5. /\ OnlyWants /\ stream'.want = stream.want \ {"read"}
        /\ notice' = [read |-> got, write |-> notice.write] /\ got \in Int /\ got # None
    BY <1>3, <1>4, DeliverNotices
  <1>6. Answers BY <1>2, <1>4, <1>5 DEF Answers, OnRead, OnlyWants, TypeOK, NoticeRec
  <1> QED BY <1>6, AnswersLife

\* What on_write delivers.
LEMMA OnWriteDelivers ==
  ASSUME TypeOK, OnWrite
  PROVE  /\ OnlyWants /\ stream'.want = stream.want \ {"write"}
         /\ "WRITE" \in sink.flags /\ stream.ctx
         /\ sink'.left = sink.left /\ sink'.st = sink.st
         /\ OnlyFlags(sink') /\ notice' \in NoticeRec /\ peer' \in PeerRec
         /\ notice'.read = notice.read /\ notice'.write # None
         /\ peer'.size = peer.size /\ peer'.end = peer.end
         /\ UNCHANGED <<pc, w, rq>>
         /\ \/ /\ "HEADER_SENT" \notin sink.flags
               /\ sink'.flags = (sink.flags \ {"WRITE"}) \cup {"HEADER_SENT"}
               /\ notice'.write \in {0, -1} /\ peer'.bytes = peer.bytes
            \/ /\ "HEADER_SENT" \in sink.flags /\ sink'.flags = sink.flags \ {"WRITE"}
               /\ notice'.write \in 1..w.hot \cup {-1}
               /\ peer'.bytes = peer.bytes + Taken(notice'.write)
  <1>1. stream' = [ctx |-> stream.ctx, want |-> stream.want \ {"write"}, coming |-> stream.coming,
                   arrived |-> stream.arrived, open |-> stream.open]
    BY DEF OnWrite, TypeOK, StreamRec
  <1>2. OnlyWants /\ stream'.want = stream.want \ {"write"}
    BY <1>1 DEF OnlyWants, TypeOK, StreamRec
  <1>3. CASE "HEADER_SENT" \notin sink.flags
    <2>1. PICK got \in {0, -1} :
            /\ sink' = [sink EXCEPT !.flags = (@ \ {"WRITE"}) \cup {"HEADER_SENT"}]
            /\ notice' = [notice EXCEPT !.write = got]
            /\ peer' = [peer EXCEPT !.heads = @ + 1 + got]
      BY <1>3 DEF OnWrite
    <2>2. sink' = [alive |-> sink.alive, st |-> sink.st, left |-> sink.left,
                   flags |-> (sink.flags \ {"WRITE"}) \cup {"HEADER_SENT"}]
      BY <2>1 DEF TypeOK, SinkRec
    <2>3. notice' = [read |-> notice.read, write |-> got] BY <2>1 DEF TypeOK, NoticeRec
    <2>4. peer' = [heads |-> peer.heads + 1 + got, bytes |-> peer.bytes, size |-> peer.size,
                   end |-> peer.end]
      BY <2>1 DEF TypeOK, PeerRec
    <2>5. OnlyFlags(sink') BY <2>2 DEF OnlyFlags, TypeOK, SinkRec, Flags
    <2>6. notice' \in NoticeRec /\ notice'.write # None BY <2>3 DEF TypeOK, NoticeRec, None
    <2>7. peer' \in PeerRec BY <2>4 DEF TypeOK, PeerRec
    <2> QED BY <1>2, <1>3, <2>2, <2>3, <2>4, <2>5, <2>6, <2>7 DEF OnWrite, Called
  <1>4. CASE "HEADER_SENT" \in sink.flags
    <2>1. PICK got \in 1..w.hot \cup {-1} :
            /\ sink' = [sink EXCEPT !.flags = @ \ {"WRITE"}]
            /\ notice' = [notice EXCEPT !.write = got]
            /\ peer' = [peer EXCEPT !.bytes = @ + Taken(got)]
      BY <1>4 DEF OnWrite
    <2>2. sink' = [alive |-> sink.alive, st |-> sink.st, left |-> sink.left,
                   flags |-> sink.flags \ {"WRITE"}]
      BY <2>1 DEF TypeOK, SinkRec
    <2>3. notice' = [read |-> notice.read, write |-> got] BY <2>1 DEF TypeOK, NoticeRec
    <2>4. peer' = [heads |-> peer.heads, bytes |-> peer.bytes + Taken(got), size |-> peer.size,
                   end |-> peer.end]
      BY <2>1 DEF TypeOK, PeerRec
    <2>5. OnlyFlags(sink') BY <2>2 DEF OnlyFlags, TypeOK, SinkRec, Flags
    <2>6. got \in Int /\ got # -2 BY DEF TypeOK, WriteRec
    <2>7. notice' \in NoticeRec /\ notice'.write # None BY <2>3, <2>6 DEF TypeOK, NoticeRec, None
    <2>8. peer.bytes + Taken(got) \in Nat BY <2>6 DEF Taken, TypeOK, PeerRec
    <2>9. peer' \in PeerRec BY <2>4, <2>8 DEF TypeOK, PeerRec
    <2> QED BY <1>2, <1>4, <2>2, <2>3, <2>4, <2>5, <2>7, <2>9 DEF OnWrite, Called
  <1> QED BY <1>3, <1>4

LEMMA OnWriteLife == ASSUME LifeInv, OnWrite PROVE LifeInv'
  <1>1. TypeOK BY DEF LifeInv
  <1>2. Answers BY <1>1, OnWriteDelivers DEF Answers, OnlyWants
  <1> QED BY <1>2, AnswersLife

LEMMA OnCloseLife == ASSUME LifeInv, OnClose PROVE LifeInv'
  <1> USE DEF LifeInv
  <1>1. stream' = [ctx |-> FALSE, want |-> {}, coming |-> stream.coming, arrived |-> stream.arrived,
                   open |-> FALSE]
    BY DEF OnClose, TypeOK, StreamRec
  <1>2. \/ sink' = sink
        \/ "PROCESSING" \in sink.flags /\ sink' = [sink EXCEPT !.st = FALSE]
        \/ "PROCESSING" \notin sink.flags /\ stream.ctx /\ sink' = [sink EXCEPT !.alive = FALSE]
    BY DEF OnClose, CloseSink
  <1>3. /\ sink' \in SinkRec /\ sink'.flags = sink.flags
        /\ sink'.st => sink.st
        /\ \/ sink'.alive = sink.alive
           \/ "PROCESSING" \notin sink.flags
    BY <1>2 DEF TypeOK, SinkRec
  <1>4. TypeOK' BY <1>1, <1>3 DEF OnClose, TypeOK, StreamRec
  <1>5. Bound' BY <1>1, <1>3, <1>4 DEF OnClose, Bound, TypeOK, SinkRec
  <1>6. NoFreedSink' /\ WaiterRegistered' BY <1>1 DEF NoFreedSink, WaiterRegistered
  <1>7. FiberHasSink' BY <1>3 DEF OnClose, FiberHasSink, Bound, TypeOK
  <1> QED BY <1>4, <1>5, <1>6, <1>7

LEMMA EndLife == ASSUME LifeInv, End PROVE LifeInv'
  <1> USE DEF LifeInv
  <1>1. sink' = [alive |-> FALSE, st |-> sink.st, left |-> sink.left,
                 flags |-> sink.flags \ {"PROCESSING"}]
    BY DEF End, TypeOK, SinkRec
  <1>2. stream' \in StreamRec /\ ~stream'.ctx
    <2>1. CASE sink.st
      <3>1. stream' = [ctx |-> FALSE, want |-> stream.want, coming |-> stream.coming,
                       arrived |-> stream.arrived, open |-> stream.open]
        BY <2>1 DEF End, Detached, TypeOK, StreamRec
      <3> QED BY <3>1 DEF TypeOK, StreamRec
    <2>2. CASE ~sink.st
      BY <2>2 DEF End, Bound, Running, TypeOK, StreamRec
    <2> QED BY <2>1, <2>2
  <1>3. peer' \in PeerRec
    <2>1. CASE sink.st
      <3>1. peer' = [heads |-> peer.heads, bytes |-> peer.bytes, size |-> peer.size, end |-> EndOf]
        BY <2>1 DEF End, TypeOK, PeerRec
      <3> QED BY <3>1 DEF EndOf, TypeOK, PeerRec
    <2> QED BY <2>1 DEF End, TypeOK
  <1>4. pc' = "done" BY DEF End
  <1>5. TypeOK' BY <1>1, <1>2, <1>3, <1>4 DEF End, TypeOK, SinkRec
  <1>6. Bound' /\ NoFreedSink' /\ FiberHasSink' /\ WaiterRegistered'
    BY <1>2, <1>4 DEF Bound, NoFreedSink, FiberHasSink, WaiterRegistered, Alive
  <1> QED BY <1>5, <1>6

LEMMA StepLife == ASSUME BoundsAssumption, LifeInv, [Next]_vars PROVE LifeInv'
  <1>1. CASE Arrive BY <1>1, ArriveLife
  <1>2. CASE OnHeaders BY <1>2, OnHeadersLife
  <1>3. CASE OnRead BY <1>3, OnReadLife
  <1>4. CASE OnWrite BY <1>4, OnWriteLife
  <1>5. CASE OnClose BY <1>5, OnCloseLife
  <1>6. CASE Read BY <1>6, ReadLife
  <1>7. CASE StartResponse BY <1>7, StartResponseLife
  <1>8. CASE WriteAll BY <1>8, WriteAllLife
  <1>9. CASE End BY <1>9, EndLife
  <1>10. CASE ReadDone BY <1>10, ReadDoneLife
  <1>11. CASE ContinueDone BY <1>11, ContinueDoneLife
  <1>12. CASE HeadDone BY <1>12, HeadDoneLife
  <1>13. CASE WriteDone BY <1>13, WriteDoneLife
  <1>14. CASE UNCHANGED vars
    BY <1>14 DEF vars, LifeInv, TypeOK, Bound, NoFreedSink, FiberHasSink, WaiterRegistered
  <1> QED BY <1>1, <1>2, <1>3, <1>4, <1>5, <1>6, <1>7, <1>8, <1>9, <1>10, <1>11, <1>12, <1>13, <1>14
          DEF Next, Callback, Handler, Resume

\* Whatever fails and in whatever order a sink and its stream end: lsquic holds no
\* sink that was deleted, the sink of a living fiber is not deleted, and a fiber that
\* waits is one lsquic will call back while the stream is there (~KHttp3Sink,
\* http_server_on_close, internal_read, internal_write).
THEOREM SinkOutlivesUse == ASSUME BoundsAssumption PROVE Spec => []SinkAlive
  <1>1. Init => LifeInv BY InitLife
  <1>2. LifeInv /\ [Next]_vars => LifeInv' BY StepLife
  <1>3. LifeInv => SinkAlive BY DEF LifeInv, SinkAlive
  <1> QED BY <1>1, <1>2, <1>3, PTL DEF Spec

-----------------------------------------------------------------------------
(* Bytes.  A request that does not ask for a 100 is assumed: after a 100   *)
(* the final header is refused, and content_left is that of the 100.       *)

\* What write_all still has to hand over, of its iovecs and of the list.
Outstanding(x) ==
  IF x.kind = "str" THEN x.hot ELSE x.hot + (IF x.length > 0 THEN x.length ELSE 0)

\* Only a fiber that waits to write has an answer or a flag for it.
Asked ==
  /\ ~rq.expect /\ pc # "continue"
  /\ pc \notin {"head", "write"} => notice.write = None /\ "WRITE" \notin sink.flags
  /\ pc \in {"head", "write"} => ("WRITE" \in sink.flags <=> notice.write = None)

\* Nothing is sent before the header, and bytes only once it is out.
Headed ==
  /\ ~rq.started => peer.bytes = 0 /\ "HEADER_SENT" \notin sink.flags /\ pc \notin {"head", "write"}
  /\ pc = "none" => ~rq.started
  /\ pc = "head" => /\ rq.started /\ ~rq.failed /\ peer.bytes = 0
                    /\ "HEADER_SENT" \in sink.flags <=> notice.write # None
  /\ pc = "write" => rq.started /\ ~rq.failed
  /\ rq.started /\ ~rq.failed /\ pc \in {"run", "read", "write"} => "HEADER_SENT" \in sink.flags

\* The write under way fits into what was announced.
Fits(x, left, sent) ==
  /\ x.hot > 0
  /\ x.kind = "str" => x.length = x.hot
  /\ peer.size >= 0 => left = peer.size - sent /\ sent + Outstanding(x) <= peer.size

Writing ==
  pc = "write" =>
    /\ notice.write \in {None, -1} \cup 1..w.hot
    /\ Fits(w, sink.left, peer.bytes - Taken(notice.write))

\* content_left counts what is missing.
Counted ==
  rq.started /\ peer.size >= 0 /\ pc \in {"run", "read", "head"} =>
    /\ peer.bytes <= peer.size
    /\ ~rq.failed => sink.left = peer.size - peer.bytes
    /\ sink.st => sink.left >= peer.size - peer.bytes

Ended == (pc # "done" => peer.end = "no") /\ CompleteOrReset

Exact == Asked /\ Headed /\ Writing /\ Counted /\ Ended
ExactInv == LifeInv /\ Exact

\* write_all of a string.
Told ==
  /\ w.kind = "str"
  /\ pc = "write" => w.ret = 0 /\ w.done + w.hot = w.ask
  /\ pc # "write" /\ w.ret = 0 => w.done = w.ask

LEMMA InitExact == ASSUME Expects \subseteq {FALSE}, Init PROVE Exact /\ Told
  <1>1. PICK e \in Expects :
          rq = [expect |-> e, started |-> FALSE, failed |-> FALSE, calls |-> 0]
    BY DEF Init
  <1>2. e = FALSE OBVIOUS
  <1> QED BY <1>1, <1>2 DEF Init, Exact, Asked, Headed, Writing, Counted, Ended, CompleteOrReset,
             Told, NoWrite

\* A step that moves no byte and no header.
QuietBytes ==
  /\ UNCHANGED <<w, peer>> /\ notice'.write = notice.write /\ sink'.left = sink.left
  /\ "WRITE" \in sink'.flags <=> "WRITE" \in sink.flags
  /\ "HEADER_SENT" \in sink'.flags <=> "HEADER_SENT" \in sink.flags
  /\ ~rq'.expect /\ rq'.started = rq.started /\ rq'.failed = rq.failed
  /\ sink'.st => sink.st
  /\ pc' = pc \/ (pc \in {"run", "read"} /\ pc' \in {"run", "read"})

LEMMA QuietExact == ASSUME ExactInv, QuietBytes PROVE Exact'
  <1> USE DEF ExactInv, Exact
  <1>1. Asked' BY DEF QuietBytes, Asked
  <1>2. Headed'
    <2>1. (notice'.write # None) <=> (notice.write # None) BY DEF QuietBytes
    <2>2. (rq'.started <=> rq.started) /\ (rq'.failed <=> rq.failed) BY DEF QuietBytes
    <2> QED BY <2>1, <2>2 DEF QuietBytes, Headed, Asked
  <1>3. Writing' BY DEF QuietBytes, Writing, Fits, Outstanding
  <1>4. Counted' BY DEF QuietBytes, Counted
  <1>5. Ended' BY DEF QuietBytes, Ended, CompleteOrReset
  <1> QED BY <1>1, <1>2, <1>3, <1>4, <1>5

LEMMA QuietTold == ASSUME Told, QuietBytes PROVE Told'
  BY DEF Told, QuietBytes

LEMMA ArriveQuiet == ASSUME ExactInv, Arrive PROVE QuietBytes
  BY DEF Arrive, QuietBytes, ExactInv, Exact, Asked

LEMMA OnReadQuiet == ASSUME ExactInv, OnRead PROVE QuietBytes
  <1>1. TypeOK BY DEF ExactInv, LifeInv
  <1>2. sink' = [alive |-> sink.alive, st |-> sink.st, left |-> sink.left,
                 flags |-> sink.flags \ {"RREADY", "READ"}]
    BY <1>1 DEF OnRead, TypeOK, SinkRec
  <1>3. PICK got \in ReadvResults : Deliver(got, notice) BY DEF OnRead
  <1>4. notice'.write = notice.write BY <1>1, <1>3, DeliverNotices DEF TypeOK
  <1> QED BY <1>2, <1>4 DEF OnRead, QuietBytes, ExactInv, Exact, Asked

LEMMA OnCloseQuiet == ASSUME ExactInv, OnClose PROVE QuietBytes
  <1>1. sink \in SinkRec BY DEF ExactInv, LifeInv, TypeOK
  <1>2. sink' = sink \/ sink' = [sink EXCEPT !.st = FALSE] \/ sink' = [sink EXCEPT !.alive = FALSE]
    BY DEF OnClose, CloseSink
  <1>3. sink'.left = sink.left /\ sink'.flags = sink.flags /\ (sink'.st => sink.st)
    BY <1>1, <1>2 DEF SinkRec
  <1> QED BY <1>3 DEF OnClose, QuietBytes, ExactInv, Exact, Asked

LEMMA ReadQuiet == ASSUME ExactInv, Read PROVE QuietBytes
  <1>1. TypeOK BY DEF ExactInv, LifeInv
  <1>2. ~rq.expect BY DEF ExactInv, Exact, Asked
  <1>3. InternalRead(sink, notice) BY <1>2 DEF Read
  <1>4. OnlyFlags(sink) /\ notice \in NoticeRec BY <1>1 DEF OnlyFlags, TypeOK
  <1>5. /\ OnlyFlags(sink') /\ sink'.left = sink.left
        /\ sink'.flags \cap {"WRITE", "HEADER_SENT"} = sink.flags \cap {"WRITE", "HEADER_SENT"}
        /\ notice'.write = notice.write /\ pc' \in {"run", "read"}
    BY <1>1, <1>3, <1>4, InternalReadWaits
  <1>6. rq' = [expect |-> FALSE, started |-> rq.started, failed |-> rq.failed, calls |-> rq.calls + 1]
    BY <1>1 DEF Read, Calling, TypeOK, RqRec
  <1>7. ("WRITE" \in sink'.flags <=> "WRITE" \in sink.flags)
        /\ ("HEADER_SENT" \in sink'.flags <=> "HEADER_SENT" \in sink.flags)
    BY <1>5
  <1> QED BY <1>5, <1>6, <1>7 DEF Read, Call, Running, QuietBytes, OnlyFlags

LEMMA ReadDoneQuiet == ASSUME ExactInv, ReadDone PROVE QuietBytes
  <1>1. notice \in NoticeRec BY DEF ExactInv, LifeInv, TypeOK
  <1>2. notice'.write = notice.write BY <1>1 DEF ReadDone, NoticeRec
  <1> QED BY <1>2 DEF ReadDone, QuietBytes, ExactInv, Exact, Asked

LEMMA OnHeadersExact == ASSUME ExactInv, OnHeaders PROVE Exact' /\ (Told => Told')
  <1>1. TypeOK /\ Bound /\ Exact BY DEF ExactInv, LifeInv
  <1>2. sink' = [alive |-> sink.alive, st |-> TRUE, left |-> sink.left,
                 flags |-> sink.flags \cup {"RREADY", "PROCESSING"}]
    BY <1>1 DEF OnHeaders, TypeOK, SinkRec
  <1>3. pc = "none" /\ pc' = "run"
    BY <1>1 DEF OnHeaders, Called, Bound, TypeOK, Alive
  <1>4. ~rq.started /\ UNCHANGED <<notice, w, rq, peer>> BY <1>1, <1>3 DEF OnHeaders, Exact, Headed
  <1>5. Asked' /\ Headed' BY <1>1, <1>2, <1>3, <1>4 DEF Exact, Asked, Headed
  <1>6. Writing' /\ Counted' BY <1>3, <1>4 DEF Writing, Counted
  <1>7. Ended' BY <1>1, <1>3, <1>4 DEF Exact, Ended, CompleteOrReset
  <1>8. Told => Told' BY <1>3, <1>4 DEF Told
  <1> QED BY <1>5, <1>6, <1>7, <1>8 DEF Exact

LEMMA StartResponseExact ==
  ASSUME BoundsAssumption, ExactInv, StartResponse
  PROVE  Exact' /\ (Told => Told')
  <1>1. TypeOK /\ Exact BY DEF ExactInv, LifeInv
  <1>2. PICK size \in Sizes : StartHead(size) /\ peer' = [peer EXCEPT !.size = size]
    BY DEF StartResponse
  <1>3. size \in Int BY DEF BoundsAssumption
  <1>4. peer' = [heads |-> peer.heads, bytes |-> peer.bytes, size |-> size, end |-> peer.end]
    BY <1>1, <1>2 DEF TypeOK, PeerRec
  <1>5. rq' = [expect |-> rq.expect, started |-> TRUE, failed |-> pc' = "run", calls |-> rq.calls + 1]
    BY <1>1 DEF StartResponse, Calling, TypeOK, RqRec
  <1>6. /\ pc = "run" /\ ~rq.started /\ peer.bytes = 0 /\ "HEADER_SENT" \notin sink.flags
        /\ notice.write = None /\ "WRITE" \notin sink.flags /\ ~rq.expect /\ peer.end = "no"
        /\ w' = w
    BY <1>1 DEF StartResponse, Call, Running, Exact, Asked, Headed, Ended
  <1> DEFINE sk == [sink EXCEPT !.left = size]
  <1>7. sk = [alive |-> sink.alive, st |-> sink.st, flags |-> sink.flags, left |-> size]
    BY <1>1 DEF TypeOK, SinkRec
  <1>8. OnlyFlags(sk) BY <1>1, <1>3, <1>7 DEF OnlyFlags, TypeOK, SinkRec
  <1>9. CASE Want("write", "head", sk, notice)
    <2>1. /\ notice' = notice /\ sink'.left = size /\ sink'.st = sink.st
          /\ \/ pc' = "head" /\ sink'.flags = sink.flags \cup {"WRITE"}
             \/ pc' = "run" /\ sink' = sk
      BY <1>1, <1>7, <1>8, <1>9, WantRegisters DEF OnlyFlags
    <2>2. Asked' BY <1>5, <1>6, <1>7, <2>1 DEF Asked
    <2>3. Headed' BY <1>4, <1>5, <1>6, <1>7, <2>1 DEF Headed
    <2>4. Writing' BY <2>1 DEF Writing
    <2>5. Counted' BY <1>3, <1>4, <1>5, <1>6, <2>1 DEF Counted
    <2>6. Ended' BY <1>4, <1>6, <2>1 DEF Ended, CompleteOrReset
    <2>7. Told => Told' BY <1>6, <2>1 DEF Told
    <2> QED BY <2>2, <2>3, <2>4, <2>5, <2>6, <2>7 DEF Exact
  <1>10. CASE CannotStart /\ pc' = "run" /\ UNCHANGED <<stream, sink, notice>>
    <2>1. ~sink.st BY <1>6, <1>10 DEF CannotStart
    <2>2. Asked' BY <1>5, <1>6, <1>10 DEF Asked
    <2>3. Headed' BY <1>4, <1>5, <1>6, <1>10 DEF Headed
    <2>4. Writing' BY <1>10 DEF Writing
    <2>5. Counted' BY <1>3, <1>4, <1>5, <1>6, <1>10, <2>1 DEF Counted
    <2>6. Ended' BY <1>4, <1>6, <1>10 DEF Ended, CompleteOrReset
    <2>7. Told => Told' BY <1>6, <1>10 DEF Told
    <2> QED BY <2>2, <2>3, <2>4, <2>5, <2>6, <2>7 DEF Exact
  <1> QED BY <1>2, <1>9, <1>10 DEF StartHead

\* A write_all that goes on, or returns because it cannot: y is what it holds, sk the
\* sink and nt the conditions at this point of the step.
LEMMA WriteGoesOn ==
  ASSUME BoundsAssumption, TypeOK, Exact,
         NEW y \in WriteRec, NEW sk \in SinkRec, NEW nt \in NoticeRec, OnlyFlags(sk),
         InternalWrite(y, sk, nt),
         sk.flags = sink.flags, nt.write = None,
         pc \in {"run", "write"}, "WRITE" \notin sink.flags, "HEADER_SENT" \in sink.flags,
         rq.started, UNCHANGED peer, ~rq'.expect, rq'.started = rq.started,
         pc' = "write" => ~rq'.failed,
         Fits(y, sk.left, peer.bytes)
  PROVE  Exact'
  <1>1. /\ notice' = nt /\ sink'.left = sk.left /\ sink'.st = sk.st
        /\ \/ pc' = "write" /\ w' = y /\ sink'.flags = sink.flags \cup {"WRITE"}
           \/ pc' = "run" /\ sink' = sk
    BY InternalWriteWaits DEF OnlyFlags
  <1>2. Asked' BY <1>1 DEF Asked
  <1>3. Headed' BY <1>1 DEF Headed
  <1>4. Writing'
    <2> SUFFICES ASSUME pc' = "write" PROVE Fits(y, sk.left, peer.bytes - Taken(None)) /\ notice'.write = None
      BY <1>1 DEF Writing, Fits
    <2>1. Taken(None) = 0 BY DEF Taken, None
    <2>2. peer.bytes - Taken(None) = peer.bytes BY <2>1 DEF TypeOK, PeerRec
    <2> QED BY <1>1, <2>2
  <1>5. Counted'
    <2>1. peer.size >= 0 => peer.bytes <= peer.size /\ sk.left = peer.size - peer.bytes
      <3>1. Outstanding(y) > 0 BY DEF Fits, Outstanding, WriteRec
      <3>2. Outstanding(y) \in Int BY DEF Outstanding, WriteRec
      <3> QED BY <3>1, <3>2 DEF Fits, TypeOK, PeerRec
    <2> QED BY <1>1, <2>1 DEF Counted, TypeOK, PeerRec
  <1>6. Ended' BY <1>1 DEF Exact, Ended, CompleteOrReset
  <1> QED BY <1>2, <1>3, <1>4, <1>5, <1>6 DEF Exact

\* What fits is still what fits when its iovecs are made.
LEMMA PreparedFits ==
  ASSUME BoundsAssumption, TypeOK, NEW x \in WriteRec, x.length > 0,
         NEW left, NEW sent \in Int,
         peer.size >= 0 => left = peer.size - sent /\ sent + x.length <= peer.size
  PROVE  Fits(Prepared(x), left, sent)
  <1> DEFINE y == Prepared(x)
  <1>1. /\ y \in WriteRec /\ y.hot \in 1..x.length /\ y.kind = x.kind
        /\ y.length = IF x.kind = "buf" THEN x.length - y.hot ELSE x.length
        /\ x.kind = "str" => y.hot = x.length
    BY PreparedTyped
  <1> HIDE DEF y
  <1>2. x.length \in Int /\ x.kind \in {"str", "buf"} BY DEF WriteRec
  <1>3. Outstanding(y) = x.length BY <1>1, <1>2 DEF Outstanding
  <1>4. y.hot > 0 /\ (y.kind = "str" => y.length = y.hot) BY <1>1, <1>2
  <1> QED BY <1>3, <1>4 DEF Fits, y

LEMMA WriteAllExact ==
  ASSUME BoundsAssumption, ExactInv, WriteAll
  PROVE  Exact' /\ (Kinds \subseteq {"str"} /\ Told => Told')
  <1>1. TypeOK /\ Exact BY DEF ExactInv, LifeInv
  <1>2. PICK n \in 1..MaxAsk, kind \in Kinds :
          /\ peer.size < 0 \/ peer.bytes + n <= peer.size
          /\ InternalWrite(Prepared(NewWrite(kind, n)), sink, notice)
    BY DEF WriteAll, NewWrite
  <1> DEFINE a == NewWrite(kind, n)
             y == Prepared(a)
  <1>3. n \in Nat /\ n > 0 /\ kind \in {"str", "buf"} BY DEF BoundsAssumption
  <1>4. a.length = n /\ a.kind = kind /\ a.ask = n /\ a.done = 0 /\ a.ret = 0 BY DEF NewWrite
  <1>5. a \in WriteRec BY <1>3, NewWriteTyped
  <1>6. /\ pc = "run" /\ rq.started /\ ~rq.failed /\ UNCHANGED peer /\ ~rq.expect
        /\ notice.write = None /\ "WRITE" \notin sink.flags /\ "HEADER_SENT" \in sink.flags
    BY <1>1 DEF WriteAll, Call, Running, Exact, Asked, Headed
  <1>7. rq' = [expect |-> rq.expect, started |-> rq.started, failed |-> pc' = "run",
               calls |-> rq.calls + 1]
    BY <1>1 DEF WriteAll, Calling, TypeOK, RqRec
  <1>8. peer.size >= 0 => sink.left = peer.size - peer.bytes /\ peer.bytes + n <= peer.size
    BY <1>1, <1>2, <1>3, <1>6 DEF Exact, Counted, TypeOK, PeerRec
  <1>9. OnlyFlags(sink) /\ sink \in SinkRec /\ notice \in NoticeRec /\ peer.bytes \in Int
    BY <1>1 DEF OnlyFlags, TypeOK, PeerRec
  <1> HIDE DEF a
  <1>10. Fits(y, sink.left, peer.bytes)
    BY <1>1, <1>3, <1>4, <1>5, <1>8, <1>9, PreparedFits
  <1>11. /\ y \in WriteRec /\ y.kind = kind /\ y.ask = n /\ y.done = 0 /\ y.ret = 0
         /\ kind = "str" => y.hot = n /\ y.length = n
    BY <1>3, <1>4, <1>5, PreparedTyped
  <1>12. InternalWrite(y, sink, notice) BY <1>2 DEF a
  <1> HIDE DEF y
  <1>13. Exact'
    BY <1>1, <1>6, <1>7, <1>9, <1>10, <1>11, <1>12, WriteGoesOn
  <1>14. ASSUME Kinds \subseteq {"str"}, Told PROVE Told'
    <2>1. kind = "str" BY <1>14
    <2>2. \/ pc' = "write" /\ w' = y
          \/ pc' = "run" /\ w' = Return(y, y.length)
      BY <1>1, <1>9, <1>11, <1>12, InternalWriteWaits
    <2>3. n \in Int /\ y.length = n BY <1>3, <1>11, <2>1
    <2>4. Return(y, n) = [kind |-> y.kind, length |-> 0, hot |-> 0, ask |-> y.ask,
                          done |-> y.done, ret |-> n]
      BY <1>11, <2>3, ReturnTyped
    <2> QED BY <1>3, <1>11, <2>1, <2>2, <2>3, <2>4 DEF Told
  <1> QED BY <1>13, <1>14

LEMMA HeadDoneExact == ASSUME ExactInv, HeadDone PROVE Exact' /\ (Told => Told')
  <1>1. TypeOK /\ Exact BY DEF ExactInv, LifeInv
  <1>2. notice' = [read |-> notice.read, write |-> None]
    BY <1>1 DEF HeadDone, TypeOK, NoticeRec
  <1>3. rq' = [expect |-> rq.expect, started |-> rq.started, calls |-> rq.calls,
               failed |-> notice.write < 0]
    BY <1>1 DEF HeadDone, TypeOK, RqRec
  <1>4. /\ pc = "head" /\ pc' = "run" /\ UNCHANGED <<stream, sink, w, peer>>
        /\ rq.started /\ ~rq.failed /\ peer.bytes = 0 /\ ~rq.expect
        /\ "WRITE" \notin sink.flags /\ "HEADER_SENT" \in sink.flags
    BY <1>1 DEF HeadDone, Exact, Asked, Headed
  <1>5. Asked' /\ Headed' BY <1>2, <1>3, <1>4 DEF Asked, Headed
  <1>6. Writing' BY <1>4 DEF Writing
  <1>7. Counted' BY <1>1, <1>3, <1>4 DEF Exact, Counted
  <1>8. Ended' BY <1>1, <1>4 DEF Exact, Ended, CompleteOrReset
  <1>9. Told => Told' BY <1>4 DEF Told
  <1> QED BY <1>5, <1>6, <1>7, <1>8, <1>9 DEF Exact

LEMMA OnWriteExact == ASSUME ExactInv, OnWrite PROVE Exact' /\ (Told => Told')
  <1>1. TypeOK /\ Exact BY DEF ExactInv, LifeInv
  <1>2. /\ "WRITE" \in sink.flags /\ sink'.left = sink.left /\ sink'.st = sink.st
        /\ notice'.write # None /\ peer'.size = peer.size /\ peer'.end = peer.end
        /\ UNCHANGED <<pc, w, rq>>
        /\ \/ /\ "HEADER_SENT" \notin sink.flags
              /\ sink'.flags = (sink.flags \ {"WRITE"}) \cup {"HEADER_SENT"}
              /\ notice'.write \in {0, -1} /\ peer'.bytes = peer.bytes
           \/ /\ "HEADER_SENT" \in sink.flags /\ sink'.flags = sink.flags \ {"WRITE"}
              /\ notice'.write \in 1..w.hot \cup {-1}
              /\ peer'.bytes = peer.bytes + Taken(notice'.write)
    BY <1>1, OnWriteDelivers
  <1>3. pc \in {"head", "write"} /\ notice.write = None /\ rq.started /\ ~rq.failed
    BY <1>1, <1>2 DEF Exact, Asked, Headed
  <1>4. /\ pc = "head" => "HEADER_SENT" \notin sink.flags
        /\ pc = "write" => "HEADER_SENT" \in sink.flags
    BY <1>1, <1>3 DEF Exact, Headed
  <1>5. Asked' BY <1>1, <1>2, <1>3 DEF Exact, Asked
  <1>6. Headed' BY <1>1, <1>2, <1>3, <1>4 DEF Exact, Headed
  <1>7. Writing'
    <2> SUFFICES ASSUME pc = "write"
                 PROVE  /\ notice'.write \in {None, -1} \cup 1..w.hot
                        /\ w.hot > 0
                        /\ w.kind = "str" => w.length = w.hot
                        /\ peer.size >= 0 =>
                             /\ sink.left = peer.size - (peer'.bytes - Taken(notice'.write))
                             /\ peer'.bytes - Taken(notice'.write) + Outstanding(w) <= peer.size
      <3>1. Outstanding(w)' = Outstanding(w) BY <1>2 DEF Outstanding
      <3>2. Taken(notice.write)' = Taken(notice'.write) BY DEF Taken
      <3> QED BY <1>2, <3>1, <3>2 DEF Writing, Fits
    <2>1. /\ notice'.write \in 1..w.hot \cup {-1} /\ notice'.write \in Int
          /\ peer'.bytes = peer.bytes + Taken(notice'.write)
      BY <1>1, <1>2, <1>4 DEF TypeOK, WriteRec
    <2>2. Taken(notice'.write) \in Int /\ Taken(None) = 0 BY <2>1 DEF Taken, None
    <2>3. peer'.bytes - Taken(notice'.write) = peer.bytes - Taken(notice.write)
      BY <1>1, <1>3, <2>1, <2>2 DEF TypeOK, PeerRec
    <2>4. Fits(w, sink.left, peer.bytes - Taken(notice.write)) BY <1>1 DEF Exact, Writing
    <2> QED BY <2>1, <2>3, <2>4 DEF Fits
  <1>8. Counted' BY <1>1, <1>2, <1>3, <1>4 DEF Exact, Counted, Headed
  <1>9. Ended' BY <1>1, <1>2, <1>3 DEF Exact, Ended, CompleteOrReset
  <1>10. Told => Told' BY <1>2 DEF Told
  <1> QED BY <1>5, <1>6, <1>7, <1>8, <1>9, <1>10 DEF Exact

LEMMA EndExact == ASSUME ExactInv, End PROVE Exact' /\ (Told => Told')
  <1>1. TypeOK /\ Exact BY DEF ExactInv, LifeInv
  <1>2. sink' = [alive |-> FALSE, st |-> sink.st, left |-> sink.left,
                 flags |-> sink.flags \ {"PROCESSING"}]
    BY <1>1 DEF End, TypeOK, SinkRec
  <1>3. pc = "run" /\ pc' = "done" /\ UNCHANGED <<notice, w, rq>> BY DEF End, Running
  <1>4. \/ ~sink.st /\ peer' = peer
        \/ /\ sink.st
           /\ peer' = [heads |-> peer.heads, bytes |-> peer.bytes, size |-> peer.size, end |-> EndOf]
    BY <1>1 DEF End, TypeOK, PeerRec
  <1>5. Asked' /\ Headed' BY <1>1, <1>2, <1>3, <1>4 DEF Exact, Asked, Headed
  <1>6. Writing' /\ Counted' BY <1>3 DEF Writing, Counted
  <1>7. CompleteOrReset'
    <2>1. CASE ~sink.st /\ peer' = peer
      BY <1>1, <1>3, <2>1 DEF Exact, Ended, CompleteOrReset
    <2>2. CASE sink.st /\ peer' = [heads |-> peer.heads, bytes |-> peer.bytes, size |-> peer.size,
                                  end |-> EndOf]
      <3> SUFFICES ASSUME EndOf = "fin", rq.started, peer.size >= 0 PROVE peer.bytes = peer.size
        BY <1>3, <2>2 DEF CompleteOrReset
      <3>1. sink.left <= 0 BY <1>1 DEF EndOf, TypeOK, SinkRec
      <3>2. peer.bytes <= peer.size /\ sink.left >= peer.size - peer.bytes
        BY <1>1, <1>3, <2>2 DEF Exact, Counted
      <3> QED BY <1>1, <3>1, <3>2 DEF TypeOK, SinkRec, PeerRec
    <2> QED BY <1>4, <2>1, <2>2
  <1>8. Ended' BY <1>3, <1>7 DEF Ended
  <1>9. Told => Told' BY <1>3 DEF Told
  <1> QED BY <1>5, <1>6, <1>8, <1>9 DEF Exact

LEMMA WriteDoneExact == ASSUME BoundsAssumption, ExactInv, WriteDone PROVE Exact' /\ (Told => Told')
  <1>1. TypeOK /\ Exact BY DEF ExactInv, LifeInv
  <1> DEFINE got == notice.write
             sent == peer.bytes - Taken(got)
  <1>2. PICK x \in WriteRec, sk \in SinkRec, nt \in NoticeRec :
          /\ x = [kind |-> w.kind, length |-> w.length - got, hot |-> w.hot - got, ask |-> w.ask,
                  done |-> w.done + got, ret |-> w.ret]
          /\ OnlyFlags(sk) /\ sk.flags = sink.flags /\ sk.left = Accounted(got)
          /\ nt = [read |-> notice.read, write |-> None]
          /\ GoesOn(x, sk, nt)
    BY <1>1, WriteDoneGoesOn, Zenon
  <1>3. rq' = [expect |-> rq.expect, started |-> rq.started, calls |-> rq.calls,
               failed |-> pc' = "run" /\ (w'.ret # 0 \/ notice.write < 0)]
    BY <1>1 DEF WriteDone, TypeOK, RqRec
  <1>4. /\ pc = "write" /\ got # None /\ UNCHANGED peer
        /\ got \in {-1} \cup 1..w.hot /\ w.hot > 0 /\ (w.kind = "str" => w.length = w.hot)
        /\ rq.started /\ ~rq.failed /\ ~rq.expect
        /\ "HEADER_SENT" \in sink.flags /\ "WRITE" \notin sink.flags
        /\ peer.size >= 0 => sink.left = peer.size - sent /\ sent + Outstanding(w) <= peer.size
    BY <1>1 DEF WriteDone, Exact, Asked, Headed, Writing, Fits
  <1>5. /\ w.hot \in Int /\ w.length \in Int /\ w.kind \in {"str", "buf"} /\ w \in WriteRec
        /\ got \in Int /\ peer.bytes \in Int /\ peer.size \in Int /\ sink.left \in Int
    BY <1>1 DEF TypeOK, WriteRec, NoticeRec, PeerRec, SinkRec
  <1>6. /\ got > 0 => sent = peer.bytes - got
        /\ got < 0 => sent = peer.bytes
    BY <1>5 DEF Taken
  <1>7. Outstanding(w) \in Int /\ Outstanding(w) >= w.hot /\ got <= w.hot
    BY <1>4, <1>5 DEF Outstanding
  \* What is left to be sent, once what was written is taken off.
  <1>8. peer.size >= 0 =>
          /\ got > 0 => sk.left = peer.size - peer.bytes
          /\ sk.left >= peer.size - peer.bytes /\ peer.bytes <= peer.size
    <2> SUFFICES ASSUME peer.size >= 0
                 PROVE  /\ got > 0 => sk.left = peer.size - peer.bytes
                        /\ sk.left >= peer.size - peer.bytes /\ peer.bytes <= peer.size
      OBVIOUS
    <2>1. sink.left = peer.size - sent /\ sent + Outstanding(w) <= peer.size BY <1>4
    <2>2. sink.left > 0 BY <1>4, <1>5, <1>6, <1>7, <2>1
    <2>3. sk.left = sink.left - got BY <1>2, <2>2 DEF Accounted
    <2> HIDE DEF got, sent
    <2> QED BY <1>4, <1>5, <1>6, <1>7, <2>1, <2>3
  <1>9. x.kind = w.kind /\ x.length = w.length - got /\ x.hot = w.hot - got
    BY <1>2
  <1>10. nt.write = None BY <1>2
  <1>11. CASE got > 0 /\ (x.hot > 0 \/ x.length > 0)
              /\ InternalWrite(IF x.hot > 0 THEN x ELSE Prepared(x), sk, nt)
    <2> DEFINE y == IF x.hot > 0 THEN x ELSE Prepared(x)
    <2>1. y \in WriteRec BY <1>11, PreparedTyped
    <2>2. Fits(y, sk.left, peer.bytes)
      <3>1. CASE x.hot > 0
        <4>1. Outstanding(x) <= Outstanding(w) - got
          BY <1>4, <1>5, <1>9, <1>11 DEF Outstanding
        <4>2. Outstanding(x) \in Int BY <1>5, <1>9 DEF Outstanding
        <4>3. peer.size >= 0 => peer.bytes + Outstanding(x) <= peer.size
          BY <1>4, <1>5, <1>6, <1>7, <1>11, <4>1, <4>2
        <4>4. x.kind = "str" => x.length = x.hot BY <1>4, <1>9
        <4> QED BY <1>8, <1>11, <3>1, <4>3, <4>4 DEF Fits
      <3>2. CASE ~(x.hot > 0)
        <4>1. x.length > 0 /\ got = w.hot BY <1>4, <1>5, <1>9, <1>11, <3>2
        <4>2. x.length <= Outstanding(w) - got
          BY <1>4, <1>5, <1>9, <4>1 DEF Outstanding
        <4>3. peer.size >= 0 => peer.bytes + x.length <= peer.size
          <5>1. sent = peer.bytes - got BY <1>6, <1>11
          <5>2. x.length \in Int BY <1>5, <1>9
          <5> HIDE DEF got, sent
          <5> QED BY <1>4, <1>5, <1>7, <4>2, <5>1, <5>2
        <4> QED BY <1>1, <1>5, <1>8, <1>11, <3>2, <4>1, <4>3, PreparedFits
      <3> QED BY <3>1, <3>2
    <2> HIDE DEF y
    <2>3. InternalWrite(y, sk, nt) BY <1>11 DEF y
    <2>4. Exact'
      BY <1>1, <1>2, <1>3, <1>4, <1>10, <2>1, <2>2, <2>3, WriteGoesOn
    <2>5. ASSUME Told PROVE Told'
      <3>1. w.kind = "str" /\ w.ret = 0 /\ w.done + w.hot = w.ask /\ w.length = w.hot
        BY <1>4, <2>5 DEF Told
      <3>2. y = x /\ x.length = x.hot /\ x.hot > 0 BY <1>4, <1>9, <1>11, <3>1 DEF y
      <3>3. x.done + x.hot = x.ask /\ x.ret = 0
        <4>1. w.done \in Int /\ w.ask \in Int BY <1>5 DEF WriteRec
        <4> QED BY <1>2, <1>5, <3>1, <4>1
      <3>4. \/ pc' = "write" /\ w' = x
            \/ pc' = "run" /\ w' = Return(x, x.length)
        BY <1>1, <1>2, <2>1, <2>3, <3>2, InternalWriteWaits
      <3>5. x.length \in Int BY DEF WriteRec
      <3>6. Return(x, x.length) = [kind |-> x.kind, length |-> 0, hot |-> 0, ask |-> x.ask,
                                  done |-> x.done, ret |-> x.length]
        BY <3>5, ReturnTyped
      <3> QED BY <1>9, <3>1, <3>2, <3>3, <3>4, <3>6 DEF Told
    <2> QED BY <2>4, <2>5
  <1>12. CASE /\ ~(got > 0 /\ (x.hot > 0 \/ x.length > 0))
              /\ w' = IF got > 0 THEN Return(x, 0) ELSE Return(w, w.length)
              /\ pc' = "run" /\ sink' = sk /\ notice' = nt
    <2>1. sink'.flags = sink.flags BY <1>2, <1>12
    <2>2. got < 0 => rq'.failed BY <1>3, <1>12
    <2>3. Asked' BY <1>3, <1>4, <1>10, <1>12, <2>1 DEF Asked
    <2>4. Headed' BY <1>3, <1>4, <1>12, <2>1 DEF Headed
    <2>5. Writing' BY <1>12 DEF Writing
    <2>6. Counted'
      <3>1. got > 0 \/ rq'.failed BY <1>4, <1>5, <2>2
      <3> QED BY <1>4, <1>8, <1>12, <3>1 DEF Counted
    <2>7. Ended' BY <1>1, <1>4, <1>12 DEF Exact, Ended, CompleteOrReset
    <2>8. ASSUME Told PROVE Told'
      <3>1. w.kind = "str" /\ w.ret = 0 /\ w.done + w.hot = w.ask /\ w.length = w.hot
        BY <1>4, <2>8 DEF Told
      <3>2. w.done \in Int /\ w.ask \in Int BY <1>5 DEF WriteRec
      <3>3. CASE got > 0
        <4>1. w' = [kind |-> x.kind, length |-> 0, hot |-> 0, ask |-> x.ask, done |-> x.done, ret |-> 0]
          BY <1>12, <3>3, ReturnTyped
        <4>2. w.hot - got = 0 BY <1>4, <1>5, <1>9, <1>12, <3>3
        <4>3. x.done = w.ask /\ x.ask = w.ask /\ x.kind = "str" BY <1>2, <1>5, <3>1, <3>2, <4>2
        <4> QED BY <1>12, <4>1, <4>3 DEF Told
      <3>4. CASE ~(got > 0)
        <4>1. w' = [kind |-> w.kind, length |-> 0, hot |-> 0, ask |-> w.ask, done |-> w.done,
                    ret |-> w.length]
          BY <1>5, <1>12, <3>4, ReturnTyped
        <4> QED BY <1>4, <1>5, <1>12, <3>1, <4>1 DEF Told
      <3> QED BY <3>3, <3>4
    <2> QED BY <2>3, <2>4, <2>5, <2>6, <2>7, <2>8 DEF Exact
  <1> QED BY <1>2, <1>11, <1>12 DEF GoesOn

LEMMA StepExact ==
  ASSUME BoundsAssumption, ExactInv, [Next]_vars
  PROVE  ExactInv' /\ (Kinds \subseteq {"str"} /\ Told => Told')
  <1>1. LifeInv' BY StepLife DEF ExactInv
  <1>2. CASE Arrive \/ OnRead \/ OnClose \/ Read \/ ReadDone
    BY <1>2, ArriveQuiet, OnReadQuiet, OnCloseQuiet, ReadQuiet, ReadDoneQuiet, QuietExact, QuietTold,
       <1>1 DEF ExactInv
  <1>3. CASE OnHeaders BY <1>1, <1>3, OnHeadersExact DEF ExactInv
  <1>4. CASE OnWrite BY <1>1, <1>4, OnWriteExact DEF ExactInv
  <1>5. CASE StartResponse BY <1>1, <1>5, StartResponseExact DEF ExactInv
  <1>6. CASE WriteAll BY <1>1, <1>6, WriteAllExact DEF ExactInv
  <1>7. CASE End BY <1>1, <1>7, EndExact DEF ExactInv
  <1>8. CASE ContinueDone BY <1>8 DEF ContinueDone, ExactInv, Exact, Asked
  <1>9. CASE HeadDone BY <1>1, <1>9, HeadDoneExact DEF ExactInv
  <1>10. CASE WriteDone BY <1>1, <1>10, WriteDoneExact DEF ExactInv
  <1>11. CASE UNCHANGED vars
    <2>1. QuietBytes BY <1>11 DEF vars, QuietBytes, ExactInv, Exact, Asked
    <2> QED BY <1>1, <2>1, QuietExact, QuietTold DEF ExactInv
  <1> QED BY <1>2, <1>3, <1>4, <1>5, <1>6, <1>7, <1>8, <1>9, <1>10, <1>11
          DEF Next, Callback, Handler, Resume

\* A client is never shown the clean end of an answer of known size that is not all
\* there: content_left counts what is missing through every partial or failed write,
\* and the destructor resets the stream while it is positive.  Requests that ask for a
\* 100 are left out: after it the final header is refused, with content_left at 0.
THEOREM AnswerWholeOrReset ==
  ASSUME BoundsAssumption, Expects \subseteq {FALSE}
  PROVE  Spec => []CompleteOrReset
  <1>1. Init => ExactInv BY InitLife, InitExact DEF ExactInv
  <1>2. ExactInv /\ [Next]_vars => ExactInv' BY StepExact
  <1>3. ExactInv => CompleteOrReset BY DEF ExactInv, Exact, Ended
  <1> QED BY <1>1, <1>2, <1>3, PTL DEF Spec

\* All of what a sink and its stream owe each other, for handlers that write strings:
\* a write_all that returns 0 has written everything (KSink.h).  The one for a chain of
\* buffers takes every write off its length twice, and is left out for that.
THEOREM SinkKeepsPromises ==
  ASSUME BoundsAssumption, Expects \subseteq {FALSE}, Kinds \subseteq {"str"}
  PROVE  Spec => []SinkAndStream
  <1>1. Init => ExactInv /\ Told BY InitLife, InitExact DEF ExactInv
  <1>2. ExactInv /\ Told /\ [Next]_vars => ExactInv' /\ Told' BY StepExact
  <1>3. ExactInv /\ Told => SinkAndStream
    BY DEF ExactInv, LifeInv, Exact, Ended, Told, SinkAndStream, SinkAlive, WriteAllTruth
  <1> QED BY <1>1, <1>2, <1>3, PTL DEF Spec

=============================================================================
