------------------------- MODULE KHttp2ClientProofs -------------------------
(***************************************************************************)
(* What the runs of KHttp2Client check for two streams holds for any       *)
(* number of them: the frames of a stream are in order, new ids increase,  *)
(* nothing is pushed once the connection is not read, the context under    *)
(* the parser is live, active_queue holds only streams somebody waits for, *)
(* and a reader told of the final header has all of it.                    *)
(*                                                                         *)
(* Base says what every context looks like by itself, Answers what its     *)
(* fields are in the order the peer sent them; both are inductive.         *)
(***************************************************************************)
EXTENDS KHttp2Client, TLAPS

----------------------------------------------------------------------------
(* The types *)

Frames == {"H", "H.", "D", "D.", "T", "T.", "R"}
FieldNames == {"100", "103", "status", "field", "t1", "t2"}
Rests == {<<>>, <<"field">>, <<"t2">>}

Conn == [read_processing : BOOLEAN, closed : BOOLEAN, goaway : BOOLEAN,
         last_self_sid : Nat]

Pcs == {"none", "new", "cb", "head", "ended", "wait", "answered", "rwait", "done",
        "failed", "gone"}

Context ==
    [pc : Pcs,
     life : {"none", "live", "doomed", "gone"}, node : Nat,
     in_closed : BOOLEAN, out_closed : BOOLEAN, rst : BOOLEAN,
     parsed_header : BOOLEAN, is_100_continue : BOOLEAN, send_header : BOOLEAN,
     write_trailer : BOOLEAN, has_upgrade : BOOLEAN, has_expect : BOOLEAN,
     content_left : {-1, 0, 1}, read_wait : {"none", "cb", "hdr", "body"},
     queue : BOOLEAN, read_buffer : BOOLEAN,
     kind : {"none", "get", "put", "expect", "chunk", "trailer", "connect"},
     w : Seq(Frames), got : SUBSET FieldNames, trailer : SUBSET FieldNames]

TypeOK ==
    /\ conn \in Conn
    /\ ctx \in [Streams -> Context]
    /\ block \in [s : Streams \cup {"none"}, rest : Rests]
    /\ sent \in [Streams -> {"none", "interim", "final", "data", "trailer", "end"}]
    /\ split \subseteq Streams

----------------------------------------------------------------------------
(* The inductive invariant *)

Ends == {"H.", "D.", "T."}
LastFrame(w) == w[Len(w)]
Ended(w) == w # <<>> /\ LastFrame(w) \in Ends

WellOrdered(w) ==
    /\ w # <<>> => w[1] \in {"H", "H."}
    /\ \A i \in 1..Len(w) : w[i] \in {"H", "H."} => i = 1
    /\ \A i \in 1..Len(w) - 1 : w[i] \in Ends => w[i + 1] = "R"

SilentAfterReset(w) == \A i \in 1..Len(w) - 1 : w[i] # "R"

Fresh == {"none", "new", "cb"}
Answered == {"answered", "rwait", "done"}

\* the frames, with what the flags say of them
Ordered(c) ==
    /\ WellOrdered(c.w)
    /\ c.kind # "trailer" => SilentAfterReset(c.w) /\ ~c.write_trailer
    /\ Ended(c.w) => c.out_closed /\ ~c.send_header
    /\ (c.w # <<>> /\ LastFrame(c.w) = "R") => c.in_closed /\ c.out_closed
    /\ (c.send_header /\ ~c.write_trailer) => c.w = <<>>
    /\ (c.kind = "trailer" /\ c.pc = "head") => c.content_left = -1 /\ ~Ended(c.w)

\* a stream has a node from its first frame until it is given back
Numbered(c, reading) ==
    /\ c.node # 0 => c.w # <<>> /\ c.pc # "gone"
    /\ c.w # <<>> => c.node # 0 \/ c.pc = "gone"
    /\ c.pc \in Fresh => /\ c.w = <<>> /\ ~c.send_header /\ ~c.write_trailer
                         /\ c.kind = "none"
    /\ (c.pc \notin Fresh \cup {"gone"} /\ ~c.send_header) => c.w # <<>>
    /\ (c.pc \in {"wait"} \cup Answered /\ c.send_header) => ~reading
    /\ c.write_trailer => c.w # <<>> \/ ~reading
    /\ (~reading /\ c.node # 0) => c.in_closed /\ c.out_closed
    /\ c.parsed_header => c.node # 0 \/ c.pc = "gone"

\* the callback or fiber the stream has, and the life of its context
Waiting(c) ==
    /\ (c.read_wait = "hdr") <=> (c.pc = "wait")
    /\ (c.read_wait = "body") <=> (c.pc = "rwait")
    /\ c.read_wait \in {"cb", "hdr"} => ~c.parsed_header
    /\ (c.pc \notin {"none", "new", "gone"} /\ ~c.rst /\ ~c.parsed_header)
          => c.read_wait \in {"cb", "hdr"}
    /\ c.pc \in Answered => c.parsed_header
    /\ (c.pc = "none") <=> (c.life = "none")
    /\ (c.pc = "gone") <=> (c.life \in {"doomed", "gone"})
    /\ c.pc \in {"none", "new", "gone"} => c.read_wait = "none"

\* the context the parser holds, with the block b and the split streams sp
Held(s, c, b) ==
    /\ b.s = s => /\ c.pc \notin Fresh
                  /\ c.node # 0 \/ c.pc = "gone"
                  /\ c.rst => c.read_wait = "none"
    /\ (c.life = "doomed") <=> (b.s = s /\ c.pc = "gone")
    /\ c.is_100_continue => b.s = s /\ c.kind = "expect"

\* the context in active_queue
Queued(s, c, sp) == s \notin sp /\ c.queue => Waits(c)

Good(s, c, reading, b, sp) ==
    Ordered(c) /\ Numbered(c, reading) /\ Waiting(c) /\ Held(s, c, b) /\ Queued(s, c, sp)

Base ==
    /\ TypeOK
    /\ conn.last_self_sid % 2 = 1
    /\ IF block.s = "none" THEN block = NoBlock ELSE block.s \in split
    /\ \A s \in Streams :
        /\ Good(s, ctx[s], conn.read_processing, block, split)
        /\ ctx[s].node <= conn.last_self_sid
        /\ ctx[s].node # 0 => ctx[s].node % 2 = 1

----------------------------------------------------------------------------
(* Sequences of frames *)

LEMMA AppendOne ==
    ASSUME NEW w \in Seq(Frames), NEW f \in Frames
    PROVE  /\ Append(w, f) \in Seq(Frames)
           /\ Append(w, f) # <<>>
           /\ Len(Append(w, f)) = Len(w) + 1
           /\ LastFrame(Append(w, f)) = f
           /\ \A i \in 1..Len(w) : Append(w, f)[i] = w[i]
           /\ w # <<>> => Len(w) > 0
           /\ Len(w) \in Nat
<1>1. /\ Append(w, f) \in Seq(Frames) /\ Len(Append(w, f)) = Len(w) + 1 /\ Len(w) \in Nat
    OBVIOUS
<1>2. Append(w, f)[Len(w) + 1] = f /\ \A i \in 1..Len(w) : Append(w, f)[i] = w[i]
    OBVIOUS
<1>3. w # <<>> => Len(w) > 0
    OBVIOUS
<1>4. Append(w, f) # <<>>
    BY <1>1
<1> QED BY <1>1, <1>2, <1>3, <1>4 DEF LastFrame

\* A frame after the others: HEADERS if there are none, RST_STREAM after the end.
LEMMA AppendOrdered ==
    ASSUME NEW w \in Seq(Frames), NEW f \in Frames, WellOrdered(w),
           (f \in {"H", "H."}) <=> (w = <<>>), Ended(w) => f = "R"
    PROVE  WellOrdered(Append(w, f))
<1> DEFINE v == Append(w, f)
<1>1. /\ Len(v) = Len(w) + 1 /\ Len(w) \in Nat /\ v[Len(v)] = f
      /\ \A i \in 1..Len(w) : v[i] = w[i]
      /\ w # <<>> => Len(w) > 0
    BY AppendOne DEF LastFrame
<1>2. w = <<>> => Len(w) = 0
    OBVIOUS
<1> HIDE DEF v
<1>3. v[1] \in {"H", "H."}
  <2>1. CASE w = <<>>
    BY <2>1, <1>1, <1>2
  <2>2. CASE w # <<>>
    <3>1. 1 \in 1..Len(w)
        BY <2>2, <1>1
    <3> QED BY <3>1, <2>2, <1>1 DEF WellOrdered
  <2> QED BY <2>1, <2>2
<1>4. ASSUME NEW i \in 1..Len(v), v[i] \in {"H", "H."} PROVE i = 1
  <2>1. CASE i \in 1..Len(w)
    BY <2>1, <1>1, <1>4 DEF WellOrdered
  <2>2. CASE i = Len(v)
    BY <2>2, <1>1, <1>2, <1>4
  <2> QED BY <2>1, <2>2, <1>1
<1>5. ASSUME NEW i \in 1..Len(v) - 1, v[i] \in Ends PROVE v[i + 1] = "R"
  <2>1. i \in 1..Len(w) /\ v[i] = w[i]
    BY <1>1
  <2>2. CASE i = Len(w)
    <3>1. w # <<>> /\ w[Len(w)] \in Ends
        BY <2>1, <2>2, <1>5, <1>1, <1>2
    <3> QED BY <3>1, <2>2, <1>1 DEF Ended, LastFrame
  <2>3. CASE i < Len(w)
    <3>1. i \in 1..Len(w) - 1 /\ i + 1 \in 1..Len(w)
        BY <2>3, <2>1, <1>1
    <3>2. w[i + 1] = "R"
        BY <3>1, <2>1, <1>5 DEF WellOrdered
    <3> QED BY <3>1, <3>2, <1>1
  <2> QED BY <2>1, <2>2, <2>3, <1>1
<1> QED BY <1>3, <1>4, <1>5 DEF WellOrdered, v

LEMMA AppendSilent ==
    ASSUME NEW w \in Seq(Frames), NEW f \in Frames, SilentAfterReset(w),
           w # <<>> => LastFrame(w) # "R"
    PROVE  SilentAfterReset(Append(w, f))
<1> DEFINE v == Append(w, f)
<1>1. /\ Len(v) = Len(w) + 1 /\ Len(w) \in Nat /\ \A i \in 1..Len(w) : v[i] = w[i]
      /\ w # <<>> => Len(w) > 0
    BY AppendOne
<1>2. w = <<>> => Len(w) = 0
    OBVIOUS
<1> HIDE DEF v
<1>3. ASSUME NEW i \in 1..Len(v) - 1 PROVE v[i] # "R"
  <2>1. i \in 1..Len(w) /\ v[i] = w[i] /\ w # <<>>
    BY <1>1, <1>2
  <2>2. CASE i = Len(w)
    BY <2>1, <2>2 DEF LastFrame
  <2>3. CASE i < Len(w)
    BY <2>1, <2>3, <1>1 DEF SilentAfterReset
  <2> QED BY <2>1, <2>2, <2>3, <1>1
<1> QED BY <1>3 DEF SilentAfterReset, v

\* What is known of the frames of a stream once f is pushed.
LEMMA Pushed ==
    ASSUME NEW w \in Seq(Frames), NEW f \in Frames, WellOrdered(w),
           (f \in {"H", "H."}) <=> (w = <<>>), Ended(w) => f = "R"
    PROVE  /\ Append(w, f) \in Seq(Frames)
           /\ Append(w, f) # <<>>
           /\ LastFrame(Append(w, f)) = f
           /\ WellOrdered(Append(w, f))
           /\ Ended(Append(w, f)) <=> f \in Ends
           /\ SilentAfterReset(w) /\ (w # <<>> => LastFrame(w) # "R")
                 => SilentAfterReset(Append(w, f))
<1>1. /\ Append(w, f) \in Seq(Frames) /\ Append(w, f) # <<>>
      /\ LastFrame(Append(w, f)) = f
    BY AppendOne
<1>2. WellOrdered(Append(w, f))
    BY AppendOrdered
<1>3. Ended(Append(w, f)) <=> f \in Ends
    BY <1>1, Zenon DEF Ended
<1>4. SilentAfterReset(w) /\ (w # <<>> => LastFrame(w) # "R")
         => SilentAfterReset(Append(w, f))
    BY AppendSilent
<1> QED BY <1>1, <1>2, <1>3, <1>4

LEMMA NothingPushed == /\ WellOrdered(<<>>) /\ SilentAfterReset(<<>>) /\ ~Ended(<<>>)
                       /\ <<>> \in Seq(Frames)
    BY DEF WellOrdered, SilentAfterReset, Ended

----------------------------------------------------------------------------
(* The helpers of the handlers *)

\* what holds of the context of s now
Now(s, c) == c \in Context /\ Good(s, c, conn.read_processing, block, split)

\* h is c with the frame pushed that its pending header makes, the last if e
HeaderPushed(c, e, h) ==
    /\ h = [c EXCEPT !.node = h.node, !.w = h.w, !.out_closed = h.out_closed,
                     !.send_header = FALSE]
    /\ h.node = IF c.node = 0 THEN conn.last_self_sid + 2 ELSE c.node
    /\ h.out_closed \in BOOLEAN /\ (h.out_closed <=> (c.out_closed \/ e))
    /\ h.w \in Seq(Frames) /\ h.w # <<>> /\ WellOrdered(h.w)
    /\ Ended(h.w) => e
    /\ LastFrame(h.w) # "R"
    /\ c.kind # "trailer" => SilentAfterReset(h.w)

\* send_header, when a header is pending
LEMMA SendHeaderPushes ==
    ASSUME NEW c \in Context, NEW e \in BOOLEAN, conn \in Conn, conn.read_processing,
           Ordered(c), c.send_header, c.write_trailer => c.w # <<>>
    PROVE  HeaderPushed(c, e, SendHeader(c, e))
<1> DEFINE h == SendHeader(c, e)
<1> DEFINE f == CASE c.write_trailer /\ e   -> "T."
                  [] c.write_trailer /\ ~e  -> "T"
                  [] ~c.write_trailer /\ e  -> "H."
                  [] ~c.write_trailer /\ ~e -> "H"
<1> DEFINE o == c.out_closed \/ e
<1> USE DEF Context, Conn, Pcs
<1>1. f \in Frames \ {"R"} /\ (f \in {"H", "H."} <=> ~c.write_trailer) /\ (f \in Ends => e)
  <2>1. CASE c.write_trailer
    <3>1. f = IF e THEN "T." ELSE "T"
        BY <2>1
    <3> QED BY <2>1, <3>1 DEF Frames, Ends
  <2>2. CASE ~c.write_trailer
    <3>1. f = IF e THEN "H." ELSE "H"
        BY <2>2
    <3> QED BY <2>2, <3>1 DEF Frames, Ends
  <2> QED BY <2>1, <2>2
<1>2. c.w \in Seq(Frames) /\ c.send_header \in BOOLEAN /\ WellOrdered(c.w) /\ ~Ended(c.w)
    BY DEF Ordered
<1>3. ~c.write_trailer <=> c.w = <<>>
    BY DEF Ordered
<1>4. h = [c EXCEPT !.node = IF c.node = 0 THEN conn.last_self_sid + 2 ELSE c.node,
                    !.w = Append(c.w, f), !.out_closed = o, !.send_header = FALSE]
    BY DEF SendHeader
<1>5. o \in BOOLEAN /\ (o <=> (c.out_closed \/ e))
    OBVIOUS
<1> HIDE DEF f, o, h
<1>6. /\ h.w = Append(c.w, f) /\ h.node = IF c.node = 0 THEN conn.last_self_sid + 2 ELSE c.node
      /\ h.out_closed = o
    BY <1>4
<1>7. /\ h.w \in Seq(Frames) /\ h.w # <<>> /\ WellOrdered(h.w) /\ LastFrame(h.w) = f
      /\ Ended(h.w) <=> f \in Ends
      /\ SilentAfterReset(c.w) /\ (c.w # <<>> => LastFrame(c.w) # "R") => SilentAfterReset(h.w)
  <2>1. (f \in {"H", "H."}) <=> (c.w = <<>>)
    BY <1>1, <1>3
  <2> QED BY <2>1, <1>1, <1>2, <1>6, Pushed
<1>8. c.kind # "trailer" => SilentAfterReset(h.w)
    BY <1>7, <1>3, NothingPushed DEF Ordered
<1>9. h = [c EXCEPT !.node = h.node, !.w = h.w, !.out_closed = h.out_closed,
                    !.send_header = FALSE]
    BY <1>4, <1>6
<1>10. HeaderPushed(c, e, h)
    BY <1>1, <1>5, <1>6, <1>7, <1>8, <1>9 DEF HeaderPushed
<1> QED BY <1>10 DEF h

\* h is c after PendingHeader
Pended(s, c, e, h) ==
    /\ Now(s, h)
    /\ h = [c EXCEPT !.node = h.node, !.w = h.w, !.out_closed = h.out_closed,
                     !.send_header = h.send_header]
    /\ h.node = c.node \/ (c.node = 0 /\ h.node = conn.last_self_sid + 2)
    /\ conn.read_processing => ~h.send_header /\ h.w # <<>>
    /\ ~conn.read_processing => h.w = c.w
    /\ ~e => h.out_closed = c.out_closed

\* PendingHeader, whether or not a header is pending and may be sent
LEMMA PendingHeaderGood ==
    ASSUME NEW s \in Streams, NEW c, Now(s, c), NEW e \in BOOLEAN, conn \in Conn,
           c.pc \in {"head", "ended"}, (c.kind = "trailer" /\ c.pc = "head") => ~e
    PROVE  Pended(s, c, e, PendingHeader(c, e))
<1> DEFINE h == PendingHeader(c, e)
<1>1. c \in Context
    BY DEF Now
<1>2. CASE ~c.send_header \/ ~conn.read_processing
  <2>1. h = c
    BY <1>1, <1>2 DEF PendingHeader, SendHeader, Context
  <2>2. conn.read_processing => c.w # <<>>
    BY <1>1, <1>2 DEF Now, Good, Numbered, Fresh, Context
  <2>3. c = [c EXCEPT !.node = c.node, !.w = c.w, !.out_closed = c.out_closed,
                      !.send_header = c.send_header]
    BY <1>1 DEF Context
  <2> HIDE DEF h
  <2> QED BY <2>1, <2>2, <2>3, <1>2 DEF Pended, h
<1>3. CASE c.send_header /\ conn.read_processing
  <2>1. h = SendHeader(c, e)
    BY <1>3 DEF PendingHeader
  <2> HIDE DEF h
  <2>2. Ordered(c) /\ Numbered(c, conn.read_processing)
    BY DEF Now, Good
  <2>3. c.write_trailer => c.w # <<>>
    BY <2>2, <1>3 DEF Numbered
  <2>4. /\ h = [c EXCEPT !.node = h.node, !.w = h.w, !.out_closed = h.out_closed,
                         !.send_header = FALSE]
        /\ h.node = IF c.node = 0 THEN conn.last_self_sid + 2 ELSE c.node
        /\ h.out_closed \in BOOLEAN /\ (h.out_closed <=> (c.out_closed \/ e))
        /\ h.w \in Seq(Frames) /\ h.w # <<>> /\ WellOrdered(h.w)
        /\ Ended(h.w) => e
        /\ LastFrame(h.w) # "R"
        /\ c.kind # "trailer" => SilentAfterReset(h.w)
    <3>1. HeaderPushed(c, e, SendHeader(c, e))
        BY <1>1, <1>3, <2>2, <2>3, SendHeaderPushes
    <3> QED BY <2>1, <3>1 DEF HeaderPushed
  <2>5. h.node \in Nat /\ h.node # 0
    BY <2>4, <1>1 DEF Conn, Context
  <2>6. h \in Context
    BY <2>4, <2>5, <1>1 DEF Context
  <2>7. /\ h.pc = c.pc /\ h.life = c.life /\ h.in_closed = c.in_closed /\ h.rst = c.rst
        /\ h.parsed_header = c.parsed_header /\ h.is_100_continue = c.is_100_continue
        /\ h.write_trailer = c.write_trailer /\ h.read_wait = c.read_wait
        /\ h.queue = c.queue /\ h.kind = c.kind /\ h.content_left = c.content_left
        /\ ~h.send_header
    BY <2>4, <1>1 DEF Context
  <2>8. Ordered(h)
    BY <2>4, <2>7, <2>2 DEF Ordered
  <2>9. Numbered(h, conn.read_processing)
    BY <2>4, <2>5, <2>7, <1>3 DEF Numbered, Fresh, Answered
  <2>10. Waiting(h) /\ Held(s, h, block) /\ Queued(s, h, split)
    BY <2>5, <2>7 DEF Now, Good, Waiting, Held, Queued, Waits, Fresh, Answered
  <2>11. h = [c EXCEPT !.node = h.node, !.w = h.w, !.out_closed = h.out_closed,
                       !.send_header = h.send_header]
    BY <2>4, <2>7, <1>1 DEF Context
  <2>12. Now(s, h)
    BY <2>6, <2>8, <2>9, <2>10 DEF Now, Good
  <2>13. ~e => h.out_closed = c.out_closed
    BY <2>4, <1>1 DEF Context
  <2>14. h.node = c.node \/ (c.node = 0 /\ h.node = conn.last_self_sid + 2)
    BY <2>4
  <2>15. Pended(s, c, e, h)
    BY <2>4, <2>7, <2>11, <2>12, <2>13, <2>14, <1>3 DEF Pended
  <2> QED BY <2>15 DEF h
<1> QED BY <1>1, <1>2, <1>3

\* a reset stream has no reader and is closed on both sides
LEMMA BrokenGood ==
    ASSUME NEW s \in Streams, NEW c, Now(s, c), NEW r \in BOOLEAN, r => conn.read_processing
    PROVE  LET d == Broken(c)
           IN  /\ d \in Context /\ Good(s, d, r, block, split)
               /\ d.node = c.node /\ d.w = c.w
<1> DEFINE d == Broken(c)
<1>1. c \in Context
    BY DEF Now
<1>2. d \in Context
  <2> DEFINE p == IF Waits(c) THEN "failed" ELSE c.pc
  <2>1. d = [c EXCEPT !.in_closed = TRUE, !.out_closed = TRUE, !.rst = TRUE, !.queue = FALSE,
                      !.read_wait = "none", !.pc = p]
    BY DEF Broken
  <2>2. p = "failed" \/ p = c.pc
    OBVIOUS
  <2> HIDE DEF p, d
  <2> QED BY <1>1, <2>1, <2>2 DEF Context, Pcs
<1>3. /\ d.pc = (IF Waits(c) THEN "failed" ELSE c.pc) /\ d.life = c.life /\ d.node = c.node
      /\ d.in_closed /\ d.out_closed /\ d.rst /\ ~d.queue /\ d.read_wait = "none"
      /\ d.parsed_header = c.parsed_header /\ d.is_100_continue = c.is_100_continue
      /\ d.send_header = c.send_header /\ d.write_trailer = c.write_trailer
      /\ d.kind = c.kind /\ d.content_left = c.content_left /\ d.w = c.w
    BY <1>1 DEF Broken, Context, Pcs
<1> HIDE DEF d
<1>4. Ordered(d)
    BY <1>3 DEF Now, Good, Ordered
<1>5. Numbered(d, r)
    BY <1>3 DEF Now, Good, Numbered, Waiting, Waits, Fresh, Answered
<1>6. Waiting(d)
    BY <1>3 DEF Now, Good, Waiting, Answered, Waits
<1>7. Held(s, d, block) /\ Queued(s, d, split)
    BY <1>3 DEF Now, Good, Held, Queued, Waiting, Waits, Fresh
<1> QED BY <1>2, <1>3, <1>4, <1>5, <1>6, <1>7 DEF Good, d

\* terminate_stream: RST_STREAM after whatever was sent
LEMMA TerminateGood ==
    ASSUME NEW s \in Streams, NEW c, Now(s, c), conn \in Conn
    PROVE  LET d == terminate_stream(c)
           IN  Now(s, d) /\ d.node = c.node /\ (d.w # c.w => conn.read_processing)
<1> DEFINE b == Broken(c)
           d == terminate_stream(c)
           silent == ~(c.in_closed /\ c.out_closed) /\ c.node # 0 /\ conn.read_processing
<1>1. /\ b \in Context /\ Good(s, b, conn.read_processing, block, split)
      /\ b.node = c.node /\ b.w = c.w
    BY BrokenGood DEF Conn
<1>2. c \in Context /\ c.w \in Seq(Frames) /\ b.in_closed /\ b.out_closed
    BY DEF Now, Context, Broken, Pcs
<1>3. CASE ~silent
  <2>1. d = [b EXCEPT !.w = b.w]
    BY <1>1, <1>3 DEF terminate_stream
  <2>2. d = b
    BY <2>1, <1>1 DEF Context, Pcs
  <2> QED BY <2>2, <1>1, Zenon DEF Now
<1>4. CASE silent
  <2>1. d = [b EXCEPT !.w = Append(c.w, "R")]
    BY <1>4, <1>1 DEF terminate_stream
  <2>2. Ordered(c) /\ c.w # <<>> /\ LastFrame(c.w) # "R"
    BY <1>4 DEF Now, Good, Ordered, Numbered
  <2>3. /\ Append(c.w, "R") \in Seq(Frames) /\ Append(c.w, "R") # <<>>
        /\ LastFrame(Append(c.w, "R")) = "R" /\ WellOrdered(Append(c.w, "R"))
        /\ ~Ended(Append(c.w, "R"))
        /\ SilentAfterReset(c.w) => SilentAfterReset(Append(c.w, "R"))
    BY <2>2, <1>2, Pushed DEF Ordered, Frames, Ends
  <2> HIDE DEF b, d
  <2>4. d \in Context
    BY <2>1, <2>3, <1>1 DEF Context, Pcs
  <2>5. /\ d.pc = b.pc /\ d.life = b.life /\ d.node = b.node /\ d.rst = b.rst
        /\ d.in_closed = b.in_closed /\ d.out_closed = b.out_closed /\ d.queue = b.queue
        /\ d.read_wait = b.read_wait /\ d.parsed_header = b.parsed_header
        /\ d.is_100_continue = b.is_100_continue /\ d.send_header = b.send_header
        /\ d.write_trailer = b.write_trailer /\ d.kind = b.kind
        /\ d.content_left = b.content_left /\ d.w = Append(c.w, "R")
    BY <2>1, <1>1 DEF Context, Pcs
  <2>6. Ordered(b) /\ Numbered(b, conn.read_processing) /\ Waiting(b)
        /\ Held(s, b, block) /\ Queued(s, b, split)
    BY <1>1 DEF Good
  <2>7. Ordered(d)
    BY <2>3, <2>5, <2>6, <1>1, <1>2, <2>2 DEF Ordered
  <2>8. Numbered(d, conn.read_processing)
    BY <2>3, <2>5, <2>6, <1>1, <1>4 DEF Numbered
  <2>9. Waiting(d) /\ Held(s, d, block) /\ Queued(s, d, split)
    BY <2>5, <2>6, <1>1, <1>4 DEF Numbered, Waiting, Held, Queued, Waits
  <2> QED BY <2>4, <2>5, <2>7, <2>8, <2>9, <1>1, <1>4 DEF Now, Good, d
<1> QED BY <1>3, <1>4

----------------------------------------------------------------------------
(* The steps *)

\* c, the context of s after a call, was reached in the way a call may reach it
Fits(s, c) ==
    /\ Now(s, c)
    /\ \/ c.node \in {0, ctx[s].node}
       \/ ctx[s].node = 0 /\ c.node = conn.last_self_sid + 2
    /\ c.w # ctx[s].w => conn.read_processing

LEMMA BaseNow ==
    ASSUME Base, NEW s \in Streams
    PROVE  Now(s, ctx[s]) /\ conn \in Conn /\ ctx[s].node \in Nat
    BY DEF Base, TypeOK, Now, Context, Pcs

\* A step that leaves the context of t alone leaves what is said of it true.
LEMMA OthersKeep ==
    ASSUME Base, NEW t \in Streams, ctx'[t] = ctx[t],
           conn'.read_processing = conn.read_processing,
           (block'.s = t) <=> (block.s = t), split \subseteq split'
    PROVE  Good(t, ctx'[t], conn'.read_processing, block', split')
<1>1. Good(t, ctx[t], conn.read_processing, block, split)
    BY DEF Base
<1>2. Held(t, ctx[t], block')
    BY <1>1 DEF Good, Held
<1>3. Queued(t, ctx[t], split')
    BY <1>1 DEF Good, Queued
<1> QED BY <1>1, <1>2, <1>3 DEF Good

LEMMA CallKeeps ==
    ASSUME Base, NEW s \in Streams, NEW c, Fits(s, c), Call(s, c)
    PROVE  Base' /\ NewIdIncreases /\ PushesWhileReading
<1> DEFINE last == conn.last_self_sid
           opens == ctx[s].node = 0 /\ c.node # 0
<1>1. /\ conn \in Conn /\ ctx \in [Streams -> Context] /\ last \in Nat /\ last % 2 = 1
      /\ c \in Context /\ c.node \in Nat
      /\ \A t \in Streams : ctx[t].node \in Nat /\ ctx[t].node <= last
                            /\ (ctx[t].node # 0 => ctx[t].node % 2 = 1)
    BY DEF Base, TypeOK, Conn, Context, Fits, Now, Pcs
<1>2. /\ ctx' = [ctx EXCEPT ![s] = c] /\ UNCHANGED <<block, sent, split>>
      /\ conn' = [conn EXCEPT !.last_self_sid = IF opens THEN c.node ELSE last]
    BY DEF Call
<1>3. /\ conn' \in Conn /\ conn'.read_processing = conn.read_processing
      /\ conn'.last_self_sid = IF opens THEN c.node ELSE last
    BY <1>1, <1>2 DEF Conn
<1>4. opens => c.node = last + 2
    BY <1>1 DEF Fits
<1>5. /\ conn'.last_self_sid \in Nat /\ conn'.last_self_sid >= last
      /\ conn'.last_self_sid % 2 = 1
    BY <1>1, <1>3, <1>4
<1>6. ctx' \in [Streams -> Context] /\ ctx'[s] = c /\ \A t \in Streams \ {s} : ctx'[t] = ctx[t]
    BY <1>1, <1>2
<1>7. TypeOK'
    BY <1>2, <1>3, <1>6 DEF Base, TypeOK
<1>8. ASSUME NEW t \in Streams
      PROVE  /\ Good(t, ctx'[t], conn'.read_processing, block', split')
             /\ ctx'[t].node <= conn'.last_self_sid
             /\ ctx'[t].node # 0 => ctx'[t].node % 2 = 1
  <2>1. CASE t = s
    <3>1. Good(s, c, conn.read_processing, block, split)
        BY DEF Fits, Now
    <3>2. c.node <= conn'.last_self_sid /\ (c.node # 0 => c.node % 2 = 1)
        BY <1>1, <1>3, <1>4, <1>5 DEF Fits
    <3> QED BY <3>1, <3>2, <2>1, <1>2, <1>3, <1>6
  <2>2. CASE t # s
    <3>1. Good(t, ctx'[t], conn'.read_processing, block', split')
        BY <2>2, <1>2, <1>3, <1>6, OthersKeep
    <3> QED BY <3>1, <2>2, <1>1, <1>5, <1>6
  <2> QED BY <2>1, <2>2
<1>9. Base'
    BY <1>2, <1>5, <1>7, <1>8 DEF Base
<1>10. NewIdIncreases
  <2> SUFFICES ASSUME NEW t \in Streams, ctx[t].node = 0, ctx'[t].node # 0
               PROVE  /\ ctx'[t].node % 2 = 1
                      /\ \A u \in Streams \ {t} : ctx[u].node < ctx'[t].node
    BY DEF NewIdIncreases
  <2>1. t = s /\ ctx'[t].node = last + 2
    BY <1>4, <1>6
  <2> QED BY <2>1, <1>1
<1>11. PushesWhileReading
    BY <1>6 DEF PushesWhileReading, Fits
<1> QED BY <1>9, <1>10, <1>11

\* the new context of a simple call, taken apart
LEMMA ConnectFits ==
    ASSUME Base, NEW s \in Streams, Connect(s)
    PROVE  Base' /\ NewIdIncreases /\ PushesWhileReading
<1> DEFINE c == ctx[s]
           d == create_stream
<1>1. Now(s, c) /\ c \in Context /\ Good(s, c, conn.read_processing, block, split)
    BY BaseNow DEF Now
<1>2. c.pc = "none" /\ Call(s, d)
    BY DEF Connect
<1>3. c.w = <<>> /\ block.s # s
    BY <1>1, <1>2 DEF Good, Numbered, Held, Fresh
<1>4. d \in Context
  <2>1. NoStream \in Context
    BY NothingPushed DEF NoStream, Context, Pcs
  <2> QED BY <2>1 DEF create_stream, Context, Pcs
<1>5. /\ d.pc = "new" /\ d.life = "live" /\ d.node = 0 /\ d.w = <<>> /\ ~d.parsed_header
      /\ ~d.is_100_continue /\ ~d.send_header /\ ~d.write_trailer /\ ~d.queue /\ ~d.rst
      /\ d.read_wait = "none" /\ d.kind = "none"
    BY DEF create_stream, NoStream
<1> HIDE DEF d
<1>6. Ordered(d) /\ Numbered(d, conn.read_processing)
    BY <1>5, NothingPushed DEF Ordered, Numbered, Fresh, Answered
<1>7. Waiting(d) /\ Held(s, d, block) /\ Queued(s, d, split)
    BY <1>3, <1>5 DEF Waiting, Held, Queued, Answered
<1>8. Fits(s, d)
    BY <1>3, <1>4, <1>5, <1>6, <1>7 DEF Fits, Now, Good
<1> QED BY <1>2, <1>8, CallKeeps

LEMMA set_header_callbackFits ==
    ASSUME Base, NEW s \in Streams, set_header_callback(s)
    PROVE  Base' /\ NewIdIncreases /\ PushesWhileReading
<1> DEFINE c == ctx[s]
           d == [c EXCEPT !.pc = "cb", !.read_wait = "cb"]
<1>1. Now(s, c) /\ c \in Context /\ Good(s, c, conn.read_processing, block, split)
    BY BaseNow DEF Now
<1>2. c.pc = "new" /\ Call(s, d)
    BY DEF set_header_callback
<1>3. d \in Context
    BY <1>1 DEF Context, Pcs
<1>4. /\ d.pc = "cb" /\ d.life = c.life /\ d.node = c.node /\ d.w = c.w
      /\ d.in_closed = c.in_closed /\ d.out_closed = c.out_closed /\ d.rst = c.rst
      /\ d.parsed_header = c.parsed_header /\ d.is_100_continue = c.is_100_continue
      /\ d.send_header = c.send_header /\ d.write_trailer = c.write_trailer
      /\ d.queue = c.queue /\ d.read_wait = "cb" /\ d.kind = c.kind
    BY <1>1 DEF Context, Pcs
<1> HIDE DEF d
<1>5. Ordered(d) /\ Numbered(d, conn.read_processing)
    BY <1>1, <1>2, <1>4 DEF Good, Ordered, Numbered, Fresh, Answered
<1>6. Waiting(d)
    BY <1>1, <1>2, <1>4 DEF Good, Numbered, Waiting, Fresh, Answered
<1>7. Held(s, d, block) /\ Queued(s, d, split)
    BY <1>1, <1>2, <1>4 DEF Good, Waiting, Held, Queued, Fresh, Waits
<1>8. Fits(s, d)
    BY <1>3, <1>4, <1>5, <1>6, <1>7 DEF Fits, Now, Good
<1> QED BY <1>2, <1>8, CallKeeps

LEMMA SendMethodFits ==
    ASSUME Base, NEW s \in Streams, SendMethod(s)
    PROVE  Base' /\ NewIdIncreases /\ PushesWhileReading
<1> DEFINE c == ctx[s]
<1>1. Now(s, c) /\ c \in Context /\ Good(s, c, conn.read_processing, block, split)
    BY BaseNow DEF Now
<1>2. PICK k \in Kinds :
        Call(s, [c EXCEPT !.pc = "head", !.kind = k, !.send_header = TRUE,
                     !.has_upgrade = (k = "connect"), !.has_expect = (k = "expect"),
                     !.content_left = CASE k = "get" -> 0
                                        [] k \in {"put", "expect"} -> 1
                                        [] OTHER -> -1])
    BY DEF SendMethod
<1> DEFINE left == CASE k = "get" -> 0 [] k \in {"put", "expect"} -> 1 [] OTHER -> -1
           upgrade == k = "connect"
           expects == k = "expect"
           d == [c EXCEPT !.pc = "head", !.kind = k, !.send_header = TRUE,
                     !.has_upgrade = upgrade, !.has_expect = expects,
                     !.content_left = left]
<1>3. /\ left \in {-1, 0, 1} /\ (k = "trailer" => left = -1)
      /\ upgrade \in BOOLEAN /\ expects \in BOOLEAN
    OBVIOUS
<1>4. Call(s, d)
    BY <1>2
<1> HIDE DEF left, upgrade, expects
<1>5. c.pc = "cb" /\ k \in {"get", "put", "expect", "chunk", "trailer", "connect"}
  <2>1. c.pc = "cb"
    BY DEF SendMethod
  <2>2. Kinds \subseteq {"get", "put", "expect", "chunk", "trailer", "connect"}
    BY Parameters DEF ClientAssumption
  <2> QED BY <2>1, <2>2
<1>6. d \in Context
    BY <1>1, <1>3, <1>5 DEF Context, Pcs
<1>7. /\ d.pc = "head" /\ d.life = c.life /\ d.node = c.node /\ d.w = c.w
      /\ d.in_closed = c.in_closed /\ d.out_closed = c.out_closed /\ d.rst = c.rst
      /\ d.parsed_header = c.parsed_header /\ d.is_100_continue = c.is_100_continue
      /\ d.send_header /\ d.write_trailer = c.write_trailer
      /\ d.queue = c.queue /\ d.read_wait = c.read_wait /\ d.kind = k
      /\ d.content_left = left
    BY <1>1 DEF Context, Pcs
<1> HIDE DEF d
<1>8. Ordered(d) /\ Numbered(d, conn.read_processing)
    BY <1>1, <1>3, <1>5, <1>7, NothingPushed DEF Good, Ordered, Numbered, Fresh, Answered
<1>9. Waiting(d)
    BY <1>1, <1>5, <1>7 DEF Good, Numbered, Waiting, Fresh, Answered
<1>10. Held(s, d, block) /\ Queued(s, d, split)
    BY <1>1, <1>5, <1>7 DEF Good, Waiting, Held, Queued, Fresh, Waits
<1>11. Fits(s, d)
    BY <1>6, <1>7, <1>8, <1>9, <1>10 DEF Fits, Now, Good
<1> QED BY <1>4, <1>11, CallKeeps

\* write_all and write_end of a stream nobody can push on any more
LEMMA StopGood ==
    ASSUME NEW s \in Streams, NEW c, Now(s, c), c.pc = "head",
           NEW p \in {"failed", "ended"}, NEW l \in {-1, 0, 1}
    PROVE  Now(s, [c EXCEPT !.pc = p, !.content_left = l])
<1> DEFINE d == [c EXCEPT !.pc = p, !.content_left = l]
<1>1. c \in Context /\ Good(s, c, conn.read_processing, block, split)
    BY DEF Now
<1>2. d \in Context
    BY <1>1 DEF Context, Pcs
<1>3. /\ d.pc = p /\ d.life = c.life /\ d.node = c.node /\ d.w = c.w
      /\ d.in_closed = c.in_closed /\ d.out_closed = c.out_closed /\ d.rst = c.rst
      /\ d.parsed_header = c.parsed_header /\ d.is_100_continue = c.is_100_continue
      /\ d.send_header = c.send_header /\ d.write_trailer = c.write_trailer
      /\ d.queue = c.queue /\ d.read_wait = c.read_wait /\ d.kind = c.kind
    BY <1>1 DEF Context, Pcs
<1> HIDE DEF d
<1>4. Ordered(d) /\ Numbered(d, conn.read_processing)
    BY <1>1, <1>3 DEF Good, Ordered, Numbered, Fresh, Answered
<1>5. Waiting(d)
    BY <1>1, <1>3 DEF Good, Waiting, Answered
<1>6. Held(s, d, block) /\ Queued(s, d, split)
    BY <1>1, <1>3 DEF Good, Held, Queued, Fresh, Waits
<1> QED BY <1>2, <1>4, <1>5, <1>6 DEF Now, Good, d

LEMMA StopFits ==
    ASSUME Base, NEW s \in Streams, NEW p \in {"failed", "ended"},
           ctx[s].pc = "head", Call(s, [ctx[s] EXCEPT !.pc = p])
    PROVE  Base' /\ NewIdIncreases /\ PushesWhileReading
<1> DEFINE c == ctx[s]
           d == [c EXCEPT !.pc = p]
<1>1. Now(s, c) /\ c \in Context /\ c.content_left \in {-1, 0, 1}
    BY BaseNow DEF Now, Context, Pcs
<1>2. d = [c EXCEPT !.pc = p, !.content_left = c.content_left]
    BY <1>1 DEF Context, Pcs
<1>3. Now(s, d)
    BY <1>1, <1>2, StopGood
<1>4. d.node = c.node /\ d.w = c.w
    BY <1>1 DEF Context, Pcs
<1>5. Fits(s, d)
    BY <1>3, <1>4 DEF Fits
<1> QED BY <1>5, CallKeeps

\* c once a DATA frame made its frames v
DataSent(c, v, o, l, p) == [c EXCEPT !.w = v, !.out_closed = o, !.content_left = l, !.pc = p]

LEMMA DataContext ==
    ASSUME NEW c \in Context, NEW v \in Seq(Frames), NEW o \in BOOLEAN,
           NEW l \in {-1, 0, 1}, NEW p \in Pcs
    PROVE  DataSent(c, v, o, l, p) \in Context
    BY DEF Context, DataSent

\* A DATA frame of a stream whose header went out, "D." its last.
LEMMA DataGood ==
    ASSUME NEW s \in Streams, NEW c, Now(s, c), NEW f \in {"D", "D."},
           NEW o \in BOOLEAN, o <=> f = "D.", NEW l \in {-1, 0, 1}, NEW p,
           p = c.pc \/ (c.pc = "head" /\ p = "ended"),
           ~c.out_closed, c.w # <<>>, c.send_header => c.write_trailer /\ ~o,
           (c.kind = "trailer" /\ p = "head") => l = -1 /\ ~o
    PROVE  Now(s, DataSent(c, Append(c.w, f), o, l, p))
<1> DEFINE d == DataSent(c, Append(c.w, f), o, l, p)
<1>1. c \in Context /\ Good(s, c, conn.read_processing, block, split)
    BY DEF Now
<1>2. Ordered(c) /\ c.w \in Seq(Frames) /\ ~Ended(c.w) /\ LastFrame(c.w) # "R"
    BY <1>1 DEF Good, Ordered, Context, Pcs
<1>3. /\ Append(c.w, f) \in Seq(Frames) /\ Append(c.w, f) # <<>>
      /\ LastFrame(Append(c.w, f)) = f /\ WellOrdered(Append(c.w, f))
      /\ Ended(Append(c.w, f)) <=> f \in Ends
      /\ SilentAfterReset(c.w) => SilentAfterReset(Append(c.w, f))
  <2>1. f \in Frames /\ f \notin {"H", "H."} /\ WellOrdered(c.w)
    BY <1>2 DEF Frames, Ordered
  <2> QED BY <2>1, <1>2, Pushed
<1>4. p \in Pcs
    BY <1>1 DEF Context, Pcs
<1>5. d \in Context
    BY <1>1, <1>3, <1>4, DataContext
<1>6. /\ d.pc = p /\ d.life = c.life /\ d.node = c.node /\ d.w = Append(c.w, f)
      /\ d.in_closed = c.in_closed /\ d.out_closed = o /\ d.rst = c.rst
      /\ d.parsed_header = c.parsed_header /\ d.is_100_continue = c.is_100_continue
      /\ d.send_header = c.send_header /\ d.write_trailer = c.write_trailer
      /\ d.queue = c.queue /\ d.read_wait = c.read_wait /\ d.kind = c.kind
      /\ d.content_left = l
    BY <1>1 DEF Context, DataSent
<1> HIDE DEF d
<1>7. Ordered(d)
    BY <1>2, <1>3, <1>6 DEF Ordered, Ends
<1>8. Numbered(d, conn.read_processing)
    BY <1>1, <1>3, <1>6 DEF Good, Numbered, Fresh, Answered
<1>9. Waiting(d)
    BY <1>1, <1>6 DEF Good, Waiting, Answered
<1>10. Held(s, d, block) /\ Queued(s, d, split)
    BY <1>1, <1>6 DEF Good, Held, Queued, Fresh, Waits
<1> QED BY <1>5, <1>7, <1>8, <1>9, <1>10 DEF Now, Good, d

LEMMA WriteFits ==
    ASSUME Base, NEW s \in Streams, Write(s)
    PROVE  Base' /\ NewIdIncreases /\ PushesWhileReading
<1> DEFINE c == ctx[s]
           h == PendingHeader(c, c.content_left = 0)
           d == IF c.content_left = -1
                THEN [h EXCEPT !.w = Append(@, "D")]
                ELSE [h EXCEPT !.w = Append(@, "D."), !.content_left = 0, !.out_closed = TRUE]
<1>1. /\ Now(s, c) /\ c \in Context /\ conn \in Conn /\ c.content_left \in {-1, 0, 1}
      /\ Good(s, c, conn.read_processing, block, split)
    BY BaseNow DEF Now, Context, Pcs
<1>2. c.pc = "head" /\ c.content_left # 0
    BY DEF Write, MayWrite
<1>3. CASE IsWriteClosed(c)
    BY <1>2, <1>3, StopFits DEF Write
<1>4. CASE ~IsWriteClosed(c)
  <2>1. Call(s, d)
    BY <1>4 DEF Write
  <2>2. conn.read_processing /\ ~c.out_closed
    BY <1>4 DEF IsWriteClosed
  <2>3. h = PendingHeader(c, FALSE)
    BY <1>2
  <2> HIDE DEF h
  <2>4. /\ Now(s, h)
        /\ h = [c EXCEPT !.node = h.node, !.w = h.w, !.out_closed = h.out_closed,
                         !.send_header = h.send_header]
        /\ h.node = c.node \/ (c.node = 0 /\ h.node = conn.last_self_sid + 2)
        /\ ~h.send_header /\ h.w # <<>> /\ ~h.out_closed
    <3>1. c.pc \in {"head", "ended"} /\ ((c.kind = "trailer" /\ c.pc = "head") => ~FALSE)
        BY <1>2
    <3>2. Pended(s, c, FALSE, h)
        BY <3>1, <1>1, <2>3, PendingHeaderGood
    <3> QED BY <3>2, <2>2 DEF Pended
  <2>5. h \in Context /\ h.pc = "head" /\ h.kind = c.kind /\ h.content_left = c.content_left
    BY <2>4, <1>1, <1>2 DEF Now, Context, Pcs
  <2>6. Now(s, d) /\ d.node = h.node
    <3>1. CASE c.content_left = -1
      <4>1. d = DataSent(h, Append(h.w, "D"), FALSE, -1, "head")
        BY <2>4, <2>5, <3>1 DEF Context, DataSent
      <4>2. Now(s, DataSent(h, Append(h.w, "D"), FALSE, -1, "head"))
        BY <2>4, <2>5, DataGood
      <4> QED BY <4>1, <4>2, <2>5 DEF Context, DataSent
    <3>2. CASE c.content_left # -1
      <4>1. d = DataSent(h, Append(h.w, "D."), TRUE, 0, "head")
        BY <2>5, <3>2 DEF Context, DataSent
      <4>2. c.kind # "trailer"
        BY <1>1, <1>2, <3>2 DEF Good, Ordered
      <4>3. Now(s, DataSent(h, Append(h.w, "D."), TRUE, 0, "head"))
        BY <4>2, <2>4, <2>5, DataGood
      <4> QED BY <4>1, <4>3, <2>5 DEF Context, DataSent
    <3> QED BY <3>1, <3>2
  <2> HIDE DEF d
  <2>7. Fits(s, d)
    BY <2>2, <2>4, <2>6 DEF Fits
  <2> QED BY <2>1, <2>7, CallKeeps
<1> QED BY <1>3, <1>4

LEMMA SendTrailerFits ==
    ASSUME Base, NEW s \in Streams, SendTrailer(s)
    PROVE  Base' /\ NewIdIncreases /\ PushesWhileReading
<1> DEFINE c == ctx[s]
           h == PendingHeader(c, FALSE)
           d == [h EXCEPT !.write_trailer = TRUE, !.send_header = TRUE]
<1>1. Now(s, c) /\ c \in Context /\ conn \in Conn
    BY BaseNow DEF Now
<1>2. c.pc = "head" /\ c.kind = "trailer" /\ Call(s, d)
    BY DEF SendTrailer
<1>3. Pended(s, c, FALSE, h)
    BY <1>1, <1>2, PendingHeaderGood
<1> HIDE DEF h
<1>4. /\ Now(s, h) /\ h \in Context /\ Good(s, h, conn.read_processing, block, split)
      /\ h.pc = "head" /\ h.kind = "trailer"
      /\ h.node = c.node \/ (c.node = 0 /\ h.node = conn.last_self_sid + 2)
      /\ conn.read_processing => h.w # <<>>
      /\ h.w # c.w => conn.read_processing
    BY <1>1, <1>2, <1>3 DEF Pended, Now, Context
<1>5. d \in Context
    BY <1>4 DEF Context
<1>6. /\ d.pc = h.pc /\ d.life = h.life /\ d.node = h.node /\ d.w = h.w
      /\ d.in_closed = h.in_closed /\ d.out_closed = h.out_closed /\ d.rst = h.rst
      /\ d.parsed_header = h.parsed_header /\ d.is_100_continue = h.is_100_continue
      /\ d.send_header /\ d.write_trailer /\ d.content_left = h.content_left
      /\ d.queue = h.queue /\ d.read_wait = h.read_wait /\ d.kind = h.kind
    BY <1>4 DEF Context
<1> HIDE DEF d
<1>7. Ordered(d) /\ Numbered(d, conn.read_processing)
    BY <1>4, <1>6 DEF Good, Ordered, Numbered, Fresh, Answered
<1>8. Waiting(d) /\ Held(s, d, block) /\ Queued(s, d, split)
    BY <1>4, <1>6 DEF Good, Waiting, Held, Queued, Fresh, Answered, Waits
<1>9. Fits(s, d)
    BY <1>4, <1>5, <1>6, <1>7, <1>8 DEF Fits, Now, Good
<1> QED BY <1>2, <1>9, CallKeeps

\* write_end may be taken to end before it sends the header as well as after
LEMMA SendHeaderThenEnd ==
    ASSUME NEW c \in Context, NEW e \in BOOLEAN, conn.read_processing
    PROVE  SendHeader([c EXCEPT !.pc = "ended"], e)
             = [SendHeader(c, e) EXCEPT !.pc = "ended"]
    BY DEF SendHeader, Context

LEMMA WriteEndFits ==
    ASSUME Base, NEW s \in Streams, WriteEnd(s)
    PROVE  Base' /\ NewIdIncreases /\ PushesWhileReading
<1> DEFINE c == ctx[s]
<1>1. /\ Now(s, c) /\ c \in Context /\ conn \in Conn /\ c.content_left \in {-1, 0, 1}
      /\ Good(s, c, conn.read_processing, block, split) /\ c.w \in Seq(Frames)
    BY BaseNow DEF Now, Context
<1>2. c.pc = "head"
    BY DEF WriteEnd
<1>3. CASE IsWriteClosed(c)
  <2>1. Call(s, [c EXCEPT !.pc = "ended"])
    BY <1>3 DEF WriteEnd
  <2> QED BY <2>1, <1>2, StopFits
<1>4. CASE ~IsWriteClosed(c) /\ c.send_header /\ ~c.write_trailer
  <2> DEFINE b == [c EXCEPT !.pc = "ended", !.content_left = 0]
             h == PendingHeader(b, TRUE)
  <2>1. conn.read_processing
    BY <1>4 DEF IsWriteClosed
  <2>2. Now(s, b)
    BY <1>1, <1>2, StopGood
  <2>3. /\ b \in Context /\ b.pc = "ended" /\ b.send_header /\ ~b.write_trailer
        /\ b.node = c.node /\ b.w = c.w
    BY <1>1, <1>4, <2>2 DEF Now, Context
  <2>4. Pended(s, b, TRUE, h)
    BY <2>2, <2>3, <1>1, PendingHeaderGood
  <2>5. h = [SendHeader([c EXCEPT !.content_left = 0], TRUE) EXCEPT !.pc = "ended"]
    BY <1>1, <1>4, <2>1, <2>3 DEF PendingHeader, SendHeader, Context
  <2>6. Call(s, h)
    BY <1>4, <2>5 DEF WriteEnd
  <2> HIDE DEF h
  <2>7. Fits(s, h)
    BY <2>1, <2>3, <2>4 DEF Pended, Fits
  <2> QED BY <2>6, <2>7, CallKeeps
<1>5. CASE ~IsWriteClosed(c) /\ c.send_header /\ c.write_trailer
  <2> DEFINE b == DataSent(c, Append(c.w, "D"), c.out_closed, c.content_left, "ended")
             h == PendingHeader(b, TRUE)
  <2>1. conn.read_processing /\ ~c.out_closed
    BY <1>5 DEF IsWriteClosed
  <2>2. c.w # <<>>
    BY <1>1, <1>5, <2>1 DEF Good, Numbered
  <2>3. Now(s, b)
    <3>1. c.out_closed \in BOOLEAN /\ (c.out_closed <=> "D" = "D.")
        BY <1>1, <2>1 DEF Context
    <3> QED BY <3>1, <1>1, <1>2, <1>5, <2>1, <2>2, DataGood
  <2>4. /\ b \in Context /\ b.pc = "ended" /\ b.send_header /\ b.write_trailer
        /\ b.node = c.node
    BY <1>1, <1>5, <2>3 DEF Now, Context, DataSent
  <2>5. Pended(s, b, TRUE, h)
    BY <2>3, <2>4, <1>1, PendingHeaderGood
  <2>6. h = [SendHeader([c EXCEPT !.w = Append(@, "D")], TRUE) EXCEPT !.pc = "ended"]
    <3> DEFINE g == [c EXCEPT !.w = Append(c.w, "D")]
    <3>1. Append(c.w, "D") \in Seq(Frames)
        BY <1>1 DEF Frames
    <3>2. g \in Context
        BY <1>1, <3>1 DEF Context
    <3>3. b = [g EXCEPT !.pc = "ended"]
        BY <1>1 DEF Context, DataSent
    <3>4. h = SendHeader(b, TRUE)
        BY <2>4 DEF PendingHeader
    <3>5. SendHeader([g EXCEPT !.pc = "ended"], TRUE)
            = [SendHeader(g, TRUE) EXCEPT !.pc = "ended"]
        BY <3>2, <2>1, SendHeaderThenEnd
    <3> QED BY <3>3, <3>4, <3>5
  <2>7. Call(s, h)
    BY <1>5, <2>6 DEF WriteEnd
  <2> HIDE DEF h, b
  <2>8. Fits(s, h)
    BY <2>1, <2>4, <2>5 DEF Pended, Fits
  <2> QED BY <2>7, <2>8, CallKeeps
<1>6. CASE ~IsWriteClosed(c) /\ ~c.send_header
  <2> DEFINE d == DataSent(c, Append(c.w, "D."), TRUE, c.content_left, "ended")
  <2>1. conn.read_processing /\ ~c.out_closed
    BY <1>6 DEF IsWriteClosed
  <2>2. c.w # <<>>
    BY <1>1, <1>2, <1>6 DEF Good, Numbered, Fresh
  <2>3. Now(s, d)
    BY <1>1, <1>2, <1>6, <2>1, <2>2, DataGood
  <2>4. d = [[c EXCEPT !.w = Append(@, "D."), !.out_closed = TRUE] EXCEPT !.pc = "ended"]
    BY <1>1 DEF Context, DataSent
  <2>5. Call(s, d)
    BY <1>6, <2>4 DEF WriteEnd
  <2>6. d.node = c.node
    BY <1>1 DEF Context, DataSent
  <2> HIDE DEF d
  <2>7. Fits(s, d)
    BY <2>1, <2>3, <2>6 DEF Fits
  <2> QED BY <2>5, <2>7, CallKeeps
<1>7. c.send_header \in BOOLEAN /\ c.write_trailer \in BOOLEAN
    BY <1>1 DEF Context
<1> QED BY <1>3, <1>4, <1>5, <1>6, <1>7

LEMMA ReaderContext ==
    ASSUME NEW c \in Context, NEW p \in Pcs, NEW rw \in {"none", "cb", "hdr", "body"},
           NEW q \in BOOLEAN
    PROVE  [c EXCEPT !.pc = p, !.read_wait = rw, !.queue = q] \in Context
    BY DEF Context

LEMMA read_headerFits ==
    ASSUME Base, NEW s \in Streams, read_header(s)
    PROVE  Base' /\ NewIdIncreases /\ PushesWhileReading
<1> DEFINE c == ctx[s]
           e == c.content_left = 0
           h == PendingHeader(c, e)
           d == ReadHeader(h)
<1>1. Now(s, c) /\ c \in Context /\ conn \in Conn
    BY BaseNow DEF Now
<1>2. /\ c.pc \in {"head", "ended"} /\ Call(s, d)
      /\ (c.kind = "trailer" /\ c.pc = "head") => ~e
    BY DEF read_header
<1>3. Pended(s, c, e, h)
  <2>1. e \in BOOLEAN
    OBVIOUS
  <2> HIDE DEF e
  <2> QED BY <2>1, <1>1, <1>2, PendingHeaderGood
<1> HIDE DEF h, e
<1>4. /\ h \in Context /\ Good(s, h, conn.read_processing, block, split)
      /\ h.pc \in {"head", "ended"}
      /\ h.node = c.node \/ (c.node = 0 /\ h.node = conn.last_self_sid + 2)
      /\ conn.read_processing => ~h.send_header /\ h.w # <<>>
      /\ h.w # c.w => conn.read_processing
    BY <1>1, <1>2, <1>3 DEF Pended, Now, Context
<1>5. PICK p \in {"failed", "answered", "wait"}, rw \in {"hdr", h.read_wait}, q \in BOOLEAN :
        /\ d = [h EXCEPT !.pc = p, !.read_wait = rw, !.queue = q]
        /\ p = "wait" <=> rw = "hdr"
        /\ p = "wait" => ~h.rst /\ ~h.parsed_header /\ q
        /\ p # "wait" => rw = h.read_wait /\ q = h.queue
        /\ p = "answered" => h.parsed_header
  <2>1. /\ h.read_wait # "hdr" /\ h.queue \in BOOLEAN
    BY <1>4 DEF Good, Waiting, Context
  <2>2. CASE h.rst
    <3>1. d = [h EXCEPT !.pc = "failed", !.read_wait = h.read_wait, !.queue = h.queue]
        BY <2>2, <1>4 DEF ReadHeader, Context
    <3> QED BY <2>1, <3>1
  <2>3. CASE ~h.rst /\ h.parsed_header
    <3>1. d = [h EXCEPT !.pc = "answered", !.read_wait = h.read_wait, !.queue = h.queue]
        BY <2>3, <1>4 DEF ReadHeader, Context
    <3> QED BY <2>1, <2>3, <3>1
  <2>4. CASE ~h.rst /\ ~h.parsed_header
    <3>1. d = [h EXCEPT !.pc = "wait", !.read_wait = "hdr", !.queue = TRUE]
        BY <2>4 DEF ReadHeader
    <3> QED BY <2>1, <2>4, <3>1
  <2> QED BY <2>2, <2>3, <2>4
<1> HIDE DEF d
<1>6. d \in Context
  <2>1. p \in Pcs /\ rw \in {"none", "cb", "hdr", "body"}
    BY <1>4 DEF Context, Pcs
  <2> QED BY <2>1, <1>4, <1>5, ReaderContext
<1>7. /\ d.pc = p /\ d.life = h.life /\ d.node = h.node /\ d.w = h.w
      /\ d.in_closed = h.in_closed /\ d.out_closed = h.out_closed /\ d.rst = h.rst
      /\ d.parsed_header = h.parsed_header /\ d.is_100_continue = h.is_100_continue
      /\ d.send_header = h.send_header /\ d.write_trailer = h.write_trailer
      /\ d.content_left = h.content_left /\ d.queue = q /\ d.read_wait = rw
      /\ d.kind = h.kind
    BY <1>4, <1>5 DEF Context
<1>8. Ordered(d) /\ Numbered(d, conn.read_processing)
    BY <1>4, <1>7 DEF Good, Ordered, Numbered, Fresh, Answered
<1>9. Waiting(d)
    BY <1>4, <1>5, <1>7 DEF Good, Waiting, Answered
<1>10. Held(s, d, block) /\ Queued(s, d, split)
    BY <1>4, <1>5, <1>7 DEF Good, Held, Queued, Fresh, Waiting, Waits
<1>11. Fits(s, d)
    BY <1>4, <1>6, <1>7, <1>8, <1>9, <1>10 DEF Fits, Now, Good
<1> QED BY <1>2, <1>11, CallKeeps

\* read sends the end of a request only while the connection is read
LEMMA EndOnReadGood ==
    ASSUME Base, NEW s \in Streams, ctx[s].pc = "answered"
    PROVE  LET c == ctx[s]
               e == EndOnRead(c)
           IN  /\ Now(s, e) /\ e.pc = "answered" /\ e.node = c.node
               /\ e.w # c.w => conn.read_processing
<1> DEFINE c == ctx[s]
           e == EndOnRead(c)
           ends == ~c.out_closed /\ (~c.has_upgrade \/ c.has_expect)
<1>1. /\ Now(s, c) /\ c \in Context /\ conn \in Conn /\ c.content_left \in {-1, 0, 1}
      /\ Good(s, c, conn.read_processing, block, split)
    BY BaseNow DEF Now, Context
<1>2. CASE ~ends
    BY <1>1, <1>2 DEF EndOnRead
<1>3. CASE ends
  <2>1. c.node # 0 /\ c.w # <<>>
    BY <1>1 DEF Good, Numbered, Waiting, Answered
  <2>2. conn.read_processing /\ ~c.send_header
    BY <1>1, <1>3, <2>1 DEF Good, Numbered, Answered
  <2>3. e = DataSent(c, Append(c.w, "D."), TRUE, c.content_left, "answered")
    BY <1>1, <1>3 DEF EndOnRead, DataSent, Context
  <2>4. Now(s, DataSent(c, Append(c.w, "D."), TRUE, c.content_left, "answered"))
    BY <1>1, <1>3, <2>1, <2>2, DataGood
  <2>5. e.pc = "answered" /\ e.node = c.node
    BY <1>1, <2>3 DEF DataSent, Context
  <2> QED BY <2>2, <2>3, <2>4, <2>5
<1> QED BY <1>2, <1>3

LEMMA ReadFits ==
    ASSUME Base, NEW s \in Streams, Read(s)
    PROVE  Base' /\ NewIdIncreases /\ PushesWhileReading
<1> DEFINE c == EndOnRead(ctx[s])
           d == ReadBody(c)
<1>1. ctx[s].pc = "answered" /\ Call(s, d)
    BY DEF Read
<1>2. /\ Now(s, c) /\ c.pc = "answered" /\ c.node = ctx[s].node
      /\ c.w # ctx[s].w => conn.read_processing
    BY <1>1, EndOnReadGood
<1> HIDE DEF c
<1>3. c \in Context /\ Good(s, c, conn.read_processing, block, split)
    BY <1>2 DEF Now
<1>4. c.read_wait \in {"none", "cb", "hdr", "body"} /\ c.queue \in BOOLEAN
      /\ c.read_buffer \in BOOLEAN /\ c.rst \in BOOLEAN /\ c.in_closed \in BOOLEAN
    BY <1>3 DEF Context
<1>5. PICK p \in {"answered", "failed", "done", "rwait"}, rw \in {"body", c.read_wait},
           q \in BOOLEAN, rb \in BOOLEAN :
        /\ d = [c EXCEPT !.pc = p, !.read_wait = rw, !.queue = q, !.read_buffer = rb]
        /\ p = "rwait" <=> rw = "body"
        /\ p = "rwait" => ~c.rst /\ q
        /\ p # "rwait" => rw = c.read_wait /\ q = c.queue
  <2>1. c.read_wait # "body"
    BY <1>2, <1>3 DEF Good, Waiting
  <2>2. CASE c.read_buffer
    <3>1. d = [c EXCEPT !.pc = "answered", !.read_wait = c.read_wait, !.queue = c.queue,
                        !.read_buffer = FALSE]
        BY <2>2, <1>2, <1>3 DEF ReadBody, Context
    <3> QED BY <2>1, <1>4, <3>1
  <2>3. CASE ~c.read_buffer /\ c.rst
    <3>1. d = [c EXCEPT !.pc = "failed", !.read_wait = c.read_wait, !.queue = c.queue,
                        !.read_buffer = c.read_buffer]
        BY <2>3, <1>3 DEF ReadBody, Context
    <3> QED BY <2>1, <1>4, <3>1
  <2>4. CASE ~c.read_buffer /\ ~c.rst /\ c.in_closed
    <3>1. d = [c EXCEPT !.pc = "done", !.read_wait = c.read_wait, !.queue = c.queue,
                        !.read_buffer = c.read_buffer]
        BY <2>4, <1>3 DEF ReadBody, Context
    <3> QED BY <2>1, <1>4, <3>1
  <2>5. CASE ~c.read_buffer /\ ~c.rst /\ ~c.in_closed
    <3>1. d = [c EXCEPT !.pc = "rwait", !.read_wait = "body", !.queue = TRUE,
                        !.read_buffer = c.read_buffer]
        BY <2>5, <1>3 DEF ReadBody, Context
    <3> QED BY <2>1, <2>5, <1>4, <3>1
  <2> QED BY <1>4, <2>2, <2>3, <2>4, <2>5
<1> HIDE DEF d
<1>6. d \in Context
  <2>1. p \in Pcs /\ rw \in {"none", "cb", "hdr", "body"}
    BY <1>4 DEF Pcs
  <2> QED BY <1>3, <1>5, <2>1 DEF Context
<1>7. /\ d.pc = p /\ d.life = c.life /\ d.node = c.node /\ d.w = c.w
      /\ d.in_closed = c.in_closed /\ d.out_closed = c.out_closed /\ d.rst = c.rst
      /\ d.parsed_header = c.parsed_header /\ d.is_100_continue = c.is_100_continue
      /\ d.send_header = c.send_header /\ d.write_trailer = c.write_trailer
      /\ d.content_left = c.content_left /\ d.queue = q /\ d.read_wait = rw
      /\ d.kind = c.kind
    BY <1>3, <1>5 DEF Context
<1>8. Ordered(d) /\ Numbered(d, conn.read_processing)
    BY <1>2, <1>3, <1>7 DEF Good, Ordered, Numbered, Fresh, Answered
<1>9. Waiting(d)
    BY <1>2, <1>3, <1>5, <1>7 DEF Good, Waiting, Answered
<1>10. Held(s, d, block) /\ Queued(s, d, split)
    BY <1>2, <1>3, <1>5, <1>7 DEF Good, Held, Queued, Fresh, Waiting, Waits
<1>11. Fits(s, d)
    BY <1>2, <1>6, <1>7, <1>8, <1>9, <1>10 DEF Fits, Now, Good
<1> QED BY <1>1, <1>11, CallKeeps

LEMMA ShutdownFits ==
    ASSUME Base, NEW s \in Streams, Shutdown(s)
    PROVE  Base' /\ NewIdIncreases /\ PushesWhileReading
<1> DEFINE d == terminate_stream(ctx[s])
<1>1. Call(s, d) /\ ctx[s].pc \notin {"none", "gone"}
    BY DEF Shutdown
<1>2. Now(s, d) /\ d.node = ctx[s].node /\ (d.w # ctx[s].w => conn.read_processing)
    BY <1>1, BaseNow, TerminateGood
<1> HIDE DEF d
<1>3. Fits(s, d)
    BY <1>2 DEF Fits
<1> QED BY <1>1, <1>3, CallKeeps

LEMMA StreamTimeoutFits ==
    ASSUME Base, NEW s \in Streams, StreamTimeout(s)
    PROVE  Base' /\ NewIdIncreases /\ PushesWhileReading
<1> DEFINE c == ctx[s]
<1>1. Now(s, c) /\ c \in Context /\ conn \in Conn
      /\ Good(s, c, conn.read_processing, block, split) /\ c.rst \in BOOLEAN
    BY BaseNow DEF Now, Context
<1>2. CASE c.rst
  <2> DEFINE d == [c EXCEPT !.queue = FALSE]
  <2>1. Call(s, d)
    BY <1>2 DEF StreamTimeout
  <2>2. d \in Context
    BY <1>1 DEF Context
  <2>3. /\ d.pc = c.pc /\ d.life = c.life /\ d.node = c.node /\ d.w = c.w
        /\ d.in_closed = c.in_closed /\ d.out_closed = c.out_closed /\ d.rst = c.rst
        /\ d.parsed_header = c.parsed_header /\ d.is_100_continue = c.is_100_continue
        /\ d.send_header = c.send_header /\ d.write_trailer = c.write_trailer
        /\ d.content_left = c.content_left /\ ~d.queue /\ d.read_wait = c.read_wait
        /\ d.kind = c.kind
    BY <1>1 DEF Context
  <2> HIDE DEF d
  <2>4. Ordered(d) /\ Numbered(d, conn.read_processing)
    BY <1>1, <2>3 DEF Good, Ordered, Numbered
  <2>5. Waiting(d) /\ Held(s, d, block) /\ Queued(s, d, split)
    BY <1>1, <2>3 DEF Good, Waiting, Held, Queued
  <2>6. Fits(s, d)
    BY <2>2, <2>3, <2>4, <2>5 DEF Fits, Now, Good
  <2> QED BY <2>1, <2>6, CallKeeps
<1>3. CASE ~c.rst
  <2> DEFINE d == terminate_stream(c)
  <2>1. Call(s, d)
    BY <1>3 DEF StreamTimeout
  <2>2. Now(s, d) /\ d.node = c.node /\ (d.w # c.w => conn.read_processing)
    BY <1>1, <1>3, TerminateGood
  <2> HIDE DEF d
  <2>3. Fits(s, d)
    BY <2>2 DEF Fits
  <2> QED BY <2>1, <2>3, CallKeeps
<1> QED BY <1>1, <1>2, <1>3

\* c given back: its frames are v, it is closed as i and o say, reset as r says
GoneAs(c, v, i, o, r, l) ==
    [c EXCEPT !.read_wait = "none", !.node = 0, !.in_closed = i, !.out_closed = o,
              !.rst = r, !.w = v, !.pc = "gone", !.life = l]

LEMMA GoneContext ==
    ASSUME NEW c \in Context, NEW v \in Seq(Frames), NEW i \in BOOLEAN, NEW o \in BOOLEAN,
           NEW r \in BOOLEAN, NEW l \in {"none", "live", "doomed", "gone"}
    PROVE  GoneAs(c, v, i, o, r, l) \in Context
<1> DEFINE e == [c EXCEPT !.read_wait = "none", !.node = 0, !.pc = "gone", !.life = l]
<1>1. e \in Context
    BY DEF Context, Pcs
<1>2. [e EXCEPT !.in_closed = i, !.out_closed = o, !.rst = r, !.w = v] \in Context
  <2> HIDE DEF e
  <2> QED BY <1>1 DEF Context
<1> QED BY <1>2 DEF GoneAs, Context

LEMMA DestroyFits ==
    ASSUME Base, NEW s \in Streams, Destroy(s)
    PROVE  Base' /\ NewIdIncreases /\ PushesWhileReading
<1> DEFINE c == ctx[s]
           d == [release_stream(c) EXCEPT !.pc = "gone", !.life = Life(s)]
<1>1. /\ Now(s, c) /\ c \in Context /\ conn \in Conn /\ c.w \in Seq(Frames)
      /\ Good(s, c, conn.read_processing, block, split)
    BY BaseNow DEF Now, Context
<1>2. c.pc \notin {"none", "wait", "rwait", "gone"} /\ ctx' = [ctx EXCEPT ![s] = d]
      /\ UNCHANGED <<conn, block, sent, split>>
    BY DEF Destroy
<1>3. Life(s) = IF block.s = s THEN "doomed" ELSE "gone"
    BY DEF Life
<1>4. PICK v \in Seq(Frames), i \in BOOLEAN, o \in BOOLEAN, r \in BOOLEAN :
        /\ d = GoneAs(c, v, i, o, r, Life(s))
        /\ \/ v = c.w /\ i = c.in_closed /\ o = c.out_closed
           \/ i /\ o /\ v = c.w
           \/ i /\ o /\ v = Append(c.w, "R") /\ c.node # 0 /\ ~(c.in_closed /\ c.out_closed)
  <2>1. CASE c.in_closed /\ c.out_closed
    <3>1. d = GoneAs(c, c.w, c.in_closed, c.out_closed, c.rst, Life(s))
        BY <2>1, <1>1 DEF release_stream, GoneAs, Context
    <3>2. c.in_closed \in BOOLEAN /\ c.out_closed \in BOOLEAN /\ c.rst \in BOOLEAN
        BY <1>1 DEF Context
    <3> QED BY <3>1, <3>2, <1>1
  <2>2. CASE ~(c.in_closed /\ c.out_closed) /\ c.node = 0
    <3>1. d = GoneAs(c, c.w, TRUE, TRUE, TRUE, Life(s))
        BY <2>2, <1>1 DEF release_stream, GoneAs, Context
    <3> QED BY <3>1, <1>1
  <2>3. CASE ~(c.in_closed /\ c.out_closed) /\ c.node # 0
    <3>1. d = GoneAs(c, Append(c.w, "R"), TRUE, TRUE, TRUE, Life(s))
        BY <2>3, <1>1 DEF release_stream, GoneAs, Context
    <3>2. Append(c.w, "R") \in Seq(Frames)
        BY <1>1 DEF Frames
    <3> QED BY <2>3, <3>1, <3>2
  <2> QED BY <2>1, <2>2, <2>3
<1> HIDE DEF d
<1>5. d \in Context
  <2>1. Life(s) \in {"none", "live", "doomed", "gone"}
    BY <1>3
  <2> QED BY <2>1, <1>1, <1>4, GoneContext
<1>6. /\ d.pc = "gone" /\ d.life = Life(s) /\ d.node = 0 /\ d.w = v
      /\ d.in_closed = i /\ d.out_closed = o /\ d.rst = r
      /\ d.parsed_header = c.parsed_header /\ d.is_100_continue = c.is_100_continue
      /\ d.send_header = c.send_header /\ d.write_trailer = c.write_trailer
      /\ d.content_left = c.content_left /\ d.queue = c.queue /\ d.read_wait = "none"
      /\ d.kind = c.kind
    BY <1>1, <1>4 DEF GoneAs, Context
<1>7. c.node # 0 => c.w # <<>>
    BY <1>1 DEF Good, Numbered
<1>8. Ordered(d)
  <2>1. CASE v = c.w
    BY <2>1, <1>1, <1>4, <1>6 DEF Good, Ordered
  <2>2. CASE i /\ o /\ v = Append(c.w, "R") /\ c.node # 0 /\ ~(c.in_closed /\ c.out_closed)
    <3>1. Ordered(c) /\ LastFrame(c.w) # "R" /\ WellOrdered(c.w) /\ "R" \in Frames
        BY <1>1, <1>7, <2>2 DEF Good, Ordered, Frames
    <3>2. /\ v # <<>> /\ LastFrame(v) = "R" /\ WellOrdered(v) /\ ~Ended(v)
          /\ SilentAfterReset(c.w) => SilentAfterReset(v)
        BY <3>1, <1>1, <1>7, <2>2, Pushed DEF Ends
    <3> QED BY <3>1, <3>2, <2>2, <1>6, <1>7 DEF Ordered
  <2> QED BY <2>1, <2>2, <1>4
<1>9. Numbered(d, conn.read_processing)
  <2>1. c.w # <<>> => v # <<>>
    BY <1>1, <1>4
  <2> QED BY <2>1, <1>1, <1>2, <1>6 DEF Good, Numbered, Fresh, Answered
<1>10. Waiting(d)
    BY <1>3, <1>6 DEF Waiting, Answered
<1>11. Held(s, d, block) /\ Queued(s, d, split)
    BY <1>1, <1>2, <1>3, <1>6 DEF Good, Held, Queued, Waiting, Waits, Fresh
<1>12. Fits(s, d)
  <2>1. v # c.w => conn.read_processing
    BY <1>1, <1>4 DEF Good, Numbered
  <2> QED BY <2>1, <1>5, <1>6, <1>8, <1>9, <1>10, <1>11 DEF Fits, Now, Good
<1>13. Call(s, d)
  <2>1. conn' = [conn EXCEPT !.last_self_sid = conn.last_self_sid]
    BY <1>1, <1>2 DEF Conn
  <2> QED BY <2>1, <1>2, <1>6 DEF Call
<1> QED BY <1>12, <1>13, CallKeeps

----------------------------------------------------------------------------
(* The steps of the peer's frames *)

\* One stream changed, and the block with it; the connection did not.
LEMMA FrameKeeps ==
    ASSUME Base, NEW s \in Streams, NEW c \in Context,
           ctx' = [ctx EXCEPT ![s] = c], UNCHANGED conn,
           Good(s, c, conn.read_processing, block', split'),
           c.node = ctx[s].node, c.w # ctx[s].w => conn.read_processing,
           block' \in [s : Streams \cup {"none"}, rest : Rests],
           IF block'.s = "none" THEN block' = NoBlock ELSE block'.s \in split',
           split \subseteq split', split' \subseteq Streams,
           \A t \in Streams \ {s} : (block'.s = t) <=> (block.s = t),
           sent' \in [Streams -> {"none", "interim", "final", "data", "trailer", "end"}]
    PROVE  Base' /\ NewIdIncreases /\ PushesWhileReading
<1>1. ctx' \in [Streams -> Context] /\ ctx'[s] = c /\ \A t \in Streams \ {s} : ctx'[t] = ctx[t]
    BY DEF Base, TypeOK
<1>2. TypeOK'
    BY <1>1 DEF Base, TypeOK
<1>3. ASSUME NEW t \in Streams
      PROVE  /\ Good(t, ctx'[t], conn'.read_processing, block', split')
             /\ ctx'[t].node = ctx[t].node
             /\ ctx'[t].w # ctx[t].w => conn.read_processing
  <2>1. CASE t = s
    BY <2>1, <1>1
  <2>2. CASE t # s
    BY <2>2, <1>1, OthersKeep
  <2> QED BY <2>1, <2>2
<1>4. Base'
  <2>1. conn'.last_self_sid = conn.last_self_sid
    OBVIOUS
  <2> QED BY <2>1, <1>2, <1>3 DEF Base
<1> QED BY <1>3, <1>4 DEF NewIdIncreases, PushesWhileReading

\* the field f of a block, for the context it is read for
LEMMA ParseKeeps ==
    ASSUME NEW c \in Context, NEW f \in FieldNames
    PROVE  \E n \in BOOLEAN, g \in SUBSET FieldNames, t \in SUBSET FieldNames :
              /\ parse_header(c, f) = [c EXCEPT !.is_100_continue = n, !.got = g, !.trailer = t]
              /\ n => c.is_100_continue \/ f = "100"
<1> DEFINE d == parse_header(c, f)
           g == IF c.read_wait = "none" THEN c.got ELSE c.got \cup {f}
           t == c.trailer \cup {f}
           n == c.is_100_continue
<1>1. /\ n \in BOOLEAN /\ g \in SUBSET FieldNames /\ t \in SUBSET FieldNames
      /\ c.got \in SUBSET FieldNames /\ c.trailer \in SUBSET FieldNames
    BY DEF Context
<1>2. \/ d = [c EXCEPT !.is_100_continue = n, !.got = c.got, !.trailer = c.trailer]
      \/ d = [c EXCEPT !.is_100_continue = TRUE, !.got = g, !.trailer = c.trailer]
            /\ f = "100"
      \/ d = [c EXCEPT !.is_100_continue = n, !.got = c.got, !.trailer = t]
      \/ d = [c EXCEPT !.is_100_continue = n, !.got = g, !.trailer = c.trailer]
  <2>1. \/ d = c
        \/ d = [c EXCEPT !.is_100_continue = TRUE, !.got = g] /\ f = "100"
        \/ d = [c EXCEPT !.trailer = t]
        \/ d = [c EXCEPT !.got = g]
    BY DEF parse_header, IsAvailable
  <2> HIDE DEF d, g, t
  <2>2. c = [c EXCEPT !.is_100_continue = n, !.got = c.got, !.trailer = c.trailer]
    BY DEF Context
  <2>3. [c EXCEPT !.is_100_continue = TRUE, !.got = g]
          = [c EXCEPT !.is_100_continue = TRUE, !.got = g, !.trailer = c.trailer]
    BY DEF Context
  <2>4. [c EXCEPT !.trailer = t]
          = [c EXCEPT !.is_100_continue = n, !.got = c.got, !.trailer = t]
    BY DEF Context
  <2>5. [c EXCEPT !.got = g]
          = [c EXCEPT !.is_100_continue = n, !.got = g, !.trailer = c.trailer]
    BY DEF Context
  <2> QED BY <2>1, <2>2, <2>3, <2>4, <2>5, Zenon
<1> HIDE DEF d, g, t, n
<1>3. (TRUE => c.is_100_continue \/ f = "100") <=> (c.is_100_continue \/ f = "100")
    OBVIOUS
<1>4. n => c.is_100_continue
    BY DEF n
<1> QED BY <1>1, <1>2, <1>3, <1>4, Zenon DEF d

\* what holds of the context a block is read for, from its first field to its end
BeingRead(c) ==
    /\ c \in Context
    /\ Ordered(c) /\ Numbered(c, conn.read_processing) /\ Waiting(c)
    /\ c.is_100_continue => c.kind = "expect"
    /\ c.pc \notin Fresh
    /\ c.node # 0 \/ c.pc = "gone"
    /\ c.rst => c.read_wait = "none"
    /\ (c.pc = "gone") <=> (c.life = "doomed")

\* c and d agree on what is not a matter of header blocks
SameFrames(c, d) == d.node = c.node /\ d.w = c.w /\ d.queue = c.queue

LEMMA ParseBeingRead ==
    ASSUME NEW c, BeingRead(c), NEW f \in FieldNames, f = "100" => c.kind = "expect"
    PROVE  BeingRead(parse_header(c, f)) /\ SameFrames(c, parse_header(c, f))
<1> DEFINE d == parse_header(c, f)
<1>1. c \in Context
    BY DEF BeingRead
<1>2. PICK n \in BOOLEAN, g \in SUBSET FieldNames, t \in SUBSET FieldNames :
         /\ d = [c EXCEPT !.is_100_continue = n, !.got = g, !.trailer = t]
         /\ n => c.is_100_continue \/ f = "100"
    BY <1>1, ParseKeeps
<1> HIDE DEF d
<1>3. d \in Context
    BY <1>1, <1>2 DEF Context
<1>4. /\ d.pc = c.pc /\ d.life = c.life /\ d.node = c.node /\ d.w = c.w
      /\ d.in_closed = c.in_closed /\ d.out_closed = c.out_closed /\ d.rst = c.rst
      /\ d.parsed_header = c.parsed_header /\ d.is_100_continue = n
      /\ d.send_header = c.send_header /\ d.write_trailer = c.write_trailer
      /\ d.content_left = c.content_left /\ d.queue = c.queue /\ d.read_wait = c.read_wait
      /\ d.kind = c.kind
    BY <1>1, <1>2 DEF Context
<1>5. Ordered(d) /\ Numbered(d, conn.read_processing)
    BY <1>4 DEF BeingRead, Ordered, Numbered
<1>6. Waiting(d)
    BY <1>4 DEF BeingRead, Waiting
<1>7. BeingRead(d)
    BY <1>2, <1>3, <1>4, <1>5, <1>6 DEF BeingRead
<1>8. SameFrames(c, d)
    BY <1>4 DEF SameFrames
<1> QED BY <1>7, <1>8 DEF d

\* c woken, or told to go on, when a block for it is complete
WokenAs(c, h, rw, p) ==
    [c EXCEPT !.is_100_continue = FALSE, !.parsed_header = h, !.read_wait = rw, !.pc = p]

LEMMA WokenContext ==
    ASSUME NEW c \in Context, NEW h \in BOOLEAN, NEW p \in Pcs,
           NEW rw \in {"none", "cb", "hdr", "body"}
    PROVE  WokenAs(c, h, rw, p) \in Context
    BY DEF WokenAs, Context

LEMMA SuccessBeingRead ==
    ASSUME NEW c, BeingRead(c)
    PROVE  LET d == on_header_success(c)
           IN BeingRead(d) /\ SameFrames(c, d) /\ ~d.is_100_continue
<1> DEFINE d == on_header_success(c)
<1>1. /\ c \in Context /\ Waiting(c) /\ c.is_100_continue \in BOOLEAN
      /\ c.rst => c.read_wait = "none"
      /\ (c.pc = "gone") <=> (c.life = "doomed")
      /\ c.parsed_header \in BOOLEAN /\ c.pc \in Pcs
      /\ c.read_wait \in {"none", "cb", "hdr", "body"}
    BY DEF BeingRead, Context
<1>2. PICK h \in BOOLEAN, rw \in {"none", "cb", c.read_wait}, p \in Pcs :
        /\ d = WokenAs(c, h, rw, p)
        /\ \/ /\ h /\ rw = "none"
              /\ p = CASE c.read_wait = "hdr"  -> "answered"
                       [] c.read_wait = "body" -> "done"
                       [] OTHER                -> c.pc
           \/ /\ c.is_100_continue /\ h = c.parsed_header
              /\ rw = IF c.read_wait = "hdr" THEN "cb" ELSE c.read_wait
              /\ p = IF c.read_wait = "hdr" THEN "head" ELSE c.pc
  <2>1. CASE c.is_100_continue
    <3> DEFINE rw == IF c.read_wait = "hdr" THEN "cb" ELSE c.read_wait
               p == IF c.read_wait = "hdr" THEN "head" ELSE c.pc
    <3>1. d = WokenAs(c, c.parsed_header, rw, p)
        BY <2>1, <1>1 DEF on_header_success, WokenAs, Context
    <3>2. rw \in {"none", "cb", c.read_wait} /\ p \in Pcs
        BY <1>1 DEF Pcs
    <3> HIDE DEF d
    <3> QED BY <2>1, <3>1, <3>2, <1>1
  <2>2. CASE ~c.is_100_continue /\ ~IsAvailable(c)
    <3>1. c.read_wait = "none"
        BY <2>2, <1>1 DEF IsAvailable, Waiting
    <3>2. d = [c EXCEPT !.parsed_header = TRUE]
        BY <2>2, <1>1 DEF on_header_success, IsAvailable, Context
    <3>3. d = WokenAs(c, TRUE, "none", c.pc)
        BY <2>2, <3>1, <3>2, <1>1 DEF WokenAs, Context
    <3> HIDE DEF d
    <3> QED BY <3>1, <3>3, <1>1
  <2>3. CASE ~c.is_100_continue /\ IsAvailable(c)
    <3> DEFINE p == CASE c.read_wait = "hdr"  -> "answered"
                      [] c.read_wait = "body" -> "done"
                      [] OTHER                -> c.pc
    <3>1. p \in Pcs
        BY <1>1 DEF Pcs
    <3>2. d = [[c EXCEPT !.parsed_header = TRUE] EXCEPT !.read_wait = "none", !.pc = p]
        BY <2>3, <1>1 DEF on_header_success, IsAvailable, Context
    <3>3. d = WokenAs(c, TRUE, "none", p)
      <4> HIDE DEF p, d
      <4> QED BY <3>2, <2>3, <1>1 DEF WokenAs, Context
    <3> HIDE DEF d
    <3> QED BY <3>1, <3>3
  <2> QED BY <2>1, <2>2, <2>3, <1>1
<1> HIDE DEF d
<1>3. d \in Context
    BY <1>1, <1>2, WokenContext
<1>4. /\ d.pc = p /\ d.life = c.life /\ d.node = c.node /\ d.w = c.w
      /\ d.in_closed = c.in_closed /\ d.out_closed = c.out_closed /\ d.rst = c.rst
      /\ d.parsed_header = h /\ ~d.is_100_continue
      /\ d.send_header = c.send_header /\ d.write_trailer = c.write_trailer
      /\ d.content_left = c.content_left /\ d.queue = c.queue /\ d.read_wait = rw
      /\ d.kind = c.kind
    BY <1>1, <1>2 DEF WokenAs, Context
<1>5. \/ p = c.pc
      \/ c.pc = "wait" /\ p \in {"answered", "head"} /\ (p = "head" => c.is_100_continue)
      \/ c.pc = "rwait" /\ p = "done"
  <2>1. CASE c.read_wait = "hdr"
    BY <2>1, <1>1, <1>2 DEF Waiting
  <2>2. CASE c.read_wait = "body"
    BY <2>2, <1>1, <1>2 DEF Waiting
  <2>3. CASE c.read_wait \notin {"hdr", "body"}
    BY <2>3, <1>1, <1>2 DEF Waiting
  <2> QED BY <2>1, <2>2, <2>3
<1>6. Ordered(d)
    BY <1>1, <1>2, <1>4, <1>5 DEF BeingRead, Ordered
<1>7. Numbered(d, conn.read_processing)
    BY <1>1, <1>2, <1>4, <1>5 DEF BeingRead, Numbered, Fresh, Answered
<1>8. Waiting(d)
    BY <1>1, <1>2, <1>4 DEF Waiting, Answered, BeingRead, Fresh
<1>9. BeingRead(d)
    BY <1>1, <1>2, <1>3, <1>4, <1>5, <1>6, <1>7, <1>8 DEF BeingRead, Fresh
<1>10. SameFrames(c, d)
    BY <1>4 DEF SameFrames
<1> QED BY <1>4, <1>9, <1>10 DEF d

\* The rest of a block leaves a context the parser does not hold.
LEMMA FinishGood ==
    ASSUME NEW s \in Streams, NEW c, BeingRead(c), NEW rest \in Rests, NEW b, b.s # s,
           NEW sp, s \in sp \/ ~c.queue
    PROVE  LET d == Finish(c, rest)
           IN  /\ d \in Context /\ Good(s, d, conn.read_processing, b, sp)
               /\ d.node = c.node /\ d.w = c.w
<1> DEFINE c1 == IF rest = <<>> THEN c ELSE parse_header(c, Head(rest))
           c2 == on_header_success(c1)
           l == IF c2.life = "doomed" THEN "gone" ELSE c2.life
           d == [c2 EXCEPT !.life = l]
<1>1. d = Finish(c, rest)
    BY DEF Finish
<1>2. BeingRead(c1) /\ SameFrames(c, c1)
  <2>1. CASE rest = <<>>
    BY <2>1 DEF SameFrames
  <2>2. CASE rest # <<>>
    <3>1. Head(rest) \in FieldNames /\ Head(rest) # "100"
        BY <2>2 DEF Rests, FieldNames
    <3>2. BeingRead(parse_header(c, Head(rest))) /\ SameFrames(c, parse_header(c, Head(rest)))
        BY <3>1, ParseBeingRead
    <3> QED BY <2>2, <3>2
  <2> QED BY <2>1, <2>2
<1> HIDE DEF c1
<1>3. BeingRead(c2) /\ SameFrames(c1, c2) /\ ~c2.is_100_continue
    BY <1>2, SuccessBeingRead
<1> HIDE DEF c2
<1>4. c2 \in Context /\ l \in {"none", "live", "gone"}
    BY <1>3 DEF BeingRead, Context
<1>5. c2.node = c.node /\ c2.w = c.w /\ c2.queue = c.queue
    BY <1>2, <1>3 DEF SameFrames
<1>6. (l = "gone") <=> (c2.pc = "gone")
    BY <1>3 DEF BeingRead, Waiting
<1>7. (l = "none") <=> (c2.pc = "none")
    BY <1>3 DEF BeingRead, Waiting
<1> HIDE DEF l
<1>8. d \in Context
    BY <1>4 DEF Context
<1>9. /\ d.pc = c2.pc /\ d.life = l /\ d.node = c2.node /\ d.w = c2.w
      /\ d.in_closed = c2.in_closed /\ d.out_closed = c2.out_closed /\ d.rst = c2.rst
      /\ d.parsed_header = c2.parsed_header /\ d.is_100_continue = c2.is_100_continue
      /\ d.send_header = c2.send_header /\ d.write_trailer = c2.write_trailer
      /\ d.content_left = c2.content_left /\ d.queue = c2.queue
      /\ d.read_wait = c2.read_wait /\ d.kind = c2.kind
    BY <1>4 DEF Context
<1> HIDE DEF d
<1>10. Ordered(d) /\ Numbered(d, conn.read_processing)
    BY <1>3, <1>9 DEF BeingRead, Ordered, Numbered
<1>11. Waiting(d)
    BY <1>3, <1>4, <1>6, <1>7, <1>9 DEF BeingRead, Waiting
<1>12. Held(s, d, b) /\ Queued(s, d, sp)
    BY <1>3, <1>4, <1>5, <1>9 DEF Held, Queued
<1> QED BY <1>1, <1>5, <1>8, <1>9, <1>10, <1>11, <1>12 DEF Good

SentValues == {"none", "interim", "final", "data", "trailer", "end"}

LEMMA SentStays ==
    ASSUME Base, NEW s \in Streams, NEW v \in SentValues, sent' = [sent EXCEPT ![s] = v]
    PROVE  sent' \in [Streams -> SentValues]
    BY DEF Base, TypeOK, SentValues

\* The stream a new block is for, its queue and its incoming side already set.
LEMMA OpenBeingRead ==
    ASSUME Base, NEW s \in Streams, Known(ctx[s]), ~ctx[s].rst, ~ctx[s].in_closed,
           block.s = "none", NEW e \in BOOLEAN
    PROVE  LET c == [[ctx[s] EXCEPT !.queue = FALSE] EXCEPT !.in_closed = e]
           IN  /\ BeingRead(c) /\ ~c.queue /\ c.node = ctx[s].node /\ c.w = ctx[s].w
               /\ c.kind = ctx[s].kind /\ ~c.is_100_continue /\ c.pc # "gone"
<1> DEFINE a == ctx[s]
           c == [[a EXCEPT !.queue = FALSE] EXCEPT !.in_closed = e]
<1>1. a \in Context /\ Good(s, a, conn.read_processing, block, split) /\ s # "none"
    BY BaseNow, Parameters DEF Now, ClientAssumption
<1>2. a.node # 0 /\ a.w # <<>> /\ a.pc \notin Fresh \cup {"gone"}
    BY <1>1 DEF Known, Good, Numbered
<1>3. conn.read_processing
    BY <1>1, <1>2 DEF Good, Numbered
<1>4. c \in Context
    BY <1>1 DEF Context
<1>5. /\ c.pc = a.pc /\ c.life = a.life /\ c.node = a.node /\ c.w = a.w
      /\ c.in_closed = e /\ c.out_closed = a.out_closed /\ ~c.rst
      /\ c.parsed_header = a.parsed_header /\ c.is_100_continue = a.is_100_continue
      /\ c.send_header = a.send_header /\ c.write_trailer = a.write_trailer
      /\ c.content_left = a.content_left /\ ~c.queue
      /\ c.read_wait = a.read_wait /\ c.kind = a.kind
    BY <1>1 DEF Context
<1> HIDE DEF c
<1>6. ~a.is_100_continue /\ a.life # "doomed"
    BY <1>1 DEF Good, Held
<1>7. Ordered(c)
    BY <1>1, <1>2, <1>5 DEF Good, Ordered
<1>8. Numbered(c, conn.read_processing)
    BY <1>1, <1>2, <1>3, <1>5 DEF Good, Numbered
<1>9. Waiting(c)
    BY <1>1, <1>5 DEF Good, Waiting
<1>10. BeingRead(c)
    BY <1>2, <1>4, <1>5, <1>6, <1>7, <1>8, <1>9 DEF BeingRead
<1> QED BY <1>2, <1>5, <1>6, <1>10 DEF c

LEMMA FieldsOfBlock ==
    ASSUME NEW k, k \in {"final", "trailer", "100", "103"}
    PROVE  /\ Head(Fields(k)) \in FieldNames /\ Tail(Fields(k)) \in Rests
           /\ Head(Fields(k)) = "100" => k = "100"
<1>1. CASE k = "final"
  <2>1. Fields(k) = <<"status", "field">>
    BY <1>1 DEF Fields
  <2>2. Head(Fields(k)) = "status" /\ Tail(Fields(k)) = <<"field">>
    BY <2>1
  <2> QED BY <2>2 DEF FieldNames, Rests
<1>2. CASE k = "trailer"
  <2>1. Fields(k) = <<"t1", "t2">>
    BY <1>2 DEF Fields
  <2>2. Head(Fields(k)) = "t1" /\ Tail(Fields(k)) = <<"t2">>
    BY <2>1
  <2> QED BY <2>2 DEF FieldNames, Rests
<1>3. CASE k \in {"100", "103"}
  <2>1. Fields(k) = <<k>>
    BY <1>3 DEF Fields
  <2>2. Head(Fields(k)) = k /\ Tail(Fields(k)) = <<>>
    BY <2>1
  <2> QED BY <1>3, <2>2 DEF FieldNames, Rests
<1> QED BY <1>1, <1>2, <1>3

Blocks == {"final", "trailer"} \cup Interim

LEMMA HeadersKeeps ==
    ASSUME Base, NEW s \in Streams, NEW k \in Blocks, NEW e \in BOOLEAN, Headers(s, k, e)
    PROVE  Base' /\ NewIdIncreases /\ PushesWhileReading
<1> DEFINE c == [ctx[s] EXCEPT !.queue = FALSE]
           open == [c EXCEPT !.in_closed = e]
           first == parse_header(open, Head(Fields(k)))
           skips == ~Known(ctx[s]) \/ c.rst \/ c.in_closed
<1>1. /\ conn.read_processing /\ block = NoBlock /\ MaySend(s, k, e)
      /\ sent' = [sent EXCEPT ![s] = SentAfter(k, e)] /\ UNCHANGED conn
    BY DEF Headers
<1>2. k \in {"final", "trailer", "100", "103"} /\ "none" \notin Streams
    BY Parameters DEF ClientAssumption, Blocks
<1>3. SentAfter(k, e) \in SentValues
  <2>1. CASE e
    BY <2>1, <1>1 DEF SentAfter, SentValues, MaySend
  <2>2. CASE ~e
    BY <2>2 DEF SentAfter, SentValues, Blocks
  <2> QED BY <2>1, <2>2
<1>4. sent' \in [Streams -> SentValues]
    BY <1>1, <1>3, SentStays
<1>5. /\ ctx[s] \in Context /\ Good(s, ctx[s], conn.read_processing, block, split)
      /\ ctx \in [Streams -> Context] /\ split \subseteq Streams
      /\ block \in [s : Streams \cup {"none"}, rest : Rests] /\ block.s = "none"
    BY <1>1, BaseNow DEF Base, TypeOK, Now, NoBlock
<1>6. ASSUME UNCHANGED <<block, split>>
      PROVE  /\ block' \in [s : Streams \cup {"none"}, rest : Rests]
             /\ IF block'.s = "none" THEN block' = NoBlock ELSE block'.s \in split'
             /\ split \subseteq split' /\ split' \subseteq Streams
             /\ \A t \in Streams \ {s} : (block'.s = t) <=> (block.s = t)
    BY <1>6, <1>5 DEF Base
<1>7. CASE skips
  <2>1. /\ ctx' = [ctx EXCEPT ![s] = IF Known(ctx[s]) THEN c ELSE ctx[s]]
        /\ UNCHANGED <<block, split>>
    BY <1>7 DEF Headers
  <2>2. CASE ~Known(ctx[s])
    <3>1. ctx' = [ctx EXCEPT ![s] = ctx[s]]
        BY <2>1, <2>2
    <3>2. Good(s, ctx[s], conn.read_processing, block', split')
        BY <2>1, <1>5
    <3> QED BY <3>1, <3>2, <2>1, <1>6, <1>1, <1>4, <1>5, FrameKeeps DEF SentValues
  <2>3. CASE Known(ctx[s])
    <3>1. ctx' = [ctx EXCEPT ![s] = c]
        BY <2>1, <2>3
    <3>2. c \in Context
        BY <1>5 DEF Context
    <3>3. /\ c.pc = ctx[s].pc /\ c.life = ctx[s].life /\ c.node = ctx[s].node
          /\ c.w = ctx[s].w /\ c.in_closed = ctx[s].in_closed
          /\ c.out_closed = ctx[s].out_closed /\ c.rst = ctx[s].rst
          /\ c.parsed_header = ctx[s].parsed_header
          /\ c.is_100_continue = ctx[s].is_100_continue
          /\ c.send_header = ctx[s].send_header /\ c.write_trailer = ctx[s].write_trailer
          /\ c.content_left = ctx[s].content_left /\ ~c.queue
          /\ c.read_wait = ctx[s].read_wait /\ c.kind = ctx[s].kind
        BY <1>5 DEF Context
    <3> HIDE DEF c
    <3>4. Ordered(c) /\ Numbered(c, conn.read_processing)
        BY <1>5, <3>3 DEF Good, Ordered, Numbered
    <3>5. Waiting(c) /\ Held(s, c, block) /\ Queued(s, c, split)
        BY <1>5, <3>3 DEF Good, Waiting, Held, Queued
    <3>6. Good(s, c, conn.read_processing, block', split')
        BY <2>1, <3>4, <3>5 DEF Good
    <3>7. /\ block' \in [s : Streams \cup {"none"}, rest : Rests]
          /\ IF block'.s = "none" THEN block' = NoBlock ELSE block'.s \in split'
          /\ split \subseteq split' /\ split' \subseteq Streams
          /\ \A t \in Streams \ {s} : (block'.s = t) <=> (block.s = t)
        BY <2>1, <1>6
    <3>8. c.node = ctx[s].node /\ c.w = ctx[s].w
        BY <3>3
    <3> QED BY <3>1, <3>2, <3>6, <3>7, <3>8, <1>1, <1>4, FrameKeeps DEF SentValues
  <2> QED BY <2>2, <2>3
<1>8. CASE ~skips
  <2>1. Known(ctx[s]) /\ ~ctx[s].rst /\ ~ctx[s].in_closed
    BY <1>5, <1>8 DEF Context
  <2>2. /\ BeingRead(open) /\ ~open.queue /\ open.node = ctx[s].node
        /\ open.w = ctx[s].w /\ open.kind = ctx[s].kind
    BY <2>1, <1>5, OpenBeingRead
  <2>3. Head(Fields(k)) \in FieldNames /\ Tail(Fields(k)) \in Rests
        /\ (Head(Fields(k)) = "100" => open.kind = "expect")
    BY <1>1, <1>2, <2>2, FieldsOfBlock DEF MaySend
  <2>4. BeingRead(first) /\ SameFrames(open, first)
    BY <2>2, <2>3, ParseBeingRead
  <2>5. /\ first.node = ctx[s].node /\ first.w = ctx[s].w /\ ~first.queue
    BY <2>2, <2>4 DEF SameFrames
  <2>6. \/ /\ ctx' = [ctx EXCEPT ![s] = Finish(first, Tail(Fields(k)))]
           /\ UNCHANGED <<block, split>>
        \/ /\ ctx' = [ctx EXCEPT ![s] = first]
           /\ block' = [s |-> s, rest |-> Tail(Fields(k))]
           /\ split' = split \cup {s}
    BY <1>8 DEF Headers
  <2> HIDE DEF first, open
  <2>7. CASE /\ ctx' = [ctx EXCEPT ![s] = Finish(first, Tail(Fields(k)))]
             /\ UNCHANGED <<block, split>>
    <3> DEFINE d == Finish(first, Tail(Fields(k)))
    <3>1. /\ d \in Context /\ Good(s, d, conn.read_processing, block, split)
          /\ d.node = first.node /\ d.w = first.w
        BY <2>3, <2>4, <2>5, <1>2, <1>5, FinishGood
    <3> HIDE DEF d
    <3>2. ctx' = [ctx EXCEPT ![s] = d]
        BY <2>7 DEF d
    <3>3. Good(s, d, conn.read_processing, block', split')
        BY <2>7, <3>1
    <3>4. /\ block' \in [s : Streams \cup {"none"}, rest : Rests]
          /\ IF block'.s = "none" THEN block' = NoBlock ELSE block'.s \in split'
          /\ split \subseteq split' /\ split' \subseteq Streams
          /\ \A t \in Streams \ {s} : (block'.s = t) <=> (block.s = t)
        BY <2>7, <1>6
    <3>5. d.node = ctx[s].node /\ d.w = ctx[s].w /\ d \in Context
        BY <3>1, <2>5
    <3> QED BY <3>2, <3>3, <3>4, <3>5, <1>1, <1>4, FrameKeeps DEF SentValues
  <2>8. CASE /\ ctx' = [ctx EXCEPT ![s] = first]
             /\ block' = [s |-> s, rest |-> Tail(Fields(k))]
             /\ split' = split \cup {s}
    <3>1. first.pc # "gone" /\ first.life # "doomed"
        BY <2>4, <2>5, <2>1 DEF BeingRead, Numbered, Known
    <3>2. block'.s = s
        BY <2>8
    <3>3. Held(s, first, block') /\ Queued(s, first, split')
        BY <2>4, <2>5, <2>8, <3>1, <3>2 DEF BeingRead, Held, Queued
    <3>4. Good(s, first, conn.read_processing, block', split') /\ first \in Context
        BY <2>4, <3>3 DEF BeingRead, Good
    <3>5. /\ block' \in [s : Streams \cup {"none"}, rest : Rests]
          /\ IF block'.s = "none" THEN block' = NoBlock ELSE block'.s \in split'
          /\ split \subseteq split' /\ split' \subseteq Streams
          /\ \A t \in Streams \ {s} : (block'.s = t) <=> (block.s = t)
        BY <2>3, <2>8, <3>2, <1>2, <1>5
    <3> QED BY <3>4, <3>5, <2>5, <2>8, <1>1, <1>4, FrameKeeps DEF SentValues
  <2> QED BY <2>6, <2>7, <2>8
<1> QED BY <1>7, <1>8

LEMMA HeadersEndKeeps ==
    ASSUME Base, HeadersEnd
    PROVE  Base' /\ NewIdIncreases /\ PushesWhileReading
<1> DEFINE s == block.s
           c == ctx[s]
           d == Finish(c, block.rest)
<1>1. /\ block # NoBlock /\ ctx' = [ctx EXCEPT ![s] = d] /\ block' = NoBlock
      /\ UNCHANGED <<conn, sent, split>>
    BY DEF HeadersEnd
<1>2. block \in [s : Streams \cup {"none"}, rest : Rests]
    BY DEF Base, TypeOK
<1>3. s \in Streams /\ s \in split /\ "none" \notin Streams
    BY <1>1, <1>2, Parameters DEF Base, ClientAssumption
<1>4. c \in Context /\ Good(s, c, conn.read_processing, block, split) /\ block.rest \in Rests
    BY <1>2, <1>3, BaseNow DEF Now
<1>5. BeingRead(c)
    BY <1>4 DEF BeingRead, Good, Held
<1>6. block'.s = "none"
    BY <1>1 DEF NoBlock
<1>7. /\ d \in Context /\ Good(s, d, conn.read_processing, block', split)
      /\ d.node = c.node /\ d.w = c.w
    BY <1>3, <1>4, <1>5, <1>6, FinishGood
<1>8. /\ block' \in [s : Streams \cup {"none"}, rest : Rests]
      /\ IF block'.s = "none" THEN block' = NoBlock ELSE block'.s \in split'
      /\ split \subseteq split' /\ split' \subseteq Streams
      /\ \A t \in Streams \ {s} : (block'.s = t) <=> (block.s = t)
      /\ sent' \in [Streams -> SentValues]
    BY <1>1, <1>3, <1>6 DEF Base, TypeOK, NoBlock, Rests, SentValues
<1> HIDE DEF d
<1> DEFINE t == block.s
<1> HIDE DEF s
<1>9. Good(s, d, conn.read_processing, block', split')
    BY <1>1, <1>7
<1> QED BY <1>1, <1>3, <1>7, <1>8, <1>9, FrameKeeps DEF SentValues

\* c after DATA: buffered, or handed to the fiber that waits for it
TookAs(c, e, rb, rw, q, p) ==
    [c EXCEPT !.in_closed = e, !.read_buffer = rb, !.read_wait = rw, !.queue = q, !.pc = p]

LEMMA TookContext ==
    ASSUME NEW c \in Context, NEW e \in BOOLEAN, NEW rb \in BOOLEAN,
           NEW rw \in {"none", "cb", "hdr", "body"}, NEW q \in BOOLEAN, NEW p \in Pcs
    PROVE  TookAs(c, e, rb, rw, q, p) \in Context
    BY DEF TookAs, Context

LEMMA DataKeeps ==
    ASSUME Base, NEW s \in Streams, NEW n \in BOOLEAN, NEW e \in BOOLEAN, Data(s, n, e)
    PROVE  Base' /\ NewIdIncreases /\ PushesWhileReading
<1> DEFINE c == ctx[s]
           took == IF n THEN [c EXCEPT !.read_buffer = (c.read_wait # "body"),
                                       !.in_closed = e]
                   ELSE [c EXCEPT !.in_closed = e]
           wakes == c.read_wait = "body" /\ (n \/ e)
           woken == [took EXCEPT !.read_wait = "none", !.queue = FALSE,
                                 !.pc = IF n THEN "answered" ELSE "done"]
           d == IF ~Known(c) THEN c
                ELSE IF ~c.parsed_header \/ c.in_closed THEN terminate_stream(c)
                ELSE IF wakes THEN woken ELSE took
           v == IF e THEN "end" ELSE "data"
<1>1. /\ conn.read_processing /\ block = NoBlock /\ UNCHANGED <<conn, block, split>>
      /\ sent' = [sent EXCEPT ![s] = v] /\ ctx' = [ctx EXCEPT ![s] = d] /\ (n \/ e)
    BY DEF Data
<1>2. /\ Now(s, c) /\ c \in Context /\ Good(s, c, conn.read_processing, block, split)
      /\ conn \in Conn
    BY BaseNow DEF Now
<1>3. /\ block' \in [s : Streams \cup {"none"}, rest : Rests]
      /\ IF block'.s = "none" THEN block' = NoBlock ELSE block'.s \in split'
      /\ split \subseteq split' /\ split' \subseteq Streams
      /\ \A t \in Streams \ {s} : (block'.s = t) <=> (block.s = t)
    BY <1>1 DEF Base, TypeOK
<1>4. sent' \in [Streams -> SentValues]
  <2>1. v \in SentValues
    BY DEF SentValues
  <2> QED BY <2>1, <1>1, SentStays
<1>5. Now(s, d) /\ d.node = c.node /\ (d.w # c.w => conn.read_processing)
  <2>1. CASE ~Known(c)
    BY <2>1, <1>2
  <2>2. CASE Known(c) /\ (~c.parsed_header \/ c.in_closed)
    BY <2>2, <1>2, TerminateGood
  <2>3. CASE Known(c) /\ c.parsed_header /\ ~c.in_closed
    <3>1. PICK rb \in BOOLEAN, rw \in {"none", c.read_wait}, q \in BOOLEAN, p \in Pcs :
            /\ d = TookAs(c, e, rb, rw, q, p)
            /\ \/ rw = c.read_wait /\ q = c.queue /\ p = c.pc
               \/ c.read_wait = "body" /\ rw = "none" /\ ~q /\ p \in {"answered", "done"}
      <4> DEFINE b == IF n THEN c.read_wait # "body" ELSE c.read_buffer
                 p == IF n THEN "answered" ELSE "done"
      <4>1. b \in BOOLEAN /\ c.read_buffer \in BOOLEAN /\ c.queue \in BOOLEAN /\ c.pc \in Pcs
            /\ p \in Pcs /\ p \in {"answered", "done"}
        BY <1>2 DEF Context, Pcs
      <4>2. took = [c EXCEPT !.in_closed = e, !.read_buffer = b]
        <5>1. CASE n
            <6> DEFINE r == c.read_wait # "body"
            <6>1. took = [c EXCEPT !.read_buffer = r, !.in_closed = e] /\ b = r
                BY <5>1
            <6> HIDE DEF took, r, b
            <6> QED BY <6>1, <1>2 DEF Context
        <5>2. CASE ~n
            <6>1. took = [c EXCEPT !.in_closed = e] /\ b = c.read_buffer
                BY <5>2
            <6> HIDE DEF took, b
            <6> QED BY <6>1, <1>2 DEF Context
        <5> QED BY <5>1, <5>2
      <4>3. CASE wakes
        <5>1. d = [took EXCEPT !.read_wait = "none", !.queue = FALSE, !.pc = p]
            BY <2>3, <4>3
        <5> HIDE DEF took, d, p, b
        <5>2. d = TookAs(c, e, b, "none", FALSE, p)
            BY <4>2, <5>1, <1>2 DEF TookAs, Context
        <5> QED BY <4>1, <4>3, <5>2
      <4>4. CASE ~wakes
        <5>1. d = took
            BY <2>3, <4>4
        <5> HIDE DEF took, d, p, b
        <5>2. d = TookAs(c, e, b, c.read_wait, c.queue, c.pc)
            BY <4>2, <5>1, <1>2 DEF TookAs, Context
        <5> QED BY <4>1, <5>2
      <4> QED BY <4>3, <4>4
    <3> HIDE DEF d
    <3>2. d \in Context
      <4>1. rw \in {"none", "cb", "hdr", "body"} /\ q \in BOOLEAN
        BY <1>2 DEF Context
      <4> QED BY <4>1, <3>1, <1>2, TookContext
    <3>3. /\ d.pc = p /\ d.life = c.life /\ d.node = c.node
          /\ d.w = c.w /\ d.in_closed = e
          /\ d.out_closed = c.out_closed /\ d.rst = c.rst
          /\ d.parsed_header = c.parsed_header
          /\ d.is_100_continue = c.is_100_continue
          /\ d.send_header = c.send_header /\ d.write_trailer = c.write_trailer
          /\ d.content_left = c.content_left /\ d.queue = q
          /\ d.read_wait = rw /\ d.kind = c.kind
        BY <3>1, <1>2 DEF TookAs, Context
    <3>4. Ordered(d)
        BY <1>2, <2>3, <3>1, <3>3 DEF Good, Ordered, Waiting
    <3>5. Numbered(d, conn.read_processing)
        BY <1>1, <1>2, <3>1, <3>3 DEF Good, Numbered, Waiting, Fresh, Answered
    <3>6. Waiting(d)
        BY <1>2, <2>3, <3>1, <3>3 DEF Good, Waiting, Answered
    <3>7. Held(s, d, block) /\ Queued(s, d, split)
        BY <1>2, <3>1, <3>3 DEF Good, Held, Queued, Waiting, Waits, Fresh
    <3> QED BY <3>2, <3>3, <3>4, <3>5, <3>6, <3>7 DEF Now, Good
  <2> QED BY <2>1, <2>2, <2>3
<1> HIDE DEF d
<1>6. d \in Context /\ Good(s, d, conn.read_processing, block', split')
    BY <1>1, <1>5 DEF Now
<1> QED BY <1>1, <1>3, <1>4, <1>5, <1>6, FrameKeeps DEF SentValues

\* a read_buffer dropped or filled: no part of the invariant speaks of it
LEMMA BufferGood ==
    ASSUME NEW s \in Streams, NEW c, Now(s, c)
    PROVE  LET d == [c EXCEPT !.read_buffer = FALSE]
           IN  Now(s, d) /\ d.node = c.node /\ d.w = c.w
<1> DEFINE d == [c EXCEPT !.read_buffer = FALSE]
<1>1. c \in Context /\ d \in Context
    BY DEF Now, Context
<1>2. /\ d.pc = c.pc /\ d.life = c.life /\ d.node = c.node /\ d.w = c.w
      /\ d.in_closed = c.in_closed /\ d.out_closed = c.out_closed /\ d.rst = c.rst
      /\ d.parsed_header = c.parsed_header /\ d.is_100_continue = c.is_100_continue
      /\ d.send_header = c.send_header /\ d.write_trailer = c.write_trailer
      /\ d.content_left = c.content_left /\ d.queue = c.queue /\ d.read_wait = c.read_wait
      /\ d.kind = c.kind
    BY <1>1 DEF Context
<1> HIDE DEF d
<1>3. Ordered(d) /\ Numbered(d, conn.read_processing)
    BY <1>2 DEF Now, Good, Ordered, Numbered
<1>4. Waiting(d) /\ Held(s, d, block) /\ Queued(s, d, split)
    BY <1>2 DEF Now, Good, Waiting, Held, Queued, Waits
<1> QED BY <1>1, <1>2, <1>3, <1>4 DEF Now, Good, d

LEMMA RstStreamKeeps ==
    ASSUME Base, NEW s \in Streams, RstStream(s)
    PROVE  Base' /\ NewIdIncreases /\ PushesWhileReading
<1> DEFINE c == ctx[s]
           d == IF Known(c) THEN [Broken(c) EXCEPT !.read_buffer = FALSE] ELSE c
<1>1. /\ block = NoBlock /\ UNCHANGED <<conn, block, split>>
      /\ sent' = [sent EXCEPT ![s] = "end"] /\ ctx' = [ctx EXCEPT ![s] = d]
    BY DEF RstStream
<1>2. Now(s, c) /\ conn.read_processing \in BOOLEAN
    BY BaseNow DEF Conn
<1>3. Now(s, d) /\ d.node = c.node /\ d.w = c.w
  <2>1. Now(s, Broken(c)) /\ Broken(c).node = c.node /\ Broken(c).w = c.w
    BY <1>2, BrokenGood DEF Now
  <2> QED BY <2>1, <1>2, BufferGood
<1>4. /\ block' \in [s : Streams \cup {"none"}, rest : Rests]
      /\ IF block'.s = "none" THEN block' = NoBlock ELSE block'.s \in split'
      /\ split \subseteq split' /\ split' \subseteq Streams
      /\ \A t \in Streams \ {s} : (block'.s = t) <=> (block.s = t)
    BY <1>1 DEF Base, TypeOK
<1>5. sent' \in [Streams -> SentValues]
    BY <1>1, SentStays DEF SentValues
<1> HIDE DEF d
<1>6. d \in Context /\ Good(s, d, conn.read_processing, block', split')
    BY <1>1, <1>3 DEF Now
<1> QED BY <1>1, <1>3, <1>4, <1>5, <1>6, FrameKeeps DEF SentValues

LEMMA closeKeeps ==
    ASSUME Base, NEW read \in BOOLEAN, close(read)
    PROVE  Base' /\ NewIdIncreases /\ PushesWhileReading
<1> DEFINE reading == conn.read_processing /\ ~read
<1>1. /\ UNCHANGED <<block, sent, split>>
      /\ ctx' = [s \in Streams |-> IF Known(ctx[s]) THEN Broken(ctx[s]) ELSE ctx[s]]
      /\ conn' = [conn EXCEPT !.closed = TRUE, !.read_processing = @ /\ ~read,
                              !.goaway = @ \/ read]
    BY DEF close
<1>2. conn \in Conn
    BY DEF Base, TypeOK
<1>3. /\ conn' \in Conn /\ conn'.last_self_sid = conn.last_self_sid
      /\ conn'.read_processing = reading /\ reading \in BOOLEAN
  <2> DEFINE g == conn.goaway \/ read
  <2>1. g \in BOOLEAN /\ reading \in BOOLEAN
    OBVIOUS
  <2>2. conn' = [conn EXCEPT !.closed = TRUE, !.read_processing = reading, !.goaway = g]
    BY <1>1
  <2> HIDE DEF g, reading
  <2> QED BY <2>1, <2>2, <1>2 DEF Conn
<1>4. ASSUME NEW s \in Streams
      PROVE  /\ ctx'[s] \in Context /\ Good(s, ctx'[s], reading, block, split)
             /\ ctx'[s].node = ctx[s].node /\ ctx'[s].w = ctx[s].w
  <2>1. Now(s, ctx[s]) /\ (reading => conn.read_processing)
    BY BaseNow
  <2>2. CASE Known(ctx[s])
    <3>1. ctx'[s] = Broken(ctx[s])
        BY <2>2, <1>1
    <3>2. reading \in BOOLEAN
        BY <1>3
    <3> HIDE DEF reading
    <3> QED BY <3>1, <3>2, <2>1, BrokenGood
  <2>3. CASE ~Known(ctx[s])
    <3>1. ctx'[s] = ctx[s]
        BY <2>3, <1>1
    <3>2. Numbered(ctx[s], reading)
        BY <2>1, <2>3 DEF Now, Good, Numbered, Known
    <3> QED BY <2>1, <3>1, <3>2 DEF Now, Good
  <2> QED BY <2>2, <2>3
<1>5. ctx' \in [Streams -> Context]
    BY <1>1, <1>4
<1>6. TypeOK'
    BY <1>1, <1>3, <1>5 DEF Base, TypeOK
<1>7. Base'
    BY <1>1, <1>3, <1>4, <1>6 DEF Base, NoBlock
<1> QED BY <1>4, <1>7 DEF NewIdIncreases, PushesWhileReading

LEMMA GoawayKeeps ==
    ASSUME Base, Goaway
    PROVE  Base' /\ NewIdIncreases /\ PushesWhileReading
<1>1. UNCHANGED <<ctx, block, sent, split>> /\ conn' = [conn EXCEPT !.goaway = TRUE]
    BY DEF Goaway
<1>2. /\ conn' \in Conn /\ conn'.last_self_sid = conn.last_self_sid
      /\ conn'.read_processing = conn.read_processing
    BY <1>1 DEF Base, TypeOK, Conn
<1>3. TypeOK'
    BY <1>1, <1>2 DEF Base, TypeOK
<1>4. Base'
    BY <1>1, <1>2, <1>3 DEF Base, NoBlock
<1> QED BY <1>1, <1>4 DEF NewIdIncreases, PushesWhileReading

LEMMA InitBase == Init => Base
<1> SUFFICES ASSUME Init PROVE Base
    OBVIOUS
<1>1. NoStream \in Context
    BY NothingPushed DEF NoStream, Context, Pcs
<1>2. create_stream \in Context
    BY <1>1 DEF create_stream, Context, Pcs
<1>3. Admin \in Streams /\ "none" \notin Streams
    BY Parameters DEF ClientAssumption
<1>4. /\ conn = [read_processing |-> TRUE, closed |-> FALSE, goaway |-> FALSE,
                 last_self_sid |-> 1]
      /\ ctx = [s \in Streams |-> IF s = Admin THEN create_stream ELSE NoStream]
      /\ block = NoBlock /\ sent = [s \in Streams |-> "none"] /\ split = {}
    BY DEF Init
<1>5. conn \in Conn /\ conn.last_self_sid = 1 /\ conn.read_processing
    BY <1>4 DEF Conn
<1>6. TypeOK
    BY <1>1, <1>2, <1>4, <1>5 DEF TypeOK, NoBlock, Rests
<1>7. ASSUME NEW s \in Streams
      PROVE  Good(s, ctx[s], conn.read_processing, block, split) /\ ctx[s].node = 0
  <2> DEFINE c == ctx[s]
  <2>1. /\ c.pc \in {"none", "new"} /\ (c.pc = "none" => c.life = "none")
        /\ (c.pc = "new" => c.life = "live") /\ c.node = 0 /\ c.w = <<>>
        /\ ~c.parsed_header /\ ~c.is_100_continue /\ ~c.send_header /\ ~c.write_trailer
        /\ ~c.queue /\ ~c.rst /\ c.read_wait = "none" /\ c.kind = "none"
    BY <1>4 DEF create_stream, NoStream
  <2>2. block.s # s
    BY <1>3, <1>4 DEF NoBlock
  <2> HIDE DEF c
  <2>3. Ordered(c) /\ Numbered(c, conn.read_processing)
    BY <2>1, NothingPushed DEF Ordered, Numbered, Fresh, Answered
  <2>4. Waiting(c) /\ Held(s, c, block) /\ Queued(s, c, split)
    BY <2>1, <2>2 DEF Waiting, Held, Queued, Answered
  <2> QED BY <2>1, <2>3, <2>4 DEF Good, c
<1>8. conn.last_self_sid % 2 = 1 /\ 0 <= conn.last_self_sid
    BY <1>5
<1>9. IF block.s = "none" THEN block = NoBlock ELSE block.s \in split
    BY <1>4 DEF NoBlock
<1> QED BY <1>6, <1>7, <1>8, <1>9 DEF Base

LEMMA NextKeeps ==
    ASSUME Base, [Next]_vars
    PROVE  Base' /\ ((NewIdIncreases /\ PushesWhileReading) \/ UNCHANGED vars)
<1>1. CASE UNCHANGED vars
  <2>1. /\ conn' = conn /\ ctx' = ctx /\ block' = block /\ sent' = sent /\ split' = split
    BY <1>1 DEF vars
  <2>2. TypeOK'
    BY <2>1 DEF Base, TypeOK
  <2> QED BY <1>1, <2>1, <2>2 DEF Base, NoBlock
<1>2. ASSUME NEW s \in Streams,
             \/ Connect(s) \/ set_header_callback(s) \/ SendMethod(s) \/ Write(s)
             \/ SendTrailer(s) \/ WriteEnd(s) \/ read_header(s) \/ Read(s)
             \/ Shutdown(s) \/ Destroy(s) \/ RstStream(s) \/ StreamTimeout(s)
             \/ \E k \in Blocks, e \in BOOLEAN : Headers(s, k, e)
             \/ \E n, e \in BOOLEAN : Data(s, n, e)
      PROVE  Base' /\ NewIdIncreases /\ PushesWhileReading
    BY <1>2, ConnectFits, set_header_callbackFits, SendMethodFits, WriteFits,
       SendTrailerFits, WriteEndFits, read_headerFits, ReadFits, ShutdownFits,
       DestroyFits, RstStreamKeeps, StreamTimeoutFits, HeadersKeeps, DataKeeps, Zenon
<1>3. CASE HeadersEnd
    BY <1>3, HeadersEndKeeps
<1>4. CASE Goaway
    BY <1>4, GoawayKeeps
<1>5. CASE \E read \in BOOLEAN : close(read)
    BY <1>5, closeKeeps
<1>6. CASE Terminated
    BY <1>1, <1>6 DEF Terminated
<1> QED BY <1>1, <1>2, <1>3, <1>4, <1>5, <1>6 DEF Next, Blocks

LEMMA BaseAlways == Spec => []Base
<1>1. Init => Base
    BY InitBase
<1>2. Base /\ [Next]_vars => Base'
    BY NextKeeps
<1> QED BY <1>1, <1>2, PTL DEF Spec

----------------------------------------------------------------------------
(* Theorems *)

(* Every frame of KHttp2Upstream, whatever fiber or handler pushed it, has *)
(* its place in the order of the protocol, send_header numbers the streams *)
(* upwards, and start_write is never reached after close(true).            *)
THEOREM FramesAlwaysInOrder == Spec => FramesInOrder
<1>1. Base => \A s \in Streams : FrameOrder(s)
  <2> SUFFICES ASSUME Base, NEW s \in Streams PROVE FrameOrder(s)
    OBVIOUS
  <2>1. Ordered(ctx[s])
    BY DEF Base, Good
  <2> QED BY <2>1 DEF FrameOrder, Ordered, WellOrdered, SilentAfterReset, Ends
<1>2. Base /\ [Next]_vars => [NewIdIncreases /\ PushesWhileReading]_vars
    BY NextKeeps
<1> QED BY <1>1, <1>2, BaseAlways, PTL DEF Spec, FramesInOrder

(* The context the parser holds is not freed under it (release_admin,      *)
(* ReleaseStateStream), and check_stream_timeout finds in active_queue     *)
(* only contexts that are alive and whose fiber waits.                     *)
THEOREM StreamsAlwaysLive == Spec => []StreamsLive
<1>1. Base => StreamsLive
  <2> SUFFICES ASSUME Base PROVE StreamsLive
    OBVIOUS
  <2>1. ASSUME NEW s \in Streams
        PROVE  /\ (ctx[s].life = "doomed") <=> (block.s = s /\ ctx[s].pc = "gone")
               /\ (s \notin split /\ ctx[s].queue)
                     => Waits(ctx[s]) /\ ctx[s].life = "live"
    <3>1. Good(s, ctx[s], conn.read_processing, block, split) /\ ctx[s] \in Context
        BY BaseNow DEF Now
    <3>2. ctx[s].life \in {"none", "live", "doomed", "gone"}
        BY <3>1 DEF Context
    <3> QED BY <3>1, <3>2 DEF Good, Held, Queued, Waiting, Waits
  <2> QED BY <2>1 DEF StreamsLive, ParserHoldsLive, QueueHasWaiter
<1> QED BY <1>1, BaseAlways, PTL

----------------------------------------------------------------------------
(* The answers.  103 is taken for the final header (NextIsNotTrailer), so  *)
(* what a reader has is complete only of a peer that sends 100 at most.    *)

Complete(c) == {"status", "field"} \subseteq c.got

\* a fiber or callback may still learn of what the peer sends on the stream
Here(c) == ~c.rst /\ c.pc # "gone"

\* the fields of c, when the peer has sent v on s
Told(s, c, v, b, sp) ==
    /\ v \in {"none", "interim"} => ~c.parsed_header \/ ~Here(c)
    /\ (v \in {"final", "data"} /\ b.s # s) => c.parsed_header \/ ~Here(c) \/ c.in_closed
    /\ v # "none" => c.w # <<>>
    /\ (c.pc \in Answered \/ (c.parsed_header /\ Here(c))) => Complete(c)
    /\ c.got \cap {"t1", "t2"} = {}
    /\ (s \notin sp /\ c.trailer # {}) => {"t1", "t2"} \subseteq c.trailer
    /\ (b.s = s /\ b.rest = <<>>) => c.is_100_continue /\ v \notin {"final", "data"}
    /\ (b.s = s /\ b.rest = <<"field">>) =>
          /\ ~c.is_100_continue /\ v \notin {"none", "interim"}
          /\ Here(c) => ~c.parsed_header /\ "status" \in c.got
    /\ (b.s = s /\ b.rest = <<"t2">>) =>
          /\ ~c.is_100_continue /\ v \notin {"none", "interim"}
          /\ Here(c) => c.parsed_header

Answers == \A s \in Streams : Told(s, ctx[s], sent[s], block, split)

\* d is c after a step that tells nobody of a field
Quiet(c, d) ==
    /\ d.got = c.got /\ d.trailer = c.trailer /\ d.is_100_continue = c.is_100_continue
    /\ d.parsed_header = c.parsed_header
    /\ c.rst => d.rst
    /\ c.in_closed => d.in_closed
    /\ c.pc = "gone" => d.pc = "gone"
    /\ c.w # <<>> => d.w # <<>>
    /\ d.pc \in Answered => c.pc \in Answered \/ (c.parsed_header /\ Here(c))

LEMMA QuietTold ==
    ASSUME NEW s, NEW c, NEW d, NEW v, NEW u, NEW b, NEW sp, Told(s, c, v, b, sp), Quiet(c, d),
           u \in {"none", "interim"} => v \in {"none", "interim"},
           u \in {"final", "data"} => v \in {"final", "data"},
           u # "none" => v # "none" \/ c.w # <<>>,
           b.s = s => u = v
    PROVE  Told(s, d, u, b, sp)
    BY DEF Told, Quiet, Here, Complete

\* What a step on s does to the answers, if it leaves the others alone.
LEMMA AnswersKeep ==
    ASSUME Base, Answers, NEW s \in Streams,
           Told(s, ctx'[s], sent'[s], block', split'),
           \A t \in Streams \ {s} :
              /\ ctx'[t] = ctx[t] /\ sent'[t] = sent[t]
              /\ (block'.s = t) <=> (block.s = t)
              /\ block'.s = t => block'.rest = block.rest,
           split \subseteq split'
    PROVE  Answers'
<1> SUFFICES ASSUME NEW t \in Streams, t # s
             PROVE  Told(t, ctx'[t], sent'[t], block', split')
    BY DEF Answers
<1>1. Told(t, ctx[t], sent[t], block, split)
    BY DEF Answers
<1>2. /\ ctx'[t] = ctx[t] /\ sent'[t] = sent[t] /\ (t \notin split' => t \notin split)
      /\ (block'.s = t) <=> (block.s = t)
      /\ block'.s = t => block'.rest = block.rest
    OBVIOUS
<1> QED BY <1>1, <1>2 DEF Told

LEMMA CallTells ==
    ASSUME Base, Answers, NEW s \in Streams, NEW c, Call(s, c), Quiet(ctx[s], c)
    PROVE  Answers'
<1>1. /\ ctx' = [ctx EXCEPT ![s] = c] /\ UNCHANGED <<block, sent, split>>
      /\ ctx \in [Streams -> Context]
    BY DEF Call, Base, TypeOK
<1>2. ctx'[s] = c /\ \A t \in Streams \ {s} : ctx'[t] = ctx[t]
    BY <1>1
<1>3. Told(s, ctx[s], sent[s], block, split)
    BY DEF Answers
<1>4. Told(s, c, sent[s], block, split)
    BY <1>3, QuietTold
<1>5. Told(s, ctx'[s], sent'[s], block', split')
    BY <1>1, <1>2, <1>4
<1> QED BY <1>1, <1>2, <1>5, AnswersKeep

----------------------------------------------------------------------------
(* The calls of the user tell nobody of a field *)

LEMMA FrameAfter ==
    ASSUME NEW c \in Context, NEW f \in Frames
    PROVE  Append(c.w, f) # <<>>
    BY AppendOne DEF Context

LEMMA TerminateQuiet ==
    ASSUME NEW c \in Context, Waiting(c)
    PROVE  Quiet(c, Broken(c)) /\ Quiet(c, terminate_stream(c))
<1> DEFINE b == Broken(c)
           d == terminate_stream(c)
<1>1. /\ b.got = c.got /\ b.trailer = c.trailer /\ b.is_100_continue = c.is_100_continue
      /\ b.parsed_header = c.parsed_header /\ b.rst /\ b.in_closed
      /\ b.pc = (IF Waits(c) THEN "failed" ELSE c.pc) /\ b.w = c.w
    BY DEF Broken, Context
<1>2. b.pc \in {"failed", c.pc} /\ (c.pc = "gone" => b.pc = "gone")
    BY <1>1 DEF Waiting, Waits
<1>3. /\ d.got = b.got /\ d.trailer = b.trailer /\ d.is_100_continue = b.is_100_continue
      /\ d.parsed_header = b.parsed_header /\ d.rst = b.rst /\ d.in_closed = b.in_closed
      /\ d.pc = b.pc /\ d.w \in {c.w, Append(c.w, "R")}
    BY DEF terminate_stream, Broken, Context
<1>4. Append(c.w, "R") # <<>>
    BY FrameAfter DEF Frames
<1> HIDE DEF b, d
<1>5. Quiet(c, b)
    BY <1>1, <1>2 DEF Quiet, Answered
<1>6. Quiet(c, d)
    BY <1>1, <1>2, <1>3, <1>4 DEF Quiet, Answered
<1> QED BY <1>5, <1>6 DEF b, d

\* h is c as far as its answers go
SameAnswers(c, h) ==
    /\ h \in Context
    /\ h.got = c.got /\ h.trailer = c.trailer /\ h.is_100_continue = c.is_100_continue
    /\ h.parsed_header = c.parsed_header /\ h.rst = c.rst
    /\ h.in_closed = c.in_closed /\ h.pc = c.pc
    /\ c.w # <<>> => h.w # <<>>

LEMMA PendingQuiet ==
    ASSUME NEW s, NEW c \in Context, NEW e, NEW h, Pended(s, c, e, h)
    PROVE  SameAnswers(c, h)
<1>1. /\ h = [c EXCEPT !.node = h.node, !.w = h.w, !.out_closed = h.out_closed,
                       !.send_header = h.send_header]
      /\ h \in Context
      /\ c.w # <<>> => h.w # <<>>
    BY DEF Pended, Now
<1> QED BY <1>1 DEF Context, SameAnswers

LEMMA ConnectTells ==
    ASSUME Base, Answers, NEW s \in Streams, Connect(s)
    PROVE  Answers'
<1> DEFINE c == ctx[s]
<1>1. c \in Context /\ Now(s, c) /\ conn \in Conn /\ Waiting(c)
    BY BaseNow DEF Now, Good
<1> DEFINE d == create_stream
<1>2. c.pc = "none" /\ Call(s, d)
    BY DEF Connect
<1>3. c.w = <<>> /\ block.s # s
    BY <1>1, <1>2 DEF Now, Good, Numbered, Held, Fresh
<1>4. Told(s, c, sent[s], block, split)
    BY DEF Answers
<1>5. /\ d.pc = "new" /\ ~d.parsed_header /\ ~d.rst /\ d.got = {} /\ d.trailer = {}
    BY DEF create_stream, NoStream
<1> HIDE DEF d
<1>6. Told(s, d, sent[s], block, split)
    BY <1>3, <1>4, <1>5 DEF Told, Answered
<1>7. /\ ctx' = [ctx EXCEPT ![s] = d] /\ UNCHANGED <<block, sent, split>>
      /\ ctx \in [Streams -> Context]
    BY <1>2 DEF Call, Base, TypeOK
<1>8. ctx'[s] = d /\ \A t \in Streams \ {s} : ctx'[t] = ctx[t]
    BY <1>7
<1>9. Told(s, ctx'[s], sent'[s], block', split')
    BY <1>6, <1>7, <1>8
<1> QED BY <1>7, <1>8, <1>9, AnswersKeep

LEMMA set_header_callbackTells ==
    ASSUME Base, Answers, NEW s \in Streams, set_header_callback(s)
    PROVE  Answers'
<1> DEFINE c == ctx[s]
<1>1. c \in Context /\ Now(s, c) /\ conn \in Conn /\ Waiting(c)
    BY BaseNow DEF Now, Good
<1> DEFINE d == [c EXCEPT !.pc = "cb", !.read_wait = "cb"]
<1>2. c.pc = "new" /\ Call(s, d)
    BY DEF set_header_callback
<1>3. Quiet(c, d)
    BY <1>1, <1>2 DEF Quiet, Answered, Context
<1> QED BY <1>2, <1>3, CallTells

LEMMA SendMethodTells ==
    ASSUME Base, Answers, NEW s \in Streams, SendMethod(s)
    PROVE  Answers'
<1> DEFINE c == ctx[s]
<1>1. c \in Context /\ Now(s, c) /\ conn \in Conn /\ Waiting(c)
    BY BaseNow DEF Now, Good
<1>2. PICK k \in Kinds :
        Call(s, [c EXCEPT !.pc = "head", !.kind = k, !.send_header = TRUE,
                     !.has_upgrade = (k = "connect"), !.has_expect = (k = "expect"),
                     !.content_left = CASE k = "get" -> 0
                                        [] k \in {"put", "expect"} -> 1
                                        [] OTHER -> -1])
    BY DEF SendMethod
<1> DEFINE left == CASE k = "get" -> 0 [] k \in {"put", "expect"} -> 1 [] OTHER -> -1
           upgrade == k = "connect"
           expects == k = "expect"
           d == [c EXCEPT !.pc = "head", !.kind = k, !.send_header = TRUE,
                     !.has_upgrade = upgrade, !.has_expect = expects,
                     !.content_left = left]
<1>3. Call(s, d)
    BY <1>2
<1>4. c.pc = "cb"
    BY DEF SendMethod
<1> HIDE DEF left, upgrade, expects
<1>5. Quiet(c, d)
    BY <1>1, <1>4 DEF Quiet, Answered, Context
<1> QED BY <1>3, <1>5, CallTells

LEMMA WriteTells ==
    ASSUME Base, Answers, NEW s \in Streams, Write(s)
    PROVE  Answers'
<1> DEFINE c == ctx[s]
<1>1. c \in Context /\ Now(s, c) /\ conn \in Conn /\ Waiting(c)
    BY BaseNow DEF Now, Good
<1> DEFINE h == PendingHeader(c, c.content_left = 0)
           d == IF c.content_left = -1
                THEN [h EXCEPT !.w = Append(@, "D")]
                ELSE [h EXCEPT !.w = Append(@, "D."), !.content_left = 0, !.out_closed = TRUE]
<1>2. c.pc = "head" /\ c.content_left # 0
    BY DEF Write, MayWrite
<1>3. CASE IsWriteClosed(c)
  <2>1. Call(s, [c EXCEPT !.pc = "failed"])
    BY <1>3 DEF Write
  <2>2. Quiet(c, [c EXCEPT !.pc = "failed"])
    BY <1>1, <1>2 DEF Quiet, Answered, Context
  <2> QED BY <2>1, <2>2, CallTells
<1>4. CASE ~IsWriteClosed(c)
  <2>1. Call(s, d)
    BY <1>4 DEF Write
  <2>2. h = PendingHeader(c, FALSE)
    BY <1>2
  <2>3. Pended(s, c, FALSE, PendingHeader(c, FALSE))
    BY <1>1, <1>2, PendingHeaderGood
  <2> HIDE DEF h
  <2>4. SameAnswers(c, h)
    BY <2>2, <2>3, <1>1, PendingQuiet
  <2>5. Append(h.w, "D") # <<>> /\ Append(h.w, "D.") # <<>>
    BY <2>4, FrameAfter DEF Frames, SameAnswers
  <2>6. Quiet(c, d)
    BY <2>4, <2>5, <1>2 DEF Quiet, Answered, Context, SameAnswers
  <2> QED BY <2>1, <2>6, CallTells
<1> QED BY <1>3, <1>4

LEMMA SendTrailerTells ==
    ASSUME Base, Answers, NEW s \in Streams, SendTrailer(s)
    PROVE  Answers'
<1> DEFINE c == ctx[s]
<1>1. c \in Context /\ Now(s, c) /\ conn \in Conn /\ Waiting(c)
    BY BaseNow DEF Now, Good
<1> DEFINE h == PendingHeader(c, FALSE)
           d == [h EXCEPT !.write_trailer = TRUE, !.send_header = TRUE]
<1>2. c.pc = "head" /\ c.kind = "trailer" /\ Call(s, d)
    BY DEF SendTrailer
<1>3. Pended(s, c, FALSE, h)
    BY <1>1, <1>2, PendingHeaderGood
<1> HIDE DEF h
<1>4. SameAnswers(c, h)
    BY <1>3, <1>1, PendingQuiet
<1>5. Quiet(c, d)
    BY <1>4, <1>2 DEF Quiet, Answered, Context, SameAnswers
<1> QED BY <1>2, <1>5, CallTells

\* what SendHeader leaves of a context
LEMMA SendHeaderQuiet ==
    ASSUME NEW c \in Context, NEW e \in BOOLEAN
    PROVE  LET h == SendHeader(c, e)
           IN  /\ h.got = c.got /\ h.trailer = c.trailer
               /\ h.is_100_continue = c.is_100_continue
               /\ h.parsed_header = c.parsed_header /\ h.rst = c.rst
               /\ h.in_closed = c.in_closed /\ h.pc = c.pc
               /\ c.w # <<>> => h.w # <<>>
               /\ DOMAIN h = DOMAIN c
<1> DEFINE f == CASE c.write_trailer /\ e   -> "T."
                  [] c.write_trailer /\ ~e  -> "T"
                  [] ~c.write_trailer /\ e  -> "H."
                  [] ~c.write_trailer /\ ~e -> "H"
           o == c.out_closed \/ e
           n == IF c.node = 0 THEN conn.last_self_sid + 2 ELSE c.node
           h == SendHeader(c, e)
<1>1. f \in Frames
    BY DEF Frames
<1>2. Append(c.w, f) # <<>>
    BY <1>1, FrameAfter
<1>3. h = IF ~conn.read_processing THEN c
          ELSE [c EXCEPT !.node = n, !.w = Append(c.w, f), !.out_closed = o,
                         !.send_header = FALSE]
    BY DEF SendHeader
<1> HIDE DEF f, o, n, h
<1> QED BY <1>2, <1>3 DEF Context, h

LEMMA WriteEndTells ==
    ASSUME Base, Answers, NEW s \in Streams, WriteEnd(s)
    PROVE  Answers'
<1> DEFINE c == ctx[s]
<1>1. c \in Context /\ Now(s, c) /\ conn \in Conn /\ Waiting(c)
    BY BaseNow DEF Now, Good
<1>2. c.pc = "head"
    BY DEF WriteEnd
<1>3. PICK d \in {c, SendHeader([c EXCEPT !.content_left = 0], TRUE),
                 SendHeader([c EXCEPT !.w = Append(@, "D")], TRUE),
                 [c EXCEPT !.w = Append(@, "D."), !.out_closed = TRUE]} :
         Call(s, [d EXCEPT !.pc = "ended"])
    BY DEF WriteEnd
<1>4. /\ d.got = c.got /\ d.trailer = c.trailer /\ d.is_100_continue = c.is_100_continue
      /\ d.parsed_header = c.parsed_header /\ d.rst = c.rst
      /\ d.in_closed = c.in_closed /\ d.pc = c.pc
      /\ c.w # <<>> => d.w # <<>>
      /\ DOMAIN d = DOMAIN c
  <2>1. Append(c.w, "D") # <<>> /\ Append(c.w, "D.") # <<>>
        /\ Append(c.w, "D") \in Seq(Frames)
    BY <1>1, FrameAfter DEF Frames, Context
  <2>2. CASE d = c
    BY <2>2
  <2>3. CASE d = SendHeader([c EXCEPT !.content_left = 0], TRUE)
    <3> DEFINE g == [c EXCEPT !.content_left = 0]
    <3>1. g \in Context
        BY <1>1 DEF Context
    <3>2. /\ g.got = c.got /\ g.trailer = c.trailer /\ g.is_100_continue = c.is_100_continue
          /\ g.parsed_header = c.parsed_header /\ g.rst = c.rst
          /\ g.in_closed = c.in_closed /\ g.pc = c.pc /\ g.w = c.w
          /\ DOMAIN g = DOMAIN c
        BY <1>1 DEF Context
    <3>3. d = SendHeader(g, TRUE)
        BY <2>3
    <3> HIDE DEF g
    <3> QED BY <3>1, <3>2, <3>3, SendHeaderQuiet
  <2>4. CASE d = SendHeader([c EXCEPT !.w = Append(@, "D")], TRUE)
    <3> DEFINE g == [c EXCEPT !.w = Append(c.w, "D")]
    <3>1. g \in Context
        BY <1>1, <2>1 DEF Context
    <3>2. /\ g.got = c.got /\ g.trailer = c.trailer /\ g.is_100_continue = c.is_100_continue
          /\ g.parsed_header = c.parsed_header /\ g.rst = c.rst
          /\ g.in_closed = c.in_closed /\ g.pc = c.pc /\ g.w # <<>>
          /\ DOMAIN g = DOMAIN c
        BY <1>1, <2>1 DEF Context
    <3>3. d = SendHeader(g, TRUE)
        BY <2>4
    <3> HIDE DEF g
    <3> QED BY <3>1, <3>2, <3>3, SendHeaderQuiet
  <2>5. CASE d = [c EXCEPT !.w = Append(@, "D."), !.out_closed = TRUE]
    BY <1>1, <2>1, <2>5 DEF Context
  <2> QED BY <2>2, <2>3, <2>4, <2>5
<1>5. DOMAIN c = {"pc", "life", "node", "in_closed", "out_closed", "rst", "parsed_header",
                  "is_100_continue", "send_header", "write_trailer", "has_upgrade",
                  "has_expect", "content_left", "read_wait", "queue", "read_buffer", "kind",
                  "w", "got", "trailer"}
    BY <1>1 DEF Context
<1>6. Quiet(c, [d EXCEPT !.pc = "ended"])
    BY <1>2, <1>4, <1>5 DEF Quiet, Answered
<1> QED BY <1>3, <1>6, CallTells

LEMMA read_headerTells ==
    ASSUME Base, Answers, NEW s \in Streams, read_header(s)
    PROVE  Answers'
<1> DEFINE c == ctx[s]
<1>1. c \in Context /\ Now(s, c) /\ conn \in Conn /\ Waiting(c)
    BY BaseNow DEF Now, Good
<1> DEFINE e == c.content_left = 0
           h == PendingHeader(c, e)
           d == ReadHeader(h)
<1>2. /\ c.pc \in {"head", "ended"} /\ Call(s, d)
      /\ (c.kind = "trailer" /\ c.pc = "head") => ~e
    BY DEF read_header
<1>3. Pended(s, c, e, h)
  <2>1. e \in BOOLEAN
    OBVIOUS
  <2> HIDE DEF e
  <2> QED BY <2>1, <1>1, <1>2, PendingHeaderGood
<1> HIDE DEF h, e
<1>4. SameAnswers(c, h)
    BY <1>3, <1>1, PendingQuiet
<1>5. Quiet(c, d)
    BY <1>2, <1>4 DEF Quiet, Answered, Here, ReadHeader, Context, SameAnswers
<1> QED BY <1>2, <1>5, CallTells

LEMMA ReadTells ==
    ASSUME Base, Answers, NEW s \in Streams, Read(s)
    PROVE  Answers'
<1> DEFINE c == ctx[s]
<1>1. c \in Context /\ Now(s, c) /\ conn \in Conn /\ Waiting(c)
    BY BaseNow DEF Now, Good
<1> DEFINE e == EndOnRead(c)
           d == ReadBody(e)
<1>2. c.pc = "answered" /\ Call(s, d)
    BY DEF Read
<1>3. /\ e \in Context
      /\ e.got = c.got /\ e.trailer = c.trailer /\ e.is_100_continue = c.is_100_continue
      /\ e.parsed_header = c.parsed_header /\ e.rst = c.rst
      /\ e.in_closed = c.in_closed /\ e.pc = c.pc
      /\ c.w # <<>> => e.w # <<>>
  <2>1. e \in Context
    BY <1>2, EndOnReadGood DEF Now
  <2>2. Append(c.w, "D.") # <<>>
    BY <1>1, FrameAfter DEF Frames
  <2> QED BY <2>1, <2>2, <1>1 DEF EndOnRead, Context
<1> HIDE DEF e
<1>4. Quiet(c, d)
    BY <1>2, <1>3 DEF Quiet, Answered, ReadBody, Context
<1> QED BY <1>2, <1>4, CallTells

LEMMA ShutdownTells ==
    ASSUME Base, Answers, NEW s \in Streams, Shutdown(s)
    PROVE  Answers'
<1> DEFINE c == ctx[s]
<1>1. c \in Context /\ Now(s, c) /\ conn \in Conn /\ Waiting(c)
    BY BaseNow DEF Now, Good
<1>2. Call(s, terminate_stream(c))
    BY DEF Shutdown
<1> QED BY <1>1, <1>2, TerminateQuiet, CallTells

LEMMA StreamTimeoutTells ==
    ASSUME Base, Answers, NEW s \in Streams, StreamTimeout(s)
    PROVE  Answers'
<1> DEFINE c == ctx[s]
<1>1. c \in Context /\ Now(s, c) /\ conn \in Conn /\ Waiting(c)
    BY BaseNow DEF Now, Good
<1>2. PICK d \in {[c EXCEPT !.queue = FALSE], terminate_stream(c)} : Call(s, d)
    BY DEF StreamTimeout
<1>3. Quiet(c, [c EXCEPT !.queue = FALSE])
    BY <1>1 DEF Quiet, Context
<1>4. Quiet(c, d)
    BY <1>1, <1>3, TerminateQuiet
<1> QED BY <1>2, <1>4, CallTells

LEMMA StepTells ==
    ASSUME Base, Answers, NEW s \in Streams, NEW d, NEW v,
           ctx' = [ctx EXCEPT ![s] = d], sent' = [sent EXCEPT ![s] = v],
           UNCHANGED <<block, split>>, Told(s, d, v, block, split)
    PROVE  Answers'
<1>1. ctx \in [Streams -> Context] /\ sent \in [Streams -> SentValues]
    BY DEF Base, TypeOK, SentValues
<1>2. /\ ctx'[s] = d /\ sent'[s] = v
      /\ \A t \in Streams \ {s} : ctx'[t] = ctx[t] /\ sent'[t] = sent[t]
    BY <1>1
<1>3. Told(s, ctx'[s], sent'[s], block', split')
    BY <1>2
<1> QED BY <1>2, <1>3, AnswersKeep

LEMMA DestroyTells ==
    ASSUME Base, Answers, NEW s \in Streams, Destroy(s)
    PROVE  Answers'
<1> DEFINE c == ctx[s]
           r == release_stream(c)
           d == [r EXCEPT !.pc = "gone", !.life = Life(s)]
<1>1. c \in Context
    BY BaseNow DEF Now
<1>2. ctx' = [ctx EXCEPT ![s] = d] /\ UNCHANGED <<conn, block, sent, split>>
    BY DEF Destroy
<1>3. /\ r.got = c.got /\ r.trailer = c.trailer /\ r.is_100_continue = c.is_100_continue
      /\ r.parsed_header = c.parsed_header
      /\ c.rst => r.rst
      /\ c.in_closed => r.in_closed
      /\ c.w # <<>> => r.w # <<>>
      /\ DOMAIN r = DOMAIN c
  <2>1. CASE c.in_closed /\ c.out_closed
    <3>1. r = [c EXCEPT !.read_wait = "none", !.node = 0]
        BY <2>1 DEF release_stream
    <3> HIDE DEF r
    <3> QED BY <1>1, <3>1 DEF Context
  <2>2. CASE ~(c.in_closed /\ c.out_closed)
    <3> DEFINE e == [c EXCEPT !.read_wait = "none", !.node = 0]
               v == IF c.node # 0 THEN Append(c.w, "R") ELSE c.w
    <3>1. e \in Context /\ e.w = c.w /\ e.got = c.got /\ e.trailer = c.trailer
          /\ e.is_100_continue = c.is_100_continue /\ e.parsed_header = c.parsed_header
          /\ e.in_closed = c.in_closed /\ e.rst = c.rst /\ DOMAIN e = DOMAIN c
        BY <1>1 DEF Context
    <3>2. r = [e EXCEPT !.in_closed = TRUE, !.out_closed = TRUE, !.rst = TRUE, !.w = v]
        BY <2>2, <3>1 DEF release_stream
    <3>3. c.w # <<>> => v # <<>>
        BY <1>1, FrameAfter DEF Frames
    <3> HIDE DEF r, e, v
    <3> QED BY <3>1, <3>2, <3>3 DEF Context
  <2> QED BY <2>1, <2>2
<1>4. DOMAIN c = {"pc", "life", "node", "in_closed", "out_closed", "rst", "parsed_header",
                  "is_100_continue", "send_header", "write_trailer", "has_upgrade",
                  "has_expect", "content_left", "read_wait", "queue", "read_buffer", "kind",
                  "w", "got", "trailer"}
    BY <1>1 DEF Context
<1> HIDE DEF r
<1>5. Quiet(c, d)
    BY <1>3, <1>4 DEF Quiet, Answered
<1>6. Told(s, c, sent[s], block, split)
    BY DEF Answers
<1> HIDE DEF d
<1>7. Told(s, d, sent[s], block, split)
    BY <1>5, <1>6, QuietTold
<1>8. sent' = [sent EXCEPT ![s] = sent[s]]
    BY <1>2 DEF Base, TypeOK
<1> QED BY <1>2, <1>7, <1>8, StepTells

----------------------------------------------------------------------------
(* What the peer's frames tell *)

LEMMA DataTells ==
    ASSUME Base, Answers, NEW s \in Streams, NEW n \in BOOLEAN, NEW e \in BOOLEAN,
           Data(s, n, e)
    PROVE  Answers'
<1> DEFINE c == ctx[s]
           took == IF n THEN [c EXCEPT !.read_buffer = (c.read_wait # "body"),
                                       !.in_closed = e]
                   ELSE [c EXCEPT !.in_closed = e]
           wakes == c.read_wait = "body" /\ (n \/ e)
           woken == [took EXCEPT !.read_wait = "none", !.queue = FALSE,
                                 !.pc = IF n THEN "answered" ELSE "done"]
           d == IF ~Known(c) THEN c
                ELSE IF ~c.parsed_header \/ c.in_closed THEN terminate_stream(c)
                ELSE IF wakes THEN woken ELSE took
           v == IF e THEN "end" ELSE "data"
<1>1. /\ block = NoBlock /\ UNCHANGED <<conn, block, split>> /\ sent[s] = "final"
      /\ sent' = [sent EXCEPT ![s] = v] /\ ctx' = [ctx EXCEPT ![s] = d]
    BY DEF Data
<1>2. c \in Context /\ Waiting(c)
    BY BaseNow DEF Now, Good
<1>3. Quiet(c, d)
  <2>1. CASE ~Known(c)
    BY <2>1 DEF Quiet
  <2>2. CASE Known(c) /\ (~c.parsed_header \/ c.in_closed)
    BY <2>2, <1>2, TerminateQuiet
  <2>3. CASE Known(c) /\ c.parsed_header /\ ~c.in_closed
    <3>1. /\ took.got = c.got /\ took.trailer = c.trailer
          /\ took.is_100_continue = c.is_100_continue /\ took.parsed_header = c.parsed_header
          /\ took.rst = c.rst /\ took.pc = c.pc /\ took.w = c.w /\ DOMAIN took = DOMAIN c
        <4> DEFINE r == c.read_wait # "body"
        <4>1. took = IF n THEN [c EXCEPT !.read_buffer = r, !.in_closed = e]
                     ELSE [c EXCEPT !.in_closed = e]
            OBVIOUS
        <4> HIDE DEF took, r
        <4> QED BY <4>1, <1>2 DEF Context
    <3>2. DOMAIN c = {"pc", "life", "node", "in_closed", "out_closed", "rst",
                      "parsed_header", "is_100_continue", "send_header", "write_trailer",
                      "has_upgrade", "has_expect", "content_left", "read_wait", "queue",
                      "read_buffer", "kind", "w", "got", "trailer"}
        BY <1>2 DEF Context
    <3>3. CASE wakes
        <4>1. c.pc = "rwait"
            BY <3>3, <1>2 DEF Waiting
        <4>2. d = [took EXCEPT !.read_wait = "none", !.queue = FALSE,
                               !.pc = IF n THEN "answered" ELSE "done"]
            BY <2>3, <3>3
        <4> HIDE DEF d, took
        <4> QED BY <2>3, <3>1, <3>2, <4>1, <4>2 DEF Quiet, Answered
    <3>4. CASE ~wakes
        <4>1. d = took
            BY <2>3, <3>4
        <4> HIDE DEF d, took
        <4> QED BY <2>3, <3>1, <4>1 DEF Quiet
    <3> QED BY <3>3, <3>4
  <2> QED BY <2>1, <2>2, <2>3
<1>4. Told(s, c, sent[s], block, split)
    BY DEF Answers
<1>5. block.s # s
    BY <1>1, Parameters DEF NoBlock, ClientAssumption
<1> HIDE DEF d
<1>6. Told(s, d, v, block, split)
    BY <1>1, <1>3, <1>4, <1>5, QuietTold
<1> QED BY <1>1, <1>6, StepTells

LEMMA RstStreamTells ==
    ASSUME Base, Answers, NEW s \in Streams, RstStream(s)
    PROVE  Answers'
<1> DEFINE c == ctx[s]
           b == Broken(c)
           d == IF Known(c) THEN [b EXCEPT !.read_buffer = FALSE] ELSE c
<1>1. /\ block = NoBlock /\ UNCHANGED <<conn, block, split>> /\ c.w # <<>>
      /\ sent' = [sent EXCEPT ![s] = "end"] /\ ctx' = [ctx EXCEPT ![s] = d]
    BY DEF RstStream
<1>2. c \in Context /\ Waiting(c)
    BY BaseNow DEF Now, Good
<1>3. Quiet(c, d)
  <2>1. Quiet(c, b)
    BY <1>2, TerminateQuiet
  <2>2. b.w = c.w /\ DOMAIN b = DOMAIN c
    BY <1>2 DEF Broken, Context
  <2>3. DOMAIN c = {"pc", "life", "node", "in_closed", "out_closed", "rst",
                    "parsed_header", "is_100_continue", "send_header", "write_trailer",
                    "has_upgrade", "has_expect", "content_left", "read_wait", "queue",
                    "read_buffer", "kind", "w", "got", "trailer"}
    BY <1>2 DEF Context
  <2> HIDE DEF b
  <2>4. Quiet(c, [b EXCEPT !.read_buffer = FALSE])
    BY <2>1, <2>2, <2>3 DEF Quiet
  <2>5. Quiet(c, c)
    BY DEF Quiet
  <2> QED BY <2>4, <2>5
<1>4. Told(s, c, sent[s], block, split)
    BY DEF Answers
<1>5. block.s # s
    BY <1>1, Parameters DEF NoBlock, ClientAssumption
<1> HIDE DEF d
<1>6. Told(s, d, "end", block, split)
    BY <1>1, <1>3, <1>4, <1>5, QuietTold
<1> QED BY <1>1, <1>6, StepTells

LEMMA closeTells ==
    ASSUME Base, Answers, NEW read \in BOOLEAN, close(read)
    PROVE  Answers'
<1>1. /\ UNCHANGED <<block, sent, split>>
      /\ ctx' = [s \in Streams |-> IF Known(ctx[s]) THEN Broken(ctx[s]) ELSE ctx[s]]
    BY DEF close
<1>2. ASSUME NEW s \in Streams
      PROVE  Told(s, ctx'[s], sent'[s], block', split')
  <2> DEFINE c == ctx[s]
             d == ctx'[s]
  <2>1. c \in Context /\ Waiting(c) /\ Told(s, c, sent[s], block, split)
    BY BaseNow DEF Now, Good, Answers
  <2>2. d = Broken(c) \/ d = c
    BY <1>1
  <2>3. Quiet(c, c)
    BY DEF Quiet
  <2>4. Quiet(c, d)
    BY <2>1, <2>2, <2>3, TerminateQuiet
  <2> HIDE DEF c, d
  <2>5. Told(s, d, sent[s], block, split)
    BY <2>1, <2>4, QuietTold
  <2> QED BY <2>5, <1>1 DEF d
<1> QED BY <1>2 DEF Answers

LEMMA GoawayTells ==
    ASSUME Answers, UNCHANGED <<ctx, block, sent, split>>
    PROVE  Answers'
    BY DEF Answers, Told

\* d is c after the field f of a block for it
Parsed(c, f, d) ==
    /\ d \in Context
    /\ d.pc = c.pc /\ d.life = c.life /\ d.read_wait = c.read_wait /\ d.rst = c.rst
    /\ d.in_closed = c.in_closed /\ d.parsed_header = c.parsed_header /\ d.w = c.w
    /\ ~IsAvailable(c) => /\ d.got = c.got /\ d.trailer = c.trailer
                          /\ d.is_100_continue = c.is_100_continue
    /\ (IsAvailable(c) /\ f = "100") =>
          /\ d.is_100_continue /\ d.trailer = c.trailer
          /\ d.got \in {c.got, c.got \cup {"100"}}
    /\ (IsAvailable(c) /\ f # "100") =>
          /\ d.is_100_continue = c.is_100_continue
          /\ c.parsed_header => d.got = c.got /\ d.trailer = c.trailer \cup {f}
          /\ ~c.parsed_header => /\ d.trailer = c.trailer
                                 /\ d.got = IF c.read_wait = "none" THEN c.got
                                            ELSE c.got \cup {f}

LEMMA ParseTells ==
    ASSUME NEW c \in Context, NEW f \in FieldNames
    PROVE  Parsed(c, f, parse_header(c, f))
<1> DEFINE d == parse_header(c, f)
           g == IF c.read_wait = "none" THEN c.got ELSE c.got \cup {f}
           t == c.trailer \cup {f}
<1>1. g \in SUBSET FieldNames /\ t \in SUBSET FieldNames /\ g \in {c.got, c.got \cup {f}}
    BY DEF Context
<1>2. CASE ~IsAvailable(c)
  <2>1. d = c
    BY <1>2 DEF parse_header
  <2> HIDE DEF d
  <2>2. Parsed(c, f, d)
    BY <2>1, <1>2 DEF Parsed
  <2> QED BY <2>2 DEF d
<1>3. CASE IsAvailable(c) /\ f = "100"
  <2>1. d = [c EXCEPT !.is_100_continue = TRUE, !.got = g]
    BY <1>3 DEF parse_header
  <2> HIDE DEF d, g
  <2>2. Parsed(c, f, d)
    BY <2>1, <1>1, <1>3 DEF Parsed, Context
  <2> QED BY <2>2 DEF d
<1>4. CASE IsAvailable(c) /\ f # "100" /\ c.parsed_header
  <2>1. d = [c EXCEPT !.trailer = t]
    BY <1>4 DEF parse_header
  <2> HIDE DEF d
  <2>2. Parsed(c, f, d)
    BY <2>1, <1>1, <1>4 DEF Parsed, Context
  <2> QED BY <2>2 DEF d
<1>5. CASE IsAvailable(c) /\ f # "100" /\ ~c.parsed_header
  <2>1. d = [c EXCEPT !.got = g]
    BY <1>5 DEF parse_header
  <2> HIDE DEF d
  <2>2. Parsed(c, f, d)
    BY <2>1, <1>1, <1>5 DEF Parsed, Context
  <2> QED BY <2>2 DEF d
<1> QED BY <1>2, <1>3, <1>4, <1>5

\* d is c after the whole block
Succeeded(c, d) ==
    /\ d.got = c.got /\ d.trailer = c.trailer /\ d.rst = c.rst /\ d.w = c.w
    /\ d.in_closed = c.in_closed /\ ~d.is_100_continue
    /\ d.parsed_header <=> (c.parsed_header \/ ~c.is_100_continue)
    /\ c.pc = "gone" => d.pc = "gone"
    /\ d.pc \in Answered => c.pc \in Answered \/ (~c.is_100_continue /\ Here(c))
    /\ Here(d) => Here(c)

LEMMA SuccessTells ==
    ASSUME NEW c \in Context, Waiting(c), c.rst => c.read_wait = "none",
           NEW rest, rest = <<>>
    PROVE  Succeeded(c, Finish(c, rest))
<1> DEFINE o == on_header_success(c)
           l == IF o.life = "doomed" THEN "gone" ELSE o.life
           d == [o EXCEPT !.life = l]
<1>1. Finish(c, rest) = d
    BY DEF Finish
<1>2. /\ o.got = c.got /\ o.trailer = c.trailer /\ o.rst = c.rst /\ o.w = c.w
      /\ o.in_closed = c.in_closed /\ ~o.is_100_continue
      /\ o.parsed_header <=> (c.parsed_header \/ ~c.is_100_continue)
      /\ \/ o.pc = c.pc
         \/ c.is_100_continue /\ c.pc = "wait" /\ o.pc = "head"
         \/ ~c.is_100_continue /\ ~c.rst /\ c.pc = "wait" /\ o.pc = "answered"
         \/ c.pc = "rwait" /\ o.pc = "done"
      /\ DOMAIN o = DOMAIN c
  <2>1. CASE c.is_100_continue
    <3> DEFINE rw == IF c.read_wait = "hdr" THEN "cb" ELSE c.read_wait
               p == IF c.read_wait = "hdr" THEN "head" ELSE c.pc
    <3>1. o = [c EXCEPT !.is_100_continue = FALSE, !.read_wait = rw, !.pc = p]
        BY <2>1 DEF on_header_success
    <3> HIDE DEF o, rw
    <3> QED BY <2>1, <3>1 DEF Waiting, Context
  <2>2. CASE ~c.is_100_continue /\ ~IsAvailable([c EXCEPT !.parsed_header = TRUE])
    <3>1. o = [c EXCEPT !.parsed_header = TRUE]
        BY <2>2 DEF on_header_success
    <3> HIDE DEF o
    <3> QED BY <2>2, <3>1 DEF Context
  <2>3. CASE ~c.is_100_continue /\ IsAvailable([c EXCEPT !.parsed_header = TRUE])
    <3> DEFINE p == CASE c.read_wait = "hdr"  -> "answered"
                      [] c.read_wait = "body" -> "done"
                      [] OTHER                -> c.pc
               q == [c EXCEPT !.parsed_header = TRUE]
    <3>1. o = [q EXCEPT !.read_wait = "none", !.pc = p]
        BY <2>3 DEF on_header_success
    <3>2. ~c.rst
        BY <2>3 DEF IsAvailable, Context
    <3>3. \/ p = c.pc
          \/ c.pc = "wait" /\ p = "answered"
          \/ c.pc = "rwait" /\ p = "done"
        BY DEF Waiting
    <3>4. /\ q.got = c.got /\ q.trailer = c.trailer /\ q.rst = c.rst /\ q.w = c.w
          /\ q.in_closed = c.in_closed /\ q.is_100_continue = c.is_100_continue
          /\ q.parsed_header /\ DOMAIN q = DOMAIN c
        BY DEF Context
    <3>5. {"pc", "read_wait"} \subseteq DOMAIN c
        BY DEF Context
    <3> HIDE DEF o, p, q
    <3> QED BY <2>3, <3>1, <3>2, <3>3, <3>4, <3>5
  <2> QED BY <2>1, <2>2, <2>3
<1> HIDE DEF o
<1>3. {"pc", "life", "got", "trailer", "rst", "w", "in_closed", "is_100_continue",
       "parsed_header"} \subseteq DOMAIN c
    BY DEF Context
<1>4. /\ d.got = o.got /\ d.trailer = o.trailer /\ d.rst = o.rst /\ d.w = o.w
      /\ d.in_closed = o.in_closed /\ d.is_100_continue = o.is_100_continue
      /\ d.parsed_header = o.parsed_header /\ d.pc = o.pc
    BY <1>2, <1>3
<1> HIDE DEF d
<1>5. Succeeded(c, d)
    BY <1>2, <1>4 DEF Succeeded, Answered, Here
<1> QED BY <1>1, <1>5

LEMMA FinishTells ==
    ASSUME NEW c, BeingRead(c), NEW f \in FieldNames \ {"100"}
    PROVE  \E m : Parsed(c, f, m) /\ Succeeded(m, Finish(c, <<f>>))
<1> DEFINE m == parse_header(c, f)
<1>1. c \in Context /\ Waiting(c) /\ (c.rst => c.read_wait = "none")
    BY DEF BeingRead
<1>2. Parsed(c, f, m)
    BY <1>1, ParseTells
<1>3. Finish(c, <<f>>) = Finish(m, <<>>)
  <2>1. Head(<<f>>) = f /\ <<f>> # <<>>
    OBVIOUS
  <2> QED BY <2>1 DEF Finish
<1> HIDE DEF m
<1>4. m \in Context /\ Waiting(m) /\ (m.rst => m.read_wait = "none")
    BY <1>1, <1>2 DEF Parsed, Waiting
<1>5. Succeeded(m, Finish(m, <<>>))
    BY <1>4, SuccessTells
<1> QED BY <1>2, <1>3, <1>5

LEMMA HeadersEndTells ==
    ASSUME Base, Answers, HeadersEnd
    PROVE  Answers'
<1> DEFINE s == block.s
           c == ctx[s]
           d == Finish(c, block.rest)
           v == sent[s]
<1>1. /\ block # NoBlock /\ ctx' = [ctx EXCEPT ![s] = d] /\ block' = NoBlock
      /\ UNCHANGED <<conn, sent, split>>
    BY DEF HeadersEnd
<1>2. block \in [s : Streams \cup {"none"}, rest : Rests] /\ ctx \in [Streams -> Context]
    BY DEF Base, TypeOK
<1>3. s \in Streams /\ s \in split /\ "none" \notin Streams
    BY <1>1, <1>2, Parameters DEF Base, ClientAssumption
<1>4. c \in Context /\ Good(s, c, conn.read_processing, block, split) /\ block.rest \in Rests
    BY <1>2, <1>3, BaseNow DEF Now
<1>5. BeingRead(c) /\ Waiting(c) /\ (c.rst => c.read_wait = "none")
    BY <1>4 DEF BeingRead, Good, Held
<1>6. Told(s, c, v, block, split)
    BY <1>3 DEF Answers
<1>7. block'.s = "none"
    BY <1>1 DEF NoBlock
<1>8. IsAvailable(c) <=> Here(c)
    BY <1>4 DEF IsAvailable, Here, Good, Waiting, Held, Context
<1>9. c.pc \notin Fresh /\ (c.pc \in Answered => c.parsed_header)
    BY <1>5 DEF BeingRead, Waiting
<1> HIDE DEF c, d, v
<1>10. Told(s, d, v, block', split)
  <2>1. CASE block.rest = <<>>
    <3>1. Succeeded(c, d)
        BY <2>1, <1>4, <1>5, SuccessTells DEF d
    <3>2. c.is_100_continue /\ v \notin {"final", "data"}
        BY <1>6, <2>1 DEF Told, s
    <3> QED BY <3>1, <3>2, <1>3, <1>6, <1>7 DEF Told, Succeeded, Complete
  <2>2. CASE block.rest = <<"field">>
    <3>1. PICK m : Parsed(c, "field", m) /\ Succeeded(m, d)
        BY <2>2, <1>5, FinishTells DEF d, FieldNames
    <3>2. /\ ~c.is_100_continue /\ v \notin {"none", "interim"}
          /\ Here(c) => ~c.parsed_header /\ "status" \in c.got
        BY <1>6, <2>2 DEF Told, s
    <3>3. CASE Here(c)
        <4>1. c.read_wait # "none"
            BY <3>2, <3>3, <1>5, <1>9 DEF Waiting, Here, Fresh
        <4>2. /\ m.got = c.got \cup {"field"} /\ m.trailer = c.trailer
              /\ ~m.is_100_continue
            BY <3>1, <3>2, <3>3, <4>1, <1>8 DEF Parsed
        <4>3. Complete(d) /\ d.got = c.got \cup {"field"} /\ d.trailer = c.trailer
              /\ d.parsed_header /\ ~d.is_100_continue /\ d.w = c.w
            BY <3>1, <3>2, <3>3, <4>2 DEF Succeeded, Complete, Parsed
        <4>4. d.got \cap {"t1", "t2"} = {}
            BY <4>3, <1>6 DEF Told
        <4> QED BY <4>3, <4>4, <3>2, <1>3, <1>6, <1>7 DEF Told
    <3>4. CASE ~Here(c)
        <4>1. m.got = c.got /\ m.trailer = c.trailer /\ ~m.is_100_continue /\ m.w = c.w
              /\ ~Here(m) /\ m.pc = c.pc
            BY <3>1, <3>2, <3>4, <1>8 DEF Parsed, Here
        <4>2. ~Here(d) /\ d.got = c.got /\ d.trailer = c.trailer /\ d.w = c.w
              /\ (d.pc \in Answered => c.pc \in Answered) /\ ~d.is_100_continue
            BY <3>1, <4>1 DEF Succeeded
        <4> QED BY <4>2, <1>3, <1>6, <1>7 DEF Told, Complete
    <3> QED BY <3>3, <3>4
  <2>3. CASE block.rest = <<"t2">>
    <3>1. PICK m : Parsed(c, "t2", m) /\ Succeeded(m, d)
        BY <2>3, <1>5, FinishTells DEF d, FieldNames
    <3>2. /\ ~c.is_100_continue /\ v \notin {"none", "interim"}
          /\ Here(c) => c.parsed_header
        BY <1>6, <2>3 DEF Told, s
    <3>3. /\ m.got = c.got /\ ~m.is_100_continue /\ m.w = c.w
          /\ m.pc = c.pc /\ (Here(m) <=> Here(c))
        BY <3>1, <3>2, <1>8 DEF Parsed, Here
    <3>4. d.got = c.got /\ d.w = c.w /\ ~d.is_100_continue /\ d.parsed_header
          /\ (d.pc \in Answered => c.pc \in Answered \/ Here(c)) /\ (Here(d) => Here(c))
        BY <3>1, <3>3 DEF Succeeded
    <3> QED BY <3>2, <3>4, <1>3, <1>6, <1>7 DEF Told, Complete
  <2> QED BY <2>1, <2>2, <2>3, <1>4 DEF Rests
<1>11. /\ ctx'[s] = d /\ sent'[s] = v
       /\ \A t \in Streams \ {s} : ctx'[t] = ctx[t] /\ sent'[t] = sent[t]
    BY <1>1, <1>2, <1>3 DEF v
<1>12. /\ Told(s, ctx'[s], sent'[s], block', split')
       /\ \A t \in Streams \ {s} : block'.s # t /\ block.s # t
    BY <1>1, <1>3, <1>7, <1>10, <1>11
<1> HIDE DEF s
<1> QED BY <1>1, <1>3, <1>11, <1>12, AnswersKeep

\* A block nobody is there to read: the stream at most leaves the queue.
LEMMA SkippedTells ==
    ASSUME NEW s \in Streams, NEW c \in Context, Numbered(c, conn.read_processing),
           NEW v, NEW k \in Blocks, NEW e \in BOOLEAN, NEW b, b.s # s, NEW sp,
           Told(s, c, v, b, sp), c.w # <<>>,
           Interim \subseteq {"100"},
           k \in Interim => v \in {"none", "interim"} /\ ~e,
           ~Known(c) \/ c.rst \/ c.in_closed
    PROVE  /\ Told(s, c, SentAfter(k, e), b, sp)
           /\ Told(s, [c EXCEPT !.queue = FALSE], SentAfter(k, e), b, sp)
<1> SUFFICES ASSUME NEW d \in {c, [c EXCEPT !.queue = FALSE]}
             PROVE  Told(s, d, SentAfter(k, e), b, sp)
    OBVIOUS
<1>1. ~Here(c) \/ c.in_closed
    BY DEF Here, Numbered, Known
<1>2. Quiet(c, d)
    BY DEF Quiet, Context
<1>3. SentAfter(k, e) = IF e THEN "end" ELSE IF k = "100" /\ k \in Interim THEN "interim" ELSE k
    BY DEF SentAfter, Blocks
<1>4. /\ SentAfter(k, e) \in {"none", "interim"} => v \in {"none", "interim"}
      /\ SentAfter(k, e) # "none"
    BY <1>3 DEF Blocks
<1> QED BY <1>1, <1>2, <1>4 DEF Told, Quiet, Here, Complete

\* The stream a new block is for, when the peer had sent v on it: to is what
\* its first field makes of it, and d what the whole block does.
LEMMA BlockTells ==
    ASSUME NEW s \in Streams, NEW c \in Context, BeingRead(c), NEW v, NEW k \in Blocks,
           NEW e \in BOOLEAN, NEW b, b.s # s, NEW sp, NEW a,
           Told(s, a, v, b, sp), a.w # <<>>, Here(a), ~a.in_closed,
           c.got = a.got, c.trailer = a.trailer, c.rst = a.rst, c.pc = a.pc,
           c.parsed_header = a.parsed_header, c.w = a.w, ~c.is_100_continue,
           Interim \subseteq {"100"},
           \/ k \in Interim /\ v \in {"none", "interim"} /\ ~e
           \/ k = "final" /\ v \in {"none", "interim"}
           \/ k = "trailer" /\ v \in {"final", "data"} /\ e
    PROVE  LET f == parse_header(c, Head(Fields(k)))
           IN  /\ Told(s, Finish(f, Tail(Fields(k))), SentAfter(k, e), b, sp)
               /\ \A h, q : (h.s = s /\ h.rest = Tail(Fields(k)) /\ s \in q)
                                => Told(s, f, SentAfter(k, e), h, q)
<1> DEFINE u == SentAfter(k, e)
           f == parse_header(c, Head(Fields(k)))
           d == Finish(f, Tail(Fields(k)))
<1>1. IsAvailable(c) /\ Waiting(c) /\ c.pc \notin {"none", "new", "gone"}
    BY DEF BeingRead, IsAvailable, Here, Fresh
<1>2. BeingRead(c) /\ c.got \cap {"t1", "t2"} = {}
      /\ (c.pc \in Answered => c.parsed_header)
    BY <1>1 DEF Told, Waiting
<1>3. CASE k = "100"
  <2>1. Fields(k) = <<"100">> /\ u = "interim"
    BY <1>3 DEF Fields, SentAfter, Blocks
  <2>2. Head(Fields(k)) = "100" /\ Tail(Fields(k)) = <<>>
    BY <2>1
  <2> HIDE DEF u
  <2>3. Parsed(c, "100", f)
    BY <2>2, ParseTells DEF FieldNames
  <2> HIDE DEF f
  <2>4. /\ ~c.parsed_header /\ f.is_100_continue /\ f.trailer = c.trailer
        /\ f.got \in {c.got, c.got \cup {"100"}} /\ ~f.parsed_header
        /\ f.pc = c.pc /\ f.w = c.w /\ f.rst = c.rst
        /\ f \in Context /\ Waiting(f) /\ (f.rst => f.read_wait = "none")
        /\ f.got \cap {"t1", "t2"} = {}
    BY <1>1, <1>2, <1>3, <2>3 DEF Parsed, Told, Here, Waiting
  <2>5. Succeeded(f, d)
    BY <2>2, <2>4, SuccessTells
  <2> HIDE DEF d
  <2>6. Told(s, d, u, b, sp)
    BY <2>1, <2>4, <2>5, <1>2 DEF Told, Succeeded
  <2>7. ASSUME NEW h, NEW q, h.s = s, h.rest = Tail(Fields(k)), s \in q
        PROVE  Told(s, f, u, h, q)
    <3>1. h.rest = <<>>
        BY <2>2, <2>7
    <3>2. h.rest # <<"field">> /\ h.rest # <<"t2">>
        BY <3>1
    <3> QED BY <3>1, <3>2, <2>1, <2>4, <2>7, <1>2 DEF Told
  <2> QED BY <2>6, <2>7 DEF u, f, d
<1>4. CASE k = "final"
  <2>1. Fields(k) = <<"status", "field">> /\ u \in {"end", "final"}
    BY <1>4 DEF Fields, SentAfter
  <2>2. Head(Fields(k)) = "status" /\ Tail(Fields(k)) = <<"field">>
    BY <2>1
  <2> HIDE DEF u
  <2>3. Parsed(c, "status", f) /\ BeingRead(f)
    BY <2>2, <1>2, ParseTells, ParseBeingRead DEF FieldNames
  <2> HIDE DEF f
  <2>4. ~c.parsed_header /\ c.read_wait # "none"
    BY <1>1, <1>4 DEF Told, Here, Waiting
  <2>5. /\ ~f.is_100_continue /\ f.trailer = c.trailer /\ f.got = c.got \cup {"status"}
        /\ ~f.parsed_header /\ f.pc = c.pc /\ f.w = c.w /\ f.rst = c.rst
        /\ f.read_wait # "none" /\ IsAvailable(f)
    BY <1>1, <2>3, <2>4 DEF Parsed, IsAvailable
  <2>6. PICK m : Parsed(f, "field", m) /\ Succeeded(m, d)
    BY <2>2, <2>3, FinishTells DEF FieldNames
  <2> HIDE DEF d
  <2>7. /\ m.got = c.got \cup {"status", "field"} /\ m.trailer = c.trailer
        /\ ~m.is_100_continue /\ m.w = c.w
    BY <2>5, <2>6 DEF Parsed
  <2>8. Complete(d) /\ d.got \cap {"t1", "t2"} = {} /\ d.parsed_header /\ d.w = c.w
        /\ d.trailer = c.trailer
    BY <2>6, <2>7, <1>2 DEF Succeeded, Complete
  <2>9. Told(s, d, u, b, sp)
    BY <2>1, <2>8 DEF Told
  <2>10. ASSUME NEW h, NEW q, h.s = s, h.rest = Tail(Fields(k)), s \in q
         PROVE  Told(s, f, u, h, q)
    <3>1. h.rest = <<"field">>
        BY <2>2, <2>10
    <3>2. h.rest # <<>> /\ h.rest # <<"t2">>
        BY <3>1
    <3>3. f.got \cap {"t1", "t2"} = {} /\ "status" \in f.got /\ f.pc \notin Answered
        BY <2>4, <2>5, <1>2
    <3> QED BY <3>1, <3>2, <3>3, <2>1, <2>5, <2>10 DEF Told
  <2> QED BY <2>9, <2>10 DEF u, f, d
<1>5. CASE k = "trailer"
  <2>1. Fields(k) = <<"t1", "t2">> /\ u = "end"
    BY <1>5 DEF Fields, SentAfter, Blocks
  <2>2. Head(Fields(k)) = "t1" /\ Tail(Fields(k)) = <<"t2">>
    BY <2>1
  <2> HIDE DEF u
  <2>3. Parsed(c, "t1", f) /\ BeingRead(f)
    BY <2>2, <1>2, ParseTells, ParseBeingRead DEF FieldNames
  <2> HIDE DEF f
  <2>4. c.parsed_header /\ Complete(c)
    BY <1>5 DEF Told, Here, Complete
  <2>5. /\ ~f.is_100_continue /\ f.trailer = c.trailer \cup {"t1"} /\ f.got = c.got
        /\ f.parsed_header /\ f.pc = c.pc /\ f.w = c.w /\ f.rst = c.rst
        /\ IsAvailable(f)
    BY <1>1, <2>3, <2>4 DEF Parsed, IsAvailable
  <2>6. PICK m : Parsed(f, "t2", m) /\ Succeeded(m, d)
    BY <2>2, <2>3, FinishTells DEF FieldNames
  <2> HIDE DEF d
  <2>7. /\ m.got = c.got /\ m.trailer = c.trailer \cup {"t1", "t2"}
        /\ ~m.is_100_continue /\ m.w = c.w
    BY <2>5, <2>6 DEF Parsed
  <2>8. Complete(d) /\ d.got \cap {"t1", "t2"} = {} /\ d.parsed_header /\ d.w = c.w
        /\ d.trailer = c.trailer \cup {"t1", "t2"}
    BY <2>4, <2>6, <2>7, <1>2 DEF Succeeded, Complete
  <2>9. Told(s, d, u, b, sp)
    BY <2>1, <2>8 DEF Told
  <2>10. ASSUME NEW h, NEW q, h.s = s, h.rest = Tail(Fields(k)), s \in q
         PROVE  Told(s, f, u, h, q)
    <3>1. h.rest = <<"t2">>
        BY <2>2, <2>10
    <3>2. h.rest # <<>> /\ h.rest # <<"field">>
        BY <3>1
    <3> QED BY <3>1, <3>2, <2>1, <2>4, <2>5, <2>10, <1>2 DEF Told, Complete
  <2> QED BY <2>9, <2>10 DEF u, f, d
<1> QED BY <1>3, <1>4, <1>5 DEF Blocks

LEMMA HeadersTells ==
    ASSUME Base, Answers, Interim \subseteq {"100"}, NEW s \in Streams, NEW k \in Blocks,
           NEW e \in BOOLEAN, Headers(s, k, e)
    PROVE  Answers'
<1> DEFINE a == ctx[s]
           c == [a EXCEPT !.queue = FALSE]
           open == [c EXCEPT !.in_closed = e]
           first == parse_header(open, Head(Fields(k)))
           u == SentAfter(k, e)
           skips == ~Known(a) \/ c.rst \/ c.in_closed
<1>1. /\ block = NoBlock /\ MaySend(s, k, e) /\ UNCHANGED conn
      /\ sent' = [sent EXCEPT ![s] = u]
    BY DEF Headers
<1>2. a \in Context /\ Good(s, a, conn.read_processing, block, split)
      /\ Told(s, a, sent[s], block, split)
    BY BaseNow DEF Now, Answers
<1>3. block.s # s /\ block.s = "none" /\ \A t \in Streams : block.s # t
    BY <1>1, Parameters DEF NoBlock, ClientAssumption
<1>4. /\ a.w # <<>>
      /\ \/ k \in Interim /\ sent[s] \in {"none", "interim"} /\ ~e
         \/ k = "final" /\ sent[s] \in {"none", "interim"}
         \/ k = "trailer" /\ sent[s] \in {"final", "data"} /\ e
    BY <1>1 DEF MaySend
<1>5. c.rst = a.rst /\ c.in_closed = a.in_closed
    BY <1>2 DEF Context
<1>6. CASE skips
  <2>1. PICK d \in {a, c} : ctx' = [ctx EXCEPT ![s] = d]
    BY <1>6 DEF Headers
  <2>2. UNCHANGED <<block, split>>
    BY <1>6 DEF Headers
  <2>3. Numbered(a, conn.read_processing)
    BY <1>2 DEF Good
  <2>4. k \in Interim => sent[s] \in {"none", "interim"} /\ ~e
    BY <1>4
  <2>5. ~Known(a) \/ a.rst \/ a.in_closed
    BY <1>5, <1>6
  <2>6. Told(s, a, u, block, split) /\ Told(s, c, u, block, split)
    <3> HIDE DEF a
    <3> QED BY <1>2, <1>3, <1>4, <2>3, <2>4, <2>5, SkippedTells
  <2>7. Told(s, d, u, block, split)
    BY <2>6
  <2> HIDE DEF u
  <2> QED BY <1>1, <2>1, <2>2, <2>7, StepTells
<1>7. CASE ~skips
  <2>1. Known(a) /\ ~a.rst /\ ~a.in_closed
    BY <1>2, <1>5, <1>7 DEF Context
  <2>2. BeingRead(open) /\ ~open.is_100_continue /\ open.pc # "gone"
    BY <2>1, <1>3, OpenBeingRead
  <2>3. /\ open.got = a.got /\ open.trailer = a.trailer /\ open.rst = a.rst
        /\ open.pc = a.pc /\ open.parsed_header = a.parsed_header /\ open.w = a.w
    BY <1>2 DEF Context
  <2>4. Here(a) /\ open \in Context
    BY <2>1, <2>2, <2>3 DEF Here, BeingRead
  <2> HIDE DEF open
  <2>5. /\ Told(s, Finish(first, Tail(Fields(k))), u, block, split)
        /\ \A h, q : (h.s = s /\ h.rest = Tail(Fields(k)) /\ s \in q)
                         => Told(s, first, u, h, q)
    BY <1>2, <1>3, <1>4, <2>1, <2>2, <2>3, <2>4, BlockTells
  <2>6. \/ /\ ctx' = [ctx EXCEPT ![s] = Finish(first, Tail(Fields(k)))]
           /\ UNCHANGED <<block, split>>
        \/ /\ ctx' = [ctx EXCEPT ![s] = first]
           /\ block' = [s |-> s, rest |-> Tail(Fields(k))]
           /\ split' = split \cup {s}
    BY <1>7 DEF Headers, open
  <2> HIDE DEF first, u
  <2>7. CASE /\ ctx' = [ctx EXCEPT ![s] = Finish(first, Tail(Fields(k)))]
             /\ UNCHANGED <<block, split>>
    BY <2>5, <2>7, <1>1, StepTells
  <2>8. CASE /\ ctx' = [ctx EXCEPT ![s] = first]
             /\ block' = [s |-> s, rest |-> Tail(Fields(k))]
             /\ split' = split \cup {s}
    <3>1. block'.s = s /\ block'.rest = Tail(Fields(k)) /\ s \in split'
        BY <2>8
    <3>2. Told(s, first, u, block', split')
        BY <3>1, <2>5
    <3>3. ctx \in [Streams -> Context] /\ sent \in [Streams -> SentValues]
        BY DEF Base, TypeOK, SentValues
    <3>4. /\ ctx'[s] = first /\ sent'[s] = u
          /\ \A t \in Streams \ {s} : ctx'[t] = ctx[t] /\ sent'[t] = sent[t]
        BY <2>8, <3>3, <1>1
    <3>5. \A t \in Streams \ {s} : block'.s # t /\ block.s # t
        BY <3>1, <1>3
    <3>6. Told(s, ctx'[s], sent'[s], block', split')
        BY <3>2, <3>4
    <3> QED BY <3>4, <3>5, <3>6, <2>8, AnswersKeep
  <2> QED BY <2>6, <2>7, <2>8
<1> QED BY <1>6, <1>7

LEMMA InitAnswers == Init => Answers
<1> SUFFICES ASSUME Init, NEW s \in Streams
             PROVE  Told(s, ctx[s], sent[s], block, split)
    BY DEF Answers
<1> DEFINE c == ctx[s]
<1>1. /\ ~c.parsed_header /\ ~c.is_100_continue /\ c.pc \in {"none", "new"}
      /\ c.got = {} /\ c.trailer = {}
    BY DEF Init, create_stream, NoStream
<1>2. sent[s] = "none" /\ block.s = "none" /\ s # "none"
    BY Parameters DEF Init, NoBlock, ClientAssumption
<1> HIDE DEF c
<1> QED BY <1>1, <1>2 DEF Told, Answered, c

LEMMA NextTells ==
    ASSUME Base, Answers, Interim \subseteq {"100"}, [Next]_vars
    PROVE  Answers'
<1>1. CASE UNCHANGED vars
    BY <1>1 DEF vars, Answers, Told
<1>2. ASSUME NEW s \in Streams,
             \/ Connect(s) \/ set_header_callback(s) \/ SendMethod(s) \/ Write(s)
             \/ SendTrailer(s) \/ WriteEnd(s) \/ read_header(s) \/ Read(s)
             \/ Shutdown(s) \/ Destroy(s) \/ RstStream(s) \/ StreamTimeout(s)
             \/ \E k \in Blocks, e \in BOOLEAN : Headers(s, k, e)
             \/ \E n, e \in BOOLEAN : Data(s, n, e)
      PROVE  Answers'
    BY <1>2, ConnectTells, set_header_callbackTells, SendMethodTells, WriteTells,
       SendTrailerTells, WriteEndTells, read_headerTells, ReadTells, ShutdownTells,
       DestroyTells, RstStreamTells, StreamTimeoutTells, HeadersTells, DataTells, Zenon
<1>3. CASE HeadersEnd
    BY <1>3, HeadersEndTells
<1>4. CASE Goaway
    BY <1>4, GoawayTells DEF Goaway
<1>5. CASE \E read \in BOOLEAN : close(read)
    BY <1>5, closeTells
<1>6. CASE Terminated
    BY <1>1, <1>6 DEF Terminated
<1> QED BY <1>1, <1>2, <1>3, <1>4, <1>5, <1>6 DEF Next, Blocks

(* A user whose read_header returned has the whole final header, nothing   *)
(* of a trailer block went to the header callback, and trailers are whole, *)
(* for every peer that sends no informational response but 100.            *)
THEOREM HeaderAlwaysComplete ==
    ASSUME Interim \subseteq {"100"}
    PROVE  Spec => []HeaderComplete
<1>1. Base /\ Answers => HeaderComplete
    BY DEF Answers, Told, HeaderComplete, Answered, Complete
<1>2. Init => Answers
    BY InitAnswers
<1>3. Base /\ Answers /\ [Next]_vars => Answers'
    BY NextTells
<1> QED BY <1>1, <1>2, <1>3, BaseAlways, PTL DEF Spec

=============================================================================
