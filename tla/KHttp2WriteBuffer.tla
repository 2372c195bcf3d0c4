-------------------------- MODULE KHttp2WriteBuffer --------------------------
(***************************************************************************)
(* The output buffer of an HTTP/2 connection (KHttp2WriteBuffer) with the  *)
(* callbacks that drain it (start_write, try_write, on_write_result) and   *)
(* the ways buffers get into it.  A buffer is a run of bytes in memory or  *)
(* of a file; a byte is <<id of its buffer, its place in it>>.             *)
(*                                                                         *)
(* All of this runs on one selector thread: a callback is cut into the     *)
(* turns of its loops by pc, and nothing else runs until pc is "idle".     *)
(***************************************************************************)
EXTENDS Integers, Sequences, SequencesExt, FiniteSets

CONSTANTS
  Streams,            \* streams with a writing fiber
  Chains,             \* kbuf chains passed to write: sequences of node lengths
  FileLens,           \* lengths passed to sendfile
  Rooms,              \* what the flow control windows allow a frame to hold
  Controls,           \* control frames: [len, tcp_nodelay]
  HeaderLen,          \* sizeof(http2_frame_header)
  MaxIov,             \* MAX_IOVECT_COUNT
  MaxPushes           \* bound: how many times a buffer list is pushed

\* What is assumed of the constants.
BufferAssumption ==
  /\ 0 \notin Streams
  /\ HeaderLen \in Nat \ {0} /\ MaxIov \in Nat \ {0, 1} /\ MaxPushes \in Nat
  /\ FileLens \subseteq Nat \ {0} /\ Rooms \subseteq Nat \ {0}
  /\ Controls \subseteq [len : Nat, tcp_nodelay : BOOLEAN]
  /\ \A c \in Chains : c \in Seq(Nat) /\ c # <<>> /\ c[Len(c)] # 0

\* No chain has MaxIov - 1 empty nodes in a row: an iovec could hold nothing else.
NoEmptyRun(c) ==
  \A i \in 1..Len(c) : i + MaxIov - 2 <= Len(c) => \E j \in i..(i + MaxIov - 2) : c[j] # 0
ChainsFilled == \A c \in Chains : NoEmptyRun(c)

VARIABLES
  buffers,            \* header .. last
  hot,                \* read position in a memory header, -1 for NULL
  left,
  tcp_cork, tcp_no_cork_at_empty,
  write_wait,         \* streams whose fiber sleeps in WAIT_FOR_WRITING
  write_processing, closed,
  pc,                 \* where the running callback is
  offered,            \* bytes of the iovec handed to the socket
  got,                \* bytes readSuccess has still to account for
  remove_list,        \* buffers on their way to remove_buff
  pushes,             \* used up to bound the run
  pushed,             \* history: every byte pushed, in order
  wire,               \* history: bytes the socket has taken
  broken,             \* history: a write failed
  urgent              \* history: a tcp_nodelay buffer went out since the socket
                      \* was last uncorked

bufVars == <<buffers, hot, left>>
corkVars == <<tcp_cork, tcp_no_cork_at_empty, urgent>>
loopVars == <<pc, offered, got, remove_list>>
histVars == <<pushes, pushed, wire, broken>>
vars == <<bufVars, corkVars, write_wait, write_processing, closed, loopVars, histVars>>

None == 0

\* http2_buff: id stands for the data pointer, from for where in it (or in the
\* file) the unsent part starts once the buffer is the header.
Buff(id, len, file, c, nodelay) ==
  [id |-> id, used |-> len, from |-> 0, sendfile |-> file, ctx |-> c,
   tcp_nodelay |-> nodelay]

Init ==
  /\ buffers = <<>> /\ hot = -1 /\ left = 0
  /\ tcp_cork = FALSE /\ tcp_no_cork_at_empty = FALSE /\ urgent = FALSE
  /\ write_wait = {} /\ write_processing = FALSE /\ closed = FALSE
  /\ pc = "idle" /\ offered = <<>> /\ got = 0 /\ remove_list = <<>>
  /\ pushes = 0 /\ pushed = <<>> /\ wire = <<>> /\ broken = FALSE

\* The sums of the first 0, 1, 2... numbers of a sequence.
Sums(ns) == LET sum[i \in 0..Len(ns)] == IF i = 0 THEN 0 ELSE sum[i - 1] + ns[i] IN sum

\* The length of a buffer list.
Used(bs) == Sums([i \in 1..Len(bs) |-> bs[i].used])[Len(bs)]

\* The bytes buffer b has still to send, read from position p of its data.
Bytes(b, p) ==
  IF b.sendfile THEN [k \in 1..b.used |-> <<b.id, b.from + k>>]
                ELSE [k \in 1..(b.used - p) |-> <<b.id, p + k>>]

\* push/add: the list goes behind last, hot points at a first buffer's data.
push(bs) ==
  /\ left' = left + Used(bs)
  /\ buffers' = buffers \o bs
  /\ hot' = IF buffers = <<>> THEN 0 ELSE hot
  /\ pushes' = pushes + 1
  /\ pushed' = pushed \o FlattenSeq([i \in 1..Len(bs) |-> Bytes(bs[i], 0)])
  /\ UNCHANGED <<wire, broken>>

\* start_write: one write callback at a time, none on a closed connection.
start_write ==
  LET starts == ~write_processing /\ ~closed
  IN  /\ write_processing' = (write_processing \/ starts)
      /\ pc' = IF starts THEN "try" ELSE pc
      /\ UNCHANGED <<offered, got, remove_list>>

\* A caller on the selector thread gets its turn.
Caller == pc \in {"idle", "try", "socket"} /\ pushes < MaxPushes

\* get_frame and the frames made with it that no fiber waits for: SETTINGS, its
\* ACK, WINDOW_UPDATE, PING, GOAWAY, RST_STREAM, ALTSVC and an empty DATA.
Control(f) ==
  /\ Caller /\ ~closed
  /\ push(<<Buff(<<pushes, 0>>, HeaderLen + f.len, FALSE, None, f.tcp_nodelay)>>)
  /\ start_write
  /\ UNCHANGED <<corkVars, write_wait, closed>>

\* The nodes of a chain as far as room bytes go; the last may be cut.
Cut(chain, room) ==
  LET sum == Sums(chain)
      n == CHOOSE i \in 1..Len(chain) : sum[i - 1] < room /\ (i = Len(chain) \/ room <= sum[i])
      rest == room - sum[n - 1]
  IN  [i \in 1..n |-> <<i, IF i = n /\ rest < chain[i] THEN rest ELSE chain[i]>>]

NoticeFirst(i, n) == i = 1

\* The waiting stream is noted on the last of a frame's n data buffers.
NoticeLast(i, n) == i = n

\* build_write_buffer: a frame header, then one buffer per chain node or one
\* for the file; fin when the response's declared length is reached.
Frame(s, parts, file, fin) ==
  LET n == Len(parts)
  IN  <<Buff(<<pushes, 0>>, HeaderLen, FALSE, None, FALSE)>> \o
      [i \in 1..n |-> Buff(<<pushes, parts[i][1]>>, parts[i][2], file,
                           IF NoticeLast(i, n) THEN s ELSE None, fin /\ i = n)]

\* on_write_window_ready with room in the windows.
Write(s, parts, file, fin) ==
  /\ Caller /\ ~closed /\ s \notin write_wait
  /\ push(Frame(s, parts, file, fin))
  /\ start_write
  /\ write_wait' = write_wait \cup {s}
  /\ UNCHANGED <<corkVars, closed>>

\* How many of the first n buffers the iovec holds: it ends before a file.
MaxPrefix(n) ==
  CHOOSE k \in 1..n : /\ \A i \in 2..k : ~buffers[i].sendfile
                      /\ k = n \/ buffers[k + 1].sendfile

\* The bytes at b's data pointer; a kasync_file there is not the file's content.
Memory(b, p) ==
  [k \in 1..(b.used - p) |-> IF b.sendfile THEN <<b.id, 0>> ELSE <<b.id, p + k>>]

\* get_read_buffer: a file alone, or memory buffers up to the next file and up
\* to the size of the iovec.
Offer ==
  IF buffers[1].sendfile THEN Bytes(buffers[1], 0)
  ELSE LET room == IF Len(buffers) < MaxIov - 1 THEN Len(buffers) ELSE MaxIov - 1
       IN  FlattenSeq([i \in 1..MaxPrefix(room) |->
                         Memory(buffers[i], IF i = 1 THEN hot ELSE 0)])

\* try_write with something to send: the socket is corked and gets the iovec.
TryWrite ==
  /\ pc = "try" /\ left > 0
  /\ tcp_cork' = TRUE
  /\ offered' = Offer
  /\ pc' = "socket"
  /\ UNCHANGED <<bufVars, tcp_no_cork_at_empty, urgent, write_wait, write_processing, closed,
                 got, remove_list, histVars>>

\* CloseWrite: nothing left, the write callback ends.
CloseWrite ==
  /\ pc = "try" /\ left <= 0
  /\ write_processing' = FALSE /\ pc' = "idle"
  /\ UNCHANGED <<bufVars, corkVars, write_wait, closed, offered, got, remove_list,
                 histVars>>

\* on_write_result, got > 0: the socket took the first n offered bytes.
SocketTakes(n) ==
  /\ pc = "socket" /\ n \in 1..Len(offered)
  /\ wire' = wire \o SubSeq(offered, 1, n)
  /\ got' = n /\ left' = left - n /\ offered' = <<>>
  /\ pc' = "success"
  /\ UNCHANGED <<buffers, hot, corkVars, write_wait, write_processing, closed,
                 remove_list, pushes, pushed, broken>>

\* The header was not the last buffer: only remember that it asked for nodelay.
keep_tcp_cork(flag) ==
  /\ tcp_no_cork_at_empty' = flag
  /\ urgent' = (urgent \/ buffers[1].tcp_nodelay)
  /\ UNCHANGED tcp_cork

\* check_tcp_cork: the buffer is empty; uncork if a frame that is out asked for it.
check_tcp_cork(flag) ==
  /\ tcp_no_cork_at_empty' = FALSE
  /\ tcp_cork' = (tcp_cork /\ ~flag)
  /\ urgent' = (urgent /\ ~flag)

\* What is left of the header after this turn of readSuccess, and of got.
HeaderLeft == IF buffers[1].sendfile THEN buffers[1].used ELSE buffers[1].used - hot
ThisLen == IF got < HeaderLeft THEN got ELSE HeaderLeft

\* A file moves its own offset, by all that is left of got, and its length; a
\* memory buffer only hot.
Advanced ==
  IF buffers[1].sendfile
  THEN [buffers[1] EXCEPT !.used = @ - ThisLen, !.from = @ + got]
  ELSE buffers[1]

\* One turn of readSuccess's loop.
Consume ==
  /\ pc = "success" /\ got > 0
  /\ got' = got - ThisLen
  /\ IF ThisLen < HeaderLeft
     THEN /\ buffers' = [buffers EXCEPT ![1] = Advanced]
          /\ hot' = IF buffers[1].sendfile THEN hot ELSE hot + ThisLen
          /\ UNCHANGED <<corkVars, remove_list, pc>>
     ELSE LET flag == tcp_no_cork_at_empty \/ buffers[1].tcp_nodelay
          IN  /\ buffers' = Tail(buffers)
              /\ remove_list' = <<Advanced>> \o remove_list
              /\ IF Len(buffers) = 1
                 THEN hot' = -1 /\ pc' = "remove" /\ check_tcp_cork(flag)
                 ELSE hot' = 0 /\ pc' = pc /\ keep_tcp_cork(flag)
  /\ UNCHANGED <<left, write_wait, write_processing, closed, offered, histVars>>

\* The loop ends with data left in the buffer.
Consumed ==
  /\ pc = "success" /\ got = 0
  /\ pc' = "remove"
  /\ IF left = 0 THEN check_tcp_cork(tcp_no_cork_at_empty)
                 ELSE UNCHANGED corkVars
  /\ UNCHANGED <<bufVars, write_wait, write_processing, closed, offered, got,
                 remove_list, histVars>>

\* http2_buff::clean wakes the stream noted on the buffer; remove_buff goes on
\* to the next one.
RemoveBuff ==
  /\ pc \in {"remove", "fin"} /\ remove_list # <<>>
  /\ write_wait' = write_wait \ {remove_list[1].ctx}
  /\ remove_list' = Tail(remove_list)
  /\ UNCHANGED <<bufVars, corkVars, write_processing, closed, pc, offered, got,
                 histVars>>

\* on_write_result returns through try_write, close(false) ends.
Removed ==
  /\ pc \in {"remove", "fin"} /\ remove_list = <<>>
  /\ pc' = IF pc = "remove" THEN "try" ELSE "idle"
  /\ write_processing' = (pc = "remove")
  /\ UNCHANGED <<bufVars, corkVars, write_wait, closed, offered, got, remove_list,
                 histVars>>

WriteErrorForgets ==
  /\ pc = "socket"
  /\ buffers' = <<>> /\ hot' = -1 /\ left' = 0 /\ offered' = <<>>
  /\ closed' = TRUE /\ broken' = TRUE /\ pc' = "fin"
  /\ UNCHANGED <<corkVars, write_wait, write_processing, got, remove_list, pushes,
                 pushed, wire>>

\* on_write_result, got <= 0: close(false) takes the whole buffer with clean.
WriteError ==
  /\ pc = "socket"
  /\ remove_list' = buffers
  /\ buffers' = <<>> /\ hot' = -1 /\ left' = 0 /\ offered' = <<>>
  /\ closed' = TRUE /\ broken' = TRUE /\ pc' = "fin"
  /\ UNCHANGED <<corkVars, write_wait, write_processing, got, pushes, pushed, wire>>

\* close(true) of the reading side: no more pushes, what is buffered goes out.
ReadClose ==
  /\ pc \in {"idle", "try", "socket"} /\ ~closed
  /\ closed' = TRUE
  /\ UNCHANGED <<bufVars, corkVars, write_wait, write_processing, loopVars, histVars>>

Quiet == pc = "idle" /\ (closed \/ pushes = MaxPushes) /\ UNCHANGED vars

Writing ==
  \E s \in Streams, r \in Rooms, fin \in BOOLEAN :
    \/ \E c \in Chains : Write(s, Cut(c, r), FALSE, fin)
    \/ \E n \in FileLens : Write(s, <<<<1, IF r < n THEN r ELSE n>>>>, TRUE, fin)

Callback ==
  \/ TryWrite \/ CloseWrite \/ Consume \/ Consumed \/ RemoveBuff \/ Removed

Next ==
  \/ \E f \in Controls : Control(f)
  \/ Writing
  \/ Callback
  \/ \E n \in 1..Len(offered) : SocketTakes(n)
  \/ WriteError
  \/ ReadClose
  \/ Quiet

Spec == Init /\ [][Next]_vars

\* The selector runs a ready callback and the peer's socket takes bytes.
Fairness == WF_vars(Callback) /\ WF_vars(WriteError \/ \E n \in 1..Len(offered) : SocketTakes(n))
FairSpec == Spec /\ Fairness

-----------------------------------------------------------------------------
\* What is buffered and not yet on the wire.
AllBytes ==
  FlattenSeq([i \in 1..Len(buffers) |->
                Bytes(buffers[i], IF i = 1 /\ ~buffers[1].sendfile THEN hot ELSE 0)])
Unsent == SubSeq(AllBytes, got + 1, Len(AllBytes))

\* reset() asserts left == 0 exactly when header == NULL: the counter and the
\* list never disagree, also when a file buffer or an empty chain node is
\* partly through.
LeftIsUnsent ==
  /\ left = Len(Unsent)
  /\ (buffers = <<>>) = (hot = -1)
  /\ pc \notin {"success"} /\ left = 0 => buffers = <<>>

\* The iovec the socket works on stays the start of what is unsent while other
\* fibers push behind it, and is never empty (an empty write returns 0, which
\* on_write_result takes for an error).
OfferIsPrefix ==
  pc = "socket" => offered # <<>> /\ IsPrefix(offered, Unsent)

Noted(s) ==
  Cardinality({i \in 1..Len(buffers) : buffers[i].ctx = s}) +
  Cardinality({i \in 1..Len(remove_list) : remove_list[i].ctx = s})

\* http2_buff::clean asserts ctx->write_wait != NULL: a sleeping writer is noted
\* on exactly one buffer, still queued or on its way to remove_buff.
OneNoticePerWriter ==
  \A s \in Streams : Noted(s) = IF s \in write_wait THEN 1 ELSE 0

\* Once the buffer has drained, no frame that asked for tcp_nodelay is held back
\* by a socket left corked.
UrgentNotHeld == ~write_processing /\ ~closed => ~(urgent /\ tcp_cork)

\* The views the write buffer has of what is unsent agree while fibers push
\* behind a write under way: the byte counter and the list (asserted by reset),
\* the iovec the socket works on and the start of the list, a sleeping writer
\* and the one buffer it is noted on (asserted by http2_buff::clean), and the
\* cork of the socket and the last frame that asked for tcp_nodelay.
BufferConsistent == LeftIsUnsent /\ OfferIsPrefix /\ OneNoticePerWriter /\ UrgentNotHeld

\* Every fiber that sleeps in a write is woken, by success or by failure.
WritersWake == \A s \in Streams : s \in write_wait ~> s \notin write_wait

-----------------------------------------------------------------------------
\* The place in pushed of the last byte a sleeping writer waits for.
Owed(s) ==
  LET all == remove_list \o buffers
      b == all[CHOOSE i \in 1..Len(all) : all[i].ctx = s]
  IN  IF s \notin write_wait THEN 0
      ELSE CHOOSE i \in 1..Len(pushed) : pushed[i] = <<b.id, b.from + b.used>>

Queue == INSTANCE SendQueue WITH Writers <- Streams, accepted <- pushed,
                                 owed <- [s \in Streams |-> Owed(s)]

\* The buffer implements the queue a writer expects: its bytes go out once, in
\* order and unmixed, and write returns its length only when they are all out.
SendsInOrder == Queue!Spec
=============================================================================
