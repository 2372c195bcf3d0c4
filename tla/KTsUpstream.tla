---------------------------- MODULE KTsUpstream -----------------------------
(***************************************************************************)
(* KTsUpstream lets a fiber of one selector use an HTTP/2 upstream stream  *)
(* that belongs to another.  Most calls create a fiber on the stream's     *)
(* selector and join it; some are passed on directly and run on the        *)
(* caller's thread.  ts_header_callback collects the response header in a  *)
(* list while the stream's selector parses it, and read_header hands the   *)
(* list to the caller's callback after the join.                           *)
(*                                                                         *)
(* The two threads run at the same time, so the list is accessed one load  *)
(* or store at a time.  What the stream does in a call is in KHttp2Client. *)
(***************************************************************************)
EXTENDS Naturals, Sequences

CONSTANTS Interim,   \* does the peer send a 100 before the answer?
          Trailers   \* does the caller send trailers?

\* What is assumed of the constants.
TsAssumption == Interim \in BOOLEAN /\ Trailers \in BOOLEAN

VARIABLES pc,         \* where the caller is
          posted,     \* the fiber the caller created on the selector
          cut,        \* the fiber of a shutdown by another fiber of the caller
          stream,     \* the stream as far as the calls need it
          parse,      \* the selector's place in the response and in the callback
          header, last_header, next,    \* KTsUpstream's list
          cursor,     \* header->next as the caller loaded it
          delivered,  \* what the caller's callback received
          off         \* did connection state change on the caller's thread?

list == <<header, last_header, next>>
vars == <<pc, posted, cut, stream, parse, list, cursor, delivered, off>>

\* the fields of a response, each the list cell new_pool_http_header makes
Response == (IF Interim THEN <<"100">> ELSE <<>>) \o <<"status", "field">>
Cells == {"100", "status", "field"}
EndsBlock(f) == f \in {"100", "field"}

Init ==
    /\ pc = "callback" /\ posted = "none" /\ cut = "none"
    /\ stream = [waiting |-> FALSE, callback |-> FALSE, send_header |-> FALSE,
                 parsed_header |-> FALSE, rst |-> FALSE, sent |-> FALSE]
    /\ parse = [rest |-> Response, at |-> "idle"]
    /\ header = "nil" /\ last_header = "nil" /\ next = [c \in Cells |-> "nil"]
    /\ cursor = "nil" /\ delivered = <<>> /\ off = FALSE

----------------------------------------------------------------------------
(* The caller *)

\* kfiber_create2 on the stream's selector, and kfiber_join
Post(call) ==
    /\ pc = call
    /\ posted' = call
    /\ pc' = "join"
    /\ UNCHANGED <<cut, stream, parse, list, cursor, delivered, off>>

\* send_method_path, send_host and send_header only fill the stream's own frame
SendHeader ==
    /\ pc = "send_header"
    /\ stream' = [stream EXCEPT !.send_header = TRUE]
    /\ pc' \in (IF Trailers THEN {"write_all", "send_trailer"} ELSE {"write_all"})
    /\ UNCHANGED <<posted, cut, parse, list, cursor, delivered, off>>

\* send_trailer is passed on: KHttp2Upstream sends a header that is still
\* pending, from this thread
SendTrailer ==
    /\ pc = "send_trailer"
    /\ off' = (off \/ stream.send_header)
    /\ stream' = [stream EXCEPT !.send_header = TRUE, !.sent = @ \/ stream.send_header]
    /\ pc' = "write_end"
    /\ UNCHANGED <<posted, cut, parse, list, cursor, delivered>>

\* the joined fiber has ended; read_header goes on to its list
Join ==
    /\ pc = "join"
    /\ \E result \in {"callback ok", "write_all ok", "write_end ok", "read_header ok", "gc ok"} :
        /\ posted = result
        /\ pc' = CASE result = "callback ok"    -> "send_header"
                   [] result = "write_all ok"   -> IF Trailers THEN "send_trailer" ELSE "write_end"
                   [] result = "write_end ok"   -> "read_header"
                   [] result = "read_header ok" -> "test"
                   [] OTHER                     -> "deleted"
    /\ posted' = "none"
    /\ UNCHANGED <<cut, stream, parse, list, cursor, delivered, off>>

\* while (header): the test and the call of stack.header
Deliver ==
    /\ pc = "test" /\ header # "nil"
    /\ delivered' = Append(delivered, header)
    /\ pc' = "load"
    /\ UNCHANGED <<posted, cut, stream, parse, list, cursor, off>>

\* header = header->next is a load and a store
LoadNext ==
    /\ pc = "load"
    /\ cursor' = next[header]
    /\ pc' = "store"
    /\ UNCHANGED <<posted, cut, stream, parse, list, delivered, off>>

StoreHeader ==
    /\ pc = "store"
    /\ header' = cursor
    /\ pc' = "test"
    /\ UNCHANGED <<posted, cut, stream, parse, last_header, next, cursor, delivered, off>>

\* read_header returns; after nothing but a 100 the caller reads again
Return ==
    /\ pc = "test" /\ header = "nil"
    /\ pc' = IF delivered = <<"100">> /\ ~stream.rst THEN "read_header" ELSE "gc"
    /\ UNCHANGED <<posted, cut, stream, parse, list, cursor, delivered, off>>

\* another fiber of the caller shuts the stream down
PostShutdown ==
    /\ cut = "none" /\ pc \notin {"callback", "gc", "deleted"} /\ posted \notin {"callback", "callback ok", "gc", "gc ok"}
    /\ cut' = "shutdown"
    /\ UNCHANGED <<pc, posted, stream, parse, list, cursor, delivered, off>>

----------------------------------------------------------------------------
(* The stream's selector: one thread, busy while it is inside the callback *)

Idle == parse.at = "idle"

\* KHttp2's send_header and write run here: the pending frame is sent
RunSend ==
    /\ Idle /\ posted \in {"write_all", "write_end"}
    /\ stream' = [stream EXCEPT !.send_header = FALSE, !.sent = TRUE]
    /\ posted' = IF posted = "write_all" THEN "write_all ok" ELSE "write_end ok"
    /\ UNCHANGED <<pc, cut, parse, list, cursor, delivered, off>>

RunSetCallback ==
    /\ Idle /\ posted = "callback"
    /\ stream' = [stream EXCEPT !.callback = TRUE]
    /\ posted' = "callback ok"
    /\ UNCHANGED <<pc, cut, parse, list, cursor, delivered, off>>

\* a slip: the fiber ends without waiting for the header
RunReadHeaderNow ==
    /\ Idle /\ posted = "read_header"
    /\ posted' = "read_header ok"
    /\ UNCHANGED <<pc, cut, stream, parse, list, cursor, delivered, off>>

\* ReadHeader returns at once or leaves the fiber waiting
RunReadHeader ==
    /\ Idle /\ posted = "read_header" /\ ~stream.waiting
    /\ IF stream.rst \/ stream.parsed_header
       THEN posted' = "read_header ok" /\ UNCHANGED stream
       ELSE stream' = [stream EXCEPT !.waiting = TRUE] /\ UNCHANGED posted
    /\ UNCHANGED <<pc, cut, parse, list, cursor, delivered, off>>

\* gc releases the stream, and KTsUpstream with its list is deleted after it;
\* a shutdown that was posted before runs before
RunGc ==
    /\ Idle /\ posted = "gc" /\ cut # "shutdown"
    /\ stream' = [stream EXCEPT !.callback = FALSE]
    /\ posted' = "gc ok"
    /\ UNCHANGED <<pc, cut, parse, list, cursor, delivered, off>>

\* terminate_stream: the callback goes and the reader is woken
Cut == [stream EXCEPT !.rst = TRUE, !.callback = FALSE, !.waiting = FALSE]

RunShutdown ==
    /\ Idle /\ cut = "shutdown"
    /\ cut' = "shutdown ok"
    /\ stream' = Cut
    /\ posted' = IF stream.waiting THEN "read_header ok" ELSE posted
    /\ UNCHANGED <<pc, parse, list, cursor, delivered, off>>

\* the next field of the response reaches ts_header_callback, which tests header
Field ==
    /\ Idle /\ parse.rest # <<>> /\ stream.callback /\ stream.sent /\ ~stream.rst
    /\ parse' = [parse EXCEPT !.at = IF header = "nil" THEN "first" ELSE "append"]
    /\ UNCHANGED <<pc, posted, cut, stream, list, cursor, delivered, off>>

\* ts->header = header
StoreFirst ==
    /\ parse.at = "first"
    /\ header' = Head(parse.rest)
    /\ parse' = [parse EXCEPT !.at = "last"]
    /\ UNCHANGED <<pc, posted, cut, stream, last_header, next, cursor, delivered, off>>

\* last_header->next = header
StoreNext ==
    /\ parse.at = "append"
    /\ next' = [next EXCEPT ![last_header] = Head(parse.rest)]
    /\ parse' = [parse EXCEPT !.at = "last"]
    /\ UNCHANGED <<pc, posted, cut, stream, header, last_header, cursor, delivered, off>>

\* last_header = header
NewLast(c) == c

StoreLast ==
    /\ parse.at = "last"
    /\ last_header' = NewLast(Head(parse.rest))
    /\ parse' = [parse EXCEPT !.at = IF EndsBlock(Head(parse.rest)) THEN "ends" ELSE "idle",
                              !.rest = Tail(@)]
    /\ UNCHANGED <<pc, posted, cut, stream, header, next, cursor, delivered, off>>

\* does a fiber wait in ReadHeader?
Wakes == stream.waiting

\* on_header_success: the reader is woken; the callback goes with the answer
BlockEnds ==
    /\ parse.at = "ends"
    /\ parse' = [parse EXCEPT !.at = "idle"]
    /\ stream' = [stream EXCEPT !.waiting = @ /\ ~Wakes,
                                !.parsed_header = (parse.rest = <<>>),
                                !.callback = @ /\ parse.rest # <<>>]
    /\ posted' = IF Wakes THEN "read_header ok" ELSE posted
    /\ UNCHANGED <<pc, cut, list, cursor, delivered, off>>

Done == pc = "deleted" /\ cut # "shutdown" /\ UNCHANGED vars

Selector ==
    \/ RunSend \/ RunSetCallback \/ RunReadHeader \/ RunGc \/ RunShutdown
    \/ StoreFirst \/ StoreNext \/ StoreLast \/ BlockEnds

Caller ==
    \/ \E call \in {"callback", "write_all", "write_end", "read_header", "gc"} : Post(call)
    \/ SendHeader \/ SendTrailer \/ Join \/ Deliver \/ LoadNext \/ StoreHeader \/ Return

Next == Selector \/ Caller \/ Field \/ PostShutdown \/ Done

Spec == Init /\ [][Next]_vars

(* Both threads run, and the peer answers or the timeout of the stream     *)
(* shuts it down, as HeaderReaderWoken of KHttp2Client shows.              *)
FairSpec == Spec /\ WF_vars(Selector) /\ WF_vars(Caller) /\ WF_vars(Field)

----------------------------------------------------------------------------
(* Properties *)

(* The list of a response is well formed whenever the selector is between  *)
(* two fields: last_header is the last cell that can be reached.           *)
ListWellFormed ==
    (parse.at \in {"idle", "ends"} /\ header # "nil")
        => /\ next[last_header] = "nil"
           /\ \/ header = last_header \/ next[header] = last_header
              \/ next[header] # "nil" /\ next[next[header]] = last_header

(* ts_header_callback runs on the selector without a lock: the caller is   *)
(* not walking the list meanwhile.                                         *)
NoRace == ~(pc \in {"load", "store"} /\ parse.at \in {"first", "append", "last"})

(* A caller whose stream answered and was not cut has the whole header, in *)
(* order, when read_header has returned for the last time.                 *)
HeaderHandedOver ==
    (pc \in {"gc", "deleted"} /\ ~stream.rst) => delivered = Response

(* kassert(kselector_is_same_thread(...)) in KHttp2: connection state only *)
(* changes on the connection's own thread.                                 *)
OnSelector == ~off

=============================================================================
