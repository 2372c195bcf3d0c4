------------------------------ MODULE KWebDav ------------------------------
(***************************************************************************)
(* The WebDAV client (davlib/KWebDavClient.cpp, KWebDavRequest) on its     *)
(* HTTP/1.1 upstreams (KHttpUpstream.cpp, KTcpUpstream.cpp) and the pool   *)
(* they come from and go back to.  What travels on a connection is a       *)
(* sequence of tokens that carry the request they belong to, so that an    *)
(* answer read by the wrong request shows.  The server is external: it     *)
(* takes requests in order, counts the body it was announced, and answers  *)
(* in order.                                                               *)
(***************************************************************************)
EXTENDS Integers, Sequences, SequencesExt, FiniteSets

CONSTANTS
    Conns,      \* connections that can be opened
    Fibers,     \* fibers that use the client
    OpsOf,      \* the operations each fiber calls, a function from Fibers
    MaxOps,     \* operations altogether; requests are numbered from 1
    PutPieces,  \* pieces of the body of a PUT
    Framings,   \* how the server frames an answer: "none", "length", "chunked", "close"
    Faults,     \* "die" a connection breaks, "source" the stream a PUT reads fails
    Cycle       \* TRUE: request numbers wrap, so that operations go on forever

Ops == {"OPTIONS", "DELETE", "LOCK", "UNLOCK", "REFRESH", "MKCOL", "COPY", "PUT", "GET", "LIST"}

\* What is assumed of the constants.
BoundsAssumption ==
    /\ MaxOps \in Nat \ {0} /\ PutPieces \in Nat
    /\ OpsOf \in [Fibers -> SUBSET Ops]
    /\ Framings \subseteq {"none", "length", "chunked", "close"}
    /\ Faults \subseteq {"die", "source"} /\ Cycle \in BOOLEAN

VARIABLES
    conn,       \* each connection: who has it, whether it lives, its two buffers
                \* (ctx.send_header_buffer, ctx.read_buffer) and the bytes coming down
    pool,       \* KPoolableSocketContainer: idle connections, the next to be taken first
    srv,        \* the server's end of each connection: the request it is reading, the
                \* body pieces it still waits for, and the requests it owes an answer
    rq,         \* the KWebDavRequest of each fiber, with its KResponseData
    token,      \* current_lock_token: the request that got it, or 0
    held,       \* the server's lock: the request it was granted to, or 0
    broken,     \* whether a connection ever broke
    next        \* the number of the next request

vars == <<conn, pool, srv, rq, token, held, broken, next>>

NoConn == [st |-> "none", dead |-> FALSE, send |-> FALSE, buf |-> << >>, down |-> << >>]
NoServer == [cur |-> [id |-> 0, op |-> "none"], need |-> 0, owed |-> << >>]
NoRequest ==
    [pc |-> "idle", op |-> "none", id |-> 0, c |-> "none", left |-> 0, chunked |-> FALSE,
     todo |-> 0, seen |-> {}, ok |-> FALSE, result |-> "none"]

Init ==
    /\ conn = [c \in Conns |-> NoConn]
    /\ pool = << >>
    /\ srv = [c \in Conns |-> NoServer]
    /\ rq = [f \in Fibers |-> NoRequest]
    /\ token = 0 /\ held = 0 /\ broken = FALSE /\ next = 1

----------------------------------------------------------------------------
\* The operations differ in the body they send, in the lock token they need (or must not
\* have), in the status they take for success, and in whether they read the answer's body.

Option == [name |-> "OPTIONS", body |-> 0, lock |-> "any", success |-> {200}, reads |-> FALSE]
Delete == [name |-> "DELETE", body |-> 0, lock |-> "any", success |-> {204}, reads |-> TRUE]
Lock == [name |-> "LOCK", body |-> 1, lock |-> "without", success |-> {200, 201}, reads |-> TRUE]
Unlock == [name |-> "UNLOCK", body |-> 0, lock |-> "with", success |-> {204}, reads |-> TRUE]
FlushLock == [name |-> "REFRESH", body |-> 0, lock |-> "with", success |-> {200}, reads |-> TRUE]
CopyMove == [name |-> "COPY", body |-> 0, lock |-> "any", success |-> {201, 204}, reads |-> TRUE]
Mkcol == [name |-> "MKCOL", body |-> 0, lock |-> "any", success |-> {201}, reads |-> TRUE]
Put == [name |-> "PUT", body |-> PutPieces, lock |-> "any", success |-> {201, 204}, reads |-> TRUE]
Get == [name |-> "GET", body |-> 0, lock |-> "any", success |-> {200}, reads |-> TRUE]
List == [name |-> "LIST", body |-> 1, lock |-> "any", success |-> {207}, reads |-> TRUE]

Calls == {Option, Delete, Lock, Unlock, FlushLock, CopyMove, Mkcol, Put, Get, List}
CallOf(op) == CHOOSE d \in Calls: d.name = op
BodyOf(op) == CallOf(op).body

\* What an operation is refused for before it asks for a connection.
Denied(op) == CallOf(op).lock = (IF token = 0 THEN "with" ELSE "without")

\* KSockPoolHelper::get_upstream: the connection that came back last, or a new one.
Upstreams ==
    IF pool # << >> THEN {Head(pool)} ELSE {c \in Conns: conn[c].st = "none"}

\* new_request: the request line and headers go to send_header_buffer.
NewRequest(f, op) ==
    /\ rq[f].pc = "idle" /\ next <= MaxOps
    /\ op \in OpsOf[f] /\ ~Denied(op)
    /\ \E c \in Upstreams:
          /\ conn' = [conn EXCEPT ![c].st = "busy", ![c].send = TRUE]
          /\ pool' = SelectSeq(pool, LAMBDA x: x # c)
          /\ rq' = [rq EXCEPT ![f] = [NoRequest EXCEPT !.pc = "complete", !.op = op, !.id = next,
                                       !.c = c, !.todo = BodyOf(op)]]
    /\ next' = IF Cycle /\ next = MaxOps THEN 1 ELSE next + 1
    /\ UNCHANGED <<srv, token, held, broken>>

\* What the server makes of a request line, or of anything else it gets, on c.
Receives(c, id, op, need) ==
    LET s == srv[c]
        x == [id |-> id, op |-> op]
    IN  IF s.need > 0
        THEN [s EXCEPT !.need = @ - 1, !.owed = IF s.need = 1 THEN Append(@, s.cur) ELSE @]
        ELSE [s EXCEPT !.cur = x, !.need = need, !.owed = IF need = 0 THEN Append(@, x) ELSE @]

\* send_header_complete: no caller looks at its result.
SendHeaderComplete(f) ==
    LET r == rq[f] IN
    /\ r.pc = "complete"
    /\ srv' = IF conn[r.c].dead THEN srv
              ELSE [srv EXCEPT ![r.c] = Receives(r.c, r.id, r.op, BodyOf(r.op))]
    /\ conn' = [conn EXCEPT ![r.c].send = FALSE]
    /\ rq' = [rq EXCEPT ![f].pc = IF r.todo > 0 THEN "body" ELSE "header"]
    /\ UNCHANGED <<pool, token, held, broken, next>>

\* write_all of a piece of the body; only put() looks at the result.
WriteBody(f) ==
    LET r == rq[f] IN
    /\ r.pc = "body"
    /\ IF conn[r.c].dead
       THEN /\ rq' = IF r.op = "PUT" THEN [rq EXCEPT ![f].pc = "gc", ![f].result = "error"]
                     ELSE [rq EXCEPT ![f].pc = "header"]
            /\ UNCHANGED srv
       ELSE /\ srv' = [srv EXCEPT ![r.c] = Receives(r.c, r.id, r.op, 0)]
            /\ rq' = [rq EXCEPT ![f].todo = @ - 1,
                                ![f].pc = IF r.todo = 1 THEN "header" ELSE "body"]
    /\ UNCHANGED <<conn, pool, token, held, broken, next>>

\* put(): the stream the body is read from fails.
SourceFails(f) ==
    /\ "source" \in Faults
    /\ rq[f].pc = "body" /\ rq[f].op = "PUT"
    /\ rq' = [rq EXCEPT ![f].pc = "gc", ![f].result = "error"]
    /\ UNCHANGED <<conn, pool, srv, token, held, broken, next>>

----------------------------------------------------------------------------
\* The server.

Body(id, framing) ==
    LET data == [id |-> id, kind |-> "data"] IN
    CASE framing = "none" -> << >>
      [] framing = "length" -> <<data>>
      [] framing = "chunked" -> <<data, [id |-> id, kind |-> "end"]>>
      [] framing = "close" -> <<data>>

\* It answers the oldest request; what LOCK and UNLOCK do happens here.
Answer(c) ==
    /\ srv[c].owed # << >> /\ ~conn[c].dead
    /\ LET x == Head(srv[c].owed) IN
       \E framing \in Framings, status \in CallOf(x.op).success \cup {409}:
          /\ x.op = "LOCK" /\ held # 0 => status = 409
          /\ x.op = "UNLOCK" => (status = 204) = (held # 0)
          /\ held' = CASE x.op = "LOCK" /\ status # 409 -> x.id
                       [] x.op = "UNLOCK" -> 0
                       [] OTHER -> held
          /\ conn' = [conn EXCEPT ![c].down =
                @ \o <<[id |-> x.id, kind |-> "head", status |-> status, framing |-> framing]>>
                  \o Body(x.id, framing)]
    /\ srv' = [srv EXCEPT ![c].owed = Tail(@)]
    /\ UNCHANGED <<pool, rq, token, broken, next>>

\* A connection breaks: what has come down can still be read.
Die(c) ==
    /\ "die" \in Faults /\ ~broken
    /\ conn[c].st \in {"busy", "idle"} /\ ~conn[c].dead
    /\ conn' = [conn EXCEPT ![c].dead = TRUE]
    /\ srv' = [srv EXCEPT ![c] = NoServer]
    /\ broken' = TRUE
    /\ UNCHANGED <<pool, rq, token, held, next>>

----------------------------------------------------------------------------
\* The answer.

\* KResponseData::parse_header: what is left to read after the header.
LeftOf(framing) ==
    CASE framing = "none" -> 0 [] framing = "length" -> 1
      [] framing = "chunked" -> -1 [] framing = "close" -> 0

\* What is done once the header is there.
AfterHeader(op) == IF CallOf(op).reads THEN "read" ELSE "gc"

\* The status decides what the operation returns.
Result(ok) == IF ok THEN "ok" ELSE "error"

\* What lock() does with the header of the answer, before it skips the body.
Locked(r, ok) == IF ok THEN r.id ELSE token

\* KHttpUpstream::read_header: one read may bring any part of what has come down; a
\* head token at the front is parsed, the rest stays in read_buffer.
ReadHeader(f) ==
    LET r == rq[f]
        d == conn[r.c].down
        ok == d[1].status \in CallOf(r.op).success
    IN  /\ r.pc = "header" /\ d # << >>
        /\ \E k \in 1..Len(d):
              /\ conn' = [conn EXCEPT ![r.c].down = SubSeq(d, k + 1, Len(d)),
                                      ![r.c].buf = SubSeq(d, 2, k)]
              /\ IF d[1].kind = "head"
                 THEN rq' = [rq EXCEPT ![f].pc = AfterHeader(r.op), ![f].ok = ok,
                                       ![f].left = LeftOf(d[1].framing),
                                       ![f].chunked = d[1].framing = "chunked",
                                       ![f].seen = {d[1].id}, ![f].result = Result(ok)]
                 ELSE rq' = [rq EXCEPT ![f].pc = "gc", ![f].result = "error", ![f].seen = {d[1].id}]
        /\ token' = IF r.op = "LOCK" /\ d[1].kind = "head" THEN Locked(r, ok) ELSE token
        /\ UNCHANGED <<pool, srv, held, broken, next>>

\* The connection is gone: read_header fails, and with DELETE and LOCK skip_body finds
\* nothing left.
HeaderFails(f) ==
    LET r == rq[f] IN
    /\ r.pc = "header" /\ conn[r.c].dead /\ conn[r.c].down = << >>
    /\ rq' = [rq EXCEPT ![f].pc = "gc", ![f].result = "error"]
    /\ UNCHANGED <<conn, pool, srv, token, held, broken, next>>

\* KHttpUpstream::read takes from read_buffer before the connection.
Coming(c) == conn[c].buf \o conn[c].down
Without(c) ==
    IF conn[c].buf # << >> THEN [conn EXCEPT ![c].buf = Tail(@)]
    ELSE [conn EXCEPT ![c].down = Tail(@)]

\* KResponseData::read, in skip_body, read_body or the loop of the caller of get().
ReadBody(f) ==
    LET r == rq[f] IN
    /\ r.pc = "read" /\ r.left # 0 /\ Coming(r.c) # << >>
    /\ LET t == Head(Coming(r.c)) IN
       rq' = [rq EXCEPT ![f].seen = @ \cup {t.id},
                        ![f].left = IF r.chunked THEN (IF t.kind = "end" THEN 0 ELSE -1)
                                    ELSE @ - 1]
    /\ conn' = Without(r.c)
    /\ UNCHANGED <<pool, srv, token, held, broken, next>>

\* What unlock() does, after it has skipped the body.
Unlocked(r) == IF r.ok THEN 0 ELSE token

\* The body is read, or breaks off, which only a caller of get() or list() can see.
Finish(f) ==
    LET r == rq[f] IN
    /\ r.pc = "read"
    /\ r.left = 0 \/ (conn[r.c].dead /\ Coming(r.c) = << >>)
    /\ rq' = [rq EXCEPT ![f].pc = "gc"]
    /\ token' = IF r.op = "UNLOCK" THEN Unlocked(r) ELSE token
    /\ UNCHANGED <<conn, pool, srv, held, broken, next>>

\* The caller of get() may let the request go before its end.
DropGet(f) ==
    /\ rq[f].pc = "read" /\ rq[f].op = "GET"
    /\ rq' = [rq EXCEPT ![f].pc = "gc", ![f].result = "dropped"]
    /\ UNCHANGED <<conn, pool, srv, token, held, broken, next>>

KeepAlways(r) == TRUE

\* ~KResponseData: the upstream goes back to the pool when nothing is left to read, else
\* it is closed.
Keep(r) == r.left = 0

\* KHttpUpstream::clean.
Cleaned(c) == [conn[c] EXCEPT !.send = FALSE, !.buf = << >>]

\* KTcpUpstream::gc.
Gc(f) ==
    LET r == rq[f] IN
    /\ r.pc = "gc"
    /\ IF Keep(r)
       THEN /\ conn' = [conn EXCEPT ![r.c] = [Cleaned(r.c) EXCEPT !.st = "idle"]]
            /\ pool' = <<r.c>> \o pool
            /\ UNCHANGED srv
       ELSE /\ conn' = [conn EXCEPT ![r.c] = IF Cycle THEN NoConn ELSE [NoConn EXCEPT !.st = "gone"]]
            /\ srv' = [srv EXCEPT ![r.c] = NoServer]
            /\ UNCHANGED pool
    /\ rq' = [rq EXCEPT ![f] = [NoRequest EXCEPT !.result = r.result]]
    /\ UNCHANGED <<token, held, broken, next>>

\* The life time of an idle connection ends.
Expire(c) ==
    /\ conn[c].st = "idle"
    /\ pool' = SelectSeq(pool, LAMBDA x: x # c)
    /\ conn' = [conn EXCEPT ![c] = IF Cycle THEN NoConn ELSE [NoConn EXCEPT !.st = "gone"]]
    /\ srv' = [srv EXCEPT ![c] = NoServer]
    /\ UNCHANGED <<rq, token, held, broken, next>>

Step(f) ==
    \/ SendHeaderComplete(f) \/ WriteBody(f) \/ SourceFails(f) \/ ReadHeader(f) \/ HeaderFails(f)
    \/ ReadBody(f) \/ Finish(f) \/ DropGet(f) \/ Gc(f)

Next ==
    \/ \E f \in Fibers: Step(f) \/ \E op \in Ops: NewRequest(f, op)
    \/ \E c \in Conns: Answer(c) \/ Die(c) \/ Expire(c)

Spec == Init /\ [][Next]_vars
\* A fiber goes on with its operation, and the server answers.
FairSpec ==
    /\ Spec
    /\ \A f \in Fibers: WF_vars(Step(f))
    /\ \A c \in Conns: WF_vars(Answer(c))
\* The application goes on calling operations.
BusySpec == FairSpec /\ \A f \in Fibers: WF_vars(\E op \in Ops: NewRequest(f, op))

----------------------------------------------------------------------------
\* A request reads its own answer and nothing of another's, on a connection that served
\* others before it (the pairing keep-alive rests on; ~KResponseData decides it).
OwnAnswer == \A f \in Fibers: rq[f].seen \subseteq {rq[f].id}

\* A living connection in the pool is at rest on both sides: the server waits for no
\* more of a request and owes no answer, and nothing is on the way or in a buffer.
PooledAtRest ==
    \A c \in Conns: conn[c].st = "idle" /\ ~conn[c].dead =>
        srv[c].need = 0 /\ srv[c].owed = << >> /\ Coming(c) = << >> /\ ~conn[c].send

\* While no connection breaks, client and server agree on who holds the lock whenever no
\* operation that changes it is under way (lock, unlock, current_lock_token).
LockAgreed ==
    ~broken /\ (\A f \in Fibers: rq[f].op \notin {"LOCK", "UNLOCK"}) => token = held

\* KHttpUpstream.h asserts in its destructor, and send_method_path asserts, that the
\* buffers of an earlier request are gone.
BuffersGone == \A c \in Conns: conn[c].st \in {"none", "idle", "gone"} => ~conn[c].send /\ conn[c].buf = << >>

\* Every operation returns, and its connection goes back or is closed.
OpsEnd == \A f \in Fibers: (rq[f].pc # "idle") ~> (rq[f].pc = "idle")

\* A client of a server that accepts connections and answers works again some time after
\* a connection broke.
Recovers == []<>(\E f \in Fibers: rq[f].result = "ok" \/ rq[f].ok)
============================================================================
