------------------------------ MODULE KSockPool ------------------------------
(***************************************************************************)
(* The pool of upstream connections of one server (KPoolableSocketContainer*)
(* and its KSockPoolHelper): sockets are taken from it, given back with a  *)
(* life time, expired and cleaned, while the pool itself is counted by the *)
(* upstreams bound to it and dropped by its owner.  An HTTP/1 or TCP       *)
(* upstream has its connection to itself; HTTP/2 streams share one, kept   *)
(* in the pool by its admin stream.                                        *)
(*                                                                         *)
(* Fibers on all selector threads call in here; what the code does under   *)
(* the container's lock, and what it does to an upstream only it holds, is *)
(* one action.                                                             *)
(***************************************************************************)
EXTENDS Integers, Sequences, SequencesExt, FiniteSets

CONSTANTS
  Conns,              \* connections that can be opened
  Handles,            \* KUpstream objects
  Kinds,              \* kinds of connection
  LifeTimes,          \* life times the owner sets
  GcTimes,            \* life times a request gives back with
  H2Life,             \* life time of an HTTP/2 admin stream (30)
  LifeWidth,          \* 2^16: life_time is a uint16_t
  MaxStream,          \* KGL_HTTP_V2_DEFAULT_MAX_STREAM
  Epoch,              \* kgl_current_sec at the start
  MaxNow              \* bound: how many seconds pass

\* What is assumed of the constants.
PoolAssumption ==
  /\ Kinds \subseteq {"tcp", "http", "h2", "h2ws"}
  /\ Epoch \in Nat /\ MaxNow \in Nat /\ MaxStream \in Nat
  /\ H2Life \in Nat /\ LifeTimes \subseteq Int /\ GcTimes \subseteq Int
  /\ LifeWidth \in Nat \ {0} /\ H2Life < Epoch /\ LifeWidth < Epoch

VARIABLES
  now, life_time,
  refs,               \* KAtomCountable::refs of the container
  owner,              \* the list it was created for still has it
  deleted,
  pool, size,         \* KPoolableSocketContainerImp: head .. tail, size
  us,                 \* upstream objects
  conn                \* connections

vars == <<now, life_time, refs, owner, deleted, pool, size, us, conn>>

Free == [conn |-> "none", admin |-> FALSE, time |-> 0, bound |-> FALSE, at |-> "none"]
Closed == [kind |-> "none", processing |-> 0, has_admin |-> FALSE, goaway |-> FALSE]

Init ==
  /\ now = Epoch /\ life_time = 0
  /\ refs = 1 /\ owner = TRUE /\ deleted = FALSE
  /\ pool = <<>> /\ size = 0
  /\ us = [h \in Handles |-> Free]
  /\ conn = [c \in Conns |-> Closed]

Live == {h \in Handles : us[h].at # "none"}
On(c) == {h \in Live : us[h].conn = c}
KindOf(h) == conn[us[h].conn].kind

\* Only HTTP/2 upstreams share a connection.
IsMultiStream(h) == KindOf(h) \in {"h2", "h2ws"}
support_websocket(h) == KindOf(h) \in {"http", "h2ws"}

\* A container object exists and may be called by its owner.
Usable == ~deleted /\ owner

-----------------------------------------------------------------------------
\* Destroying the upstreams in R: a bound one gives its reference back
\* (unbind), an HTTP/2 stream its count on the connection (release_admin), and
\* an HTTP/1 or TCP upstream closes its connection.
Bound(R) == Cardinality({h \in R : us[h].bound})

ConnKeepsAdmin(c, R) ==
  LET mine == R \cap On(c)
  IN  IF mine = {} THEN conn[c]
      ELSE IF conn[c].kind \in {"h2", "h2ws"}
      THEN [conn[c] EXCEPT !.processing = @ - Cardinality(mine)]
      ELSE Closed

\* What a connection is left with.
ConnWithout(c, R) ==
  LET mine == R \cap On(c)
  IN  IF mine = {} THEN conn[c]
      ELSE IF conn[c].kind \in {"h2", "h2ws"}
      THEN [conn[c] EXCEPT !.processing = @ - Cardinality(mine),
                           !.has_admin = @ /\ \A h \in mine : ~us[h].admin]
      ELSE Closed

\* SafeDestroyUpstream: on the selector the connection is bound to.  A pooled
\* HTTP/1 or TCP upstream is bound to none and goes at once; an HTTP/2 one goes
\* at once (same) or from a fiber made for it.
Later(R, same) == IF same THEN {} ELSE {h \in R : IsMultiStream(h)}

Gone(h, R, same) ==
  IF h \in Later(R, same) THEN [us[h] EXCEPT !.at = "doomed"]
  ELSE IF h \in R THEN Free ELSE us[h]

-----------------------------------------------------------------------------
Expired(h) == us[h].time <= now

\* refreshList(false): from the tail, up to the first that has not expired.
Refreshed ==
  LET keep == {i \in 1..Len(pool) : ~Expired(pool[i])}
      last == IF keep = {} THEN 0 ELSE CHOOSE i \in keep : \A j \in keep : j <= i
  IN  SubSeq(pool, 1, last)

\* connect(): no stream any more, or one too many.
ConnectFails(h) ==
  LET c == conn[us[h].conn] IN c.goaway \/ c.processing + 1 >= MaxStream + 1

\* internalGetPoolSocket passes over admin streams whose connection gives no
\* stream, removing them; what is left starts with the upstream it looks at last.
Rest(ws) ==
  LET s == Refreshed
      over(i) == /\ IsMultiStream(s[i]) /\ ConnectFails(s[i])
                 /\ ws => support_websocket(s[i])
      ks == {k \in 0..Len(s) : \A i \in 1..k : over(i)}
      passed == CHOOSE k \in ks : \A j \in ks : j <= k
  IN  SubSeq(s, passed + 1, Len(s))

\* What a pass over the list leaves: the upstreams not in kept are destroyed.
Dropped(kept) == Range(pool) \ Range(kept)

SweepConns(kept, same) ==
  [c \in Conns |-> ConnWithout(c, Dropped(kept) \ Later(Dropped(kept), same))]

Sweep(kept, same) ==
  /\ pool' = kept /\ size' = size - Cardinality(Dropped(kept))
  /\ us' = [h \in Handles |-> Gone(h, Dropped(kept), same)]
  /\ conn' = SweepConns(kept, same)

\* An upstream that cannot do the wanted websocket ends the search.
Serves(rest, ws) == rest # <<>> /\ (ws => support_websocket(rest[1]))

\* get_pool_socket with nothing to give.
GetNothing(ws, same) ==
  /\ Usable /\ ~Serves(Rest(ws), ws)
  /\ Sweep(Rest(ws), same)
  /\ UNCHANGED <<now, life_time, refs, owner, deleted>>

\* get_pool_socket takes a single-stream upstream out of the pool and binds it.
GetSocket(ws, same) ==
  /\ Usable /\ Serves(Rest(ws), ws) /\ ~IsMultiStream(Rest(ws)[1])
  /\ LET rest == Rest(ws)
     IN  /\ pool' = Tail(rest) /\ size' = size - Cardinality(Dropped(rest)) - 1
         /\ us' = [h \in Handles |->
              IF h = rest[1] THEN [us[h] EXCEPT !.bound = TRUE, !.at = "out", !.time = now]
              ELSE Gone(h, Dropped(rest), same)]
         /\ conn' = SweepConns(rest, same)
  /\ refs' = refs + 1
  /\ UNCHANGED <<now, life_time, owner, deleted>>

NewUs(c, admin, time) ==
  [conn |-> c, admin |-> admin, time |-> time, bound |-> TRUE, at |-> "out"]

\* get_pool_socket makes a stream on a pooled HTTP/2 connection; its admin
\* stream stays in the pool.
GetStream(ws, same, n) ==
  /\ Usable /\ n \notin Live
  /\ Serves(Rest(ws), ws) /\ IsMultiStream(Rest(ws)[1])
  /\ LET rest == Rest(ws)
         c == us[rest[1]].conn
     IN  /\ pool' = rest /\ size' = size - Cardinality(Dropped(rest))
         /\ us' = [h \in Handles |-> IF h = n THEN NewUs(c, FALSE, now)
                                      ELSE Gone(h, Dropped(rest), same)]
         /\ conn' = [SweepConns(rest, same) EXCEPT ![c].processing = @ + 1]
  /\ refs' = refs + 1
  /\ UNCHANGED <<now, life_time, owner, deleted>>

\* get_upstream past the pool: a new connection, of the kind the configuration
\* and ALPN give, bound to the container.  The first stream of an HTTP/2
\* connection is its admin stream.
Connect(c, h, kind) ==
  /\ Usable /\ h \notin Live /\ conn[c] = Closed /\ On(c) = {}
  /\ LET multi == kind \in {"h2", "h2ws"}
     IN  /\ conn' = [conn EXCEPT ![c] = [kind |-> kind, goaway |-> FALSE,
                       has_admin |-> multi, processing |-> IF multi THEN 1 ELSE 0]]
         /\ us' = [us EXCEPT ![h] = NewUs(c, multi, 0)]
  /\ refs' = refs + 1
  /\ UNCHANGED <<now, life_time, owner, deleted, pool, size>>

\* read_header notes the time in the word it shares with expire_time.
ReadHeader(h) ==
  /\ us[h].at = "out" /\ us[h].time # now
  /\ us' = [us EXCEPT ![h].time = now]
  /\ UNCHANGED <<now, life_time, refs, owner, deleted, pool, size, conn>>

-----------------------------------------------------------------------------
\* gcSocket: how long an upstream given back with lt is kept.
Kept(lt) == IF lt = 0 \/ lt > life_time THEN life_time ELSE lt

\* gcSocket pools it: not switched off, and neither from the future nor expired.
Keeps(time, lt) ==
  /\ ~(life_time <= 0 \/ lt < 0)
  /\ time <= now /\ time + Kept(lt) >= now

\* Destroy, by a request that will not give its upstream back or by gc.
Destroy(h) ==
  /\ us' = [us EXCEPT ![h] = Free]
  /\ conn' = [c \in Conns |-> ConnWithout(c, {h})]
  /\ refs' = refs - Bound({h})
  /\ UNCHANGED <<now, life_time, owner, deleted, pool, size>>

\* PutPoolSocket: in front, unbound.
PutPoolSocket(h, lt) ==
  /\ pool' = <<h>> \o pool /\ size' = size + 1
  /\ us' = [us EXCEPT ![h].time = @ + Kept(lt), ![h].bound = FALSE, ![h].at = "pool"]
  /\ refs' = refs - 1
  /\ UNCHANGED <<now, life_time, owner, deleted, conn>>

\* gc of an HTTP/1 or TCP upstream, or of an admin stream.
Gc(h, lt) ==
  /\ us[h].at = "out" /\ (IsMultiStream(h) => us[h].admin)
  /\ LET t == IF IsMultiStream(h) THEN H2Life ELSE lt
     IN  IF Keeps(us[h].time, t) THEN PutPoolSocket(h, t) ELSE Destroy(h)

\* gc of another stream: get_admin_stream makes a new admin stream when the
\* connection has lost it, binds it and gives it to gcSocket; then the stream
\* itself is destroyed.
GetsAdmin(h) == ~conn[us[h].conn].has_admin /\ ~conn[us[h].conn].goaway

NewAdmin(c) ==
  [conn |-> c, admin |-> TRUE, time |-> Kept(H2Life), bound |-> FALSE, at |-> "pool"]

GcStream(h, a) ==
  /\ us[h].at = "out" /\ IsMultiStream(h) /\ ~us[h].admin
  /\ IF ~GetsAdmin(h) \/ ~Keeps(0, H2Life) THEN Destroy(h)
     ELSE /\ a \notin Live
          /\ us' = [us EXCEPT ![h] = Free, ![a] = NewAdmin(us[h].conn)]
          /\ pool' = <<a>> \o pool /\ size' = size + 1
          /\ conn' = [conn EXCEPT ![us[h].conn].has_admin = TRUE]
          /\ refs' = refs - 1
          /\ UNCHANGED <<now, life_time, owner, deleted>>

DestroyOut(h) == us[h].at = "out" /\ Destroy(h)

\* The fiber SafeDestroyUpstream made for another selector.
DestroyDoomed(h) == us[h].at = "doomed" /\ Destroy(h)

-----------------------------------------------------------------------------
\* refresh(nowTime), from the server's timer.
Refresh(same) ==
  /\ Usable /\ Sweep(Refreshed, same)
  /\ UNCHANGED <<now, life_time, refs, owner, deleted>>

\* clean(), also from setHostPort when the destination changed.
Clean(same) ==
  /\ Usable /\ Sweep(<<>>, same)
  /\ UNCHANGED <<now, life_time, refs, owner, deleted>>

\* setLifeTime: zero and less clean the pool; a negative value is kept modulo
\* the width of the member.
SetLifeTime(t, same) ==
  /\ Usable /\ life_time' = t % LifeWidth
  /\ IF t <= 0 THEN Sweep(<<>>, same) ELSE UNCHANGED <<pool, size, us, conn>>
  /\ UNCHANGED <<now, refs, owner, deleted>>

\* remove(): shutdown cleans the pool, and the owner's reference goes.
RemovePool(same) ==
  /\ Usable /\ owner' = FALSE /\ refs' = refs - 1
  /\ Sweep(<<>>, same)
  /\ UNCHANGED <<now, life_time, deleted>>

\* The last release: the destructor cleans what was given back after remove.
Delete(same) ==
  /\ refs = 0 /\ ~deleted /\ deleted' = TRUE
  /\ Sweep(<<>>, same)
  /\ UNCHANGED <<now, life_time, refs, owner>>

-----------------------------------------------------------------------------
\* The peer, an error or a timeout ends an HTTP/2 connection for new streams.
Goaway(c) ==
  /\ conn[c].kind \in {"h2", "h2ws"} /\ ~conn[c].goaway
  /\ conn' = [conn EXCEPT ![c].goaway = TRUE]
  /\ UNCHANGED <<now, life_time, refs, owner, deleted, pool, size, us>>

\* can_destroy of an HTTP/2 connection that is closed and unused.
ConnDeleted(c) ==
  /\ conn[c].goaway /\ conn[c].processing = 0
  /\ conn' = [conn EXCEPT ![c] = Closed]
  /\ UNCHANGED <<now, life_time, refs, owner, deleted, pool, size, us>>

Tick ==
  /\ now < Epoch + MaxNow /\ now' = now + 1
  /\ UNCHANGED <<life_time, refs, owner, deleted, pool, size, us, conn>>

\* Nobody is left to call the container.
Over == deleted /\ UNCHANGED vars

Fetch(ws, same) ==
  GetNothing(ws, same) \/ GetSocket(ws, same) \/ \E n \in Handles : GetStream(ws, same, n)

GiveBack(h) ==
  \/ \E lt \in GcTimes : Gc(h, lt)
  \/ \E a \in Handles : GcStream(h, a)
  \/ DestroyOut(h)
  \/ DestroyDoomed(h)

Next ==
  \/ \E same \in BOOLEAN :
       \/ \E ws \in BOOLEAN : Fetch(ws, same)
       \/ Refresh(same) \/ Clean(same) \/ RemovePool(same) \/ Delete(same)
       \/ \E t \in LifeTimes : SetLifeTime(t, same)
  \/ \E c \in Conns, h \in Handles, kind \in Kinds : Connect(c, h, kind)
  \/ \E h \in Handles : ReadHeader(h) \/ GiveBack(h)
  \/ \E c \in Conns : Goaway(c) \/ ConnDeleted(c)
  \/ Tick
  \/ Over

Spec == Init /\ [][Next]_vars

\* A request ends and gives its upstream back; a fiber that was made runs; the
\* last release runs the destructor.
Fairness ==
  /\ \A h \in Handles : WF_vars(GiveBack(h))
  /\ WF_vars(\E same \in BOOLEAN : Delete(same))
FairSpec == Spec /\ Fairness

-----------------------------------------------------------------------------
\* bind and unbind pair up over every way an upstream is taken, given back,
\* expired or destroyed: the container lives exactly as long as something
\* points to it.
RefsMatch ==
  /\ refs = (IF owner THEN 1 ELSE 0) + Bound(Live)
  /\ deleted => Bound(Live) = 0 /\ pool = <<>>

\* imp->size counts the list (clean asserts size == 0 after emptying it), and the
\* list holds each idle upstream once and none that is in use: no two requests
\* are given one HTTP/1 connection.
PoolIntact ==
  /\ size = Len(pool)
  /\ IsInjective(pool)
  /\ Range(pool) = {h \in Live : us[h].at = "pool"}
  /\ \A h \in Range(pool) : ~us[h].bound /\ (IsMultiStream(h) => us[h].admin)

\* processing is the number of streams, pooled, doomed and in use, that still
\* point to the connection, so that it is not deleted under one of them; at most
\* one of them is its admin stream (release_admin asserts has_admin_stream).
StreamsCounted ==
  \A c \in Conns :
    LET admins == {h \in On(c) : us[h].admin}
    IN  /\ conn[c].kind \in {"h2", "h2ws"} =>
             /\ conn[c].processing = Cardinality(On(c))
             /\ Cardinality(admins) = IF conn[c].has_admin THEN 1 ELSE 0
        /\ conn[c] = Closed => On(c) = {}

\* The three together: over every way an upstream is taken, given back, expired
\* or destroyed, the container lives as long as something points to it, its list
\* holds each idle upstream once and none in use, and an HTTP/2 connection counts
\* its streams.
PoolCounts == RefsMatch /\ PoolIntact /\ StreamsCounted

\* After remove, everything handed out comes back and nothing is left: the
\* container and every upstream are destroyed.
Drained == ~owner ~> deleted /\ Live = {}

\* get_pool_socket first removes the expired connections (refreshList), so it
\* never hands out one whose life time is over.
RefreshRemovesExpired ==
  [][\A h \in Handles : us[h].at = "pool" /\ us'[h].at = "out" => ~Expired(h)]_vars

\* The container means to keep an HTTP/2 connection for at least some seconds
\* after its last use: the admin stream get_admin_stream makes for a stream that
\* is given back in time goes to the pool.
AdminPooled ==
  [][\A h \in Handles :
       (\E a \in Handles : GcStream(h, a)) /\ GetsAdmin(h) /\ Keeps(us[h].time, H2Life)
         => \E a \in Range(pool') : us'[a].conn = us[h].conn]_vars
=============================================================================
