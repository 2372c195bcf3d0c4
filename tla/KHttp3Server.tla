---------------------------- MODULE KHttp3Server -----------------------------
(***************************************************************************)
(* The life of an HTTP/3 server: one engine per selector, each with a UDP  *)
(* read that is armed again after every packet and a tick that runs the    *)
(* QUIC library; packets that belong to another engine are handed to its   *)
(* selector; connections and their request fibers come and go; the owner   *)
(* starts, shuts down and releases.  Everything counts references on the   *)
(* server, which deletes the engines when the last one goes.               *)
(***************************************************************************)
EXTENDS Integers, Sequences, FiniteSets, SequencesExt, FiniteSetsExt

CONSTANTS Engines, Conns, MaxPackets, MaxSinks

\* What is assumed of the constants.
EnginesAssumption == IsFiniteSet(Engines) /\ Engines # {}

VARIABLES
  owner,           \* "new", "up", "stopping", "down", "released"
  start,           \* KGL_SERVER_START
  stopping,        \* engines shutdown has not come to yet
  refs, destroyed, \* of the server
  tasks,           \* [Engines -> Seq]: what the selector has still to run
  tick, recv,      \* the tick is registered; the UDP read is armed
  cooled, shut,    \* lsquic_engine_cooldown, selectable_shutdown
  pending,         \* packets an engine took in and has not processed
  conn,            \* [Conns -> [engine, c, refs]]: KHttp3Connection; engine "none" when not there
  packets          \* received (bounded)

vars == <<owner, start, stopping, refs, destroyed, tasks, tick, recv, cooled, shut, pending, conn, packets>>

None == "none"
NoConn == [engine |-> None, c |-> FALSE, refs |-> 0]
Live(e) == {x \in Conns : conn[x].engine = e /\ conn[x].c}

Init ==
  /\ owner = "new" /\ start = FALSE /\ stopping = {} /\ refs = 1 /\ destroyed = FALSE
  /\ tasks = [e \in Engines |-> <<>>]
  /\ tick = [e \in Engines |-> FALSE] /\ recv = [e \in Engines |-> FALSE]
  /\ cooled = [e \in Engines |-> FALSE] /\ shut = [e \in Engines |-> FALSE]
  /\ pending = [e \in Engines |-> 0] /\ conn = [x \in Conns |-> NoConn] /\ packets = 0

\* addRef and release, n of them.
Refs(n) == refs' = refs + n /\ destroyed' = (refs + n = 0)
Run(e, task) == tasks' = [tasks EXCEPT ![e] = Append(@, task)]
First(e, task) == tasks[e] # <<>> /\ Head(tasks[e]) = task
Ran(e) == tasks' = [tasks EXCEPT ![e] = Tail(@)]

-----------------------------------------------------------------------------
(***************************************************************************)
(* The owner.                                                              *)
(***************************************************************************)
\* start: a reference and a fiber for every engine.
Start ==
  /\ owner = "new" /\ owner' = "up" /\ start' = TRUE
  /\ Refs(Cardinality(Engines))
  /\ tasks' = [e \in Engines |-> Append(tasks[e], "start")]
  /\ UNCHANGED <<stopping, tick, recv, cooled, shut, pending, conn, packets>>

\* shutdown: one engine after another, each awaited.
Shutdown ==
  /\ owner = "up" /\ owner' = "stopping" /\ start' = FALSE /\ stopping' = Engines
  /\ UNCHANGED <<refs, destroyed, tasks, tick, recv, cooled, shut, pending, conn, packets>>
Joining == \E e \in Engines : \E i \in 1..Len(tasks[e]) : tasks[e][i] = "stop"
ShutdownNext ==
  /\ owner = "stopping" /\ ~Joining
  /\ IF stopping = {} THEN owner' = "down" /\ UNCHANGED <<stopping, tasks>>
     ELSE \E e \in stopping : Run(e, "stop") /\ stopping' = stopping \ {e} /\ UNCHANGED owner
  /\ UNCHANGED <<start, refs, destroyed, tick, recv, cooled, shut, pending, conn, packets>>

\* A server that is down, or never came up, is let go.
Release ==
  /\ owner \in {"new", "down"} /\ owner' = "released" /\ Refs(-1)
  /\ UNCHANGED <<start, stopping, tasks, tick, recv, cooled, shut, pending, conn, packets>>

-----------------------------------------------------------------------------
(***************************************************************************)
(* An engine, on its selector.                                             *)
(***************************************************************************)
TickRef == 1

\* KHttp3ServerEngine::start; registering the tick may fail.
StartEngine(e) ==
  /\ First(e, "start") /\ Ran(e)
  /\ \/ tick' = [tick EXCEPT ![e] = TRUE] /\ Refs(TickRef)
     \/ UNCHANGED <<tick, refs, destroyed>>
  /\ recv' = [recv EXCEPT ![e] = TRUE]
  /\ UNCHANGED <<owner, start, stopping, cooled, shut, pending, conn, packets>>

\* KHttp3ServerEngine::shutdown.
StopEngine(e) ==
  /\ First(e, "stop") /\ Ran(e)
  /\ cooled' = [cooled EXCEPT ![e] = TRUE] /\ shut' = [shut EXCEPT ![e] = TRUE]
  /\ UNCHANGED <<owner, start, stopping, refs, destroyed, tick, recv, pending, conn, packets>>

\* The library takes a packet of a connection it has, or a new one unless it cools down.
Takes(e) == IF cooled[e] /\ Live(e) = {} THEN pending ELSE [pending EXCEPT ![e] = 1]
PackageFree == 0
PackageRef == 1

\* h3_result_udp_recv: the packet goes to the engine its connection id names;
\* after the shutdown the read is not armed again.
Receive(e, to) ==
  /\ recv[e] /\ packets < MaxPackets /\ ~shut[e] /\ packets' = packets + 1
  /\ IF to = e THEN pending' = Takes(e) /\ UNCHANGED tasks ELSE Run(to, "package") /\ UNCHANGED pending
  /\ recv' = [recv EXCEPT ![e] = start]
  /\ Refs((IF to = e THEN 0 ELSE PackageRef) - (IF start THEN 0 ELSE 1))
  /\ UNCHANGED <<owner, start, stopping, tick, cooled, shut, conn>>
ReceiveFails(e) ==
  /\ recv[e] /\ shut[e] /\ ~start
  /\ recv' = [recv EXCEPT ![e] = FALSE] /\ Refs(-1)
  /\ UNCHANGED <<owner, start, stopping, tasks, tick, cooled, shut, pending, conn, packets>>

\* next_quic_package_in.
Package(e) ==
  /\ First(e, "package") /\ Ran(e) /\ pending' = Takes(e) /\ Refs(-1)
  /\ UNCHANGED <<owner, start, stopping, tick, recv, cooled, shut, conn, packets>>

\* next_event_time: nothing is due for an engine without connections.
Idle(e) == pending[e] = 0 /\ Live(e) = {}
LastTick(e) == ~start /\ Idle(e)

\* kgl_h3_engine_tick: nothing to do; the last one after the shutdown.
Tick(e) ==
  /\ tick[e] /\ LastTick(e)
  /\ tick' = [tick EXCEPT ![e] = FALSE] /\ Refs(-1)
  /\ UNCHANGED <<owner, start, stopping, tasks, recv, cooled, shut, pending, conn, packets>>

\* ticked: a packet is processed, which may make a connection (http_server_on_new_conn).
Process(e) ==
  /\ tick[e] /\ pending[e] > 0 /\ pending' = [pending EXCEPT ![e] = 0]
  /\ \/ \E x \in Conns :
          /\ conn[x] = NoConn /\ ~cooled[e]
          /\ conn' = [conn EXCEPT ![x] = [engine |-> e, c |-> TRUE, refs |-> 1]] /\ Refs(1)
     \/ UNCHANGED <<conn, refs, destroyed>>
  /\ UNCHANGED <<owner, start, stopping, tasks, tick, recv, cooled, shut, packets>>

\* A connection loses a reference; the last one deletes it, and it releases the server.
Unref(x, c) ==
  IF conn[x].refs = 1 THEN conn' = [conn EXCEPT ![x] = NoConn] /\ Refs(-1)
  ELSE conn' = [conn EXCEPT ![x].refs = @ - 1, ![x].c = c] /\ UNCHANGED <<refs, destroyed>>

\* ticked: the library closes a connection (http_server_on_conn_closed).
ConnClosed(x) ==
  /\ conn[x].c /\ tick[conn[x].engine] /\ Unref(x, FALSE)
  /\ UNCHANGED <<owner, start, stopping, tasks, tick, recv, cooled, shut, pending, packets>>

\* The request fiber of a stream holds its connection (KHttp3Sink).
NewSink(x) ==
  /\ conn[x].c /\ tick[conn[x].engine] /\ conn[x].refs <= MaxSinks
  /\ conn' = [conn EXCEPT ![x].refs = @ + 1]
  /\ UNCHANGED <<owner, start, stopping, refs, destroyed, tasks, tick, recv, cooled, shut, pending, packets>>
SinkEnds(x) ==
  /\ conn[x].refs > (IF conn[x].c THEN 1 ELSE 0) /\ Unref(x, conn[x].c)
  /\ UNCHANGED <<owner, start, stopping, tasks, tick, recv, cooled, shut, pending, packets>>

Done == destroyed /\ UNCHANGED vars

Next == \/ Start \/ Shutdown \/ ShutdownNext \/ Release
        \/ \E e \in Engines : \/ StartEngine(e) \/ StopEngine(e) \/ ReceiveFails(e) \/ Package(e)
                              \/ Tick(e) \/ Process(e) \/ (\E to \in Engines : Receive(e, to))
        \/ \E x \in Conns : ConnClosed(x) \/ NewSink(x) \/ SinkEnds(x)
        \/ Done

Spec == Init /\ [][Next]_vars

(***************************************************************************)
(* Selectors run what is queued and tick; a cooled engine closes its       *)
(* connections, request fibers end; the owner goes on once it began.       *)
(***************************************************************************)
Fairness ==
  /\ WF_vars(Shutdown) /\ WF_vars(ShutdownNext) /\ WF_vars(Release)
  /\ \A e \in Engines : /\ WF_vars(StartEngine(e) \/ StopEngine(e) \/ Package(e))
                        /\ WF_vars(ReceiveFails(e)) /\ WF_vars(Tick(e)) /\ WF_vars(Process(e))
  /\ \A x \in Conns : /\ SF_vars(ConnClosed(x)) /\ WF_vars(SinkEnds(x))
FairSpec == Spec /\ Fairness

-----------------------------------------------------------------------------
Held(S) == Cardinality(S)
Packages == {<<e, i>> : e \in Engines, i \in 1..MaxPackets + 2}
Queued(task) == {p \in Packages : p[2] <= Len(tasks[p[1]]) /\ tasks[p[1]][p[2]] = task}

(***************************************************************************)
(* The references of the server are those of its owner, of the engines     *)
(* that are starting or reading, of their ticks, of the packets under way  *)
(* between selectors and of the connections: the addRef and release calls  *)
(* of start, of the UDP and tick callbacks and of KHttp3Connection match.  *)
(***************************************************************************)
RefsMatch ==
  refs = (IF owner = "released" THEN 0 ELSE 1) + Held(Queued("start")) + Held({e \in Engines : recv[e]})
         + Held({e \in Engines : tick[e]}) + Held(Queued("package")) + Held({x \in Conns : conn[x] # NoConn})

(***************************************************************************)
(* When the engines are deleted nothing can call into them any more, and   *)
(* no tick is registered (assert(selector_tick == NULL) in ~KHttp3Server-  *)
(* Engine).                                                                *)
(***************************************************************************)
NothingLeft ==
  destroyed => \A e \in Engines : ~tick[e] /\ ~recv[e] /\ tasks[e] = <<>> /\ Live(e) = {}

(***************************************************************************)
(* A tick ends only when its engine has no connection left to run: each    *)
(* connection is driven until it is closed (kgl_h3_engine_tick).           *)
(***************************************************************************)
ConnsDriven == \A x \in Conns : conn[x].c => tick[conn[x].engine]

\* A server whose owner let it go is deleted in the end.
Freed == (owner = "released") ~> destroyed
=============================================================================
