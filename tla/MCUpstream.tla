--------------------------- MODULE MCUpstream --------------------------------
(***************************************************************************)
(* The upstream side: the streams of an HTTP/2 connection to a server (the *)
(* constants of the configuration are theirs), an upstream used from       *)
(* another thread, and the monitor that probes a server that failed.  A    *)
(* behaviour is one of one part, chosen at its start; the others rest.     *)
(***************************************************************************)
EXTENDS KHttp2Client, TLC

CONSTANTS
  f1, f2, r1

VARIABLES
  part,     \* which of the parts moves
  \* KTsUpstream
  pc, posted, cut, stream, parse, header, last_header, next, cursor, delivered, off,
  \* KSockPoolMonitor
  word, store, error_count, max_error_count, refs, owner, fiber, busy, up, wanted, changes

\* The admin stream alone, with every kind of request; headers may come in two
\* reads.
Alone == \A s \in Streams \ {Admin} : ctx'[s] = ctx[s]

\* Two streams with a body, ids running out.
Two == INSTANCE KHttp2Client WITH
  Split <- FALSE, Kinds <- {"put"}, Interim <- {}

\* A caller on another selector thread than the upstream it uses.
Ts == INSTANCE KTsUpstream WITH
  Interim <- FALSE, Trailers <- TRUE

\* Two monitor fibers and a request on a container whose flags share a word.
Monitor == INSTANCE KSockPoolMonitor WITH
  Fibers <- {f1, f2}, Requests <- {r1}, MaxErrors <- {0, 2}, ErrWidth <- 4, Changes <- 3,
  Torn <- TRUE

ASSUME
  /\ Ts!TsAssumption
  /\ Monitor!MonitorAssumption

-----------------------------------------------------------------------------

tsVars == <<pc, posted, cut, stream, parse, header, last_header, next, cursor, delivered, off>>
monitorVars == <<word, store, error_count, max_error_count, refs, owner, fiber, busy, up,
  wanted, changes>>
allVars == <<part, vars, tsVars, monitorVars>>

MCInit ==
  /\ part \in {"client", "two", "ts", "monitor"}
  /\ Init
  /\ Ts!Init
  /\ Monitor!Init

MCNext ==
  \/ /\ part = "client" /\ Next /\ Alone
     /\ UNCHANGED <<part, tsVars, monitorVars>>
  \/ /\ part = "two" /\ Two!Next
     /\ UNCHANGED <<part, tsVars, monitorVars>>
  \/ /\ part = "ts" /\ Ts!Next
     /\ UNCHANGED <<part, vars, monitorVars>>
  \/ /\ part = "monitor" /\ Monitor!Next
     /\ UNCHANGED <<part, vars, tsVars>>

MCSpec == MCInit /\ [][MCNext]_allVars

-----------------------------------------------------------------------------

\* A caller on another thread whose stream answered and was not cut has the
\* whole header, in order, when read_header has returned for the last time:
\* last_header is the last cell of the list whenever the selector is between
\* two fields, and the caller is not walking the list meanwhile
\* (ts_header_callback takes no lock).  Of the monitor: addRef in startMonitor
\* and release in monitor_fiber pair up however starts and stops interleave, so
\* no fiber outlives the container, and nothing leaks.
HandedOver ==
  /\ Ts!HeaderHandedOver
  /\ Ts!ListWellFormed
  /\ Ts!NoRace
  /\ Monitor!MonitorRefs

=============================================================================
