--------------------------- MODULE MCKHttp2Streams ---------------------------
(***************************************************************************)
(* The streams of an HTTP/2 connection seen from six sides. The sides are  *)
(* instances of KHttp2 with the same variables, windows and streams, and   *)
(* differ in what the peer and the handler do; a behaviour of this module  *)
(* is one of one instance, chosen at its start.  The properties are those  *)
(* of KHttp2: they hold whatever peer and handler do, as long as no        *)
(* trailers find a writer waiting (PeerFrames of the configuration has     *)
(* none, so WaitersReached asks that active_queue holds every waiter).     *)
(***************************************************************************)
EXTENDS KHttp2

VARIABLE part         \* which of the sides it is

\* The body size of a response that does not name it.
UnknownBody == {-1}

\* Two writers share the connection window while SETTINGS and WINDOW_UPDATE move
\* both windows.
Send == INSTANCE KHttp2 WITH
  PeerFrames <- {"HEADERS", "WINDOW_UPDATE", "SETTINGS"}, Faults <- {},
  SinkOps <- {"respond", "write"}, InitWindows <- {0, 2}

\* A request body is received and read (one stream); the peer pings, resets and falls
\* silent.
Recv == INSTANCE KHttp2 WITH
  PeerFrames <- {"HEADERS", "DATA", "RST_STREAM", "PING", "IDLE"},
  Faults <- {}, SinkOps <- {"read"}, DataLens <- {0, 1, 8}, ReadLens <- {1, 3}

\* Two streams close in every order: at their end, by the handler, by the peer,
\* with the connection.
Close == INSTANCE KHttp2 WITH
  PeerFrames <- {"HEADERS", "WINDOW_UPDATE", "RST_STREAM"}, Faults <- {"error"},
  SinkOps <- {"respond", "write", "readhup", "shutdown"}

\* The parser is between two reads of a frame while the stream it works for
\* goes away.
Frames == INSTANCE KHttp2 WITH
  PeerFrames <- {"HEADERS", "HEADERS_SPLIT", "HEADERS_REFUSED", "TRAILERS", "DATA"},
  Faults <- {"error"}, SinkOps <- {"read"}, DataLens <- {5}, ReadLens <- {8}, ConnRecvWindow <- 5

\* A stream is read and written by two fibers while the timer runs.
Timeout == INSTANCE KHttp2 WITH
  PeerFrames <- {"HEADERS", "DATA", "WINDOW_UPDATE"}, Faults <- {"slow"},
  SinkOps <- {"respond", "read", "write", "timeout"}, DataLens <- {5}, WriteLens <- {1},
  ReadLens <- {8}, ConnRecvWindow <- 5, TimeoutCounts <- {1}, Duplex <- TRUE

\* Every way a handler answers, with bodies of unknown length, empty and of two
\* bytes.
Sink == INSTANCE KHttp2 WITH
  PeerFrames <- {"HEADERS", "HEADERS_SPLIT", "SETTINGS", "GOAWAY"},
  Faults <- {"error"},
  SinkOps <- {"respond", "write", "sendfile", "trailer", "continue", "shutdown"},
  FrameSizes <- {1}, WriteLens <- {1, 2}, BodySizes <- {-1, 0, 2}, DefaultWindow <- 2

-----------------------------------------------------------------------------

MCInit ==
  \/ part = "send" /\ Send!Init
  \/ part = "recv" /\ Recv!Init
  \/ part = "close" /\ Close!Init
  \/ part = "frames" /\ Frames!Init
  \/ part = "timeout" /\ Timeout!Init
  \/ part = "sink" /\ Sink!Init

\* The peer opens one stream only.
OneStream == ctx' \subseteq {1}

MCNext ==
  \/ /\ part = "send" /\ Send!Next
     /\ UNCHANGED part
  \/ /\ part = "recv" /\ Recv!Next /\ OneStream
     /\ UNCHANGED part
  \/ /\ part = "close" /\ Close!Next
     /\ UNCHANGED part
  \/ /\ part = "frames" /\ Frames!Next
     /\ UNCHANGED part
  \/ /\ part = "timeout" /\ Timeout!Next /\ OneStream
     /\ UNCHANGED part
  \/ /\ part = "sink" /\ Sink!Next /\ OneStream
     /\ UNCHANGED part

MCSpec == MCInit /\ [][MCNext]_<<part, vars>>

=============================================================================
