--------------------------- MODULE MCRequest ---------------------------------
(***************************************************************************)
(* What happens to a request before its handler runs: the connection is    *)
(* accepted, the header is kept and interpreted, and the texts in it are   *)
(* decoded. A behaviour is one of one part, chosen at its start; the       *)
(* others rest, or are off.                                                *)
(***************************************************************************)
EXTENDS Integers, Sequences

VARIABLES
  part,     \* which of the parts moves
  \* KRequestHeader
  proto, phase, nreq, data, fresh, got, served,
  \* KHttpHeaderManager
  header, last, next, name, reoffset, buf, base, state, want, stale, crashed,
  \* KPreRequest
  flags, tls, alpn, hdrs, wire, sending, stage, hdr, left, body, proxy, opaque, owner,
  close, readers, ends, unwanted,
  \* KHttpCoding
  text,
  \* KHttpTime
  year, month, day, time_n,
  \* KHttpTimeText
  text_left, fmt, field, outside

HostPort(h, p) == [name |-> h, port |-> p]
Url(s, h, p, path) == [scheme |-> s, host |-> HostPort(h, p), path |-> path]
RequestLine(m, u, v) == [meth |-> m, url |-> u, ver |-> v]
HeaderField(f, v) == [name |-> f, v |-> v, pseudo |-> FALSE]
PseudoField(f, v) == [name |-> f, v |-> v, pseudo |-> TRUE]
ByTime(t) == [as |-> "time", v |-> t]
ByEntity == [as |-> "entity", v |-> 1]
ByteRange(form, a, b) == HeaderField("Range", [unit |-> "bytes", form |-> form, a |-> a, b |-> b])
Code(c, z) == [code |-> c, zero |-> z]

Local == Url("none", "none", 0, "/a")
MCOneLine == {RequestLine("GET", Local, <<1, 1>>)}
MCLines == MCOneLine \cup
  {RequestLine("GET", Local, <<1, 0>>), RequestLine("GET", Local, <<>>),
   RequestLine("POST", Url("https", "x", 0, "/b"), <<2, 1>>),
   RequestLine("GET", Url("http", "x", 81, "none"), <<1, 1>>),
   RequestLine("CONNECT", Url("none", "y", 22, "none"), <<1, 1>>),
   RequestLine("CONNECT", Url("none", "y", 0, "none"), <<1, 1>>),
   RequestLine("PRI", Local, <<2, 0>>)}

MCConditions ==
  {HeaderField("Host", HostPort("x", 0)), HeaderField("If-None-Match", ByEntity),
   HeaderField("If-Modified-Since", ByTime(5)), HeaderField("If-Modified-Since", ByTime(0)),
   HeaderField("If-Range", ByTime(5)), HeaderField("If-Range", ByEntity)}
MCOthers ==
  {HeaderField("Host", HostPort("x", 8)), HeaderField("Host", HostPort("y", 0)),
   HeaderField("Connection", <<"close">>),
   HeaderField("Connection", <<"close", "upgrade", "keep-alive">>),
   HeaderField("Cache-Control", <<"no-store", "only-if-cached">>),
   HeaderField("Pragma", "no-cache"), HeaderField("Referer", "x"),
   HeaderField("Expect", "100-continue"), HeaderField("Expect", "x"),
   HeaderField("Content-Length", 3), HeaderField("Transfer-Encoding", "chunked"),
   HeaderField("Accept-Encoding",
               <<Code("gzip", TRUE), Code("br", FALSE), Code("identity", FALSE)>>),
   HeaderField("X-Forwarded-Proto", "https"), HeaderField("X-Forwarded-Proto", "http"),
   HeaderField("Range", [unit |-> "rows", form |-> "open", a |-> 0, b |-> 0]),
   HeaderField("If-None-Match", ByEntity), ByteRange("open", 1, 0)}
MCRanges ==
  {ByteRange("last", k, 0) : k \in 0..4} \cup {ByteRange("open", k, 0) : k \in 0..4}
  \cup {ByteRange("closed", k, l) : k \in 0..4, l \in 0..5}
  \cup {HeaderField("Host", HostPort("x", 0)), HeaderField("If-Range", ByEntity)}
MCPseudos ==
  {PseudoField(":method", "GET"), PseudoField(":method", "CONNECT"),
   PseudoField(":version", <<1, 1>>), PseudoField(":path", Local),
   PseudoField(":path", Url("none", "none", 0, "/b")),
   PseudoField(":path", Url("none", "none", 0, "none")),
   PseudoField(":path", Url("http", "y", 0, "/c")),
   PseudoField(":authority", HostPort("x", 0)), PseudoField(":protocol", "x"),
   PseudoField(":scheme", "x"), HeaderField("Host", HostPort("y", 0)),
   HeaderField("If-Modified-Since", ByTime(5)), HeaderField("If-None-Match", ByEntity)}

ProxyHeader(sig, ver, cmd, family, len) ==
  [sig |-> sig, ver |-> ver, cmd |-> cmd, family |-> family, proto |-> 1, len |-> len]
MCHeaders ==
  {ProxyHeader(TRUE, 2, 1, 0, k) : k \in 0..5}
  \cup {[ProxyHeader(TRUE, 2, 1, 0, k) EXCEPT !.proto = 2] : k \in 0..5}
  \cup {ProxyHeader(FALSE, 2, 1, 0, 2), ProxyHeader(TRUE, 1, 1, 0, 2),
        ProxyHeader(TRUE, 2, 0, 0, 2), ProxyHeader(TRUE, 2, 1, 1, 3)}
MCServers == {{}, {"TCP"}, {"SSL"}, {"PROXY"}, {"PROXY", "TCP"}, {"PROXY", "SSL"}}
MCResults == {{}, {"success"}, {"success", "no_keep_alive"}}

MCBytes == {0, 35, 37, 38, 43, 51, 57, 59, 60, 92, 97, 108, 116, 195, 255}

\* Two requests on one connection, every request line.
Kept == INSTANCE KRequestHeader WITH
  Protos <- {"h1"}, Lines <- MCLines, MaxRequests <- 2, Fields <- MCOthers, Sizes <- {0, 2},
  MaxFields <- 2

\* Preconditions in every order.
Cond == INSTANCE KRequestHeader WITH
  Protos <- {"h1"}, Lines <- MCOneLine, MaxRequests <- 1, Fields <- MCConditions,
  Sizes <- {4}, MaxFields <- 5

\* Ranges of a file of up to four bytes.
Ranged == INSTANCE KRequestHeader WITH
  Protos <- {"h1"}, Lines <- MCOneLine, MaxRequests <- 1, Fields <- MCRanges,
  Sizes <- {0, 1, 3, 4}, MaxFields <- 3

\* The header of an HTTP/2 stream.
Stream == INSTANCE KRequestHeader WITH
  Protos <- {"h2"}, Lines <- MCOneLine, MaxRequests <- 1, Fields <- MCPseudos, Sizes <- {4},
  MaxFields <- 4

RequestOff ==
  /\ proto = 0 /\ phase = 0 /\ nreq = 0 /\ data = 0 /\ fresh = 0 /\ got = 0
  /\ served = 0

\* Three header cells, one move of the read buffer.
Manager == INSTANCE KHttpHeaderManager WITH
  Cells <- {1, 2, 3}, Names <- {"a", "b"}, MaxMoves <- 1, Careful <- TRUE

\* A server of every kind; two PROXY headers of every length around the sizes
\* of the address blocks.
Accepted == INSTANCE KPreRequest WITH
  Servers <- MCServers, Headers <- MCHeaders, HdrSize <- 3, V4Size <- 2, V6Size <- 3,
  MaxLen <- 4, NewConnection <- MCResults

AcceptOff ==
  /\ flags = 0 /\ tls = 0 /\ alpn = 0 /\ hdrs = 0 /\ wire = 0 /\ sending = 0
  /\ stage = 0 /\ hdr = 0 /\ left = 0 /\ body = 0 /\ proxy = 0 /\ opaque = 0
  /\ owner = 0 /\ close = 0 /\ readers = 0 /\ ends = 0 /\ unwanted = 0

\* Texts of up to four bytes out of those the coders treat specially.
Coding == INSTANCE KHttpCoding WITH
  Bytes <- MCBytes, MaxLen <- 4

\* Every day from 1960 to 2101.
Time == INSTANCE KHttpTime WITH
  FirstYear <- 1960, LastYear <- 2101, n <- time_n

\* Texts of up to 40 characters.
TimeText == INSTANCE KHttpTimeText WITH
  MaxLen <- 40, left <- text_left

TextOff ==
  /\ text_left = 0 /\ fmt = 0 /\ field = 0 /\ outside = 0

ASSUME
  /\ Manager!ManagerAssumption
  /\ Accepted!SizeAssumption
  /\ Coding!CodingAssumption
  /\ Time!YearAssumption

-----------------------------------------------------------------------------

reqVars == <<proto, phase, nreq, data, fresh, got, served>>
listVars == <<header, last, next, name, reoffset, buf, base, state, want, stale, crashed>>
acceptVars == <<flags, tls, alpn, hdrs, wire, sending, stage, hdr, left, body, proxy, opaque, owner,
  close, readers, ends, unwanted>>
codingVars == <<text>>
timeVars == <<year, month, day, time_n>>
textVars == <<text_left, fmt, field, outside>>
vars == <<part, reqVars, listVars, acceptVars, codingVars, timeVars, textVars>>

Init ==
  /\ part \in {"fields", "conditions", "range", "stream", "list", "accept", "coding",
              "time", "text"}
  /\ \/ part = "fields" /\ Kept!Init
     \/ part = "conditions" /\ Cond!Init
     \/ part = "range" /\ Ranged!Init
     \/ part = "stream" /\ Stream!Init
     \/ part \notin {"fields", "conditions", "range", "stream"} /\ RequestOff
  /\ Manager!Init
  /\ \/ part = "accept" /\ Accepted!Init
     \/ part # "accept" /\ AcceptOff
  /\ Coding!Init
  /\ Time!Init
  /\ \/ part = "text" /\ TimeText!Init
     \/ part # "text" /\ TextOff

\* These parts come to an end.
Stopped == part \in {"fields", "conditions", "range", "stream", "list", "coding", "time", "text"} /\ UNCHANGED vars

Next ==
  \/ /\ part = "fields" /\ Kept!Next
     /\ UNCHANGED <<part, listVars, acceptVars, codingVars, timeVars, textVars>>
  \/ /\ part = "conditions" /\ Cond!Next
     /\ UNCHANGED <<part, listVars, acceptVars, codingVars, timeVars, textVars>>
  \/ /\ part = "range" /\ Ranged!Next
     /\ UNCHANGED <<part, listVars, acceptVars, codingVars, timeVars, textVars>>
  \/ /\ part = "stream" /\ Stream!Next
     /\ UNCHANGED <<part, listVars, acceptVars, codingVars, timeVars, textVars>>
  \/ /\ part = "list" /\ Manager!Next
     /\ UNCHANGED <<part, reqVars, acceptVars, codingVars, timeVars, textVars>>
  \/ /\ part = "accept" /\ Accepted!Next
     /\ UNCHANGED <<part, reqVars, listVars, codingVars, timeVars, textVars>>
  \/ /\ part = "coding" /\ Coding!Next
     /\ UNCHANGED <<part, reqVars, listVars, acceptVars, timeVars, textVars>>
  \/ /\ part = "time" /\ Time!Next
     /\ UNCHANGED <<part, reqVars, listVars, acceptVars, codingVars, textVars>>
  \/ /\ part = "text" /\ TimeText!Next
     /\ UNCHANGED <<part, reqVars, listVars, acceptVars, codingVars, timeVars>>
  \/ Stopped

Spec == Init /\ [][Next]_vars

-----------------------------------------------------------------------------

\* A header means what it says whatever came before it.  A request on a
\* connection that was kept means what it means on a new one (reset_pipeline,
\* free_lazy_memory, begin_request), and host and path are set once (asserted by
\* parse_url, parse_url_host).  In whichever order the preconditions come,
\* If-None-Match counts over If-Modified-Since and the unions of a time and an
\* entity are read by the flag beside them (get_precondition_flag); a range is
\* accepted only with at least one byte, all inside the file (adjust_range).
\* The port is read only with a host, and parse_header does not read the version
\* of a CONNECT line, which keeps the one before.
HeaderMeans ==
  /\ [](/\ part = "fields" => Kept!RequestIsolated
        /\ part = "conditions" => Cond!UnionsTagged /\ Cond!NoneMatchWins
        /\ part = "stream" => Stream!NoneMatchWins
        /\ part = "range" => Ranged!RangeInside)
  /\ [][part = "fields" => Kept!UrlWrittenOnce]_vars

\* The cells reached from header are the fields the callers added and did not
\* take out, in their order (no field is lost by insert, append, iterator or
\* remove), none of them freed, and insert never finds a list without a last
\* cell (its kassert); those that point into the read buffer point into the
\* buffer the sink has now.
FieldsKept ==
  /\ Manager!FieldsKept
  /\ Manager!NoFreedCell
  /\ Manager!BuffersFollow

\* Every path of callbacks hands the connection to one sink or destroys it,
\* once, and deletes a KRequestProxy exactly when it is done.  However the
\* network cuts it the PROXY header is consumed to its last byte and no further,
\* and an address block is read only where the body holds one (state_body); a
\* connection server_on_new_connection did not want kept is closed after its
\* first request.
OneOwner == part = "accept" =>
  /\ Accepted!OneOwner
  /\ Accepted!ConsumesHeader
  /\ Accepted!BodyHoldsAddress
  /\ Accepted!NoKeepAlive

\* A text that is encoded and decoded again keeps its meaning: the bytes of an
\* Authorization header (up to the zero bytes at the end that b64decode takes
\* for padding), a path forwarded to an upstream (KUrl::GetPath), a query
\* forwarded as it came, XML with entities and half entities in it.
TextsKeepMeaning ==
  /\ Coding!Base64RoundTrip
  /\ Coding!PathRoundTrip
  /\ Coding!QueryKeepsMeaning
  /\ Coding!XmlRoundTrip

\* Gauss' formula counts the days through the ends of months, leap years and
\* centuries; the parser accepts the days a month has and no later ones, reads a
\* date printed with two digits of its year as the same date if it lies in the
\* hundred years from 1970, and reads no character behind the end of a text in
\* any of the formats.
DatesRight ==
  /\ Time!CountsDays
  /\ Time!AcceptsDates
  /\ Time!ReadsBack
  /\ part = "text" => TimeText!ReadsInside

=============================================================================
