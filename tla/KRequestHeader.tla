---------------------------- MODULE KRequestHeader ----------------------------
(***************************************************************************)
(* What the header fields of a request leave in its KRequestData, on an    *)
(* HTTP/1 connection that is kept for further requests and on an HTTP/2    *)
(* stream: KSink::parse_header, called once per field, the beginning of the*)
(* request, the byte range a handler takes from it, and the reset before   *)
(* the next request.  A field is a record of its name and of what its value*)
(* says.  Next to data the module keeps what the same fields leave on a new*)
(* connection (fresh).                                                     *)
(***************************************************************************)
EXTENDS Integers, Sequences, SequencesExt

CONSTANTS
  Protos,       \* subset of {"h1", "h2"}
  Lines,        \* request lines of HTTP/1
  Fields,       \* header fields
  Sizes,        \* the lengths of the files handlers serve
  MaxFields, MaxRequests

VARIABLES
  proto, phase, nreq,
  data,         \* KRequestData
  fresh,        \* what the fields received leave in a new one
  got,          \* the fields of this request
  served        \* the last adjust_range: the file, its result and the length it returns

vars == <<proto, phase, nreq, data, fresh, got, served>>

None == "none"
Empty == [as |-> "time", v |-> 0]      \* a union of a time and an entity, zeroed
NoRange == [from |-> 0, to |-> 0, cond |-> Empty, set |-> FALSE]

\* The constructor, and set_http_version of create_stream.
Blank(p) ==
  [ver |-> IF p = "h2" THEN 200 ELSE 0, meth |-> "UNSET", host |-> None, path |-> None, port |-> 0,
   url |-> {}, enc |-> {}, flags |-> {}, left |-> 0, range |-> NoRange, pre |-> Empty, header |-> <<>>]

ResetKeepsRange(d) == [d EXCEPT !.flags = {}, !.left = 0, !.pre = Empty, !.host = None, !.path = None,
                                !.url = {}, !.enc = {}, !.header = <<>>, !.meth = "UNSET"]
\* init of the plain data when the request has ended; free_lazy_memory,
\* free_header and begin_request when the next one arrives.
Reset(d) == [d EXCEPT !.flags = {}, !.left = 0, !.range = NoRange, !.pre = Empty,
                      !.host = None, !.path = None, !.url = {}, !.enc = {},
                      !.header = <<>>, !.meth = "UNSET"]

-----------------------------------------------------------------------------
(***************************************************************************)
(* The parts of a request line and the pseudo fields.  Each returns the    *)
(* data and whether the field was taken.                                   *)
(***************************************************************************)
Good(d) == [ok |-> TRUE, d |-> d]
Bad(d) == [ok |-> FALSE, d |-> d]
Flag(d, on, off) == [d EXCEPT !.flags = (@ \ off) \cup on]

\* parse_url_host: a host [name, port], port 0 where it names none.
ParseUrlHost(d, h) ==
  [d EXCEPT !.host = h.name,
            !.url = IF h.port = 0 THEN @ ELSE @ \cup {"HAS_PORT"},
            !.port = IF h.port # 0 THEN h.port ELSE IF "ORIG_SSL" \in d.url THEN 443 ELSE 80]

\* KRequestData::parse_host: the first host counts.
ParseHost(d, h) == Good(IF d.host = None THEN ParseUrlHost(d, h) ELSE d)

\* parse_url: [scheme, host, path]; a URL of another form is refused.
ParseUrl(d, u) ==
  LET schemed == CASE u.scheme = "http" -> [d EXCEPT !.url = @ \ {"ORIG_SSL"}]
                   [] u.scheme = "https" -> [d EXCEPT !.url = @ \cup {"ORIG_SSL"}]
                   [] OTHER -> d
      hosted == IF u.scheme = None THEN d ELSE ParseUrlHost(schemed, u.host)
  IN  IF u.path = None THEN Bad(IF u.scheme = None THEN d ELSE schemed)
      ELSE Good([hosted EXCEPT !.path = u.path])

\* parse_connect_url: a host with a port.
ParseConnectUrl(d, u) ==
  IF u.host.port = 0 THEN Bad(d)
  ELSE Good([d EXCEPT !.host = u.host.name, !.port = u.host.port,
                      !.url = (@ \ {"ORIG_SSL"}) \cup {"HAS_PORT"}])

\* parse_http_version: each digit counts as 0 or 1.
ParseVersion(d, v) ==
  IF v = <<>> THEN Bad(d)
  ELSE Good([d EXCEPT !.ver = 100 * (IF v[1] = 0 THEN 0 ELSE 1) + (IF v[2] = 0 THEN 0 ELSE 1)])

\* The request line of HTTP/1 (is_first).
ParseLine(d0, l) ==
  LET d == [d0 EXCEPT !.meth = l.meth]
      u == ParseUrl(d, l.url)
      w == ParseVersion(u.d, l.ver)
  IN  CASE l.meth = "CONNECT" -> ParseConnectUrl(d, l.url)
        [] l.meth = "PRI" -> Good(d)
        [] OTHER -> IF ~u.ok THEN u ELSE IF ~w.ok THEN w
                    ELSE Good(IF w.d.ver > 100 THEN Flag(w.d, {"KEEP"}, {}) ELSE w.d)

\* The pseudo fields of HTTP/2.
ParsePseudo(d, f) ==
  CASE f.name = ":method" ->
         Good(IF f.v = "CONNECT" THEN Flag([d EXCEPT !.meth = "GET"], {"HAS_UPGRADE"}, {})
              ELSE [d EXCEPT !.meth = f.v])
    [] f.name = ":version" -> ParseVersion(d, f.v)
    [] f.name = ":path" -> ParseUrl(d, f.v)
    [] f.name = ":authority" -> ParseHost(d, f.v)
    [] f.name = ":protocol" -> Good([d EXCEPT !.header = Append(@, "upgrade")])
    [] OTHER -> Good(d)

-----------------------------------------------------------------------------
(***************************************************************************)
(* The fields with a meaning of their own; Add is data.add_header.         *)
(***************************************************************************)
Add(d, name) == [d EXCEPT !.header = Append(@, name)]

\* Accept-Encoding: fields [code, zero], zero where q = 0.
AcceptEncoding(d, v) ==
  Add([d EXCEPT !.enc = @ \cup {v[k].code : k \in {j \in DOMAIN v : ~v[j].zero /\ v[j].code # "identity"}}],
      "accept-encoding")

\* Connection and Cache-Control: a list of tokens, applied in turn.
ConnectionToken(d, t) == CASE t = "keep-alive" -> Flag(d, {"KEEP"}, {})
                           [] t = "upgrade" -> Flag(d, {"HAS_UPGRADE"}, {})
                           [] t = "close" -> Flag(d, {}, {"KEEP"})
                           [] OTHER -> d
CacheToken(d, t) == CASE t \in {"no-store", "no-cache"} -> Flag(d, {"NO_CACHE"}, {})
                      [] t = "only-if-cached" -> Flag(d, {"ONLY_IF_CACHED"}, {})
                      [] OTHER -> d
FieldList(d, name, v) ==
  Add(FoldLeft(LAMBDA e, t : IF name = "connection" THEN ConnectionToken(e, t) ELSE CacheToken(e, t), d, v),
      name)
ContentLength(d, v) == Flag([d EXCEPT !.left = v], {"CONTENT_LEN"}, {})
Expect(d, v) == IF v = "100-continue" THEN Add(Flag(d, {"EXPECT"}, {}), "expect") ELSE d

\* If-Range: a time, or (kgl_parse_http_time fails) an entity.
IfRange(d, v) ==
  IF v.as = "entity" THEN Flag([d EXCEPT !.range.set = TRUE, !.range.cond = v], {}, {"IF_RANGE_DATE"})
  ELSE Flag([d EXCEPT !.range.set = TRUE, !.range.cond = v], {"IF_RANGE_DATE"}, {})

\* If-Modified-Since does not replace a precondition; If-None-Match does.
IfModifiedSince(d, v) == IF d.pre.v = 0 THEN Flag([d EXCEPT !.pre = v], {"IF_TIME"}, {}) ELSE d
IfNoneMatch(d, v) == Flag([d EXCEPT !.pre = v], {}, {"IF_TIME", "IF_MATCH_UNMODIFIED"})

\* Range: the first a-b, a- or -n after "bytes="; -n leaves to as it is.
ParseRange(d, v) ==
  CASE v.unit # "bytes" -> Add(d, "range")
    [] v.form = "last" -> [d EXCEPT !.range.set = TRUE, !.range.from = -v.a]
    [] v.form = "open" -> [d EXCEPT !.range.set = TRUE, !.range.from = v.a, !.range.to = -1]
    [] OTHER -> [d EXCEPT !.range.set = TRUE, !.range.from = v.a, !.range.to = v.b]

TransferEncoding(d, v) == IF v = "chunked" THEN Flag([d EXCEPT !.left = -1], {"INPUT_CHUNKED"}, {}) ELSE d
ForwardedProto(d, v) == [d EXCEPT !.url = IF v = "https" THEN @ \cup {"ORIG_SSL"} ELSE @ \ {"ORIG_SSL"}]

\* KSink::parse_header after the request line.
ParseHeader(d, f) ==
  CASE f.pseudo /\ d.ver > 100 -> ParsePseudo(d, f)
    [] f.name = "Accept-Encoding" -> Good(AcceptEncoding(d, f.v))
    [] f.name = "Connection" -> Good(FieldList(d, "connection", f.v))
    [] f.name = "Content-Length" -> Good(ContentLength(d, f.v))
    [] f.name = "Cache-Control" -> Good(FieldList(d, "cache-control", f.v))
    [] f.name = "Expect" -> Good(Expect(d, f.v))
    [] f.name = "Host" -> ParseHost(d, f.v)
    [] f.name = "If-Range" -> Good(IfRange(d, f.v))
    [] f.name = "If-Modified-Since" -> Good(IfModifiedSince(d, f.v))
    [] f.name = "If-None-Match" -> Good(IfNoneMatch(d, f.v))
    [] f.name = "Pragma" -> Good(Add(IF f.v = "no-cache" THEN Flag(d, {"NO_CACHE"}, {}) ELSE d, "pragma"))
    [] f.name = "Range" -> Good(ParseRange(d, f.v))
    [] f.name = "Transfer-Encoding" -> Good(TransferEncoding(d, f.v))
    [] f.name = "X-Forwarded-Proto" -> Good(ForwardedProto(d, f.v))
    [] OTHER -> Good(Add(d, f.name))

-----------------------------------------------------------------------------
Init == /\ proto \in Protos /\ nreq = 1
        /\ phase = IF proto = "h1" THEN "line" ELSE "header"
        /\ data = Blank(proto) /\ fresh = Blank(proto) /\ got = <<>> /\ served = <<>>

\* The first line of an HTTP/1 request; one that is refused ends the connection.
Line == /\ phase = "line"
        /\ \E l \in Lines :
             LET r == ParseLine(data, l)
             IN  /\ data' = r.d /\ fresh' = ParseLine(fresh, l).d
                 /\ phase' = IF r.ok THEN "header" ELSE "closed"
        /\ UNCHANGED <<proto, nreq, got, served>>

\* A field; HTTP/2 ignores what parse_header returns.
Field == /\ phase = "header" /\ Len(got) < MaxFields
         /\ \E f \in Fields :
              /\ f.pseudo => proto = "h2"
              /\ LET r == ParseHeader(data, f)
                 IN  /\ data' = r.d /\ fresh' = ParseHeader(fresh, f).d /\ got' = Append(got, f)
                     /\ phase' = IF r.ok \/ proto = "h2" THEN "header" ELSE "closed"
         /\ UNCHANGED <<proto, nreq, served>>

\* khttp_server_new_request and KSink::begin_request.
BeginRequest == /\ phase = "header"
                /\ IF data.host = None
                   THEN phase' = "ending" /\ data' = Flag(data, {"CLOSE"}, {}) /\ fresh' = Flag(fresh, {"CLOSE"}, {})
                   ELSE phase' = "serving" /\ UNCHANGED <<data, fresh>>
                /\ UNCHANGED <<proto, nreq, got, served>>

\* kgl_adjust_range of a file of n bytes.
Adjust(r, n) ==
  LET rest == n - r.from
      len == IF r.to - r.from + 1 < rest THEN r.to - r.from + 1 ELSE rest
      last == r.from + n
  IN  CASE r.from >= 0 /\ r.from >= n -> [ok |-> FALSE, len |-> n, r |-> r]
        [] r.from >= 0 /\ r.to >= 0 -> [ok |-> len > 0, len |-> len, r |-> r]
        [] r.from >= 0 -> [ok |-> TRUE, len |-> rest, r |-> [r EXCEPT !.to = n - 1]]
        [] last <= 0 -> [ok |-> FALSE, len |-> n, r |-> [r EXCEPT !.from = last]]
        [] OTHER -> [ok |-> TRUE, len |-> n - last, r |-> [r EXCEPT !.from = last, !.to = n - 1]]

\* The handler serves the range of a file.
ServeRange == /\ phase = "serving" /\ data.range.set
              /\ \E n \in Sizes :
                   LET a == Adjust(data.range, n)
                   IN  /\ served' = <<[size |-> n, ok |-> a.ok, len |-> a.len, from |-> a.r.from]>>
                       /\ data' = [data EXCEPT !.range = a.r]
                       /\ fresh' = [fresh EXCEPT !.range = Adjust(fresh.range, n).r]
              /\ phase' = "ending" /\ UNCHANGED <<proto, nreq, got>>
ServeWhole == /\ phase = "serving" /\ phase' = "ending"
              /\ UNCHANGED <<proto, nreq, data, fresh, got, served>>

\* start_pipe_line, reset_pipeline and begin_request.
NextRequest == /\ phase = "ending" /\ proto = "h1" /\ nreq < MaxRequests
               /\ "CLOSE" \notin data.flags /\ "KEEP" \in data.flags
               /\ data' = Reset(data) /\ fresh' = Blank(proto)
               /\ phase' = "line" /\ nreq' = nreq + 1 /\ got' = <<>> /\ served' = <<>>
               /\ UNCHANGED proto

Next == Line \/ Field \/ BeginRequest \/ ServeRange \/ ServeWhole \/ NextRequest
Spec == Init /\ [][Next]_vars

-----------------------------------------------------------------------------
\* A request on a connection that was kept means what the same request means
\* on a new one (reset_pipeline, free_lazy_memory and begin_request forget all
\* of the one before).  The port is read only with a host; parse_header does
\* not read the version of a CONNECT line, which keeps the one before.
RequestIsolated ==
  phase \in {"header", "serving", "ending"} =>
    /\ \A k \in DOMAIN data \ {"ver", "port"} : data[k] = fresh[k]
    /\ data.host # None => data.port = fresh.port
    /\ data.meth \notin {"CONNECT", "PRI"} => data.ver = fresh.ver

\* The unions of a time and an entity are read by the flag beside them
\* (get_precondition_flag).
UnionsTagged ==
  /\ data.pre.v # 0 => ("IF_TIME" \in data.flags <=> data.pre.as = "time")
  /\ data.range.cond.v # 0 => ("IF_RANGE_DATE" \in data.flags <=> data.range.cond.as = "time")

\* If-None-Match counts over If-Modified-Since in whichever order they come.
NoneMatchWins ==
  (\E k \in DOMAIN got : got[k].name = "If-None-Match") => data.pre.as = "entity" /\ "IF_TIME" \notin data.flags

\* adjust_range accepts a range only with at least one byte, all inside the file.
RangeInside ==
  \A k \in DOMAIN served :
    served[k].ok => served[k].from >= 0 /\ served[k].len > 0 /\ served[k].from + served[k].len <= served[k].size

\* parse_url and parse_url_host assert that the host and the path they set are
\* not set yet.
UrlWrittenOnce ==
  \A k \in {"host", "path"} : data[k] # None /\ data'[k] # None => data'[k] = data[k]

\* left_read is what is left of the body: unknown while the body is chunked.
ChunkedLengthUnknown == phase = "serving" /\ "INPUT_CHUNKED" \in data.flags => data.left = -1

\* The last range model: a range -n that is served ends with the file.
LastRangeIsLast ==
  \A k \in DOMAIN served :
    served[k].ok /\ (\E j \in DOMAIN got : got[j].name = "Range" /\ got[j].v.form = "last"
                                          /\ \A i \in DOMAIN got : got[i].name = "Range" => i <= j)
      => served[k].from + served[k].len = served[k].size
=============================================================================
