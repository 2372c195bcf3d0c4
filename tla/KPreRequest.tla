----------------------------- MODULE KPreRequest -----------------------------
(***************************************************************************)
(* What happens to a connection between its acceptance and its sink:       *)
(* handle_connection, the reader of a PROXY protocol header (KRequestProxy)*)
(* before or inside TLS, the look at the first byte on a port for both HTTP*)
(* and HTTPS, the TLS handshake and the choice of the sink.  The client's  *)
(* bytes are cut anywhere by the network, and it may hang up.              *)
(***************************************************************************)
EXTENDS Integers, Sequences, FiniteSets

CONSTANTS
  Servers,      \* sets of flags: "TCP", "PROXY", "SSL", "SSL_PROXY"
  Headers,      \* PROXY headers [sig, ver, cmd, family, proto, len]
  HdrSize,      \* sizeof(kgl_proxy_hdr_v2)
  V4Size, V6Size, MaxLen,  \* sizeof the two address blocks, and 4096
  NewConnection \* results of server_on_new_connection

\* What is assumed of the constants.
SizeAssumption == HdrSize > 0 /\ V4Size > 0 /\ V6Size >= V4Size /\ MaxLen >= V6Size

VARIABLES
  flags, tls, alpn,      \* the server; the client speaks TLS; what it negotiates
  hdrs, wire, sending,   \* the client's PROXY headers; bytes to come; it has not hung up
  stage,                 \* where the callbacks are
  hdr, left, body,       \* KRequestProxy: the header it reads, iov_len, the body buffer
  proxy, opaque,         \* of the kconnection
  owner, close,          \* who has the connection; RQ_CONNECTION_CLOSE of its sink
  readers, ends,         \* KRequestProxy objects; times the connection was destroyed
  unwanted               \* server_on_new_connection answered no_keep_alive

client == <<flags, tls, alpn, hdrs>>
reader == <<hdr, left, body, readers>>
vars == <<flags, tls, alpn, hdrs, wire, sending, stage, hdr, left, body, proxy, opaque, owner, close, readers, ends, unwanted>>

None == "none"
NoProxy == [of |-> 0, had |-> 0, read |-> 0]
Rep(t, n) == [k \in 1..n |-> t]

\* What the client sends: a PROXY header before TLS, the handshake, a PROXY
\* header inside TLS, and its request.
Announce(h) == Rep("head", HdrSize) \o Rep("body", h.len)
Script(fl, t, hs) ==
  (IF "PROXY" \in fl THEN Announce(hs[1]) ELSE <<>>)
  \o (IF t THEN <<"hello">> ELSE <<>>)
  \o (IF t /\ "SSL_PROXY" \in fl THEN Announce(hs[2]) ELSE <<>>)
  \o <<"request">>

Init ==
  /\ flags \in Servers /\ hdrs \in [1..2 -> Headers]
  /\ tls \in BOOLEAN /\ (tls => "SSL" \in flags)
  /\ alpn \in (IF tls THEN {"http/1.1", "h2"} ELSE {None})
  /\ wire = Script(flags, tls, hdrs) /\ sending = TRUE
  /\ stage = "accept" /\ hdr = 0 /\ left = 0 /\ body = 0
  /\ proxy = NoProxy /\ opaque = 0 /\ owner = "connection" /\ close = FALSE /\ readers = 0 /\ ends = 0 /\ unwanted = FALSE

Hangup == /\ sending /\ sending' = FALSE /\ wire' = <<>>
          /\ UNCHANGED <<client, stage, hdr, left, body, proxy, opaque, owner, close, readers, ends, unwanted>>

-----------------------------------------------------------------------------
Destroyed == owner' = "destroyed" /\ ends' = ends + 1 /\ stage' = "done" /\ UNCHANGED <<opaque, close>>

\* handle_http_request: the sink of the server's kind; op is the opaque bound.
HandleHttpRequest(op) ==
  /\ owner' = (IF "TCP" \in flags THEN "tcp" ELSE "http1")
  /\ close' = ("TCP" \notin flags /\ op # 0)
  /\ opaque' = 2 /\ stage' = "done" /\ UNCHANGED ends

\* handle_http_https_request: on a port for SSL, wait for the first byte.
HandleHttpHttpsRequest(op) ==
  IF "SSL" \in flags THEN stage' = "peek" /\ opaque' = op /\ UNCHANGED <<owner, close, ends>>
  ELSE HandleHttpRequest(op)

\* handl_proxy_request: a new reader, for the header before (n = 1) or inside TLS.
HandleProxyRequest(n) ==
  /\ readers' = readers + 1 /\ hdr' = n /\ left' = HdrSize /\ body' = 0 /\ stage' = "proxy_header"

\* handle_connection.
Accept ==
  /\ stage = "accept"
  /\ \E r \in NewConnection :
       LET bound == IF "no_keep_alive" \in r THEN 1 ELSE 0
       IN  /\ unwanted' = ("no_keep_alive" \in r)
           /\ CASE "success" \notin r -> Destroyed /\ UNCHANGED reader
                [] "success" \in r /\ "PROXY" \in flags ->
                     HandleProxyRequest(1) /\ opaque' = bound /\ UNCHANGED <<owner, close, ends>>
                [] "success" \in r /\ "PROXY" \notin flags /\ {"SSL", "SSL_PROXY"} \subseteq flags ->
                     stage' = "handshake" /\ opaque' = bound /\ UNCHANGED <<owner, close, ends, reader>>
                [] OTHER -> HandleHttpHttpsRequest(bound) /\ UNCHANGED reader
  /\ UNCHANGED <<client, wire, sending, proxy>>

\* KRequestProxy::destroy, and the end of state_body.
ReaderLeaks == UNCHANGED reader
ReaderEnds == readers' = readers - 1 /\ body' = 0 /\ UNCHANGED <<hdr, left>>
Fails == Destroyed /\ ReaderEnds /\ UNCHANGED proxy

\* result_proxy_request and handle_ssl_proxy_callback.
Proceed == IF hdr = 1 THEN HandleHttpHttpsRequest(opaque) ELSE HandleHttpRequest(opaque)

\* state_header and state_body for the fields of the header.
Family(h) == h.family * 16 + h.proto
GoodHeader(h) == h.sig /\ h.len <= MaxLen /\ h.len >= V4Size /\ h.ver = 2 /\ h.cmd = 1
GoodBody(h) == \/ Family(h) = 1 /\ h.len >= V4Size
               \/ Family(h) = 2 /\ h.len >= V6Size
Addresses(h) == [of |-> hdr, had |-> body, read |-> IF Family(h) = 1 THEN V4Size ELSE V6Size]
StateHeader == LET h == hdrs[hdr]
               IN  IF GoodHeader(h)
                   THEN /\ left' = h.len /\ body' = h.len /\ stage' = "proxy_body"
                        /\ UNCHANGED <<hdr, readers, owner, ends, opaque, close, proxy>>
                   ELSE Fails
StateBody == LET h == hdrs[hdr]
             IN  IF GoodBody(h)
                 THEN Proceed /\ ReaderEnds /\ proxy' = Addresses(h)
                 ELSE Fails

\* KRequestProxy::state: got bytes of what it asked for.
Want == left
Complete(got) == got = Want
ProxyRead ==
  /\ stage \in {"proxy_header", "proxy_body"} /\ wire # <<>>
  /\ \E got \in 1..(IF Len(wire) < Want THEN Len(wire) ELSE Want) :
       /\ wire' = SubSeq(wire, got + 1, Len(wire))
       /\ IF ~Complete(got)
          THEN /\ left' = left - got
               /\ UNCHANGED <<stage, hdr, body, readers, owner, ends, opaque, close, proxy>>
          ELSE IF stage = "proxy_header" THEN StateHeader ELSE StateBody
  /\ UNCHANGED <<client, sending, unwanted>>
ProxyEof == /\ stage \in {"proxy_header", "proxy_body"} /\ wire = <<>> /\ ~sending
            /\ Fails /\ UNCHANGED <<client, wire, sending, unwanted>>

\* handle_first_package_ready: a byte of TLS or of HTTP.
FirstPackage == /\ stage = "peek" /\ wire # <<>>
                /\ IF Head(wire) = "hello" THEN stage' = "handshake" /\ UNCHANGED <<owner, close, opaque, ends>>
                   ELSE HandleHttpRequest(opaque)
                /\ UNCHANGED <<client, wire, sending, reader, proxy, unwanted>>
PeekEof == /\ stage = "peek" /\ wire = <<>> /\ ~sending
           /\ Destroyed /\ UNCHANGED <<client, wire, sending, reader, proxy, unwanted>>

\* The handshake and handle_ssl_accept.
SslAccept ==
  /\ stage = "handshake" /\ wire # <<>> /\ Head(wire) = "hello" /\ wire' = Tail(wire)
  /\ CASE alpn = "h2" ->
            /\ owner' = "http2" /\ opaque' = 2 /\ stage' = "done" /\ UNCHANGED <<close, ends, reader>>
       [] alpn # "h2" /\ "SSL_PROXY" \in flags -> HandleProxyRequest(2) /\ UNCHANGED <<owner, close, opaque, ends>>
       [] OTHER -> HandleHttpRequest(opaque) /\ UNCHANGED reader
  /\ UNCHANGED <<client, sending, proxy, unwanted>>
SslFails == /\ stage = "handshake" /\ (IF wire = <<>> THEN ~sending ELSE Head(wire) # "hello")
            /\ Destroyed /\ UNCHANGED <<client, wire, sending, reader, proxy, unwanted>>

\* The connection has its owner.
Done == stage = "done" /\ UNCHANGED vars

Next == \/ Hangup \/ Accept \/ ProxyRead \/ ProxyEof \/ FirstPackage \/ PeekEof
        \/ SslAccept \/ SslFails \/ Done
Spec == Init /\ [][Next]_vars
FairSpec == Spec /\ WF_vars(Accept \/ ProxyRead \/ ProxyEof \/ FirstPackage \/ PeekEof \/ SslAccept \/ SslFails)

-----------------------------------------------------------------------------
Sunk == owner \in {"tcp", "http1", "http2"}

\* Every path of callbacks hands the connection to one sink or destroys it, once,
\* and a KRequestProxy is deleted exactly when it is done (destroy and
\* state_body delete this; the callback destroys the connection).
OneOwner == /\ readers = (IF stage \in {"proxy_header", "proxy_body"} THEN 1 ELSE 0)
            /\ ends = (IF owner = "destroyed" THEN 1 ELSE 0)
            /\ stage = "done" <=> owner # "connection"
            /\ readers = 0 => body = 0

\* However the network cuts it, the PROXY header is consumed to its last byte
\* and no further: a sink finds the client's first own byte next, the handshake
\* the ClientHello.
ConsumesHeader ==
  /\ Sunk /\ owner # "http2" /\ sending => wire # <<>> /\ Head(wire) = "request"
  /\ stage = "handshake" /\ sending => wire # <<>> /\ (tls => Head(wire) = "hello")

\* state_body reads an address block only where the body holds one.
BodyHoldsAddress == proxy.had >= proxy.read

\* An HTTP/1 sink of a connection server_on_new_connection did not want kept
\* closes after its first request, whichever callbacks it went through.
NoKeepAlive == owner = "http1" /\ unwanted => close

\* WORK_MODEL_SSL_PROXY, proxy in ssl: a sink of a TLS client knows the address
\* of the PROXY header inside TLS.
ProxyInSsl == Sunk /\ tls /\ "SSL_PROXY" \in flags => proxy.of = 2

\* fam holds the protocol family and the address: a header of an IPv4 or IPv6
\* stream (family 1 or 2, protocol 1) with its whole address block is accepted.
StreamFamilyAccepted ==
  owner = "destroyed" /\ sending /\ hdr = 1 /\ flags = {"PROXY"} =>
    ~(GoodHeader(hdrs[1]) /\ hdrs[1].proto = 1 /\ hdrs[1].family \in {1, 2} /\ hdrs[1].len >= V6Size)
=============================================================================
