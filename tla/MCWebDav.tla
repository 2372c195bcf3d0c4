--------------------------- MODULE MCWebDav ----------------------------------
(***************************************************************************)
(* The pool of upstream connections (the constants of the configuration    *)
(* are its own), the WebDAV client that works over such connections, the   *)
(* XML it reads from answers, and the array it and the configuration keep  *)
(* objects in. A behaviour is one of one part, chosen at its start; the    *)
(* others rest, or are off.                                                *)
(***************************************************************************)
EXTENDS KSockPool, TLC

CONSTANTS
  d1, d2, f1, f2, Objects, NoItem, MaxItems, MaxPieces, MaxResponses

VARIABLES
  part,     \* which of the parts moves
  \* KWebDav
  dav_conn, dav_pool, srv, rq, token, held, broken, next,
  \* KXml
  doc, hot, contexts, curContext, state, done, parents, cur_node, root, failed, files,
  \* KAutoArray
  body, bodys, count, cap, out, array_failed

\* Life times that expire, are unset and wrap.
MCLifeTimes == {-1, 0, 2}
MCGcTimes == {-1, 0, 1}

Interchangeable == Permutations(Conns) \cup Permutations(Handles)

TwoFibers == f1 :> {"LOCK", "UNLOCK", "PUT", "OPTIONS"} @@ f2 :> {"GET", "LIST", "DELETE"}
OneFiber == f1 :> {"OPTIONS", "DELETE", "LOCK", "UNLOCK", "REFRESH", "MKCOL", "COPY", "PUT", "GET",
                   "LIST"}

NameA == <<"D", "a">>
NameB == <<"", "b">>
Opening(n) == [k |-> "open", n |-> n]
Closing(n) == [k |-> "close", n |-> n]
SingleTag(n) == [k |-> "single", n |-> n]
TextPiece(v) == [k |-> "text", v |-> v]
CDataPiece(v) == [k |-> "cdata", v |-> v]
CommentPiece == [k |-> "comment"]
PrologPiece == [k |-> "prolog"]

In(n, c) == <<Opening(n)>> \o c \o <<Closing(n)>>
Leaves == {<<TextPiece("&x;")>>, <<CDataPiece("&y;")>>, <<CommentPiece>>}
Unlisted(d) == [text |-> d, files |-> <<>>]

\* A text runs to the next '<': no two of them are neighbours.
Cuttable(s) == \A i \in 2..Len(s) : ~(s[i].k = "text" /\ s[i - 1].k = "text")

\* Well-formed documents three elements deep.
Elements == {<<SingleTag(NameB)>>} \cup {In(n, c) : n \in {NameA, NameB}, c \in Leaves \cup {<<>>}}
ElementItems == Leaves \cup Elements \cup {In(NameB, e) : e \in Elements}
Contents == {c \in UNION {{FlattenSeq(s) : s \in [1..k -> ElementItems]} : k \in 0..MaxItems} :
               Cuttable(c)}
Nested == {Unlisted(In(NameA, c)) : c \in Contents}
          \cup {Unlisted(<<PrologPiece>> \o In(NameA, c)) : c \in ElementItems}

\* No text follows a text inside an element.
MCSeparate == {d \in Nested : \A i \in 2..Len(d.text) :
               d.text[i].k = "text" => d.text[i - 1].k \in {"open", "close", "single"}}

\* Any pieces in any order.
Pieces == {Opening(NameA), Opening(NameB), Closing(NameA), Closing(NameB), SingleTag(NameB),
           TextPiece("x"), CDataPiece("y"), CommentPiece, [k |-> "bad"]}
MCAnyPieces == {Unlisted(s) :
                s \in {t \in UNION {[1..k -> Pieces] : k \in 0..MaxPieces} : Cuttable(t)}}
             \cup {Unlisted(<<TextPiece("x"), [k |-> "badprolog"]>>),
                   Unlisted(<<TextPiece("x")>> \o <<PrologPiece>> \o In(NameA, <<>>))}

\* Multistatus answers with comments, as a server may send them.
Dav(t) == <<"D", t>>
Ok == TextPiece("HTTP/1.1 200 OK")
Propstat(st) == In(Dav("propstat"), In(Dav("prop"), <<SingleTag(Dav("getetag"))>>)
                                    \o In(Dav("status"), <<st>>))
Href(v) == In(Dav("href"), <<TextPiece(v)>>)
Listed(v) == [text |-> In(Dav("response"), Href(v) \o Propstat(Ok)), files |-> <<v>>]
Hidden == {[text |-> In(Dav("response"), c), files |-> <<>>] :
             c \in {Propstat(Ok), Href("dir/f1"), Href("") \o Propstat(Ok),
                    <<CommentPiece>> \o Href("dir/f1") \o <<CommentPiece>>
                      \o Propstat(TextPiece("HTTP/1.1 404")),
                    In(Dav("href"), <<>>) \o Propstat(Ok)}}
Both == [text |-> In(Dav("response"), Href("dir/f2") \o Propstat(CDataPiece("HTTP/1.1 200 OK"))
                                       \o Propstat(TextPiece("404"))),
         files |-> <<"dir/f2">>]
Responses == {Listed("dir/f1"), Listed("dir/sub/"), Listed("dir/f%32"), Both} \cup Hidden

PathNames == "dir/f1" :> "f1" @@ "dir/f2" :> "f2" @@ "dir/f%32" :> "f%32" @@ "dir/sub/" :> "sub"
MCCut(v) == PathNames[v]
MCEntities(v) == IF v = "&x;" THEN "x" ELSE v
MCDecode(v) == IF v = "f%32" THEN "f2" ELSE v
Meant(fs) == [i \in DOMAIN fs |-> MCDecode(MCCut(fs[i]))]

Multi(rs) ==
  LET all == <<PrologPiece, Opening(Dav("multistatus"))>>
             \o FlattenSeq([i \in DOMAIN rs |-> rs[i].text])
      fs == Meant(FlattenSeq([i \in DOMAIN rs |-> rs[i].files]))
  IN  {[text |-> all \o <<Closing(Dav("multistatus"))>>, files |-> fs],
       [text |-> all, files |-> <<>>],
       [text |-> all \o <<Closing(<<"E", "multistatus">>)>>, files |-> <<>>],
       [text |-> In(Dav("other"), Tail(all)), files |-> <<>>]}
MCAnswers == UNION {Multi(rs) : rs \in UNION {[1..k -> Responses] : k \in 0..MaxResponses}}

\* Two fibers share the client and its connections.
Pairs == INSTANCE KWebDav WITH
  Conns <- {d1, d2}, conn <- dav_conn, pool <- dav_pool,
  Fibers <- {f1, f2}, OpsOf <- TwoFibers, Cycle <- FALSE, MaxOps <- 3, PutPieces <- 1,
  Framings <- {"none", "chunked"}, Faults <- {"die"}

\* One fiber, every operation.
One == INSTANCE KWebDav WITH
  Conns <- {d1, d2}, conn <- dav_conn, pool <- dav_pool,
  Fibers <- {f1}, OpsOf <- OneFiber, Cycle <- FALSE, MaxOps <- 3, PutPieces <- 1,
  Framings <- {"none", "length", "chunked"}, Faults <- {"die"}

\* The body of a PUT may fail to be read; answers may end with the connection.
Buffers == INSTANCE KWebDav WITH
  Conns <- {d1, d2}, conn <- dav_conn, pool <- dav_pool,
  Fibers <- {f1}, OpsOf <- OneFiber, Cycle <- FALSE, MaxOps <- 2, PutPieces <- 2,
  Framings <- {"length", "chunked", "close"}, Faults <- {"die", "source"}

\* Documents three elements deep.
Xml == INSTANCE KXml WITH
  Docs <- MCSeparate, Short <- {""}, Has200 <- {"HTTP/1.1 200 OK"},
  htmlDecode <- MCEntities, Cut <- MCCut, url_decode <- MCDecode

\* Any pieces in any order.
Torn == INSTANCE KXml WITH
  Docs <- MCAnyPieces, Short <- {""}, Has200 <- {"HTTP/1.1 200 OK"},
  htmlDecode <- MCEntities, Cut <- MCCut, url_decode <- MCDecode

\* Multistatus answers.
Lister == INSTANCE KXml WITH
  Docs <- MCAnswers, Short <- {""}, Has200 <- {"HTTP/1.1 200 OK"}, htmlDecode <- MCEntities,
  Cut <- MCCut, url_decode <- MCDecode

XmlOff ==
  /\ doc = 0 /\ hot = 0 /\ contexts = 0 /\ curContext = 0 /\ state = 0 /\ done = 0
  /\ parents = 0 /\ cur_node = 0 /\ root = 0 /\ failed = 0 /\ files = 0

\* Four objects: the block grows and is full again.
Array == INSTANCE KAutoArray WITH
  Items <- Objects, MaxCount <- 4, failed <- array_failed

ASSUME
  /\ PoolAssumption
  /\ Pairs!BoundsAssumption
  /\ One!BoundsAssumption
  /\ Buffers!BoundsAssumption
  /\ Array!ArrayAssumption

-----------------------------------------------------------------------------

davVars == <<dav_conn, dav_pool, srv, rq, token, held, broken, next>>
xmlVars == <<doc, hot, contexts, curContext, state, done, parents, cur_node, root, failed, files>>
arrayVars == <<body, bodys, count, cap, out, array_failed>>
allVars == <<part, vars, davVars, xmlVars, arrayVars>>

MCInit ==
  /\ part \in {"pool", "pairs", "one", "buffers", "xml", "broken", "list", "array"}
  /\ Init
  /\ \/ part = "pairs" /\ Pairs!Init
     \/ part = "one" /\ One!Init
     \/ part = "buffers" /\ Buffers!Init
     \/ part \notin {"pairs", "one", "buffers"} /\ Pairs!Init
  /\ \/ part = "xml" /\ Xml!Init
     \/ part = "broken" /\ Torn!Init
     \/ part = "list" /\ Lister!Init
     \/ part \notin {"xml", "broken", "list"} /\ XmlOff
  /\ Array!Init

\* These parts come to an end.
Stopped == part \in {"pairs", "one", "buffers"} /\ UNCHANGED allVars

MCNext ==
  \/ /\ part = "pool" /\ Next
     /\ UNCHANGED <<part, davVars, xmlVars, arrayVars>>
  \/ /\ part = "pairs" /\ Pairs!Next
     /\ UNCHANGED <<part, vars, xmlVars, arrayVars>>
  \/ /\ part = "one" /\ One!Next
     /\ UNCHANGED <<part, vars, xmlVars, arrayVars>>
  \/ /\ part = "buffers" /\ Buffers!Next
     /\ UNCHANGED <<part, vars, xmlVars, arrayVars>>
  \/ /\ part = "xml" /\ Xml!Next
     /\ UNCHANGED <<part, vars, davVars, arrayVars>>
  \/ /\ part = "broken" /\ Torn!Next
     /\ UNCHANGED <<part, vars, davVars, arrayVars>>
  \/ /\ part = "list" /\ Lister!Next
     /\ UNCHANGED <<part, vars, davVars, arrayVars>>
  \/ /\ part = "array" /\ Array!Next
     /\ UNCHANGED <<part, vars, davVars, xmlVars>>
  \/ Stopped

MCSpec == MCInit /\ [][MCNext]_allVars

-----------------------------------------------------------------------------

\* A request reads its own answer and nothing of another's, on a connection that
\* served others before it (~KResponseData decides): a living connection in the
\* pool is at rest on both sides, and the buffers of an earlier request are gone
\* (asserted by ~KHttpUpstream and send_method_path).  While no connection
\* breaks, client and server agree on who holds the lock whenever no operation
\* that changes it is under way (lock, unlock, current_lock_token).
OwnAnswer ==
  /\ part = "pairs" => Pairs!OwnAnswer /\ Pairs!LockAgreed
  /\ part = "one" => One!PooledAtRest
  /\ part = "buffers" => Buffers!BuffersGone

\* Parsing a well-formed document gives its tree: at every path the bodies are
\* the elements written there, each once, in the order of the document and each
\* with its own text, though children of one tag share a node and the tree is
\* built from events that do not name the parent.  The reader's stack and the
\* builder's stay in step in any text up to the point where it is refused, and
\* the files a client is given are those listed with status 200 in a
\* multistatus, in that order.
TreeIsDocument ==
  /\ part = "xml" => Xml!TreeIsDocument /\ Xml!InStep
  /\ part = "broken" => Torn!InStep
  /\ part = "list" => Lister!FilesAreListed

\* Through every change between the single object and the block, and through
\* every growth and shrinking of the block, the array is a list: what goes in at
\* a position is found there, nothing is lost, doubled or reordered, and no
\* write goes past what the block was allocated with.
ArrayIsList ==
  /\ Array!ArrayIsList
  /\ []Array!BlockHoldsCapacity

=============================================================================
