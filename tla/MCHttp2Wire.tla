--------------------------- MODULE MCHttp2Wire -------------------------------
(***************************************************************************)
(* The parts of an HTTP/2 connection that work on bytes: the write buffer, *)
(* the header block going out and coming in, the HPACK table and its       *)
(* agreement with the peer, the receive buffer of a stream. They do not    *)
(* touch each other's state, so a behaviour of this module is one of one   *)
(* part, chosen at its start; the others rest.  The constants of the       *)
(* configuration are those of the write buffer: two writers with chained   *)
(* buffers (one node empty) and files, and control frames.                 *)
(***************************************************************************)
EXTENDS KHttp2WriteBuffer

CONSTANTS
  Bufs, Null

VARIABLES
  part,     \* which of the parts moves
  \* KHttp2HeaderFrame
  chunks, str, fields, status, block, no_body, out, type, frame_pc,
  \* KHttp2HeaderBlock
  sent, block_wire, buf, handler, incomplete, length, padding, end_headers, field_rest,
  block_str, block_fields,
  \* KHttp2Table
  hpack,
  \* KHttp2Hpack
  enc, dec, hpack_block, stream, pool, field, header, open, sends, skipped,
  \* KSendBuffer
  body_header, last, body_hot, total_len, live, data, next, body_length, copied, arrived

MCChains == {<<1>>, <<2, 0, 1>>}
MCControls == {[len |-> 0, tcp_nodelay |-> FALSE], [len |-> 1, tcp_nodelay |-> TRUE]}
MCNameLen == [x \in {"a", "b", "c"} |-> IF x = "c" THEN 3 ELSE 1]
MCValueLen == [x \in {"a", "b", "c"} |-> IF x = "a" THEN 0 ELSE 2]
MCLengths == [s \in {"a", "b", "c"} |-> IF s = "b" THEN 2 ELSE 1]

\* Up to three fields in chunks of 3 bytes, frames of up to 7.
HeaderOut == INSTANCE KHttp2HeaderFrame WITH
  FieldLens <- {1, 2, 5}, StatusLen <- 1, MaxFields <- 3, ChunkSize <- 3, MaxFrame <- 7,
  pc <- frame_pc

\* Blocks of up to two fields in up to three frames and reads of up to four
\* bytes.
HeaderIn == INSTANCE KHttp2HeaderBlock WITH
  Prefix <- 3, Radix <- 4, IntOctets <- 3, HeadSize <- 3, SaveSize <- 5,
  Indexes <- {1, 3, 18}, Lengths <- {0, 3}, MaxFields <- 2, MaxCuts <- 2,
  Paddings <- {0, 2}, MaxRead <- 4, wire <- block_wire, str <- block_str,
  fields <- block_fields

HeaderInOff ==
  /\ sent = 0 /\ block_wire = 0 /\ buf = 0 /\ handler = 0 /\ incomplete = 0
  /\ length = 0 /\ padding = 0 /\ end_headers = 0 /\ field_rest = 0 /\ block_str = 0
  /\ block_fields = 0

\* Three headers of different lengths in a table of 9, which the peer may make
\* smaller.
Table == INSTANCE KHttp2Table WITH
  Headers <- {"a", "b", "c"}, NameLen <- MCNameLen, ValueLen <- MCValueLen, TableSize <- 9,
  Sizes <- {4, 9}, Overhead <- 1, Chunk <- 2, MaxAdded <- 5, EarlyResize <- FALSE

\* Encoder and decoder over blocks of every kind.
Hpack == INSTANCE KHttp2Hpack WITH
  Strings <- {"a", "b", "c"}, Lengths <- MCLengths, LongStrings <- {"b"}, TableLimit <- 8,
  Overhead <- 1, Kinds <- {"new", "trailers", "gone", "refused"}, MayDestroy <- TRUE,
  MaxFields <- 3, block <- hpack_block

\* Five bytes in blocks of one and two.
Body == INSTANCE KSendBuffer WITH
  MaxBlock <- 2, MaxBytes <- 5, header <- body_header, hot <- body_hot,
  length <- body_length

ASSUME
  /\ BufferAssumption /\ ChainsFilled
  /\ HeaderOut!FrameAssumption
  /\ HeaderIn!BlockAssumption
  /\ Table!TableAssumption
  /\ Hpack!HpackAssumption
  /\ Body!BufferAssumption

-----------------------------------------------------------------------------

frameVars == <<chunks, str, fields, status, block, no_body, out, type, frame_pc>>
blockVars == <<sent, block_wire, buf, handler, incomplete, length, padding, end_headers,
  field_rest, block_str, block_fields>>
tableVars == <<hpack>>
hpackVars == <<enc, dec, hpack_block, stream, pool, field, header, open, sends, skipped>>
bodyVars == <<body_header, last, body_hot, total_len, live, data, next, body_length, copied,
  arrived>>
allVars == <<part, vars, frameVars, blockVars, tableVars, hpackVars, bodyVars>>

MCInit ==
  /\ part \in {"out", "frame", "block", "table", "hpack", "body"}
  /\ Init
  /\ HeaderOut!Init
  /\ \/ part = "block" /\ HeaderIn!Init
     \/ part # "block" /\ HeaderInOff
  /\ Table!Init
  /\ Hpack!Init
  /\ Body!Init

\* These parts come to an end.
Stopped == part \in {"table", "hpack", "body"} /\ UNCHANGED allVars

MCNext ==
  \/ /\ part = "out" /\ Next
     /\ UNCHANGED <<part, frameVars, blockVars, tableVars, hpackVars, bodyVars>>
  \/ /\ part = "frame" /\ HeaderOut!Next
     /\ UNCHANGED <<part, vars, blockVars, tableVars, hpackVars, bodyVars>>
  \/ /\ part = "block" /\ HeaderIn!Next
     /\ UNCHANGED <<part, vars, frameVars, tableVars, hpackVars, bodyVars>>
  \/ /\ part = "table" /\ Table!Next
     /\ UNCHANGED <<part, vars, frameVars, blockVars, hpackVars, bodyVars>>
  \/ /\ part = "hpack" /\ Hpack!Next
     /\ UNCHANGED <<part, vars, frameVars, blockVars, tableVars, bodyVars>>
  \/ /\ part = "body" /\ Body!Next
     /\ UNCHANGED <<part, vars, frameVars, blockVars, tableVars, hpackVars>>
  \/ Stopped

MCSpec == MCInit /\ [][MCNext]_allVars

-----------------------------------------------------------------------------

\* insert, write, alloc_buffer and create put the header block together whole:
\* status first, every field in order, no chunk filled past its size, and a
\* block that fits one frame sent as one well-formed HEADERS frame.
BlockSent ==
  /\ HeaderOut!BlockIntact
  /\ HeaderOut!ChunkFits
  /\ HeaderOut!OneFrame

\* However a block is cut into frames and reads, the handlers of
\* state_header_block see the fields the peer wrote, stop at the next frame, and
\* never take a good block for a bad one.
BlockRead == part = "block" =>
  /\ HeaderIn!BlockRead
  /\ HeaderIn!NeverRefused

\* The HPACK tables of both sides name the same headers: the ring of
\* KHttp2Table.cpp implements HpackTable, what get_indexed_header finds is what
\* the peer's encoder keeps; and as long as no field was passed over, a request
\* is given the header the peer sent.
TablesAgree ==
  /\ Table!KeepsTable
  /\ []Hpack!SyncedUnlessSkipped

\* The receive buffer implements ByteQueue: bytes leave it in the order they
\* came, each once (append, copy_read_buffer, clean); its length, which KHttp2
\* adds to a stream's window, is what it holds, and nothing reachable from it
\* was freed.
BufferIsQueue ==
  /\ Body!BufferIsQueue
  /\ []Body!LengthAndListAgree

=============================================================================
