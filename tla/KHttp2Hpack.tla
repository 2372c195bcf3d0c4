----------------------------- MODULE KHttp2Hpack -----------------------------
(***************************************************************************)
(* The peer's HPACK encoder and this connection's decoder: every header    *)
(* block changes both tables, also a block whose stream is refused, gone   *)
(* or ends while the block is read.  A header is a pair of strings.        *)
(***************************************************************************)
EXTENDS Integers, Sequences

CONSTANTS
  Strings, Lengths,   \* strings and how long they are
  LongStrings,        \* longer than 4096
  TableLimit, Overhead,
  Kinds,              \* what becomes of a HEADERS frame: "new", "trailers", "gone", "refused"
  MayDestroy,         \* the request may end while its trailers are read
  MaxFields           \* bound: fields sent

\* What is assumed of the constants.
HpackAssumption ==
  /\ Lengths \in [Strings -> Nat] /\ LongStrings \subseteq Strings
  /\ TableLimit \in Nat /\ Overhead \in Nat \ {0}
  /\ Kinds \subseteq {"new", "trailers", "gone", "refused"}
  /\ MayDestroy \in BOOLEAN /\ MaxFields \in Nat

VARIABLES
  enc, dec,        \* the dynamic tables, newest first
  block,           \* the kind of the block being read, or "none"
  stream, pool,    \* state.stream and usable; state.pool
  field,           \* field_start .. field_end: the string read last
  header,          \* what state_process_header gives to the request, and what was sent
  open, sends,
  skipped          \* a string or a block was passed over (history)

vars == <<enc, dec, block, stream, pool, field, header, open, sends, skipped>>

None == "none"
All == Strings \cup {None}
Length(s) == IF s = None THEN 0 ELSE Lengths[s]
Pairs == All \X All
T == INSTANCE HpackTable WITH
  Headers <- Pairs, Limit <- TableLimit, table <- enc, size <- TableLimit,
  Weight <- [h \in Pairs |-> Length(h[1]) + Length(h[2]) + Overhead]

Init ==
  /\ enc = <<>> /\ dec = <<>> /\ block = "none" /\ stream = FALSE /\ pool = FALSE
  /\ field = None /\ header = <<>> /\ open = TRUE /\ sends = 0 /\ skipped = FALSE

Put(t, h) == T!Added(t, TableLimit, h)

-----------------------------------------------------------------------------
\* state_headers.  A refused block is decoded without a stream and without a
\* pool; one for a stream that is not available is skipped as bytes.
StartBlock(kind) ==
  /\ open /\ block = "none" /\ sends < MaxFields
  /\ block' = kind
  /\ stream' = (kind \in {"new", "trailers"}) /\ pool' = (kind \in {"new", "trailers"})
  /\ header' = <<>>
  /\ UNCHANGED <<enc, dec, field, open, sends, skipped>>

\* The request ends while its trailers are being read: destroy_by_http2.
EndsMeanwhile ==
  /\ MayDestroy /\ block = "trailers" /\ stream
  /\ stream' = FALSE
  /\ UNCHANGED <<enc, dec, block, pool, field, header, open, sends, skipped>>

\* state_header_complete: the pool goes with the request.
EndBlock ==
  /\ block # "none"
  /\ block' = "none" /\ stream' = FALSE /\ pool' = FALSE
  /\ UNCHANGED <<enc, dec, field, header, open, sends, skipped>>

\* state_field_len: the string s is read, or skipped when it is too long or its
\* stream is not there; then field_start .. field_end is what it was.
Reads(s) == s \notin LongStrings /\ stream
StringRead(s, old) == IF Reads(s) THEN s ELSE old

\* state_process_header: a field to index goes to the table, and one of an available
\* stream to the request.
process_header(sent, got, index) ==
  /\ dec' = IF index THEN Put(dec, got) ELSE dec
  /\ header' = IF stream THEN <<sent, got>> ELSE <<>>

Sending == open /\ block # "none" /\ sends < MaxFields /\ sends' = sends + 1

\* A wrong index or an empty name closes the connection.
Refuse == open' = FALSE /\ UNCHANGED <<enc, dec, block, stream, pool, field, header>>

\* A literal field whose name is literal too.
Literal(n, v, index) ==
  /\ Sending /\ block # "gone"
  /\ skipped' = (skipped \/ ~Reads(n) \/ ~Reads(v))
  /\ LET name == StringRead(n, field)
         value == StringRead(v, name)
     IN  IF name = None THEN Refuse
         ELSE /\ process_header(<<n, v>>, <<name, value>>, index) /\ field' = value
              /\ enc' = IF index THEN Put(enc, <<n, v>>) ELSE enc
              /\ UNCHANGED <<block, stream, pool, open>>

\* A literal field whose name is an entry of the dynamic table.
NamedLiteral(i, v, index) ==
  /\ Sending /\ block # "gone" /\ i \in 1..Len(enc)
  /\ skipped' = (skipped \/ ~Reads(v))
  /\ IF i > Len(dec) THEN Refuse
     ELSE /\ process_header(<<enc[i][1], v>>, <<dec[i][1], StringRead(v, field)>>, index)
          /\ field' = StringRead(v, field)
          /\ enc' = IF index THEN Put(enc, <<enc[i][1], v>>) ELSE enc
          /\ UNCHANGED <<block, stream, pool, open>>

\* An indexed field.
Indexed(i) ==
  /\ Sending /\ block # "gone" /\ i \in 1..Len(enc)
  /\ UNCHANGED skipped
  /\ IF i > Len(dec) THEN Refuse
     ELSE /\ process_header(enc[i], dec[i], FALSE)
          /\ UNCHANGED <<enc, field, block, stream, pool, open>>

\* The fields of a block that state_skip passes over.
PassedOver(n, v) ==
  /\ Sending /\ block = "gone"
  /\ enc' = Put(enc, <<n, v>>) /\ skipped' = TRUE
  /\ UNCHANGED <<dec, block, stream, pool, field, header, open>>

Next ==
  \/ \E kind \in Kinds : StartBlock(kind)
  \/ EndsMeanwhile
  \/ EndBlock
  \/ \E n \in Strings, v \in Strings, index \in BOOLEAN : Literal(n, v, index)
  \/ \E i \in 1..Len(enc) : Indexed(i) \/ \E v \in Strings, index \in BOOLEAN : NamedLiteral(i, v, index)
  \/ \E n \in Strings, v \in Strings : PassedOver(n, v)

Spec == Init /\ [][Next]_vars

-----------------------------------------------------------------------------
\* As long as nothing was passed over, the tables of both sides are the same, and a
\* request is given the header the peer sent, through all earlier blocks, new and
\* trailers, that changed the tables.
SyncedUnlessSkipped ==
  ~skipped => dec = enc /\ (header # <<>> => header[1] = header[2])

\* A literal field with incremental indexing enters both tables, whatever became
\* of its stream: the decoder's table is the encoder's.
Synced == dec = enc

\* The request is given the header the peer sent, through the tables of all
\* earlier blocks.
HeaderRight == header # <<>> => header[1] = header[2]

\* get_indexed_header asserts that it has a pool to copy a dynamic entry to.
PoolPresent ==
  [][\A i \in 1..Len(enc) :
       (Indexed(i) \/ \E v \in Strings, index \in BOOLEAN : NamedLiteral(i, v, index)) => pool]_vars
==============================================================================
