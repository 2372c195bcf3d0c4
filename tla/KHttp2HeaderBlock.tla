-------------------------- MODULE KHttp2HeaderBlock --------------------------
(***************************************************************************)
(* Reading one HPACK header block from the wire (KHttp2::state_header_block*)
(* and the handlers it calls).  The peer writes the fields with write_int, *)
(* cuts the block into a HEADERS frame, perhaps padded, and CONTINUATION   *)
(* frames, and the network cuts the frames into reads.  A byte of the      *)
(* block is a token: the first byte of an integer carries the kind of      *)
(* field, the other bytes of a frame head and the padding are opaque.      *)
(***************************************************************************)
EXTENDS Integers, Sequences, SequencesExt

CONSTANTS
  Prefix,        \* kgl_http_v2_prefix(..): the first byte holds values below it
  Radix,         \* 128: a further byte holds this many values
  IntOctets,     \* KGL_HTTP_V2_INT_OCTETS
  HeadSize,      \* KGL_HTTP_V2_FRAME_HEADER_SIZE
  SaveSize,      \* KGL_HTTP_V2_STATE_BUFFER_SIZE
  Indexes,       \* indexes of indexed fields
  Lengths,       \* lengths of literal strings
  MaxFields,     \* bound: fields of a block
  MaxCuts,       \* bound: CONTINUATION frames
  Paddings,      \* padding of the HEADERS frame
  MaxRead        \* bound: bytes one read delivers

\* What is assumed of the constants.
BlockAssumption ==
  /\ Prefix \in Nat \ {0} /\ Radix \in Nat \ {0} /\ IntOctets \in Nat \ {0}
  /\ HeadSize > 0 /\ SaveSize >= IntOctets - 1 + HeadSize
  /\ Indexes \subseteq Nat /\ Lengths \subseteq Nat /\ Paddings \subseteq Nat

VARIABLES
  sent,          \* the fields of the block
  wire,          \* bytes not read yet
  buf,           \* state.buffer and the bytes read
  handler, incomplete, length, padding, end_headers, field_rest, str,
  fields         \* the fields the handlers have seen

vars == <<sent, wire, buf, handler, incomplete, length, padding, end_headers, field_rest, str, fields>>
frame == <<length, padding, end_headers>>
field == <<field_rest, str, fields>>

-----------------------------------------------------------------------------
\* write_int: the octets after the first.
Octets[v \in Nat] ==
  IF v >= Radix THEN <<(v % Radix) + Radix>> \o Octets[v \div Radix] ELSE <<v>>

WriteInt(type, v) ==
  IF v < Prefix THEN <<[t |-> type, v |-> v]>>
  ELSE <<[t |-> type, v |-> Prefix]>> \o [i \in 1..Len(Octets[v - Prefix]) |->
                                            [t |-> "octet", v |-> Octets[v - Prefix][i]]]

\* A field is an index, or a literal whose value is a string of n bytes.
Encode(f) ==
  IF f.kind = "indexed" THEN WriteInt("indexed", f.n)
  ELSE WriteInt("literal", 1) \o WriteInt("string", f.n)
       \o [i \in 1..f.n |-> [t |-> "char", v |-> i]]

Encoded(fs) == FlattenSeq([i \in 1..Len(fs) |-> Encode(fs[i])])

FieldSet == {[kind |-> "indexed", n |-> i] : i \in Indexes}
            \cup {[kind |-> "literal", n |-> n] : n \in Lengths}
Blocks == UNION {[1..k -> FieldSet] : k \in 1..MaxFields}

Head9(len, last) ==
  <<[t |-> "head", v |-> len, last |-> last]>> \o [i \in 1..(HeadSize - 1) |-> [t |-> "rest", v |-> i]]

\* The block b cut after c[1], c[2], .. bytes, the first frame padded with pad bytes.
Frames(b, c, pad) ==
  LET end(i) == IF i > Len(c) THEN Len(b) ELSE c[i]
      cont(i) == Head9(end(i) - c[i - 1], i > Len(c)) \o SubSeq(b, c[i - 1] + 1, end(i))
  IN  SubSeq(b, 1, end(1)) \o [i \in 1..pad |-> [t |-> "pad", v |-> i]]
      \o FlattenSeq([i \in 1..Len(c) |-> cont(i + 1)]) \o <<[t |-> "next", v |-> 0]>>

\* state_headers has taken the head and the padding length.  A HEADERS frame
\* with an empty block was refused.
Init ==
  \E fs \in Blocks, pad \in Paddings, k \in 0..MaxCuts :
    \E c \in [1..k -> 1..Len(Encoded(fs))] :
      /\ \A i \in 1..(k - 1) : c[i] <= c[i + 1]
      /\ sent = fs /\ wire = Frames(Encoded(fs), c, pad)
      /\ length = (IF k = 0 THEN Len(Encoded(fs)) ELSE c[1])
      /\ padding = pad /\ end_headers = (k = 0)
      /\ buf = <<>> /\ handler = "header_block" /\ incomplete = FALSE /\ field_rest = 0 /\ str = <<>> /\ fields = <<>>

-----------------------------------------------------------------------------
ValueUnmasked(k) ==
  LET part[i \in 1..k] == IF i = 1 THEN buf[1].v
                          ELSE part[i - 1] + buf[i].v * Radix ^ (i - 2)
  IN  part[k]

\* The value of the k bytes: each octet adds seven bits.
Value(k) ==
  LET part[i \in 1..k] == IF i = 1 THEN buf[1].v
                          ELSE part[i - 1] + (buf[i].v % Radix) * Radix ^ (i - 2)
  IN  part[k]

\* parse_int at the start of buf: how many bytes, and the value; or AGAIN, DECLINED
\* or ERROR, as the limits of the frame, of the buffer and of INT_OCTETS are met.
parse_int ==
  LET last == IF Len(buf) < IntOctets THEN Len(buf) ELSE IntOctets
      ends == {i \in 2..last : buf[i].v < Radix}
      k == CHOOSE i \in ends : \A j \in ends : i <= j
  IN  IF buf[1].v # Prefix
      THEN IF length = 0 THEN [rs |-> "ERROR"] ELSE [rs |-> "OK", k |-> 1, v |-> buf[1].v]
      ELSE IF ends # {}
      THEN IF k > length THEN [rs |-> "ERROR"] ELSE [rs |-> "OK", k |-> k, v |-> Value(k)]
      ELSE IF last >= length THEN [rs |-> "ERROR"]
      ELSE IF last = IntOctets THEN [rs |-> "DECLINED"] ELSE [rs |-> "AGAIN"]

\* The next handler, with the bytes b to go on with.
Go(b, h) == buf' = b /\ handler' = h /\ incomplete' = FALSE

\* state_save: the bytes are kept, and the handler runs again when more come.
Save(b, h) ==
  IF Len(b) > SaveSize THEN Go(b, "closed")
  ELSE buf' = b /\ handler' = h /\ incomplete' = TRUE

\* handle_continuation skips what it has of the padding ...
Skipped(b) ==
  IF padding > 0 /\ Len(b) > length
  THEN LET have == Len(b) - length IN IF have < padding THEN have ELSE padding
  ELSE 0

Unpadded(b) == SubSeq(b, 1, length) \o SubSeq(b, length + Skipped(b) + 1, Len(b))

\* ... and moves the length bytes of this frame up to those of the next one.
HandleContinuation(b, h) ==
  LET u == IF Skipped(b) > 0 THEN Unpadded(b) ELSE b
      head == u[length + 1]
  IN  /\ padding' = padding - Skipped(b)
      /\ IF Len(u) < length + HeadSize
         THEN Save(u, h) /\ UNCHANGED <<length, end_headers>>
         ELSE IF head.t # "head"
         THEN Go(u, "closed") /\ UNCHANGED <<length, end_headers>>
         ELSE /\ Go(SubSeq(u, 1, length) \o SubSeq(u, length + HeadSize + 1, Len(u)), h)
              /\ length' = length + head.v /\ end_headers' = (end_headers \/ head.last)
      /\ UNCHANGED field

\* Too few bytes of the frame for an integer that may go on in the next one.
Short == ~end_headers /\ length < IntOctets

\* An integer is being read: not enough bytes, or a bad one.
Unparsed(rs, h) ==
  /\ IF rs = "AGAIN" THEN Save(buf, h) ELSE Go(buf, "closed")
  /\ UNCHANGED <<frame, field>>

TakeInt(h) ==
  /\ Go(SubSeq(buf, parse_int.k + 1, Len(buf)), h)
  /\ length' = length - parse_int.k /\ UNCHANGED <<padding, end_headers>>

HeaderBlock ==
  /\ handler = "header_block"
  /\ IF buf = <<>> THEN Save(buf, "header_block") /\ UNCHANGED <<frame, field>>
     ELSE IF Short THEN HandleContinuation(buf, "header_block")
     ELSE IF parse_int.rs # "OK" THEN Unparsed(parse_int.rs, "header_block")
     ELSE IF buf[1].t = "indexed"
     THEN /\ TakeInt("header_complete")
          /\ fields' = Append(fields, [kind |-> "indexed", n |-> parse_int.v])
          /\ UNCHANGED <<field_rest, str>>
     ELSE TakeInt("field_len") /\ UNCHANGED field

FieldLen ==
  /\ handler = "field_len"
  /\ IF Short THEN HandleContinuation(buf, "field_len")
     ELSE IF length < 1 THEN Go(buf, "closed") /\ UNCHANGED <<frame, field>>
     ELSE IF buf = <<>> THEN Save(buf, "field_len") /\ UNCHANGED <<frame, field>>
     ELSE IF parse_int.rs # "OK" THEN Unparsed(parse_int.rs, "field_len")
     ELSE /\ TakeInt("field_raw")
          /\ field_rest' = parse_int.v /\ str' = <<>> /\ UNCHANGED fields

\* state_field_raw, _huff and _skip: the part of the string that is here and in
\* this frame.
Size == LET m == IF Len(buf) < field_rest THEN Len(buf) ELSE field_rest
        IN  IF m < length THEN m ELSE length

FieldRaw ==
  /\ handler = "field_raw" /\ (length > 0 \/ field_rest = 0)
  /\ LET left == SubSeq(buf, Size + 1, Len(buf))
         got == str \o SubSeq(buf, 1, Size)
     IN  /\ str' = got /\ length' = length - Size /\ field_rest' = field_rest - Size
         /\ IF field_rest = Size
            THEN /\ Go(left, "header_complete")
                 /\ fields' = Append(fields, [kind |-> "literal", n |-> Len(got)])
            ELSE /\ UNCHANGED fields
                 /\ IF length > Size THEN Save(left, "field_raw")
                    ELSE IF end_headers THEN Go(left, "closed") ELSE Go(left, "field_raw")
  /\ UNCHANGED <<padding, end_headers>>

\* The string goes on in the next frame.
RawContinuation ==
  /\ handler = "field_raw" /\ length = 0 /\ field_rest > 0
  /\ HandleContinuation(buf, "field_raw")

\* state_header_complete: more of the block, the next frame, or the end of it.
HeaderComplete ==
  /\ handler = "header_complete"
  /\ IF length > 0 THEN Go(buf, "header_block") /\ UNCHANGED <<frame, field>>
     ELSE IF ~end_headers THEN HandleContinuation(buf, "header_complete")
     ELSE /\ Go(buf, "skip") /\ length' = padding /\ padding' = 0
          /\ UNCHANGED <<end_headers, field>>

\* state_skip_padded, state_skip: what is left of the frame.
Skip ==
  /\ handler = "skip"
  /\ LET n == IF Len(buf) < length THEN Len(buf) ELSE length
         left == SubSeq(buf, n + 1, Len(buf))
     IN  /\ length' = length - n
         /\ IF length = n THEN Go(left, "complete") ELSE Save(left, "skip")
  /\ UNCHANGED <<padding, end_headers, field>>

\* on_read: the handler that waited runs on the saved bytes and the new ones.
OnRead(n) ==
  /\ incomplete /\ n <= Len(wire)
  /\ buf' = buf \o SubSeq(wire, 1, n) /\ wire' = SubSeq(wire, n + 1, Len(wire))
  /\ incomplete' = FALSE
  /\ UNCHANGED <<sent, handler, frame, field>>

Over == handler \in {"complete", "closed"} /\ UNCHANGED vars

Next ==
  \/ /\ ~incomplete /\ UNCHANGED <<sent, wire>>
     /\ HeaderBlock \/ FieldLen \/ FieldRaw \/ RawContinuation \/ HeaderComplete \/ Skip
  \/ \E n \in 1..MaxRead : OnRead(n)
  \/ Over

Spec == Init /\ [][Next]_vars

-----------------------------------------------------------------------------
\* However the block is cut into frames and reads, and whatever the padding, the
\* handlers see the fields the peer wrote and stop at the next frame (they never wait
\* for bytes that do not come: TLC checks for deadlock).
BlockRead ==
  handler = "complete" => fields = sent /\ buf \o wire = <<[t |-> "next", v |-> 0]>>

\* A block whose integers fit INT_OCTETS is never taken for a bad one: no
\* frame of it, no cut and no padding closes the connection.
NeverRefused == handler # "closed"
=============================================================================
