-------------------------- MODULE KHttp2HeaderFrame --------------------------
(***************************************************************************)
(* The header block of one outgoing message (KHttp2HeaderFrame): fields    *)
(* are written into chunks, the status line is inserted in front, and      *)
(* create cuts the chunks into a HEADERS frame and CONTINUATION frames.    *)
(* A byte is <<number of the field, its place in it>>; loops run one turn  *)
(* per step.                                                               *)
(***************************************************************************)
EXTENDS Integers, Sequences, SequencesExt

CONSTANTS
  FieldLens,          \* encoded lengths of the header fields
  StatusLen,          \* encoded length of the status
  MaxFields,          \* bound: how many fields are written
  ChunkSize,          \* KGL_HEADER_FRAME_CHUNK_SIZE
  MaxFrame            \* SETTINGS_MAX_FRAME_SIZE of the peer

\* What is assumed of the constants.
FrameAssumption ==
  /\ FieldLens \subseteq Nat \ {0} /\ StatusLen \in 1..ChunkSize
  /\ ChunkSize \in Nat \ {0} /\ MaxFrame \in Nat /\ ChunkSize <= MaxFrame

VARIABLES
  chunks,             \* head .. last: [size, bytes]
  str,                \* what write has still to copy
  fields,             \* how many fields were written
  status,             \* insert was called
  block,              \* history: the header block the caller asked for
  no_body,
  out,                \* the frames create builds, the last one not complete
  type,
  pc

blockVars == <<chunks, str, fields, status, block>>
createVars == <<no_body, out, type>>
vars == <<blockVars, createVars, pc>>

Field(n, len) == [k \in 1..len |-> <<n, k>>]
Status == Field(0, StatusLen)

\* A frame header: its four members, all clear after memset.
Clear == [length |-> 0, type |-> "DATA", flags |-> {}, stream_id |-> 0]
Flags == {"END_STREAM", "END_HEADERS"}

Init ==
  /\ chunks = <<>> /\ str = <<>> /\ fields = 0 /\ status = FALSE
  /\ block = <<>>
  /\ no_body = FALSE /\ out = <<>> /\ type = "HEADERS"
  /\ pc = "write"

\* write and write_lower_string of one encoded field.
Write(len) ==
  /\ pc = "write" /\ str = <<>> /\ fields < MaxFields
  /\ fields' = fields + 1
  /\ str' = Field(fields + 1, len)
  /\ block' = block \o str'
  /\ UNCHANGED <<chunks, status, createVars, pc>>

\* alloc_buffer: the last chunk's room, or a new chunk when there is none.
Room ==
  IF chunks = <<>> \/ Len(Last(chunks).bytes) = ChunkSize THEN <<>> ELSE Last(chunks).bytes

AllocBuffer ==
  /\ pc = "write" /\ str # <<>>
  /\ LET left == ChunkSize - Len(Room)
         len == IF Len(str) < left THEN Len(str) ELSE left
         size == IF Room = <<>> THEN ChunkSize ELSE Last(chunks).size
         filled == [size |-> size, bytes |-> Room \o SubSeq(str, 1, len)]
     IN  /\ chunks' = (IF Room = <<>> THEN chunks ELSE Front(chunks)) \o <<filled>>
         /\ str' = SubSeq(str, len + 1, Len(str))
  /\ UNCHANGED <<fields, status, block, createVars, pc>>

\* insert, from add_status: in front of whatever was written before.
Insert ==
  /\ pc = "write" /\ str = <<>> /\ ~status
  /\ status' = TRUE
  /\ block' = Status \o block
  /\ IF chunks = <<>>
     THEN str' = Status /\ UNCHANGED chunks
     ELSE /\ chunks' = <<[size |-> StatusLen, bytes |-> Status]>> \o chunks
          /\ UNCHANGED str
  /\ UNCHANGED <<fields, createVars, pc>>

\* create: the HEADERS frame header, cleared, with END_STREAM for no_body.
Create(nb) ==
  /\ pc = "write" /\ str = <<>> /\ chunks # <<>>
  /\ no_body' = nb
  /\ out' = <<[hd |-> [Clear EXCEPT !.flags = IF nb THEN {"END_STREAM"} ELSE {}],
               payload |-> <<>>]>>
  /\ pc' = "create"
  /\ UNCHANGED <<blockVars, type>>

\* frame_size: what the current frame, the last one, holds so far.
frame_size == Len(Last(out).payload)

\* The chunk does not fit into the frame any more.
Full(used) == frame_size + used > MaxFrame

\* The current frame gets its length, type and stream id.
Stamped == [Last(out).hd EXCEPT !.length = frame_size, !.type = type, !.stream_id = 1]

\* One turn of create's loop that starts a CONTINUATION frame.  The memset that
\* should clear the new header clears the first one (buf, not hb); the new one
\* keeps whatever malloc returned.
CreateCut(garbage) ==
  /\ pc = "create" /\ chunks # <<>> /\ Full(Len(chunks[1].bytes))
  /\ out' = Append([[out EXCEPT ![Len(out)].hd = Stamped] EXCEPT ![1].hd = Clear],
                   [hd |-> [Clear EXCEPT !.flags = garbage], payload |-> chunks[1].bytes])
  /\ type' = "CONTINUATION"
  /\ chunks' = Tail(chunks)
  /\ UNCHANGED <<str, fields, status, block, no_body, pc>>

\* One turn that adds a chunk to the current frame.
CreateAdd ==
  /\ pc = "create" /\ chunks # <<>> /\ ~Full(Len(chunks[1].bytes))
  /\ out' = [out EXCEPT ![Len(out)].payload = @ \o chunks[1].bytes]
  /\ chunks' = Tail(chunks)
  /\ UNCHANGED <<str, fields, status, block, no_body, type, pc>>

CreateEndUnsized ==
  /\ pc = "create" /\ chunks = <<>>
  /\ out' = [out EXCEPT ![Len(out)].hd.flags = @ \cup {"END_HEADERS"}]
  /\ pc' = "done"
  /\ UNCHANGED <<blockVars, no_body, type>>

\* The last header gets its length and END_HEADERS.
CreateEnd ==
  /\ pc = "create" /\ chunks = <<>>
  /\ out' = [out EXCEPT ![Len(out)].hd =
               [Stamped EXCEPT !.flags = Stamped.flags \cup {"END_HEADERS"}]]
  /\ pc' = "done"
  /\ UNCHANGED <<blockVars, no_body, type>>

Done == pc = "done" /\ UNCHANGED vars

Next ==
  \/ \E len \in FieldLens : Write(len)
  \/ AllocBuffer \/ Insert
  \/ \E nb \in BOOLEAN : Create(nb)
  \/ \E garbage \in SUBSET Flags : CreateCut(garbage)
  \/ CreateAdd \/ CreateEnd \/ Done

Spec == Init /\ [][Next]_vars

-----------------------------------------------------------------------------
\* insert and write put the block together in chunks that are cut, joined and cut
\* again into frames: status first, every field whole and in order.
BlockIntact ==
  FlattenSeq([i \in 1..Len(out) |-> out[i].payload]) \o
  FlattenSeq([i \in 1..Len(chunks) |-> chunks[i].bytes]) \o str = block

\* alloc_buffer asserts used < KGL_HEADER_FRAME_CHUNK_SIZE and then fills up to
\* it: a chunk it appends to was allocated with that size.
ChunkFits == \A i \in 1..Len(chunks) : Len(chunks[i].bytes) <= chunks[i].size

\* What state_head and handle_continuation of a receiver take: a HEADERS frame,
\* CONTINUATION frames of the same stream and nothing else behind it, lengths
\* that cover the block, END_HEADERS on the last frame only.
WellFramed ==
  \A i \in 1..Len(out) :
    LET hd == out[i].hd
    IN  /\ hd.type = IF i = 1 THEN "HEADERS" ELSE "CONTINUATION"
        /\ hd.stream_id = 1
        /\ hd.length = Len(out[i].payload)
        /\ ("END_HEADERS" \in hd.flags) = (i = Len(out))
        /\ ("END_STREAM" \in hd.flags) = (i = 1 /\ no_body)

\* A block that fits one frame is sent as one well-formed HEADERS frame.
OneFrame == pc = "done" /\ Len(block) <= MaxFrame => Len(out) = 1 /\ WellFramed

\* The receiving side of the same code closes the connection with "client sent
\* inappropriate frame while CONTINUATION was expected" unless a block longer
\* than a frame is framed this way.
LongBlock == pc = "done" => WellFramed
=============================================================================
