----------------------------- MODULE KSendBuffer -----------------------------
(***************************************************************************)
(* KSendBuffer (include/KSendBuffer.h): the list of blocks in which a      *)
(* stream keeps the DATA it has received, and KHttp2::copy_read_buffer,    *)
(* which copies from it to the reader (src/KHttp2.cpp).  Blocks are nodes  *)
(* of a heap with a next pointer; a freed node may be given out again, so  *)
(* a pointer that outlives its node is seen.  pushHead and insert have no  *)
(* caller and are left out.                                                *)
(***************************************************************************)
EXTENDS Naturals, Sequences

CONSTANTS Bufs, Null,
          MaxBlock,    \* bound: bytes of one block
          MaxBytes     \* bound: bytes received in all

\* What is assumed of the constants.
BufferAssumption == Null \notin Bufs /\ MaxBlock \in Nat \ {0} /\ MaxBytes \in Nat

VARIABLES
  header, last, hot,  \* hot is the offset of the next byte in header's data
  total_len,
  live,               \* nodes allocated
  data, next,         \* of every node
  length, copied,     \* copy_read_buffer: room left, and what is in the reader's buffer
  arrived             \* bytes received; a byte is known by its number

list == <<header, last, hot, total_len, live, data, next>>
vars == <<list, length, copied, arrived>>

Init ==
  /\ header = Null /\ last = Null /\ hot = 0 /\ total_len = 0
  /\ live = {} /\ data = [b \in Bufs |-> <<>>] /\ next = [b \in Bufs |-> Null]
  /\ length = 0 /\ copied = <<>> /\ arrived = 0

Min(a, b) == IF a <= b THEN a ELSE b

\* add: the block goes behind last, or is the first.
Linked(b) == IF last = Null THEN [next EXCEPT ![b] = Null]
             ELSE [next EXCEPT ![b] = Null, ![last] = b]

append(b, n) ==
  /\ length = 0 /\ b \notin live /\ arrived + n <= MaxBytes
  /\ live' = live \cup {b}
  /\ data' = [data EXCEPT ![b] = [k \in 1..n |-> arrived + k]]
  /\ next' = Linked(b)
  /\ header' = (IF last = Null THEN b ELSE header)
  /\ hot' = (IF last = Null THEN 0 ELSE hot)
  /\ last' = b /\ total_len' = total_len + n
  /\ arrived' = arrived + n /\ UNCHANGED <<length, copied>>

\* A reader comes with a buffer of n bytes.
copy_read_buffer(n) ==
  /\ length = 0 /\ header # Null /\ length' = n
  /\ UNCHANGED <<list, copied, arrived>>

\* getReadBuffer: what is left of the first block.
HotLeft == Len(data[header]) - hot
StartBytes(n) == SubSeq(data[header], 1, n)
HotBytes(n) == SubSeq(data[header], hot + 1, hot + n)

LastOf(h) == IF h = Null THEN Null ELSE last

\* readSuccess: past the end of the block it is freed and the next one is hot.
readSuccess(got) ==
  /\ total_len' = total_len - got
  /\ IF hot + got < Len(data[header])
       THEN hot' = hot + got /\ UNCHANGED <<header, last, live, data, next>>
       ELSE /\ header' = next[header] /\ hot' = 0
            /\ last' = LastOf(next[header])
            /\ live' = live \ {header} /\ UNCHANGED <<data, next>>

\* One turn of the loop of copy_read_buffer; it ends with the room or the list.
Copy ==
  /\ length > 0
  /\ LET this_len == Min(HotLeft, length) IN
       /\ copied' = copied \o HotBytes(this_len)
       /\ readSuccess(this_len)
       /\ length' = IF header' = Null THEN 0 ELSE length - this_len
  /\ UNCHANGED arrived

\* shutdown or the end of the stream.
clean ==
  /\ length = 0 /\ live # {}
  /\ header' = Null /\ last' = Null /\ hot' = 0 /\ total_len' = 0 /\ live' = {}
  /\ UNCHANGED <<data, next, length, copied, arrived>>

Next ==
  \/ \E b \in Bufs, n \in 1..MaxBlock : append(b, n)
  \/ \E n \in 1..(2 * MaxBlock) : copy_read_buffer(n)
  \/ Copy
  \/ clean

Spec == Init /\ [][Next]_vars

-----------------------------------------------------------------------------
(* Properties.                                                             *)

\* The nodes from n on, in order (there are at most Cardinality(live)).
From[k \in 0..MaxBytes, n \in Bufs \cup {Null}] ==
  IF k = 0 \/ n = Null THEN <<>> ELSE <<n>> \o From[k - 1, next[n]]
Chain == From[MaxBytes, header]

Held ==
  LET bytes[k \in 0..Len(Chain)] ==
        IF k = 0 THEN <<>>
        ELSE bytes[k - 1] \o SubSeq(data[Chain[k]], (IF k = 1 THEN hot ELSE 0) + 1, Len(data[Chain[k]]))
  IN  bytes[Len(Chain)]

Queue == INSTANCE ByteQueue WITH queue <- Held, taken <- copied

\* Bytes leave the list in the order they arrived, each once, across blocks,
\* partial reads of a block, and an emptied list that is filled again.
BufferIsQueue == Queue!Spec

\* getLength, which KHttp2 adds to a stream's receive window, is what is held;
\* and nothing reachable, nor last, is a node that was freed.
LengthAndListAgree ==
  /\ total_len = Len(Held)
  /\ {Chain[k] : k \in DOMAIN Chain} = live
  /\ last = IF Chain = <<>> THEN Null ELSE Chain[Len(Chain)]
=============================================================================
