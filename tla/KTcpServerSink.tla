--------------------------- MODULE KTcpServerSink ---------------------------
(***************************************************************************)
(* How an answer of HTTP/1.x reaches the socket: the pending header        *)
(* (KResponseContext), the body attached to it (KHttpSink::internal_write) *)
(* and kangle::write_buf, which sends a chain of buffers in batches of an  *)
(* iovec of fixed size, with a suffix behind the last buffer.  A byte is   *)
(* known by its number; numbers rise in the order the bytes shall be sent. *)
(***************************************************************************)
EXTENDS Integers, Sequences, SequencesExt, FiniteSetsExt

CONSTANTS
  IovCount,    \* KGL_RQ_WRITE_BUF_COUNT
  MaxUsed,     \* bound: bytes of one buffer
  MaxHead,     \* bound: buffers of the header
  MaxBody,     \* bound: buffers of the body
  MaxSuffix    \* bound: bytes of the suffix

\* What is assumed of the constants.
SinkAssumption ==
  /\ IovCount \in Nat \ {0, 1} /\ MaxUsed \in Nat \ {0} /\ MaxHead \in Nat
  /\ MaxBody \in Nat \ {0} /\ MaxSuffix \in Nat

VARIABLES
  pc,            \* "build", "write" or "done"
  rc,            \* the buffers of the response context, each a run of bytes
  total_len,
  status,        \* the status line has been inserted
  body,          \* bytes of the caller's body that are to be sent
  suffix,
  buf, buf_length, length,   \* write_buf: place in the chain, and what is left
  iov,           \* iovec_buf
  wire,          \* what the socket has taken
  send_size, response_left

send == <<buf, buf_length, length, iov, wire>>
vars == <<pc, rc, total_len, status, body, suffix, send, send_size, response_left>>

Min2(a, b) == IF a <= b THEN a ELSE b
Bytes(bufs) == FlattenSeq(bufs)
Used(bufs) == Len(Bytes(bufs))

\* A run of n bytes from number b on.
Run(b, n) == [i \in 1..n |-> b + i - 1]

StatusByte == 1
HeadByte == StatusByte + MaxUsed
BodyByte == HeadByte + MaxHead * MaxUsed
SuffixByte == BodyByte + MaxBody * MaxUsed

Init ==
  /\ pc = "build" /\ rc = <<>> /\ total_len = 0 /\ status = FALSE
  /\ body = <<>> /\ suffix = <<>> /\ buf = 1 /\ buf_length = 0 /\ length = 0
  /\ iov = <<>> /\ wire = <<>> /\ send_size = 0 /\ response_left = -1

\* head_insert_const: the status line, before all that is there.
HeadInsert(n) ==
  /\ pc = "build" /\ ~status
  /\ rc' = <<Run(StatusByte, n)>> \o rc
  /\ total_len' = total_len + n /\ status' = TRUE
  /\ UNCHANGED <<pc, body, suffix, send, send_size, response_left>>

\* head_append: a field, or the end of the header.
HeadAppend(n) ==
  /\ pc = "build" /\ Len(rc) < MaxHead
  /\ rc' = Append(rc, Run(HeadByte + Used(rc), n))
  /\ total_len' = total_len + n
  /\ UNCHANGED <<pc, status, body, suffix, send, send_size, response_left>>

\* write_buf is called for len bytes of the chain.
Starts(len, sfx) ==
  /\ buf' = 1 /\ buf_length' = len /\ length' = len + Len(sfx)
  /\ suffix' = sfx /\ UNCHANGED <<iov, wire>>

\* internal_write: the header goes with the first of the body.  The caller's
\* chain may hold more than the len bytes it asks for.
InternalWrite(bufs, len, sfx, known) ==
  /\ pc = "build" /\ len \in 1..Used(bufs)
  /\ rc' = rc \o bufs /\ total_len' = total_len + len
  /\ body' = SubSeq(Bytes(bufs), 1, len)
  /\ Starts(total_len', sfx)
  /\ response_left' = IF known THEN len ELSE -1
  /\ pc' = "write"
  /\ UNCHANGED <<status, send_size>>

\* end_request: the header alone.
EndRequest ==
  /\ pc = "build" /\ rc # <<>>
  /\ Starts(total_len, <<>>) /\ pc' = "write"
  /\ UNCHANGED <<rc, total_len, status, body, send_size, response_left>>

\* What of buf_length is left when k more buffers are in the iovec.
Rest(k) == buf_length - Used(SubSeq(rc, buf, Min2(buf + k - 1, Len(rc))))

\* The slots for buffers: one is kept for the suffix.
Slots == IovCount - 1

\* The number of buffers of the next batch.
BatchSize == Min({k \in 1..Slots : k = Slots \/ Rest(k) <= 0})

\* The part of a buffer that goes into the iovec; nothing when the loop reads
\* behind the chain.
Entry(k) ==
  IF buf + k - 1 > Len(rc) THEN <<>>
  ELSE SubSeq(rc[buf + k - 1], 1, Min2(Rest(k - 1), Len(rc[buf + k - 1])))

\* Mutant: the suffix follows every batch.
SuffixAlways(left) == suffix # <<>>

\* The suffix follows the last buffer.
SuffixNow(left) == left = 0 /\ suffix # <<>>

\* write_buf, the next batch is prepared.
Prepare ==
  /\ pc = "write" /\ iov = <<>> /\ buf_length > 0
  /\ LET n == BatchSize
         entries == [k \in 1..n |-> Entry(k)]
         left == buf_length - Used(entries)
     IN /\ iov' = IF SuffixNow(left) THEN Append(entries, suffix) ELSE entries
        /\ buf_length' = left /\ buf' = buf + n
  /\ UNCHANGED <<pc, rc, total_len, status, body, suffix, length, wire, send_size,
                 response_left>>

\* internal_write counts what was sent of the len bytes of the body.
Counts(left) == Len(body) - left

\* on_success_response.
Success(got) ==
  IF got > 0
  THEN /\ send_size' = send_size + got
       /\ response_left' = IF response_left >= 0 THEN response_left - got ELSE response_left
  ELSE UNCHANGED <<send_size, response_left>>

\* write_buf returns: the chain of the response context is forgotten.
Return(left) == pc' = "done" /\ Success(Counts(left))

\* kfiber_net_writev_full sends the whole batch, or fails after got bytes.
Writev(got) ==
  /\ pc = "write" /\ iov # <<>> /\ got \in 0..Used(iov)
  /\ wire' = wire \o SubSeq(Bytes(iov), 1, got)
  /\ length' = length - got
  /\ iov' = <<>>
  /\ IF got = Used(iov) /\ buf_length > 0
     THEN UNCHANGED <<pc, send_size, response_left>>
     ELSE Return(length')
  /\ UNCHANGED <<rc, total_len, status, body, suffix, buf, buf_length>>

Done == pc = "done" /\ UNCHANGED vars

\* The caller's chains: buffers of any fill, also empty ones.
Chains ==
  LET Fills == UNION {[1..n -> 0..MaxUsed] : n \in 1..MaxBody}
  IN {[i \in DOMAIN f |-> Run(BodyByte + (i - 1) * MaxUsed, f[i])] : f \in Fills}

Next ==
  \/ \E n \in 1..MaxUsed : HeadInsert(n)
  \/ \E n \in 1..MaxUsed : HeadAppend(n)
  \/ \E bufs \in Chains, n \in 0..MaxSuffix, known \in BOOLEAN :
       \E len \in 1..Used(bufs) :
         InternalWrite(bufs, len, Run(SuffixByte, n), known /\ n = 0)
  \/ EndRequest
  \/ Prepare
  \/ \E got \in 0..Used(iov) : Writev(got)
  \/ Done

Spec == Init /\ [][Next]_vars

-----------------------------------------------------------------------------
(* Properties.                                                             *)

\* What write_buf shall send: the header, the body and the suffix.
Whole == SubSeq(Bytes(rc), 1, total_len) \o suffix

\* Nothing is sent twice, left out or out of order, however the chain falls
\* into batches and wherever the socket fails, and what write_buf returns is
\* the number of bytes that were not sent.
SentInOrder ==
  pc # "build" =>
    /\ wire = SubSeq(Whole, 1, Len(wire))
    /\ length = Len(Whole) - Len(wire)
    /\ pc = "done" /\ length = 0 => wire = Whole

\* The status line and the fields arrive in their order, before the body, and
\* total_len of the response context is the number of their bytes.
HeaderFirst ==
  /\ \A i \in 1..(Len(wire) - 1) : wire[i] < wire[i + 1]
  /\ pc = "build" => total_len = Used(rc)

\* The loop of write_buf never walks behind the end of the chain.
InsideChain == pc # "build" => buf <= Len(rc) + 1 /\ (buf_length > 0 => buf <= Len(rc))

\* on_success_response counts bytes of the body only, although header and
\* body go out together, so response_left says truly how much of a known
\* length is still missing and its assert(response_left >= len) holds.
CountsBody ==
  pc = "done" /\ suffix = <<>> =>
    /\ send_size = Cardinality({i \in DOMAIN wire : wire[i] >= BodyByte})
    /\ response_left >= 0 => response_left = Len(body) - send_size
=============================================================================
