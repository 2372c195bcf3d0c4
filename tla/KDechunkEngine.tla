---------------------------- MODULE KDechunkEngine ----------------------------
(***************************************************************************)
(* The decoder of chunked bodies (KDechunkEngine::dechunk) as the HTTP/1   *)
(* sink drives it (KDechunkContext::read), or a reader that decodes in its *)
(* caller's buffer (KDechunkReader::read): the network delivers a message  *)
(* cut anywhere, and every read takes a piece of it.  A byte of the wire   *)
(* is a hexadecimal digit or one of the marks below; data bytes may look   *)
(* like any of them.  A size is kept in 32 bits, of which the upper three  *)
(* mark the state; here Modulus is 2^32 and MaxChunkSize is 2^29 - 1, scaled down.  *)
(***************************************************************************)
EXTENDS Integers, Sequences, SequencesExt

CONSTANTS
  Modulus, MaxChunkSize,        \* 2^32, KHTTPD_MAX_CHUNK_SIZE
  SizeLines,           \* the digits peers write
  Extensions,          \* what may stand between the size and the end of its line
  LineEnds,            \* \r\n or \n
  Bodies,              \* the bytes chunks are cut from
  TrailerLines,        \* trailer lines
  MaxChunks, MaxTrailers, MaxRead,
  InPlace              \* KDechunkReader::read drives the engine, not KDechunkContext::read

\* What is assumed of the constants.
DechunkAssumption == Modulus \in Nat \ {0} /\ MaxChunkSize \in Nat /\ MaxChunkSize < Modulus

Base == 16
\* Bytes that are not digits.
CR == 16
LF == 17
SP == 18
Colon == 19
Letter == 20
NextRequest == 21
Spaces == {CR, LF, SP}

VARIABLES
  data, lines,         \* what the peer sent: the data and the trailers
  wire, buf,           \* bytes not received; received and not decoded (hot .. end)
  status, chunk_size,
  real,                \* the size the digits say (history)
  out, trailers        \* what the reader was given

vars == <<data, lines, wire, buf, status, chunk_size, real, out, trailers>>

-----------------------------------------------------------------------------
\* The peer.
NumberOf(ds) == FoldLeft(LAMBDA n, d : n * Base + d, 0, ds)
Chunk(ds, ext, eol) == ds \o ext \o eol \o SubSeq(Bodies, 1, NumberOf(ds)) \o eol
ChunksOf(cs, ext, eol) == FlattenSeq([i \in 1..Len(cs) |-> Chunk(cs[i], ext, eol)])
Upto(S, n) == UNION {[1..k -> S] : k \in 0..n}
HasColon(t) == \E i \in 1..Len(t) : t[i] = Colon

\* A message and the first byte of the next request.
Init ==
  \E cs \in Upto({ds \in SizeLines : NumberOf(ds) > 0}, MaxChunks),
     ts \in Upto(TrailerLines, MaxTrailers), ext \in Extensions, eol \in LineEnds :
    /\ data = FlattenSeq([i \in 1..Len(cs) |-> SubSeq(Bodies, 1, NumberOf(cs[i]))])
    /\ lines = SelectSeq(ts, HasColon)
    /\ wire = ChunksOf(cs, ext, eol) \o <<0>> \o eol
              \o FlattenSeq([i \in 1..Len(ts) |-> ts[i] \o eol]) \o eol \o <<NextRequest>>
    /\ buf = <<>> /\ status = "READ_SIZE" /\ chunk_size = 0 /\ real = 0
    /\ out = <<>> /\ trailers = <<>>

-----------------------------------------------------------------------------
InSize == status \in {"READ_SIZE", "PART_SIZE", "PART_SIZE_END"}
Feeds(b) == {i \in 1..Len(b) : b[i] = LF}
NextLine == CHOOSE i \in Feeds(buf) : \A j \in Feeds(buf) : i <= j

\* A line feed ends the size; a size of zero is the last chunk.
SizeEnds ==
  /\ InSize /\ buf # <<>> /\ buf[1] = LF
  /\ status' = IF chunk_size = 0 THEN "READ_LAST" ELSE "DATA"
  /\ buf' = Tail(buf) /\ UNCHANGED <<chunk_size, real, out, trailers>>

\* The next digit, in 32 bits.
NewSize(n, d) == (n * Base + d) % Modulus

SizeDigit ==
  /\ status \in {"READ_SIZE", "PART_SIZE"} /\ buf # <<>> /\ buf[1] \in 0..(Base - 1)
  /\ LET n == NewSize(chunk_size, buf[1])
     IN  IF n > MaxChunkSize THEN status' = "IS_FAILED" /\ chunk_size' = 0
         ELSE status' = "PART_SIZE" /\ chunk_size' = n
  /\ real' = real * Base + buf[1]
  /\ buf' = Tail(buf) /\ UNCHANGED <<out, trailers>>

\* Anything else ends the digits.
SizeOther ==
  /\ InSize /\ buf # <<>> /\ buf[1] # LF
  /\ status = "PART_SIZE_END" \/ buf[1] \notin 0..(Base - 1)
  /\ status' = "PART_SIZE_END"
  /\ buf' = Tail(buf) /\ UNCHANGED <<chunk_size, real, out, trailers>>

HereOver(n) == Len(buf)

\* What is there of the chunk.
Here(n) == IF n < Len(buf) THEN n ELSE Len(buf)

\* A read of length bytes takes what is there of the chunk.
Data(length) ==
  /\ status = "DATA" /\ buf # <<>>
  /\ LET n == IF length < Here(chunk_size) THEN length ELSE Here(chunk_size)
     IN  /\ out' = out \o SubSeq(buf, 1, n) /\ buf' = SubSeq(buf, n + 1, Len(buf))
         /\ chunk_size' = chunk_size - n
         /\ IF chunk_size = n THEN status' = "READ_END" /\ real' = 0 ELSE UNCHANGED <<status, real>>
  /\ UNCHANGED trailers

\* The rest of the line after the data.
EndLine ==
  /\ status = "READ_END" /\ buf # <<>>
  /\ IF Feeds(buf) = {} THEN buf' = <<>> /\ UNCHANGED status
     ELSE buf' = SubSeq(buf, NextLine + 1, Len(buf)) /\ status' = "READ_SIZE"
  /\ UNCHANGED <<chunk_size, real, out, trailers>>

\* A line after the last chunk, trimmed; one that trims to its last byte ends it all.
Trimmed ==
  LET first == CHOOSE i \in 1..NextLine : (i = NextLine \/ buf[i] \notin Spaces)
                                          /\ \A j \in 1..(i - 1) : buf[j] \in Spaces
      last == CHOOSE i \in first..NextLine : (i = first \/ buf[i] \notin Spaces)
                                          /\ \A j \in (i + 1)..NextLine : buf[j] \in Spaces
  IN  <<first, last>>

LastLine ==
  /\ status = "READ_LAST" /\ Feeds(buf) # {}
  /\ LET first == Trimmed[1]
         last == Trimmed[2]
         line == SubSeq(buf, first, last)
     IN  IF first = last THEN status' = "IS_END" /\ UNCHANGED trailers
         ELSE IF InPlace THEN status' = "READ_FAILED" /\ UNCHANGED trailers
         ELSE /\ trailers' = IF HasColon(line) THEN Append(trailers, line)
                             ELSE trailers
              /\ UNCHANGED status
  /\ buf' = SubSeq(buf, NextLine + 1, Len(buf))
  /\ UNCHANGED <<chunk_size, real, out>>

Stopped == {"IS_END", "IS_FAILED", "READ_FAILED"}

\* Nothing to decode is left.
Starved ==
  \/ buf = <<>> /\ status \notin Stopped
  \/ status = "READ_LAST" /\ Feeds(buf) = {}

\* read_from_net appends to what save_point kept.
ReadFromNet(n) ==
  /\ ~InPlace /\ Starved /\ n <= Len(wire)
  /\ buf' = buf \o SubSeq(wire, 1, n) /\ wire' = SubSeq(wire, n + 1, Len(wire))
  /\ UNCHANGED <<status, chunk_size, real, out, trailers>>

\* KDechunkReader::read goes on behind the decoded data, over an unfinished line.
ReadInPlace(n) ==
  /\ InPlace /\ Starved /\ n <= Len(wire)
  /\ buf' = SubSeq(wire, 1, n) /\ wire' = SubSeq(wire, n + 1, Len(wire))
  /\ UNCHANGED <<status, chunk_size, real, out, trailers>>

Over == status \in Stopped /\ UNCHANGED vars

Next ==
  \/ /\ SizeEnds \/ SizeDigit \/ SizeOther \/ EndLine \/ LastLine \/ \E n \in 1..MaxRead : Data(n)
     /\ UNCHANGED <<data, lines, wire>>
  \/ (\E n \in 1..MaxRead : ReadFromNet(n) \/ ReadInPlace(n)) /\ UNCHANGED <<data, lines>>
  \/ Over

Spec == Init /\ [][Next]_vars

-----------------------------------------------------------------------------
\* However the message is cut and read, the reader gets the data and the trailers
\* that were sent, and the decoder stops where the message ends, with the next
\* request untouched.
DecodesMessage ==
  /\ IsPrefix(out, data)
  /\ status = "IS_END" => out = data /\ trailers = lines /\ buf \o wire = <<NextRequest>>

\* A message whose chunks are within KHTTPD_MAX_CHUNK_SIZE is not refused.
RefusesOnlyLarge == status = "IS_FAILED" => real > MaxChunkSize

\* KHTTPD_MAX_CHUNK_SIZE bounds a chunk: a larger size is refused, not taken for
\* another one.
SizeBounded == status \in {"PART_SIZE", "DATA"} => real <= MaxChunkSize

\* dechunk ends a message only at its end.
EndsAtEnd == status = "IS_END" => buf \o wire = <<NextRequest>>
===============================================================================
