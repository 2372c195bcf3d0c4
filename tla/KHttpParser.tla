---------------------------- MODULE KHttpParser ----------------------------
(***************************************************************************)
(* khttp_parse and khttp_parse_header (KHttpParser.h) with the loop of     *)
(* their callers (KHttpSink::start, KHttpUpstream::read_header): the       *)
(* network delivers the head of a message in any pieces, the parser is     *)
(* called on what has come, and after kgl_parse_continue the rest of the   *)
(* buffer is kept (ks_save_point) until more comes.  Characters: "a" any   *)
(* ordinary one, ":", " ", "\r", "\n", and "0" for the NUL the parser      *)
(* writes.                                                                 *)
(***************************************************************************)
EXTENDS Integers, Sequences, SequencesExt

CONSTANTS
    FirstLines,  \* request lines, as sequences of characters without the line end
    Lines,       \* header lines, folded ones with "\n " inside
    MaxLines,    \* header lines in a message
    LineEnds,    \* how lines end
    Blank,       \* empty lines before the request line: 0..Blank
    Cuts,        \* FALSE: every message comes in one piece
    Garbage      \* what may lie in the buffer behind what has been received

\* What is assumed of the constants.
BoundsAssumption ==
    /\ MaxLines \in Nat /\ Blank \in Nat /\ Cuts \in BOOLEAN
    /\ LineEnds \subseteq {<<"\n">>, <<"\r", "\n">>}
    /\ Garbage \subseteq {"a", ":", " ", "\r", "\n"}

VARIABLES
    input,      \* the message: its lines, their end, blank lines before, bytes of body
    sent,       \* how many characters of it have been delivered
    buf,        \* what has been delivered and not consumed, as the parser left it
    parser,     \* khttp_parser: started, finished, header_len
    out,        \* the headers handed to the callback
    waiting     \* the caller waits for more data

vars == <<input, sent, buf, parser, out, waiting>>

\* A message is made of lines with their ends, an empty line and perhaps a body.
Messages ==
    UNION {{[lines |-> <<first>> \o hs, end |-> e, blank |-> k, body |-> b]:
               first \in FirstLines, hs \in [1..n -> Lines], e \in LineEnds, k \in 0..Blank,
               b \in 0..1}:
           n \in 0..MaxLines}

\* A line with "\n" inside, the end of a folded line, replaced.
Replaced(line, end) ==
    FlattenSeq([i \in 1..Len(line) |-> IF line[i] = "\n" THEN end ELSE <<line[i]>>])

HeadText(m) ==
    FlattenSeq([i \in 1..m.blank |-> m.end]) \o
    FlattenSeq([i \in 1..Len(m.lines) |-> Replaced(m.lines[i], m.end) \o m.end]) \o m.end
Text(m) == HeadText(m) \o [i \in 1..m.body |-> "a"]

Init ==
    /\ input \in Messages
    /\ sent = 0 /\ buf = << >> /\ out = << >> /\ waiting = TRUE
    /\ parser = [started |-> FALSE, finished |-> FALSE, len |-> 0]

----------------------------------------------------------------------------
\* memchr(s, c) from position i on, 0 if there is none.
Memchr(s, c, i) ==
    LET at == {k \in i..Len(s): s[k] = c}
    IN  IF at = {} THEN 0 ELSE CHOOSE k \in at: \A j \in at: k <= j

Drop(s, n) == SubSeq(s, n + 1, Len(s))
Put(s, i, c) == [s EXCEPT ![i] = c]

\* The text up to the first NUL or space.
Word(s) ==
    LET stop == {k \in 1..Len(s): s[k] \in {" ", "0"}}
    IN  IF stop = {} THEN s ELSE SubSeq(s, 1, (CHOOSE k \in stop: \A j \in stop: k <= j) - 1)

\* The text after its leading spaces.
Skip(s) ==
    LET rest == {k \in 1..Len(s): s[k] # " "}
    IN  IF rest = {} THEN << >> ELSE SubSeq(s, CHOOSE k \in rest: \A j \in rest: k <= j, Len(s))

\* khttp_parse_header: the separator is a space in the first line, else a colon; without
\* one the result is kgl_parse_continue, though the line is consumed.
ParseHeader(line, first) ==
    LET at == Memchr(line, IF first THEN " " ELSE ":", 1)
    IN  IF at = 0 THEN [res |-> "continue"]
        ELSE [res |-> "success", attr |-> Word(SubSeq(line, 1, at - 1)),
              val |-> Skip(SubSeq(line, at + 1, Len(line)))]

\* The fold loop of khttp_parse from the line end pn on: the end of a line that is
\* continued becomes spaces.  The character behind the last one received is whatever the
\* buffer holds (g).  The result is the buffer and the line end, 0 when there is none yet.
RECURSIVE Fold(_, _, _)
Fold(s, pn, g) ==
    LET nxt == IF pn = Len(s) THEN g ELSE s[pn + 1] IN
    IF nxt # " " THEN [buf |-> s, pn |-> pn]
    ELSE LET s1 == Put(s, pn, " ")
             pr == Memchr(SubSeq(s, 1, pn), "\r", 1)
             s2 == IF pr = 0 THEN s1 ELSE Put(s1, pr, " ")
             n  == Memchr(s2, "\n", pn)
         IN  IF n = 0 THEN [buf |-> s2, pn |-> 0] ELSE Fold(s2, n, g)

\* The line without its end: "\r" goes too, unless the line is very short.
LineOf(s, pn) == SubSeq(s, 1, IF pn > 3 /\ s[pn - 1] = "\r" THEN pn - 2 ELSE pn - 1)

MustWaitNot(s, pn) == FALSE

\* A line end that is the last character received tells nothing of the next line.
MustWait(s, pn) == pn = Len(s)

\* header_len counts everything consumed.
Counted(n) == parser.len + n

\* kgl_parse_continue: the caller saves the buffer and waits.
More(s) == waiting' = TRUE /\ buf' = s /\ UNCHANGED <<parser, out>>

\* khttp_parse: one call.
Parse ==
    /\ ~waiting /\ ~parser.finished
    /\ LET pn == Memchr(buf, "\n", 1) IN
       IF pn = 0 THEN More(buf)
       ELSE IF buf[1] \in {"\n", "\r"}
       THEN /\ parser' = [parser EXCEPT !.len = Counted(pn), !.finished = parser.started]
            /\ buf' = Drop(buf, pn)
            /\ UNCHANGED <<out, waiting>>
       ELSE IF parser.started /\ MustWait(buf, pn) THEN More(buf)
       ELSE \E g \in Garbage:
            LET f == IF parser.started THEN Fold(buf, pn, g) ELSE [buf |-> buf, pn |-> pn] IN
            IF f.pn = 0 THEN More(f.buf)
            ELSE LET h == ParseHeader(LineOf(f.buf, f.pn), ~parser.started) IN
                 /\ parser' = [parser EXCEPT !.len = Counted(f.pn), !.started = TRUE]
                 /\ buf' = Drop(f.buf, f.pn)
                 /\ out' = IF h.res = "success" THEN Append(out, <<h.attr, h.val>>) ELSE out
                 /\ waiting' = (h.res = "continue")
    /\ UNCHANGED <<input, sent>>

\* The network brings the next piece, of any length.
Arrive ==
    /\ waiting /\ ~parser.finished
    /\ \E n \in sent + 1..Len(Text(input)):
          /\ Cuts \/ n = Len(Text(input))
          /\ sent' = n
          /\ buf' = buf \o SubSeq(Text(input), sent + 1, n)
    /\ waiting' = FALSE
    /\ UNCHANGED <<input, parser, out>>

Done == parser.finished /\ UNCHANGED vars

Next == Parse \/ Arrive \/ Done
Spec == Init /\ [][Next]_vars
FairSpec == Spec /\ WF_vars(Parse) /\ WF_vars(Arrive)

----------------------------------------------------------------------------
\* What a line means, whatever pieces it came in: a fold is a run of spaces.
Unfold(line, end) == Replaced(line, [k \in 1..Len(end) |-> " "])
Meaning(m) ==
    [i \in 1..Len(m.lines) |->
        LET h == ParseHeader(Unfold(m.lines[i], m.end), i = 1) IN <<h.attr, h.val>>]

\* Wherever the network cuts the message, the parser hands out its headers, in order,
\* each once and whole.
CutIndependent ==
    /\ IsPrefix(out, Meaning(input))
    /\ parser.finished => out = Meaning(input)

\* The parser stops at the first byte of the body and has counted what lies before it
\* (header_len, which the callers hold against MAX_HTTP_HEAD_SIZE).
StopsAtBody ==
    parser.finished =>
        /\ buf = SubSeq(Text(input), Len(HeadText(input)) + 1, sent)
        /\ parser.len = Len(HeadText(input))

\* KHttpParser.h calls kgl_parse_continue "no data parsed, need more data": a call that
\* ends in it has consumed nothing.
ContinueConsumesNothing == [][waiting' /\ ~waiting => parser'.len = parser.len]_vars

============================================================================
