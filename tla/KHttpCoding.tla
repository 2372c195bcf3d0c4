----------------------------- MODULE KHttpCoding -----------------------------
(***************************************************************************)
(* The codings of src/KHttpLib.cpp and davlib/KXml.cpp: base64 of an       *)
(* Authorization header, escapes of URLs, entities of XML.  A text is a    *)
(* sequence of byte values that grows one byte at a time; each coding is   *)
(* checked against its inverse on every text.                              *)
(***************************************************************************)
EXTENDS Naturals, Sequences, SequencesExt

CONSTANTS Bytes,      \* the byte values looked at
          MaxLen      \* bound: bytes of a text

\* What is assumed of the constants.
CodingAssumption == Bytes \subseteq 0..255 /\ MaxLen \in Nat

VARIABLE text
vars == <<text>>

Init == text = <<>>
Next == Len(text) < MaxLen /\ \E b \in Bytes : text' = Append(text, b)
Spec == Init /\ [][Next]_vars

-----------------------------------------------------------------------------
(* Base64; a letter is its place in the alphabet, and 64 is the pad.       *)

Pad == 64
Groups(s, k) == (Len(s) + k - 1) \div k
At(s, i) == IF i <= Len(s) THEN s[i] ELSE 0

b64group(s, i) ==
  LET a == s[i]  b == At(s, i + 1)  c == At(s, i + 2) IN
  << a \div 4, (a % 4) * 16 + b \div 16,
     IF i + 1 > Len(s) THEN Pad ELSE (b % 16) * 4 + c \div 64,
     IF i + 2 > Len(s) THEN Pad ELSE c % 64 >>
b64encode(s) == FlattenSeq([g \in 1..Groups(s, 3) |-> b64group(s, 3 * g - 2)])

\* The padding is noticed one byte late; the zero byte it leaves is cut off
\* at the end, with any other zero bytes there.
b64bytes(q) ==
  LET a == [j \in 1..4 |-> IF q[j] = Pad THEN 0 ELSE q[j]]
      b == <<(a[1] * 4 + a[2] \div 16) % 256, ((a[2] * 16) % 256) + a[3] \div 4,
             ((a[3] * 64) % 256) + a[4]>>
  IN  IF q[2] = Pad THEN SubSeq(b, 1, 1) ELSE IF q[3] = Pad THEN SubSeq(b, 1, 2) ELSE b

Trimmed(s) ==
  LET keep == {n \in 0..Len(s) : \A i \in (n + 1)..Len(s) : s[i] = 0}
  IN  SubSeq(s, 1, CHOOSE n \in keep : \A k \in keep : n <= k)
b64decode(q) == Trimmed(FlattenSeq([g \in 1..Groups(q, 4) |-> b64bytes(SubSeq(q, 4 * g - 3, 4 * g))]))

-----------------------------------------------------------------------------
(* URLs.                                                                   *)

Ch(c) == CASE c = "%" -> 37 [] c = "+" -> 43 [] c = "-" -> 45 [] c = "." -> 46 [] c = "/" -> 47
           [] c = "0" -> 48 [] c = "9" -> 57 [] c = "A" -> 65 [] c = "F" -> 70 [] c = "Z" -> 90
           [] c = "_" -> 95 [] c = "a" -> 97 [] c = "f" -> 102 [] c = "z" -> 122

hexchars(d) == IF d < 10 THEN Ch("0") + d ELSE Ch("A") + d - 10
Escape(c) == <<Ch("%"), hexchars(c \div 16), hexchars(c % 16)>>

EscapedHigh(c) == c > Ch("z")
Escaped(c) ==
  /\ c # Ch("/")
  /\ \/ c < Ch("0") /\ c \notin {Ch("-"), Ch(".")}
     \/ c < Ch("A") /\ c > Ch("9")
     \/ c > Ch("Z") /\ c < Ch("a") /\ c # Ch("_")
     \/ c > Ch("z")

url_encode(s) == FlattenSeq([i \in DOMAIN s |-> IF Escaped(s[i]) THEN Escape(s[i]) ELSE <<s[i]>>])

\* Query strings: only bytes above ASCII, for their escapes are still there.
EscapedInValue(c) == c >= 128
url_value_encode(s) ==
  FlattenSeq([i \in DOMAIN s |-> IF EscapedInValue(s[i]) THEN Escape(s[i]) ELSE <<s[i]>>])

isxdigit(c) == c \in Ch("0")..Ch("9") \cup Ch("A")..Ch("F") \cup Ch("a")..Ch("f")
HexOf(c) == IF c <= Ch("9") THEN c - Ch("0") ELSE (IF c <= Ch("F") THEN c - Ch("A") ELSE c - Ch("a")) + 10
my_htoi(c, d) == HexOf(c) * 16 + HexOf(d)

\* A '%' that two hexadecimal digits do not follow stands for itself.
IsEscape(s, i) == /\ s[i] = Ch("%") /\ i + 2 <= Len(s)
                  /\ isxdigit(s[i + 1]) /\ isxdigit(s[i + 2])
url_decode(s, space2plus) ==
  LET rest[i \in 1..(Len(s) + 3)] ==
        IF i > Len(s) THEN <<>>
        ELSE IF space2plus /\ s[i] = Ch("+") THEN <<32>> \o rest[i + 1]
        ELSE IF IsEscape(s, i) THEN <<my_htoi(s[i + 1], s[i + 2])>> \o rest[i + 3]
        ELSE <<s[i]>> \o rest[i + 1]
  IN  rest[1]

-----------------------------------------------------------------------------
(* XML.                                                                    *)

Amp == 38
Semicolon == 59
EncodeHtml(c) ==
  CASE c = 39 -> <<Amp, 35, 51, 57, Semicolon>>            \* ' is &#39;
    [] c = 34 -> <<Amp, 35, 51, 52, Semicolon>>            \* " is &#34;
    [] c = Amp -> <<Amp, 97, 109, 112, Semicolon>>         \* &amp;
    [] c = 62 -> <<Amp, 103, 116, Semicolon>>              \* &gt;
    [] c = 60 -> <<Amp, 108, 116, Semicolon>>              \* &lt;
    [] OTHER -> <<c>>
htmlEncode(s) == FlattenSeq([i \in DOMAIN s |-> EncodeHtml(s[i])])

\* The entities after '&' by their letters: lt; gt; quot; apos; amp;
Entities == { <<<<108, 116, 59>>, 60>>, <<<<103, 116, 59>>, 62>>,
              <<<<113, 117, 111, 116, 59>>, 34>>, <<<<97, 112, 111, 115, 59>>, 39>>,
              <<<<97, 109, 112, 59>>, 38>> }
Named(s, i) == {e \in Entities : i + Len(e[1]) <= Len(s) /\ SubSeq(s, i + 1, i + Len(e[1])) = e[1]}

\* &#, digits and whatever else, up to the next ';': the number atoi makes of it.
atoi(s) ==
  LET v[n \in 0..Len(s)] == IF n = 0 THEN 0 ELSE v[n - 1] * 10 + s[n] - 48
      digits == {n \in 0..Len(s) : \A i \in 1..n : s[i] \in 48..57}
  IN  v[CHOOSE n \in digits : \A k \in digits : k <= n]
NumberEnd(s, i) ==
  LET ends == {j \in (i + 2)..Len(s) : s[j] = Semicolon}
  IN  IF At(s, i + 1) # 35 \/ ends = {} THEN 0 ELSE CHOOSE j \in ends : \A k \in ends : j <= k

htmlDecode(s) ==
  LET rest[i \in 1..(Len(s) + 1)] ==
        IF i > Len(s) THEN <<>>
        ELSE IF s[i] = Amp /\ Named(s, i) # {}
          THEN LET e == CHOOSE x \in Named(s, i) : TRUE IN <<e[2]>> \o rest[i + 1 + Len(e[1])]
        ELSE IF s[i] = Amp /\ NumberEnd(s, i) # 0
          THEN <<atoi(SubSeq(s, i + 2, NumberEnd(s, i) - 1)) % 256>> \o rest[NumberEnd(s, i) + 1]
        ELSE <<s[i]>> \o rest[i + 1]
  IN  rest[1]

-----------------------------------------------------------------------------
(* Properties.                                                             *)

CString == \A i \in DOMAIN text : text[i] # 0

\* What was encoded for an Authorization header decodes to the same bytes, up
\* to the zero bytes at the end that b64decode takes for padding.
Base64RoundTrip == text # <<>> => b64decode(b64encode(text)) = Trimmed(text)

\* A decoded path that is encoded again for an upstream (KUrl::GetPath) names
\* the same file there, whether or not the upstream takes '+' for a blank.
PathRoundTrip == CString =>
  \A plus \in BOOLEAN : url_decode(url_encode(text), plus) = text

\* A query string, which is forwarded without having been decoded, means the
\* same to the upstream: what is escaped does not touch the escapes in it.
QueryKeepsMeaning == CString =>
  \A plus \in BOOLEAN : url_decode(url_value_encode(text), plus) = url_decode(text, plus)

\* Any text survives being written into XML and read back, entities and half
\* entities in it included.
XmlRoundTrip == CString => htmlDecode(htmlEncode(text)) = text
=============================================================================
