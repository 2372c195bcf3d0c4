---------------------------- MODULE KHttpTimeText ----------------------------
(***************************************************************************)
(* How kgl_parse_http_time (src/KHttpLib.cpp) walks over its text.  The    *)
(* text has a length and no end mark, and the length is compared at three  *)
(* places only; between them characters are read one after the other.  The *)
(* characters are not known: every test of one may turn out either way.    *)
(* What the fields mean is in KHttpTime.                                   *)
(***************************************************************************)
EXTENDS Integers, Sequences

CONSTANT MaxLen      \* bound: characters of the text

VARIABLES
  left,     \* end - p: characters from the cursor on
  fmt,      \* "nofmt", "rfc822", "rfc850" or "isoc"
  field,    \* what is read next
  outside   \* a character behind the end has been read

vars == <<left, fmt, field, outside>>

\* Up to a comma or the first blank, and over the blanks that follow; with
\* neither in the text the cursor ends up one past the end.
Init ==
  /\ left \in -1..MaxLen /\ fmt \in {"nofmt", "isoc"}
  /\ field = "start" /\ outside = FALSE

\* k characters from the cursor on are read.
Reads(k) == outside' = (outside \/ (k > 0 /\ k > left))
Refuse == field' = "refused" /\ UNCHANGED <<left, fmt>>

\* At field f: k characters are read; refuse, or move on by m to field g.
Field(f, k, m, g) ==
  /\ field = f /\ Reads(k)
  /\ Refuse \/ (left' = left - m /\ field' = g /\ UNCHANGED fmt)

TooShort == left < 18
Start ==
  /\ field = "start" /\ Reads(0)
  /\ IF TooShort THEN Refuse
     ELSE field' = (IF fmt = "isoc" THEN "month" ELSE "day") /\ UNCHANGED <<left, fmt>>

\* Two digits, then the character that tells RFC 822 from RFC 850.
Day ==
  /\ field = "day" /\ Reads(3)
  /\ \/ Refuse
     \/ IF left - 2 < 18 THEN Refuse
        ELSE left' = left - 3 /\ fmt' = "rfc822" /\ field' = "month"
     \/ left' = left - 3 /\ fmt' = "rfc850" /\ field' = "month"

\* Three letters and the character after them, which a date of asctime does
\* not look at.
Month ==
  \/ fmt # "isoc" /\ Field("month", 4, 4, "year")
  \/ fmt = "isoc" /\ Field("month", 3, 4, "blank")

Year == Field("year", IF fmt = "rfc822" THEN 4 ELSE 2, IF fmt = "rfc822" THEN 4 ELSE 2, "hour")

\* The day of asctime: perhaps a blank, a digit, perhaps a second one.
Blank == field = "blank" /\ \E m \in {0, 1} : Field("blank", 1, m, "digit")
Digit == Field("digit", 2, 1, "digit2") \/ Field("digit", 2, 2, "digit2")
Digit2 ==
  /\ field = "digit2" /\ Reads(0)
  /\ IF left < 14 THEN Refuse ELSE field' = "hour" /\ UNCHANGED <<left, fmt>>

Hour == Field("hour", 3, 3, "minute")              \* ' ' and two digits
Minute == Field("minute", 3, 3, "second")          \* ':' and two digits
Second == Field("second", 3, 3, IF fmt = "isoc" THEN "lastyear" ELSE "accepted")
LastYear == Field("lastyear", 5, 5, "accepted")    \* ' ' and four digits

Next ==
  \/ Start \/ Day \/ Month \/ Year \/ Blank \/ Digit \/ Digit2
  \/ Hour \/ Minute \/ Second \/ LastYear

Spec == Init /\ [][Next]_vars

-----------------------------------------------------------------------------
(* Properties.                                                             *)

\* Whatever the characters are, the three comparisons of the length are
\* enough: no character behind the end is read, in any of the formats.
ReadsInside == ~outside
=============================================================================
