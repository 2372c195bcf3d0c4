------------------------------ MODULE KHttpTime ------------------------------
(***************************************************************************)
(* What kgl_parse_http_time (src/KHttpLib.cpp) makes of the fields of a    *)
(* date: which dates it accepts, which year a two-digit year is, which     *)
(* month three letters are, and the days since 1970 by Gauss' formula.     *)
(* It is checked against a calendar that is walked day by day from         *)
(* 1 January 1970, forwards and backwards.  Seconds are left out: their    *)
(* part is a sum, and 64 bits do not overflow.                             *)
(***************************************************************************)
EXTENDS Integers, Sequences

CONSTANTS FirstYear, LastYear    \* bounds: the years walked

\* What is assumed of the constants.
YearAssumption ==
  FirstYear \in 1..1970 /\ LastYear \in Nat /\ LastYear >= 1970

VARIABLES year, month, day,      \* the date; months count from 0
          n                      \* its distance in days from 1 January 1970

vars == <<year, month, day, n>>

-----------------------------------------------------------------------------
(* The parser.                                                             *)

mday == <<31, 28, 31, 30, 31, 30, 31, 31, 30, 31, 30, 31>>

months == << <<"J","a","n">>, <<"F","e","b">>, <<"M","a","r">>, <<"A","p","r">>,
             <<"M","a","y">>, <<"J","u","n">>, <<"J","u","l">>, <<"A","u","g">>,
             <<"S","e","p">>, <<"O","c","t">>, <<"N","o","v">>, <<"D","e","c">> >>

\* The month is told by as few letters as will do.
MonthOf(s) ==
  CASE s[1] = "J" -> (IF s[2] = "a" THEN 0 ELSE IF s[3] = "n" THEN 5 ELSE 6)
    [] s[1] = "F" -> 1
    [] s[1] = "M" -> (IF s[3] = "r" THEN 2 ELSE 4)
    [] s[1] = "A" -> (IF s[2] = "p" THEN 3 ELSE 7)
    [] s[1] = "S" -> 8
    [] s[1] = "O" -> 9
    [] s[1] = "N" -> 10
    [] s[1] = "D" -> 11

\* The year of an RFC 850 date.
Year850(yy) == yy + (IF yy < 70 THEN 2000 ELSE 1900)

Accepts(y, m, d) ==
  IF d = 29 /\ m = 1 THEN ~(y % 4 # 0 \/ (y % 100 = 0 /\ y % 400 # 0))
  ELSE d <= mday[m + 1]

\* The year starts in March, months count from 1.
ShiftedLate(y, m) == IF m - 1 < 0 THEN <<y - 1, m - 1 + 12>> ELSE <<y, m - 1>>
Shifted(y, m) == IF m - 1 <= 0 THEN <<y - 1, m - 1 + 12>> ELSE <<y, m - 1>>

Days(y, m, d) ==
  LET s == Shifted(y, m) IN
    365 * s[1] + s[1] \div 4 - s[1] \div 100 + s[1] \div 400
    + (367 * s[2]) \div 12 - 30 + d - 1 - 719527 + 31 + 28

-----------------------------------------------------------------------------
(* The calendar.                                                           *)

Leap(y) == IF y % 100 = 0 THEN y % 400 = 0 ELSE y % 4 = 0
DaysIn(y, m) == IF m = 1 THEN (IF Leap(y) THEN 29 ELSE 28)
                ELSE IF m \in {3, 5, 8, 10} THEN 30 ELSE 31

Init == year = 1970 /\ month = 0 /\ day = 1 /\ n = 0

Tomorrow ==
  /\ n >= 0 /\ year <= LastYear /\ n' = n + 1
  /\ IF day < DaysIn(year, month) THEN day' = day + 1 /\ UNCHANGED <<year, month>>
     ELSE /\ day' = 1 /\ month' = (month + 1) % 12
          /\ year' = IF month = 11 THEN year + 1 ELSE year

Yesterday ==
  /\ n <= 0 /\ year >= FirstYear /\ n' = n - 1
  /\ IF day > 1 THEN day' = day - 1 /\ UNCHANGED <<year, month>>
     ELSE /\ month' = (month + 11) % 12
          /\ year' = IF month = 0 THEN year - 1 ELSE year
          /\ day' = DaysIn(year', month')

Next == Tomorrow \/ Yesterday

Spec == Init /\ [][Next]_vars

-----------------------------------------------------------------------------
(* Properties.                                                             *)

\* Gauss' formula counts the days: every date is one day after the date
\* before it, through the ends of months, leap years and centuries.
CountsDays == Days(year, month, day) = n

\* The parser accepts the days a month has and no later ones.
AcceptsDates == \A d \in 1..40 : Accepts(year, month, d) <=> d <= DaysIn(year, month)

\* A date printed with two digits of its year, or three letters of its month,
\* is read as the same date, if it lies in the hundred years from 1970.
ReadsBack ==
  /\ MonthOf(months[month + 1]) = month
  /\ year \in 1970..2069 => Year850(year % 100) = year
=============================================================================
