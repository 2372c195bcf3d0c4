------------------------------ MODULE HpackTable ------------------------------
(***************************************************************************)
(* What an HPACK dynamic table promises: the newest headers first, as many *)
(* as fit into the table size.                                             *)
(***************************************************************************)
EXTENDS Integers, Sequences, SequencesExt

CONSTANTS
  Headers,     \* name and value pairs
  Weight,      \* the size of each, overhead included
  Limit        \* KGL_HTTP_V2_TABLE_SIZE

VARIABLES table, size

Total(t) == FoldLeft(LAMBDA sum, h : sum + Weight[h], 0, t)

\* The newest entries that fit into s.
Fit(t, s) ==
  LET ks == {k \in 0..Len(t) : Total(SubSeq(t, 1, k)) <= s}
  IN  SubSeq(t, 1, CHOOSE k \in ks : \A j \in ks : j <= k)

\* The table of size s after h was added.
Added(t, s, h) == IF Weight[h] > s THEN <<>> ELSE <<h>> \o Fit(t, s - Weight[h])

Init == table = <<>> /\ size = Limit

Add(h) == table' = Added(table, size, h) /\ UNCHANGED size

Resize(s) == table' = Fit(table, s) /\ size' = s

Next == (\E h \in Headers : Add(h)) \/ (\E s \in 0..Limit : Resize(s))

Spec == Init /\ [][Next]_<<table, size>>
===============================================================================
