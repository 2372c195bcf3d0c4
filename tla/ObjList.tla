------------------------------- MODULE ObjList -------------------------------
(***************************************************************************)
(* What an array of owned objects promises: a list into which an object    *)
(* goes before a given position, and from which one comes out of a given   *)
(* position, the others keeping their order.                               *)
(***************************************************************************)
EXTENDS Naturals, Sequences

CONSTANTS Items, NoItem

VARIABLES
  list,     \* the objects held, in order
  out       \* what the last operation handed back to its caller

vars == <<list, out>>

Init == list = <<>> /\ out = NoItem

\* An object goes in before position i, counted from zero.
Insert(x, i) ==
  /\ i <= Len(list)
  /\ list' = SubSeq(list, 1, i) \o <<x>> \o SubSeq(list, i + 1, Len(list))
  /\ out' = NoItem

\* The object at position i goes back to the caller, who owns it from now on.
Remove(i) ==
  /\ i < Len(list)
  /\ out' = list[i + 1]
  /\ list' = SubSeq(list, 1, i) \o SubSeq(list, i + 2, Len(list))

\* Asked for a position it does not have, it keeps what it holds.
Nothing == out' = NoItem /\ UNCHANGED list

Next ==
  \/ \E x \in Items, i \in 0..Len(list) : Insert(x, i)
  \/ \E i \in 0..Len(list) : Remove(i)
  \/ Nothing

Spec == Init /\ [][Next]_vars
=============================================================================
