------------------------------ MODULE ByteQueue ------------------------------
(***************************************************************************)
(* What the receive buffer of a stream promises: bytes come out in the     *)
(* order they went in, each once, until the buffer is thrown away.         *)
(***************************************************************************)
EXTENDS Naturals, Sequences

VARIABLES
  queue,    \* bytes put and not yet taken
  taken     \* bytes given to the reader so far

vars == <<queue, taken>>

Init == queue = <<>> /\ taken = <<>>

Put ==
  /\ Len(queue') > Len(queue) /\ SubSeq(queue', 1, Len(queue)) = queue
  /\ UNCHANGED taken

Take ==
  /\ Len(queue') < Len(queue)
  /\ taken' \o queue' = taken \o queue

Discard == queue' = <<>> /\ UNCHANGED taken

Next == Put \/ Take \/ Discard

Spec == Init /\ [][Next]_vars
=============================================================================
