------------------------------ MODULE SendQueue ------------------------------
(***************************************************************************)
(* What the output side of a connection promises to the fibers that write  *)
(* through it: bytes reach the socket in the order they were accepted, and *)
(* a writer is told of success only when its last byte is on the wire.     *)
(***************************************************************************)
EXTENDS Naturals, Sequences

CONSTANTS Writers

VARIABLES
  accepted,     \* every byte handed over so far, in order
  wire,         \* what the socket has taken
  owed,         \* the position of each sleeping writer's last byte, 0 if none
  broken        \* the connection failed: what is left will not be sent

vars == <<accepted, wire, owed, broken>>

Init ==
  /\ accepted = <<>> /\ wire = <<>>
  /\ owed = [w \in Writers |-> 0] /\ broken = FALSE

\* Bytes nobody waits for (W = {}), or those of one writer that now sleeps.
Accept(W) ==
  /\ ~broken /\ Len(accepted') > Len(accepted)
  /\ SubSeq(accepted', 1, Len(accepted)) = accepted
  /\ \A w \in W : owed[w] = 0
  /\ owed' = [w \in Writers |-> IF w \in W THEN Len(accepted') ELSE owed[w]]
  /\ UNCHANGED <<wire, broken>>

Transmit ==
  /\ ~broken /\ Len(wire') > Len(wire) /\ Len(wire') <= Len(accepted)
  /\ wire' = SubSeq(accepted, 1, Len(wire'))
  /\ UNCHANGED <<accepted, owed, broken>>

Complete(w) ==
  /\ ~broken /\ owed[w] # 0 /\ owed[w] <= Len(wire)
  /\ owed' = [owed EXCEPT ![w] = 0]
  /\ UNCHANGED <<accepted, wire, broken>>

Break ==
  /\ ~broken /\ broken' = TRUE
  /\ UNCHANGED <<accepted, wire, owed>>

Fail(w) ==
  /\ broken /\ owed[w] # 0
  /\ owed' = [owed EXCEPT ![w] = 0]
  /\ UNCHANGED <<accepted, wire, broken>>

Next ==
  \/ Accept({})
  \/ Transmit
  \/ Break
  \/ \E w \in Writers : Accept({w}) \/ Complete(w) \/ Fail(w)

Spec == Init /\ [][Next]_vars
=============================================================================
