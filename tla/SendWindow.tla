------------------------------ MODULE SendWindow ------------------------------
(***************************************************************************)
(* What flow control promises the peer.  A byte is sent only against       *)
(* credit on its stream and on the connection, and is taken off both.      *)
(* Credit comes from the peer alone; the sender may forgo some of what     *)
(* new settings grant, but never invents any, and gives no stream more     *)
(* than MaxWindow.                                                         *)
(***************************************************************************)
EXTENDS Integers

CONSTANTS Streams, Increments, MaxWindow, DefaultWindow

VARIABLES
  conn,      \* credit of the connection
  initial,   \* credit of a stream that is opened
  open,      \* streams that have a window
  win        \* their credit, 0 for the others

vars == <<conn, initial, open, win>>

Init ==
  /\ conn = DefaultWindow /\ initial = DefaultWindow
  /\ open = {} /\ win = [s \in Streams |-> 0]

Open(s) ==
  /\ s \notin open
  /\ open' = open \cup {s}
  /\ win' = [win EXCEPT ![s] = initial]
  /\ UNCHANGED <<conn, initial>>

Close ==
  /\ open' \subseteq open
  /\ win' = [s \in Streams |-> IF s \in open' THEN win[s] ELSE 0]
  /\ UNCHANGED <<conn, initial>>

\* n bytes of new credit for s, and m bytes sent against what it then has.
GrantAndSend(s, n, m) ==
  /\ s \in open
  /\ win[s] + n <= MaxWindow
  /\ m = 0 \/ (m <= win[s] + n /\ m <= conn)
  /\ win' = [win EXCEPT ![s] = @ + n - m]
  /\ conn' = conn - m
  /\ UNCHANGED <<open, initial>>

GrantConnection(n) ==
  /\ conn + n <= MaxWindow
  /\ conn' = conn + n
  /\ UNCHANGED <<open, win, initial>>

\* The credit of a new stream changes, and that of the open ones with it.
Settings ==
  /\ initial' \in 0..MaxWindow
  /\ \A s \in open : /\ win'[s] <= MaxWindow
                     /\ win'[s] - win[s] <= initial' - initial
  /\ win' = [s \in Streams |-> IF s \in open THEN win'[s] ELSE 0]
  /\ UNCHANGED <<conn, open>>

Next ==
  \/ \E s \in Streams : Open(s)
  \/ Close
  \/ \E s \in Streams, n \in Increments \cup {0} :
       \E m \in 0..conn : GrantAndSend(s, n, m)
  \/ \E n \in Increments : GrantConnection(n)
  \/ Settings

Spec == Init /\ [][Next]_vars
=============================================================================
