-------------------------- MODULE KHttpHeaderManager --------------------------
(***************************************************************************)
(* The list of header fields of a request or a trailer: linked cells with a*)
(* pointer to the first (header) and to the last.  Cells made by the HTTP/1*)
(* parser point into the read buffer of the sink and move with it; the     *)
(* others have a copy of their own.  want is the list the callers mean.    *)
(***************************************************************************)
EXTENDS Naturals, Sequences, SequencesExt, FiniteSets

CONSTANTS
  Cells,       \* KHttpHeader objects
  Names,       \* field names
  MaxMoves,    \* bound: times the read buffer is moved
  Careful      \* callers of remove run iterator before the next insert

\* What is assumed of the constants.
ManagerAssumption == Cells \subseteq Nat \ {0} /\ IsFiniteSet(Cells) /\ Careful \in BOOLEAN

VARIABLES
  header, last, next,    \* 0 is NULL
  name, reoffset, buf,   \* of a cell; buf is the buffer a moving cell points into
  base,                  \* the buffer of the sink
  state,                 \* of a cell: "free", "listed" or "held" by a caller
  want, stale, crashed

vars == <<header, last, next, name, reoffset, buf, base, state, want, stale, crashed>>

Init ==
  /\ header = 0 /\ last = 0 /\ next = [c \in Cells |-> 0]
  /\ name = [c \in Cells |-> CHOOSE a \in Names : TRUE]
  /\ reoffset = [c \in Cells |-> FALSE] /\ buf = [c \in Cells |-> 0] /\ base = 0
  /\ state = [c \in Cells |-> "free"] /\ want = <<>> /\ stale = FALSE /\ crashed = FALSE

\* The cells from c on, at most n of them.
Walk[c \in Cells \cup {0}, n \in 0..Cardinality(Cells) + 1] ==
  IF c = 0 \/ n = 0 THEN <<>> ELSE <<c>> \o Walk[next[c], n - 1]
List == Walk[header, Cardinality(Cells) + 1]

-----------------------------------------------------------------------------
\* add_header, with or without a copy: the new cell (which one is no matter).
NewCell(c, a, moving) ==
  /\ state[c] = "free" /\ \A d \in Cells : state[d] = "free" => c <= d
  /\ state' = [state EXCEPT ![c] = "listed"]
  /\ name' = [name EXCEPT ![c] = a] /\ reoffset' = [reoffset EXCEPT ![c] = moving]
  /\ buf' = [buf EXCEPT ![c] = base]

\* insert: at the end.  The cell is new and zeroed.
Insert(c) ==
  /\ header' = (IF header = 0 THEN c ELSE header) /\ last' = c
  /\ next' = (IF header = 0 \/ last = 0 THEN [next EXCEPT ![c] = 0] ELSE [next EXCEPT ![c] = 0, ![last] = c])
  /\ crashed' = (header # 0 /\ last = 0)

\* append: at the beginning.
AppendCell(c) ==
  /\ next' = [next EXCEPT ![c] = header] /\ header' = c
  /\ last' = IF header = 0 THEN c ELSE last

AddTail == /\ ~crashed /\ (Careful => ~stale)
           /\ \E c \in Cells, a \in Names, m \in BOOLEAN :
                NewCell(c, a, m) /\ Insert(c) /\ want' = Append(want, c)
           /\ UNCHANGED <<base, stale>>
AddHead == /\ ~crashed
           /\ \E c \in Cells, a \in Names, m \in BOOLEAN :
                NewCell(c, a, m) /\ AppendCell(c) /\ want' = <<c>> \o want
           /\ stale' = (stale /\ header # 0)
           /\ UNCHANGED <<base, crashed>>

\* What the loop of iterator keeps, and the pointers it leaves.
KeptIfNot(s, out) == SelectSeq(s, LAMBDA c : c \notin out)
Relinked(s) == [c \in Cells |-> IF \E k \in 1..Len(s) - 1 : s[k] = c
                                THEN s[1 + (CHOOSE k \in 1..Len(s) - 1 : s[k] = c)]
                                ELSE IF s # <<>> /\ s[Len(s)] = c THEN 0 ELSE next[c]]
LastOfOld(s) == last
LastOf(s) == IF s = <<>> THEN 0 ELSE s[Len(s)]

\* iterator: the callback keeps, removes or frees each cell.
Iterator ==
  /\ ~crashed /\ List # <<>>
  /\ \E out \in SUBSET ToSet(List) : \E dead \in SUBSET out :
       LET s == KeptIfNot(List, out)
       IN  /\ header' = (IF s = <<>> THEN 0 ELSE s[1]) /\ last' = LastOf(s) /\ next' = Relinked(s)
           /\ state' = [c \in Cells |-> IF c \in dead THEN "free" ELSE IF c \in out THEN "held" ELSE state[c]]
           /\ want' = KeptIfNot(want, out)
  /\ stale' = FALSE /\ UNCHANGED <<name, reoffset, buf, base, crashed>>

\* remove: takes the first cell of a name out and leaves last at the cell
\* before it; only a walk to the end leaves last at the end.
RemoveCell(a) ==
  LET s == List
      hit == {k \in DOMAIN s : name[s[k]] = a}
      k == CHOOSE i \in hit : \A j \in hit : i <= j
      c == s[k]
  IN  IF hit = {}
      THEN last' = LastOf(s) /\ stale' = FALSE /\ UNCHANGED <<header, next, state, want>>
      ELSE /\ last' = (IF k = 1 THEN 0 ELSE s[k - 1])
           /\ header' = (IF k = 1 THEN next[c] ELSE header)
           /\ next' = (IF k = 1 THEN next ELSE [next EXCEPT ![s[k - 1]] = next[c]])
           /\ state' = [state EXCEPT ![c] = "held"]
           /\ want' = KeptIfNot(want, {c})
           /\ stale' = (next[c] # 0)
RemoveByName == /\ ~crashed /\ \E a \in Names : RemoveCell(a)
                /\ UNCHANGED <<name, reoffset, buf, base, crashed>>

\* adjust_buffer_offset, when get_read_buffer has moved the buffer.
Adjusted(c) == IF c \in ToSet(List) /\ reoffset[c] THEN base + 1 ELSE buf[c]
MoveBuffer == /\ ~crashed /\ base < MaxMoves /\ base' = base + 1
              /\ buf' = [c \in Cells |-> Adjusted(c)]
              /\ UNCHANGED <<header, last, next, name, reoffset, state, want, stale, crashed>>

\* free_header, and steal_header by a caller that frees the list.
FreeHeader == /\ ~crashed /\ header # 0
              /\ state' = [c \in Cells |-> IF c \in ToSet(List) THEN "free" ELSE state[c]]
              /\ header' = 0 /\ last' = 0 /\ want' = <<>> /\ stale' = FALSE
              /\ UNCHANGED <<next, name, reoffset, buf, base, crashed>>

\* A caller frees a cell it took out; the memory may be a new cell later.
FreeHeld == /\ ~crashed
            /\ \E c \in Cells : state[c] = "held" /\ state' = [state EXCEPT ![c] = "free"]
            /\ UNCHANGED <<header, last, next, name, reoffset, buf, base, want, stale, crashed>>

Next == AddTail \/ AddHead \/ Iterator \/ RemoveByName \/ MoveBuffer \/ FreeHeader \/ FreeHeld
Spec == Init /\ [][Next]_vars

-----------------------------------------------------------------------------
\* The cells reached from header are the fields the callers added and did not
\* take out, in their order (no field is lost by insert, append, iterator or
\* remove), and insert never finds a list without a last cell (its kassert).
FieldsKept == List = want /\ ~crashed

\* A cell that was freed is not reached from header or last again.
NoFreedCell == \A c \in ToSet(List) \cup ({last} \ {0}) : state[c] = "listed"

\* Every listed cell that points into the read buffer points into the buffer
\* the sink has now.
BuffersFollow == \A c \in ToSet(List) : reoffset[c] => buf[c] = base

\* insert: kassert(last), a list that is not empty has a last cell.
InsertHasLast == ~crashed
=============================================================================
