----------------------------- MODULE KAutoArray ------------------------------
(***************************************************************************)
(* khttpd::KAutoArray (include/KAutoArray.h), the array that holds the     *)
(* bodies of an XML node.  One object is kept in place, two and more in an *)
(* allocated block that shares its word with the single object, so every   *)
(* operation must know which of the two the word is.                       *)
(* The asserts are compiled out of a release build, which carries on:      *)
(* `failed' records that one of them did not hold.                         *)
(***************************************************************************)
EXTENDS Naturals, Sequences, FiniteSets

CONSTANTS Items, NoItem,
          MaxCount      \* bound: objects held at once

\* What is assumed of the constants.
ArrayAssumption == NoItem \notin Items /\ MaxCount \in Nat

VARIABLES
  body,     \* the single object, while count < 2
  bodys,    \* the allocated block, <<>> when there is none
  count, cap,
  out,      \* what the last call returned
  failed    \* an assert has failed

vars == <<body, bodys, count, cap, out, failed>>

Init ==
  /\ body = NoItem /\ bodys = <<>> /\ count = 0 /\ cap = 0
  /\ out = NoItem /\ failed = FALSE

Assert(p) == failed' = (failed \/ ~p)

\* get(index), and first() and last() with it.
get(i) == IF i >= count THEN NoItem ELSE IF count = 1 THEN body ELSE bodys[i + 1]

Held == {get(i) : i \in 0..(count - 1)}

\* kgl_realloc to n words: what fits is kept, the rest is not initialised.
Realloc(n) == [k \in 1..n |-> IF k <= Len(bodys) THEN bodys[k] ELSE NoItem]

(* insert: last_pos is the position "at the end", here one past MaxCount.  *)
last_pos == MaxCount + 1

InsertFirst(x) ==
  /\ count = 0 /\ Assert(cap = 0)
  /\ body' = x /\ count' = 1
  /\ UNCHANGED <<bodys, cap>>

InsertSecond(x, i) ==
  /\ count = 1 /\ Assert(cap = 0)
  /\ bodys' = IF i = 0 THEN <<x, body>> ELSE <<body, x>>
  /\ cap' = 2 /\ count' = 2 /\ body' = NoItem

Grown == IF count = cap THEN cap * 2 ELSE cap

\* memmove by one word towards the end, from position i on.
Opened(b, i, x) ==
  [k \in 1..Len(b) |-> IF k <= i THEN b[k] ELSE IF k = i + 1 THEN x
                       ELSE IF k <= count + 1 THEN b[k - 1] ELSE b[k]]

InsertMore(x, i) ==
  /\ count >= 2 /\ Assert(count <= cap)
  /\ cap' = Grown
  /\ LET b == Realloc(Grown) IN
       IF i = last_pos \/ i <= count
         THEN /\ bodys' = Opened(b, IF i = last_pos THEN count ELSE i, x)
              /\ count' = count + 1
         ELSE bodys' = b /\ UNCHANGED count      \* out of range: x is deleted
  /\ UNCHANGED body

Insert(x, i) ==
  /\ x \notin Held /\ count < MaxCount
  /\ InsertFirst(x) \/ InsertSecond(x, i) \/ InsertMore(x, i)
  /\ out' = NoItem

\* No memory for the block: the new object is deleted, the old ones stay.
InsertNoMemory ==
  /\ count = 1 \/ (count >= 2 /\ count = cap)
  /\ IF count = 1 THEN Assert(cap = 0) /\ cap' = 2
                  ELSE Assert(count <= cap) /\ UNCHANGED cap
  /\ out' = NoItem /\ UNCHANGED <<body, bodys, count>>

Missing(i) == i >= count /\ out' = NoItem /\ UNCHANGED <<body, bodys, count, cap, failed>>

RemoveOnly ==
  /\ count = 1 /\ Assert(cap = 0)
  /\ out' = body /\ body' = NoItem /\ count' = 0
  /\ UNCHANGED <<bodys, cap>>

\* One of two leaves: the block is freed and the other one kept in place.
RemoveOfTwo(i) ==
  /\ count = 2 /\ Assert(cap >= 2)
  /\ out' = bodys[i + 1] /\ body' = bodys[2 - i]
  /\ bodys' = <<>> /\ count' = 1

ClosedLate(i) ==
  [k \in 1..Len(bodys) |-> IF k > i + 1 /\ k < count THEN bodys[k + 1] ELSE bodys[k]]
Closed(i) ==
  [k \in 1..Len(bodys) |-> IF k > i /\ k < count THEN bodys[k + 1] ELSE bodys[k]]

remove(i) ==
  \/ Missing(i)
  \/ i < count /\ RemoveOnly
  \/ i < count /\ RemoveOfTwo(i) /\ UNCHANGED cap
  \/ /\ i < count /\ count > 2
     /\ out' = bodys[i + 1] /\ bodys' = Closed(i) /\ count' = count - 1
     /\ UNCHANGED <<body, cap, failed>>

remove_last ==
  \/ count = 0 /\ Missing(0)
  \/ RemoveOnly
  \/ RemoveOfTwo(1) /\ cap' = 0
  \/ /\ count > 2 /\ Assert(cap >= count)
     /\ out' = bodys[count] /\ count' = count - 1
     /\ UNCHANGED <<body, bodys, cap>>

shrink_to_fit ==
  /\ count >= 2 /\ count # cap
  /\ bodys' = Realloc(count) /\ cap' = count
  /\ out' = NoItem /\ UNCHANGED <<body, count, failed>>

Next ==
  \/ \E x \in Items, i \in 0..last_pos : Insert(x, i)
  \/ InsertNoMemory
  \/ \E i \in 0..MaxCount : remove(i)
  \/ remove_last
  \/ shrink_to_fit

Spec == Init /\ [][Next]_vars

-----------------------------------------------------------------------------
(* Properties.                                                             *)

List == INSTANCE ObjList WITH list <- [k \in 1..count |-> get(k - 1)], out <- out

\* Through every change between the single object and the block, and through
\* every growth and shrinking of the block, the array is a list: what goes in
\* at a position is found there, and nothing is lost, doubled or reordered.
ArrayIsList == List!Spec

\* A write into the block stays inside what was allocated: the capacity the
\* next insert relies on is never more than the block has.
BlockHoldsCapacity == count >= 2 => count <= cap /\ cap <= Len(bodys)

\* The asserts of insert, remove and remove_last: an array of fewer than two
\* objects has no capacity, a larger one has at least what it holds.
AssertsHold == ~failed
=============================================================================
