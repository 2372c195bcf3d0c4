----------------------------- MODULE KHttp2Table -----------------------------
(***************************************************************************)
(* The decoder's HPACK table as KHttp2Table.cpp keeps it: a ring of        *)
(* pointers to entry objects (entries, added, deleted, reused, allocated), *)
(* objects that are used again, and a byte ring (storage, pos) that holds  *)
(* the names and values, wrapped around its end.                           *)
(***************************************************************************)
EXTENDS Integers, Sequences, SequencesExt, FiniteSets

CONSTANTS
  Headers, NameLen, ValueLen,
  TableSize,     \* KGL_HTTP_V2_TABLE_SIZE
  Sizes,         \* sizes the peer sets
  Overhead,      \* 32
  Chunk,         \* 64: slots allocated at a time
  MaxAdded,      \* bound: headers added since the ring was made or grown
  EarlyResize    \* the peer may change the size before it adds a header

\* What is assumed of the constants.
TableAssumption ==
  /\ NameLen \in [Headers -> Nat] /\ ValueLen \in [Headers -> Nat]
  /\ TableSize \in Nat \ {0} /\ Sizes \subseteq 0..TableSize /\ Overhead \in Nat \ {0} /\ Chunk \in Nat \ {0}
  /\ MaxAdded \in Nat /\ EarlyResize \in BOOLEAN

VARIABLES hpack
vars == hpack

\* entries[i] is a number of an object; 0 in a slot nobody has written.
Init == hpack = [made |-> FALSE, allocated |-> 0, entries |-> <<>>, objects |-> <<>>,
                 added |-> 0, deleted |-> 0, reused |-> 0, size |-> 0, free |-> 0,
                 storage |-> <<>>, pos |-> 0]

Slot(h, i) == h.entries[(i % h.allocated) + 1]
Object(h, i) == h.objects[Slot(h, i)]
EntryWeight(e) == Overhead + e.name_len + e.value_len

-----------------------------------------------------------------------------
\* The bytes of a string of n bytes at offset p of the ring.
Bytes(h, p, n) == [i \in 1..n |-> h.storage[((p + i - 1) % TableSize) + 1]]

NameBytes(x) == [i \in 1..NameLen[x] |-> <<x, "name", i>>]
ValueBytes(x) == [i \in 1..ValueLen[x] |-> <<x, "value", i>>]

\* get_indexed_header: what a dynamic index (1 is the newest) reads.
get_indexed_header(h, index) ==
  LET e == Object(h, h.added - index)
      name == Bytes(h, e.name_at, e.name_len)
      value == Bytes(h, e.value_at, e.value_len)
      hits == {x \in Headers : NameBytes(x) = name /\ ValueBytes(x) = value}
  IN  IF hits = {} THEN "garbage" ELSE CHOOSE x \in hits : TRUE

-----------------------------------------------------------------------------
\* Evict from the oldest until n bytes are free.
EvictFor(h, n) ==
  LET freed(k) == h.free + FoldLeft(LAMBDA s, i : s + EntryWeight(Object(h, h.deleted + i - 1)), 0,
                                    [i \in 1..k |-> i])
      ks == {k \in 0..(h.added - h.deleted) : freed(k) >= n}
      k == CHOOSE i \in ks : \A j \in ks : i <= j
  IN  [h EXCEPT !.deleted = @ + k, !.free = freed(k)]

\* table_size(s).
TableResize(s) ==
  LET needed == hpack.size - s
      h == IF needed > hpack.free THEN EvictFor(hpack, needed) ELSE hpack
  IN  [h EXCEPT !.size = s, !.free = @ - needed]

Resize(s) ==
  /\ hpack.made \/ EarlyResize
  /\ hpack' = TableResize(s)

\* The first header makes the ring.
Made(h) ==
  IF h.made THEN h
  ELSE [h EXCEPT !.made = TRUE, !.allocated = Chunk, !.entries = [i \in 1..Chunk |-> 0],
                 !.size = TableSize, !.free = TableSize,
                 !.storage = [i \in 1..TableSize |-> <<>>], !.pos = 0]

\* table_account, for a header that is not larger than the table.
table_account(h, n) == IF n <= h.free THEN [h EXCEPT !.free = @ - n]
                       ELSE [EvictFor(h, n) EXCEPT !.free = @ - n]

\* An object for the entry: one that was evicted, or a new one.
TakeObject(h) ==
  IF h.reused = h.deleted THEN [id |-> Len(h.objects) + 1, reused |-> h.reused]
  ELSE [id |-> Slot(h, h.reused), reused |-> h.reused + 1]

CopyFlat(storage, p, bs) ==
  [i \in 1..TableSize |-> IF i > p /\ i - p <= Len(bs) THEN bs[i - p] ELSE storage[i]]

\* The string bs is copied to pos, and wrapped around the end.
CopyTo(storage, p, bs) ==
  [i \in 1..TableSize |-> LET d == (i - 1 + TableSize - p) % TableSize
                          IN  IF d < Len(bs) THEN bs[d + 1] ELSE storage[i]]
After(p, n) == LET q == p + n IN IF q > TableSize THEN q - TableSize ELSE q

\* A full ring is copied to a larger one, unrolled.
Grow(h) ==
  IF h.allocated # h.added - h.deleted THEN h
  ELSE LET at == h.deleted % h.allocated
       IN  [h EXCEPT !.entries = SubSeq(@, at + 1, h.allocated) \o SubSeq(@, 1, at)
                                 \o [i \in 1..Chunk |-> 0],
                     !.added = h.allocated, !.deleted = 0, !.reused = 0, !.allocated = @ + Chunk]

\* add_header after table_account: the strings, the object, the slot.
Insert(h, x) ==
  LET o == TakeObject(h)
      value_at == After(h.pos, NameLen[x])
      e == [name_len |-> NameLen[x], name_at |-> h.pos,
            value_len |-> ValueLen[x], value_at |-> value_at]
      filled == CopyTo(CopyTo(h.storage, h.pos, NameBytes(x)), value_at, ValueBytes(x))
      g == Grow([h EXCEPT !.reused = o.reused, !.storage = filled,
                   !.pos = After(value_at, ValueLen[x]),
                   !.objects = IF o.id > Len(@) THEN Append(@, e)
                               ELSE [i \in 1..Len(@) |-> IF i = o.id THEN e ELSE h.objects[i]]])
  IN  [g EXCEPT !.entries = [i \in 1..g.allocated |->
                    IF i = (g.added % g.allocated) + 1 THEN o.id ELSE g.entries[i]],
                !.added = @ + 1]

AddHeader(x) ==
  LET h == Made(hpack)
      n == NameLen[x] + ValueLen[x] + Overhead
  IN  /\ hpack.added < MaxAdded
      /\ hpack' = IF n > h.size /\ n > h.free THEN [h EXCEPT !.deleted = h.added, !.free = h.size]
                  ELSE Insert(table_account(h, n), x)

Next == (\E x \in Headers : AddHeader(x)) \/ (\E s \in Sizes : Resize(s))
Spec == Init /\ [][Next]_vars

-----------------------------------------------------------------------------
Table == INSTANCE HpackTable WITH
  Limit <- TableSize,
  Weight <- [x \in Headers \cup {"garbage"} |->
               IF x = "garbage" THEN 0 ELSE NameLen[x] + ValueLen[x] + Overhead],
  size <- IF hpack.made THEN hpack.size ELSE TableSize,
  table <- [i \in 1..(hpack.added - hpack.deleted) |-> get_indexed_header(hpack, i)]

\* What get_indexed_header finds through the ring, the used-again objects and the
\* wrapped bytes is the table the peer's encoder keeps.
KeepsTable == Table!Spec

\* A size update is logged as the "new hpack table size": the table
\* keeps it until the next one.
ResizeHolds == [][hpack.size \notin {0, hpack'.size} => \E s \in Sizes : Resize(s)]_vars
==============================================================================
