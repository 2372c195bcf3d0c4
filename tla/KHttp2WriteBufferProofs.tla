------------------------ MODULE KHttp2WriteBufferProofs ------------------------
(***************************************************************************)
(* The write buffer of an HTTP/2 connection: proofs that it implements     *)
(* SendQueue (SendsAlwaysInOrder) and that its views of what is unsent     *)
(* agree (BufferAlwaysConsistent), for all values of the constants.        *)
(*                                                                         *)
(* Both rest on one inductive invariant, BInv.  Its core is Splits: what   *)
(* was pushed is the wire followed by the bytes of the list, the first got *)
(* of which are on the wire already.  Lists of buffers are compared by     *)
(* their bytes (Out), a writer's note by the last byte of the buffer it is *)
(* on (NotedAt), which no step of readSuccess moves.                       *)
(***************************************************************************)
EXTENDS KHttp2WriteBuffer, FiniteSetTheorems, TLAPS

-----------------------------------------------------------------------------
(* Sequences: sums of lengths, concatenation, FlattenSeq.  A fact about a  *)
(* recursive function is proved by counting up to the length (NatInSet).   *)

(* Induction, by counting: a number outside S would let S \cap 0..n be     *)
(* mapped one to one into itself without 0.                                *)
LEMMA NatInSet ==
    ASSUME NEW S, 0 \in S, \A n \in Nat : n \in S => n + 1 \in S
    PROVE  Nat \subseteq S
<1>1. SUFFICES ASSUME NEW n \in Nat, n \notin S PROVE FALSE
  OBVIOUS
<1> DEFINE D == S \cap (0..n)
<1> DEFINE f == [x \in D |-> x + 1]
<1>2. IsFiniteSet(D)
  <2>1. IsFiniteSet(0..n) BY FS_Interval
  <2> QED BY <2>1, FS_Subset
<1>3. IsFiniteSet(D \ {0}) /\ Cardinality(D \ {0}) = Cardinality(D) - 1 /\ Cardinality(D) \in Nat
  <2>1. 0 \in D OBVIOUS
  <2> HIDE DEF D
  <2> QED BY <1>2, <2>1, FS_RemoveElement, FS_CardinalityType
<1>4. f \in [D -> D \ {0}]
  BY <1>1
<1>5. \A x, y \in D : x # y => f[x] # f[y]
  OBVIOUS
<1> HIDE DEF D, f
<1>6. Cardinality(D \ {0}) < Cardinality(D)
  BY <1>3
<1> QED BY <1>2, <1>3, <1>4, <1>5, <1>6, FS_PigeonHole

-----------------------------------------------------------------------------
(* Sums *)

\* g are the sums of the first 0..n of ns.
Summing(g, ns, n) ==
    g[0] = 0 /\ \A i \in 1..n : g[i] = g[i - 1] + ns[i]

LEMMA SumsExist ==
    ASSUME NEW ns \in Seq(Nat), NEW n \in 0..Len(ns)
    PROVE  \E g \in [0..n -> Nat] : Summing(g, ns, n)
<1> DEFINE S == {m \in Nat : m <= Len(ns) => \E g \in [0..m -> Nat] : Summing(g, ns, m)}
<1>1. 0 \in S
  <2>1. [i \in 0..0 |-> 0] \in [0..0 -> Nat] /\ Summing([i \in 0..0 |-> 0], ns, 0)
    BY DEF Summing
  <2> QED BY <2>1
<1>2. ASSUME NEW m \in Nat, m \in S PROVE m + 1 \in S
  <2>1. SUFFICES ASSUME m + 1 <= Len(ns)
                 PROVE  \E g \in [0..(m + 1) -> Nat] : Summing(g, ns, m + 1)
    OBVIOUS
  <2>2. PICK g \in [0..m -> Nat] : Summing(g, ns, m)
    BY <1>2, <2>1
  <2> DEFINE h == [i \in 0..(m + 1) |-> IF i = m + 1 THEN g[m] + ns[m + 1] ELSE g[i]]
  <2>3. ns[m + 1] \in Nat
    BY <2>1
  <2>4. h \in [0..(m + 1) -> Nat]
    BY <2>3
  <2>5. h[0] = 0 /\ h[m + 1] = g[m] + ns[m + 1]
    BY <2>2 DEF Summing
  <2>6. ASSUME NEW i \in 1..(m + 1) PROVE h[i] = h[i - 1] + ns[i]
    <3>1. CASE i = m + 1
      <4>1. h[i - 1] = g[m]
        BY <3>1
      <4> QED BY <2>5, <3>1, <4>1
    <3>2. CASE i # m + 1
      <4>1. i \in 1..m /\ i - 1 \in 0..m
        BY <3>2
      <4>2. h[i] = g[i] /\ h[i - 1] = g[i - 1]
        BY <4>1
      <4> QED BY <2>2, <4>1, <4>2 DEF Summing
    <3> QED BY <3>1, <3>2
  <2> HIDE DEF h
  <2> QED BY <2>4, <2>5, <2>6 DEF Summing
<1>3. Nat \subseteq S
  <2> HIDE DEF S
  <2> QED BY <1>1, <1>2, NatInSet
<1> QED BY <1>3

LEMMA SumsFacts ==
    ASSUME NEW ns \in Seq(Nat)
    PROVE  /\ \A i \in 0..Len(ns) : Sums(ns)[i] \in Nat
           /\ Sums(ns)[0] = 0
           /\ \A i \in 1..Len(ns) : Sums(ns)[i] = Sums(ns)[i - 1] + ns[i]
<1> DEFINE G(g) == g = [i \in 0..Len(ns) |-> IF i = 0 THEN 0 ELSE g[i - 1] + ns[i]]
<1>1. Sums(ns) = CHOOSE g : G(g)
  BY DEF Sums
<1>2. PICK g \in [0..Len(ns) -> Nat] : Summing(g, ns, Len(ns))
  BY SumsExist
<1>3. G(g)
  BY <1>2 DEF Summing
<1>4. G(Sums(ns))
  <2> HIDE DEF G
  <2> QED BY <1>1, <1>3
<1> DEFINE s == Sums(ns)
<1>5. s[0] = 0 /\ \A i \in 1..Len(ns) : s[i] = s[i - 1] + ns[i]
  <2> HIDE DEF s
  <2>1. s = [i \in 0..Len(ns) |-> IF i = 0 THEN 0 ELSE s[i - 1] + ns[i]]
    BY <1>4 DEF s
  <2>2. Len(ns) \in Nat /\ 0 \in 0..Len(ns)
    OBVIOUS
  <2>3. s[0] = 0
    BY <2>1, <2>2
  <2>4. \A i \in 1..Len(ns) : i \in 0..Len(ns) /\ i # 0
    BY <2>2
  <2>5. \A i \in 1..Len(ns) : s[i] = s[i - 1] + ns[i]
    BY <2>1, <2>4
  <2> QED BY <2>3, <2>5
<1> DEFINE S == {m \in Nat : m <= Len(ns) => Sums(ns)[m] \in Nat}
<1>6. 0 \in S
  BY <1>5
<1>7. ASSUME NEW m \in Nat, m \in S PROVE m + 1 \in S
  <2>1. m + 1 <= Len(ns) => ns[m + 1] \in Nat
    OBVIOUS
  <2> QED BY <1>5, <1>7, <2>1
<1>8. Nat \subseteq S
  <2> HIDE DEF S
  <2> QED BY <1>6, <1>7, NatInSet
<1> QED BY <1>5, <1>8

\* What concatenation returns.
LEMMA CatFacts ==
    ASSUME NEW E, NEW a \in Seq(E), NEW b \in Seq(E)
    PROVE  /\ a \o b \in Seq(E) /\ Len(a \o b) = Len(a) + Len(b)
           /\ Len(a) \in Nat /\ Len(b) \in Nat
           /\ \A i \in 1..Len(a) : (a \o b)[i] = a[i]
           /\ \A i \in 1..Len(b) : (a \o b)[Len(a) + i] = b[i]
OBVIOUS

\* Sequences of the same length and elements are equal.
LEMMA SameSeq ==
    ASSUME NEW E, NEW a \in Seq(E), NEW b \in Seq(E), Len(a) = Len(b),
           \A i \in 1..Len(a) : a[i] = b[i]
    PROVE  a = b
OBVIOUS

LEMMA CatAssoc ==
    ASSUME NEW E, NEW a \in Seq(E), NEW b \in Seq(E), NEW c \in Seq(E)
    PROVE  (a \o b) \o c = a \o (b \o c)
OBVIOUS

-----------------------------------------------------------------------------
(* FlattenSeq *)

\* g are the concatenations of the first 1..n of ss.
Flattening(g, ss, n) ==
    g[1] = ss[1] /\ \A i \in 2..n : g[i] = g[i - 1] \o ss[i]

LEMMA FlatteningExists ==
    ASSUME NEW E, NEW ss \in Seq(Seq(E)), ss # <<>>
    PROVE  \E g \in [1..Len(ss) -> Seq(E)] : Flattening(g, ss, Len(ss))
<1> DEFINE S == {m \in Nat : m + 1 <= Len(ss) =>
                    \E g \in [1..(m + 1) -> Seq(E)] : Flattening(g, ss, m + 1)}
<1>1. 0 \in S
  <2>1. ss[1] \in Seq(E)
    OBVIOUS
  <2>2. [i \in 1..1 |-> ss[1]] \in [1..1 -> Seq(E)] /\ Flattening([i \in 1..1 |-> ss[1]], ss, 1)
    BY <2>1 DEF Flattening
  <2> QED BY <2>2
<1>2. ASSUME NEW m \in Nat, m \in S PROVE m + 1 \in S
  <2>1. SUFFICES ASSUME m + 2 <= Len(ss)
                 PROVE  \E g \in [1..(m + 2) -> Seq(E)] : Flattening(g, ss, m + 2)
    OBVIOUS
  <2>2. PICK g \in [1..(m + 1) -> Seq(E)] : Flattening(g, ss, m + 1)
    BY <1>2, <2>1
  <2> DEFINE h == [i \in 1..(m + 2) |-> IF i = m + 2 THEN g[m + 1] \o ss[m + 2] ELSE g[i]]
  <2>3. ss[m + 2] \in Seq(E)
    BY <2>1
  <2>4. g[m + 1] \o ss[m + 2] \in Seq(E)
    BY <2>3
  <2>5. h \in [1..(m + 2) -> Seq(E)]
    BY <2>4
  <2>6. h[1] = ss[1]
    BY <2>2 DEF Flattening
  <2>7. ASSUME NEW i \in 2..(m + 2) PROVE h[i] = h[i - 1] \o ss[i]
    <3>1. CASE i = m + 2
      <4>1. h[i - 1] = g[m + 1]
        BY <3>1
      <4>2. h[m + 2] = g[m + 1] \o ss[m + 2]
        <5>1. m + 2 \in 1..(m + 2)
          OBVIOUS
        <5> QED BY <5>1
      <4> HIDE DEF h
      <4> QED BY <3>1, <4>1, <4>2
    <3>2. CASE i # m + 2
      <4>1. i \in 2..(m + 1) /\ i - 1 \in 1..(m + 1)
        BY <3>2
      <4>2. h[i] = g[i] /\ h[i - 1] = g[i - 1]
        BY <4>1
      <4> QED BY <2>2, <4>1, <4>2 DEF Flattening
    <3> QED BY <3>1, <3>2
  <2> HIDE DEF h
  <2> QED BY <2>5, <2>6, <2>7 DEF Flattening
<1>3. Nat \subseteq S
  <2> HIDE DEF S
  <2> QED BY <1>1, <1>2, NatInSet
<1>4. Len(ss) - 1 \in Nat /\ (Len(ss) - 1) + 1 = Len(ss)
  OBVIOUS
<1> DEFINE n == Len(ss) - 1
<1>5. n \in Nat /\ n + 1 = Len(ss)
  BY <1>4
<1>6. n \in S
  BY <1>3, <1>5
<1> HIDE DEF n
<1>7. \E g \in [1..(n + 1) -> Seq(E)] : Flattening(g, ss, n + 1)
  BY <1>5, <1>6
<1> QED BY <1>5, <1>7

\* The first n of two sequences are the same.
Agree(s, t, n) == \A i \in 1..n : s[i] = t[i]

\* There is only one way to flatten.
LEMMA FlattensUniquely ==
    ASSUME NEW n \in Nat, NEW g, NEW h, NEW ss, NEW tt,
           Flattening(g, ss, n), Flattening(h, tt, n), Agree(ss, tt, n)
    PROVE  Agree(g, h, n)
<1> DEFINE S == {m \in Nat : m + 1 <= n => g[m + 1] = h[m + 1]}
<1>1. 0 \in S
  <2>1. SUFFICES ASSUME 1 <= n PROVE g[1] = h[1]
    OBVIOUS
  <2>2. 1 \in 1..n
    BY <2>1
  <2> QED BY <2>2 DEF Flattening, Agree
<1>2. ASSUME NEW m \in Nat, m \in S PROVE m + 1 \in S
  <2>1. SUFFICES ASSUME m + 2 <= n PROVE g[m + 2] = h[m + 2]
    <3>1. (m + 1) + 1 = m + 2
      OBVIOUS
    <3> QED BY <3>1
  <2> DEFINE i == m + 2
  <2>2. i \in 2..n /\ i - 1 = m + 1 /\ i \in 1..n
    BY <2>1
  <2> HIDE DEF i
  <2>3. g[i] = g[i - 1] \o ss[i] /\ h[i] = h[i - 1] \o tt[i]
    BY <2>2 DEF Flattening
  <2>4. g[m + 1] = h[m + 1] /\ ss[i] = tt[i]
    BY <1>2, <2>1, <2>2 DEF Agree
  <2>5. g[i] = h[i]
    BY <2>2, <2>3, <2>4
  <2> QED BY <2>5 DEF i
<1>3. Nat \subseteq S
  <2> HIDE DEF S
  <2> QED BY <1>1, <1>2, NatInSet
<1>4. ASSUME NEW i \in 1..n PROVE g[i] = h[i]
  <2>1. i - 1 \in Nat /\ (i - 1) + 1 = i /\ i <= n
    OBVIOUS
  <2> QED BY <1>3, <2>1
<1> QED BY <1>4 DEF Agree

\* FlattenSeq is the last of the concatenations.
LEMMA FlattenSeqFacts ==
    ASSUME NEW E, NEW ss \in Seq(Seq(E)), ss # <<>>
    PROVE  \E g \in [1..Len(ss) -> Seq(E)] :
              Flattening(g, ss, Len(ss)) /\ FlattenSeq(ss) = g[Len(ss)]
<1> DEFINE G(g) == g = [i \in 1..Len(ss) |-> IF i = 1 THEN ss[i] ELSE g[i - 1] \o ss[i]]
<1>1. FlattenSeq(ss) = (CHOOSE g : G(g))[Len(ss)]
  BY DEF FlattenSeq
<1>2. PICK g \in [1..Len(ss) -> Seq(E)] : Flattening(g, ss, Len(ss))
  BY FlatteningExists
<1>3. G(g)
  <2>1. \A i \in 1..Len(ss) : g[i] = IF i = 1 THEN ss[i] ELSE g[i - 1] \o ss[i]
    <3>1. \A i \in 1..Len(ss) : i # 1 => i \in 2..Len(ss)
      OBVIOUS
    <3> QED BY <1>2, <3>1 DEF Flattening
  <2> QED BY <2>1
<1> DEFINE h == CHOOSE x : G(x)
<1>4. G(h)
  <2> HIDE DEF G
  <2> QED BY <1>3
<1> HIDE DEF h
<1>5. Flattening(h, ss, Len(ss))
  <2>1. h = [i \in 1..Len(ss) |-> IF i = 1 THEN ss[i] ELSE h[i - 1] \o ss[i]]
    BY <1>4
  <2>2. \A i \in 2..Len(ss) : i \in 1..Len(ss) /\ i # 1
    OBVIOUS
  <2>3. 1 \in 1..Len(ss)
    OBVIOUS
  <2>4. h[1] = ss[1]
    BY <2>1, <2>3
  <2>5. \A i \in 2..Len(ss) : h[i] = h[i - 1] \o ss[i]
    BY <2>1, <2>2
  <2> QED BY <2>4, <2>5 DEF Flattening
<1>6. \A i \in 1..Len(ss) : g[i] = h[i]
  <2>1. Len(ss) \in Nat
    OBVIOUS
  <2>2. Agree(ss, ss, Len(ss))
    BY DEF Agree
  <2> HIDE DEF G
  <2>3. Agree(g, h, Len(ss))
    BY <1>2, <1>5, <2>1, <2>2, FlattensUniquely
  <2> QED BY <2>3 DEF Agree
<1>7. FlattenSeq(ss) = g[Len(ss)]
  <2>1. FlattenSeq(ss) = h[Len(ss)]
    BY <1>1 DEF h
  <2>2. Len(ss) \in 1..Len(ss)
    OBVIOUS
  <2> HIDE DEF G
  <2> QED BY <1>6, <2>1, <2>2
<1> QED BY <1>2, <1>7

\* FlattenSeq follows what is appended.
LEMMA FlattenAppend ==
    ASSUME NEW E, NEW ss \in Seq(Seq(E)), NEW x \in Seq(E)
    PROVE  /\ FlattenSeq(ss) \in Seq(E)
           /\ FlattenSeq(Append(ss, x)) = FlattenSeq(ss) \o x
<1> DEFINE tt == Append(ss, x)
<1>0. tt \in Seq(Seq(E)) /\ Len(tt) = Len(ss) + 1 /\ tt[Len(ss) + 1] = x
  OBVIOUS
<1>1. /\ tt \in Seq(Seq(E)) /\ tt # <<>> /\ Len(tt) = Len(ss) + 1 /\ tt[Len(ss) + 1] = x
      /\ Len(ss) \in Nat /\ \A i \in 1..Len(ss) : ss[i] = tt[i]
  <2>1. tt # <<>>
    BY <1>0
  <2>2. \A i \in 1..Len(ss) : ss[i] = tt[i]
    OBVIOUS
  <2> QED BY <1>0, <2>1, <2>2
<1> HIDE DEF tt
<1>2. PICK h \in [1..Len(tt) -> Seq(E)] :
         Flattening(h, tt, Len(tt)) /\ FlattenSeq(tt) = h[Len(tt)]
  BY <1>1, FlattenSeqFacts
<1>3. CASE ss = <<>>
  <2>1. FlattenSeq(ss) = <<>>
    BY <1>3 DEF FlattenSeq
  <2>2. FlattenSeq(tt) = x
    BY <1>1, <1>2, <1>3 DEF Flattening
  <2> QED BY <2>1, <2>2 DEF tt
<1>4. CASE ss # <<>>
  <2>1. PICK g \in [1..Len(ss) -> Seq(E)] :
           Flattening(g, ss, Len(ss)) /\ FlattenSeq(ss) = g[Len(ss)]
    BY <1>4, FlattenSeqFacts
  <2>2. Flattening(h, tt, Len(ss))
    <3>1. \A i \in 2..Len(ss) : i \in 2..Len(tt)
      BY <1>1
    <3> QED BY <1>2, <3>1 DEF Flattening
  <2>3. \A i \in 1..Len(ss) : g[i] = h[i]
    <3> DEFINE n == Len(ss)
    <3>1. n \in Nat /\ Agree(ss, tt, n)
      BY <1>1 DEF Agree
    <3>2. Flattening(g, ss, n) /\ Flattening(h, tt, n)
      BY <2>1, <2>2
    <3> HIDE DEF n
    <3>3. Agree(g, h, n)
      BY <3>1, <3>2, FlattensUniquely
    <3> QED BY <3>3 DEF n, Agree
  <2>4. Len(ss) \in 1..Len(ss) /\ Len(tt) \in 2..Len(tt) /\ Len(tt) - 1 = Len(ss)
    BY <1>1, <1>4
  <2>5. h[Len(tt)] = h[Len(ss)] \o x
    BY <1>1, <1>2, <2>4 DEF Flattening
  <2> QED BY <1>2, <2>1, <2>3, <2>4, <2>5 DEF tt
<1> QED BY <1>3, <1>4

LEMMA FlattenEmpty == FlattenSeq(<<>>) = <<>>
BY DEF FlattenSeq

\* FlattenSeq of one sequence, and of sequences of a set's elements.
LEMMA FlattenOne ==
    ASSUME NEW E, NEW x \in Seq(E)
    PROVE  FlattenSeq(<<x>>) = x
<1> DEFINE e == <<>>
<1>1. e \in Seq(Seq(E)) /\ Append(e, x) = <<x>>
  OBVIOUS
<1> HIDE DEF e
<1>2. FlattenSeq(Append(e, x)) = FlattenSeq(e) \o x
  BY <1>1, FlattenAppend
<1>3. FlattenSeq(e) = <<>>
  BY FlattenEmpty DEF e
<1>4. <<>> \o x = x
  OBVIOUS
<1> QED BY <1>1, <1>2, <1>3, <1>4

LEMMA FlattenType ==
    ASSUME NEW E, NEW ss \in Seq(Seq(E))
    PROVE  FlattenSeq(ss) \in Seq(E)
<1> DEFINE x == <<>>
<1>1. x \in Seq(E)
  OBVIOUS
<1> HIDE DEF x
<1> QED BY <1>1, FlattenAppend

\* FlattenSeq of a concatenation.
LEMMA FlattenCat ==
    ASSUME NEW E, NEW ss \in Seq(Seq(E)), NEW tt \in Seq(Seq(E))
    PROVE  FlattenSeq(ss \o tt) = FlattenSeq(ss) \o FlattenSeq(tt)
<1> DEFINE P(u) == FlattenSeq(ss \o u) = FlattenSeq(ss) \o FlattenSeq(u)
<1> DEFINE S == {n \in Nat : n <= Len(tt) => P(SubSeq(tt, 1, n))}
<1>1. 0 \in S
  <2>1. SubSeq(tt, 1, 0) = <<>> /\ ss \o <<>> = ss
    OBVIOUS
  <2>2. FlattenSeq(ss) \in Seq(E)
    BY FlattenAppend, <<>> \in Seq(E)
  <2>3. FlattenSeq(ss) \o <<>> = FlattenSeq(ss)
    BY <2>2
  <2> QED BY <2>1, <2>3, FlattenEmpty
<1>2. ASSUME NEW n \in Nat, n \in S PROVE n + 1 \in S
  <2>1. SUFFICES ASSUME n + 1 <= Len(tt) PROVE P(SubSeq(tt, 1, n + 1))
    OBVIOUS
  <2> DEFINE u == SubSeq(tt, 1, n)
  <2> DEFINE x == tt[n + 1]
  <2>2. u \in Seq(Seq(E)) /\ x \in Seq(E) /\ SubSeq(tt, 1, n + 1) = Append(u, x)
    BY <2>1
  <2>3. P(u)
    BY <1>2, <2>1
  <2> HIDE DEF u, x
  <2>4. ss \o Append(u, x) = Append(ss \o u, x) /\ ss \o u \in Seq(Seq(E))
    BY <2>2
  <2>5. /\ FlattenSeq(Append(ss \o u, x)) = FlattenSeq(ss \o u) \o x
        /\ FlattenSeq(Append(u, x)) = FlattenSeq(u) \o x
        /\ FlattenSeq(u) \in Seq(E) /\ FlattenSeq(ss) \in Seq(E)
    BY <2>2, <2>4, FlattenAppend
  <2>6. (FlattenSeq(ss) \o FlattenSeq(u)) \o x = FlattenSeq(ss) \o (FlattenSeq(u) \o x)
    <3> DEFINE a == FlattenSeq(ss)
    <3> DEFINE b == FlattenSeq(u)
    <3>1. a \in Seq(E) /\ b \in Seq(E) /\ x \in Seq(E)
      BY <2>2, <2>5
    <3> HIDE DEF a, b
    <3>2. (a \o b) \o x = a \o (b \o x)
      BY <3>1, CatAssoc
    <3> QED BY <3>2 DEF a, b
  <2> QED BY <2>2, <2>3, <2>4, <2>5, <2>6
<1>3. Nat \subseteq S
  <2> HIDE DEF S
  <2> QED BY <1>1, <1>2, NatInSet
<1>4. SubSeq(tt, 1, Len(tt)) = tt /\ Len(tt) \in Nat /\ Len(tt) <= Len(tt)
  OBVIOUS
<1>5. Len(tt) \in S
  BY <1>3, <1>4
<1>6. P(SubSeq(tt, 1, Len(tt)))
  <2> HIDE DEF P
  <2> QED BY <1>4, <1>5
<1> QED BY <1>4, <1>6

\* The length of what FlattenSeq makes is the sum of the lengths.
LEMMA FlattenLen ==
    ASSUME NEW E, NEW ss \in Seq(Seq(E)), NEW ns \in Seq(Nat), Len(ns) = Len(ss),
           \A i \in 1..Len(ss) : ns[i] = Len(ss[i])
    PROVE  Len(FlattenSeq(ss)) = Sums(ns)[Len(ns)]
<1>1. CASE ss = <<>>
  <2>1. Len(ns) = 0
    BY <1>1
  <2> QED BY <1>1, <2>1, FlattenEmpty, SumsFacts
<1>2. CASE ss # <<>>
  <2> DEFINE l == Len(ss)
  <2>1. PICK g \in [1..l -> Seq(E)] : Flattening(g, ss, l) /\ FlattenSeq(ss) = g[l]
    BY <1>2, FlattenSeqFacts
  <2> DEFINE s == Sums(ns)
  <2>2. s[0] = 0 /\ \A i \in 1..l : s[i] = s[i - 1] + ns[i]
    BY SumsFacts
  <2>3. l \in Nat \ {0} /\ \A i \in 1..l : ss[i] \in Seq(E) /\ ns[i] = Len(ss[i])
    BY <1>2
  <2> HIDE DEF l, s
  <2> DEFINE S == {m \in Nat : m + 1 <= l => Len(g[m + 1]) = s[m + 1]}
  <2>4. 0 \in S
    <3>1. 1 \in 1..l /\ 1 - 1 = 0
      BY <2>3
    <3>2. s[1] = 0 + ns[1]
      BY <2>2, <3>1
    <3>3. Len(g[1]) = s[1]
      BY <2>1, <2>3, <3>1, <3>2 DEF Flattening
    <3> QED BY <3>3
  <2>5. ASSUME NEW m \in Nat, m \in S PROVE m + 1 \in S
    <3>1. SUFFICES ASSUME m + 2 <= l PROVE Len(g[m + 2]) = s[m + 2]
      <4>1. (m + 1) + 1 = m + 2
        OBVIOUS
      <4> QED BY <4>1
    <3> DEFINE i == m + 2
    <3>2. i \in 2..l /\ i - 1 = m + 1 /\ i \in 1..l /\ i - 1 \in 1..l
      BY <2>3, <3>1
    <3> HIDE DEF i
    <3>3. g[i] = g[i - 1] \o ss[i] /\ s[i] = s[i - 1] + ns[i]
      BY <2>1, <2>2, <3>2 DEF Flattening
    <3>4. Len(g[i - 1]) = s[i - 1]
      BY <2>5, <3>1, <3>2
    <3>5. g[i - 1] \in Seq(E) /\ ss[i] \in Seq(E) /\ ns[i] = Len(ss[i])
      BY <2>1, <2>3, <3>2
    <3>6. Len(g[i - 1] \o ss[i]) = Len(g[i - 1]) + Len(ss[i])
      BY <3>5
    <3>7. Len(g[i]) = s[i]
      BY <3>3, <3>4, <3>5, <3>6
    <3> QED BY <3>7 DEF i
  <2>6. Nat \subseteq S
    <3> HIDE DEF S
    <3> QED BY <2>4, <2>5, NatInSet
  <2>7. (l - 1) \in Nat /\ (l - 1) + 1 = l
    BY <2>3
  <2>8. Len(g[l]) = s[l]
    <3> DEFINE n == l - 1
    <3>1. n \in S /\ n + 1 = l
      BY <2>6, <2>7
    <3> HIDE DEF n
    <3>2. Len(g[n + 1]) = s[n + 1]
      BY <2>3, <3>1
    <3> QED BY <3>1, <3>2
  <2> QED BY <2>1, <2>8 DEF l, s
<1> QED BY <1>1, <1>2

-----------------------------------------------------------------------------
(* The bytes of a list of buffers.                                         *)

\* A byte: <<id of its buffer, its place in it>>; ids are <<push, node>>.
Byte == (Nat \X Nat) \X Nat

\* http2_buff.
BuffSet ==
  [id : Nat \X Nat, used : Nat, from : Nat, sendfile : BOOLEAN,
   ctx : Streams \cup {None}, tcp_nodelay : BOOLEAN]

\* Buffer b read from position p.
GoodBuff(b, p) ==
  /\ b \in BuffSet /\ p \in Nat /\ p <= b.used
  /\ b.sendfile => p = 0
  /\ ~b.sendfile => b.from = 0

\* A list is read from position p of its first buffer.
Place(p, i) == IF i = 1 THEN p ELSE 0

\* A list of buffers read from position p of the first.
GoodList(bs, p) == bs \in Seq(BuffSet) /\ \A i \in 1..Len(bs) : GoodBuff(bs[i], Place(p, i))

\* The bytes of each buffer of a list.
Parts(bs, p) == [i \in 1..Len(bs) |-> Bytes(bs[i], Place(p, i))]

\* The bytes of a list, read from position p of the first.
Out(bs, p) == FlattenSeq(Parts(bs, p))

\* The bytes of a buffer, counted and placed.
LEMMA BytesFacts ==
    ASSUME NEW b, NEW p, GoodBuff(b, p)
    PROVE  /\ Bytes(b, p) \in Seq(Byte) /\ b.used - p \in Nat
           /\ Len(Bytes(b, p)) = b.used - p
           /\ \A k \in 1..(b.used - p) : Bytes(b, p)[k] = <<b.id, b.from + p + k>>
<1> DEFINE n == b.used - p
<1>1. n \in Nat /\ b.id \in Nat \X Nat /\ b.from \in Nat /\ p \in Nat
  BY DEF GoodBuff, BuffSet
<1>2. Bytes(b, p) = [k \in 1..n |-> <<b.id, b.from + p + k>>]
  <2>1. CASE b.sendfile
    <3>1. p = 0 /\ n = b.used /\ b.used \in Nat
      BY <2>1 DEF GoodBuff, BuffSet
    <3>2. \A k \in 1..n : b.from + p + k = b.from + k
      BY <1>1, <3>1
    <3>3. Bytes(b, p) = [k \in 1..n |-> <<b.id, b.from + k>>]
      BY <2>1, <3>1 DEF Bytes
    <3> HIDE DEF n
    <3> QED BY <3>2, <3>3
  <2>2. CASE ~b.sendfile
    <3>1. b.from = 0
      BY <2>2 DEF GoodBuff
    <3>2. \A k \in 1..n : b.from + p + k = p + k
      BY <1>1, <3>1
    <3>3. Bytes(b, p) = [k \in 1..n |-> <<b.id, p + k>>]
      BY <2>2 DEF Bytes
    <3> HIDE DEF n
    <3> QED BY <3>2, <3>3
  <2> QED BY <2>1, <2>2
<1> HIDE DEF n
<1>3. \A k \in 1..n : <<b.id, b.from + p + k>> \in Byte
  BY <1>1 DEF Byte
<1>4. Bytes(b, p) \in Seq(Byte) /\ Len(Bytes(b, p)) = n
  <2> DEFINE f == [k \in 1..n |-> <<b.id, b.from + p + k>>]
  <2>1. f \in [1..n -> Byte]
    BY <1>3
  <2> HIDE DEF f
  <2>2. f \in Seq(Byte) /\ Len(f) = n
    BY <1>1, <2>1
  <2> QED BY <1>2, <2>2 DEF f
<1>5. \A k \in 1..n : Bytes(b, p)[k] = <<b.id, b.from + p + k>>
  BY <1>2
<1> QED BY <1>1, <1>4, <1>5 DEF n

LEMMA PartsFacts ==
    ASSUME NEW bs, NEW p, GoodList(bs, p)
    PROVE  /\ Parts(bs, p) \in Seq(Seq(Byte)) /\ Len(Parts(bs, p)) = Len(bs)
           /\ Len(bs) \in Nat
           /\ \A i \in 1..Len(bs) : Parts(bs, p)[i] = Bytes(bs[i], Place(p, i))
<1> DEFINE n == Len(bs)
<1>1. n \in Nat
  BY DEF GoodList
<1>2. \A i \in 1..n : Bytes(bs[i], Place(p, i)) \in Seq(Byte)
  BY BytesFacts DEF GoodList
<1>3. Parts(bs, p) = [i \in 1..n |-> Bytes(bs[i], Place(p, i))]
  BY DEF Parts
<1> HIDE DEF n
<1>4. Parts(bs, p) \in [1..n -> Seq(Byte)]
  BY <1>2, <1>3
<1>5. Parts(bs, p) \in Seq(Seq(Byte)) /\ Len(Parts(bs, p)) = n
  BY <1>1, <1>4
<1>6. \A i \in 1..n : Parts(bs, p)[i] = Bytes(bs[i], Place(p, i))
  BY <1>3
<1> QED BY <1>1, <1>5, <1>6 DEF n

LEMMA OutType ==
    ASSUME NEW bs, NEW p, GoodList(bs, p)
    PROVE  Out(bs, p) \in Seq(Byte)
BY PartsFacts, FlattenType DEF Out

LEMMA OutEmpty == ASSUME NEW p PROVE Out(<<>>, p) = <<>>
<1>1. Parts(<<>>, p) = <<>>
  BY DEF Parts
<1> QED BY <1>1, FlattenEmpty DEF Out

\* Bytes of other buffers only.
LEMMA OutIn ==
    ASSUME NEW bs, NEW p, GoodList(bs, p), NEW E,
           \A i \in 1..Len(bs) : \A n \in Nat : <<bs[i].id, n>> \in E
    PROVE  Out(bs, p) \in Seq(E)
<1>1. ASSUME NEW i \in 1..Len(bs) PROVE Parts(bs, p)[i] \in Seq(E)
  <2> DEFINE b == bs[i]
  <2> DEFINE q == Place(p, i)
  <2>1. GoodBuff(b, q) /\ \A n \in Nat : <<b.id, n>> \in E
    BY DEF GoodList
  <2>2. Parts(bs, p)[i] = Bytes(b, q)
    BY PartsFacts
  <2> HIDE DEF b, q
  <2>3. b.from \in Nat /\ q \in Nat
    BY <2>1 DEF GoodBuff, BuffSet
  <2> DEFINE s == Bytes(b, q)
  <2>4. s \in Seq(Byte) /\ \A k \in 1..Len(s) : s[k] = <<b.id, b.from + q + k>>
    BY <2>1, BytesFacts
  <2>5. \A k \in 1..Len(s) : b.from + q + k \in Nat
    BY <2>3
  <2> HIDE DEF s
  <2>6. ASSUME NEW k \in 1..Len(s) PROVE s[k] \in E
    <3> DEFINE n == b.from + q + k
    <3>1. n \in Nat /\ s[k] = <<b.id, n>>
      BY <2>4, <2>5
    <3> HIDE DEF n
    <3> QED BY <2>1, <3>1
  <2>7. s \in Seq(E)
    BY <2>4, <2>6
  <2> QED BY <2>2, <2>7 DEF s
<1> DEFINE ss == Parts(bs, p)
<1>2. ss \in Seq(Seq(Byte)) /\ Len(ss) = Len(bs)
  BY PartsFacts
<1> HIDE DEF ss
<1>3. ss \in Seq(Seq(E))
  BY <1>1, <1>2 DEF ss
<1> QED BY <1>3, FlattenType DEF Out, ss

\* The bytes of two lists, one behind the other.
LEMMA OutCat ==
    ASSUME NEW bs, NEW p, NEW cs, GoodList(bs, p), GoodList(cs, 0), bs # <<>>
    PROVE  /\ Out(bs \o cs, p) = Out(bs, p) \o Out(cs, 0)
           /\ GoodList(bs \o cs, p)
<1> DEFINE m == Len(bs)
<1> DEFINE n == Len(cs)
<1> DEFINE u == bs \o cs
<1>1. /\ m \in Nat \ {0} /\ n \in Nat /\ u \in Seq(BuffSet) /\ Len(u) = m + n
      /\ \A i \in 1..m : u[i] = bs[i]
      /\ \A i \in (m + 1)..(m + n) : u[i] = cs[i - m]
  BY DEF GoodList
<1>2. \A i \in (m + 1)..(m + n) : i - m \in 1..n /\ Place(p, i) = Place(0, i - m)
  BY <1>1 DEF Place
<1>3. \A i \in 1..(m + n) : i \in 1..m \/ i \in (m + 1)..(m + n)
  BY <1>1
<1> HIDE DEF m, n, u
<1>4. GoodList(u, p)
  <2>1. ASSUME NEW i \in 1..(m + n) PROVE GoodBuff(u[i], Place(p, i))
    <3>1. CASE i \in 1..m
      BY <1>1, <3>1 DEF GoodList, m
    <3>2. CASE i \in (m + 1)..(m + n)
      <4>1. GoodBuff(cs[i - m], Place(0, i - m))
        BY <1>2, <3>2 DEF GoodList, n
      <4> QED BY <1>1, <1>2, <3>2, <4>1
    <3> QED BY <1>3, <3>1, <3>2
  <2> QED BY <1>1, <2>1 DEF GoodList
<1> DEFINE a == Parts(bs, p)
<1> DEFINE b == Parts(cs, 0)
<1> DEFINE c == Parts(u, p)
<1>5. /\ a \in Seq(Seq(Byte)) /\ Len(a) = m /\ \A i \in 1..m : a[i] = Bytes(bs[i], Place(p, i))
      /\ b \in Seq(Seq(Byte)) /\ Len(b) = n /\ \A i \in 1..n : b[i] = Bytes(cs[i], Place(0, i))
      /\ c \in Seq(Seq(Byte)) /\ Len(c) = m + n
      /\ \A i \in 1..(m + n) : c[i] = Bytes(u[i], Place(p, i))
  <2>1. /\ a \in Seq(Seq(Byte)) /\ Len(a) = m
        /\ \A i \in 1..m : a[i] = Bytes(bs[i], Place(p, i))
    BY PartsFacts DEF m
  <2>2. /\ b \in Seq(Seq(Byte)) /\ Len(b) = n
        /\ \A i \in 1..n : b[i] = Bytes(cs[i], Place(0, i))
    BY PartsFacts DEF n
  <2>3. /\ c \in Seq(Seq(Byte)) /\ Len(c) = m + n
        /\ \A i \in 1..(m + n) : c[i] = Bytes(u[i], Place(p, i))
    <3>1. /\ c \in Seq(Seq(Byte)) /\ Len(c) = Len(u)
          /\ \A i \in 1..Len(u) : c[i] = Bytes(u[i], Place(p, i))
      BY <1>4, PartsFacts
    <3>2. Len(u) = m + n
      BY <1>1
    <3> HIDE DEF c
    <3> QED BY <3>1, <3>2
  <2> QED BY <2>1, <2>2, <2>3
<1> HIDE DEF a, b, c
<1>6. c = a \o b
  <2>1. ASSUME NEW i \in 1..(m + n) PROVE c[i] = (a \o b)[i]
    <3>1. CASE i \in 1..m
      <4>1. c[i] = a[i]
        BY <1>1, <1>5, <3>1
      <4>2. (a \o b)[i] = a[i]
        BY <1>5, <3>1, CatFacts
      <4> QED BY <4>1, <4>2
    <3>2. CASE i \in (m + 1)..(m + n)
      <4>1. c[i] = b[i - m]
        BY <1>1, <1>2, <1>5, <3>2
      <4>2. (a \o b)[i] = b[i - m]
        <5>1. i - m \in 1..n /\ m + (i - m) = i
          BY <1>1, <1>2, <3>2
        <5> QED BY <1>5, <5>1, CatFacts
      <4> QED BY <4>1, <4>2
    <3> QED BY <1>3, <3>1, <3>2
  <2>2. a \o b \in Seq(Seq(Byte)) /\ Len(a \o b) = m + n
    BY <1>5, CatFacts
  <2> QED BY <1>5, <2>1, <2>2, SameSeq
<1>7. FlattenSeq(c) = FlattenSeq(a) \o FlattenSeq(b)
  BY <1>5, <1>6, FlattenCat
<1> QED BY <1>4, <1>7 DEF Out, a, b, c, u

LEMMA OutOne ==
    ASSUME NEW b, NEW p, GoodBuff(b, p)
    PROVE  Out(<<b>>, p) = Bytes(b, p) /\ GoodList(<<b>>, p)
<1>1. GoodList(<<b>>, p)
  <2>1. <<b>> \in Seq(BuffSet) /\ Len(<<b>>) = 1 /\ <<b>>[1] = b
    BY DEF GoodBuff
  <2> QED BY <2>1 DEF GoodList, Place
<1>2. Parts(<<b>>, p) = <<Bytes(b, p)>>
  <2> DEFINE s == Parts(<<b>>, p)
  <2>1. Len(<<b>>) = 1 /\ <<b>>[1] = b
    OBVIOUS
  <2>2. s \in Seq(Seq(Byte)) /\ Len(s) = 1 /\ s[1] = Bytes(b, p)
    BY <1>1, <2>1, PartsFacts DEF Place
  <2> HIDE DEF s
  <2>3. s = <<Bytes(b, p)>>
    BY <2>2
  <2> QED BY <2>3 DEF s
<1>3. Bytes(b, p) \in Seq(Byte)
  BY BytesFacts
<1> QED BY <1>1, <1>2, <1>3, FlattenOne DEF Out

\* The bytes of a list: those of the first, then the others.
LEMMA OutHead ==
    ASSUME NEW bs, NEW p, GoodList(bs, p), bs # <<>>
    PROVE  /\ Out(bs, p) = Bytes(bs[1], p) \o Out(Tail(bs), 0)
           /\ GoodBuff(bs[1], p) /\ GoodList(Tail(bs), 0)
           /\ bs = <<bs[1]>> \o Tail(bs)
<1>1. GoodBuff(bs[1], p)
  BY DEF GoodList, Place
<1> DEFINE t == Tail(bs)
<1>2. t \in Seq(BuffSet) /\ Len(t) = Len(bs) - 1 /\ \A i \in 1..Len(t) : t[i] = bs[i + 1]
  BY DEF GoodList
<1>3. bs = <<bs[1]>> \o t
  BY DEF GoodList
<1> HIDE DEF t
<1>4. GoodList(t, 0)
  <2>1. ASSUME NEW i \in 1..Len(t) PROVE GoodBuff(t[i], Place(0, i))
    <3>1. i + 1 \in 1..Len(bs) /\ Place(p, i + 1) = 0 /\ Place(0, i) = 0
      BY <1>2 DEF Place, GoodList
    <3>2. GoodBuff(bs[i + 1], Place(p, i + 1))
      BY <3>1 DEF GoodList
    <3> QED BY <1>2, <3>1, <3>2
  <2> QED BY <1>2, <2>1 DEF GoodList
<1>5. Out(<<bs[1]>> \o t, p) = Out(<<bs[1]>>, p) \o Out(t, 0)
  BY <1>1, <1>4, OutOne, OutCat
<1> QED BY <1>1, <1>3, <1>4, <1>5, OutOne DEF t

\* The list is as long as Used says.
LEMMA OutLen ==
    ASSUME NEW bs, GoodList(bs, 0)
    PROVE  Len(Out(bs, 0)) = Used(bs)
<1> DEFINE ns == [i \in 1..Len(bs) |-> bs[i].used]
<1> DEFINE ss == Parts(bs, 0)
<1>1. ss \in Seq(Seq(Byte)) /\ Len(ss) = Len(bs) /\ Len(bs) \in Nat
  BY PartsFacts
<1>2. \A i \in 1..Len(bs) : bs[i].used \in Nat /\ Len(ss[i]) = bs[i].used
  <2>1. ASSUME NEW i \in 1..Len(bs) PROVE bs[i].used \in Nat /\ Len(ss[i]) = bs[i].used
    <3>1. GoodBuff(bs[i], 0) /\ ss[i] = Bytes(bs[i], 0)
      BY PartsFacts DEF GoodList, Place
    <3>2. bs[i].used \in Nat
      BY <3>1 DEF GoodBuff, BuffSet
    <3>3. Len(Bytes(bs[i], 0)) = bs[i].used - 0
      BY <3>1, BytesFacts
    <3> QED BY <3>1, <3>2, <3>3
  <2> QED BY <2>1
<1>3. ns \in Seq(Nat) /\ Len(ns) = Len(bs) /\ \A i \in 1..Len(bs) : ns[i] = bs[i].used
  <2>1. ns \in [1..Len(bs) -> Nat]
    BY <1>2
  <2> QED BY <1>1, <2>1
<1> HIDE DEF ss, ns
<1>4. Len(FlattenSeq(ss)) = Sums(ns)[Len(ns)]
  BY <1>1, <1>2, <1>3, FlattenLen
<1> QED BY <1>3, <1>4 DEF Out, Used, ss, ns

-----------------------------------------------------------------------------
(* What was pushed is what is on the wire followed by what is buffered; an *)
(* iovec holds the bytes of the first buffers.                             *)

\* pd is what was pushed, w what is on the wire, all the bytes of the list, of
\* which g are on the wire.
Splits(pd, w, g, all) ==
  /\ g \in Nat /\ g <= Len(w) /\ g <= Len(all)
  /\ Len(pd) = Len(w) - g + Len(all)
  /\ \A j \in 1..Len(all) : pd[Len(w) - g + j] = all[j]
  /\ \A j \in 1..Len(w) : w[j] = pd[j]

\* s is the start of t.
Prefix(s, t) == Len(s) <= Len(t) /\ \A j \in 1..Len(s) : s[j] = t[j]

\* A push keeps the split: its bytes go behind both.
LEMMA SplitsPush ==
    ASSUME NEW pd \in Seq(Byte), NEW w \in Seq(Byte), NEW all \in Seq(Byte), NEW f \in Seq(Byte),
           NEW g, Splits(pd, w, g, all)
    PROVE  Splits(pd \o f, w, g, all \o f)
<1> DEFINE d == Len(w) - g
<1>1. d \in Nat /\ g \in Nat /\ Len(w) \in Nat /\ Len(all) \in Nat /\ Len(f) \in Nat
  BY DEF Splits
<1>2. Len(pd) = d + Len(all) /\ g <= Len(all) /\ g <= Len(w)
  BY DEF Splits
<1>3. Len(pd \o f) = d + Len(all \o f) /\ Len(all \o f) = Len(all) + Len(f)
  <2>1. Len(all \o f) = Len(all) + Len(f) /\ Len(pd \o f) = Len(pd) + Len(f)
    BY CatFacts
  <2> HIDE DEF d
  <2> QED BY <1>1, <1>2, <2>1
<1>4. ASSUME NEW j \in 1..Len(all \o f) PROVE (pd \o f)[d + j] = (all \o f)[j]
  <2>1. CASE j <= Len(all)
    <3>1. j \in 1..Len(all) /\ d + j \in 1..Len(pd)
      BY <1>1, <1>2, <1>3, <2>1
    <3>2. pd[d + j] = all[j]
      BY <3>1 DEF Splits
    <3> HIDE DEF d
    <3> QED BY <3>1, <3>2, CatFacts
  <2>2. CASE j > Len(all)
    <3> DEFINE i == j - Len(all)
    <3>1. i \in 1..Len(f) /\ j = Len(all) + i /\ d + j = Len(pd) + i
      BY <1>1, <1>2, <1>3, <2>2
    <3> HIDE DEF d, i
    <3>2. (pd \o f)[Len(pd) + i] = f[i] /\ (all \o f)[Len(all) + i] = f[i]
      BY <3>1, CatFacts
    <3> QED BY <3>1, <3>2
  <2> QED BY <1>1, <1>3, <2>1, <2>2
<1>5. ASSUME NEW j \in 1..Len(w) PROVE w[j] = (pd \o f)[j]
  <2>1. j \in 1..Len(pd)
    BY <1>1, <1>2
  <2>2. w[j] = pd[j]
    BY DEF Splits
  <2> QED BY <2>1, <2>2, CatFacts
<1>6. g <= Len(all \o f)
  BY <1>1, <1>2, <1>3
<1>7. \A j \in 1..Len(all \o f) : (pd \o f)[Len(w) - g + j] = (all \o f)[j]
  BY <1>4
<1>8. Len(pd \o f) = Len(w) - g + Len(all \o f)
  BY <1>3
<1> HIDE DEF d
<1> QED BY <1>1, <1>2, <1>5, <1>6, <1>7, <1>8 DEF Splits

\* What the socket takes off the start goes onto the wire.
LEMMA SplitsTake ==
    ASSUME NEW pd \in Seq(Byte), NEW w \in Seq(Byte), NEW all \in Seq(Byte), NEW off \in Seq(Byte),
           Splits(pd, w, 0, all), Prefix(off, all), NEW n \in 1..Len(off)
    PROVE  Splits(pd, w \o SubSeq(off, 1, n), n, all)
<1> DEFINE t == SubSeq(off, 1, n)
<1>1. t \in Seq(Byte) /\ Len(t) = n /\ \A i \in 1..n : t[i] = off[i]
  OBVIOUS
<1>2. n \in Nat /\ n <= Len(all) /\ \A i \in 1..n : off[i] = all[i]
  BY DEF Prefix
<1>3. Len(pd) = Len(w) + Len(all) /\ Len(w) \in Nat /\ Len(all) \in Nat
  BY DEF Splits
<1> HIDE DEF t
<1> DEFINE v == w \o t
<1>4. v \in Seq(Byte) /\ Len(v) = Len(w) + n
  BY <1>1, CatFacts
<1>5. ASSUME NEW j \in 1..Len(v) PROVE v[j] = pd[j]
  <2>1. CASE j <= Len(w)
    <3>1. j \in 1..Len(w)
      BY <1>3, <1>4, <2>1
    <3>2. v[j] = w[j]
      BY <1>1, <3>1, CatFacts
    <3> HIDE DEF v
    <3> QED BY <3>1, <3>2 DEF Splits
  <2>2. CASE j > Len(w)
    <3> DEFINE i == j - Len(w)
    <3>1. i \in 1..n /\ j = Len(w) + i /\ i \in 1..Len(all) /\ j = Len(w) - 0 + i
      BY <1>2, <1>3, <1>4, <2>2
    <3> HIDE DEF i
    <3>2. v[j] = t[i]
      BY <1>1, <3>1, CatFacts
    <3>3. pd[j] = all[i]
      BY <3>1 DEF Splits
    <3> HIDE DEF v
    <3> QED BY <1>1, <1>2, <3>1, <3>2, <3>3
  <2> QED BY <1>3, <1>4, <2>1, <2>2
<1> HIDE DEF v
<1>6. Len(v) - n = Len(w) /\ n <= Len(v)
  BY <1>2, <1>3, <1>4
<1>7. Len(pd) = Len(v) - n + Len(all)
  BY <1>3, <1>6
<1>8. ASSUME NEW j \in 1..Len(all) PROVE pd[Len(v) - n + j] = all[j]
  <2>1. pd[Len(w) - 0 + j] = all[j]
    BY DEF Splits
  <2>2. Len(w) - 0 + j = Len(v) - n + j
    <3>1. Len(w) - 0 + j = Len(w) + j
      BY <1>3
    <3> QED BY <1>6, <3>1
  <2> QED BY <2>1, <2>2
<1>9. Splits(pd, v, n, all)
  BY <1>2, <1>5, <1>6, <1>7, <1>8 DEF Splits
<1> QED BY <1>9 DEF v, t

\* readSuccess drops bytes that are on the wire.
LEMMA SplitsSkip ==
    ASSUME NEW pd \in Seq(Byte), NEW w \in Seq(Byte), NEW all \in Seq(Byte), NEW b \in Seq(Byte),
           NEW g \in Nat, Splits(pd, w, g, all), NEW m \in 0..g,
           Len(b) = Len(all) - m, \A j \in 1..Len(b) : b[j] = all[m + j]
    PROVE  Splits(pd, w, g - m, b)
<1>1. g <= Len(w) /\ g <= Len(all) /\ Len(pd) = Len(w) - g + Len(all)
      /\ Len(w) \in Nat /\ Len(all) \in Nat
  BY DEF Splits
<1>2. g - m \in Nat /\ g - m <= Len(w) /\ g - m <= Len(b) /\ Len(pd) = Len(w) - (g - m) + Len(b)
  BY <1>1
<1>3. ASSUME NEW j \in 1..Len(b) PROVE pd[Len(w) - (g - m) + j] = b[j]
  <2>1. m + j \in 1..Len(all) /\ Len(w) - (g - m) + j = Len(w) - g + (m + j)
    BY <1>1
  <2>2. pd[Len(w) - g + (m + j)] = all[m + j]
    BY <2>1 DEF Splits
  <2> QED BY <2>1, <2>2
<1>4. \A j \in 1..Len(w) : w[j] = pd[j]
  BY DEF Splits
<1> QED BY <1>2, <1>3, <1>4 DEF Splits

-----------------------------------------------------------------------------
\* The first k buffers can be offered together.
Spans(bs, k) ==
  /\ k \in 1..Len(bs) /\ \A i \in 2..k : ~bs[i].sendfile
  /\ bs[1].sendfile => k = 1

\* The first of a list of buffers.
LEMMA FirstFacts ==
    ASSUME NEW bs, NEW p, GoodList(bs, p), NEW k \in 1..Len(bs)
    PROVE  /\ GoodList(SubSeq(bs, 1, k), p) /\ SubSeq(bs, 1, k) # <<>>
           /\ Len(SubSeq(bs, 1, k)) = k
           /\ \A i \in 1..k : SubSeq(bs, 1, k)[i] = bs[i]
<1> DEFINE t == SubSeq(bs, 1, k)
<1>1. t \in Seq(BuffSet) /\ Len(t) = k /\ \A i \in 1..k : t[i] = bs[i]
  BY DEF GoodList
<1>2. \A i \in 1..k : i \in 1..Len(bs)
  BY DEF GoodList
<1> HIDE DEF t
<1>3. GoodList(t, p) /\ t # <<>>
  BY <1>1, <1>2 DEF GoodList
<1> QED BY <1>1, <1>3 DEF t

\* The first buffers hold the first bytes.
LEMMA OutPrefix ==
    ASSUME NEW bs, NEW p, GoodList(bs, p), NEW k \in 1..Len(bs)
    PROVE  Prefix(Out(SubSeq(bs, 1, k), p), Out(bs, p))
<1> DEFINE a == SubSeq(bs, 1, k)
<1> DEFINE b == SubSeq(bs, k + 1, Len(bs))
<1>1. GoodList(a, p) /\ a # <<>> /\ Len(a) = k
  BY FirstFacts
<1>2. bs = a \o b /\ b \in Seq(BuffSet) /\ Len(b) = Len(bs) - k /\ Len(bs) \in Nat
      /\ \A i \in 1..Len(b) : b[i] = bs[k + i]
  BY DEF GoodList
<1> HIDE DEF a, b
<1>3. GoodList(b, 0)
  <2>1. ASSUME NEW i \in 1..Len(b) PROVE GoodBuff(b[i], Place(0, i))
    <3>1. k + i \in 1..Len(bs) /\ Place(p, k + i) = 0 /\ Place(0, i) = 0
      BY <1>2 DEF Place
    <3>2. GoodBuff(bs[k + i], Place(p, k + i))
      BY <3>1 DEF GoodList
    <3> QED BY <1>2, <3>1, <3>2
  <2> QED BY <1>2, <2>1 DEF GoodList
<1>4. Out(bs, p) = Out(a, p) \o Out(b, 0)
  BY <1>1, <1>2, <1>3, OutCat
<1>5. Out(a, p) \in Seq(Byte) /\ Out(b, 0) \in Seq(Byte)
  BY <1>1, <1>3, OutType
<1> DEFINE x == Out(a, p)
<1> DEFINE y == Out(b, 0)
<1>6. x \in Seq(Byte) /\ y \in Seq(Byte)
  BY <1>5
<1> HIDE DEF x, y
<1>7. Prefix(x, x \o y)
  BY <1>6, CatFacts DEF Prefix
<1> QED BY <1>4, <1>7 DEF x, y, a

\* What is left of a span when its first buffer is used up.
LEMMA SpanTail ==
    ASSUME NEW bs, NEW p, GoodList(bs, p), bs # <<>>, NEW k, Spans(bs, k), NEW g \in Nat,
           g <= Len(Out(SubSeq(bs, 1, k), p)), g > bs[1].used - p
    PROVE  /\ Spans(Tail(bs), k - 1) /\ Tail(bs) # <<>> /\ ~bs[1].sendfile
           /\ g - (bs[1].used - p) <= Len(Out(SubSeq(Tail(bs), 1, k - 1), 0))
<1> DEFINE a == SubSeq(bs, 1, k)
<1> DEFINE h == Bytes(bs[1], p)
<1>1. k \in 1..Len(bs) /\ Len(bs) \in Nat
  BY DEF Spans, GoodList
<1>2. GoodList(a, p) /\ a # <<>> /\ Len(a) = k /\ a[1] = bs[1]
  BY <1>1, FirstFacts
<1>3. /\ GoodBuff(bs[1], p) /\ Out(a, p) = h \o Out(Tail(a), 0) /\ GoodList(Tail(a), 0)
  BY <1>2, OutHead
<1>4. h \in Seq(Byte) /\ Len(h) = bs[1].used - p /\ bs[1].used - p \in Nat
  BY <1>3, BytesFacts
<1>5. Out(Tail(a), 0) \in Seq(Byte)
  BY <1>3, OutType
<1> DEFINE y == Out(Tail(a), 0)
<1>6. Len(h \o y) = Len(h) + Len(y) /\ Len(y) \in Nat /\ (y = <<>> => Len(y) = 0)
  <2>1. h \in Seq(Byte) /\ y \in Seq(Byte)
    BY <1>4, <1>5
  <2> HIDE DEF h, y
  <2> QED BY <2>1, CatFacts
<1>7. k # 1
  <2>1. SUFFICES ASSUME k = 1 PROVE FALSE
    OBVIOUS
  <2>2. Tail(a) = <<>>
    BY <1>2, <2>1 DEF GoodList
  <2>3. y = <<>>
    BY <2>2, OutEmpty
  <2> HIDE DEF y, h, a
  <2> QED BY <1>3, <1>4, <1>6, <2>3 DEF y, a
<1>8. Tail(a) = SubSeq(Tail(bs), 1, k - 1) /\ Len(Tail(bs)) = Len(bs) - 1 /\ Tail(bs) # <<>>
      /\ \A i \in 1..Len(Tail(bs)) : Tail(bs)[i] = bs[i + 1]
  BY <1>1, <1>7 DEF GoodList
<1>9. g - (bs[1].used - p) <= Len(y)
  <2> HIDE DEF y, h, a
  <2> QED BY <1>3, <1>4, <1>6 DEF y, a
<1>10. Spans(Tail(bs), k - 1)
  <2>1. k - 1 \in 1..Len(Tail(bs))
    BY <1>1, <1>7, <1>8
  <2>2. \A i \in 1..(k - 1) : ~Tail(bs)[i].sendfile
    <3>1. ASSUME NEW i \in 1..(k - 1) PROVE ~Tail(bs)[i].sendfile
      <4>1. i + 1 \in 2..k /\ i \in 1..Len(Tail(bs))
        BY <1>1, <1>8
      <4> QED BY <1>8, <4>1 DEF Spans
    <3> QED BY <3>1
  <2>3. \A i \in 2..(k - 1) : i \in 1..(k - 1)
    BY <1>1
  <2>4. 1 \in 1..(k - 1)
    BY <1>1, <1>7
  <2> QED BY <2>1, <2>2, <2>3, <2>4 DEF Spans
<1>11. ~bs[1].sendfile
  BY <1>7 DEF Spans
<1> QED BY <1>8, <1>9, <1>10, <1>11

\* A push leaves the first buffers alone.
LEMMA SpanPush ==
    ASSUME NEW bs \in Seq(BuffSet), NEW cs \in Seq(BuffSet), NEW k, Spans(bs, k)
    PROVE  Spans(bs \o cs, k) /\ SubSeq(bs \o cs, 1, k) = SubSeq(bs, 1, k)
<1> DEFINE u == bs \o cs
<1>1. /\ u \in Seq(BuffSet) /\ Len(u) = Len(bs) + Len(cs) /\ Len(bs) \in Nat /\ Len(cs) \in Nat
      /\ \A i \in 1..Len(bs) : u[i] = bs[i]
  BY CatFacts
<1>2. k \in 1..Len(bs)
  BY DEF Spans
<1> HIDE DEF u
<1>3. \A i \in 1..k : i \in 1..Len(bs) /\ u[i] = bs[i]
  BY <1>1, <1>2
<1>4. Spans(u, k)
  <2>1. k \in 1..Len(u)
    BY <1>1, <1>2
  <2>2. \A i \in 2..k : i \in 1..k
    BY <1>2
  <2>3. 1 \in 1..k
    BY <1>2
  <2> QED BY <1>3, <2>1, <2>2, <2>3 DEF Spans
<1>5. SubSeq(u, 1, k) = SubSeq(bs, 1, k)
  <2> DEFINE a == SubSeq(u, 1, k)
  <2> DEFINE b == SubSeq(bs, 1, k)
  <2>1. a \in Seq(BuffSet) /\ Len(a) = k /\ \A i \in 1..k : a[i] = u[i]
    BY <1>1, <1>2
  <2>2. b \in Seq(BuffSet) /\ Len(b) = k /\ \A i \in 1..k : b[i] = bs[i]
    BY <1>1, <1>2
  <2> HIDE DEF a, b
  <2>3. a = b
    BY <1>3, <2>1, <2>2, SameSeq
  <2> QED BY <2>3 DEF a, b
<1> QED BY <1>4, <1>5 DEF u

-----------------------------------------------------------------------------
(* The streams noted on a list, and where a byte is in what was pushed.    *)

\* How many buffers of a list stream s is noted on.
Count(bs, s) == Cardinality({i \in 1..Len(bs) : bs[i].ctx = s})

\* The last byte of a buffer.
LastByte(b) == <<b.id, b.from + b.used>>

\* Stream s is noted on a buffer of the list whose last byte is x.
NotedAt(bs, s, x) == \E i \in 1..Len(bs) : bs[i].ctx = s /\ LastByte(bs[i]) = x

LEMMA CountOne ==
    ASSUME NEW b, NEW s
    PROVE  Count(<<b>>, s) = IF b.ctx = s THEN 1 ELSE 0
<1> DEFINE S == {i \in 1..Len(<<b>>) : <<b>>[i].ctx = s}
<1>1. S = IF b.ctx = s THEN {1} ELSE {}
  OBVIOUS
<1>2. Cardinality({1}) = 1 /\ Cardinality({}) = 0
  BY FS_EmptySet, FS_Singleton
<1> QED BY <1>1, <1>2 DEF Count

LEMMA CountEmpty == ASSUME NEW s PROVE Count(<<>>, s) = 0
<1>1. {i \in 1..Len(<<>>) : <<>>[i].ctx = s} = {}
  OBVIOUS
<1> QED BY <1>1, FS_EmptySet DEF Count

LEMMA BuffCat ==
    ASSUME NEW cs \in Seq(BuffSet), NEW bs \in Seq(BuffSet)
    PROVE  /\ Len(cs \o bs) = Len(cs) + Len(bs) /\ Len(cs) \in Nat /\ Len(bs) \in Nat
           /\ \A i \in 1..Len(cs) : (cs \o bs)[i] = cs[i]
           /\ \A i \in 1..Len(bs) : (cs \o bs)[Len(cs) + i] = bs[i]
<1>1. Len(cs \o bs) = Len(cs) + Len(bs) /\ Len(cs) \in Nat /\ Len(bs) \in Nat
  BY CatFacts
<1>2. \A i \in 1..Len(cs) : (cs \o bs)[i] = cs[i]
  BY CatFacts
<1>3. \A i \in 1..Len(bs) : (cs \o bs)[Len(cs) + i] = bs[i]
  <2> DEFINE E == BuffSet
  <2>1. cs \in Seq(E) /\ bs \in Seq(E)
    OBVIOUS
  <2> HIDE DEF E
  <2> QED BY <2>1, CatFacts
<1> QED BY <1>1, <1>2, <1>3

\* Notes on two lists add up.
LEMMA CountCat ==
    ASSUME NEW cs \in Seq(BuffSet), NEW bs \in Seq(BuffSet), NEW s
    PROVE  /\ Count(cs \o bs, s) = Count(cs, s) + Count(bs, s)
           /\ Count(cs, s) \in Nat /\ Count(bs, s) \in Nat
<1> DEFINE m == Len(cs)
<1> DEFINE n == Len(bs)
<1> DEFINE u == cs \o bs
<1>1. /\ m \in Nat /\ n \in Nat /\ Len(u) = m + n
      /\ \A i \in 1..m : u[i] = cs[i]
      /\ \A i \in 1..n : u[m + i] = bs[i]
  <2>1. /\ Len(cs \o bs) = Len(cs) + Len(bs) /\ Len(cs) \in Nat /\ Len(bs) \in Nat
        /\ \A i \in 1..Len(cs) : (cs \o bs)[i] = cs[i]
        /\ \A i \in 1..Len(bs) : (cs \o bs)[Len(cs) + i] = bs[i]
    BY BuffCat
  <2> QED BY <2>1
<1> HIDE DEF m, n, u
<1> DEFINE A == {i \in 1..m : cs[i].ctx = s}
<1> DEFINE B == {i \in 1..n : bs[i].ctx = s}
<1> DEFINE C == {i \in (m + 1)..(m + n) : u[i].ctx = s}
<1>0. /\ \A i \in 1..m : i \in 1..(m + n)
      /\ \A i \in (m + 1)..(m + n) : i \in 1..(m + n) /\ i \notin 1..m
                                   /\ i - m \in 1..n /\ m + (i - m) = i
      /\ \A i \in 1..(m + n) : i \in 1..m \/ i \in (m + 1)..(m + n)
  BY <1>1
<1>2. {i \in 1..(m + n) : u[i].ctx = s} = A \cup C
  <2>1. ASSUME NEW i \in 1..(m + n) PROVE u[i].ctx = s <=> i \in A \cup C
    <3>1. CASE i \in 1..m
      BY <1>0, <1>1, <3>1
    <3>2. CASE i \in (m + 1)..(m + n)
      BY <1>0, <1>1, <3>2
    <3> HIDE DEF A, C
    <3> QED BY <1>0, <3>1, <3>2
  <2>2. \A i \in A \cup C : i \in 1..(m + n)
    BY <1>0
  <2> QED BY <2>1, <2>2
<1>3. A \cap C = {}
  BY <1>0
<1>4. IsFiniteSet(1..m) /\ IsFiniteSet(1..n) /\ IsFiniteSet((m + 1)..(m + n))
  BY <1>1, FS_Interval
<1>5. IsFiniteSet(A) /\ IsFiniteSet(B) /\ IsFiniteSet(C)
  BY <1>4, FS_Subset
<1>6. Cardinality(C) = Cardinality(B)
  <2> DEFINE f == [i \in B |-> m + i]
  <2>1. \A i \in B : m + i \in C
    BY <1>1
  <2>2. \A j \in C : j - m \in B /\ m + (j - m) = j
    <3>1. ASSUME NEW j \in C PROVE j - m \in B /\ m + (j - m) = j
      <4>1. j - m \in 1..n /\ m + (j - m) = j
        BY <1>1
      <4> QED BY <1>1, <4>1
    <3> QED BY <3>1
  <2>3. \A i, j \in B : m + i = m + j => i = j
    BY <1>1
  <2> HIDE DEF B, C
  <2>4. f \in Bijection(B, C)
    <3>1. f \in [B -> C]
      BY <2>1
    <3>2. \A i, j \in B : f[i] = f[j] => i = j
      BY <2>3
    <3>3. \A j \in C : \E i \in B : f[i] = j
      BY <2>2
    <3> HIDE DEF f
    <3>4. DOMAIN f = B
      BY <3>1
    <3> QED BY <3>1, <3>2, <3>3, <3>4 DEF Bijection, Injection, Surjection, IsInjective
  <2>5. ExistsBijection(B, C)
    BY <2>4 DEF ExistsBijection
  <2> HIDE DEF f
  <2> QED BY <1>5, <2>5, FS_Bijection
<1>7. /\ Cardinality(A \cup C) = Cardinality(A) + Cardinality(C) - Cardinality(A \cap C)
      /\ Cardinality(A) \in Nat /\ Cardinality(B) \in Nat
  <2> HIDE DEF A, B, C
  <2> QED BY <1>5, FS_Union, FS_CardinalityType
<1>8. Cardinality(A \cap C) = 0
  BY <1>3, FS_EmptySet
<1>9. /\ Count(u, s) = Cardinality(A \cup C)
      /\ Count(cs, s) = Cardinality(A) /\ Count(bs, s) = Cardinality(B)
  BY <1>1, <1>2 DEF Count, m, n
<1> HIDE DEF A, B, C
<1> QED BY <1>6, <1>7, <1>8, <1>9 DEF u

LEMMA CountTail ==
    ASSUME NEW bs \in Seq(BuffSet), bs # <<>>, NEW s
    PROVE  /\ Count(bs, s) = (IF bs[1].ctx = s THEN 1 ELSE 0) + Count(Tail(bs), s)
           /\ Count(Tail(bs), s) \in Nat
<1> DEFINE a == <<bs[1]>>
<1> DEFINE t == Tail(bs)
<1>1. a \in Seq(BuffSet) /\ t \in Seq(BuffSet) /\ bs = a \o t
  OBVIOUS
<1>2. Count(a, s) = IF bs[1].ctx = s THEN 1 ELSE 0
  BY CountOne
<1> HIDE DEF a, t
<1>3. Count(a \o t, s) = Count(a, s) + Count(t, s) /\ Count(t, s) \in Nat
  BY <1>1, CountCat
<1> QED BY <1>1, <1>2, <1>3 DEF t

\* A stream noted on two lists is noted on one of them.
LEMMA NotedCat ==
    ASSUME NEW cs \in Seq(BuffSet), NEW bs \in Seq(BuffSet), NEW s, NEW x
    PROVE  NotedAt(cs \o bs, s, x) <=> NotedAt(cs, s, x) \/ NotedAt(bs, s, x)
<1> DEFINE m == Len(cs)
<1> DEFINE n == Len(bs)
<1> DEFINE u == cs \o bs
<1>1. /\ m \in Nat /\ n \in Nat /\ Len(u) = m + n
      /\ \A i \in 1..m : u[i] = cs[i]
      /\ \A i \in 1..n : u[m + i] = bs[i]
  <2>1. /\ Len(cs \o bs) = Len(cs) + Len(bs) /\ Len(cs) \in Nat /\ Len(bs) \in Nat
        /\ \A i \in 1..Len(cs) : (cs \o bs)[i] = cs[i]
        /\ \A i \in 1..Len(bs) : (cs \o bs)[Len(cs) + i] = bs[i]
    BY BuffCat
  <2> QED BY <2>1
<1> HIDE DEF m, n, u
<1>2. ASSUME NotedAt(u, s, x) PROVE NotedAt(cs, s, x) \/ NotedAt(bs, s, x)
  <2>1. PICK i \in 1..(m + n) : u[i].ctx = s /\ LastByte(u[i]) = x
    BY <1>1, <1>2 DEF NotedAt
  <2>2. CASE i \in 1..m
    BY <1>1, <2>1, <2>2 DEF NotedAt, m
  <2>3. CASE i \notin 1..m
    <3> DEFINE j == i - m
    <3>1. j \in 1..n /\ i = m + j
      BY <1>1, <2>3
    <3> HIDE DEF j
    <3>2. bs[j] = u[i]
      BY <1>1, <3>1
    <3> QED BY <2>1, <3>1, <3>2 DEF NotedAt, n
  <2> QED BY <2>2, <2>3
<1>3. ASSUME NotedAt(cs, s, x) PROVE NotedAt(u, s, x)
  <2>1. PICK i \in 1..m : cs[i].ctx = s /\ LastByte(cs[i]) = x
    BY <1>3 DEF NotedAt, m
  <2>2. i \in 1..(m + n)
    BY <1>1
  <2> QED BY <1>1, <2>1, <2>2 DEF NotedAt
<1>4. ASSUME NotedAt(bs, s, x) PROVE NotedAt(u, s, x)
  <2>1. PICK i \in 1..n : bs[i].ctx = s /\ LastByte(bs[i]) = x
    BY <1>4 DEF NotedAt, n
  <2>2. m + i \in 1..(m + n)
    BY <1>1
  <2> QED BY <1>1, <2>1, <2>2 DEF NotedAt
<1> QED BY <1>2, <1>3, <1>4 DEF u

LEMMA NotedOne ==
    ASSUME NEW b, NEW s, NEW x
    PROVE  NotedAt(<<b>>, s, x) <=> b.ctx = s /\ LastByte(b) = x
BY DEF NotedAt

LEMMA NotedEmpty == ASSUME NEW s, NEW x PROVE ~NotedAt(<<>>, s, x)
BY DEF NotedAt

LEMMA NotedTail ==
    ASSUME NEW bs \in Seq(BuffSet), bs # <<>>, NEW s, NEW x
    PROVE  NotedAt(bs, s, x) <=> (bs[1].ctx = s /\ LastByte(bs[1]) = x) \/ NotedAt(Tail(bs), s, x)
<1> DEFINE a == <<bs[1]>>
<1> DEFINE t == Tail(bs)
<1>1. a \in Seq(BuffSet) /\ t \in Seq(BuffSet) /\ bs = a \o t
  OBVIOUS
<1>2. NotedAt(a, s, x) <=> (bs[1].ctx = s /\ LastByte(bs[1]) = x)
  BY NotedOne
<1> HIDE DEF a, t
<1>3. NotedAt(a \o t, s, x) <=> NotedAt(a, s, x) \/ NotedAt(t, s, x)
  BY <1>1, NotedCat
<1> QED BY <1>1, <1>2, <1>3 DEF t

\* A count of one is one buffer.
LEMMA CountIsOne ==
    ASSUME NEW bs \in Seq(BuffSet), NEW s, Count(bs, s) = 1
    PROVE  \E i \in 1..Len(bs) : bs[i].ctx = s /\ \A j \in 1..Len(bs) : bs[j].ctx = s => j = i
<1> DEFINE S == {i \in 1..Len(bs) : bs[i].ctx = s}
<1>1. IsFiniteSet(S)
  <2>1. IsFiniteSet(1..Len(bs)) BY FS_Interval
  <2> QED BY <2>1, FS_Subset
<1>2. \A i \in S : i \in 1..Len(bs) /\ bs[i].ctx = s
  OBVIOUS
<1>3. \A i \in 1..Len(bs) : bs[i].ctx = s => i \in S
  OBVIOUS
<1>4. Cardinality(S) = 1
  BY DEF Count
<1> HIDE DEF S
<1>5. \E i : S = {i}
  BY <1>1, <1>4, FS_Singleton
<1> QED BY <1>2, <1>3, <1>5

\* No count, no note.
LEMMA CountNoted ==
    ASSUME NEW bs \in Seq(BuffSet), NEW s, Count(bs, s) = 0
    PROVE  \A x : ~NotedAt(bs, s, x)
<1> DEFINE S == {i \in 1..Len(bs) : bs[i].ctx = s}
<1>1. IsFiniteSet(S)
  <2>1. IsFiniteSet(1..Len(bs)) BY FS_Interval
  <2> QED BY <2>1, FS_Subset
<1>2. Cardinality(S) = 0
  BY DEF Count
<1>3. S = {}
  <2> HIDE DEF S
  <2> QED BY <1>1, <1>2, FS_EmptySet
<1> QED BY <1>3 DEF NotedAt

-----------------------------------------------------------------------------
\* x is one byte of pd.
Once(pd, x) == \E k \in 1..Len(pd) : pd[k] = x /\ \A j \in 1..Len(pd) : pd[j] = x => j = k

\* The place of a byte in what was pushed.
Pos(pd, x) == CHOOSE i \in 1..Len(pd) : pd[i] = x

\* A byte pushed once has one place.
LEMMA PosFacts ==
    ASSUME NEW pd, NEW x, Once(pd, x)
    PROVE  /\ Pos(pd, x) \in 1..Len(pd) /\ pd[Pos(pd, x)] = x
           /\ \A j \in 1..Len(pd) : pd[j] = x => j = Pos(pd, x)
<1>1. \E i \in 1..Len(pd) : pd[i] = x
  BY DEF Once
<1>2. Pos(pd, x) \in 1..Len(pd) /\ pd[Pos(pd, x)] = x
  BY <1>1 DEF Pos
<1> QED BY <1>2 DEF Once

\* More bytes do not move it.
LEMMA OnceStays ==
    ASSUME NEW pd \in Seq(Byte), NEW f \in Seq(Byte), NEW x, Once(pd, x),
           \A i \in 1..Len(f) : f[i] # x
    PROVE  Once(pd \o f, x) /\ Pos(pd \o f, x) = Pos(pd, x)
<1> DEFINE u == pd \o f
<1> DEFINE k == Pos(pd, x)
<1>1. k \in 1..Len(pd) /\ pd[k] = x /\ \A j \in 1..Len(pd) : pd[j] = x => j = k
  BY PosFacts
<1>2. /\ Len(u) = Len(pd) + Len(f) /\ Len(pd) \in Nat /\ Len(f) \in Nat
      /\ \A i \in 1..Len(pd) : u[i] = pd[i]
      /\ \A i \in 1..Len(f) : u[Len(pd) + i] = f[i]
  BY CatFacts
<1> HIDE DEF u, k
<1>3. k \in 1..Len(u) /\ u[k] = x
  BY <1>1, <1>2
<1>4. ASSUME NEW j \in 1..Len(u), u[j] = x PROVE j = k
  <2>1. CASE j \in 1..Len(pd)
    BY <1>1, <1>2, <1>4, <2>1
  <2>2. CASE j \notin 1..Len(pd)
    <3> DEFINE i == j - Len(pd)
    <3>1. i \in 1..Len(f) /\ j = Len(pd) + i
      BY <1>2, <2>2
    <3> HIDE DEF i
    <3> QED BY <1>2, <1>4, <3>1
  <2> QED BY <2>1, <2>2
<1>5. Once(u, x)
  BY <1>3, <1>4 DEF Once
<1>6. Pos(u, x) = k
  BY <1>4, <1>5, PosFacts
<1> QED BY <1>5, <1>6 DEF u, k

\* The last of what is appended.
LEMMA OnceLast ==
    ASSUME NEW pd \in Seq(Byte), NEW x \in Byte, \A i \in 1..(Len(pd) - 1) : pd[i] # x,
           Len(pd) > 0, pd[Len(pd)] = x
    PROVE  Once(pd, x) /\ Pos(pd, x) = Len(pd)
<1>1. Len(pd) \in 1..Len(pd)
  OBVIOUS
<1>2. \A j \in 1..Len(pd) : pd[j] = x => j = Len(pd)
  <2>1. \A j \in 1..Len(pd) : j # Len(pd) => j \in 1..(Len(pd) - 1)
    OBVIOUS
  <2> QED BY <2>1
<1>3. Once(pd, x)
  BY <1>1, <1>2 DEF Once
<1> QED BY <1>2, <1>3, PosFacts

-----------------------------------------------------------------------------
(* The invariant.                                                          *)

\* A buffer with a stream noted on it, and the last of a list, have bytes left.
Lively(bs, p) ==
  \A i \in 1..Len(bs) : bs[i].ctx # None \/ i = Len(bs) => Place(p, i) < bs[i].used

\* What the variables hold; every byte carries the number of its push.
Types ==
  /\ GoodList(buffers, hot) /\ Lively(buffers, hot) /\ (buffers = <<>>) = (hot = -1)
  /\ remove_list \in Seq(BuffSet)
  /\ offered \in Seq(Byte) /\ pushed \in Seq(Byte) /\ wire \in Seq(Byte)
  /\ pushes \in Nat /\ got \in Nat /\ write_wait \subseteq Streams
  /\ pc \in {"idle", "try", "socket", "success", "remove", "fin"}
  /\ \A k \in 1..Len(pushed) : pushed[k][1][1] < pushes

\* What each place in the callback goes with; only a running callback leaves
\* something to send, unless the connection is closed.
Turns ==
  /\ closed \in BOOLEAN /\ broken \in BOOLEAN
  /\ pc # "success" => got = 0
  /\ pc \in {"idle", "try", "socket"} => remove_list = <<>>
  /\ write_processing = (pc # "idle")
  /\ broken => closed /\ buffers = <<>> /\ pc \in {"fin", "idle"}
  /\ pc = "fin" => broken
  /\ pc = "idle" /\ ~closed => buffers = <<>>

\* left counts the buffered bytes but those just taken by the socket, and they
\* are what was pushed after those on the wire.
Counted ==
  /\ left = Len(Out(buffers, hot)) - got
  /\ ~broken => Splits(pushed, wire, got, Out(buffers, hot))

\* The socket works on the bytes of the first buffers, and readSuccess never has
\* more to account for than those.
Spanned ==
  /\ pc = "socket" =>
       \E k \in 1..Len(buffers) : Spans(buffers, k) /\ offered = Out(SubSeq(buffers, 1, k), hot)
  /\ pc = "success" /\ got > 0 =>
       \E k \in 1..Len(buffers) : Spans(buffers, k) /\ got <= Len(Out(SubSeq(buffers, 1, k), hot))

\* A sleeping writer is noted on one buffer, an awake one on none.
Notes ==
  \A s \in Streams :
    Count(remove_list, s) + Count(buffers, s) = IF s \in write_wait THEN 1 ELSE 0

\* The byte a writer waits for was pushed once, and is on the wire when its
\* buffer is on its way to remove_buff, unless the connection failed.
Places ==
  \A s \in Streams, x \in Byte :
    /\ NotedAt(remove_list, s, x) \/ NotedAt(buffers, s, x) => Once(pushed, x)
    /\ ~broken /\ NotedAt(remove_list, s, x) => Pos(pushed, x) <= Len(wire)

\* A tcp_nodelay buffer that went out is remembered until the socket is uncorked.
Corks ==
  /\ urgent \in BOOLEAN /\ tcp_cork \in BOOLEAN /\ tcp_no_cork_at_empty \in BOOLEAN
  /\ urgent => tcp_no_cork_at_empty
  /\ buffers = <<>> /\ ~broken => ~tcp_no_cork_at_empty

\* The inductive invariant.
BInv == Types /\ Turns /\ Counted /\ Spanned /\ Notes /\ Places /\ Corks

-----------------------------------------------------------------------------
\* AllBytes are the bytes of the list.
LEMMA AllIs ==
    ASSUME NEW bs, NEW h, GoodList(bs, h)
    PROVE  FlattenSeq([i \in 1..Len(bs) |->
              Bytes(bs[i], IF i = 1 /\ ~bs[1].sendfile THEN h ELSE 0)]) = Out(bs, h)
<1>1. ASSUME NEW i \in 1..Len(bs)
      PROVE  Bytes(bs[i], IF i = 1 /\ ~bs[1].sendfile THEN h ELSE 0) = Bytes(bs[i], Place(h, i))
  <2>1. CASE i = 1 /\ bs[1].sendfile
    <3>1. Bytes(bs[i], 0) = Bytes(bs[i], h)
      BY <2>1 DEF Bytes
    <3> QED BY <2>1, <3>1 DEF Place
  <2>2. CASE ~(i = 1 /\ bs[1].sendfile)
    BY <2>2 DEF Place
  <2> QED BY <2>1, <2>2
<1> QED BY <1>1 DEF Out, Parts

LEMMA PlaceNat == ASSUME NEW bs, NEW p, GoodList(bs, p), bs # <<>> PROVE p \in Nat
BY OutHead DEF GoodBuff

\* What is pushed: buffers of the pushes-th push, in memory or a file from its
\* start, with stream s noted on the last, which is not empty.
Fresh(bs, q, s) ==
  /\ GoodList(bs, 0) /\ bs # <<>>
  /\ \A i \in 1..Len(bs) : /\ bs[i].id = <<q, i - 1>> /\ bs[i].from = 0
                          /\ bs[i].ctx = IF i = Len(bs) THEN s ELSE None
  /\ bs[Len(bs)].used > 0

LEMMA FreshLively ==
    ASSUME NEW bs, NEW q, NEW s, Fresh(bs, q, s)
    PROVE  Lively(bs, 0)
<1>1. ASSUME NEW i \in 1..Len(bs), bs[i].ctx # None \/ i = Len(bs)
      PROVE  Place(0, i) < bs[i].used
  <2>1. i = Len(bs)
    BY <1>1 DEF Fresh
  <2> QED BY <2>1 DEF Fresh, Place
<1> QED BY <1>1 DEF Lively

LEMMA LivelyCat ==
    ASSUME NEW bs, NEW p, NEW cs, GoodList(bs, p), GoodList(cs, 0), bs # <<>>, cs # <<>>,
           Lively(bs, p), Lively(cs, 0)
    PROVE  Lively(bs \o cs, p)
<1> DEFINE m == Len(bs)
<1> DEFINE n == Len(cs)
<1> DEFINE u == bs \o cs
<1>1. /\ m \in Nat \ {0} /\ n \in Nat \ {0} /\ Len(u) = m + n
      /\ \A i \in 1..m : u[i] = bs[i]
      /\ \A i \in 1..n : u[m + i] = cs[i]
  <2>1. /\ bs \in Seq(BuffSet) /\ cs \in Seq(BuffSet) /\ Len(bs) # 0 /\ Len(cs) # 0
    BY DEF GoodList
  <2>2. /\ Len(bs \o cs) = Len(bs) + Len(cs) /\ Len(bs) \in Nat /\ Len(cs) \in Nat
        /\ \A i \in 1..Len(bs) : (bs \o cs)[i] = bs[i]
        /\ \A i \in 1..Len(cs) : (bs \o cs)[Len(bs) + i] = cs[i]
    BY <2>1, BuffCat
  <2> QED BY <2>1, <2>2
<1> HIDE DEF m, n, u
<1>2. ASSUME NEW i \in 1..(m + n), u[i].ctx # None \/ i = m + n PROVE Place(p, i) < u[i].used
  <2>1. CASE i \in 1..m
    <3>1. u[i] = bs[i] /\ i # m + n
      BY <1>1, <2>1
    <3> QED BY <1>2, <2>1, <3>1 DEF Lively, m
  <2>2. CASE i \notin 1..m
    <3> DEFINE j == i - m
    <3>1. j \in 1..n /\ i = m + j /\ (i = m + n => j = n) /\ i # 1
      BY <1>1, <2>2
    <3> HIDE DEF j
    <3>2. u[i] = cs[j]
      BY <1>1, <3>1
    <3>3. Place(0, j) < cs[j].used
      BY <1>2, <3>1, <3>2 DEF Lively, n
    <3> QED BY <3>1, <3>2, <3>3 DEF Place
  <2> QED BY <2>1, <2>2
<1> QED BY <1>1, <1>2 DEF Lively, u

LEMMA LivelyTail ==
    ASSUME NEW bs, NEW p, GoodList(bs, p), bs # <<>>, Lively(bs, p)
    PROVE  Lively(Tail(bs), 0)
<1> DEFINE t == Tail(bs)
<1>1. Len(t) = Len(bs) - 1 /\ Len(bs) \in Nat \ {0} /\ \A i \in 1..Len(t) : t[i] = bs[i + 1]
  BY DEF GoodList
<1> HIDE DEF t
<1>2. ASSUME NEW i \in 1..Len(t), t[i].ctx # None \/ i = Len(t) PROVE Place(0, i) < t[i].used
  <2>1. i + 1 \in 1..Len(bs) /\ (i = Len(t) => i + 1 = Len(bs)) /\ t[i] = bs[i + 1]
    BY <1>1
  <2>2. Place(p, i + 1) < bs[i + 1].used
    BY <1>2, <2>1 DEF Lively
  <2>3. Place(p, i + 1) = 0 /\ Place(0, i) = 0
    BY <1>1 DEF Place
  <2> QED BY <2>1, <2>2, <2>3
<1> QED BY <1>2 DEF Lively, t

\* A push brings bytes of its own number, the last of them noted.
LEMMA FreshOut ==
    ASSUME NEW bs, NEW q \in Nat, NEW s, Fresh(bs, q, s)
    PROVE  /\ Out(bs, 0) \in Seq(Byte) /\ Len(Out(bs, 0)) > 0
           /\ \A i \in 1..Len(Out(bs, 0)) : Out(bs, 0)[i][1][1] = q
           /\ Out(bs, 0)[Len(Out(bs, 0))] = LastByte(bs[Len(bs)])
           /\ \A i \in 1..(Len(Out(bs, 0)) - 1) : Out(bs, 0)[i] # LastByte(bs[Len(bs)])
           /\ LastByte(bs[Len(bs)]) \in Byte
<1> DEFINE n == Len(bs)
<1> DEFINE b == bs[n]
<1> DEFINE x == LastByte(b)
<1> DEFINE a == SubSeq(bs, 1, n - 1)
<1>1. GoodList(bs, 0) /\ n \in Nat \ {0} /\ n \in 1..n
  BY DEF Fresh, GoodList
<1>2. bs = a \o <<b>> /\ a \in Seq(BuffSet) /\ Len(a) = n - 1 /\ \A i \in 1..(n - 1) : a[i] = bs[i]
  BY <1>1 DEF GoodList
<1>3. GoodBuff(b, 0) /\ b.id = <<q, n - 1>> /\ b.from = 0 /\ b.used \in Nat \ {0}
  BY <1>1 DEF GoodList, Fresh, Place, GoodBuff, BuffSet
<1>4. \A i \in 1..(n - 1) : i \in 1..n /\ a[i] = bs[i] /\ GoodBuff(bs[i], 0) /\ bs[i].id = <<q, i - 1>>
                             /\ i - 1 # n - 1 /\ i - 1 \in Nat
  <2>1. ASSUME NEW i \in 1..(n - 1)
        PROVE  /\ i \in 1..n /\ a[i] = bs[i] /\ GoodBuff(bs[i], 0) /\ bs[i].id = <<q, i - 1>>
               /\ i - 1 # n - 1 /\ i - 1 \in Nat
    <3>1. i \in 1..n /\ i - 1 # n - 1 /\ i - 1 \in Nat
      BY <1>1
    <3>2. a[i] = bs[i]
      BY <1>2
    <3> HIDE DEF a, b
    <3>3. GoodBuff(bs[i], 0)
      BY <1>1, <3>1 DEF GoodList, Place
    <3>4. bs[i].id = <<q, i - 1>>
      BY <3>1 DEF Fresh
    <3> QED BY <3>1, <3>2, <3>3, <3>4
  <2> QED BY <2>1
<1> HIDE DEF a
<1>5. GoodList(a, 0)
  BY <1>2, <1>4 DEF GoodList, Place
<1>6. Out(<<b>>, 0) = Bytes(b, 0) /\ GoodList(<<b>>, 0)
  BY <1>3, OutOne
<1>7. Out(bs, 0) = Out(a, 0) \o Bytes(b, 0)
  <2>1. CASE a = <<>>
    <3>1. bs = <<b>>
      <4>1. <<>> \o <<b>> = <<b>>
        OBVIOUS
      <4> QED BY <1>2, <2>1, <4>1
    <3>2. Out(a, 0) = <<>>
      BY <2>1, OutEmpty
    <3>3. Bytes(b, 0) \in Seq(Byte)
      BY <1>3, BytesFacts
    <3>4. <<>> \o Bytes(b, 0) = Bytes(b, 0)
      BY <3>3
    <3> HIDE DEF b
    <3> QED BY <1>6, <3>1, <3>2, <3>4
  <2>2. CASE a # <<>>
    <3>1. Out(a \o <<b>>, 0) = Out(a, 0) \o Out(<<b>>, 0)
      BY <1>5, <1>6, <2>2, OutCat
    <3> HIDE DEF b
    <3> QED BY <1>2, <1>6, <3>1
  <2> QED BY <2>1, <2>2
<1> DEFINE f == Out(a, 0)
<1> DEFINE g == Bytes(b, 0)
<1> DEFINE E == {y \in Byte : y # x /\ y[1][1] = q}
<1>8. f \in Seq(E)
  <2>1. ASSUME NEW i \in 1..Len(a), NEW k \in Nat PROVE <<a[i].id, k>> \in E
    <3>1. i \in 1..(n - 1)
      BY <1>2
    <3>2. a[i].id = <<q, i - 1>> /\ i - 1 # n - 1 /\ i - 1 \in Nat /\ b.id = <<q, n - 1>>
      BY <1>3, <1>4, <3>1
    <3> HIDE DEF b, n
    <3>3. <<a[i].id, k>> \in Byte /\ <<a[i].id, k>>[1][1] = q
      BY <3>2 DEF Byte
    <3>4. <<a[i].id, k>> # x
      BY <3>2 DEF LastByte
    <3> QED BY <3>3, <3>4
  <2> HIDE DEF E
  <2> QED BY <1>5, <2>1, OutIn
<1>9. /\ g \in Seq(Byte) /\ Len(g) = b.used
      /\ \A k \in 1..b.used : g[k] = <<b.id, k>>
  <2>1. b.used - 0 = b.used
    BY <1>3
  <2>2. \A k \in 1..b.used : b.from + 0 + k = k
    BY <1>3
  <2> HIDE DEF b
  <2> DEFINE z == 0
  <2>3. /\ g \in Seq(Byte) /\ Len(g) = b.used - z
        /\ \A k \in 1..(b.used - z) : g[k] = <<b.id, b.from + z + k>>
    <3>1. GoodBuff(b, z) /\ g = Bytes(b, z)
      BY <1>3
    <3> HIDE DEF z, g
    <3> QED BY <3>1, BytesFacts
  <2> HIDE DEF g
  <2> QED BY <2>1, <2>2, <2>3
<1>10. x = <<b.id, b.used>> /\ x \in Byte
  <2>1. b.from + b.used = b.used
    BY <1>3
  <2>2. b.id \in Nat \X Nat /\ b.used \in Nat
    BY <1>3 DEF GoodBuff, BuffSet
  <2> HIDE DEF b
  <2> QED BY <2>1, <2>2 DEF LastByte, Byte
<1> DEFINE o == f \o g
<1>11. f \in Seq(Byte) /\ \A i \in 1..Len(f) : f[i] # x /\ f[i][1][1] = q
  <2> HIDE DEF f
  <2>1. \A i \in 1..Len(f) : f[i] \in E
    BY <1>8
  <2>2. f \in Seq(Byte)
    BY <1>8
  <2> QED BY <2>1, <2>2
<1> HIDE DEF E
<1>12. /\ o \in Seq(Byte) /\ Len(o) = Len(f) + b.used /\ Len(f) \in Nat
       /\ \A i \in 1..Len(f) : o[i] = f[i]
       /\ \A i \in 1..b.used : o[Len(f) + i] = <<b.id, i>>
  <2> HIDE DEF f, g, b
  <2> QED BY <1>9, <1>11, CatFacts
<1>13. ASSUME NEW i \in 1..Len(o) PROVE o[i][1][1] = q /\ (o[i] = x => i = Len(o))
  <2>0. b.used \in Nat /\ b.id[1] = q
    BY <1>3
  <2> HIDE DEF f, g, b, o, x
  <2>1. CASE i \in 1..Len(f)
    BY <1>11, <1>12, <2>1
  <2>2. CASE i \notin 1..Len(f)
    <3> DEFINE j == i - Len(f)
    <3>1. j \in 1..b.used /\ i = Len(f) + j
      BY <1>12, <2>0, <2>2
    <3> HIDE DEF j
    <3>2. o[i] = <<b.id, j>>
      BY <1>12, <3>1
    <3>3. o[i] = x => j = b.used
      BY <1>10, <3>2
    <3> QED BY <1>12, <2>0, <3>1, <3>2, <3>3
  <2> QED BY <2>1, <2>2
<1>14. Len(o) > 0 /\ o[Len(o)] = x
  <2>1. b.used \in 1..b.used
    BY <1>3
  <2> HIDE DEF f, g, b, o, x
  <2> QED BY <1>3, <1>10, <1>12, <2>1
<1>15. \A i \in 1..(Len(o) - 1) : i \in 1..Len(o) /\ i # Len(o)
  <2> HIDE DEF o
  <2> QED BY <1>12
<1> HIDE DEF x, b, n, f, g
<1>16. Out(bs, 0) = o
  BY <1>7 DEF f, g
<1> HIDE DEF o
<1>17. /\ Out(bs, 0) \in Seq(Byte) /\ Len(Out(bs, 0)) > 0
       /\ \A i \in 1..Len(Out(bs, 0)) : Out(bs, 0)[i][1][1] = q
       /\ Out(bs, 0)[Len(Out(bs, 0))] = x
       /\ \A i \in 1..(Len(Out(bs, 0)) - 1) : Out(bs, 0)[i] # x
       /\ x \in Byte
  BY <1>10, <1>12, <1>13, <1>14, <1>15, <1>16
<1> QED BY <1>17 DEF x, b, n

-----------------------------------------------------------------------------
(* A push keeps the invariant.                                             *)

\* A push, on a connection that is not closed, from outside the write callback.
Pushes(bs, s) ==
  /\ Fresh(bs, pushes, s) /\ Caller /\ ~closed /\ push(bs) /\ start_write
  /\ s \notin write_wait
  /\ write_wait' = IF s = None THEN write_wait ELSE write_wait \cup {s}
  /\ UNCHANGED <<corkVars, closed>>

LEMMA PushOut ==
    ASSUME BInv, NEW bs, NEW s, Pushes(bs, s)
    PROVE  /\ Out(buffers', hot') = Out(buffers, hot) \o Out(bs, 0)
           /\ GoodList(buffers', hot') /\ Lively(buffers', hot') /\ hot' # -1
           /\ pushed' = pushed \o Out(bs, 0) /\ left' = left + Len(Out(bs, 0))
           /\ Out(bs, 0) \in Seq(Byte) /\ Len(Out(bs, 0)) > 0
           /\ Out(buffers, hot) \in Seq(Byte)
           /\ buffers' = buffers \o bs /\ buffers' # <<>> /\ bs \in Seq(BuffSet)
           /\ buffers \in Seq(BuffSet)
<1>1. GoodList(bs, 0) /\ bs # <<>> /\ bs \in Seq(BuffSet) /\ Lively(bs, 0)
  <2>1. Fresh(bs, pushes, s)
    BY DEF Pushes
  <2>2. Lively(bs, 0)
    BY <2>1, FreshLively
  <2> QED BY <2>1, <2>2 DEF Fresh, GoodList
<1>2. GoodList(buffers, hot) /\ Lively(buffers, hot) /\ buffers \in Seq(BuffSet)
      /\ ((buffers = <<>>) = (hot = -1))
  BY DEF BInv, Types, GoodList
<1>3. Out(bs, 0) \in Seq(Byte) /\ Out(buffers, hot) \in Seq(Byte)
  BY <1>1, <1>2, OutType
<1>4. Len(Out(bs, 0)) > 0
  BY FreshOut DEF Pushes, BInv, Types
<1>5. left' = left + Len(Out(bs, 0))
  BY <1>1, OutLen DEF Pushes, push
<1>6. pushed' = pushed \o Out(bs, 0)
  <2>1. [i \in 1..Len(bs) |-> Bytes(bs[i], 0)] = Parts(bs, 0)
    BY DEF Parts, Place
  <2> QED BY <2>1 DEF Pushes, push, Out
<1>7. buffers' = buffers \o bs /\ hot' = IF buffers = <<>> THEN 0 ELSE hot
  BY DEF Pushes, push
<1>8. buffers' # <<>>
  <2>1. Len(bs) # 0 /\ Len(buffers \o bs) = Len(buffers) + Len(bs) /\ Len(bs) \in Nat
        /\ Len(buffers) \in Nat
    BY <1>1, <1>2, BuffCat
  <2>2. Len(buffers \o bs) # 0
    BY <2>1
  <2> QED BY <1>7, <2>2
<1>9. CASE buffers = <<>>
  <2>1. buffers' = bs /\ hot' = 0
    <3>1. <<>> \o bs = bs
      BY <1>1
    <3> QED BY <1>7, <1>9, <3>1
  <2>2. Out(buffers, hot) = <<>>
    BY <1>9, OutEmpty
  <2>3. <<>> \o Out(bs, 0) = Out(bs, 0)
    BY <1>3
  <2> QED BY <1>1, <1>2, <1>3, <1>4, <1>5, <1>6, <1>7, <1>8, <2>1, <2>2, <2>3
<1>10. CASE buffers # <<>>
  <2>1. hot' = hot /\ hot # -1
    BY <1>2, <1>7, <1>10
  <2>2. Out(buffers \o bs, hot) = Out(buffers, hot) \o Out(bs, 0) /\ GoodList(buffers \o bs, hot)
    BY <1>1, <1>2, <1>10, OutCat
  <2>3. Lively(buffers \o bs, hot)
    BY <1>1, <1>2, <1>10, LivelyCat
  <2> QED BY <1>1, <1>2, <1>3, <1>4, <1>5, <1>6, <1>7, <1>8, <2>1, <2>2, <2>3
<1> QED BY <1>9, <1>10

LEMMA PushTypes ==
    ASSUME BInv, NEW bs, NEW s \in Streams \cup {None}, Pushes(bs, s)
    PROVE  Types'
<1>1. /\ GoodList(buffers', hot') /\ Lively(buffers', hot') /\ hot' # -1 /\ buffers' # <<>>
      /\ pushed' = pushed \o Out(bs, 0) /\ Out(bs, 0) \in Seq(Byte)
  BY PushOut
<1>2. remove_list' = remove_list /\ offered' = offered /\ wire' = wire /\ got' = got
      /\ pushes' = pushes + 1
      /\ write_wait' = IF s = None THEN write_wait ELSE write_wait \cup {s}
  BY DEF Pushes, push, start_write
<1>3. pc' \in {"idle", "try", "socket", "success", "remove", "fin"}
  BY DEF Pushes, start_write, BInv, Types
<1>4. /\ remove_list \in Seq(BuffSet) /\ offered \in Seq(Byte) /\ pushed \in Seq(Byte)
      /\ wire \in Seq(Byte) /\ pushes \in Nat /\ got \in Nat /\ write_wait \subseteq Streams
      /\ \A k \in 1..Len(pushed) : pushed[k][1][1] < pushes
  BY DEF BInv, Types
<1>5. \A i \in 1..Len(Out(bs, 0)) : Out(bs, 0)[i][1][1] = pushes
  BY <1>4, FreshOut DEF Pushes
<1> DEFINE f == Out(bs, 0)
<1>6. f \in Seq(Byte) /\ \A i \in 1..Len(f) : f[i][1][1] = pushes
  BY <1>1, <1>5
<1>7. pushed' = pushed \o f
  BY <1>1
<1> HIDE DEF f
<1>8. pushed' \in Seq(Byte) /\ \A k \in 1..Len(pushed') : pushed'[k][1][1] < pushes + 1
  <2> DEFINE u == pushed \o f
  <2>1. /\ u \in Seq(Byte) /\ Len(u) = Len(pushed) + Len(f) /\ Len(pushed) \in Nat /\ Len(f) \in Nat
        /\ \A i \in 1..Len(pushed) : u[i] = pushed[i]
        /\ \A i \in 1..Len(f) : u[Len(pushed) + i] = f[i]
    BY <1>4, <1>6, CatFacts
  <2> HIDE DEF u
  <2>2. ASSUME NEW k \in 1..Len(u) PROVE u[k][1][1] < pushes + 1
    <3>0. u[k] \in Byte
      BY <2>1
    <3>1. CASE k \in 1..Len(pushed)
      <4>1. u[k] = pushed[k] /\ pushed[k][1][1] < pushes /\ u[k][1][1] \in Nat
        BY <1>4, <2>1, <3>0, <3>1 DEF Byte
      <4> QED BY <1>4, <4>1
    <3>2. CASE k \notin 1..Len(pushed)
      <4> DEFINE i == k - Len(pushed)
      <4>1. i \in 1..Len(f) /\ k = Len(pushed) + i
        BY <2>1, <3>2
      <4> HIDE DEF i
      <4>2. u[k] = f[i] /\ f[i][1][1] = pushes
        BY <1>6, <2>1, <4>1
      <4> QED BY <1>4, <4>2
    <3> QED BY <3>1, <3>2
  <2> QED BY <1>7, <2>1, <2>2 DEF u
<1>9. pushes + 1 \in Nat
  BY <1>4
<1>10. write_wait' \subseteq Streams
  BY <1>2, <1>4
<1> QED BY <1>1, <1>2, <1>3, <1>4, <1>8, <1>9, <1>10 DEF Types

LEMMA PushTurns ==
    ASSUME BInv, NEW bs, NEW s, Pushes(bs, s)
    PROVE  Turns'
<1>1. ~broken /\ broken' = broken /\ closed' = closed /\ ~closed /\ got' = got
      /\ remove_list' = remove_list
  BY DEF BInv, Turns, Pushes, push, start_write
<1>2. /\ pc \in {"idle", "try", "socket"}
      /\ pc' = IF pc = "idle" THEN "try" ELSE pc
      /\ write_processing' = TRUE
  <2>1. pc \in {"idle", "try", "socket"} /\ write_processing = (pc # "idle") /\ ~closed
    BY DEF Pushes, Caller, BInv, Turns
  <2> QED BY <2>1 DEF Pushes, start_write
<1>3. got = 0 /\ remove_list = <<>>
  BY <1>2 DEF BInv, Turns
<1>4. pc' \in {"try", "socket"}
  BY <1>2
<1>5. /\ closed' = FALSE /\ broken' = FALSE /\ got' = 0 /\ remove_list' = <<>>
      /\ write_processing' = TRUE /\ (pc' # "idle") = TRUE /\ pc' # "fin" /\ pc' # "idle"
  <2>1. closed \in BOOLEAN /\ broken \in BOOLEAN
    BY DEF BInv, Turns
  <2> QED BY <1>1, <1>2, <1>3, <1>4, <2>1
<1> QED BY <1>5 DEF Turns

LEMMA PushCounted ==
    ASSUME BInv, NEW bs, NEW s, Pushes(bs, s)
    PROVE  Counted'
<1>1. /\ Out(buffers', hot') = Out(buffers, hot) \o Out(bs, 0)
      /\ pushed' = pushed \o Out(bs, 0) /\ left' = left + Len(Out(bs, 0))
      /\ Out(bs, 0) \in Seq(Byte) /\ Out(buffers, hot) \in Seq(Byte)
  BY PushOut
<1>2. got' = got /\ wire' = wire /\ broken' = broken /\ ~broken /\ got \in Nat
  BY DEF BInv, Turns, Types, Pushes, push, start_write
<1>3. Splits(pushed, wire, got, Out(buffers, hot)) /\ left = Len(Out(buffers, hot)) - got
      /\ pushed \in Seq(Byte) /\ wire \in Seq(Byte)
  BY <1>2 DEF BInv, Counted, Types
<1>4. Splits(pushed \o Out(bs, 0), wire, got, Out(buffers, hot) \o Out(bs, 0))
  BY <1>1, <1>3, SplitsPush
<1> DEFINE a == Out(buffers, hot)
<1> DEFINE f == Out(bs, 0)
<1>5. left + Len(f) = Len(a \o f) - got
  <2>1. a \in Seq(Byte) /\ f \in Seq(Byte) /\ left = Len(a) - got
    BY <1>1, <1>3
  <2> HIDE DEF a, f
  <2>2. Len(a \o f) = Len(a) + Len(f) /\ Len(a) \in Nat /\ Len(f) \in Nat
    BY <2>1, CatFacts
  <2> QED BY <1>2, <2>1, <2>2
<1> QED BY <1>1, <1>2, <1>4, <1>5 DEF Counted

LEMMA PushSpanned ==
    ASSUME BInv, NEW bs, NEW s, Pushes(bs, s)
    PROVE  Spanned'
<1>1. buffers' = buffers \o bs /\ bs \in Seq(BuffSet) /\ buffers \in Seq(BuffSet)
  BY PushOut
<1>2. hot' = IF buffers = <<>> THEN 0 ELSE hot
  BY DEF Pushes, push
<1>3. offered' = offered /\ pc' # "success" /\ (pc' = "socket" => pc = "socket")
  BY DEF Pushes, Caller, start_write
<1>4. ASSUME pc' = "socket"
      PROVE  \E k \in 1..Len(buffers') : Spans(buffers', k) /\ offered' = Out(SubSeq(buffers', 1, k), hot')
  <2>1. PICK k \in 1..Len(buffers) : Spans(buffers, k) /\ offered = Out(SubSeq(buffers, 1, k), hot)
    BY <1>3, <1>4 DEF BInv, Spanned
  <2>2. Spans(buffers', k) /\ SubSeq(buffers', 1, k) = SubSeq(buffers, 1, k)
    BY <1>1, <2>1, SpanPush
  <2>3. k \in 1..Len(buffers')
    BY <2>2 DEF Spans
  <2>4. hot' = hot
    <3>1. buffers # <<>>
      BY <2>1
    <3> QED BY <1>2, <3>1
  <2> QED BY <1>3, <2>1, <2>2, <2>3, <2>4
<1> QED BY <1>3, <1>4 DEF Spanned

LEMMA FreshCount ==
    ASSUME NEW bs, NEW q, NEW s, Fresh(bs, q, s), NEW t, t # None
    PROVE  Count(bs, t) = IF t = s THEN 1 ELSE 0
<1>1. Len(bs) \in Nat \ {0} /\ \A i \in 1..Len(bs) : bs[i].ctx = IF i = Len(bs) THEN s ELSE None
  BY DEF Fresh, GoodList
<1>2. {i \in 1..Len(bs) : bs[i].ctx = t} = IF t = s THEN {Len(bs)} ELSE {}
  BY <1>1
<1>3. Cardinality({Len(bs)}) = 1 /\ Cardinality({}) = 0
  BY FS_EmptySet, FS_Singleton
<1> QED BY <1>2, <1>3 DEF Count

LEMMA PushNotes ==
    ASSUME BufferAssumption, BInv, NEW bs, NEW s, Pushes(bs, s)
    PROVE  Notes'
<1>1. buffers' = buffers \o bs /\ bs \in Seq(BuffSet) /\ buffers \in Seq(BuffSet)
  BY PushOut
<1>2. remove_list' = remove_list /\ s \notin write_wait
      /\ write_wait' = IF s = None THEN write_wait ELSE write_wait \cup {s}
  BY DEF Pushes, start_write
<1>3. ASSUME NEW t \in Streams
      PROVE  Count(remove_list', t) + Count(buffers', t) = IF t \in write_wait' THEN 1 ELSE 0
  <2>1. t # None
    BY DEF BufferAssumption, None
  <2>2. Count(bs, t) = IF t = s THEN 1 ELSE 0
    BY <2>1, FreshCount DEF Pushes
  <2>3. Count(remove_list, t) + Count(buffers, t) = IF t \in write_wait THEN 1 ELSE 0
    BY DEF BInv, Notes
  <2>4. Count(buffers \o bs, t) = Count(buffers, t) + Count(bs, t)
        /\ Count(buffers, t) \in Nat /\ Count(bs, t) \in Nat
    BY <1>1, CountCat
  <2>5. Count(remove_list, t) \in Nat
    BY CountCat, <1>1 DEF BInv, Types
  <2>6. Count(remove_list', t) = Count(remove_list, t)
        /\ Count(buffers', t) = Count(buffers, t) + Count(bs, t)
    BY <1>1, <1>2, <2>4
  <2>7. t \in write_wait' <=> t \in write_wait \/ t = s
    BY <1>2, <2>1
  <2>8. CASE t = s
    BY <1>2, <2>2, <2>3, <2>4, <2>5, <2>6, <2>7, <2>8
  <2>9. CASE t # s
    BY <1>2, <2>2, <2>3, <2>4, <2>5, <2>6, <2>7, <2>9
  <2> QED BY <2>8, <2>9
<1> QED BY <1>3 DEF Notes

LEMMA FreshNoted ==
    ASSUME NEW bs, NEW q, NEW s, Fresh(bs, q, s), NEW t, t # None, NEW x
    PROVE  NotedAt(bs, t, x) <=> t = s /\ x = LastByte(bs[Len(bs)])
<1>1. Len(bs) \in 1..Len(bs) /\ \A i \in 1..Len(bs) : bs[i].ctx = IF i = Len(bs) THEN s ELSE None
  BY DEF Fresh, GoodList
<1> QED BY <1>1 DEF NotedAt

\* Where the byte that ends a push is.
LEMMA PushPos ==
    ASSUME BInv, NEW bs, NEW s, Pushes(bs, s)
    PROVE  /\ \A x \in Byte : Once(pushed, x) => Once(pushed', x) /\ Pos(pushed', x) = Pos(pushed, x)
           /\ Once(pushed', LastByte(bs[Len(bs)]))
           /\ Pos(pushed', LastByte(bs[Len(bs)])) = Len(pushed')
<1> DEFINE f == Out(bs, 0)
<1> DEFINE y == LastByte(bs[Len(bs)])
<1>1. /\ pushed \in Seq(Byte) /\ pushes \in Nat
      /\ \A k \in 1..Len(pushed) : pushed[k][1][1] < pushes
  BY DEF BInv, Types
<1>2. pushed' = pushed \o f
  BY PushOut
<1>3. /\ f \in Seq(Byte) /\ Len(f) > 0 /\ \A i \in 1..Len(f) : f[i][1][1] = pushes
      /\ f[Len(f)] = y /\ y \in Byte /\ \A i \in 1..(Len(f) - 1) : f[i] # y
  BY <1>1, FreshOut DEF Pushes
<1> HIDE DEF f, y
<1>4. ASSUME NEW x \in Byte, Once(pushed, x)
      PROVE  Once(pushed', x) /\ Pos(pushed', x) = Pos(pushed, x)
  <2>1. Pos(pushed, x) \in 1..Len(pushed) /\ pushed[Pos(pushed, x)] = x
    BY <1>4, PosFacts
  <2>2. x[1][1] < pushes /\ x[1][1] \in Nat
    BY <1>1, <2>1 DEF Byte
  <2>3. \A i \in 1..Len(f) : f[i] # x
    BY <1>1, <1>3, <2>2
  <2> QED BY <1>1, <1>2, <1>3, <1>4, <2>3, OnceStays
<1> DEFINE u == pushed \o f
<1>5. /\ u \in Seq(Byte) /\ Len(u) = Len(pushed) + Len(f) /\ Len(pushed) \in Nat /\ Len(f) \in Nat
      /\ \A i \in 1..Len(pushed) : u[i] = pushed[i]
      /\ \A i \in 1..Len(f) : u[Len(pushed) + i] = f[i]
  BY <1>1, <1>3, CatFacts
<1> HIDE DEF u
<1>6. y[1][1] = pushes
  <2>1. Len(f) \in 1..Len(f)
    BY <1>3, <1>5
  <2> QED BY <1>3, <2>1
<1>7. ASSUME NEW i \in 1..(Len(u) - 1) PROVE u[i] # y
  <2>1. CASE i \in 1..Len(pushed)
    <3>1. u[i] = pushed[i] /\ pushed[i][1][1] < pushes
      BY <1>1, <1>5, <2>1
    <3> QED BY <1>1, <1>6, <3>1
  <2>2. CASE i \notin 1..Len(pushed)
    <3> DEFINE j == i - Len(pushed)
    <3>1. j \in 1..(Len(f) - 1) /\ j \in 1..Len(f) /\ i = Len(pushed) + j
      BY <1>5, <2>2
    <3> HIDE DEF j
    <3> QED BY <1>3, <1>5, <3>1
  <2> QED BY <2>1, <2>2
<1>8. Len(u) > 0 /\ u[Len(u)] = y
  <2>1. Len(f) \in 1..Len(f) /\ Len(u) > 0
    BY <1>3, <1>5
  <2> QED BY <1>3, <1>5, <2>1
<1>9. Once(u, y) /\ Pos(u, y) = Len(u)
  BY <1>3, <1>5, <1>7, <1>8, OnceLast
<1> QED BY <1>2, <1>4, <1>9 DEF u, y

LEMMA PushPlaces ==
    ASSUME BufferAssumption, BInv, NEW bs, NEW s, Pushes(bs, s)
    PROVE  Places'
<1>1. buffers' = buffers \o bs /\ bs \in Seq(BuffSet) /\ buffers \in Seq(BuffSet)
  BY PushOut
<1>2. remove_list' = remove_list /\ wire' = wire /\ broken' = broken
  BY DEF Pushes, push, start_write
<1>3. ASSUME NEW t \in Streams, NEW x \in Byte
      PROVE  /\ NotedAt(remove_list', t, x) \/ NotedAt(buffers', t, x) => Once(pushed', x)
             /\ ~broken' /\ NotedAt(remove_list', t, x) => Pos(pushed', x) <= Len(wire')
  <2>1. t # None
    BY DEF BufferAssumption, None
  <2>2. NotedAt(buffers', t, x) <=> NotedAt(buffers, t, x) \/ NotedAt(bs, t, x)
    BY <1>1, NotedCat
  <2>3. NotedAt(bs, t, x) => x = LastByte(bs[Len(bs)])
    BY <2>1, FreshNoted DEF Pushes
  <2>4. /\ NotedAt(remove_list, t, x) \/ NotedAt(buffers, t, x) => Once(pushed, x)
        /\ ~broken /\ NotedAt(remove_list, t, x) => Pos(pushed, x) <= Len(wire)
    BY DEF BInv, Places
  <2>5. /\ Once(pushed, x) => Once(pushed', x) /\ Pos(pushed', x) = Pos(pushed, x)
        /\ Once(pushed', LastByte(bs[Len(bs)]))
    BY PushPos
  <2> QED BY <1>2, <2>2, <2>3, <2>4, <2>5
<1> QED BY <1>3 DEF Places

\* A push keeps all of the invariant.
LEMMA PushStep ==
    ASSUME BufferAssumption, BInv, NEW bs, NEW s \in Streams \cup {None}, Pushes(bs, s)
    PROVE  BInv'
<1>1. Corks'
  <2>1. buffers' # <<>>
    BY PushOut
  <2> QED BY <2>1 DEF BInv, Corks, Pushes, corkVars
<1> QED BY <1>1, PushTypes, PushTurns, PushCounted, PushSpanned, PushNotes, PushPlaces DEF BInv

-----------------------------------------------------------------------------
(* The write callback, up to what the socket takes, and the ends of the    *)
(* connection.                                                             *)

\* MaxPrefix stops before a file.
LEMMA MaxPrefixFacts ==
    ASSUME NEW n \in Nat \ {0}
    PROVE  /\ MaxPrefix(n) \in 1..n /\ \A i \in 2..MaxPrefix(n) : ~buffers[i].sendfile
           /\ MaxPrefix(n) = n \/ buffers[MaxPrefix(n) + 1].sendfile
<1> DEFINE P(k) == (\A i \in 2..k : ~buffers[i].sendfile) /\ (k = n \/ buffers[k + 1].sendfile)
<1>1. \E k \in 1..n : P(k)
  <2>1. SUFFICES ASSUME \A k \in 1..n : ~P(k) PROVE FALSE
    OBVIOUS
  <2> DEFINE S == {m \in Nat : m + 1 <= n => \A i \in 2..(m + 1) : ~buffers[i].sendfile}
  <2>2. 0 \in S
    OBVIOUS
  <2>3. ASSUME NEW m \in Nat, m \in S PROVE m + 1 \in S
    <3>1. SUFFICES ASSUME m + 2 <= n, NEW i \in 2..(m + 2) PROVE ~buffers[i].sendfile
      <4>1. (m + 1) + 1 = m + 2
        OBVIOUS
      <4> QED BY <4>1
    <3>2. m + 1 \in 1..n /\ m + 1 # n /\ (m + 1) + 1 = m + 2
      BY <3>1
    <3>3. \A j \in 2..(m + 1) : ~buffers[j].sendfile
      BY <2>3, <3>1
    <3>4. ~buffers[m + 2].sendfile
      BY <2>1, <3>2, <3>3
    <3>5. i = m + 2 \/ i \in 2..(m + 1)
      OBVIOUS
    <3> QED BY <3>3, <3>4, <3>5
  <2>4. Nat \subseteq S
    <3> HIDE DEF S
    <3> QED BY <2>2, <2>3, NatInSet
  <2>5. n - 1 \in Nat /\ (n - 1) + 1 = n /\ n \in 1..n
    OBVIOUS
  <2>6. \A i \in 2..n : ~buffers[i].sendfile
    <3> DEFINE m == n - 1
    <3>1. m \in S /\ m + 1 = n /\ m + 1 <= n
      BY <2>4, <2>5
    <3> HIDE DEF m
    <3>2. \A i \in 2..(m + 1) : ~buffers[i].sendfile
      BY <3>1
    <3> QED BY <3>1, <3>2
  <2> QED BY <2>1, <2>5, <2>6
<1>2. MaxPrefix(n) = CHOOSE k \in 1..n : P(k)
  BY DEF MaxPrefix
<1> HIDE DEF P
<1>3. MaxPrefix(n) \in 1..n /\ P(MaxPrefix(n))
  BY <1>1, <1>2
<1> QED BY <1>3 DEF P

\* The iovec holds the bytes of the first buffers: all, as many as it has
\* entries for, a file alone, or up to the next file.
LEMMA OfferFacts ==
    ASSUME BufferAssumption, GoodList(buffers, hot), buffers # <<>>
    PROVE  \E k \in 1..Len(buffers) :
             /\ Spans(buffers, k) /\ Offer = Out(SubSeq(buffers, 1, k), hot)
             /\ \/ k = Len(buffers) \/ k = MaxIov - 1 \/ buffers[1].sendfile
                \/ k + 1 <= Len(buffers) /\ buffers[k + 1].sendfile
<1>1. Len(buffers) \in Nat \ {0} /\ MaxIov \in Nat \ {0, 1}
  BY DEF GoodList, BufferAssumption
<1>2. CASE buffers[1].sendfile
  <2>1. Offer = Bytes(buffers[1], 0) /\ Bytes(buffers[1], 0) = Bytes(buffers[1], hot)
    BY <1>2 DEF Offer, Bytes
  <2>2. SubSeq(buffers, 1, 1) = <<buffers[1]>>
    <3> DEFINE t == SubSeq(buffers, 1, 1)
    <3>1. 1 \in 1..Len(buffers) /\ 1 \in 1..1
      BY <1>1
    <3>2. t \in Seq(BuffSet) /\ Len(t) = 1 /\ t[1] = buffers[1]
      BY <3>1, FirstFacts DEF GoodList
    <3> HIDE DEF t
    <3>3. t = <<buffers[1]>>
      BY <3>2
    <3> QED BY <3>3 DEF t
  <2>3. Out(<<buffers[1]>>, hot) = Bytes(buffers[1], hot)
    BY OutHead, OutOne
  <2>4. Spans(buffers, 1) /\ 1 \in 1..Len(buffers)
    BY <1>1 DEF Spans
  <2> QED BY <1>2, <2>1, <2>2, <2>3, <2>4
<1>3. CASE ~buffers[1].sendfile
  <2> DEFINE room == IF Len(buffers) < MaxIov - 1 THEN Len(buffers) ELSE MaxIov - 1
  <2> DEFINE k == MaxPrefix(room)
  <2>1. room \in 1..Len(buffers) /\ room \in Nat \ {0} /\ (room = Len(buffers) \/ room = MaxIov - 1)
    BY <1>1
  <2> HIDE DEF room
  <2>2. k \in 1..room /\ (\A i \in 2..k : ~buffers[i].sendfile)
        /\ (k = room \/ buffers[k + 1].sendfile)
    BY <2>1, MaxPrefixFacts
  <2> HIDE DEF k
  <2>3. k \in 1..Len(buffers) /\ (k # room => k + 1 <= Len(buffers))
    BY <1>1, <2>1, <2>2
  <2>4. Spans(buffers, k)
    BY <1>3, <2>2, <2>3 DEF Spans
  <2>5. \A i \in 1..k : ~buffers[i].sendfile
    <3>1. \A i \in 1..k : i = 1 \/ i \in 2..k
      BY <2>3
    <3> QED BY <1>3, <2>2, <3>1
  <2>6. Offer = FlattenSeq([i \in 1..k |-> Memory(buffers[i], Place(hot, i))])
    BY <1>3 DEF Offer, Place, room, k
  <2>7. \A i \in 1..k : Memory(buffers[i], Place(hot, i)) = Bytes(buffers[i], Place(hot, i))
    BY <2>5 DEF Memory, Bytes
  <2> DEFINE t == SubSeq(buffers, 1, k)
  <2>8. Len(t) = k /\ \A i \in 1..k : t[i] = buffers[i]
    BY <2>3, FirstFacts
  <2> HIDE DEF t
  <2>9. Parts(t, hot) = [i \in 1..k |-> Memory(buffers[i], Place(hot, i))]
    BY <2>7, <2>8 DEF Parts
  <2>10. Offer = Out(t, hot)
    BY <2>6, <2>9 DEF Out
  <2> QED BY <2>1, <2>2, <2>3, <2>4, <2>10 DEF t
<1> QED BY <1>2, <1>3

\* What a list with bytes left is.
LEMMA LeftMeans ==
    ASSUME Types, Counted, left > 0
    PROVE  buffers # <<>>
<1>1. SUFFICES ASSUME buffers = <<>> PROVE FALSE
  OBVIOUS
<1>2. Out(buffers, hot) = <<>>
  BY <1>1, OutEmpty
<1> QED BY <1>2 DEF Counted, Types

\* The callback fills the iovec.
LEMMA TryWriteStep ==
    ASSUME BufferAssumption, BInv, TryWrite
    PROVE  BInv'
<1>1. buffers # <<>> /\ GoodList(buffers, hot)
  BY LeftMeans DEF TryWrite, BInv, Types
<1>2. PICK k \in 1..Len(buffers) : Spans(buffers, k) /\ Offer = Out(SubSeq(buffers, 1, k), hot)
  BY <1>1, OfferFacts
<1>3. Offer \in Seq(Byte)
  <2>1. GoodList(SubSeq(buffers, 1, k), hot)
    BY <1>1, FirstFacts
  <2> QED BY <1>2, <2>1, OutType
<1>4. UNCHANGED <<buffers, hot, left, tcp_no_cork_at_empty, urgent, write_wait, write_processing,
                  closed, got, remove_list, pushes, pushed, wire, broken>>
      /\ tcp_cork' = TRUE /\ offered' = Offer /\ pc = "try" /\ pc' = "socket"
  BY DEF TryWrite, bufVars, histVars
<1>5. Types'
  BY <1>3, <1>4 DEF BInv, Types
<1>6. Turns'
  BY <1>4 DEF BInv, Turns
<1>7. Counted' /\ Notes' /\ Places' /\ Corks'
  BY <1>4 DEF BInv, Counted, Notes, Places, Corks
<1>8. Spanned'
  BY <1>2, <1>4 DEF Spanned
<1> QED BY <1>5, <1>6, <1>7, <1>8 DEF BInv

\* A list whose last buffer has bytes left has bytes left.
LEMMA LastLive ==
    ASSUME NEW bs, NEW p, GoodList(bs, p), bs # <<>>, Place(p, Len(bs)) < bs[Len(bs)].used
    PROVE  Len(Out(bs, p)) > 0
<1> DEFINE n == Len(bs)
<1>2. n \in Nat \ {0} /\ n \in 1..n /\ p \in Nat
  BY PlaceNat DEF GoodList
<1>3. Place(p, n) < bs[n].used /\ GoodBuff(bs[n], Place(p, n))
  BY <1>2 DEF GoodList
<1> DEFINE o == Out(bs, p)
<1>4. o \in Seq(Byte)
  BY OutType
<1> DEFINE a == SubSeq(bs, 1, n - 1)
<1> DEFINE b == bs[n]
<1>5. CASE n = 1
  <2>1. /\ o = Bytes(bs[1], p) \o Out(Tail(bs), 0) /\ GoodBuff(bs[1], p)
        /\ GoodList(Tail(bs), 0)
    BY <1>2, OutHead
  <2> DEFINE f == Bytes(bs[1], p)
  <2> DEFINE g == Out(Tail(bs), 0)
  <2>2. f \in Seq(Byte) /\ Len(f) = bs[1].used - p /\ g \in Seq(Byte)
    BY <2>1, BytesFacts, OutType
  <2>3. o = f \o g
    BY <2>1
  <2> HIDE DEF f, g, o
  <2>4. Len(o) = Len(f) + Len(g) /\ Len(g) \in Nat
    BY <2>2, <2>3, CatFacts
  <2>5. bs[1].used \in Nat /\ p < bs[1].used
    BY <1>3, <1>5, <2>1 DEF Place, GoodBuff, BuffSet
  <2>6. Len(o) > 0
    BY <1>2, <1>4, <2>2, <2>4, <2>5
  <2> QED BY <2>6 DEF o
<1>6. CASE n # 1
  <2>1. n - 1 \in 1..Len(bs)
    <3> HIDE DEF n
    <3>1. n - 1 \in 1..n
      BY <1>2, <1>6
    <3> QED BY <3>1 DEF n
  <2>2. GoodList(a, p) /\ a # <<>>
    BY <1>2, <2>1, FirstFacts
  <2>3. bs = a \o <<b>>
    BY <1>2 DEF GoodList
  <2>4. GoodBuff(b, 0) /\ 0 < b.used
    BY <1>2, <1>3, <1>6 DEF Place
  <2>5. Out(<<b>>, 0) = Bytes(b, 0) /\ GoodList(<<b>>, 0)
    BY <2>4, OutOne
  <2> DEFINE f == Out(a, p)
  <2> DEFINE g == Bytes(b, 0)
  <2>6. f \in Seq(Byte) /\ g \in Seq(Byte) /\ Len(g) = b.used - 0
    BY <2>2, <2>4, OutType, BytesFacts
  <2> HIDE DEF a, b
  <2>7. o = f \o g
    <3>1. Out(a \o <<b>>, p) = f \o g
      BY <2>2, <2>5, OutCat
    <3> QED BY <2>3, <3>1
  <2>8. b.used \in Nat
    BY <2>4 DEF GoodBuff, BuffSet
  <2> HIDE DEF f, g, o
  <2>9. Len(o) = Len(f) + Len(g) /\ Len(f) \in Nat
    BY <2>6, <2>7, CatFacts
  <2>10. Len(o) > 0
    BY <1>4, <2>4, <2>6, <2>8, <2>9
  <2> QED BY <2>10 DEF o
<1> QED BY <1>5, <1>6

\* A drained list holds no buffer.
LEMMA Drained ==
    ASSUME Types, Counted, got = 0, left <= 0
    PROVE  buffers = <<>>
<1>1. ASSUME buffers # <<>> PROVE Len(Out(buffers, hot)) > 0
  <2>1. GoodList(buffers, hot) /\ Lively(buffers, hot) /\ Len(buffers) \in 1..Len(buffers)
    BY <1>1 DEF Types, GoodList
  <2> QED BY <1>1, <2>1, LastLive DEF Lively
<1>2. Out(buffers, hot) \in Seq(Byte)
  BY OutType DEF Types
<1>3. Len(Out(buffers, hot)) = 0
  <2> DEFINE o == Out(buffers, hot)
  <2>1. o \in Seq(Byte) /\ left = Len(o) - got
    BY <1>2 DEF Counted
  <2> HIDE DEF o
  <2>2. Len(o) = 0
    BY <2>1
  <2> QED BY <2>2 DEF o
<1> QED BY <1>1, <1>3

\* The callback ends: nothing is buffered.
LEMMA CloseWriteStep ==
    ASSUME BInv, CloseWrite
    PROVE  BInv'
<1>1. UNCHANGED <<buffers, hot, left, tcp_cork, tcp_no_cork_at_empty, urgent, write_wait, closed,
                  offered, got, remove_list, pushes, pushed, wire, broken>>
      /\ pc = "try" /\ pc' = "idle" /\ write_processing' = FALSE
  BY DEF CloseWrite, bufVars, histVars, corkVars
<1>2. buffers = <<>>
  BY <1>1, Drained DEF BInv, Turns, CloseWrite
<1>3. Types' /\ Counted' /\ Notes' /\ Places' /\ Corks' /\ Spanned'
  BY <1>1 DEF BInv, Types, Counted, Notes, Places, Corks, Spanned
<1>4. Turns'
  BY <1>1, <1>2 DEF BInv, Turns
<1> QED BY <1>3, <1>4 DEF BInv

\* The socket takes the first n bytes of the iovec.
LEMMA SocketTakesStep ==
    ASSUME BInv, NEW n \in 1..Len(offered), SocketTakes(n)
    PROVE  BInv'
<1>1. UNCHANGED <<buffers, hot, tcp_cork, tcp_no_cork_at_empty, urgent, write_wait,
                  write_processing, closed, remove_list, pushes, pushed, broken>>
      /\ pc = "socket" /\ pc' = "success" /\ wire' = wire \o SubSeq(offered, 1, n)
      /\ got' = n /\ left' = left - n /\ offered' = <<>>
  BY DEF SocketTakes, corkVars
<1>2. got = 0 /\ remove_list = <<>> /\ ~broken
  BY <1>1 DEF BInv, Turns
<1>3. PICK k \in 1..Len(buffers) : Spans(buffers, k) /\ offered = Out(SubSeq(buffers, 1, k), hot)
  BY <1>1 DEF BInv, Spanned
<1>4. GoodList(buffers, hot) /\ offered \in Seq(Byte) /\ wire \in Seq(Byte) /\ pushed \in Seq(Byte)
  BY DEF BInv, Types
<1>5. n \in Nat \ {0} /\ n <= Len(offered) /\ SubSeq(offered, 1, n) \in Seq(Byte)
  BY <1>4
<1>6. Types'
  <2>1. wire' \in Seq(Byte)
    BY <1>1, <1>4, <1>5, CatFacts
  <2>2. <<>> \in Seq(Byte)
    OBVIOUS
  <2> QED BY <1>1, <1>5, <2>1, <2>2 DEF BInv, Types
<1>7. Turns'
  BY <1>1 DEF BInv, Turns
<1>8. Counted'
  <2>1. Splits(pushed, wire, 0, Out(buffers, hot)) /\ left = Len(Out(buffers, hot)) - 0
    BY <1>2 DEF BInv, Counted
  <2>2. Prefix(offered, Out(buffers, hot))
    BY <1>3, <1>4, OutPrefix
  <2>3. Out(buffers, hot) \in Seq(Byte)
    BY <1>4, OutType
  <2>4. Splits(pushed, wire \o SubSeq(offered, 1, n), n, Out(buffers, hot))
    BY <1>4, <2>1, <2>2, <2>3, SplitsTake
  <2> DEFINE o == Out(buffers, hot)
  <2>5. left - n = Len(o) - n
    <3>1. o \in Seq(Byte) /\ left = Len(o) - 0
      BY <2>1, <2>3
    <3> HIDE DEF o
    <3> QED BY <3>1, <1>5
  <2> QED BY <1>1, <1>2, <2>4, <2>5 DEF Counted
<1>9. Spanned'
  <2>1. n <= Len(Out(SubSeq(buffers, 1, k), hot))
    BY <1>3, <1>5
  <2> QED BY <1>1, <1>3, <2>1 DEF Spanned
<1>10. Notes' /\ Corks'
  BY <1>1 DEF BInv, Notes, Corks
<1>11. Places'
  <2>1. \A t \in Streams, x \in Byte : ~NotedAt(remove_list, t, x)
    BY <1>2, NotedEmpty
  <2> QED BY <1>1, <2>1 DEF BInv, Places
<1> QED BY <1>6, <1>7, <1>8, <1>9, <1>10, <1>11 DEF BInv

LEMMA ConsumedStep ==
    ASSUME BInv, Consumed
    PROVE  BInv'
<1>1. UNCHANGED <<buffers, hot, left, write_wait, write_processing, closed, offered, got,
                  remove_list, pushes, pushed, wire, broken>>
      /\ pc = "success" /\ got = 0 /\ pc' = "remove"
  BY DEF Consumed, bufVars, histVars
<1>2. Types' /\ Counted' /\ Notes' /\ Places'
  BY <1>1 DEF BInv, Types, Counted, Notes, Places
<1>3. Turns' /\ Spanned'
  BY <1>1 DEF BInv, Turns, Spanned
<1>4. Corks'
  <2>1. CASE left = 0
    <3>1. /\ tcp_no_cork_at_empty' = FALSE
          /\ tcp_cork' = (tcp_cork /\ ~tcp_no_cork_at_empty)
          /\ urgent' = (urgent /\ ~tcp_no_cork_at_empty)
      BY <2>1 DEF Consumed, check_tcp_cork
    <3> QED BY <1>1, <3>1 DEF BInv, Corks
  <2>2. CASE left # 0
    <3>1. UNCHANGED <<tcp_cork, tcp_no_cork_at_empty, urgent>>
      BY <2>2 DEF Consumed, corkVars
    <3> QED BY <1>1, <3>1 DEF BInv, Corks
  <2> QED BY <2>1, <2>2
<1> QED BY <1>2, <1>3, <1>4 DEF BInv

\* clean wakes the writer noted on the buffer.
LEMMA RemoveBuffStep ==
    ASSUME BufferAssumption, BInv, RemoveBuff
    PROVE  BInv'
<1>1. UNCHANGED <<buffers, hot, left, tcp_cork, tcp_no_cork_at_empty, urgent, write_processing,
                  closed, pc, offered, got, pushes, pushed, wire, broken>>
      /\ pc \in {"remove", "fin"} /\ remove_list # <<>>
      /\ write_wait' = write_wait \ {remove_list[1].ctx} /\ remove_list' = Tail(remove_list)
  BY DEF RemoveBuff, bufVars, histVars, corkVars
<1>2. remove_list \in Seq(BuffSet) /\ Tail(remove_list) \in Seq(BuffSet)
      /\ buffers \in Seq(BuffSet)
  BY <1>1 DEF BInv, Types, GoodList
<1>3. Types'
  BY <1>1, <1>2 DEF BInv, Types
<1>4. Counted' /\ Corks'
  BY <1>1 DEF BInv, Counted, Corks
<1>5. Turns' /\ Spanned'
  BY <1>1 DEF BInv, Turns, Spanned
<1>6. Notes'
  <2>1. ASSUME NEW t \in Streams
        PROVE  Count(remove_list', t) + Count(buffers', t) = IF t \in write_wait' THEN 1 ELSE 0
    <3>1. Count(remove_list, t) + Count(buffers, t) = IF t \in write_wait THEN 1 ELSE 0
      BY DEF BInv, Notes
    <3>2. /\ Count(remove_list, t) = (IF remove_list[1].ctx = t THEN 1 ELSE 0)
                                     + Count(Tail(remove_list), t)
          /\ Count(Tail(remove_list), t) \in Nat
      BY <1>1, <1>2, CountTail
    <3>3. Count(buffers, t) \in Nat
      BY <1>2, CountCat
    <3>4. Count(remove_list', t) = Count(Tail(remove_list), t) /\ Count(buffers', t) = Count(buffers, t)
      BY <1>1
    <3>5. CASE remove_list[1].ctx = t
      <4>1. t \notin write_wait'
        BY <1>1, <3>5
      <4>2. Count(remove_list, t) = 1 + Count(Tail(remove_list), t)
        BY <3>2, <3>5
      <4> QED BY <3>1, <3>2, <3>3, <3>4, <4>1, <4>2
    <3>6. CASE remove_list[1].ctx # t
      <4>1. t \in write_wait' <=> t \in write_wait
        BY <1>1, <3>6
      <4>2. Count(remove_list, t) = Count(Tail(remove_list), t)
        BY <3>2, <3>6
      <4> QED BY <3>1, <3>4, <4>1, <4>2
    <3> QED BY <3>5, <3>6
  <2> QED BY <2>1 DEF Notes
<1>7. Places'
  <2>1. \A t \in Streams, x \in Byte : NotedAt(Tail(remove_list), t, x) => NotedAt(remove_list, t, x)
    BY <1>1, <1>2, NotedTail
  <2> QED BY <1>1, <2>1 DEF BInv, Places
<1> QED BY <1>3, <1>4, <1>5, <1>6, <1>7 DEF BInv

LEMMA RemovedStep ==
    ASSUME BInv, Removed
    PROVE  BInv'
<1>1. UNCHANGED <<buffers, hot, left, tcp_cork, tcp_no_cork_at_empty, urgent, write_wait, closed,
                  offered, got, remove_list, pushes, pushed, wire, broken>>
      /\ pc \in {"remove", "fin"} /\ remove_list = <<>>
      /\ pc' = (IF pc = "remove" THEN "try" ELSE "idle") /\ write_processing' = (pc = "remove")
  BY DEF Removed, bufVars, histVars, corkVars
<1>2. Types'
  BY <1>1 DEF BInv, Types
<1>3. Counted' /\ Notes' /\ Places' /\ Corks'
  BY <1>1 DEF BInv, Counted, Notes, Places, Corks
<1>4. Turns'
  <2>1. CASE pc = "remove"
    BY <1>1, <2>1 DEF BInv, Turns
  <2>2. CASE pc = "fin"
    BY <1>1, <2>2 DEF BInv, Turns
  <2> QED BY <1>1, <2>1, <2>2
<1>5. Spanned'
  BY <1>1 DEF BInv, Spanned
<1> QED BY <1>2, <1>3, <1>4, <1>5 DEF BInv

\* close(false) takes the whole list.
LEMMA WriteErrorStep ==
    ASSUME BInv, WriteError
    PROVE  BInv'
<1>1. UNCHANGED <<tcp_cork, tcp_no_cork_at_empty, urgent, write_wait, write_processing, got,
                  pushes, pushed, wire>>
      /\ pc = "socket" /\ pc' = "fin" /\ remove_list' = buffers /\ buffers' = <<>> /\ hot' = -1
      /\ left' = 0 /\ offered' = <<>> /\ closed' = TRUE /\ broken' = TRUE
  BY DEF WriteError, corkVars
<1>2. got = 0 /\ remove_list = <<>> /\ ~broken
  BY <1>1 DEF BInv, Turns
<1>3. Types'
  <2>1. GoodList(<<>>, -1) /\ Lively(<<>>, -1) /\ <<>> \in Seq(Byte)
    BY DEF GoodList, Lively
  <2>2. buffers \in Seq(BuffSet)
    BY DEF BInv, Types, GoodList
  <2> QED BY <1>1, <2>1, <2>2 DEF BInv, Types
<1>4. Turns'
  BY <1>1, <1>2 DEF BInv, Turns
<1>5. Counted'
  <2>1. Out(<<>>, -1) = <<>>
    BY OutEmpty
  <2> QED BY <1>1, <1>2, <2>1 DEF Counted
<1>6. Spanned'
  BY <1>1 DEF Spanned
<1>7. Notes'
  <2>1. \A t \in Streams : Count(<<>>, t) = 0
    BY CountEmpty
  <2>2. buffers \in Seq(BuffSet)
    BY DEF BInv, Types, GoodList
  <2>3. \A t \in Streams : Count(buffers, t) \in Nat
    BY <2>2, CountCat
  <2> QED BY <1>1, <1>2, <2>1, <2>3 DEF BInv, Notes
<1>8. Places'
  <2>1. \A t \in Streams, x \in Byte : ~NotedAt(<<>>, t, x)
    BY NotedEmpty
  <2> QED BY <1>1, <2>1 DEF BInv, Places
<1>9. Corks'
  BY <1>1 DEF BInv, Corks
<1> QED BY <1>3, <1>4, <1>5, <1>6, <1>7, <1>8, <1>9 DEF BInv

LEMMA ReadCloseStep ==
    ASSUME BInv, ReadClose
    PROVE  BInv'
<1>1. UNCHANGED <<buffers, hot, left, tcp_cork, tcp_no_cork_at_empty, urgent, write_wait,
                  write_processing, pc, offered, got, remove_list, pushes, pushed, wire, broken>>
      /\ closed' = TRUE
  BY DEF ReadClose, bufVars, histVars, corkVars, loopVars
<1>2. Types'
  BY <1>1 DEF BInv, Types
<1>3. Counted' /\ Notes' /\ Places' /\ Corks'
  BY <1>1 DEF BInv, Counted, Notes, Places, Corks
<1>4. Turns' /\ Spanned'
  BY <1>1 DEF BInv, Turns, Spanned
<1> QED BY <1>2, <1>3, <1>4 DEF BInv

-----------------------------------------------------------------------------
(* A turn of readSuccess.                                                  *)

\* The header and what is left of it, in a turn of readSuccess.
LEMMA ConsumeFacts ==
    ASSUME BInv, Consume
    PROVE  /\ buffers # <<>> /\ GoodBuff(buffers[1], hot) /\ GoodList(Tail(buffers), 0)
           /\ Tail(buffers) \in Seq(BuffSet) /\ buffers \in Seq(BuffSet)
           /\ Out(buffers, hot) = Bytes(buffers[1], hot) \o Out(Tail(buffers), 0)
           /\ HeaderLeft = buffers[1].used - hot /\ HeaderLeft \in Nat
           /\ got \in Nat \ {0} /\ pc = "success" /\ ~broken
           /\ hot \in Nat /\ buffers[1].used \in Nat /\ buffers[1].from \in Nat
<1>1. pc = "success" /\ got > 0 /\ got \in Nat /\ ~broken
  BY DEF Consume, BInv, Turns, Types
<1>2. buffers # <<>>
  BY <1>1 DEF BInv, Spanned
<1>3. GoodList(buffers, hot) /\ buffers \in Seq(BuffSet)
  BY DEF BInv, Types, GoodList
<1>4. /\ Out(buffers, hot) = Bytes(buffers[1], hot) \o Out(Tail(buffers), 0)
      /\ GoodBuff(buffers[1], hot) /\ GoodList(Tail(buffers), 0)
  BY <1>2, <1>3, OutHead
<1>5. hot \in Nat /\ buffers[1].used \in Nat /\ buffers[1].from \in Nat
      /\ hot <= buffers[1].used /\ (buffers[1].sendfile => hot = 0)
  BY <1>4 DEF GoodBuff, BuffSet
<1>6. HeaderLeft = buffers[1].used - hot /\ HeaderLeft \in Nat
  BY <1>5 DEF HeaderLeft
<1> QED BY <1>1, <1>2, <1>3, <1>4, <1>5, <1>6 DEF GoodList

\* What all turns leave alone.
LEMMA ConsumeRest ==
    ASSUME Consume
    PROVE  UNCHANGED <<left, write_wait, write_processing, closed, offered, pushes, pushed, wire,
                       broken>>
BY DEF Consume, histVars

-----------------------------------------------------------------------------
(* The header is used in part. *)

\* Buffer c read from q is the header with got more bytes gone.
Moved(c, q) ==
  /\ GoodBuff(c, q) /\ q < c.used
  /\ c.id = buffers[1].id /\ c.ctx = buffers[1].ctx /\ LastByte(c) = LastByte(buffers[1])
  /\ c.used - q = buffers[1].used - hot - got /\ c.from + q = buffers[1].from + hot + got

\* What is left of the header.
LEMMA PartFacts ==
    ASSUME BInv, Consume, ThisLen < HeaderLeft
    PROVE  \E c : /\ Moved(c, hot') /\ buffers' = <<c>> \o Tail(buffers)
                  /\ got' = 0 /\ got < HeaderLeft
                  /\ UNCHANGED <<tcp_cork, tcp_no_cork_at_empty, urgent, remove_list, pc>>
<1> DEFINE b == buffers[1]
<1>1. GoodBuff(b, hot) /\ buffers # <<>> /\ buffers \in Seq(BuffSet)
      /\ HeaderLeft = b.used - hot /\ HeaderLeft \in Nat /\ got \in Nat \ {0}
      /\ hot \in Nat /\ b.used \in Nat /\ b.from \in Nat
  BY ConsumeFacts
<1>2. got < HeaderLeft /\ ThisLen = got
  BY <1>1 DEF ThisLen
<1>3. /\ got' = got - got /\ buffers' = [buffers EXCEPT ![1] = Advanced]
      /\ hot' = (IF b.sendfile THEN hot ELSE hot + got)
      /\ UNCHANGED <<tcp_cork, tcp_no_cork_at_empty, urgent, remove_list, pc>>
  BY <1>2 DEF Consume, corkVars
<1>4. buffers' = <<Advanced>> \o Tail(buffers)
  <2> DEFINE c == Advanced
  <2> DEFINE u == [buffers EXCEPT ![1] = c]
  <2> DEFINE t == Tail(buffers)
  <2>1. c \in BuffSet
    <3>1. b.used - got \in Nat /\ b.from + got \in Nat /\ b \in BuffSet
      BY <1>1, <1>2 DEF GoodBuff
    <3>2. Advanced = IF b.sendfile THEN [b EXCEPT !.used = b.used - got, !.from = b.from + got] ELSE b
      BY <1>2 DEF Advanced
    <3> HIDE DEF b
    <3> QED BY <3>1, <3>2 DEF BuffSet
  <2> HIDE DEF c
  <2>2. u \in Seq(BuffSet) /\ Len(u) = Len(buffers) /\ u[1] = c
        /\ \A i \in 2..Len(buffers) : u[i] = buffers[i]
    BY <1>1, <2>1
  <2>3. t \in Seq(BuffSet) /\ Len(t) = Len(buffers) - 1 /\ Len(buffers) \in Nat \ {0}
        /\ \A i \in 1..Len(t) : t[i] = buffers[i + 1]
    BY <1>1
  <2> DEFINE v == <<c>> \o t
  <2>4. v \in Seq(BuffSet) /\ Len(v) = Len(buffers) /\ v[1] = c
        /\ \A i \in 2..Len(buffers) : v[i] = t[i - 1]
    <3> HIDE DEF t
    <3> QED BY <2>1, <2>3
  <2> HIDE DEF t, u, v
  <2>5. \A i \in 1..Len(buffers) : u[i] = v[i]
    <3>1. ASSUME NEW i \in 1..Len(buffers) PROVE u[i] = v[i]
      <4>1. CASE i = 1
        BY <2>2, <2>4, <4>1
      <4>2. CASE i # 1
        <5>1. i \in 2..Len(buffers) /\ i - 1 \in 1..Len(t) /\ (i - 1) + 1 = i
          BY <2>3, <4>2
        <5> QED BY <2>2, <2>3, <2>4, <5>1
      <4> QED BY <4>1, <4>2
    <3> QED BY <3>1
  <2>6. u = v
    BY <2>2, <2>4, <2>5, SameSeq
  <2> QED BY <1>3, <2>6 DEF u, v, t, c
<1>5. Moved(Advanced, hot')
  <2>1. CASE b.sendfile
    <3>1. hot = 0 /\ hot' = 0
      BY <1>1, <1>3, <2>1 DEF GoodBuff
    <3>2. Advanced = [b EXCEPT !.used = b.used - got, !.from = b.from + got]
      BY <1>2, <2>1 DEF Advanced
    <3> DEFINE c == Advanced
    <3>3. b \in BuffSet
      BY <1>1 DEF GoodBuff
    <3> HIDE DEF b
    <3>4. /\ c.used = b.used - got /\ c.from = b.from + got /\ c.id = b.id /\ c.ctx = b.ctx
          /\ c.sendfile = b.sendfile /\ c.tcp_nodelay = b.tcp_nodelay
      BY <3>2, <3>3 DEF BuffSet
    <3>5. c \in BuffSet
      <4>1. b.used - got \in Nat /\ b.from + got \in Nat
        BY <1>1, <1>2, <3>1
      <4> QED BY <3>2, <3>3, <4>1 DEF BuffSet
    <3> HIDE DEF c
    <3>6. GoodBuff(c, 0) /\ 0 < c.used
      <4>1. 0 \in Nat /\ 0 <= c.used /\ 0 < c.used
        BY <1>1, <1>2, <3>1, <3>4
      <4> QED BY <2>1, <3>4, <3>5, <4>1 DEF GoodBuff
    <3>7. c.from + c.used = b.from + b.used
      BY <1>1, <3>4
    <3>8. c.used - 0 = b.used - hot - got /\ c.from + 0 = b.from + hot + got
      BY <1>1, <3>1, <3>4
    <3> QED BY <3>1, <3>4, <3>6, <3>7, <3>8 DEF Moved, LastByte, b, c
  <2>2. CASE ~b.sendfile
    <3>1. hot' = hot + got /\ Advanced = b /\ b.from = 0
      BY <1>1, <1>3, <2>2 DEF GoodBuff, Advanced
    <3>2. b \in BuffSet
      BY <1>1 DEF GoodBuff
    <3> HIDE DEF b
    <3>3. hot + got \in Nat /\ hot + got < b.used /\ hot + got <= b.used
      BY <1>1, <1>2
    <3>4. GoodBuff(b, hot + got)
      BY <2>2, <3>1, <3>2, <3>3 DEF GoodBuff
    <3>5. b.used - (hot + got) = b.used - hot - got /\ b.from + (hot + got) = b.from + hot + got
      BY <1>1, <3>1
    <3> QED BY <3>1, <3>3, <3>4, <3>5 DEF Moved, b
  <2> QED BY <2>1, <2>2
<1>6. got - got = 0
  BY <1>1
<1> QED BY <1>2, <1>3, <1>4, <1>5, <1>6

\* g is h without its first n elements.
Shifted(g, h, n) == Len(g) = Len(h) - n /\ \A j \in 1..Len(g) : g[j] = h[n + j]

\* Two sequences followed by the same.
LEMMA CatShift ==
    ASSUME NEW h \in Seq(Byte), NEW g \in Seq(Byte), NEW y \in Seq(Byte), NEW n \in Nat,
           Shifted(g, h, n)
    PROVE  /\ g \o y \in Seq(Byte) /\ h \o y \in Seq(Byte) /\ Len(h \o y) \in Nat
           /\ Shifted(g \o y, h \o y, n)
<1>0. Len(g) = Len(h) - n /\ \A j \in 1..Len(g) : g[j] = h[n + j]
  BY DEF Shifted
<1> DEFINE o == h \o y
<1> DEFINE p == g \o y
<1>1. o \in Seq(Byte) /\ Len(o) = Len(h) + Len(y) /\ Len(h) \in Nat /\ Len(y) \in Nat
  BY CatFacts
<1>2. \A i \in 1..Len(h) : o[i] = h[i]
  BY CatFacts
<1>3. \A i \in 1..Len(y) : o[Len(h) + i] = y[i]
  BY CatFacts
<1>4. p \in Seq(Byte) /\ Len(p) = Len(g) + Len(y) /\ Len(g) \in Nat
  BY CatFacts
<1>5. \A i \in 1..Len(g) : p[i] = g[i]
  BY CatFacts
<1>6. \A i \in 1..Len(y) : p[Len(g) + i] = y[i]
  BY CatFacts
<1> HIDE DEF o, p
<1>7. ASSUME NEW j \in 1..Len(p) PROVE p[j] = o[n + j]
  <2>1. CASE j \in 1..Len(g)
    <3>1. n + j \in 1..Len(h)
      BY <1>0, <1>1, <1>4, <2>1
    <3> QED BY <1>0, <1>2, <1>5, <2>1, <3>1
  <2>2. CASE j \notin 1..Len(g)
    <3> DEFINE i == j - Len(g)
    <3>1. i \in 1..Len(y) /\ j = Len(g) + i /\ n + j = Len(h) + i
      BY <1>0, <1>1, <1>4, <2>2
    <3> HIDE DEF i
    <3> QED BY <1>3, <1>6, <3>1
  <2> QED BY <2>1, <2>2
<1>8. Len(p) = Len(o) - n /\ Len(o) \in Nat
  BY <1>0, <1>1, <1>4
<1>9. Shifted(p, o, n)
  BY <1>7, <1>8 DEF Shifted
<1> QED BY <1>1, <1>4, <1>8, <1>9 DEF o, p

\* The invariant after a header used in part.
LEMMA ConsumePart ==
    ASSUME BInv, Consume, ThisLen < HeaderLeft
    PROVE  BInv'
<1> DEFINE b == buffers[1]
<1> DEFINE t == Tail(buffers)
<1>1. PICK c : /\ Moved(c, hot') /\ buffers' = <<c>> \o t /\ got' = 0 /\ got < HeaderLeft
               /\ UNCHANGED <<tcp_cork, tcp_no_cork_at_empty, urgent, remove_list, pc>>
  BY PartFacts
<1>2. /\ buffers # <<>> /\ GoodBuff(b, hot) /\ GoodList(t, 0) /\ t \in Seq(BuffSet)
      /\ Out(buffers, hot) = Bytes(b, hot) \o Out(t, 0) /\ HeaderLeft = b.used - hot
      /\ got \in Nat \ {0} /\ pc = "success" /\ ~broken /\ buffers \in Seq(BuffSet)
      /\ hot \in Nat /\ b.used \in Nat
  BY ConsumeFacts
<1>3. UNCHANGED <<left, write_wait, write_processing, closed, offered, pushes, pushed, wire, broken>>
  BY ConsumeRest
<1>4. Len(t) = Len(buffers) - 1 /\ Len(buffers) \in Nat \ {0}
      /\ \A i \in 1..Len(t) : t[i] = buffers[i + 1]
  BY <1>2
<1>5. c \in BuffSet /\ GoodBuff(c, hot') /\ hot' \in Nat /\ hot' < c.used /\ c.used \in Nat
  BY <1>1 DEF Moved, GoodBuff, BuffSet
<1> DEFINE v == <<c>> \o t
<1> HIDE DEF t
<1>6. v \in Seq(BuffSet) /\ Len(v) = Len(buffers) /\ v[1] = c /\ v # <<>> /\ Tail(v) = t
      /\ \A i \in 2..Len(buffers) : v[i] = buffers[i] /\ i - 1 \in 1..Len(t) /\ v[i] = t[i - 1]
  <2>1. v \in Seq(BuffSet) /\ Len(v) = Len(buffers) /\ v[1] = c
    BY <1>2, <1>4, <1>5
  <2>2. ASSUME NEW i \in 2..Len(buffers)
        PROVE  v[i] = buffers[i] /\ i - 1 \in 1..Len(t) /\ v[i] = t[i - 1]
    <3>1. i - 1 \in 1..Len(t) /\ (i - 1) + 1 = i
      BY <1>4
    <3>2. v[i] = t[i - 1]
      BY <1>2, <1>4, <1>5, <3>1
    <3> HIDE DEF v
    <3>3. t[i - 1] = buffers[(i - 1) + 1]
      BY <1>4, <3>1
    <3> QED BY <3>1, <3>2, <3>3
  <2>3. Tail(v) = t
    BY <1>2, <1>5
  <2>4. v # <<>>
    <3> HIDE DEF v
    <3> QED BY <1>4, <2>1
  <2> QED BY <2>1, <2>2, <2>3, <2>4
<1> HIDE DEF v
<1>7. buffers' = v
  BY <1>1 DEF v
<1>8. GoodList(v, hot')
  <2>1. ASSUME NEW i \in 1..Len(v) PROVE GoodBuff(v[i], Place(hot', i))
    <3>1. CASE i = 1
      BY <1>5, <1>6, <3>1 DEF Place
    <3>2. CASE i # 1
      <4>1. i \in 2..Len(buffers) /\ i - 1 \in 1..Len(t)
        BY <1>4, <1>6, <3>2
      <4>2. GoodBuff(t[i - 1], Place(0, i - 1)) /\ Place(0, i - 1) = 0 /\ Place(hot', i) = 0
        BY <1>2, <3>2, <4>1 DEF GoodList, Place
      <4> QED BY <1>6, <4>1, <4>2
    <3> QED BY <3>1, <3>2
  <2> QED BY <1>6, <2>1 DEF GoodList
<1>9. Lively(v, hot')
  <2>1. ASSUME NEW i \in 1..Len(v), v[i].ctx # None \/ i = Len(v) PROVE Place(hot', i) < v[i].used
    <3>1. CASE i = 1
      BY <1>5, <1>6, <3>1 DEF Place
    <3>2. CASE i # 1
      <4>1. i \in 2..Len(buffers) /\ i \in 1..Len(buffers) /\ v[i] = buffers[i]
        BY <1>4, <1>6, <3>2
      <4>2. Place(hot, i) < buffers[i].used
        BY <1>6, <2>1, <4>1 DEF BInv, Types, Lively
      <4> QED BY <3>2, <4>1, <4>2 DEF Place
    <3> QED BY <3>1, <3>2
  <2> QED BY <2>1 DEF Lively
<1>10. Types'
  <2>1. hot' # -1
    BY <1>5
  <2>2. 0 \in Nat
    OBVIOUS
  <2> QED BY <1>1, <1>3, <1>6, <1>7, <1>8, <1>9, <2>1, <2>2 DEF BInv, Types
<1>11. Turns'
  BY <1>1, <1>2, <1>3 DEF BInv, Turns
<1> DEFINE o == Out(buffers, hot)
<1> DEFINE h == Bytes(b, hot)
<1> DEFINE y == Out(t, 0)
<1> DEFINE g == Bytes(c, hot')
<1> DEFINE p == Out(v, hot')
<1>12. /\ o = h \o y /\ p = g \o y
       /\ h \in Seq(Byte) /\ y \in Seq(Byte) /\ g \in Seq(Byte)
       /\ Len(h) = b.used - hot /\ Len(g) = Len(h) - got
       /\ \A j \in 1..Len(g) : g[j] = h[got + j]
  <2>1. p = g \o y
    BY <1>6, <1>8, OutHead
  <2>2. /\ h \in Seq(Byte) /\ Len(h) = b.used - hot
        /\ \A k \in 1..(b.used - hot) : h[k] = <<b.id, b.from + hot + k>>
    BY <1>2, BytesFacts
  <2>3. /\ g \in Seq(Byte) /\ Len(g) = c.used - hot'
        /\ \A k \in 1..(c.used - hot') : g[k] = <<c.id, c.from + hot' + k>>
    BY <1>5, BytesFacts
  <2>4. y \in Seq(Byte)
    BY <1>2, OutType
  <2>5. /\ c.id = b.id /\ c.used - hot' = b.used - hot - got
        /\ c.from + hot' = b.from + hot + got
    BY <1>1 DEF Moved
  <2> HIDE DEF o, h, y, g, p
  <2>6. b.from \in Nat
    BY ConsumeFacts
  <2>7. Len(g) = Len(h) - got
    BY <2>2, <2>3, <2>5
  <2>8. ASSUME NEW j \in 1..Len(g) PROVE g[j] = h[got + j]
    <3>1. got + j \in 1..(b.used - hot) /\ j \in 1..(c.used - hot')
      BY <1>2, <2>2, <2>3, <2>5
    <3>2. g[j] = <<c.id, c.from + hot' + j>> /\ h[got + j] = <<b.id, b.from + hot + (got + j)>>
      BY <2>2, <2>3, <3>1
    <3>3. b.from + hot + (got + j) = b.from + hot + got + j
      BY <1>2, <2>6, <3>1
    <3> QED BY <2>5, <3>2, <3>3
  <2> QED BY <1>2, <2>1, <2>2, <2>3, <2>4, <2>7, <2>8 DEF o, h, y
<1>13. got < Len(h)
  BY <1>1, <1>2, <1>12
<1> HIDE DEF h, g, y
<1>14. /\ p \in Seq(Byte) /\ o \in Seq(Byte) /\ Len(p) = Len(o) - got /\ Len(o) \in Nat
       /\ \A j \in 1..Len(p) : p[j] = o[got + j]
  <2>1. Shifted(g, h, got) /\ got \in Nat
    BY <1>2, <1>12 DEF Shifted
  <2>2. h \in Seq(Byte) /\ y \in Seq(Byte) /\ g \in Seq(Byte)
    BY <1>12
  <2>3. /\ g \o y \in Seq(Byte) /\ h \o y \in Seq(Byte) /\ Len(h \o y) \in Nat
        /\ Shifted(g \o y, h \o y, got)
    BY <2>1, <2>2, CatShift
  <2>4. p = g \o y /\ o = h \o y
    BY <1>12
  <2> HIDE DEF o, p
  <2> QED BY <2>3, <2>4 DEF Shifted
<1>15. Counted'
  <2>1. Splits(pushed, wire, got, o) /\ left = Len(o) - got
        /\ pushed \in Seq(Byte) /\ wire \in Seq(Byte)
    BY <1>2 DEF BInv, Counted, Types
  <2> HIDE DEF o, p
  <2>2. Splits(pushed, wire, got - got, p)
    <3>1. got \in 0..got /\ got \in Nat
      BY <1>2
    <3> QED BY <1>14, <2>1, <3>1, SplitsSkip
  <2>3. got - got = 0 /\ left = Len(p) - 0
    BY <1>2, <1>14, <2>1
  <2> QED BY <1>1, <1>3, <1>7, <2>2, <2>3 DEF Counted, p
<1>16. Spanned'
  BY <1>1, <1>2 DEF Spanned
<1>17. ASSUME NEW s, NEW x
       PROVE  /\ Count(v, s) = Count(buffers, s)
              /\ NotedAt(v, s, x) <=> NotedAt(buffers, s, x)
  <2>1. c.ctx = b.ctx /\ LastByte(c) = LastByte(b)
    BY <1>1 DEF Moved
  <2>2. Count(v, s) = (IF c.ctx = s THEN 1 ELSE 0) + Count(t, s)
    BY <1>6, CountTail
  <2>3. Count(buffers, s) = (IF b.ctx = s THEN 1 ELSE 0) + Count(t, s)
    BY <1>2, CountTail DEF t
  <2>4. NotedAt(v, s, x) <=> (c.ctx = s /\ LastByte(c) = x) \/ NotedAt(t, s, x)
    BY <1>6, NotedTail
  <2>5. NotedAt(buffers, s, x) <=> (b.ctx = s /\ LastByte(b) = x) \/ NotedAt(t, s, x)
    BY <1>2, NotedTail DEF t
  <2> HIDE DEF b
  <2> QED BY <2>1, <2>2, <2>3, <2>4, <2>5
<1>18. Notes'
  BY <1>1, <1>3, <1>7, <1>17 DEF BInv, Notes
<1>19. Places'
  BY <1>1, <1>3, <1>7, <1>17 DEF BInv, Places
<1>20. Corks'
  BY <1>1, <1>2, <1>3, <1>6, <1>7 DEF BInv, Corks
<1> QED BY <1>10, <1>11, <1>15, <1>16, <1>18, <1>19, <1>20 DEF BInv

-----------------------------------------------------------------------------
(* The header is used up.                                                  *)

\* The used header goes to the remove_list, got less its bytes.
LEMMA WholeFacts ==
    ASSUME BInv, Consume, ~(ThisLen < HeaderLeft)
    PROVE  \E c : /\ c \in BuffSet /\ c.ctx = buffers[1].ctx /\ LastByte(c) = LastByte(buffers[1])
                  /\ HeaderLeft <= got /\ got' = got - HeaderLeft
                  /\ buffers' = Tail(buffers) /\ remove_list' = <<c>> \o remove_list
                  /\ \/ got = HeaderLeft
                     \/ \E k \in 1..Len(Tail(buffers)) :
                          /\ Spans(Tail(buffers), k)
                          /\ got - HeaderLeft <= Len(Out(SubSeq(Tail(buffers), 1, k), 0))
<1> DEFINE b == buffers[1]
<1>1. GoodBuff(b, hot) /\ buffers # <<>> /\ HeaderLeft = b.used - hot /\ HeaderLeft \in Nat
      /\ got \in Nat \ {0} /\ hot \in Nat /\ b.used \in Nat /\ b.from \in Nat /\ pc = "success"
  BY ConsumeFacts
<1>2. HeaderLeft <= got /\ ThisLen = HeaderLeft
  BY <1>1 DEF ThisLen
<1>3. /\ got' = got - HeaderLeft /\ buffers' = Tail(buffers)
      /\ remove_list' = <<Advanced>> \o remove_list
  BY <1>2 DEF Consume
<1>4. PICK k \in 1..Len(buffers) :
        Spans(buffers, k) /\ got <= Len(Out(SubSeq(buffers, 1, k), hot))
  BY <1>1 DEF BInv, Spanned
<1>5. ASSUME got # HeaderLeft
      PROVE  /\ ~b.sendfile
             /\ \E i \in 1..Len(Tail(buffers)) :
                  /\ Spans(Tail(buffers), i)
                  /\ got - HeaderLeft <= Len(Out(SubSeq(Tail(buffers), 1, i), 0))
  <2>1. got > b.used - hot /\ got \in Nat
    BY <1>1, <1>2, <1>5
  <2>2. GoodList(buffers, hot)
    BY DEF BInv, Types
  <2>3. /\ Spans(Tail(buffers), k - 1) /\ ~b.sendfile
        /\ got - (b.used - hot) <= Len(Out(SubSeq(Tail(buffers), 1, k - 1), 0))
    BY <1>1, <1>4, <2>1, <2>2, SpanTail
  <2>4. k - 1 \in 1..Len(Tail(buffers))
    BY <2>3 DEF Spans
  <2>5. got - (b.used - hot) = got - HeaderLeft
    BY <1>1
  <2> QED BY <2>3, <2>4, <2>5
<1>6. /\ Advanced \in BuffSet /\ Advanced.ctx = b.ctx
      /\ LastByte(Advanced) = LastByte(b)
  <2>0. b \in BuffSet
    BY <1>1 DEF GoodBuff
  <2>1. CASE b.sendfile
    <3>1. got = HeaderLeft /\ HeaderLeft = b.used
      BY <1>1, <1>5, <2>1 DEF GoodBuff
    <3>2. Advanced = [b EXCEPT !.used = b.used - b.used, !.from = b.from + b.used]
      BY <1>2, <2>1, <3>1 DEF Advanced
    <3>3. b.used - b.used = 0 /\ b.from + b.used \in Nat /\ (b.from + b.used) + 0 = b.from + b.used
      BY <1>1
    <3> DEFINE c == Advanced
    <3> DEFINE e == b.from + b.used
    <3>4. c = [b EXCEPT !.used = 0, !.from = e] /\ e \in Nat /\ e + 0 = e
      BY <3>2, <3>3
    <3> HIDE DEF b, c, e
    <3>5. c.used = 0 /\ c.from = e /\ c.ctx = b.ctx /\ c.id = b.id
      BY <2>0, <3>4 DEF BuffSet
    <3>6. c \in BuffSet
      BY <2>0, <3>4 DEF BuffSet
    <3>7. LastByte(c) = <<b.id, e>>
      BY <3>4, <3>5 DEF LastByte
    <3> QED BY <3>5, <3>6, <3>7 DEF LastByte, b, c, e
  <2>2. CASE ~b.sendfile
    BY <2>0, <2>2 DEF Advanced
  <2> QED BY <2>1, <2>2
<1> HIDE DEF b
<1> QED BY <1>2, <1>3, <1>5, <1>6 DEF b

\* The list without it.
LEMMA WholeOut ==
    ASSUME BInv, Consume, HeaderLeft <= got
    PROVE  /\ Shifted(Out(Tail(buffers), 0), Out(buffers, hot), HeaderLeft)
           /\ Out(Tail(buffers), 0) \in Seq(Byte) /\ Out(buffers, hot) \in Seq(Byte)
           /\ Len(Out(buffers, hot)) \in Nat /\ HeaderLeft <= Len(Out(buffers, hot))
           /\ HeaderLeft > 0 => Out(buffers, hot)[HeaderLeft] = LastByte(buffers[1])
<1> DEFINE b == buffers[1]
<1> DEFINE h == Bytes(b, hot)
<1> DEFINE y == Out(Tail(buffers), 0)
<1> DEFINE o == h \o y
<1> DEFINE l == HeaderLeft
<1>1. GoodBuff(b, hot) /\ HeaderLeft = b.used - hot /\ HeaderLeft \in Nat
      /\ hot \in Nat /\ b.used \in Nat /\ b.from \in Nat /\ GoodList(Tail(buffers), 0)
      /\ Out(buffers, hot) = o
  BY ConsumeFacts
<1>2. h \in Seq(Byte) /\ Len(h) = b.used - hot
      /\ \A k \in 1..(b.used - hot) : h[k] = <<b.id, b.from + hot + k>>
  BY <1>1, BytesFacts
<1>3. y \in Seq(Byte)
  BY <1>1, OutType
<1>4. l = b.used - hot /\ l \in Nat
  BY <1>1
<1>5. l > 0 => h[l] = LastByte(b)
  <2>1. SUFFICES ASSUME l > 0 PROVE h[l] = LastByte(b)
    OBVIOUS
  <2>2. l \in 1..(b.used - hot) /\ b.from + hot + l = b.from + b.used
    <3> DEFINE u == b.used
    <3> DEFINE f == b.from
    <3>1. u \in Nat /\ f \in Nat /\ hot \in Nat /\ l = u - hot
      BY <1>1
    <3> HIDE DEF l, u, f
    <3>2. l \in 1..(u - hot) /\ f + hot + l = f + u
      BY <2>1, <3>1
    <3> QED BY <3>2 DEF u, f
  <2> HIDE DEF l, h, b
  <2> QED BY <1>2, <2>2 DEF LastByte
<1> HIDE DEF h, y, l, b
<1>6. o \in Seq(Byte) /\ Len(o) = Len(h) + Len(y) /\ Len(h) \in Nat /\ Len(y) \in Nat
  BY <1>2, <1>3, CatFacts
<1>7. \A i \in 1..Len(h) : o[i] = h[i]
  BY <1>2, <1>3, CatFacts
<1>8. \A i \in 1..Len(y) : o[Len(h) + i] = y[i]
  BY <1>2, <1>3, CatFacts
<1> HIDE DEF o
<1>9. Len(h) = l
  BY <1>2, <1>4
<1>10. Len(y) = Len(o) - l /\ l <= Len(o) /\ Len(o) \in Nat
  BY <1>4, <1>6, <1>9
<1>11. Shifted(y, o, l)
  BY <1>8, <1>9, <1>10 DEF Shifted
<1>12. l > 0 => o[l] = LastByte(b)
  <2>1. l > 0 => l \in 1..Len(h)
    BY <1>4, <1>9
  <2> QED BY <1>5, <1>7, <2>1
<1> QED BY <1>1, <1>3, <1>6, <1>10, <1>11, <1>12 DEF y, l, b

\* Its last byte is on the wire.
LEMMA WholePlaces ==
    ASSUME BufferAssumption, BInv, Consume, HeaderLeft <= got,
           NEW s \in Streams, NEW x \in Byte, buffers[1].ctx = s, LastByte(buffers[1]) = x
    PROVE  Once(pushed, x) /\ Pos(pushed, x) <= Len(wire)
<1>0. s # None
  BY DEF BufferAssumption, None
<1>1. buffers # <<>> /\ buffers \in Seq(BuffSet) /\ ~broken /\ hot \in Nat /\ buffers[1].used \in Nat
      /\ HeaderLeft = buffers[1].used - hot /\ HeaderLeft \in Nat /\ got \in Nat
  BY ConsumeFacts
<1>2. NotedAt(buffers, s, x)
  BY <1>1, NotedTail
<1>3. Once(pushed, x)
  BY <1>2 DEF BInv, Places
<1>4. HeaderLeft > 0
  <2>1. 1 \in 1..Len(buffers)
    BY <1>1
  <2>2. Place(hot, 1) < buffers[1].used
    BY <1>0, <2>1 DEF BInv, Types, Lively
  <2> QED BY <1>1, <2>2 DEF Place
<1> DEFINE o == Out(buffers, hot)
<1> DEFINE l == HeaderLeft
<1>5. o[l] = x /\ l <= Len(o) /\ Len(o) \in Nat /\ l \in Nat /\ l > 0 /\ l <= got
  BY <1>1, <1>4, WholeOut
<1>6. Splits(pushed, wire, got, o) /\ wire \in Seq(Byte) /\ pushed \in Seq(Byte)
  BY <1>1 DEF BInv, Counted, Types
<1> HIDE DEF o, l
<1> DEFINE n == Len(wire) - got + l
<1>7. l \in 1..Len(o) /\ n <= Len(wire) /\ n \in 1..Len(pushed) /\ Len(wire) \in Nat
  BY <1>1, <1>5, <1>6 DEF Splits
<1>8. pushed[n] = x
  BY <1>5, <1>6, <1>7 DEF Splits
<1> HIDE DEF n
<1>9. n = Pos(pushed, x)
  BY <1>3, <1>7, <1>8, PosFacts
<1> QED BY <1>3, <1>7, <1>9

\* The cork and the place in the callback after it.
LEMMA WholeCorks ==
    ASSUME BInv, Consume, ~(ThisLen < HeaderLeft)
    PROVE  /\ Corks'
           /\ hot' = IF Tail(buffers) = <<>> THEN -1 ELSE 0
           /\ pc' = IF Tail(buffers) = <<>> THEN "remove" ELSE pc
<1> DEFINE flag == tcp_no_cork_at_empty \/ buffers[1].tcp_nodelay
<1>1. buffers # <<>> /\ buffers \in Seq(BuffSet) /\ buffers[1].tcp_nodelay \in BOOLEAN
  <2>1. buffers # <<>> /\ buffers \in Seq(BuffSet) /\ GoodBuff(buffers[1], hot)
    BY ConsumeFacts
  <2> QED BY <2>1 DEF GoodBuff, BuffSet
<1>2. Len(buffers) = 1 <=> Tail(buffers) = <<>>
  <2> DEFINE t == Tail(buffers)
  <2>1. t \in Seq(BuffSet) /\ Len(t) = Len(buffers) - 1 /\ Len(buffers) \in Nat
    BY <1>1
  <2> HIDE DEF t
  <2>2. t = <<>> <=> Len(t) = 0
    <3>1. ASSUME Len(t) = 0 PROVE t = <<>>
      BY <2>1, <3>1
    <3>2. ASSUME t = <<>> PROVE Len(t) = 0
      BY <3>2
    <3> QED BY <3>1, <3>2
  <2>3. Len(t) = 0 <=> Len(buffers) = 1
    BY <2>1
  <2> QED BY <2>2, <2>3 DEF t
<1>3. urgent \in BOOLEAN /\ tcp_cork \in BOOLEAN /\ tcp_no_cork_at_empty \in BOOLEAN
      /\ (urgent => tcp_no_cork_at_empty)
  BY DEF BInv, Corks
<1>4. IF Len(buffers) = 1
      THEN hot' = -1 /\ pc' = "remove" /\ check_tcp_cork(flag)
      ELSE hot' = 0 /\ pc' = pc /\ keep_tcp_cork(flag)
  BY DEF Consume
<1>5. buffers' = Tail(buffers)
  BY DEF Consume
<1>6. CASE Len(buffers) = 1
  <2>1. tcp_no_cork_at_empty' = FALSE /\ tcp_cork' = (tcp_cork /\ ~flag)
        /\ urgent' = (urgent /\ ~flag)
    BY <1>4, <1>6 DEF check_tcp_cork
  <2>2. urgent' = FALSE /\ tcp_cork' \in BOOLEAN
    BY <1>3, <2>1
  <2>3. Corks'
    BY <2>1, <2>2 DEF Corks
  <2> QED BY <1>2, <1>4, <1>6, <2>3
<1>7. CASE Len(buffers) # 1
  <2>1. tcp_no_cork_at_empty' = flag /\ urgent' = (urgent \/ buffers[1].tcp_nodelay)
        /\ tcp_cork' = tcp_cork
    BY <1>4, <1>7 DEF keep_tcp_cork
  <2>2. urgent' \in BOOLEAN /\ tcp_no_cork_at_empty' \in BOOLEAN
        /\ (urgent' => tcp_no_cork_at_empty')
    BY <1>1, <1>3, <2>1
  <2>3. buffers' # <<>>
    BY <1>2, <1>5, <1>7
  <2>4. Corks'
    BY <1>3, <2>1, <2>2, <2>3 DEF Corks
  <2> QED BY <1>2, <1>4, <1>7, <2>4
<1> QED BY <1>6, <1>7

\* The invariant after a header used up.
LEMMA ConsumeWhole ==
    ASSUME BufferAssumption, BInv, Consume, ~(ThisLen < HeaderLeft)
    PROVE  BInv'
<1> DEFINE b == buffers[1]
<1> DEFINE t == Tail(buffers)
<1> DEFINE l == HeaderLeft
<1>1. PICK c : /\ c \in BuffSet /\ c.ctx = b.ctx /\ LastByte(c) = LastByte(b)
               /\ l <= got /\ got' = got - l
               /\ buffers' = t /\ remove_list' = <<c>> \o remove_list
               /\ \/ got = l
                  \/ \E k \in 1..Len(t) : /\ Spans(t, k)
                                          /\ got - l <= Len(Out(SubSeq(t, 1, k), 0))
  BY WholeFacts
<1>2. /\ buffers # <<>> /\ GoodList(t, 0) /\ t \in Seq(BuffSet) /\ buffers \in Seq(BuffSet)
      /\ l \in Nat /\ got \in Nat \ {0} /\ pc = "success" /\ ~broken
  BY ConsumeFacts
<1>3. UNCHANGED <<left, write_wait, write_processing, closed, offered, pushes, pushed, wire, broken>>
  BY ConsumeRest
<1>4. /\ Corks' /\ hot' = (IF t = <<>> THEN -1 ELSE 0) /\ pc' = IF t = <<>> THEN "remove" ELSE pc
  BY WholeCorks
<1>5. /\ Shifted(Out(t, 0), Out(buffers, hot), l)
      /\ Out(t, 0) \in Seq(Byte) /\ Out(buffers, hot) \in Seq(Byte)
      /\ Len(Out(buffers, hot)) \in Nat
  BY <1>1, WholeOut
<1> DEFINE v == <<c>> \o remove_list
<1>6. remove_list \in Seq(BuffSet) /\ v \in Seq(BuffSet) /\ v # <<>> /\ v[1] = c /\ Tail(v) = remove_list
  <2>1. remove_list \in Seq(BuffSet)
    BY DEF BInv, Types
  <2>2. v \in Seq(BuffSet) /\ v[1] = c /\ Len(v) = 1 + Len(remove_list) /\ Len(remove_list) \in Nat
    BY <1>1, <2>1
  <2>3. Tail(v) = remove_list
    BY <1>1, <2>1
  <2>4. v # <<>>
    <3> HIDE DEF v
    <3> QED BY <2>2
  <2> QED BY <2>1, <2>2, <2>3, <2>4
<1> HIDE DEF v
<1>7. remove_list' = v
  BY <1>1 DEF v
<1> HIDE DEF l, t
<1>8. Out(buffers', hot') = Out(t, 0) /\ GoodList(buffers', hot') /\ Lively(buffers', hot')
  <2>1. CASE t = <<>>
    <3>1. Out(<<>>, 0) = <<>> /\ Out(<<>>, -1) = <<>>
      BY OutEmpty
    <3>2. GoodList(<<>>, -1) /\ Lively(<<>>, -1)
      BY DEF GoodList, Lively
    <3> QED BY <1>1, <1>4, <2>1, <3>1, <3>2
  <2>2. CASE t # <<>>
    <3>1. GoodList(buffers, hot) /\ Lively(buffers, hot)
      BY DEF BInv, Types
    <3>2. Lively(t, 0)
      BY <1>2, <3>1, LivelyTail DEF t
    <3> QED BY <1>1, <1>2, <1>4, <2>2, <3>2
  <2> QED BY <2>1, <2>2
<1>9. Types'
  <2>1. (buffers' = <<>>) = (hot' = -1)
    BY <1>1, <1>4
  <2>2. pc' \in {"idle", "try", "socket", "success", "remove", "fin"}
    BY <1>2, <1>4
  <2>3. got' \in Nat
    BY <1>1, <1>2
  <2> QED BY <1>3, <1>6, <1>7, <1>8, <2>1, <2>2, <2>3 DEF BInv, Types
<1>10. t = <<>> => got' = 0
  <2>1. SUFFICES ASSUME t = <<>>, got # l PROVE FALSE
    BY <1>1, <1>2
  <2> QED BY <1>1, <2>1
<1>11. Turns'
  <2>1. pc' \in {"success", "remove"} /\ (pc' = "remove" => got' = 0)
    BY <1>2, <1>4, <1>10
  <2>2. write_processing = TRUE /\ broken = FALSE /\ closed \in BOOLEAN
    BY <1>2 DEF BInv, Turns
  <2> QED BY <1>3, <2>1, <2>2 DEF Turns
<1>12. Counted'
  <2> DEFINE o == Out(buffers, hot)
  <2> DEFINE p == Out(t, 0)
  <2>1. Splits(pushed, wire, got, o) /\ left = Len(o) - got
        /\ pushed \in Seq(Byte) /\ wire \in Seq(Byte)
    BY <1>2 DEF BInv, Counted, Types
  <2>2. p \in Seq(Byte) /\ o \in Seq(Byte) /\ Len(o) \in Nat /\ Len(p) = Len(o) - l
        /\ \A j \in 1..Len(p) : p[j] = o[l + j]
    BY <1>5 DEF Shifted
  <2> HIDE DEF o, p
  <2>3. Splits(pushed, wire, got - l, p)
    <3>1. l \in 0..got /\ got \in Nat
      BY <1>1, <1>2
    <3> QED BY <2>1, <2>2, <3>1, SplitsSkip
  <2>4. left = Len(p) - (got - l)
    BY <1>2, <2>1, <2>2
  <2> QED BY <1>1, <1>3, <1>8, <2>3, <2>4 DEF Counted, p
<1>13. Spanned'
  <2>1. pc' # "socket"
    BY <1>2, <1>4
  <2>2. ASSUME pc' = "success", got' > 0
        PROVE  \E k \in 1..Len(buffers') :
                 Spans(buffers', k) /\ got' <= Len(Out(SubSeq(buffers', 1, k), hot'))
    <3>1. t # <<>> /\ hot' = 0
      BY <1>2, <1>4, <2>2
    <3>2. got # l
      BY <1>1, <1>2, <2>2
    <3> QED BY <1>1, <3>1, <3>2
  <2> QED BY <2>1, <2>2 DEF Spanned
<1>14. ASSUME NEW s, NEW x
       PROVE  /\ Count(v, s) + Count(t, s) = Count(remove_list, s) + Count(buffers, s)
              /\ NotedAt(v, s, x) <=> (b.ctx = s /\ LastByte(b) = x) \/ NotedAt(remove_list, s, x)
              /\ NotedAt(t, s, x) => NotedAt(buffers, s, x)
  <2>1. c.ctx = b.ctx /\ LastByte(c) = LastByte(b)
    BY <1>1
  <2>2. Count(v, s) = (IF c.ctx = s THEN 1 ELSE 0) + Count(remove_list, s)
        /\ Count(remove_list, s) \in Nat
    BY <1>6, CountTail
  <2>3. Count(buffers, s) = (IF b.ctx = s THEN 1 ELSE 0) + Count(t, s) /\ Count(t, s) \in Nat
    BY <1>2, CountTail DEF t
  <2>4. NotedAt(v, s, x) <=> (c.ctx = s /\ LastByte(c) = x) \/ NotedAt(remove_list, s, x)
    BY <1>6, NotedTail
  <2>5. NotedAt(buffers, s, x) <=> (b.ctx = s /\ LastByte(b) = x) \/ NotedAt(t, s, x)
    BY <1>2, NotedTail DEF t
  <2> DEFINE z == IF b.ctx = s THEN 1 ELSE 0
  <2>6. z \in Nat /\ Count(v, s) = z + Count(remove_list, s) /\ Count(buffers, s) = z + Count(t, s)
    BY <2>1, <2>2, <2>3
  <2> HIDE DEF z
  <2>7. Count(v, s) + Count(t, s) = Count(remove_list, s) + Count(buffers, s)
    BY <2>2, <2>3, <2>6
  <2> HIDE DEF b
  <2> QED BY <2>1, <2>4, <2>5, <2>7
<1>15. Notes'
  BY <1>1, <1>3, <1>7, <1>14 DEF BInv, Notes
<1>16. Places'
  <2>1. ASSUME NEW s \in Streams, NEW x \in Byte
        PROVE  /\ NotedAt(v, s, x) \/ NotedAt(t, s, x) => Once(pushed, x)
               /\ NotedAt(v, s, x) => Pos(pushed, x) <= Len(wire)
    <3>1. /\ NotedAt(remove_list, s, x) \/ NotedAt(buffers, s, x) => Once(pushed, x)
          /\ NotedAt(remove_list, s, x) => Pos(pushed, x) <= Len(wire)
      BY <1>2 DEF BInv, Places
    <3>2. b.ctx = s /\ LastByte(b) = x => Once(pushed, x) /\ Pos(pushed, x) <= Len(wire)
      BY <1>1, WholePlaces DEF l
    <3>3. /\ NotedAt(v, s, x) <=> (b.ctx = s /\ LastByte(b) = x) \/ NotedAt(remove_list, s, x)
          /\ NotedAt(t, s, x) => NotedAt(buffers, s, x)
      BY <1>14
    <3> HIDE DEF b
    <3> QED BY <3>1, <3>2, <3>3
  <2> QED BY <1>1, <1>3, <1>7, <2>1 DEF Places
<1> QED BY <1>4, <1>9, <1>11, <1>12, <1>13, <1>15, <1>16 DEF BInv

-----------------------------------------------------------------------------
(* What the frames push, and the steps together.                           *)

\* What of a chain goes into a frame: its nodes in order, none of them emptied
\* by the cut, the last not empty.
CutOf(ps, c) ==
  /\ Len(ps) \in Nat \ {0} /\ Len(ps) <= Len(c) /\ ps[Len(ps)][2] # 0
  /\ \A i \in 1..Len(ps) : ps[i][1] = i /\ ps[i][2] \in Nat /\ (c[i] # 0 => ps[i][2] # 0)

\* What Cut returns.
LEMMA CutFacts ==
    ASSUME NEW c \in Seq(Nat), c # <<>>, c[Len(c)] # 0, NEW r \in Nat \ {0}
    PROVE  CutOf(Cut(c, r), c)
<1> DEFINE s == Sums(c)
<1> DEFINE l == Len(c)
<1> DEFINE P(i) == s[i - 1] < r /\ (i = l \/ r <= s[i])
<1>1. /\ l \in Nat \ {0} /\ c[l] # 0 /\ \A i \in 1..l : c[i] \in Nat
      /\ \A i \in 0..l : s[i] \in Nat
      /\ s[0] = 0 /\ \A i \in 1..l : s[i] = s[i - 1] + c[i]
  BY SumsFacts
<1> HIDE DEF s, l
<1>2. \E i \in 1..l : P(i)
  <2>1. SUFFICES ASSUME \A i \in 1..l : ~P(i) PROVE FALSE
    OBVIOUS
  <2> DEFINE S == {m \in Nat : m + 1 <= l => s[m] < r}
  <2>2. 0 \in S
    BY <1>1
  <2>3. ASSUME NEW m \in Nat, m \in S PROVE m + 1 \in S
    <3>1. SUFFICES ASSUME m + 2 <= l PROVE s[m + 1] < r
      <4>1. (m + 1) + 1 = m + 2
        OBVIOUS
      <4> QED BY <4>1
    <3>2. m + 1 \in 1..l /\ m + 1 # l /\ (m + 1) - 1 = m /\ m + 1 \in 0..l /\ m + 1 <= l
      BY <1>1, <3>1
    <3>3. s[m] < r
      BY <2>3, <3>2
    <3>4. ~(r <= s[m + 1])
      BY <2>1, <3>2, <3>3
    <3> QED BY <1>1, <3>2, <3>4
  <2>4. Nat \subseteq S
    <3> HIDE DEF S
    <3> QED BY <2>2, <2>3, NatInSet
  <2>5. l - 1 \in Nat /\ (l - 1) + 1 <= l /\ l \in 1..l
    BY <1>1
  <2>6. s[l - 1] < r
    BY <2>4, <2>5
  <2> QED BY <2>1, <2>5, <2>6
<1> DEFINE n == CHOOSE i \in 1..l : P(i)
<1> DEFINE d == r - s[n - 1]
<1>3. n \in 1..l /\ s[n - 1] < r /\ (n = l \/ r <= s[n])
  <2>1. n \in 1..l /\ P(n)
    <3> HIDE DEF P
    <3> QED BY <1>2
  <2> HIDE DEF n
  <2> QED BY <2>1
<1>4. Cut(c, r) = [i \in 1..n |-> <<i, IF i = n /\ d < c[i] THEN d ELSE c[i]>>]
  BY DEF Cut, s, l
<1> HIDE DEF n, d
<1>5. d \in Nat \ {0} /\ (n = l \/ d <= c[n]) /\ c[n] \in Nat
  <2>1. n - 1 \in 0..l /\ s[n - 1] \in Nat /\ s[n] = s[n - 1] + c[n] /\ c[n] \in Nat
    BY <1>1, <1>3
  <2>2. d = r - s[n - 1]
    BY DEF d
  <2> QED BY <1>3, <2>1, <2>2
<1>6. c[n] # 0
  BY <1>1, <1>3, <1>5
<1> DEFINE q == Cut(c, r)
<1> DEFINE e(i) == IF i = n /\ d < c[i] THEN d ELSE c[i]
<1>7. ASSUME NEW i \in 1..n PROVE e(i) \in Nat /\ (c[i] # 0 => e(i) # 0)
  <2>1. c[i] \in Nat
    BY <1>1, <1>3
  <2> QED BY <1>5, <2>1
<1>8. e(n) # 0
  BY <1>5, <1>6
<1>9. q = [i \in 1..n |-> <<i, e(i)>>]
  BY <1>4
<1> HIDE DEF q, e
<1>10. n \in Nat \ {0} /\ n <= l /\ n \in 1..n
  BY <1>1, <1>3
<1>11. Len(q) = n /\ \A i \in 1..n : q[i][1] = i /\ q[i][2] = e(i)
  BY <1>9, <1>10
<1>12. CutOf(q, c)
  BY <1>7, <1>8, <1>10, <1>11 DEF CutOf, l
<1> QED BY <1>12 DEF q

\* The data of a frame: nodes in order, the last not empty.
Data(ps) ==
  /\ Len(ps) \in Nat \ {0} /\ ps[Len(ps)][2] # 0
  /\ \A i \in 1..Len(ps) : ps[i][1] = i /\ ps[i][2] \in Nat

\* What a frame is made of.
LEMMA FrameFacts ==
    ASSUME BufferAssumption, NEW q \in Nat, q = pushes, NEW s \in Streams, NEW ps, Data(ps),
           NEW file \in BOOLEAN, NEW fin \in BOOLEAN
    PROVE  /\ Fresh(Frame(s, ps, file, fin), q, s)
           /\ Len(Frame(s, ps, file, fin)) = Len(ps) + 1
           /\ Frame(s, ps, file, fin)[1].used # 0 /\ ~Frame(s, ps, file, fin)[1].sendfile
           /\ \A i \in 1..Len(ps) : /\ Frame(s, ps, file, fin)[i + 1].used = ps[i][2]
                                   /\ Frame(s, ps, file, fin)[i + 1].sendfile = file
<1> DEFINE n == Len(ps)
<1> DEFINE h == Buff(<<q, 0>>, HeaderLen, FALSE, None, FALSE)
<1> DEFINE B(i) == Buff(<<q, ps[i][1]>>, ps[i][2], file, IF NoticeLast(i, n) THEN s ELSE None,
                        fin /\ i = n)
<1> DEFINE g == [i \in 1..n |-> B(i)]
<1>1. n \in Nat \ {0} /\ ps[n][2] # 0 /\ \A i \in 1..n : ps[i][1] = i /\ ps[i][2] \in Nat
  BY DEF Data
<1>2. HeaderLen \in Nat \ {0}
  BY DEF BufferAssumption
<1>3. Frame(s, ps, file, fin) = <<h>> \o g
  BY DEF Frame
<1> HIDE DEF n
<1>4. /\ h \in BuffSet /\ h.id = <<q, 0>> /\ h.used = HeaderLen /\ h.from = 0 /\ h.ctx = None
      /\ h.sendfile = FALSE
  BY <1>2 DEF Buff, BuffSet
<1>5. ASSUME NEW i \in 1..n
      PROVE  /\ B(i) \in BuffSet /\ B(i).id = <<q, i>> /\ B(i).used = ps[i][2] /\ B(i).from = 0
             /\ B(i).ctx = (IF i = n THEN s ELSE None) /\ B(i).sendfile = file
  <2> DEFINE k == ps[i][2]
  <2> DEFINE z == IF i = n THEN s ELSE None
  <2> DEFINE f == fin /\ i = n
  <2>1. ps[i][1] = i /\ k \in Nat /\ i \in Nat /\ z \in Streams \cup {None}
    BY <1>1
  <2>2. f \in BOOLEAN
    OBVIOUS
  <2>3. B(i) = [id |-> <<q, i>>, used |-> k, from |-> 0, sendfile |-> file, ctx |-> z,
                tcp_nodelay |-> f]
    BY <2>1 DEF Buff, NoticeLast
  <2> HIDE DEF B, k, z, f
  <2>4. B(i) \in BuffSet
    BY <2>1, <2>2, <2>3 DEF BuffSet
  <2> QED BY <2>3, <2>4 DEF k, z
<1> HIDE DEF h, B
<1>6. g \in Seq(BuffSet) /\ Len(g) = n /\ \A i \in 1..n : g[i] = B(i)
  <2>1. g \in [1..n -> BuffSet]
    BY <1>5
  <2> QED BY <1>1, <2>1
<1> HIDE DEF g
<1> DEFINE u == <<h>> \o g
<1>7. u \in Seq(BuffSet) /\ Len(u) = n + 1 /\ u[1] = h /\ \A i \in 1..n : u[i + 1] = B(i)
  <2> DEFINE a == <<h>>
  <2>1. a \in Seq(BuffSet) /\ Len(a) = 1 /\ a[1] = h
    BY <1>4
  <2> HIDE DEF a
  <2>2. /\ a \o g \in Seq(BuffSet) /\ Len(a \o g) = Len(a) + Len(g)
        /\ \A i \in 1..Len(a) : (a \o g)[i] = a[i]
    BY <1>6, <2>1, CatFacts
  <2>3. \A i \in 1..Len(g) : (a \o g)[Len(a) + i] = g[i]
    BY <1>6, <2>1, BuffCat
  <2>4. \A i \in 1..n : 1 + i = i + 1
    BY <1>1
  <2> QED BY <1>1, <1>6, <2>1, <2>2, <2>3, <2>4 DEF a
<1> HIDE DEF u
<1>8. ASSUME NEW i \in 1..Len(u)
      PROVE  /\ GoodBuff(u[i], 0) /\ u[i].id = <<q, i - 1>> /\ u[i].from = 0
             /\ u[i].ctx = IF i = Len(u) THEN s ELSE None
  <2>1. CASE i = 1
    <3>1. u[i] = h /\ i # Len(u) /\ i - 1 = 0 /\ 0 <= HeaderLen /\ 0 \in Nat
      BY <1>1, <1>2, <1>7, <2>1
    <3> QED BY <1>4, <3>1 DEF GoodBuff
  <2>2. CASE i # 1
    <3> DEFINE j == i - 1
    <3>1. j \in 1..n /\ i = j + 1 /\ (i = Len(u) <=> j = n)
      BY <1>1, <1>7, <2>2
    <3> HIDE DEF j
    <3>2. u[i] = B(j)
      BY <1>7, <3>1
    <3>3. /\ B(j) \in BuffSet /\ B(j).id = <<q, j>> /\ B(j).from = 0
          /\ B(j).ctx = IF j = n THEN s ELSE None
      BY <1>5, <3>1
    <3>4. GoodBuff(B(j), 0)
      <4>1. B(j).used \in Nat
        BY <3>3 DEF BuffSet
      <4>2. 0 <= B(j).used /\ 0 \in Nat
        BY <4>1
      <4> QED BY <3>3, <4>2 DEF GoodBuff
    <3>5. u[i].id = <<q, i - 1>>
      BY <3>2, <3>3 DEF j
    <3> QED BY <3>1, <3>2, <3>3, <3>4, <3>5
  <2> QED BY <2>1, <2>2
<1>9. u # <<>> /\ u[Len(u)].used > 0
  <2>1. n \in 1..n /\ ps[n][2] \in Nat \ {0}
    BY <1>1
  <2>2. u[n + 1] = B(n) /\ B(n).used = ps[n][2]
    BY <1>5, <1>7, <2>1
  <2> QED BY <1>1, <1>7, <2>1, <2>2
<1>10. GoodList(u, 0)
  BY <1>7, <1>8 DEF GoodList, Place
<1>11. Fresh(u, q, s)
  BY <1>8, <1>9, <1>10 DEF Fresh
<1>12. u[1].used # 0 /\ ~u[1].sendfile
  BY <1>2, <1>4, <1>7
<1>13. \A i \in 1..n : u[i + 1].used = ps[i][2] /\ u[i + 1].sendfile = file
  BY <1>5, <1>7
<1>14. Frame(s, ps, file, fin) = u
  BY <1>3 DEF u
<1> QED BY <1>7, <1>11, <1>12, <1>13, <1>14 DEF n

\* get_frame pushes one buffer nobody waits for.
LEMMA ControlPushes ==
    ASSUME BufferAssumption, Types, NEW f \in Controls, Control(f)
    PROVE  /\ Pushes(<<Buff(<<pushes, 0>>, HeaderLen + f.len, FALSE, None, f.tcp_nodelay)>>, None)
           /\ HeaderLen + f.len > 0
<1> DEFINE l == HeaderLen + f.len
<1> DEFINE b == Buff(<<pushes, 0>>, l, FALSE, None, f.tcp_nodelay)
<1>1. l \in Nat \ {0} /\ f.tcp_nodelay \in BOOLEAN /\ pushes \in Nat
  <2>1. f.len \in Nat /\ f.tcp_nodelay \in BOOLEAN /\ HeaderLen \in Nat \ {0}
    BY DEF BufferAssumption
  <2> QED BY <2>1 DEF Types
<1> HIDE DEF l
<1>2. /\ b \in BuffSet /\ b.id = <<pushes, 0>> /\ b.from = 0 /\ b.used = l /\ b.ctx = None
      /\ b.sendfile = FALSE
  BY <1>1 DEF Buff, BuffSet
<1> HIDE DEF b
<1>3. GoodBuff(b, 0)
  BY <1>1, <1>2 DEF GoodBuff
<1>4. GoodList(<<b>>, 0)
  BY <1>3, OutOne
<1>5. Fresh(<<b>>, pushes, None)
  <2>1. Len(<<b>>) = 1 /\ <<b>>[1] = b /\ <<b>> # <<>> /\ 1 - 1 = 0
    OBVIOUS
  <2>2. l > 0
    BY <1>1
  <2> QED BY <1>2, <1>4, <2>1, <2>2 DEF Fresh
<1>6. None \notin write_wait
  BY DEF Types, BufferAssumption, None
<1>7. Pushes(<<b>>, None)
  BY <1>5, <1>6 DEF Control, Pushes, b, l
<1> QED BY <1>1, <1>7 DEF b, l

\* build_write_buffer pushes a header and data buffers, noted on the last.
LEMMA WritePushes ==
    ASSUME BufferAssumption, Types, NEW s \in Streams, NEW ps, Data(ps),
           NEW file \in BOOLEAN, NEW fin \in BOOLEAN, Write(s, ps, file, fin)
    PROVE  Pushes(Frame(s, ps, file, fin), s)
<1>1. Fresh(Frame(s, ps, file, fin), pushes, s)
  BY FrameFacts DEF Types
<1>2. s # None
  BY DEF BufferAssumption, None
<1> QED BY <1>1, <1>2 DEF Write, Pushes

LEMMA FilePart ==
    ASSUME BufferAssumption, NEW r \in Rooms, NEW n \in FileLens
    PROVE  Data(<<<<1, IF r < n THEN r ELSE n>>>>)
<1>1. r \in Nat \ {0} /\ n \in Nat \ {0}
  BY DEF BufferAssumption
<1> DEFINE k == IF r < n THEN r ELSE n
<1>2. k \in Nat \ {0}
  BY <1>1
<1> HIDE DEF k
<1>3. Data(<<<<1, k>>>>)
  BY <1>2 DEF Data
<1> QED BY <1>3 DEF k

LEMMA ChainParts ==
    ASSUME BufferAssumption, NEW r \in Rooms, NEW c \in Chains
    PROVE  Data(Cut(c, r)) /\ CutOf(Cut(c, r), c) /\ c \in Seq(Nat)
<1>1. r \in Nat \ {0} /\ c \in Seq(Nat) /\ c # <<>> /\ c[Len(c)] # 0
  BY DEF BufferAssumption
<1>2. CutOf(Cut(c, r), c)
  BY <1>1, CutFacts
<1> QED BY <1>1, <1>2 DEF CutOf, Data

\* A writer's frame.
LEMMA WritingPushes ==
    ASSUME BufferAssumption, Types, Writing
    PROVE  \E s \in Streams : \E bs : Pushes(bs, s)
<1>1. PICK s \in Streams, r \in Rooms, fin \in BOOLEAN :
        \/ \E c \in Chains : Write(s, Cut(c, r), FALSE, fin)
        \/ \E n \in FileLens : Write(s, <<<<1, IF r < n THEN r ELSE n>>>>, TRUE, fin)
  BY DEF Writing
<1>2. CASE \E c \in Chains : Write(s, Cut(c, r), FALSE, fin)
  BY <1>2, ChainParts, WritePushes
<1>3. CASE \E n \in FileLens : Write(s, <<<<1, IF r < n THEN r ELSE n>>>>, TRUE, fin)
  BY <1>3, FilePart, WritePushes
<1> QED BY <1>1, <1>2, <1>3

LEMMA InitStep == ASSUME Init PROVE BInv
<1>1. /\ buffers = <<>> /\ hot = -1 /\ left = 0
      /\ tcp_cork = FALSE /\ tcp_no_cork_at_empty = FALSE /\ urgent = FALSE
      /\ write_wait = {} /\ write_processing = FALSE /\ closed = FALSE
      /\ pc = "idle" /\ offered = <<>> /\ got = 0 /\ remove_list = <<>>
      /\ pushes = 0 /\ pushed = <<>> /\ wire = <<>> /\ broken = FALSE
  BY DEF Init
<1>2. Types
  <2>1. GoodList(<<>>, -1) /\ Lively(<<>>, -1) /\ <<>> \in Seq(Byte) /\ <<>> \in Seq(BuffSet)
    BY DEF GoodList, Lively
  <2> QED BY <1>1, <2>1 DEF Types
<1>3. Turns
  BY <1>1 DEF Turns
<1>4. Counted
  <2>1. Out(<<>>, -1) = <<>>
    BY OutEmpty
  <2>2. Splits(<<>>, <<>>, 0, <<>>)
    BY DEF Splits
  <2> QED BY <1>1, <2>1, <2>2 DEF Counted
<1>5. Spanned
  BY <1>1 DEF Spanned
<1>6. Notes
  BY <1>1, CountEmpty DEF Notes
<1>7. Places
  BY <1>1, NotedEmpty DEF Places
<1>8. Corks
  BY <1>1 DEF Corks
<1> QED BY <1>2, <1>3, <1>4, <1>5, <1>6, <1>7, <1>8 DEF BInv

LEMMA StutterStep == ASSUME BInv, UNCHANGED vars PROVE BInv'
<1>1. UNCHANGED <<buffers, hot, left, tcp_cork, tcp_no_cork_at_empty, urgent, write_wait,
                  write_processing, closed, pc, offered, got, remove_list, pushes, pushed, wire,
                  broken>>
  BY DEF vars, bufVars, corkVars, loopVars, histVars
<1>2. Types'
  BY <1>1 DEF BInv, Types
<1>3. Turns' /\ Counted' /\ Spanned'
  BY <1>1 DEF BInv, Turns, Counted, Spanned
<1>4. Notes' /\ Places' /\ Corks'
  BY <1>1 DEF BInv, Notes, Places, Corks
<1> QED BY <1>2, <1>3, <1>4 DEF BInv

\* Every step keeps the invariant.
LEMMA NextStep == ASSUME BufferAssumption, BInv, [Next]_vars PROVE BInv'
<1>1. CASE \E f \in Controls : Control(f)
  BY <1>1, ControlPushes, PushStep DEF BInv
<1>2. CASE Writing
  BY <1>2, WritingPushes, PushStep DEF BInv
<1>3. CASE TryWrite
  BY <1>3, TryWriteStep
<1>4. CASE CloseWrite
  BY <1>4, CloseWriteStep
<1>5. CASE Consume
  BY <1>5, ConsumePart, ConsumeWhole
<1>6. CASE Consumed
  BY <1>6, ConsumedStep
<1>7. CASE RemoveBuff
  BY <1>7, RemoveBuffStep
<1>8. CASE Removed
  BY <1>8, RemovedStep
<1>9. CASE \E n \in 1..Len(offered) : SocketTakes(n)
  BY <1>9, SocketTakesStep
<1>10. CASE WriteError
  BY <1>10, WriteErrorStep
<1>11. CASE ReadClose
  BY <1>11, ReadCloseStep
<1>12. CASE UNCHANGED vars
  BY <1>12, StutterStep
<1> QED BY <1>1, <1>2, <1>3, <1>4, <1>5, <1>6, <1>7, <1>8, <1>9, <1>10, <1>11, <1>12
        DEF Next, Callback, Quiet

\* The invariant the two theorems below follow from.
LEMMA BufferCorrect == ASSUME BufferAssumption PROVE Spec => []BInv
<1>1. Init => BInv
  BY InitStep
<1>2. BInv /\ [Next]_vars => BInv'
  BY NextStep
<1> QED BY <1>1, <1>2, PTL DEF Spec

-----------------------------------------------------------------------------
(* KHttp2WriteBuffer implements SendQueue.                                 *)

\* Owed as a function of the state.
OwedBy(s, ww, all, pd) ==
  IF s \notin ww THEN 0 ELSE Pos(pd, LastByte(all[CHOOSE i \in 1..Len(all) : all[i].ctx = s]))

LEMMA OwedSame == ASSUME NEW s PROVE Owed(s) = OwedBy(s, write_wait, remove_list \o buffers, pushed)
BY DEF Owed, OwedBy, Pos, LastByte

LEMMA OwedSameNext ==
    ASSUME NEW s
    PROVE  Owed(s)' = OwedBy(s, write_wait', remove_list' \o buffers', pushed')
BY DEF Owed, OwedBy, Pos, LastByte

\* A sleeping writer is owed its last byte.
LEMMA OwedIs ==
    ASSUME NEW rl \in Seq(BuffSet), NEW bs \in Seq(BuffSet), NEW s, NEW ww, NEW pd, NEW x,
           Count(rl, s) + Count(bs, s) = 1, s \in ww, NotedAt(rl, s, x) \/ NotedAt(bs, s, x)
    PROVE  OwedBy(s, ww, rl \o bs, pd) = Pos(pd, x)
<1> DEFINE all == rl \o bs
<1>1. all \in Seq(BuffSet)
  OBVIOUS
<1>2. Count(all, s) = 1
  BY CountCat
<1>3. NotedAt(all, s, x)
  BY NotedCat
<1> HIDE DEF all
<1>4. PICK i \in 1..Len(all) :
        all[i].ctx = s /\ \A j \in 1..Len(all) : all[j].ctx = s => j = i
  BY <1>1, <1>2, CountIsOne
<1>5. LastByte(all[i]) = x
  BY <1>3, <1>4 DEF NotedAt
<1>6. (CHOOSE j \in 1..Len(all) : all[j].ctx = s) = i
  BY <1>4
<1>7. OwedBy(s, ww, all, pd) = Pos(pd, x)
  BY <1>5, <1>6 DEF OwedBy
<1> QED BY <1>7 DEF all

\* Where the writer is noted.
LEMMA AwaitsOne ==
    ASSUME NEW rl \in Seq(BuffSet), NEW bs \in Seq(BuffSet), NEW s,
           Count(rl, s) + Count(bs, s) = 1
    PROVE  \E x \in Byte : NotedAt(rl, s, x) \/ NotedAt(bs, s, x)
<1> DEFINE all == rl \o bs
<1>1. all \in Seq(BuffSet)
  OBVIOUS
<1>2. Count(all, s) = 1
  BY CountCat
<1>3. \A x : NotedAt(all, s, x) => NotedAt(rl, s, x) \/ NotedAt(bs, s, x)
  BY NotedCat
<1> HIDE DEF all
<1>4. PICK i \in 1..Len(all) : all[i].ctx = s
  BY <1>1, <1>2, CountIsOne
<1>5. LastByte(all[i]) \in Byte
  <2>1. all[i] \in BuffSet
    BY <1>1
  <2> QED BY <2>1 DEF LastByte, BuffSet, Byte
<1>6. NotedAt(all, s, LastByte(all[i]))
  BY <1>4 DEF NotedAt
<1> QED BY <1>3, <1>5, <1>6

\* What stream s waits for.
Awaits(s, x) == NotedAt(remove_list, s, x) \/ NotedAt(buffers, s, x)

\* A sleeping writer waits for a byte that was pushed.
LEMMA OwedNow ==
    ASSUME BInv, NEW s \in Streams, s \in write_wait
    PROVE  \E x \in Byte : /\ Awaits(s, x) /\ Owed(s) = Pos(pushed, x) /\ Once(pushed, x)
                           /\ Owed(s) \in 1..Len(pushed)
<1>1. remove_list \in Seq(BuffSet) /\ buffers \in Seq(BuffSet)
  BY DEF BInv, Types, GoodList
<1>2. Count(remove_list, s) + Count(buffers, s) = 1
  BY DEF BInv, Notes
<1>3. PICK x \in Byte : NotedAt(remove_list, s, x) \/ NotedAt(buffers, s, x)
  BY <1>1, <1>2, AwaitsOne
<1>4. Owed(s) = Pos(pushed, x)
  BY <1>1, <1>2, <1>3, OwedIs, OwedSame
<1>5. Once(pushed, x)
  BY <1>3 DEF BInv, Places
<1>6. Pos(pushed, x) \in 1..Len(pushed)
  BY <1>5, PosFacts
<1> QED BY <1>3, <1>4, <1>5, <1>6 DEF Awaits

LEMMA OwedNext ==
    ASSUME BInv', NEW s \in Streams, s \in write_wait', NEW x, Awaits(s, x)'
    PROVE  Owed(s)' = Pos(pushed', x)
<1>1. remove_list' \in Seq(BuffSet) /\ buffers' \in Seq(BuffSet)
  BY DEF BInv, Types, GoodList
<1>2. Count(remove_list', s) + Count(buffers', s) = 1
  BY DEF BInv, Notes, Count
<1>3. NotedAt(remove_list', s, x) \/ NotedAt(buffers', s, x)
  BY DEF Awaits, NotedAt
<1> QED BY <1>1, <1>2, <1>3, OwedIs, OwedSameNext

\* A writer that sleeps on for the same byte is owed the same.
LEMMA OwedStays ==
    ASSUME BInv, BInv', NEW s \in Streams, s \in write_wait <=> s \in write_wait',
           \A x \in Byte : Awaits(s, x) => Awaits(s, x)',
           \A x \in Byte : Once(pushed, x) => Pos(pushed', x) = Pos(pushed, x)
    PROVE  Owed(s)' = Owed(s)
<1>1. CASE s \notin write_wait
  <2>1. Owed(s) = 0
    BY <1>1 DEF Owed
  <2>2. Owed(s)' = 0
    BY <1>1, OwedSameNext DEF OwedBy
  <2> QED BY <2>1, <2>2
<1>2. CASE s \in write_wait
  <2>1. PICK x \in Byte : Awaits(s, x) /\ Owed(s) = Pos(pushed, x) /\ Once(pushed, x)
    BY <1>2, OwedNow
  <2>2. Owed(s)' = Pos(pushed', x)
    BY <1>2, <2>1, OwedNext
  <2> QED BY <2>1, <2>2
<1> QED BY <1>1, <1>2

\* The refinement mapping's owed.
OwedMap == [s \in Streams |-> Owed(s)]

\* A step that wakes nobody and pushes nothing leaves owed alone.
LEMMA MapStays ==
    ASSUME BInv, BInv', write_wait' = write_wait, pushed' = pushed,
           \A s \in Streams, x \in Byte : Awaits(s, x) => Awaits(s, x)'
    PROVE  OwedMap' = OwedMap
<1>1. ASSUME NEW s \in Streams PROVE Owed(s)' = Owed(s)
  BY OwedStays
<1> QED BY <1>1 DEF OwedMap

\* A step the queue does not see.
LEMMA QueueStutters ==
    ASSUME BInv, BInv', UNCHANGED <<pushed, wire, broken, write_wait>>,
           \A s \in Streams, x \in Byte : Awaits(s, x) => Awaits(s, x)'
    PROVE  UNCHANGED Queue!vars
<1>1. OwedMap' = OwedMap
  BY MapStays
<1> QED BY <1>1 DEF Queue!vars, OwedMap

LEMMA AwaitsKept ==
    ASSUME UNCHANGED <<remove_list, buffers>>, NEW s, NEW x
    PROVE  Awaits(s, x) => Awaits(s, x)'
BY DEF Awaits, NotedAt

\* The callback between the socket and remove_buff.
LEMMA CallbackStutters ==
    ASSUME BInv, BInv', TryWrite \/ CloseWrite \/ Consumed \/ Removed \/ ReadClose \/ UNCHANGED vars
    PROVE  UNCHANGED Queue!vars
<1>1. UNCHANGED <<pushed, wire, broken, write_wait, remove_list, buffers>>
  BY DEF TryWrite, CloseWrite, Consumed, Removed, ReadClose, vars, bufVars, loopVars, histVars
<1> QED BY <1>1, AwaitsKept, QueueStutters

\* The last byte a header has to send stays the same while it is read.
LEMMA ConsumeStutters ==
    ASSUME BInv, BInv', Consume
    PROVE  UNCHANGED Queue!vars
<1>1. UNCHANGED <<pushed, wire, broken, write_wait>>
  BY ConsumeRest
<1>2. /\ buffers \in Seq(BuffSet) /\ buffers # <<>> /\ Tail(buffers) \in Seq(BuffSet)
      /\ remove_list \in Seq(BuffSet)
  BY ConsumeFacts DEF BInv, Types
<1>3. ASSUME NEW s \in Streams, NEW x \in Byte, Awaits(s, x) PROVE Awaits(s, x)'
  <2>1. NotedAt(buffers, s, x) <=>
          (buffers[1].ctx = s /\ LastByte(buffers[1]) = x) \/ NotedAt(Tail(buffers), s, x)
    BY <1>2, NotedTail
  <2>2. CASE ThisLen < HeaderLeft
    <3>1. PICK c : /\ Moved(c, hot') /\ buffers' = <<c>> \o Tail(buffers)
                   /\ UNCHANGED remove_list
      BY <2>2, PartFacts
    <3>2. c \in BuffSet /\ c.ctx = buffers[1].ctx /\ LastByte(c) = LastByte(buffers[1])
      BY <3>1 DEF Moved, GoodBuff
    <3>6. <<c>> \in Seq(BuffSet)
      BY <3>2
    <3>3. NotedAt(<<c>> \o Tail(buffers), s, x) <=> NotedAt(<<c>>, s, x) \/ NotedAt(Tail(buffers), s, x)
      BY <1>2, <3>6, NotedCat
    <3>4. NotedAt(<<c>>, s, x) <=> c.ctx = s /\ LastByte(c) = x
      BY NotedOne
    <3>5. NotedAt(remove_list', s, x) \/ NotedAt(buffers', s, x)
      BY <1>3, <2>1, <3>1, <3>2, <3>3, <3>4 DEF Awaits
    <3> QED BY <3>5 DEF Awaits, NotedAt
  <2>3. CASE ~(ThisLen < HeaderLeft)
    <3>1. PICK c : /\ c \in BuffSet /\ c.ctx = buffers[1].ctx /\ LastByte(c) = LastByte(buffers[1])
                   /\ buffers' = Tail(buffers) /\ remove_list' = <<c>> \o remove_list
      BY <2>3, WholeFacts
    <3>6. <<c>> \in Seq(BuffSet)
      BY <3>1
    <3>3. NotedAt(<<c>> \o remove_list, s, x) <=> NotedAt(<<c>>, s, x) \/ NotedAt(remove_list, s, x)
      BY <1>2, <3>6, NotedCat
    <3>4. NotedAt(<<c>>, s, x) <=> c.ctx = s /\ LastByte(c) = x
      BY NotedOne
    <3>5. NotedAt(remove_list', s, x) \/ NotedAt(buffers', s, x)
      BY <1>3, <2>1, <3>1, <3>3, <3>4 DEF Awaits
    <3> QED BY <3>5 DEF Awaits, NotedAt
  <2> QED BY <2>2, <2>3
<1> QED BY <1>1, <1>3, QueueStutters

\* A push: the queue accepts its bytes, with the writer or with nobody waiting.
LEMMA PushAccepts ==
    ASSUME BufferAssumption, BInv, BInv', NEW bs, NEW s \in Streams \cup {None}, Pushes(bs, s)
    PROVE  Queue!Next
<1> DEFINE f == Out(bs, 0)
<1>1. /\ pushed' = pushed \o f /\ f \in Seq(Byte) /\ Len(f) > 0
      /\ buffers' = buffers \o bs /\ bs \in Seq(BuffSet) /\ buffers \in Seq(BuffSet)
  BY PushOut
<1>2. /\ s \notin write_wait /\ ~closed /\ UNCHANGED <<wire, broken, remove_list>>
      /\ write_wait' = IF s = None THEN write_wait ELSE write_wait \cup {s}
  BY DEF Pushes, push, start_write
<1>3. pushed \in Seq(Byte) /\ ~broken
  BY <1>2 DEF BInv, Types, Turns
<1> HIDE DEF f
<1>4. Len(pushed') > Len(pushed) /\ SubSeq(pushed', 1, Len(pushed)) = pushed
  BY <1>1, <1>3
<1>5. \A x \in Byte : Once(pushed, x) => Pos(pushed', x) = Pos(pushed, x)
  BY PushPos
<1>6. ASSUME NEW t \in Streams, t # s PROVE Owed(t)' = Owed(t)
  <2>1. t \in write_wait <=> t \in write_wait'
    BY <1>2, <1>6
  <2>2. ASSUME NEW x \in Byte, Awaits(t, x) PROVE Awaits(t, x)'
    <3>1. NotedAt(buffers', t, x) <=> NotedAt(buffers, t, x) \/ NotedAt(bs, t, x)
      BY <1>1, NotedCat
    <3>2. NotedAt(remove_list', t, x) \/ NotedAt(buffers', t, x)
      BY <1>2, <2>2, <3>1 DEF Awaits
    <3> QED BY <3>2 DEF Awaits, NotedAt
  <2> QED BY <1>5, <2>1, <2>2, OwedStays
<1>7. CASE s = None
  <2>1. \A t \in Streams : Owed(t)' = Owed(t)
    BY <1>6, <1>7 DEF BufferAssumption, None
  <2>2. Queue!Accept({})
    BY <1>2, <1>3, <1>4, <2>1 DEF Queue!Accept
  <2> QED BY <2>2 DEF Queue!Next
<1>8. CASE s # None
  <2>1. s \in Streams /\ s \in write_wait'
    BY <1>2, <1>8
  <2> DEFINE x == LastByte(bs[Len(bs)])
  <2>2. Owed(s) = 0
    BY <1>2 DEF Owed
  <2>3. Owed(s)' = Len(pushed')
    <3>1. Fresh(bs, pushes, s)
      BY DEF Pushes
    <3>2. NotedAt(bs, s, x)
      BY <1>8, <3>1, FreshNoted
    <3> HIDE DEF x
    <3>3. NotedAt(buffers', s, x) <=> NotedAt(buffers, s, x) \/ NotedAt(bs, s, x)
      BY <1>1, NotedCat
    <3>4. Awaits(s, x)'
      BY <3>2, <3>3 DEF Awaits, NotedAt
    <3>5. Owed(s)' = Pos(pushed', x)
      BY <2>1, <3>4, OwedNext
    <3> QED BY <3>5, PushPos DEF x
  <2>4. \A t \in Streams : Owed(t)' = IF t \in {s} THEN Len(pushed') ELSE Owed(t)
    BY <1>6, <2>3
  <2>5. Queue!Accept({s})
    BY <1>2, <1>3, <1>4, <2>1, <2>2, <2>4 DEF Queue!Accept
  <2> QED BY <2>1, <2>5 DEF Queue!Next
<1> QED BY <1>7, <1>8

\* What the socket takes is what was accepted next.
LEMMA SocketTransmits ==
    ASSUME BInv, BInv', NEW n \in 1..Len(offered), SocketTakes(n)
    PROVE  Queue!Next
<1>1. /\ UNCHANGED <<pushed, broken, remove_list, buffers, write_wait>> /\ pc = "socket" /\ got' = n
      /\ wire' = wire \o SubSeq(offered, 1, n)
  BY DEF SocketTakes
<1>2. ~broken /\ wire \in Seq(Byte) /\ offered \in Seq(Byte) /\ pushed \in Seq(Byte)
      /\ wire' \in Seq(Byte)
  BY <1>1 DEF BInv, Turns, Types
<1>3. OwedMap' = OwedMap
  BY <1>1, AwaitsKept, MapStays
<1>4. Splits(pushed', wire', got', Out(buffers', hot'))
  BY <1>1, <1>2 DEF BInv, Counted
<1>5. /\ got' <= Len(Out(buffers', hot')) /\ \A j \in 1..Len(wire') : wire'[j] = pushed[j]
      /\ Len(pushed) = Len(wire') - got' + Len(Out(buffers', hot'))
  BY <1>1, <1>4 DEF Splits
<1>6. Len(wire') > Len(wire)
  BY <1>1, <1>2
<1>7. Len(wire') <= Len(pushed)
  <2>1. Out(buffers', hot') \in Seq(Byte)
    BY OutType DEF BInv, Types
  <2> DEFINE l == Len(Out(buffers', hot'))
  <2>2. l \in Nat /\ got' \in Nat /\ Len(wire') \in Nat
    BY <1>1, <1>2, <2>1
  <2> HIDE DEF l
  <2> QED BY <1>5, <2>2 DEF l
<1>8. wire' = SubSeq(pushed, 1, Len(wire'))
  <2> DEFINE g == SubSeq(pushed, 1, Len(wire'))
  <2>1. g \in Seq(Byte) /\ Len(g) = Len(wire') /\ \A j \in 1..Len(wire') : g[j] = pushed[j]
    BY <1>2, <1>7
  <2> HIDE DEF g
  <2>2. wire' = g
    BY <1>2, <1>5, <2>1, SameSeq
  <2> QED BY <2>2 DEF g
<1>9. Queue!Transmit
  BY <1>1, <1>2, <1>3, <1>6, <1>7, <1>8 DEF Queue!Transmit, OwedMap
<1> QED BY <1>9 DEF Queue!Next

\* close(false) fails the queue: the buffers are all on their way to clean.
LEMMA ErrorBreaks ==
    ASSUME BInv, BInv', WriteError
    PROVE  Queue!Next
<1>1. /\ UNCHANGED <<pushed, wire, write_wait>> /\ pc = "socket" /\ broken'
      /\ remove_list' = buffers
  BY DEF WriteError
<1>2. ~broken /\ remove_list = <<>> /\ broken' = TRUE
  BY <1>1 DEF BInv, Turns, WriteError
<1>3. ASSUME NEW s \in Streams, NEW x \in Byte, Awaits(s, x) PROVE Awaits(s, x)'
  <2>1. NotedAt(remove_list', s, x)
    BY <1>1, <1>2, <1>3, NotedEmpty DEF Awaits
  <2> QED BY <2>1 DEF Awaits, NotedAt
<1>4. OwedMap' = OwedMap
  BY <1>1, <1>3, MapStays
<1>5. Queue!Break
  BY <1>1, <1>2, <1>4 DEF Queue!Break, OwedMap
<1> QED BY <1>5 DEF Queue!Next

\* clean tells a writer of success when its last byte is out, else of failure.
LEMMA RemoveTells ==
    ASSUME BufferAssumption, BInv, BInv', RemoveBuff
    PROVE  [Queue!Next]_(Queue!vars)
<1> DEFINE h == remove_list[1]
<1>1. /\ UNCHANGED <<pushed, wire, broken, buffers>> /\ remove_list # <<>>
      /\ write_wait' = write_wait \ {h.ctx} /\ remove_list' = Tail(remove_list)
  BY DEF RemoveBuff, bufVars, histVars
<1>2. remove_list \in Seq(BuffSet) /\ write_wait \subseteq Streams
  BY DEF BInv, Types
<1>3. h \in BuffSet /\ h.ctx \in Streams \cup {None}
  <2>1. h \in BuffSet
    BY <1>1, <1>2
  <2> QED BY <2>1 DEF BuffSet
<1> HIDE DEF h
<1>4. ASSUME NEW s \in Streams, NEW x \in Byte, Awaits(s, x), s # h.ctx PROVE Awaits(s, x)'
  <2>1. NotedAt(remove_list, s, x) <=>
          (h.ctx = s /\ LastByte(h) = x) \/ NotedAt(Tail(remove_list), s, x)
    BY <1>1, <1>2, NotedTail DEF h
  <2>2. NotedAt(remove_list', s, x) \/ NotedAt(buffers', s, x)
    BY <1>1, <1>4, <2>1 DEF Awaits
  <2> QED BY <2>2 DEF Awaits, NotedAt
<1>5. CASE h.ctx = None
  <2>1. write_wait' = write_wait /\ \A s \in Streams : s # h.ctx
    BY <1>1, <1>2, <1>5 DEF BufferAssumption, None
  <2> QED BY <1>1, <1>4, <2>1, QueueStutters
<1>6. CASE h.ctx # None
  <2>1. PICK s \in Streams : s = h.ctx
    BY <1>3, <1>6
  <2>15. PICK x : x = LastByte(h)
    OBVIOUS
  <2>2. NotedAt(remove_list, s, x)
    <3>1. NotedAt(remove_list, s, x) <=>
          (h.ctx = s /\ LastByte(h) = x) \/ NotedAt(Tail(remove_list), s, x)
      BY <1>1, <1>2, NotedTail DEF h
    <3> QED BY <2>1, <2>15, <3>1
  <2>3. x \in Byte
    BY <1>3, <2>15 DEF LastByte, BuffSet, Byte
  <2>4. s \in write_wait
    <3>1. buffers \in Seq(BuffSet)
      BY DEF BInv, Types, GoodList
    <3>2. ASSUME s \notin write_wait PROVE Count(remove_list, s) = 0
      <4>1. Count(remove_list, s) + Count(buffers, s) = 0
        BY <2>1, <3>2 DEF BInv, Notes
      <4>2. Count(remove_list, s) \in Nat /\ Count(buffers, s) \in Nat
        BY <1>2, <3>1, CountCat
      <4> QED BY <4>1, <4>2
    <3> QED BY <1>2, <2>2, <3>2, CountNoted
  <2>5. Count(remove_list, s) + Count(buffers, s) = 1
    BY <2>1, <2>4 DEF BInv, Notes
  <2>6. Owed(s) = Pos(pushed, x)
    <3>1. buffers \in Seq(BuffSet)
      BY DEF BInv, Types, GoodList
    <3> QED BY <1>2, <2>2, <2>4, <2>5, <3>1, OwedIs, OwedSame
  <2>7. Once(pushed, x) /\ (~broken => Pos(pushed, x) <= Len(wire))
    BY <2>1, <2>2, <2>3 DEF BInv, Places
  <2>8. Owed(s) # 0 /\ (~broken => Owed(s) <= Len(wire))
    <3>1. Pos(pushed, x) \in 1..Len(pushed)
      BY <2>7, PosFacts
    <3> QED BY <2>6, <2>7, <3>1
  <2>9. Owed(s)' = 0
    <3>1. s \notin write_wait'
      BY <1>1, <2>1
    <3> QED BY <3>1, OwedSameNext DEF OwedBy
  <2>10. ASSUME NEW t \in Streams, t # s PROVE Owed(t)' = Owed(t)
    <3>1. t \in write_wait <=> t \in write_wait'
      BY <1>1, <2>1, <2>10
    <3> QED BY <1>1, <1>4, <2>1, <2>10, <3>1, OwedStays
  <2>11. OwedMap' = [OwedMap EXCEPT ![s] = 0]
    BY <2>1, <2>9, <2>10 DEF OwedMap
  <2>12. OwedMap[s] = Owed(s) /\ broken \in BOOLEAN
    BY <2>1 DEF OwedMap, BInv, Turns
  <2>13. CASE broken
    <3>1. Queue!Fail(s)
      BY <1>1, <2>8, <2>11, <2>12, <2>13 DEF Queue!Fail, OwedMap
    <3> QED BY <2>1, <3>1 DEF Queue!Next
  <2>14. CASE ~broken
    <3>1. Queue!Complete(s)
      BY <1>1, <2>8, <2>11, <2>12, <2>14 DEF Queue!Complete, OwedMap
    <3> QED BY <2>1, <3>1 DEF Queue!Next
  <2> QED BY <2>13, <2>14
<1> QED BY <1>5, <1>6

\* Every step is one of SendQueue, or changes nothing it speaks of.
LEMMA QueueStep ==
    ASSUME BufferAssumption, BInv, BInv', [Next]_vars
    PROVE  [Queue!Next]_(Queue!vars)
<1>1. CASE \E f \in Controls : Control(f)
  BY <1>1, ControlPushes, PushAccepts DEF BInv
<1>2. CASE Writing
  BY <1>2, WritingPushes, PushAccepts DEF BInv
<1>3. CASE TryWrite \/ CloseWrite \/ Consumed \/ Removed \/ ReadClose \/ UNCHANGED vars
  BY <1>3, CallbackStutters
<1>4. CASE Consume
  BY <1>4, ConsumeStutters
<1>5. CASE RemoveBuff
  BY <1>5, RemoveTells
<1>6. CASE \E n \in 1..Len(offered) : SocketTakes(n)
  BY <1>6, SocketTransmits
<1>7. CASE WriteError
  BY <1>7, ErrorBreaks
<1> QED BY <1>1, <1>2, <1>3, <1>4, <1>5, <1>6, <1>7 DEF Next, Callback, Quiet

\* The buffer starts as the queue does.
LEMMA QueueInit == ASSUME Init PROVE Queue!Init
<1>1. \A s \in Streams : Owed(s) = 0
  BY DEF Init, Owed
<1> QED BY <1>1 DEF Init, Queue!Init

\* For every set of writers, frames, chains, files and window sizes,
\* KHttp2WriteBuffer keeps the promise of SendQueue: what push takes goes to the
\* socket once, in order and unmixed (get_read_buffer, readSuccess), and
\* http2_buff::clean tells a sleeping writer of success only when its last byte is
\* out, of failure only after close(false), and of one of them once.
THEOREM SendsAlwaysInOrder == ASSUME BufferAssumption PROVE Spec => SendsInOrder
<1>1. Init => Queue!Init
  BY QueueInit
<1>2. BInv /\ BInv' /\ [Next]_vars => [Queue!Next]_(Queue!vars)
  BY QueueStep
<1> QED BY <1>1, <1>2, BufferCorrect, PTL DEF Spec, SendsInOrder, Queue!Spec

-----------------------------------------------------------------------------
(* No iovec is empty.                                                      *)

\* Buffer i of a list read from position p of the first has bytes left.
Live(bs, p, i) == Place(p, i) < bs[i].used

\* No iovec of a list is empty: files have bytes left, and so has the buffer
\* before a file and one of every MaxIov - 1 buffers in a row.
Dense(bs, p) ==
  /\ \A i \in 1..Len(bs) : bs[i].sendfile => Live(bs, p, i)
  /\ \A i \in 1..Len(bs) : i > 1 /\ bs[i].sendfile => Live(bs, p, i - 1)
  /\ \A i \in 1..Len(bs) : i + MaxIov - 2 <= Len(bs) =>
       \E j \in i..(i + MaxIov - 2) : Live(bs, p, j)

\* A list with a buffer that has bytes left has bytes left.
LEMMA OutLive ==
    ASSUME NEW bs, NEW p, GoodList(bs, p), NEW i \in 1..Len(bs), Live(bs, p, i)
    PROVE  Len(Out(bs, p)) > 0
<1> DEFINE a == SubSeq(bs, 1, i)
<1>1. GoodList(a, p) /\ a # <<>> /\ Len(a) = i /\ a[i] = bs[i]
  BY FirstFacts DEF GoodList
<1>2. Out(a, p) \in Seq(Byte) /\ Out(bs, p) \in Seq(Byte)
  BY <1>1, OutType
<1>3. Len(Out(a, p)) <= Len(Out(bs, p))
  BY OutPrefix DEF Prefix
<1> HIDE DEF a
<1>4. Len(Out(a, p)) > 0
  BY <1>1, LastLive DEF Live
<1> DEFINE m == Len(Out(a, p))
<1> DEFINE n == Len(Out(bs, p))
<1>5. m \in Nat /\ n \in Nat /\ m <= n /\ m > 0
  BY <1>2, <1>3, <1>4
<1> HIDE DEF m, n
<1>6. n > 0
  BY <1>5
<1> QED BY <1>6 DEF n

\* The iovec of a dense list is not empty.
LEMMA OfferLive ==
    ASSUME BufferAssumption, GoodList(buffers, hot), buffers # <<>>, Lively(buffers, hot),
           Dense(buffers, hot)
    PROVE  Offer # <<>>
<1>1. PICK k \in 1..Len(buffers) :
        /\ Spans(buffers, k) /\ Offer = Out(SubSeq(buffers, 1, k), hot)
        /\ \/ k = Len(buffers) \/ k = MaxIov - 1 \/ buffers[1].sendfile
           \/ k + 1 <= Len(buffers) /\ buffers[k + 1].sendfile
  BY OfferFacts
<1>2. Len(buffers) \in Nat \ {0} /\ MaxIov \in Nat \ {0, 1} /\ buffers \in Seq(BuffSet)
  BY DEF GoodList, BufferAssumption
<1>3. \E i \in 1..k : Live(buffers, hot, i)
  <2>1. CASE k = Len(buffers)
    <3>1. k \in 1..k
      BY <1>2
    <3> QED BY <2>1, <3>1 DEF Lively, Live
  <2>2. CASE k = MaxIov - 1
    <3>1. 1 \in 1..Len(buffers) /\ 1 + MaxIov - 2 <= Len(buffers)
      BY <1>2, <2>2
    <3>2. \E j \in 1..(1 + MaxIov - 2) : Live(buffers, hot, j)
      BY <3>1 DEF Dense
    <3>3. 1 + MaxIov - 2 = k
      BY <1>2, <2>2
    <3> QED BY <3>2, <3>3
  <2>3. CASE buffers[1].sendfile
    <3>1. 1 \in 1..Len(buffers) /\ 1 \in 1..k
      BY <1>2
    <3> QED BY <2>3, <3>1 DEF Dense
  <2>4. CASE k + 1 <= Len(buffers) /\ buffers[k + 1].sendfile
    <3>1. k + 1 \in 1..Len(buffers) /\ k + 1 > 1 /\ (k + 1) - 1 = k /\ k \in 1..k
      BY <1>2, <2>4
    <3> QED BY <2>4, <3>1 DEF Dense
  <2> QED BY <1>1, <2>1, <2>2, <2>3, <2>4
<1>4. PICK i \in 1..k : Live(buffers, hot, i)
  BY <1>3
<1> DEFINE a == SubSeq(buffers, 1, k)
<1>5. GoodList(a, hot) /\ Len(a) = k /\ a[i] = buffers[i]
  BY FirstFacts
<1> HIDE DEF a
<1>6. Live(a, hot, i) /\ i \in 1..Len(a)
  BY <1>4, <1>5 DEF Live
<1>7. Len(Out(a, hot)) > 0
  BY <1>5, <1>6, OutLive
<1>8. Offer = Out(a, hot)
  BY <1>1 DEF a
<1>9. Len(<<>>) = 0
  OBVIOUS
<1> QED BY <1>7, <1>8, <1>9

LEMMA DenseEmpty == ASSUME NEW p PROVE Dense(<<>>, p)
BY DEF Dense

\* A dense list behind a list whose last buffer has bytes left.
LEMMA DenseCat ==
    ASSUME BufferAssumption, NEW bs, NEW p, NEW cs, GoodList(bs, p), GoodList(cs, 0), bs # <<>>,
           Lively(bs, p), Dense(bs, p), Dense(cs, 0)
    PROVE  Dense(bs \o cs, p)
<1> DEFINE m == Len(bs)
<1> DEFINE n == Len(cs)
<1> DEFINE u == bs \o cs
<1> DEFINE w == MaxIov - 2
<1>1. /\ m \in Nat \ {0} /\ n \in Nat /\ Len(u) = m + n
      /\ \A i \in 1..m : u[i] = bs[i]
      /\ \A i \in 1..n : u[m + i] = cs[i]
  <2>1. /\ bs \in Seq(BuffSet) /\ cs \in Seq(BuffSet) /\ Len(bs) # 0
    BY DEF GoodList
  <2>2. /\ Len(bs \o cs) = Len(bs) + Len(cs) /\ Len(bs) \in Nat /\ Len(cs) \in Nat
        /\ \A i \in 1..Len(bs) : (bs \o cs)[i] = bs[i]
        /\ \A i \in 1..Len(cs) : (bs \o cs)[Len(bs) + i] = cs[i]
    BY <2>1, BuffCat
  <2> QED BY <2>1, <2>2
<1>2. w \in Nat /\ MaxIov - 2 = w
  BY DEF BufferAssumption
<1>10. \A i \in Int : i + MaxIov - 2 = i + w
  BY DEF BufferAssumption
<1>3. Live(bs, p, m)
  BY <1>1 DEF Lively, Live
<1> HIDE DEF m, n, u, w
<1>4. \A i \in 1..m : Live(u, p, i) <=> Live(bs, p, i)
  BY <1>1 DEF Live
<1>5. \A i \in 1..n : Live(u, p, m + i) <=> Live(cs, 0, i)
  <2>1. \A i \in 1..n : Place(p, m + i) = 0 /\ Place(0, i) = 0
    BY <1>1 DEF Place
  <2> QED BY <1>1, <2>1 DEF Live
<1>6. ASSUME NEW i \in 1..(m + n), u[i].sendfile PROVE Live(u, p, i)
  <2>1. CASE i \in 1..m
    BY <1>1, <1>4, <1>6, <2>1 DEF Dense, m
  <2>2. CASE i \notin 1..m
    <3>1. PICK j \in 1..n : i = m + j
      <4>1. i - m \in 1..n /\ i = m + (i - m)
        BY <1>1, <2>2
      <4> QED BY <4>1
    <3> QED BY <1>1, <1>5, <1>6, <3>1 DEF Dense, n
  <2> QED BY <2>1, <2>2
<1>7. ASSUME NEW i \in 1..(m + n), i > 1, u[i].sendfile PROVE Live(u, p, i - 1)
  <2>1. CASE i \in 1..m
    <3>1. i - 1 \in 1..m
      BY <1>1, <1>7, <2>1
    <3> QED BY <1>1, <1>4, <1>7, <2>1, <3>1 DEF Dense, m
  <2>2. CASE i = m + 1
    <3>1. i - 1 = m /\ m \in 1..m
      BY <1>1, <2>2
    <3> QED BY <1>3, <1>4, <3>1
  <2>3. CASE i \notin 1..m /\ i # m + 1
    <3>1. PICK j \in 1..n : i = m + j /\ j > 1 /\ j - 1 \in 1..n /\ i - 1 = m + (j - 1)
      <4> DEFINE j == i - m
      <4>1. j \in 1..n /\ i = m + j /\ j > 1 /\ j - 1 \in 1..n /\ i - 1 = m + (j - 1)
        BY <1>1, <2>3
      <4> QED BY <4>1
    <3>2. cs[j].sendfile
      BY <1>1, <1>7, <3>1
    <3>3. Live(cs, 0, j - 1)
      BY <3>1, <3>2 DEF Dense, n
    <3> QED BY <1>5, <3>1, <3>3
  <2> QED BY <2>1, <2>2, <2>3
<1>8. ASSUME NEW i \in 1..(m + n), i + w <= m + n PROVE \E j \in i..(i + w) : Live(u, p, j)
  <2>1. CASE i + w <= m
    <3>1. i \in 1..m
      BY <1>1, <1>2, <2>1
    <3>2. PICK j \in i..(i + w) : Live(bs, p, j)
      BY <1>10, <2>1, <3>1 DEF Dense, m
    <3>3. j \in 1..m
      BY <1>1, <1>2, <2>1, <3>2
    <3> QED BY <1>4, <3>2, <3>3
  <2>2. CASE i <= m /\ i + w > m
    <3>1. m \in i..(i + w) /\ m \in 1..m
      BY <1>1, <1>2, <2>2
    <3> QED BY <1>3, <1>4, <3>1
  <2>3. CASE i > m
    <3>1. PICK h \in 1..n : i = m + h /\ h + w <= n
      <4> DEFINE h == i - m
      <4>1. h \in 1..n /\ i = m + h /\ h + w <= n
        BY <1>1, <1>2, <1>8, <2>3
      <4> QED BY <4>1
    <3>2. PICK j \in h..(h + w) : Live(cs, 0, j)
      BY <1>10, <3>1 DEF Dense, n
    <3>3. j \in 1..n /\ m + j \in i..(i + w)
      BY <1>1, <1>2, <3>1, <3>2
    <3> QED BY <1>5, <3>2, <3>3
  <2> QED BY <1>1, <1>2, <2>1, <2>2, <2>3
<1>9. Dense(u, p)
  BY <1>1, <1>6, <1>7, <1>8, <1>10 DEF Dense
<1> QED BY <1>9 DEF u

\* The list without its first.
LEMMA DenseTail ==
    ASSUME BufferAssumption, NEW bs, NEW p, GoodList(bs, p), bs # <<>>, Dense(bs, p)
    PROVE  Dense(Tail(bs), 0)
<1> DEFINE t == Tail(bs)
<1> DEFINE w == MaxIov - 2
<1> DEFINE n == Len(bs)
<1>1. Len(t) = n - 1 /\ n \in Nat \ {0} /\ \A i \in 1..(n - 1) : t[i] = bs[i + 1]
  BY DEF GoodList
<1>2. w \in Nat /\ \A i \in Int : i + MaxIov - 2 = i + w
  BY DEF BufferAssumption
<1> HIDE DEF t, w, n
<1>3. \A i \in 1..(n - 1) : Live(t, 0, i) <=> Live(bs, p, i + 1)
  <2>1. \A i \in 1..(n - 1) : Place(p, i + 1) = 0 /\ Place(0, i) = 0
    BY <1>1 DEF Place
  <2> QED BY <1>1, <2>1 DEF Live
<1>4. ASSUME NEW i \in 1..(n - 1), t[i].sendfile
      PROVE  Live(t, 0, i) /\ (i > 1 => Live(t, 0, i - 1))
  <2>1. i + 1 \in 1..n /\ bs[i + 1].sendfile /\ i + 1 > 1 /\ (i + 1) - 1 = i
    BY <1>1, <1>4
  <2>2. Live(bs, p, i + 1) /\ Live(bs, p, i)
    BY <2>1 DEF Dense, n
  <2>3. i > 1 => i - 1 \in 1..(n - 1) /\ (i - 1) + 1 = i
    BY <1>1
  <2> QED BY <1>3, <2>2, <2>3
<1>5. ASSUME NEW i \in 1..(n - 1), i + w <= n - 1 PROVE \E j \in i..(i + w) : Live(t, 0, j)
  <2>1. i + 1 \in 1..n /\ (i + 1) + w <= n
    BY <1>1, <1>2, <1>5
  <2>2. PICK j \in (i + 1)..((i + 1) + w) : Live(bs, p, j)
    BY <1>2, <2>1 DEF Dense, n
  <2>3. j - 1 \in i..(i + w) /\ j - 1 \in 1..(n - 1) /\ (j - 1) + 1 = j
    BY <1>1, <1>2, <1>5, <2>2
  <2>4. Live(t, 0, j - 1)
    <3> DEFINE k == j - 1
    <3>1. k \in 1..(n - 1) /\ k + 1 = j
      BY <2>3
    <3> HIDE DEF k
    <3>2. Live(t, 0, k)
      BY <1>3, <2>2, <3>1
    <3> QED BY <3>2 DEF k
  <2> QED BY <2>3, <2>4
<1>6. Dense(t, 0)
  <2>1. \A i \in 1..Len(t) : t[i].sendfile => Live(t, 0, i)
    BY <1>1, <1>4
  <2>2. \A i \in 1..Len(t) : i > 1 /\ t[i].sendfile => Live(t, 0, i - 1)
    BY <1>1, <1>4
  <2>3. \A i \in 1..Len(t) : i + MaxIov - 2 <= Len(t) =>
          \E j \in i..(i + MaxIov - 2) : Live(t, 0, j)
    <3>1. ASSUME NEW i \in 1..Len(t), i + MaxIov - 2 <= Len(t)
          PROVE  \E j \in i..(i + MaxIov - 2) : Live(t, 0, j)
      <4>1. i \in 1..(n - 1) /\ i + MaxIov - 2 = i + w
        BY <1>1, <1>2
      <4>2. i + w <= n - 1
        BY <1>1, <3>1, <4>1
      <4> QED BY <1>5, <4>1, <4>2
    <3> QED BY <3>1
  <2> QED BY <2>1, <2>2, <2>3 DEF Dense
<1> QED BY <1>6 DEF t

\* The first of a list is read in part.
LEMMA DensePart ==
    ASSUME BufferAssumption, NEW bs, NEW p, GoodList(bs, p), bs # <<>>, Dense(bs, p),
           NEW c, NEW q, c \in BuffSet, q < c.used
    PROVE  Dense(<<c>> \o Tail(bs), q)
<1> DEFINE u == <<c>> \o Tail(bs)
<1> DEFINE w == MaxIov - 2
<1> DEFINE n == Len(bs)
<1>1. /\ Len(u) = n /\ n \in Nat \ {0} /\ u[1] = c /\ \A i \in 2..n : u[i] = bs[i]
  BY DEF GoodList
<1>2. w \in Nat /\ \A i \in Int : i + MaxIov - 2 = i + w
  BY DEF BufferAssumption
<1> HIDE DEF u, w, n
<1>3. Live(u, q, 1)
  BY <1>1 DEF Live, Place
<1>4. \A i \in 2..n : Live(u, q, i) <=> Live(bs, p, i)
  <2>1. \A i \in 2..n : Place(p, i) = 0 /\ Place(q, i) = 0
    BY DEF Place
  <2> QED BY <1>1, <2>1 DEF Live
<1>5. \A i \in 1..n : Live(bs, p, i) => Live(u, q, i)
  <2>1. \A i \in 1..n : i = 1 \/ i \in 2..n
    BY <1>1
  <2> QED BY <1>3, <1>4, <2>1
<1>6. ASSUME NEW i \in 1..n, u[i].sendfile
      PROVE  Live(u, q, i) /\ (i > 1 => Live(u, q, i - 1))
  <2>1. CASE i = 1
    BY <1>3, <2>1
  <2>2. CASE i # 1
    <3>1. bs[i].sendfile /\ i > 1 /\ i - 1 \in 1..n
      BY <1>1, <1>6, <2>2
    <3>2. Live(bs, p, i) /\ Live(bs, p, i - 1)
      BY <3>1 DEF Dense, n
    <3> QED BY <1>5, <3>1, <3>2
  <2> QED BY <2>1, <2>2
<1>7. ASSUME NEW i \in 1..n, i + w <= n PROVE \E j \in i..(i + w) : Live(u, q, j)
  <2>1. PICK j \in i..(i + w) : Live(bs, p, j)
    BY <1>2, <1>7 DEF Dense, n
  <2>2. j \in 1..n
    BY <1>1, <1>2, <1>7
  <2> QED BY <1>5, <2>1, <2>2
<1>8. Dense(u, q)
  <2>1. \A i \in 1..Len(u) : u[i].sendfile => Live(u, q, i)
    BY <1>1, <1>6
  <2>2. \A i \in 1..Len(u) : i > 1 /\ u[i].sendfile => Live(u, q, i - 1)
    BY <1>1, <1>6
  <2>3. \A i \in 1..Len(u) : i + MaxIov - 2 <= Len(u) =>
          \E j \in i..(i + MaxIov - 2) : Live(u, q, j)
    <3>1. ASSUME NEW i \in 1..Len(u), i + MaxIov - 2 <= Len(u)
          PROVE  \E j \in i..(i + MaxIov - 2) : Live(u, q, j)
      <4>1. i \in 1..(n) /\ i + MaxIov - 2 = i + w
        BY <1>1, <1>2
      <4>2. i + w <= n
        BY <1>1, <3>1, <4>1
      <4> QED BY <1>7, <4>1, <4>2
    <3> QED BY <3>1
  <2> QED BY <2>1, <2>2, <2>3 DEF Dense
<1> QED BY <1>8 DEF u

\* Data buffers of a frame, all in memory or one of a file.
DenseParts(ps, file) ==
  /\ file => Len(ps) = 1
  /\ \A i \in 1..Len(ps) : i + MaxIov - 2 <= Len(ps) =>
       \E j \in i..(i + MaxIov - 2) : ps[j][2] # 0

\* A frame of dense data buffers is dense.
LEMMA DenseFrame ==
    ASSUME BufferAssumption, NEW q \in Nat, q = pushes, NEW s \in Streams, NEW ps, Data(ps),
           NEW file \in BOOLEAN, NEW fin \in BOOLEAN, DenseParts(ps, file)
    PROVE  Dense(Frame(s, ps, file, fin), 0)
<1> DEFINE u == Frame(s, ps, file, fin)
<1> DEFINE w == MaxIov - 2
<1> DEFINE n == Len(ps)
<1>1. /\ Len(u) = n + 1 /\ n \in Nat \ {0}
      /\ u[1].used # 0 /\ ~u[1].sendfile
      /\ \A i \in 1..n : u[i + 1].used = ps[i][2] /\ u[i + 1].sendfile = file
  BY FrameFacts DEF Data
<1>2. w \in Nat /\ \A i \in Int : i + MaxIov - 2 = i + w
  BY DEF BufferAssumption
<1>3. u[1].used \in Nat
  <2>1. GoodList(u, 0) /\ Len(u) # 0
    BY <1>1, FrameFacts DEF Fresh
  <2> HIDE DEF u
  <2>2. u[1] \in BuffSet
    BY <2>1 DEF GoodList
  <2> QED BY <2>2 DEF BuffSet
<1>4. \A i \in 1..n : ps[i][2] \in Nat
  BY DEF Data
<1>5. ps[n][2] # 0 /\ (file => n = 1)
  BY DEF Data, DenseParts
<1> HIDE DEF u, w, n
<1>6. Live(u, 0, 1)
  BY <1>1, <1>3 DEF Live, Place
<1>7. \A i \in 1..n : ps[i][2] # 0 => Live(u, 0, i + 1)
  BY <1>1, <1>4 DEF Live, Place
<1>8. ASSUME NEW i \in 1..(n + 1), u[i].sendfile
      PROVE  Live(u, 0, i) /\ (i > 1 => Live(u, 0, i - 1))
  <2>1. PICK h \in 1..n : i = h + 1
    <3>1. i # 1
      BY <1>1, <1>8
    <3>2. i - 1 \in 1..n /\ i = (i - 1) + 1
      BY <1>1, <3>1
    <3> QED BY <3>2
  <2>2. n = 1 /\ h = 1 /\ i = 2
    <3>1. file
      BY <1>1, <1>8, <2>1
    <3> QED BY <1>5, <2>1, <3>1
  <2>3. ps[h][2] # 0 /\ i - 1 = 1
    BY <1>5, <2>2
  <2> QED BY <1>6, <1>7, <2>1, <2>3
<1>9. ASSUME NEW i \in 1..(n + 1), i + w <= n + 1 PROVE \E j \in i..(i + w) : Live(u, 0, j)
  <2>1. CASE i = 1
    <3>1. 1 \in i..(i + w)
      BY <1>2, <2>1
    <3> QED BY <1>6, <3>1
  <2>2. CASE i # 1
    <3>1. PICK h \in 1..n : i = h + 1 /\ h + w <= n
      <4>1. i - 1 \in 1..n /\ i = (i - 1) + 1 /\ (i - 1) + w <= n
        BY <1>1, <1>2, <1>9, <2>2
      <4> QED BY <4>1
    <3>2. PICK j \in h..(h + w) : ps[j][2] # 0
      <4>1. h + MaxIov - 2 = h + w
        BY <1>1, <1>2
      <4>2. h \in 1..Len(ps) /\ h + MaxIov - 2 <= Len(ps)
        BY <3>1, <4>1 DEF n
      <4>3. \E j \in h..(h + MaxIov - 2) : ps[j][2] # 0
        BY <4>2 DEF DenseParts
      <4> QED BY <4>1, <4>3
    <3>3. j \in 1..n /\ j + 1 \in i..(i + w)
      BY <1>1, <1>2, <3>1, <3>2
    <3> QED BY <1>7, <3>2, <3>3
  <2> QED BY <2>1, <2>2
<1>10. Dense(u, 0)
  <2>1. \A i \in 1..Len(u) : u[i].sendfile => Live(u, 0, i)
    BY <1>1, <1>8
  <2>2. \A i \in 1..Len(u) : i > 1 /\ u[i].sendfile => Live(u, 0, i - 1)
    BY <1>1, <1>8
  <2>3. \A i \in 1..Len(u) : i + MaxIov - 2 <= Len(u) =>
          \E j \in i..(i + MaxIov - 2) : Live(u, 0, j)
    <3>1. ASSUME NEW i \in 1..Len(u), i + MaxIov - 2 <= Len(u)
          PROVE  \E j \in i..(i + MaxIov - 2) : Live(u, 0, j)
      <4>1. i \in 1..(n + 1) /\ i + MaxIov - 2 = i + w
        BY <1>1, <1>2
      <4>2. i + w <= n + 1
        BY <1>1, <3>1, <4>1
      <4> QED BY <1>9, <4>1, <4>2
    <3> QED BY <3>1
  <2> QED BY <2>1, <2>2, <2>3 DEF Dense
<1> QED BY <1>10 DEF u

\* Cutting a chain empties no node before the cut.
LEMMA DenseChain ==
    ASSUME BufferAssumption, NEW r \in Rooms, NEW c \in Chains, NoEmptyRun(c)
    PROVE  DenseParts(Cut(c, r), FALSE)
<1> DEFINE ps == Cut(c, r)
<1> DEFINE n == Len(ps)
<1> DEFINE w == MaxIov - 2
<1>1. CutOf(ps, c) /\ c \in Seq(Nat)
  BY ChainParts
<1>2. w \in Nat /\ \A i \in Int : i + MaxIov - 2 = i + w
  BY DEF BufferAssumption
<1> HIDE DEF ps
<1>3. n \in Nat \ {0} /\ n <= Len(c) /\ Len(c) \in Nat /\ \A i \in 1..n : c[i] # 0 => ps[i][2] # 0
  BY <1>1 DEF CutOf
<1> DEFINE l == Len(c)
<1> HIDE DEF n, w, l
<1>4. ASSUME NEW i \in 1..n, i + w <= n PROVE \E j \in i..(i + w) : ps[j][2] # 0
  <2>1. i \in 1..l /\ i + w <= l
    <3>1. l \in Nat /\ n <= l /\ n \in Nat
      BY <1>3 DEF l
    <3> QED BY <1>2, <1>4, <3>1
  <2>2. PICK j \in i..(i + w) : c[j] # 0
    <3>1. i + MaxIov - 2 = i + w
      BY <1>2
    <3>2. \E j \in i..(i + MaxIov - 2) : c[j] # 0
      BY <2>1, <3>1 DEF NoEmptyRun, l
    <3> QED BY <3>1, <3>2
  <2>3. j \in 1..n
    BY <1>2, <1>3, <1>4
  <2> QED BY <1>3, <2>2, <2>3
<1>5. DenseParts(ps, FALSE)
  BY <1>2, <1>4 DEF DenseParts, n
<1> QED BY <1>5 DEF ps

LEMMA DenseFile ==
    ASSUME NEW k \in Nat \ {0}, BufferAssumption
    PROVE  DenseParts(<<<<1, k>>>>, TRUE)
<1> DEFINE ps == <<<<1, k>>>>
<1> DEFINE w == MaxIov - 2
<1>2. w \in Nat /\ \A i \in Int : i + MaxIov - 2 = i + w
  BY DEF BufferAssumption
<1>1. Len(ps) = 1 /\ \A j \in 1..1 : ps[j][2] # 0
  OBVIOUS
<1> HIDE DEF ps, w
<1>3. ASSUME NEW i \in 1..1, i + w <= 1 PROVE \E j \in i..(i + w) : ps[j][2] # 0
  <2>1. 1 \in i..(i + w)
    BY <1>2
  <2> QED BY <1>1, <2>1
<1>4. DenseParts(ps, TRUE)
  BY <1>1, <1>2, <1>3 DEF DenseParts
<1> QED BY <1>4 DEF ps

\* What BInv lacks to show that no iovec is empty.
OfferDense == Dense(buffers, hot) /\ (pc = "socket" => offered # <<>>)

LEMMA ControlDense ==
    ASSUME BufferAssumption, Types, NEW f \in Controls, Control(f)
    PROVE  \E bs : Pushes(bs, None) /\ Dense(bs, 0)
<1> DEFINE b == Buff(<<pushes, 0>>, HeaderLen + f.len, FALSE, None, f.tcp_nodelay)
<1> DEFINE u == <<b>>
<1> DEFINE w == MaxIov - 2
<1>1. Pushes(u, None) /\ HeaderLen + f.len > 0
  BY ControlPushes
<1>2. ~b.sendfile /\ b.used = HeaderLen + f.len
  BY DEF Buff
<1>3. w \in Nat /\ \A i \in Int : i + MaxIov - 2 = i + w
  BY DEF BufferAssumption
<1> HIDE DEF b, w
<1>4. Live(u, 0, 1) /\ Len(u) = 1 /\ ~u[1].sendfile
  BY <1>1, <1>2 DEF Live, Place
<1> HIDE DEF u
<1>5. \A i \in 1..Len(u) : i = 1
  BY <1>4
<1>6. \A i \in 1..Len(u) : i + MaxIov - 2 <= Len(u) => \E j \in i..(i + MaxIov - 2) : Live(u, 0, j)
  <2>1. 1 + MaxIov - 2 = 1 + w
    BY <1>3
  <2>2. 1 \in 1..(1 + w)
    BY <1>3
  <2> QED BY <1>4, <1>5, <2>1, <2>2
<1>7. Dense(u, 0)
  BY <1>4, <1>5, <1>6 DEF Dense
<1> QED BY <1>1, <1>7

\* What a writer pushes is dense.
LEMMA WritingDense ==
    ASSUME BufferAssumption, ChainsFilled, Types, Writing
    PROVE  \E s \in Streams : \E bs : Pushes(bs, s) /\ Dense(bs, 0)
<1>1. PICK s \in Streams, r \in Rooms, fin \in BOOLEAN :
        \/ \E c \in Chains : Write(s, Cut(c, r), FALSE, fin)
        \/ \E n \in FileLens : Write(s, <<<<1, IF r < n THEN r ELSE n>>>>, TRUE, fin)
  BY DEF Writing
<1>2. pushes \in Nat
  BY DEF Types
<1>3. ASSUME NEW ps, NEW file \in BOOLEAN, Data(ps), DenseParts(ps, file), Write(s, ps, file, fin)
      PROVE  \E bs : Pushes(bs, s) /\ Dense(bs, 0)
  <2>1. Pushes(Frame(s, ps, file, fin), s)
    BY <1>3, WritePushes
  <2>2. Dense(Frame(s, ps, file, fin), 0)
    BY <1>2, <1>3, DenseFrame
  <2> QED BY <2>1, <2>2
<1>4. CASE \E c \in Chains : Write(s, Cut(c, r), FALSE, fin)
  <2>1. PICK c \in Chains : Write(s, Cut(c, r), FALSE, fin)
    BY <1>4
  <2>2. Data(Cut(c, r)) /\ DenseParts(Cut(c, r), FALSE)
    BY ChainParts, DenseChain DEF ChainsFilled
  <2> QED BY <1>3, <2>1, <2>2
<1>5. CASE \E n \in FileLens : Write(s, <<<<1, IF r < n THEN r ELSE n>>>>, TRUE, fin)
  <2>1. PICK n \in FileLens : Write(s, <<<<1, IF r < n THEN r ELSE n>>>>, TRUE, fin)
    BY <1>5
  <2>2. Data(<<<<1, IF r < n THEN r ELSE n>>>>)
    BY FilePart
  <2>3. (IF r < n THEN r ELSE n) \in Nat \ {0}
    BY DEF BufferAssumption
  <2>4. DenseParts(<<<<1, IF r < n THEN r ELSE n>>>>, TRUE)
    BY <2>3, DenseFile
  <2> QED BY <1>3, <2>1, <2>2, <2>4
<1> QED BY <1>1, <1>4, <1>5

LEMMA PushDense ==
    ASSUME BufferAssumption, BInv, OfferDense, NEW bs, NEW s, Pushes(bs, s), Dense(bs, 0)
    PROVE  OfferDense'
<1>1. /\ buffers' = buffers \o bs /\ hot' = IF buffers = <<>> THEN 0 ELSE hot
      /\ offered' = offered /\ (pc' = "socket" => pc = "socket") /\ GoodList(bs, 0)
      /\ bs \in Seq(BuffSet)
  BY DEF Pushes, push, start_write, Fresh, GoodList
<1>2. GoodList(buffers, hot) /\ Lively(buffers, hot)
  BY DEF BInv, Types
<1>3. Dense(buffers', hot')
  <2>1. CASE buffers = <<>>
    <3>1. buffers' = bs /\ hot' = 0
      <4>1. <<>> \o bs = bs
        BY <1>1
      <4> QED BY <1>1, <2>1, <4>1
    <3> QED BY <3>1
  <2>2. CASE buffers # <<>>
    BY <1>1, <1>2, <2>2, DenseCat DEF OfferDense
  <2> QED BY <2>1, <2>2
<1> QED BY <1>1, <1>3 DEF OfferDense

LEMMA ConsumeDense ==
    ASSUME BufferAssumption, BInv, OfferDense, Consume
    PROVE  OfferDense'
<1>1. buffers # <<>> /\ GoodList(buffers, hot) /\ pc = "success" /\ Dense(buffers, hot)
  BY ConsumeFacts DEF BInv, Types, OfferDense
<1>2. CASE ThisLen < HeaderLeft
  <2>1. PICK c : Moved(c, hot') /\ buffers' = <<c>> \o Tail(buffers) /\ pc' = pc
    BY <1>2, PartFacts
  <2>2. c \in BuffSet /\ hot' < c.used
    BY <2>1 DEF Moved, GoodBuff
  <2>3. Dense(buffers', hot')
    BY <1>1, <2>1, <2>2, DensePart
  <2> QED BY <1>1, <2>1, <2>3 DEF OfferDense
<1>3. CASE ~(ThisLen < HeaderLeft)
  <2>1. buffers' = Tail(buffers)
    BY <1>3, WholeFacts
  <2>2. hot' = (IF Tail(buffers) = <<>> THEN -1 ELSE 0)
        /\ pc' = (IF Tail(buffers) = <<>> THEN "remove" ELSE pc)
    BY <1>3, WholeCorks
  <2>3. Dense(buffers', hot')
    BY <1>1, <2>1, <2>2, DenseTail, DenseEmpty
  <2> QED BY <1>1, <2>2, <2>3 DEF OfferDense
<1> QED BY <1>2, <1>3

\* Every step keeps the lists dense and the iovec filled.
LEMMA DenseStep ==
    ASSUME BufferAssumption, ChainsFilled, BInv, OfferDense, [Next]_vars
    PROVE  OfferDense'
<1>1. CASE \E f \in Controls : Control(f)
  BY <1>1, ControlDense, PushDense DEF BInv
<1>2. CASE Writing
  BY <1>2, WritingDense, PushDense DEF BInv
<1>3. CASE TryWrite
  <2>1. buffers # <<>> /\ GoodList(buffers, hot) /\ Lively(buffers, hot)
    BY <1>3, LeftMeans DEF TryWrite, BInv, Types
  <2>2. Offer # <<>>
    BY <2>1, OfferLive DEF OfferDense
  <2> QED BY <1>3, <2>2 DEF TryWrite, OfferDense, bufVars
<1>4. CASE Consume
  BY <1>4, ConsumeDense
<1>5. CASE CloseWrite \/ Consumed \/ Removed \/ RemoveBuff
  BY <1>5 DEF CloseWrite, Consumed, Removed, RemoveBuff, OfferDense, bufVars
<1>6. CASE \E n \in 1..Len(offered) : SocketTakes(n)
  BY <1>6 DEF SocketTakes, OfferDense
<1>7. CASE WriteError
  BY <1>7, DenseEmpty DEF WriteError, OfferDense
<1>8. CASE ReadClose \/ UNCHANGED vars
  BY <1>8 DEF ReadClose, OfferDense, vars, bufVars, loopVars
<1> QED BY <1>1, <1>2, <1>3, <1>4, <1>5, <1>6, <1>7, <1>8 DEF Next, Callback, Quiet

-----------------------------------------------------------------------------
\* Unsent are the bytes of the list but the first got.
LEMMA UnsentFacts ==
    ASSUME BInv
    PROVE  /\ Out(buffers, hot) \in Seq(Byte) /\ got \in Nat /\ got <= Len(Out(buffers, hot))
           /\ Unsent = SubSeq(Out(buffers, hot), got + 1, Len(Out(buffers, hot)))
<1>1. AllBytes = Out(buffers, hot)
  BY AllIs DEF BInv, Types, AllBytes
<1>2. Out(buffers, hot) \in Seq(Byte) /\ got \in Nat
  BY OutType DEF BInv, Types
<1>3. got <= Len(Out(buffers, hot))
  <2>1. CASE broken
    <3>1. got = 0
      BY <2>1 DEF BInv, Turns
    <3> DEFINE o == Out(buffers, hot)
    <3>2. o \in Seq(Byte)
      BY <1>2
    <3> HIDE DEF o
    <3>3. 0 <= Len(o)
      BY <3>2
    <3> QED BY <3>1, <3>3 DEF o
  <2>2. CASE ~broken
    BY <2>2 DEF BInv, Counted, Splits
  <2> QED BY <2>1, <2>2
<1> QED BY <1>1, <1>2, <1>3 DEF Unsent

\* The counter and the list.
LEMMA LeftHolds == ASSUME BInv PROVE LeftIsUnsent
<1> DEFINE o == Out(buffers, hot)
<1>1. o \in Seq(Byte) /\ got \in Nat /\ got <= Len(o) /\ Unsent = SubSeq(o, got + 1, Len(o))
  BY UnsentFacts
<1>2. left = Len(o) - got /\ (buffers = <<>>) = (hot = -1)
  BY DEF BInv, Counted, Types
<1> HIDE DEF o
<1>3. left = Len(Unsent)
  BY <1>1, <1>2
<1>4. ASSUME pc # "success", left = 0 PROVE buffers = <<>>
  <2>1. got = 0 /\ left <= 0
    BY <1>4 DEF BInv, Turns
  <2> QED BY <2>1, Drained DEF BInv
<1> QED BY <1>2, <1>3, <1>4 DEF LeftIsUnsent

\* The iovec and the list.
LEMMA OfferHolds == ASSUME BInv, OfferDense PROVE OfferIsPrefix
<1> SUFFICES ASSUME pc = "socket" PROVE offered # <<>> /\ IsPrefix(offered, Unsent)
  BY DEF OfferIsPrefix
<1> DEFINE o == Out(buffers, hot)
<1>1. o \in Seq(Byte) /\ Unsent = SubSeq(o, got + 1, Len(o)) /\ got = 0
  BY UnsentFacts DEF BInv, Turns
<1>2. PICK k \in 1..Len(buffers) : offered = Out(SubSeq(buffers, 1, k), hot)
  BY DEF BInv, Spanned
<1>3. Prefix(offered, o)
  BY <1>2, OutPrefix DEF BInv, Types
<1>4. offered \in Seq(Byte)
  BY DEF BInv, Types
<1> HIDE DEF o
<1>5. Unsent = o
  BY <1>1
<1>6. IsPrefix(offered, o)
  <2>1. Len(offered) <= Len(o) /\ \A j \in 1..Len(offered) : offered[j] = o[j]
    BY <1>3 DEF Prefix
  <2>2. SubSeq(offered, 1, Len(offered)) = SubSeq(o, 1, Len(offered))
    BY <1>1, <1>4, <2>1
  <2> QED BY <2>1, <2>2 DEF IsPrefix
<1> QED BY <1>5, <1>6 DEF OfferDense

\* The writers and the buffers they are noted on.
LEMMA NoticesHold == ASSUME BInv PROVE OneNoticePerWriter
<1>1. ASSUME NEW s \in Streams PROVE Noted(s) = IF s \in write_wait THEN 1 ELSE 0
  <2>1. Count(remove_list, s) + Count(buffers, s) = IF s \in write_wait THEN 1 ELSE 0
    BY DEF BInv, Notes
  <2>2. /\ Count(remove_list, s) \in Nat /\ Count(buffers, s) \in Nat
    BY CountCat DEF BInv, Types, GoodList
  <2>3. Noted(s) = Count(buffers, s) + Count(remove_list, s)
    BY DEF Noted, Count
  <2> QED BY <2>1, <2>2, <2>3
<1> QED BY <1>1 DEF OneNoticePerWriter

\* The cork and the frames that asked for tcp_nodelay.
LEMMA UrgentHolds == ASSUME BInv PROVE UrgentNotHeld
<1> SUFFICES ASSUME ~write_processing, ~closed PROVE ~urgent
  BY DEF UrgentNotHeld
<1>1. pc = "idle" /\ buffers = <<>> /\ ~broken
  BY DEF BInv, Turns
<1> QED BY <1>1 DEF BInv, Corks

\* If no chain has MaxIov - 1 empty nodes in a row: left and the list agree, as
\* reset asserts; the iovec the socket works on is never empty and stays the start
\* of what is unsent; a sleeping writer is noted on exactly one buffer, as
\* http2_buff::clean asserts; and a drained connection holds no tcp_nodelay frame
\* back in a corked socket (readSuccess, check_tcp_cork).
THEOREM BufferAlwaysConsistent ==
  ASSUME BufferAssumption, ChainsFilled
  PROVE  Spec => []BufferConsistent
<1>1. Init => OfferDense
  BY DenseEmpty DEF Init, OfferDense
<1>2. BInv /\ OfferDense /\ [Next]_vars => OfferDense'
  BY DenseStep
<1>3. BInv /\ OfferDense => BufferConsistent
  BY LeftHolds, OfferHolds, NoticesHold, UrgentHolds DEF BufferConsistent
<1> QED BY <1>1, <1>2, <1>3, BufferCorrect, PTL DEF Spec
=============================================================================
