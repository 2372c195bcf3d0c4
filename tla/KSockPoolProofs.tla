--------------------------- MODULE KSockPoolProofs ---------------------------
(***************************************************************************)
(* PoolCounts is an invariant of KSockPool for every set of connections    *)
(* and of upstreams, all life times and any number of streams.             *)
(*                                                                         *)
(* The inductive invariant PoolInv says in one place what each connection, *)
(* each upstream and the list have to do with each other.  Its parts take  *)
(* the upstreams, the connections and the list as parameters, because most *)
(* operations of the container first sweep its list and then do something  *)
(* to what the sweep left.                                                 *)
(***************************************************************************)
EXTENDS KSockPool, FiniteSetTheorems, SequenceTheorems, TLAPS

Multi == {"h2", "h2ws"}

Upstream ==
  [conn : Conns \cup {"none"}, admin : BOOLEAN, time : Int, bound : BOOLEAN,
   at : {"none", "out", "pool", "doomed"}]

Connection ==
  [kind : {"none", "tcp", "http", "h2", "h2ws"}, processing : Int,
   has_admin : BOOLEAN, goaway : BOOLEAN]

LiveIn(u) == {h \in Handles : u[h].at # "none"}
OutIn(u) == {h \in Handles : u[h].at = "out"}
OnIn(u, c) == {h \in LiveIn(u) : u[h].conn = c}

\* Upstreams, of which only those in use hold a reference on the container.
UsersGood(u) ==
  /\ u \in [Handles -> Upstream]
  /\ IsFiniteSet(LiveIn(u))
  /\ \A h \in LiveIn(u) : u[h].conn \in Conns
  /\ \A h \in Handles : u[h].bound <=> u[h].at = "out"

\* A connection counts its streams and knows whether one is its admin stream;
\* one that is not shared has at most one upstream.
CountGood(u, cn, c) ==
  /\ cn[c].kind = "none" => OnIn(u, c) = {}
  /\ cn[c].goaway => cn[c].kind \in Multi
  /\ cn[c].kind \in Multi =>
       /\ cn[c].processing = Cardinality(OnIn(u, c))
       /\ cn[c].has_admin <=> \E h \in OnIn(u, c) : u[h].admin
       /\ \A g, h \in OnIn(u, c) : u[g].admin /\ u[h].admin => g = h
  /\ cn[c].kind \notin Multi => \A g, h \in OnIn(u, c) : g = h

CountsGood(u, cn) ==
  /\ cn \in [Conns -> Connection]
  /\ \A c \in Conns : CountGood(u, cn, c)

\* The list holds the idle upstreams, of shared connections the admin stream.
ListGood(u, cn, p) ==
  /\ p \in Seq(Handles) /\ IsInjective(p)
  /\ Range(p) = {h \in Handles : u[h].at = "pool"}
  /\ \A h \in Range(p) : cn[u[h].conn].kind \in Multi => u[h].admin

Good(u, cn, p) == UsersGood(u) /\ CountsGood(u, cn) /\ ListGood(u, cn, p)

PoolInv ==
  /\ now \in Int /\ life_time \in Int /\ owner \in BOOLEAN /\ deleted \in BOOLEAN
  /\ refs = (IF owner THEN 1 ELSE 0) + Cardinality(OutIn(us))
  /\ size = Len(pool)
  /\ deleted => ~owner /\ OutIn(us) = {} /\ pool = <<>>
  /\ Good(us, conn, pool)

-----------------------------------------------------------------------------
(* Sequences without repetition.                                           *)

PartOf(q, p) == q \in Seq(Handles) /\ IsInjective(q) /\ Range(q) \subseteq Range(p)

LEMMA SubSeqPart ==
  ASSUME NEW p \in Seq(Handles), IsInjective(p), NEW m \in 1..Len(p) + 1, NEW n \in 0..Len(p)
  PROVE  PartOf(SubSeq(p, m, n), p)
<1> DEFINE q == SubSeq(p, m, n)
<1>1. /\ q \in Seq(Handles) /\ Len(q) = IF m <= n THEN n - m + 1 ELSE 0
      /\ \A i \in 1..Len(q) : m + i - 1 \in 1..Len(p) /\ q[i] = p[m + i - 1]
  OBVIOUS
<1>2. \A i, j \in 1..Len(q) : q[i] = q[j] => i = j
  BY <1>1 DEF IsInjective
<1>3. IsInjective(q)
  BY <1>1, <1>2 DEF IsInjective
<1>4. Range(q) \subseteq Range(p)
  BY <1>1 DEF Range
<1> QED
  BY <1>1, <1>3, <1>4 DEF PartOf

LEMMA RangeSize ==
  ASSUME NEW p \in Seq(Handles), IsInjective(p)
  PROVE  IsFiniteSet(Range(p)) /\ Cardinality(Range(p)) = Len(p)
<1>1. p \in Bijection(1..Len(p), Range(p))
  BY DEF Bijection, Injection, Surjection, IsInjective, Range
<1>2. IsFiniteSet(1..Len(p)) /\ Cardinality(1..Len(p)) = Len(p)
  <2>1. 1 \in Int /\ Len(p) \in Int /\ Len(p) >= 0
    OBVIOUS
  <2>2. /\ IsFiniteSet(1..Len(p))
        /\ Cardinality(1..Len(p)) = IF 1 > Len(p) THEN 0 ELSE Len(p) - 1 + 1
    BY <2>1, FS_Interval
  <2> QED
    BY <2>1, <2>2
<1> HIDE DEF IsInjective, Range
<1> QED
  BY <1>1, <1>2, FS_Bijection DEF ExistsBijection

LEMMA TailOf ==
  ASSUME NEW p \in Seq(Handles), IsInjective(p), p # <<>>
  PROVE  /\ p[1] \in Handles /\ p[1] \in Range(p)
         /\ Tail(p) \in Seq(Handles) /\ IsInjective(Tail(p))
         /\ Len(Tail(p)) = Len(p) - 1 /\ Range(Tail(p)) = Range(p) \ {p[1]}
<1>1. /\ Len(p) \in Nat /\ Len(p) >= 1 /\ Tail(p) \in Seq(Handles)
      /\ Len(Tail(p)) = Len(p) - 1
      /\ \A i \in 1..Len(p) - 1 : Tail(p)[i] = p[i + 1]
  BY EmptySeq, HeadTailProperties
<1>2. \A i, j \in 1..Len(p) : p[i] = p[j] => i = j
  BY DEF IsInjective
<1>3. IsInjective(Tail(p))
  <2>1. \A i, j \in 1..Len(Tail(p)) : Tail(p)[i] = Tail(p)[j] => i = j
    BY <1>1, <1>2
  <2> QED
    BY <1>1, <2>1 DEF IsInjective
<1>4. /\ Range(p) = {p[i] : i \in 1..Len(p)}
      /\ Range(Tail(p)) = {Tail(p)[i] : i \in 1..Len(p) - 1}
  BY <1>1 DEF Range
<1>5. ASSUME NEW x \in Range(Tail(p)) PROVE x \in Range(p) \ {p[1]}
  <2>1. PICK i \in 1..Len(p) - 1 : x = p[i + 1]
    BY <1>1, <1>4
  <2>2. i + 1 \in 1..Len(p) /\ 1 \in 1..Len(p) /\ i + 1 # 1
    BY <1>1
  <2> QED
    BY <1>2, <1>4, <2>1, <2>2
<1>6. ASSUME NEW x \in Range(p), x # p[1] PROVE x \in Range(Tail(p))
  <2>1. PICK i \in 1..Len(p) : x = p[i]
    BY <1>4
  <2>2. i # 1
    BY <1>6, <2>1
  <2>3. i - 1 \in 1..Len(p) - 1 /\ Tail(p)[i - 1] = x
    BY <1>1, <2>1, <2>2
  <2> QED
    BY <1>4, <2>3
<1> QED
  BY <1>1, <1>3, <1>4, <1>5, <1>6

LEMMA PutInFront ==
  ASSUME NEW p \in Seq(Handles), IsInjective(p), NEW n \in Handles \ Range(p)
  PROVE  /\ <<n>> \o p \in Seq(Handles) /\ IsInjective(<<n>> \o p)
         /\ Len(<<n>> \o p) = Len(p) + 1 /\ Range(<<n>> \o p) = Range(p) \cup {n}
<1> DEFINE q == <<n>> \o p
<1>1. /\ Len(p) \in Nat /\ q \in Seq(Handles) /\ Len(q) = Len(p) + 1
      /\ q[1] = n /\ \A i \in 1..Len(p) : q[i + 1] = p[i]
  OBVIOUS
<1> HIDE DEF q
<1>2. /\ Range(p) = {p[i] : i \in 1..Len(p)} /\ Range(q) = {q[i] : i \in 1..Len(p) + 1}
      /\ \A i, j \in 1..Len(p) : p[i] = p[j] => i = j
  BY <1>1 DEF Range, IsInjective
<1>3. \A i \in 1..Len(p) + 1 : i = 1 \/ (i - 1 \in 1..Len(p) /\ q[i] = p[i - 1])
  BY <1>1
<1>4. \A i, j \in 1..Len(q) : q[i] = q[j] => i = j
  <2>1. \A i \in 1..Len(q) : i # 1 => i - 1 \in 1..Len(p) /\ q[i] = p[i - 1] /\ q[i] # n
    BY <1>1, <1>2, <1>3
  <2> SUFFICES ASSUME NEW i \in 1..Len(q), NEW j \in 1..Len(q), q[i] = q[j] PROVE i = j
    OBVIOUS
  <2>2. CASE i = 1 \/ j = 1
    BY <1>1, <2>1, <2>2
  <2>3. CASE i # 1 /\ j # 1
    <3>1. i - 1 \in 1..Len(p) /\ j - 1 \in 1..Len(p) /\ p[i - 1] = p[j - 1]
      BY <2>1, <2>3
    <3>2. i - 1 = j - 1
      BY <1>2, <3>1
    <3> QED
      BY <1>1, <3>2
  <2> QED
    BY <2>2, <2>3
<1>5. IsInjective(q)
  BY <1>1, <1>4 DEF IsInjective
<1>6. Range(q) = Range(p) \cup {n}
  <2>1. ASSUME NEW x \in Range(q) PROVE x \in Range(p) \cup {n}
    BY <1>1, <1>2, <1>3
  <2>2. ASSUME NEW x \in Range(p) PROVE x \in Range(q)
    <3>1. PICK i \in 1..Len(p) : x = p[i]
      BY <1>2
    <3>2. i + 1 \in 1..Len(p) + 1 /\ q[i + 1] = x
      BY <1>1, <3>1
    <3> QED
      BY <1>2, <3>2
  <2>3. n \in Range(q)
    BY <1>1, <1>2
  <2> QED
    BY <2>1, <2>2, <2>3
<1> QED
  BY <1>1, <1>5, <1>6 DEF q

\* A set of indexes that is not empty has a last one.
LEMMA LastIndex ==
  ASSUME NEW n \in Nat, NEW S \in SUBSET (0..n), S # {}
  PROVE  \E i \in S : \A j \in S : j <= i
<1> DEFINE After(i) == (i + 1)..n
           T == {After(i) : i \in S}
<1>1. T \subseteq FiniteSubsetsOf(Int) /\ T # {}
  <2>1. ASSUME NEW i \in S PROVE After(i) \in FiniteSubsetsOf(Int)
    <3>1. IsFiniteSet(After(i)) /\ After(i) \in SUBSET Int
      BY FS_Interval
    <3> QED
      BY <3>1 DEF FiniteSubsetsOf
  <2> HIDE DEF After
  <2> QED
    BY <2>1
<1>2. PICK x \in T : \A y \in T : ~ (<<y, x>> \in StrictSubsetOrdering(Int))
  BY <1>1, WFMin, FS_StrictSubsetOrderingWellFounded
<1>3. PICK i \in S : x = After(i)
  OBVIOUS
<1>4. ASSUME NEW j \in S, i < j PROVE FALSE
  <2>1. After(j) \subseteq After(i) /\ j \in After(i) /\ j \notin After(j)
    BY <1>4
  <2>2. <<After(j), x>> \in StrictSubsetOrdering(Int)
    BY <1>3, <2>1 DEF StrictSubsetOrdering
  <2> QED
    BY <1>2, <2>2
<1> QED
  BY <1>4

LEMMA RefreshedPart ==
  ASSUME pool \in Seq(Handles), IsInjective(pool)
  PROVE  PartOf(Refreshed, pool)
<1> DEFINE keep == {i \in 1..Len(pool) : ~Expired(pool[i])}
           last == IF keep = {} THEN 0 ELSE CHOOSE i \in keep : \A j \in keep : j <= i
<1>1. last \in 0..Len(pool)
  <2>1. CASE keep = {}
    BY <2>1
  <2>2. CASE keep # {}
    <3>1. Len(pool) \in Nat /\ keep \in SUBSET (0..Len(pool))
      OBVIOUS
    <3>2. \E i \in keep : \A j \in keep : j <= i
      BY <2>2, <3>1, LastIndex
    <3>3. (CHOOSE i \in keep : \A j \in keep : j <= i) \in keep
      BY <3>2
    <3> QED
      BY <2>2, <3>1, <3>3
  <2> QED
    BY <2>1, <2>2
<1>2. Refreshed = SubSeq(pool, 1, last)
  BY DEF Refreshed
<1> HIDE DEF last
<1> QED
  BY <1>1, <1>2, SubSeqPart

LEMMA RestPart ==
  ASSUME pool \in Seq(Handles), IsInjective(pool), NEW ws \in BOOLEAN
  PROVE  PartOf(Rest(ws), pool)
<1> DEFINE s == Refreshed
           over(i) == /\ IsMultiStream(s[i]) /\ ConnectFails(s[i])
                      /\ ws => support_websocket(s[i])
           ks == {k \in 0..Len(s) : \A i \in 1..k : over(i)}
           passed == CHOOSE k \in ks : \A j \in ks : j <= k
<1>1. PartOf(s, pool)
  BY RefreshedPart
<1>2. s \in Seq(Handles) /\ IsInjective(s) /\ Len(s) \in Nat
  BY <1>1 DEF PartOf
<1> HIDE DEF s, over
<1>3. 0 \in ks
  BY <1>2
<1>4. \E k \in ks : \A j \in ks : j <= k
  BY <1>2, <1>3, LastIndex
<1>5. passed \in 0..Len(s)
  BY <1>4
<1>6. Rest(ws) = SubSeq(s, passed + 1, Len(s))
  BY DEF Rest, s, over
<1> HIDE DEF passed
<1>7. PartOf(SubSeq(s, passed + 1, Len(s)), s)
  BY <1>2, <1>5, SubSeqPart
<1> QED
  BY <1>1, <1>6, <1>7 DEF PartOf

-----------------------------------------------------------------------------
(* Upstreams that go, and what their connections are left with.            *)

\* u is us without the upstreams in D, as far as connections can tell.
Without(u, D) ==
  /\ u \in [Handles -> Upstream]
  /\ \A h \in D : u[h].at = "none"
  /\ \A h \in Handles \ D : /\ u[h].conn = us[h].conn /\ u[h].admin = us[h].admin
                            /\ u[h].at = "none" <=> us[h].at = "none"

Left(D) == [c \in Conns |-> ConnWithout(c, D)]

LEMMA WithoutOn ==
  ASSUME UsersGood(us), NEW D \in SUBSET Live, NEW u, Without(u, D)
  PROVE  /\ LiveIn(u) = Live \ D
         /\ \A c : OnIn(u, c) = On(c) \ D
         /\ \A h \in LiveIn(u) : u[h].admin = us[h].admin
<1>1. LiveIn(u) = Live \ D
  BY DEF Without, LiveIn, Live
<1>2. ASSUME NEW c PROVE OnIn(u, c) = On(c) \ D
  BY <1>1 DEF Without, OnIn, On, Live
<1>3. \A h \in LiveIn(u) : u[h].admin = us[h].admin
  BY <1>1 DEF Without, Live
<1> QED
  BY <1>1, <1>2, <1>3

LEMMA OnFinite ==
  ASSUME UsersGood(us), NEW c
  PROVE  IsFiniteSet(On(c)) /\ On(c) = OnIn(us, c) /\ Cardinality(On(c)) \in Nat
<1>1. On(c) \subseteq Live /\ IsFiniteSet(Live) /\ On(c) = OnIn(us, c)
  BY DEF UsersGood, LiveIn, Live, On, OnIn
<1>2. IsFiniteSet(On(c))
  BY <1>1, FS_Subset
<1> QED
  BY <1>1, <1>2, FS_CardinalityType

\* release_admin and the closing of a connection keep every count right.
LEMMA LeftGood ==
  ASSUME UsersGood(us), CountsGood(us, conn), NEW D \in SUBSET Live, NEW u, Without(u, D)
  PROVE  CountsGood(u, Left(D))
<1>1. /\ \A c : OnIn(u, c) = On(c) \ D
      /\ \A h \in LiveIn(u) : u[h].admin = us[h].admin
  BY WithoutOn
<1>2. SUFFICES ASSUME NEW c \in Conns
               PROVE  Left(D)[c] \in Connection /\ CountGood(u, Left(D), c)
  BY DEF CountsGood, Left
<1> DEFINE mine == D \cap On(c)
<1>3. /\ IsFiniteSet(On(c)) /\ On(c) = OnIn(us, c) /\ Cardinality(On(c)) \in Nat
      /\ OnIn(u, c) = On(c) \ D
      /\ \A h \in On(c) \ D : u[h].admin = us[h].admin
  BY <1>1, OnFinite DEF OnIn
<1>4. /\ Cardinality(On(c) \ D) = Cardinality(On(c)) - Cardinality(mine)
      /\ Cardinality(mine) \in Nat
  <2>1. mine = On(c) \cap D /\ IsFiniteSet(mine)
    BY <1>3, FS_Intersection
  <2>2. Cardinality(mine) \in Nat
    BY <2>1, FS_CardinalityType
  <2>3. Cardinality(On(c) \ D) = Cardinality(On(c)) - Cardinality(On(c) \cap D)
    BY <1>3, FS_Difference
  <2> QED
    BY <2>1, <2>2, <2>3
<1>5. conn[c] \in Connection /\ CountGood(us, conn, c)
  BY DEF CountsGood
<1>6. Left(D)[c] = ConnWithout(c, D)
  BY DEF Left
<1>7. CASE mine = {}
  <2>1. Left(D)[c] = conn[c] /\ On(c) \ D = On(c)
    BY <1>6, <1>7 DEF ConnWithout
  <2> QED
    BY <1>3, <1>5, <2>1 DEF CountGood
<1>8. CASE mine # {} /\ conn[c].kind \in Multi
  <2>1. Left(D)[c] = [conn[c] EXCEPT !.processing = @ - Cardinality(mine),
                           !.has_admin = @ /\ \A h \in mine : ~us[h].admin]
    BY <1>6, <1>8 DEF ConnWithout, Multi
  <2>2. /\ Left(D)[c] \in Connection /\ Left(D)[c].kind = conn[c].kind
        /\ Left(D)[c].goaway = conn[c].goaway
        /\ Left(D)[c].processing = conn[c].processing - Cardinality(mine)
        /\ Left(D)[c].has_admin = (conn[c].has_admin /\ \A h \in mine : ~us[h].admin)
    <3> DEFINE p == conn[c].processing - Cardinality(mine)
               a == conn[c].has_admin /\ \A h \in mine : ~us[h].admin
    <3>1. p \in Int /\ a \in BOOLEAN
      BY <1>4, <1>5 DEF Connection
    <3>2. Left(D)[c] = [conn[c] EXCEPT !.processing = p, !.has_admin = a]
      BY <2>1
    <3> HIDE DEF p, a
    <3>3. /\ Left(D)[c] \in Connection /\ Left(D)[c].kind = conn[c].kind
          /\ Left(D)[c].goaway = conn[c].goaway
          /\ Left(D)[c].processing = p /\ Left(D)[c].has_admin = a
      BY <1>5, <3>1, <3>2 DEF Connection
    <3> QED
      BY <3>3 DEF p, a
  <2>3. Left(D)[c].has_admin <=> \E h \in On(c) \ D : us[h].admin
    BY <1>3, <1>5, <1>8, <2>2 DEF CountGood
  <2>4. \A g, h \in On(c) \ D : us[g].admin /\ us[h].admin => g = h
    BY <1>3, <1>5, <1>8 DEF CountGood
  <2> QED
    BY <1>3, <1>4, <1>5, <1>8, <2>2, <2>3, <2>4 DEF CountGood, Multi
<1>9. CASE mine # {} /\ conn[c].kind \notin Multi
  <2>1. Left(D)[c] = Closed
    BY <1>6, <1>9 DEF ConnWithout, Multi
  <2>2. On(c) \ D = {}
    BY <1>3, <1>5, <1>9 DEF CountGood
  <2> QED
    BY <1>3, <2>1, <2>2 DEF CountGood, Closed, Connection, Multi
<1> QED
  BY <1>7, <1>8, <1>9

\* A connection that still has an upstream keeps its kind.
LEMMA KindKept ==
  ASSUME UsersGood(us), CountsGood(us, conn), NEW D \in SUBSET Live, NEW h \in Live \ D
  PROVE  us[h].conn \in Conns /\ Left(D)[us[h].conn].kind = conn[us[h].conn].kind
<1> DEFINE c == us[h].conn
<1>1. c \in Conns /\ h \in On(c)
  BY DEF UsersGood, Live, LiveIn, On
<1>2. conn[c] \in Connection /\ CountGood(us, conn, c) /\ On(c) = OnIn(us, c)
  BY <1>1, OnFinite DEF CountsGood
<1>3. Left(D)[c] = ConnWithout(c, D)
  BY <1>1 DEF Left
<1>4. CASE D \cap On(c) = {}
  BY <1>1, <1>3, <1>4 DEF ConnWithout
<1>5. CASE D \cap On(c) # {} /\ conn[c].kind \in Multi
  BY <1>1, <1>2, <1>3, <1>5 DEF ConnWithout, Multi, Connection
<1>6. CASE D \cap On(c) # {} /\ conn[c].kind \notin Multi
  BY <1>1, <1>2, <1>6 DEF CountGood
<1> QED
  BY <1>4, <1>5, <1>6

-----------------------------------------------------------------------------
(* A sweep of the list, and what an operation does to what it left.        *)

Swept(kept, same) == [h \in Handles |-> Gone(h, Dropped(kept), same)]

\* Every part of the list may be what a sweep keeps: the references are the
\* same, size is right, and nothing happened to an upstream that was kept.
LEMMA SweepGood ==
  ASSUME Good(us, conn, pool), size = Len(pool), NEW same \in BOOLEAN, NEW kept,
         PartOf(kept, pool)
  PROVE  /\ Good(Swept(kept, same), SweepConns(kept, same), kept)
         /\ OutIn(Swept(kept, same)) = OutIn(us)
         /\ LiveIn(Swept(kept, same)) \subseteq Live
         /\ size - Cardinality(Dropped(kept)) = Len(kept)
         /\ \A h \in Range(kept) :
              /\ h \in Live /\ us[h].conn \in Conns /\ Swept(kept, same)[h] = us[h]
              /\ SweepConns(kept, same)[us[h].conn].kind = conn[us[h].conn].kind
<1> DEFINE R == Dropped(kept)
           L == Later(R, same)
           D == R \ L
           u == Swept(kept, same)
           cn == SweepConns(kept, same)
<1>1. /\ UsersGood(us) /\ CountsGood(us, conn) /\ ListGood(us, conn, pool)
      /\ kept \in Seq(Handles) /\ IsInjective(kept) /\ Range(kept) \subseteq Range(pool)
  BY DEF Good, PartOf
<1>2. /\ Range(pool) = {h \in Handles : us[h].at = "pool"}
      /\ R = Range(pool) \ Range(kept) /\ R \subseteq Live
      /\ L \subseteq R /\ D \in SUBSET Live
  BY <1>1 DEF ListGood, Dropped, Later, Live
<1>3. /\ cn = Left(D)
      /\ u = [h \in Handles |-> IF h \in L THEN [us[h] EXCEPT !.at = "doomed"]
                                ELSE IF h \in R THEN Free ELSE us[h]]
  BY DEF SweepConns, Left, Swept, Gone
<1> HIDE DEF R, L, u, cn
<1>4. us \in [Handles -> Upstream]
  BY <1>1 DEF UsersGood
<1>5. ASSUME NEW h \in Handles
      PROVE  /\ u[h] \in Upstream
             /\ h \in L => /\ u[h].conn = us[h].conn /\ u[h].admin = us[h].admin
                          /\ u[h].at = "doomed" /\ u[h].bound = us[h].bound
             /\ h \in D => u[h].at = "none" /\ u[h].bound = FALSE
             /\ h \notin R => u[h] = us[h]
  <2> DEFINE d == [us[h] EXCEPT !.at = "doomed"]
  <2>1. us[h] \in Upstream
    BY <1>4
  <2>2. /\ d \in Upstream /\ d.conn = us[h].conn /\ d.admin = us[h].admin
        /\ d.at = "doomed" /\ d.bound = us[h].bound
    BY <2>1 DEF Upstream
  <2>3. Free \in Upstream /\ Free.at = "none" /\ Free.bound = FALSE
    BY DEF Upstream, Free
  <2>4. u[h] = IF h \in L THEN d ELSE IF h \in R THEN Free ELSE us[h]
    BY <1>3
  <2> HIDE DEF d
  <2> QED
    BY <1>2, <2>1, <2>2, <2>3, <2>4 DEF D
<1>6. u \in [Handles -> Upstream]
  <2>1. u = [h \in Handles |-> u[h]]
    BY <1>3
  <2> QED
    BY <1>5, <2>1
<1>7. L \subseteq Handles /\ D \subseteq Handles /\ R \subseteq Handles /\ R = L \cup D
  BY <1>2 DEF Live
<1> HIDE DEF D
<1>8. Without(u, D)
  <2>1. \A h \in D : u[h].at = "none"
    BY <1>5, <1>7
  <2>2. \A h \in Handles \ D : /\ u[h].conn = us[h].conn /\ u[h].admin = us[h].admin
                               /\ u[h].at = "none" <=> us[h].at = "none"
    <3>1. \A h \in L : us[h].at = "pool"
      BY <1>2
    <3> SUFFICES ASSUME NEW h \in Handles, h \notin D
                 PROVE  /\ u[h].conn = us[h].conn /\ u[h].admin = us[h].admin
                        /\ u[h].at = "none" <=> us[h].at = "none"
      OBVIOUS
    <3>2. CASE h \in L
      BY <1>5, <3>1, <3>2
    <3>3. CASE h \notin R
      BY <1>5, <3>3
    <3> QED
      BY <1>7, <3>2, <3>3
  <2> QED
    BY <1>6, <2>1, <2>2 DEF Without
<1>9. CountsGood(u, cn)
  BY <1>1, <1>2, <1>3, <1>8, LeftGood
<1>10. LiveIn(u) = Live \ D
  BY <1>1, <1>2, <1>8, WithoutOn
<1>11. OutIn(u) = OutIn(us)
  <2>1. \A h \in R : us[h].at = "pool"
    BY <1>2
  <2>2. \A h \in Handles : u[h].at = "out" <=> us[h].at = "out"
    BY <1>5, <1>7, <2>1
  <2> QED
    BY <2>2 DEF OutIn
<1>12. UsersGood(u)
  <2>1. IsFiniteSet(LiveIn(u))
    <3>1. IsFiniteSet(Live) /\ Live \ D \subseteq Live
      BY <1>1 DEF UsersGood, Live, LiveIn
    <3> QED
      BY <1>10, <3>1, FS_Subset
  <2>2. \A h \in LiveIn(u) : u[h].conn \in Conns
    <3>1. \A h \in Live : us[h].conn \in Conns
      BY <1>1 DEF UsersGood, Live, LiveIn
    <3>2. \A h \in Live \ D : h \in Handles \ D
      BY DEF Live
    <3> QED
      BY <1>8, <1>10, <3>1, <3>2 DEF Without
  <2>3. \A h \in Handles : u[h].bound <=> u[h].at = "out"
    <3>1. \A h \in Handles : us[h].bound <=> us[h].at = "out"
      BY <1>1 DEF UsersGood
    <3>2. \A h \in R : us[h].at = "pool"
      BY <1>2
    <3> QED
      BY <1>5, <1>7, <3>1, <3>2
  <2> QED
    BY <1>6, <2>1, <2>2, <2>3 DEF UsersGood
<1>13. \A h \in Range(kept) : h \in Handles /\ h \notin R /\ us[h].at = "pool" /\ h \in Live \ D
  BY <1>1, <1>2, <1>7 DEF Live
<1>14. \A h \in Range(kept) : us[h].conn \in Conns /\ cn[us[h].conn].kind = conn[us[h].conn].kind
  BY <1>1, <1>2, <1>3, <1>13, KindKept
<1>15. ListGood(u, cn, kept)
  <2>1. Range(kept) = {h \in Handles : u[h].at = "pool"}
    <3>1. \A h \in R : u[h].at # "pool" /\ h \notin Range(kept)
      BY <1>2, <1>5, <1>7
    <3>2. \A h \in Handles \ R : u[h].at = us[h].at
      BY <1>5
    <3> QED
      BY <1>2, <1>13, <3>1, <3>2
  <2>2. \A h \in Range(kept) : cn[u[h].conn].kind \in Multi => u[h].admin
    BY <1>1, <1>5, <1>13, <1>14 DEF ListGood
  <2> QED
    BY <1>1, <2>1, <2>2 DEF ListGood
<1>16. size - Cardinality(R) = Len(kept)
  <2>1. /\ IsFiniteSet(Range(pool)) /\ Cardinality(Range(pool)) = Len(pool)
        /\ Cardinality(Range(kept)) = Len(kept)
    BY <1>1, RangeSize DEF ListGood
  <2>2. Range(pool) \cap Range(kept) = Range(kept)
    BY <1>1
  <2>3. Cardinality(R) = Cardinality(Range(pool)) - Cardinality(Range(pool) \cap Range(kept))
    BY <1>2, <2>1, FS_Difference
  <2>4. Cardinality(Range(pool) \cap Range(kept)) = Len(kept)
    BY <2>1, <2>2, Zenon
  <2>5. Len(pool) \in Int /\ Len(kept) \in Int
    BY <1>1 DEF ListGood
  <2>6. Cardinality(R) = Len(pool) - Len(kept)
    BY <2>1, <2>3, <2>4, Zenon
  <2> QED
    BY <2>5, <2>6
<1>17. Good(u, cn, kept)
  BY <1>9, <1>12, <1>15 DEF Good
<1> QED
  <2>1. \A h \in Range(kept) : h \in Live /\ u[h] = us[h]
    BY <1>5, <1>13
  <2>2. LiveIn(u) \subseteq Live
    BY <1>10
  <2> QED
    BY <1>11, <1>14, <1>16, <1>17, <2>1, <2>2 DEF u, cn, R

\* What connections see of upstreams that stay where they are.
LEMMA SameOn ==
  ASSUME NEW u, NEW w, UsersGood(u), w \in [Handles -> Upstream],
         \A h \in Handles : /\ w[h].conn = u[h].conn /\ w[h].admin = u[h].admin
                            /\ w[h].at = "none" <=> u[h].at = "none",
         \A h \in Handles : w[h].bound <=> w[h].at = "out"
  PROVE  /\ UsersGood(w)
         /\ \A cn : CountsGood(u, cn) => CountsGood(w, cn)
<1>1. LiveIn(w) = LiveIn(u)
  BY DEF LiveIn
<1>2. \A c : OnIn(w, c) = OnIn(u, c)
  BY <1>1 DEF OnIn, LiveIn
<1>3. UsersGood(w)
  BY <1>1 DEF UsersGood, LiveIn
<1>4. ASSUME NEW cn, CountsGood(u, cn) PROVE CountsGood(w, cn)
  <2>1. SUFFICES ASSUME NEW c \in Conns PROVE CountGood(w, cn, c)
    BY <1>4 DEF CountsGood
  <2>2. CountGood(u, cn, c) /\ OnIn(w, c) = OnIn(u, c) /\ OnIn(u, c) \subseteq Handles
    BY <1>2, <1>4 DEF CountsGood, OnIn, LiveIn
  <2> QED
    BY <2>2 DEF CountGood
<1> QED
  BY <1>3, <1>4

\* The references of upstreams in use.
LEMMA OutSize ==
  ASSUME NEW u, UsersGood(u), NEW h
  PROVE  /\ Cardinality(OutIn(u)) \in Nat
         /\ h \notin OutIn(u) => Cardinality(OutIn(u) \cup {h}) = Cardinality(OutIn(u)) + 1
         /\ h \in OutIn(u) => Cardinality(OutIn(u) \ {h}) = Cardinality(OutIn(u)) - 1
<1>1. OutIn(u) \subseteq LiveIn(u) /\ IsFiniteSet(LiveIn(u))
  BY DEF OutIn, LiveIn, UsersGood
<1>2. IsFiniteSet(OutIn(u))
  BY <1>1, FS_Subset
<1>3. Cardinality(OutIn(u)) \in Nat
  BY <1>2, FS_CardinalityType
<1>4. h \notin OutIn(u) => Cardinality(OutIn(u) \cup {h}) = Cardinality(OutIn(u)) + 1
  BY <1>2, FS_AddElement
<1>5. h \in OutIn(u) => Cardinality(OutIn(u) \ {h}) = Cardinality(OutIn(u)) - 1
  BY <1>2, FS_RemoveElement
<1> QED
  BY <1>3, <1>4, <1>5

\* get_pool_socket hands out the first of the list.
Taken(u, p, t) ==
  [h \in Handles |->
     IF h = p[1] THEN [u[h] EXCEPT !.bound = TRUE, !.at = "out", !.time = t] ELSE u[h]]

LEMMA TakeGood ==
  ASSUME NEW u, NEW cn, NEW p, Good(u, cn, p), p # <<>>, NEW t \in Int
  PROVE  /\ Good(Taken(u, p, t), cn, Tail(p))
         /\ OutIn(Taken(u, p, t)) = OutIn(u) \cup {p[1]} /\ p[1] \notin OutIn(u)
         /\ Len(Tail(p)) = Len(p) - 1
<1> DEFINE w == Taken(u, p, t)
           f == p[1]
<1>1. /\ UsersGood(u) /\ CountsGood(u, cn) /\ ListGood(u, cn, p)
      /\ u \in [Handles -> Upstream] /\ p \in Seq(Handles) /\ IsInjective(p)
      /\ Range(p) = {h \in Handles : u[h].at = "pool"}
  BY DEF Good, UsersGood, ListGood
<1>2. /\ f \in Handles /\ f \in Range(p) /\ Tail(p) \in Seq(Handles)
      /\ IsInjective(Tail(p)) /\ Len(Tail(p)) = Len(p) - 1
      /\ Range(Tail(p)) = Range(p) \ {f}
  BY <1>1, TailOf
<1>3. u[f].at = "pool"
  BY <1>1, <1>2
<1>4. /\ w \in [Handles -> Upstream]
      /\ \A h \in Handles : h # f => w[h] = u[h]
      /\ w[f].conn = u[f].conn /\ w[f].admin = u[f].admin
      /\ w[f].bound = TRUE /\ w[f].at = "out"
  <2> HIDE DEF f
  <2>1. w = [u EXCEPT ![f] = [u[f] EXCEPT !.bound = TRUE, !.at = "out", !.time = t]]
    BY <1>1, <1>2 DEF Taken, f
  <2>2. u[f] \in Upstream
    BY <1>1, <1>2
  <2> DEFINE r == [u[f] EXCEPT !.bound = TRUE, !.at = "out", !.time = t]
  <2>3. /\ r \in Upstream /\ r.conn = u[f].conn /\ r.admin = u[f].admin
        /\ r.bound = TRUE /\ r.at = "out"
    BY <2>2 DEF Upstream
  <2> HIDE DEF r, w
  <2> QED
    BY <1>1, <1>2, <2>1, <2>3 DEF r
<1> HIDE DEF w, f
<1>5. \A h \in Handles : w[h].bound <=> w[h].at = "out"
  BY <1>1, <1>4 DEF UsersGood
<1>6. UsersGood(w) /\ CountsGood(w, cn)
  <2>1. \A h \in Handles : /\ w[h].conn = u[h].conn /\ w[h].admin = u[h].admin
                           /\ w[h].at = "none" <=> u[h].at = "none"
    BY <1>3, <1>4
  <2> QED
    BY <1>1, <1>4, <1>5, <2>1, SameOn
<1>7. OutIn(w) = OutIn(u) \cup {f} /\ f \notin OutIn(u)
  BY <1>2, <1>3, <1>4 DEF OutIn
<1>8. ListGood(w, cn, Tail(p))
  <2>1. Range(Tail(p)) = {h \in Handles : w[h].at = "pool"}
    BY <1>1, <1>2, <1>4
  <2>2. \A h \in Range(Tail(p)) : cn[w[h].conn].kind \in Multi => w[h].admin
    BY <1>1, <1>2, <1>4 DEF ListGood
  <2> QED
    BY <1>2, <2>1, <2>2 DEF ListGood
<1> QED
  BY <1>2, <1>6, <1>7, <1>8 DEF Good, w, f

\* A new upstream x on the connection c, which becomes k.
LEMMA AddGood ==
  ASSUME NEW u, NEW cn, UsersGood(u), CountsGood(u, cn),
         NEW n \in Handles, n \notin LiveIn(u), NEW c \in Conns,
         NEW x \in Upstream, x.conn = c, x.at \in {"out", "pool"}, x.bound <=> x.at = "out",
         NEW k \in Connection, k.kind # "none", k.goaway => k.kind \in Multi,
         k.kind \in Multi =>
           /\ k.processing = Cardinality(OnIn(u, c)) + 1
           /\ k.has_admin <=> x.admin \/ \E h \in OnIn(u, c) : u[h].admin
           /\ x.admin => \A h \in OnIn(u, c) : ~u[h].admin
           /\ \A g, h \in OnIn(u, c) : u[g].admin /\ u[h].admin => g = h,
         k.kind \notin Multi => OnIn(u, c) = {}
  PROVE  /\ UsersGood([u EXCEPT ![n] = x])
         /\ CountsGood([u EXCEPT ![n] = x], [cn EXCEPT ![c] = k])
<1> DEFINE w == [u EXCEPT ![n] = x]
           d == [cn EXCEPT ![c] = k]
<1>1. /\ u \in [Handles -> Upstream] /\ cn \in [Conns -> Connection]
      /\ IsFiniteSet(LiveIn(u))
      /\ w \in [Handles -> Upstream] /\ d \in [Conns -> Connection]
      /\ w[n] = x /\ \A h \in Handles \ {n} : w[h] = u[h]
      /\ d[c] = k /\ \A e \in Conns \ {c} : d[e] = cn[e]
  BY DEF UsersGood, CountsGood
<1> HIDE DEF w, d
<1>2. LiveIn(w) = LiveIn(u) \cup {n}
  BY <1>1 DEF LiveIn
<1>3. OnIn(w, c) = OnIn(u, c) \cup {n} /\ n \notin OnIn(u, c)
  BY <1>1 DEF LiveIn, OnIn
<1>4. \A e \in Conns \ {c} : OnIn(w, e) = OnIn(u, e) /\ n \notin OnIn(u, e)
  BY <1>1 DEF LiveIn, OnIn
<1>5. \A e : OnIn(u, e) \subseteq LiveIn(u) /\ OnIn(u, e) \subseteq Handles
  BY DEF OnIn, LiveIn
<1>6. UsersGood(w)
  <2>1. IsFiniteSet(LiveIn(w))
    BY <1>1, <1>2, FS_AddElement
  <2>2. \A h \in LiveIn(w) : w[h].conn \in Conns
    BY <1>1 DEF UsersGood, LiveIn
  <2>3. \A h \in Handles : w[h].bound <=> w[h].at = "out"
    BY <1>1 DEF UsersGood
  <2> QED
    BY <1>1, <2>1, <2>2, <2>3 DEF UsersGood
<1>7. Cardinality(OnIn(w, c)) = Cardinality(OnIn(u, c)) + 1
  <2>1. IsFiniteSet(OnIn(u, c))
    BY <1>1, <1>5, FS_Subset
  <2>2. Cardinality(OnIn(u, c) \cup {n}) = Cardinality(OnIn(u, c)) + 1
    BY <1>3, <2>1, FS_AddElement
  <2> QED
    BY <1>3, <2>2, Zenon
<1>8. CountGood(w, d, c)
  <2>1. \A h \in OnIn(u, c) : w[h] = u[h]
    BY <1>1, <1>3, <1>5
  <2>2. \A h \in OnIn(w, c) : h = n \/ h \in OnIn(u, c)
    BY <1>3
  <2>3. n \in OnIn(w, c) /\ \A h \in OnIn(u, c) : h \in OnIn(w, c)
    BY <1>3
  <2>4. ASSUME k.kind \in Multi
        PROVE  /\ k.has_admin <=> \E h \in OnIn(w, c) : w[h].admin
               /\ \A g, h \in OnIn(w, c) : w[g].admin /\ w[h].admin => g = h
    <3>1. k.has_admin <=> \E h \in OnIn(w, c) : w[h].admin
      BY <1>1, <2>1, <2>2, <2>3, <2>4
    <3>2. \A g, h \in OnIn(w, c) : w[g].admin /\ w[h].admin => g = h
      BY <1>1, <2>1, <2>2, <2>4
    <3> QED
      BY <3>1, <3>2
  <2>5. ASSUME k.kind \notin Multi PROVE \A g, h \in OnIn(w, c) : g = h
    BY <2>2, <2>5
  <2> QED
    BY <1>1, <1>7, <2>4, <2>5 DEF CountGood
<1>9. ASSUME NEW e \in Conns \ {c} PROVE CountGood(w, d, e)
  <2>1. CountGood(u, cn, e)
    BY DEF CountsGood
  <2>2. /\ OnIn(w, e) = OnIn(u, e) /\ d[e] = cn[e]
        /\ \A h \in OnIn(u, e) : w[h] = u[h]
    BY <1>1, <1>4, <1>5
  <2> QED
    BY <2>1, <2>2 DEF CountGood
<1> QED
  BY <1>1, <1>6, <1>8, <1>9 DEF CountsGood, w, d

\* If it is handed out, the list has nothing to do with it.
LEMMA AddList ==
  ASSUME NEW u, NEW cn, NEW p, UsersGood(u), CountsGood(u, cn), ListGood(u, cn, p),
         NEW n \in Handles, n \notin LiveIn(u), NEW x \in Upstream, x.at = "out",
         NEW c \in Conns, NEW k \in Connection, k.kind = cn[c].kind \/ OnIn(u, c) = {}
  PROVE  /\ ListGood([u EXCEPT ![n] = x], [cn EXCEPT ![c] = k], p)
         /\ OutIn([u EXCEPT ![n] = x]) = OutIn(u) \cup {n} /\ n \notin OutIn(u)
<1> DEFINE w == [u EXCEPT ![n] = x]
           d == [cn EXCEPT ![c] = k]
<1>1. /\ w[n] = x /\ \A h \in Handles \ {n} : w[h] = u[h]
      /\ d[c] = k /\ \A e \in Conns \ {c} : d[e] = cn[e]
      /\ u[n].at = "none"
  BY DEF UsersGood, CountsGood, LiveIn
<1> HIDE DEF w, d
<1>2. /\ Range(p) = {h \in Handles : u[h].at = "pool"}
      /\ \A h \in Range(p) : cn[u[h].conn].kind \in Multi => u[h].admin
  BY DEF ListGood
<1>3. Range(p) = {h \in Handles : w[h].at = "pool"}
  BY <1>1, <1>2
<1>4. \A h \in Range(p) : h \in Handles \ {n} /\ u[h].conn \in Conns
  BY <1>1, <1>2 DEF UsersGood, LiveIn
<1>5. ASSUME NEW h \in Range(p) PROVE d[w[h].conn].kind = cn[u[h].conn].kind
  <2>1. CASE u[h].conn = c
    <3>1. h \in OnIn(u, c)
      BY <1>2, <2>1 DEF OnIn, LiveIn
    <3> QED
      BY <1>1, <1>4, <2>1, <3>1
  <2>2. CASE u[h].conn # c
    BY <1>1, <1>4, <2>2
  <2> QED
    BY <2>1, <2>2
<1>6. \A h \in Range(p) : d[w[h].conn].kind \in Multi => w[h].admin
  BY <1>1, <1>2, <1>4, <1>5
<1>7. OutIn(w) = OutIn(u) \cup {n} /\ n \notin OutIn(u)
  BY <1>1 DEF OutIn
<1> QED
  BY <1>3, <1>6, <1>7 DEF ListGood, w, d

\* Destroying an upstream that is not in the list.
LEMMA DestroyGood ==
  ASSUME Good(us, conn, pool), NEW h \in Handles, us[h].at \in {"out", "doomed"}
  PROVE  /\ Good([us EXCEPT ![h] = Free], Left({h}), pool)
         /\ OutIn([us EXCEPT ![h] = Free]) = OutIn(us) \ {h}
         /\ LiveIn([us EXCEPT ![h] = Free]) = Live \ {h}
<1> DEFINE u == [us EXCEPT ![h] = Free]
<1>1. /\ UsersGood(us) /\ CountsGood(us, conn) /\ ListGood(us, conn, pool)
      /\ us \in [Handles -> Upstream] /\ IsFiniteSet(Live) /\ {h} \in SUBSET Live
  BY DEF Good, UsersGood, Live, LiveIn
<1>2. Free \in Upstream /\ Free.at = "none" /\ Free.bound = FALSE
  BY DEF Upstream, Free
<1>3. /\ u \in [Handles -> Upstream] /\ u[h].at = "none" /\ u[h].bound = FALSE
      /\ \A g \in Handles \ {h} : u[g] = us[g]
  BY <1>1, <1>2
<1> HIDE DEF u
<1>4. Without(u, {h})
  BY <1>3 DEF Without
<1>5. CountsGood(u, Left({h})) /\ LiveIn(u) = Live \ {h}
  BY <1>1, <1>4, LeftGood, WithoutOn
<1>6. UsersGood(u)
  <2>1. IsFiniteSet(LiveIn(u))
    BY <1>1, <1>5, FS_RemoveElement
  <2>2. \A g \in LiveIn(u) : u[g].conn \in Conns
    BY <1>1, <1>3 DEF UsersGood, LiveIn
  <2>3. \A g \in Handles : u[g].bound <=> u[g].at = "out"
    BY <1>1, <1>3 DEF UsersGood
  <2> QED
    BY <1>3, <2>1, <2>2, <2>3 DEF UsersGood
<1>7. OutIn(u) = OutIn(us) \ {h}
  BY <1>3 DEF OutIn
<1>8. ListGood(u, Left({h}), pool)
  <2>1. \A g \in Range(pool) : g \in Live \ {h} /\ g \in Handles \ {h}
    BY <1>1 DEF ListGood, Live
  <2>2. \A g \in Live \ {h} : Left({h})[us[g].conn].kind = conn[us[g].conn].kind
    BY <1>1, KindKept
  <2>3. Range(pool) = {g \in Handles : u[g].at = "pool"}
    BY <1>1, <1>3 DEF ListGood
  <2>4. \A g \in Range(pool) : Left({h})[u[g].conn].kind \in Multi => u[g].admin
    BY <1>1, <1>3, <2>1, <2>2 DEF ListGood
  <2> QED
    BY <1>1, <2>3, <2>4 DEF ListGood
<1> QED
  BY <1>5, <1>6, <1>7, <1>8 DEF Good, u

-----------------------------------------------------------------------------
(* The operations.                                                         *)

\* What a primed invariant asks, when size and the references follow.
LEMMA Reached ==
  ASSUME PoolInv, Good(us', conn', pool'), size' = Len(pool'),
         now' \in Int, life_time' \in Int, owner' \in BOOLEAN, deleted' \in BOOLEAN,
         refs' = (IF owner' THEN 1 ELSE 0) + Cardinality(OutIn(us')),
         deleted' => ~owner' /\ OutIn(us') = {} /\ pool' = <<>>
  PROVE  PoolInv'
BY DEF PoolInv, Good, UsersGood, CountsGood, CountGood, ListGood, OutIn, LiveIn, OnIn

LEMMA InvParts ==
  ASSUME PoolInv
  PROVE  /\ Good(us, conn, pool) /\ UsersGood(us) /\ CountsGood(us, conn)
         /\ ListGood(us, conn, pool)
         /\ pool \in Seq(Handles) /\ IsInjective(pool) /\ size = Len(pool)
         /\ us \in [Handles -> Upstream] /\ conn \in [Conns -> Connection]
         /\ Cardinality(OutIn(us)) \in Nat
         /\ now \in Int /\ life_time \in Int /\ owner \in BOOLEAN /\ deleted \in BOOLEAN
         /\ refs = (IF owner THEN 1 ELSE 0) + Cardinality(OutIn(us))
         /\ deleted => ~owner /\ OutIn(us) = {} /\ pool = <<>>
<1>1. Good(us, conn, pool) /\ UsersGood(us)
  BY DEF PoolInv, Good
<1>2. Cardinality(OutIn(us)) \in Nat
  BY <1>1, OutSize
<1> QED
  BY <1>1, <1>2 DEF PoolInv, Good, UsersGood, CountsGood, ListGood

LEMMA NonePart ==
  ASSUME NEW p \in Seq(Handles)
  PROVE  PartOf(<<>>, p)
BY DEF PartOf, IsInjective, Range

LEMMA Swept1 ==
  ASSUME PoolInv, NEW kept, NEW same \in BOOLEAN, PartOf(kept, pool), Sweep(kept, same)
  PROVE  /\ Good(us', conn', pool') /\ size' = Len(pool') /\ OutIn(us') = OutIn(us)
         /\ pool' = kept
<1>1. us' = Swept(kept, same) /\ conn' = SweepConns(kept, same) /\ pool' = kept
  BY DEF Sweep, Swept
<1>2. size' = size - Cardinality(Dropped(kept))
  BY DEF Sweep
<1> QED
  BY <1>1, <1>2, SweepGood, InvParts

\* The operations that only sweep.
LEMMA SweepInv ==
  ASSUME PoolInv, NEW kept, NEW same \in BOOLEAN, PartOf(kept, pool), Sweep(kept, same),
         ~deleted, life_time' \in Int, UNCHANGED <<now, refs, owner, deleted>>
  PROVE  PoolInv'
<1>1. /\ Good(us', conn', pool') /\ size' = Len(pool')
      /\ Cardinality(OutIn(us')) = Cardinality(OutIn(us))
  BY Swept1
<1> QED
  BY <1>1, InvParts, Reached

LEMMA LookInv ==
  ASSUME PoolInv, PoolAssumption, NEW same \in BOOLEAN
  PROVE  /\ \A ws \in BOOLEAN : GetNothing(ws, same) => PoolInv'
         /\ Refresh(same) => PoolInv'
         /\ Clean(same) => PoolInv'
         /\ \A t \in LifeTimes : SetLifeTime(t, same) => PoolInv'
<1>1. /\ pool \in Seq(Handles) /\ IsInjective(pool) /\ life_time \in Int
      /\ PartOf(Refreshed, pool) /\ PartOf(<<>>, pool)
      /\ \A ws \in BOOLEAN : PartOf(Rest(ws), pool)
  BY InvParts, RefreshedPart, RestPart, NonePart
<1>2. ASSUME NEW ws \in BOOLEAN, GetNothing(ws, same) PROVE PoolInv'
  <2>1. ~deleted /\ life_time' \in Int
    BY <1>1, <1>2 DEF GetNothing, Usable
  <2> QED
    BY <1>1, <1>2, <2>1, SweepInv DEF GetNothing
<1>3. ASSUME Refresh(same) PROVE PoolInv'
  <2>1. ~deleted /\ life_time' \in Int
    BY <1>1, <1>3 DEF Refresh, Usable
  <2> QED
    BY <1>1, <1>3, <2>1, SweepInv DEF Refresh
<1>4. ASSUME Clean(same) PROVE PoolInv'
  <2>1. ~deleted /\ life_time' \in Int
    BY <1>1, <1>4 DEF Clean, Usable
  <2> QED
    BY <1>1, <1>4, <2>1, SweepInv DEF Clean
<1>5. ASSUME NEW t \in LifeTimes, SetLifeTime(t, same) PROVE PoolInv'
  <2>1. ~deleted /\ life_time' \in Int /\ UNCHANGED <<now, refs, owner, deleted>>
    <3>1. life_time' = t % LifeWidth /\ t \in Int /\ LifeWidth \in Nat \ {0}
      BY <1>5 DEF SetLifeTime, PoolAssumption
    <3> QED
      BY <1>5, <3>1 DEF SetLifeTime, Usable
  <2>2. CASE t <= 0
    BY <1>1, <1>5, <2>1, <2>2, SweepInv DEF SetLifeTime
  <2>3. CASE ~ (t <= 0)
    <3>1. UNCHANGED <<pool, size, us, conn>>
      BY <1>5, <2>3 DEF SetLifeTime
    <3> QED
      BY <2>1, <3>1, InvParts, Reached
  <2> QED
    BY <2>2, <2>3
<1> QED
  BY <1>2, <1>3, <1>4, <1>5

\* The owner lets go of the container.
LEMMA RemovePoolInv ==
  ASSUME PoolInv, NEW same \in BOOLEAN, RemovePool(same)
  PROVE  PoolInv'
<1>1. PartOf(<<>>, pool) /\ Sweep(<<>>, same) /\ UNCHANGED <<now, life_time, deleted>>
  BY InvParts, NonePart DEF RemovePool
<1>2. /\ Good(us', conn', pool') /\ size' = Len(pool')
      /\ Cardinality(OutIn(us')) = Cardinality(OutIn(us))
  BY <1>1, Swept1
<1>3. ~deleted /\ owner = TRUE /\ owner' = FALSE /\ refs' = refs - 1
  BY InvParts DEF RemovePool, Usable
<1>4. refs' = (IF owner' THEN 1 ELSE 0) + Cardinality(OutIn(us'))
  BY <1>2, <1>3, InvParts
<1> QED
  BY <1>1, <1>2, <1>3, <1>4, InvParts, Reached

\* The destructor runs only when nobody uses an upstream.
LEMMA DeleteInv ==
  ASSUME PoolInv, NEW same \in BOOLEAN, Delete(same)
  PROVE  PoolInv'
<1>1. /\ PartOf(<<>>, pool) /\ Sweep(<<>>, same) /\ UNCHANGED <<now, life_time, refs, owner>>
      /\ refs = 0 /\ deleted' = TRUE
  BY InvParts, NonePart DEF Delete
<1>2. /\ Good(us', conn', pool') /\ size' = Len(pool') /\ OutIn(us') = OutIn(us)
      /\ pool' = <<>>
  BY <1>1, Swept1
<1>3. ~owner /\ Cardinality(OutIn(us)) = 0
  BY <1>1, InvParts
<1>4. OutIn(us) = {}
  <2>1. IsFiniteSet(OutIn(us))
    <3>1. OutIn(us) \subseteq LiveIn(us) /\ IsFiniteSet(LiveIn(us))
      BY InvParts DEF UsersGood, OutIn, LiveIn
    <3> QED
      BY <3>1, FS_Subset
  <2> QED
    BY <1>3, <2>1, FS_EmptySet
<1>5. Cardinality(OutIn(us')) = Cardinality(OutIn(us))
  BY <1>2
<1> QED
  BY <1>1, <1>2, <1>3, <1>4, <1>5, InvParts, Reached

\* One reference more, for an upstream that is handed out.
LEMMA HandedOut ==
  ASSUME PoolInv, ~deleted, Good(us', conn', pool'), size' = Len(pool'),
         NEW h, OutIn(us') = OutIn(us) \cup {h}, h \notin OutIn(us), refs' = refs + 1,
         UNCHANGED <<now, life_time, owner, deleted>>
  PROVE  PoolInv'
<1>1. Cardinality(OutIn(us) \cup {h}) = Cardinality(OutIn(us)) + 1
  BY InvParts, OutSize
<1>2. Cardinality(OutIn(us')) = Cardinality(OutIn(us)) + 1
  BY <1>1, Zenon
<1>3. refs' = (IF owner' THEN 1 ELSE 0) + Cardinality(OutIn(us'))
  BY <1>2, InvParts
<1> QED
  BY <1>3, InvParts, Reached

LEMMA GetSocketInv ==
  ASSUME PoolInv, NEW ws \in BOOLEAN, NEW same \in BOOLEAN, GetSocket(ws, same)
  PROVE  PoolInv'
<1> DEFINE rest == Rest(ws)
           f == rest[1]
           u == Swept(rest, same)
           cn == SweepConns(rest, same)
<1>1. PartOf(rest, pool)
  BY InvParts, RestPart
<1>2. /\ rest # <<>> /\ pool' = Tail(rest)
      /\ size' = size - Cardinality(Dropped(rest)) - 1
      /\ us' = [h \in Handles |->
           IF h = f THEN [us[h] EXCEPT !.bound = TRUE, !.at = "out", !.time = now]
           ELSE Gone(h, Dropped(rest), same)]
      /\ conn' = cn /\ refs' = refs + 1 /\ ~deleted
      /\ UNCHANGED <<now, life_time, owner, deleted>>
  BY DEF GetSocket, Serves, Usable
<1> HIDE DEF rest
<1>3. /\ Good(u, cn, rest) /\ OutIn(u) = OutIn(us)
      /\ size - Cardinality(Dropped(rest)) = Len(rest)
      /\ \A h \in Range(rest) : u[h] = us[h]
  BY <1>1, SweepGood, InvParts
<1>4. rest \in Seq(Handles) /\ IsInjective(rest) /\ f \in Handles /\ f \in Range(rest)
  BY <1>1, <1>2, TailOf DEF PartOf
<1>5. us' = Taken(u, rest, now)
  <2>1. u[f] = us[f]
    BY <1>3, <1>4
  <2>2. \A h \in Handles : u[h] = Gone(h, Dropped(rest), same)
    BY DEF Swept
  <2> HIDE DEF u
  <2> QED
    BY <1>2, <2>1, <2>2 DEF Taken
<1> HIDE DEF u, cn
<1>6. now \in Int
  BY InvParts
<1>7. /\ Good(us', conn', pool') /\ OutIn(us') = OutIn(us) \cup {f} /\ f \notin OutIn(us)
      /\ Len(pool') = Len(rest) - 1
  <2>1. rest # <<>> /\ pool' = Tail(rest) /\ conn' = cn
    BY <1>2
  <2>2. /\ Good(Taken(u, rest, now), cn, Tail(rest))
        /\ OutIn(Taken(u, rest, now)) = OutIn(u) \cup {f} /\ f \notin OutIn(u)
        /\ Len(Tail(rest)) = Len(rest) - 1
    BY <1>3, <1>6, <2>1, TakeGood
  <2> QED
    BY <1>3, <1>5, <2>1, <2>2
<1>8. size' = Len(pool')
  BY <1>2, <1>3, <1>7
<1> QED
  BY <1>2, <1>7, <1>8, HandedOut

LEMMA GetStreamInv ==
  ASSUME PoolInv, NEW ws \in BOOLEAN, NEW same \in BOOLEAN, NEW n \in Handles,
         GetStream(ws, same, n)
  PROVE  PoolInv'
<1> DEFINE rest == Rest(ws)
           f == rest[1]
           c == us[f].conn
           u == Swept(rest, same)
           cn == SweepConns(rest, same)
           x == NewUs(c, FALSE, now)
           k == [cn[c] EXCEPT !.processing = @ + 1]
<1>1. PartOf(rest, pool)
  BY InvParts, RestPart
<1>2. /\ rest # <<>> /\ n \notin Live /\ conn[c].kind \in Multi /\ pool' = rest
      /\ size' = size - Cardinality(Dropped(rest))
      /\ us' = [h \in Handles |-> IF h = n THEN x ELSE Gone(h, Dropped(rest), same)]
      /\ conn' = [cn EXCEPT ![c] = k]
      /\ refs' = refs + 1 /\ ~deleted
      /\ UNCHANGED <<now, life_time, owner, deleted>>
  BY DEF GetStream, Serves, Usable, IsMultiStream, KindOf, Multi
<1> HIDE DEF rest
<1>3. rest \in Seq(Handles) /\ IsInjective(rest) /\ f \in Handles /\ f \in Range(rest)
  BY <1>1, <1>2, TailOf DEF PartOf
<1>4. /\ Good(u, cn, rest) /\ OutIn(u) = OutIn(us) /\ LiveIn(u) \subseteq Live
      /\ size - Cardinality(Dropped(rest)) = Len(rest)
      /\ u[f] = us[f] /\ c \in Conns /\ cn[c].kind = conn[c].kind
  BY <1>1, <1>3, SweepGood, InvParts
<1>5. us' = [u EXCEPT ![n] = x]
  BY <1>2 DEF Swept
<1> HIDE DEF u, cn, c, f
<1>6. UsersGood(u) /\ CountsGood(u, cn) /\ ListGood(u, cn, rest) /\ n \notin LiveIn(u)
  BY <1>2, <1>4 DEF Good
<1>7. /\ x \in Upstream /\ x.conn = c /\ x.at = "out" /\ x.bound = TRUE /\ x.admin = FALSE
  BY <1>4, InvParts DEF NewUs, Upstream
<1>8. cn[c] \in Connection /\ CountGood(u, cn, c) /\ cn[c].kind \in Multi
  BY <1>2, <1>4, <1>6 DEF CountsGood
<1>9. /\ k \in Connection /\ k.kind = cn[c].kind /\ k.goaway = cn[c].goaway
      /\ k.has_admin = cn[c].has_admin /\ k.processing = cn[c].processing + 1
  BY <1>8 DEF Connection
<1> HIDE DEF x, k
<1>10. /\ k.kind # "none"
       /\ k.processing = Cardinality(OnIn(u, c)) + 1
       /\ k.has_admin <=> \E h \in OnIn(u, c) : u[h].admin
       /\ \A g, h \in OnIn(u, c) : u[g].admin /\ u[h].admin => g = h
  BY <1>8, <1>9 DEF CountGood, Multi
<1>11. UsersGood(us') /\ CountsGood(us', conn')
  <2>1. /\ x.at \in {"out", "pool"}
        /\ x.bound <=> x.at = "out"
        /\ k.goaway => k.kind \in Multi
        /\ k.has_admin <=> x.admin \/ \E h \in OnIn(u, c) : u[h].admin
        /\ x.admin => \A h \in OnIn(u, c) : ~u[h].admin
        /\ k.kind \in Multi
    BY <1>7, <1>8, <1>9, <1>10
  <2>2. c \in Conns /\ conn' = [cn EXCEPT ![c] = k]
    BY <1>2, <1>4
  <2>3. /\ UsersGood([u EXCEPT ![n] = x])
        /\ CountsGood([u EXCEPT ![n] = x], [cn EXCEPT ![c] = k])
    BY <1>6, <1>7, <1>9, <1>10, <2>1, <2>2, AddGood
  <2> QED
    BY <1>5, <2>2, <2>3
<1>12. /\ ListGood(us', conn', pool')
       /\ OutIn(us') = OutIn(us) \cup {n} /\ n \notin OutIn(us)
  <2>1. conn' = [cn EXCEPT ![c] = k] /\ pool' = rest /\ c \in Conns /\ OutIn(u) = OutIn(us)
    BY <1>2, <1>4
  <2>2. k.kind = cn[c].kind \/ OnIn(u, c) = {}
    BY <1>9
  <2>3. c \in Conns /\ x \in Upstream /\ x.at = "out" /\ k \in Connection
    BY <1>4, <1>7, <1>9
  <2>4. /\ ListGood([u EXCEPT ![n] = x], [cn EXCEPT ![c] = k], rest)
        /\ OutIn([u EXCEPT ![n] = x]) = OutIn(u) \cup {n} /\ n \notin OutIn(u)
    BY <1>6, <2>2, <2>3, AddList
  <2> QED
    BY <1>5, <2>1, <2>4
<1> QED
  BY <1>2, <1>4, <1>11, <1>12, HandedOut DEF Good

LEMMA ConnectInv ==
  ASSUME PoolInv, PoolAssumption, NEW c \in Conns, NEW h \in Handles, NEW kind \in Kinds,
         Connect(c, h, kind)
  PROVE  PoolInv'
<1> DEFINE multi == kind \in {"h2", "h2ws"}
           x == NewUs(c, multi, 0)
           k == [kind |-> kind, goaway |-> FALSE, has_admin |-> multi,
                 processing |-> IF multi THEN 1 ELSE 0]
<1>1. /\ h \notin Live /\ conn[c] = Closed /\ On(c) = {} /\ ~deleted
      /\ us' = [us EXCEPT ![h] = x] /\ conn' = [conn EXCEPT ![c] = k]
      /\ refs' = refs + 1 /\ UNCHANGED <<now, life_time, owner, deleted, pool, size>>
  BY DEF Connect, Usable
<1>2. kind \in {"tcp", "http", "h2", "h2ws"}
  BY DEF PoolAssumption
<1> DEFINE m == multi
<1>3. /\ x \in Upstream /\ x.conn = c /\ x.at = "out" /\ x.bound = TRUE /\ x.admin = m
  <2>1. m \in BOOLEAN
    OBVIOUS
  <2>2. x = [conn |-> c, admin |-> m, time |-> 0, bound |-> TRUE, at |-> "out"]
    BY DEF NewUs
  <2> HIDE DEF m, x
  <2> QED
    BY <2>1, <2>2 DEF Upstream
<1>4. /\ k \in Connection /\ k.kind = kind /\ k.goaway = FALSE /\ k.has_admin = m
      /\ kind \in Multi => k.processing = 1
      /\ kind \in Multi <=> m
  <2>1. m \in BOOLEAN /\ (kind \in Multi <=> m)
    BY DEF Multi
  <2>2. k = [kind |-> kind, goaway |-> FALSE, has_admin |-> m,
             processing |-> IF m THEN 1 ELSE 0]
    OBVIOUS
  <2> HIDE DEF m, k
  <2> QED
    BY <1>2, <2>1, <2>2 DEF Connection
<1> HIDE DEF m, x, k
<1>5. /\ UsersGood(us) /\ CountsGood(us, conn) /\ ListGood(us, conn, pool)
      /\ OnIn(us, c) = {} /\ h \notin LiveIn(us)
  BY <1>1, InvParts DEF On, OnIn, Live, LiveIn
<1>6. /\ UsersGood([us EXCEPT ![h] = x])
      /\ CountsGood([us EXCEPT ![h] = x], [conn EXCEPT ![c] = k])
  <2>1. Cardinality(OnIn(us, c)) = 0
    BY <1>5, FS_EmptySet
  <2>2. /\ x.at \in {"out", "pool"}
        /\ x.bound <=> x.at = "out"
        /\ k.kind # "none"
        /\ k.goaway => k.kind \in Multi
        /\ k.kind \in Multi =>
             /\ k.processing = Cardinality(OnIn(us, c)) + 1
             /\ k.has_admin <=> x.admin \/ \E g \in OnIn(us, c) : us[g].admin
             /\ x.admin => \A g \in OnIn(us, c) : ~us[g].admin
             /\ \A f, g \in OnIn(us, c) : us[f].admin /\ us[g].admin => f = g
        /\ k.kind \notin Multi => OnIn(us, c) = {}
    BY <1>2, <1>3, <1>4, <1>5, <2>1
  <2> QED
    BY <1>3, <1>4, <1>5, <2>2, AddGood
<1>7. /\ ListGood([us EXCEPT ![h] = x], [conn EXCEPT ![c] = k], pool)
      /\ OutIn([us EXCEPT ![h] = x]) = OutIn(us) \cup {h} /\ h \notin OutIn(us)
  BY <1>3, <1>4, <1>5, AddList
<1>8. Good(us', conn', pool') /\ OutIn(us') = OutIn(us) \cup {h} /\ h \notin OutIn(us)
  BY <1>1, <1>6, <1>7 DEF Good
<1>9. size' = Len(pool')
  BY <1>1, InvParts
<1> QED
  BY <1>1, <1>8, <1>9, HandedOut

\* One reference less, for an upstream that is given back.
LEMMA GivenBack ==
  ASSUME PoolInv, Good(us', conn', pool'), size' = Len(pool'),
         NEW h \in OutIn(us), OutIn(us') = OutIn(us) \ {h}, refs' = refs - 1,
         UNCHANGED <<now, life_time, owner, deleted>>
  PROVE  PoolInv'
<1>1. Cardinality(OutIn(us) \ {h}) = Cardinality(OutIn(us)) - 1
  BY InvParts, OutSize
<1>2. Cardinality(OutIn(us')) = Cardinality(OutIn(us)) - 1
  BY <1>1, Zenon
<1>3. refs' = (IF owner' THEN 1 ELSE 0) + Cardinality(OutIn(us'))
  BY <1>2, InvParts
<1>4. ~deleted
  BY InvParts
<1> QED
  BY <1>3, <1>4, InvParts, Reached

LEMMA DestroyInv ==
  ASSUME PoolInv, NEW h \in Handles, us[h].at \in {"out", "doomed"}, Destroy(h)
  PROVE  PoolInv'
<1>1. /\ us' = [us EXCEPT ![h] = Free] /\ conn' = Left({h}) /\ refs' = refs - Bound({h})
      /\ UNCHANGED <<now, life_time, owner, deleted, pool, size>>
  BY DEF Destroy, Left
<1>2. Good(us', conn', pool') /\ OutIn(us') = OutIn(us) \ {h}
  BY <1>1, InvParts, DestroyGood
<1>3. size' = Len(pool')
  BY <1>1, InvParts
<1>4. us[h].bound <=> us[h].at = "out"
  BY InvParts DEF UsersGood
<1>5. CASE us[h].at = "out"
  <2>1. {g \in {h} : us[g].bound} = {h} /\ h \in OutIn(us)
    BY <1>4, <1>5 DEF OutIn
  <2>2. Bound({h}) = 1
    BY <2>1, FS_Singleton DEF Bound
  <2> QED
    BY <1>1, <1>2, <1>3, <2>1, <2>2, GivenBack
<1>6. CASE us[h].at = "doomed"
  <2>1. {g \in {h} : us[g].bound} = {} /\ OutIn(us') = OutIn(us)
    BY <1>2, <1>4, <1>6 DEF OutIn
  <2>2. Bound({h}) = 0
    BY <2>1, FS_EmptySet DEF Bound
  <2>3. Cardinality(OutIn(us')) = Cardinality(OutIn(us))
    BY <2>1
  <2>4. refs' = (IF owner' THEN 1 ELSE 0) + Cardinality(OutIn(us'))
    BY <1>1, <2>2, <2>3, InvParts
  <2>5. deleted' => ~owner' /\ OutIn(us') = {} /\ pool' = <<>>
    BY <1>1, <2>1, InvParts
  <2> QED
    BY <1>1, <1>2, <1>3, <2>4, <2>5, InvParts, Reached
<1> QED
  BY <1>5, <1>6

LEMMA PutInv ==
  ASSUME PoolInv, NEW h \in Handles, NEW lt \in Int, us[h].at = "out",
         IsMultiStream(h) => us[h].admin, PutPoolSocket(h, lt)
  PROVE  PoolInv'
<1> DEFINE x == [us[h] EXCEPT !.time = @ + Kept(lt), !.bound = FALSE, !.at = "pool"]
<1>1. /\ pool' = <<h>> \o pool /\ size' = size + 1 /\ us' = [us EXCEPT ![h] = x]
      /\ refs' = refs - 1 /\ UNCHANGED <<now, life_time, owner, deleted, conn>>
  BY DEF PutPoolSocket
<1>2. /\ x \in Upstream /\ x.conn = us[h].conn /\ x.admin = us[h].admin
      /\ x.bound = FALSE /\ x.at = "pool"
  <2>1. us[h] \in Upstream /\ Kept(lt) \in Int
    BY InvParts DEF Kept
  <2>2. us[h].time + Kept(lt) \in Int
    BY <2>1 DEF Upstream
  <2> HIDE DEF Kept
  <2> QED
    BY <2>1, <2>2 DEF Upstream
<1> HIDE DEF x
<1>3. /\ us' \in [Handles -> Upstream] /\ us'[h] = x
      /\ \A g \in Handles \ {h} : us'[g] = us[g]
  BY <1>1, <1>2, InvParts
<1>4. \A g \in Handles : us[g].bound <=> us[g].at = "out"
  BY InvParts DEF UsersGood
<1>5. UsersGood(us') /\ CountsGood(us', conn')
  <2>1. \A g \in Handles : /\ us'[g].conn = us[g].conn /\ us'[g].admin = us[g].admin
                           /\ us'[g].at = "none" <=> us[g].at = "none"
    BY <1>2, <1>3
  <2>2. \A g \in Handles : us'[g].bound <=> us'[g].at = "out"
    BY <1>2, <1>3, <1>4
  <2>3. UsersGood(us') /\ CountsGood(us', conn)
    BY <1>3, <2>1, <2>2, InvParts, SameOn
  <2> QED
    BY <1>1, <2>3
<1>6. /\ Range(pool) = {g \in Handles : us[g].at = "pool"}
      /\ \A g \in Range(pool) : conn[us[g].conn].kind \in Multi => us[g].admin
      /\ pool \in Seq(Handles) /\ IsInjective(pool)
  BY InvParts DEF ListGood
<1>7. /\ pool' \in Seq(Handles) /\ IsInjective(pool') /\ Len(pool') = Len(pool) + 1
      /\ Range(pool') = Range(pool) \cup {h}
  <2>1. h \in Handles \ Range(pool)
    BY <1>6
  <2> QED
    BY <1>1, <1>6, <2>1, PutInFront
<1>8. ListGood(us', conn', pool')
  <2>1. Range(pool') = {g \in Handles : us'[g].at = "pool"}
    BY <1>2, <1>3, <1>6, <1>7
  <2>2. conn[us[h].conn].kind \in Multi => us[h].admin
    BY DEF IsMultiStream, KindOf, Multi
  <2>3. \A g \in Range(pool') : conn'[us'[g].conn].kind \in Multi => us'[g].admin
    <3>1. \A g \in Range(pool') : g = h \/ (g \in Range(pool) /\ g \in Handles \ {h})
      BY <1>6, <1>7
    <3> QED
      BY <1>1, <1>2, <1>3, <1>6, <2>2, <3>1
  <2> QED
    BY <1>7, <2>1, <2>3 DEF ListGood
<1>9. h \in OutIn(us) /\ OutIn(us') = OutIn(us) \ {h}
  BY <1>2, <1>3 DEF OutIn
<1>10. size' = Len(pool')
  BY <1>1, <1>7, InvParts
<1> QED
  BY <1>1, <1>5, <1>8, <1>9, <1>10, GivenBack DEF Good

LEMMA GcInv ==
  ASSUME PoolInv, PoolAssumption, NEW h \in Handles, NEW lt \in GcTimes, Gc(h, lt)
  PROVE  PoolInv'
<1> DEFINE t == IF IsMultiStream(h) THEN H2Life ELSE lt
<1>1. t \in Int
  BY DEF PoolAssumption
<1>2. /\ us[h].at = "out"
      /\ IsMultiStream(h) => us[h].admin
      /\ PutPoolSocket(h, t) \/ Destroy(h)
  BY DEF Gc
<1> HIDE DEF t
<1>3. CASE PutPoolSocket(h, t)
  BY <1>1, <1>2, <1>3, PutInv
<1>4. CASE Destroy(h)
  BY <1>2, <1>4, DestroyInv
<1> QED
  BY <1>2, <1>3, <1>4

\* get_admin_stream: the stream goes and its connection gets an admin stream.
LEMMA NewAdminInv ==
  ASSUME PoolInv, PoolAssumption, NEW h \in Handles, NEW a \in Handles,
         us[h].at = "out", IsMultiStream(h), GetsAdmin(h), a \notin Live,
         us' = [us EXCEPT ![h] = Free, ![a] = NewAdmin(us[h].conn)],
         pool' = <<a>> \o pool, size' = size + 1,
         conn' = [conn EXCEPT ![us[h].conn].has_admin = TRUE],
         refs' = refs - 1, UNCHANGED <<now, life_time, owner, deleted>>
  PROVE  PoolInv'
<1> DEFINE c == us[h].conn
           x == NewAdmin(c)
           k == [conn[c] EXCEPT !.has_admin = TRUE]
           u == [us EXCEPT ![h] = Free]
           cn == Left({h})
<1>1. us' = [u EXCEPT ![a] = x] /\ a # h
  <2>1. a # h
    BY DEF Live
  <2> HIDE DEF x, c
  <2>2. us' = [us EXCEPT ![h] = Free, ![a] = x]
    BY DEF x, c
  <2> QED
    BY <2>1, <2>2, InvParts
<1>2. /\ us[h] \in Upstream /\ h \in Live /\ c \in Conns /\ h \in On(c)
      /\ {h} \in SUBSET Live
  BY InvParts DEF UsersGood, LiveIn, Live, On
<1>3. /\ conn[c] \in Connection /\ conn[c].kind \in Multi /\ ~conn[c].has_admin
      /\ CountGood(us, conn, c) /\ On(c) = OnIn(us, c) /\ IsFiniteSet(On(c))
  BY <1>2, InvParts, OnFinite DEF CountsGood, IsMultiStream, KindOf, Multi, GetsAdmin
<1>4. /\ Good(u, cn, pool) /\ OutIn(u) = OutIn(us) \ {h} /\ LiveIn(u) = Live \ {h}
  BY InvParts, DestroyGood
<1>5. conn' = [cn EXCEPT ![c] = k]
  <2>1. \A e \in Conns \ {c} : {h} \cap On(e) = {}
    BY DEF On
  <2>2. ASSUME NEW e \in Conns \ {c} PROVE cn[e] = conn[e]
    <3>1. cn[e] = ConnWithout(e, {h})
      BY DEF Left
    <3> QED
      BY <2>1, <3>1 DEF ConnWithout
  <2>3. cn = [e \in Conns |-> cn[e]] /\ conn \in [Conns -> Connection]
    BY InvParts DEF Left
  <2> HIDE DEF cn, k
  <2>4. conn' = [conn EXCEPT ![c] = k]
    BY DEF k
  <2> QED
    BY <1>2, <2>2, <2>3, <2>4
<1>6. /\ x \in Upstream /\ x.conn = c /\ x.admin = TRUE /\ x.bound = FALSE /\ x.at = "pool"
  <2>1. Kept(H2Life) \in Int
    BY InvParts DEF Kept, PoolAssumption
  <2> QED
    BY <1>2, <2>1 DEF Upstream, NewAdmin
<1>7. /\ k \in Connection /\ k.kind = conn[c].kind /\ k.goaway = conn[c].goaway
      /\ k.has_admin = TRUE /\ k.processing = conn[c].processing
  BY <1>3 DEF Connection
<1>8. /\ UsersGood(u) /\ CountsGood(u, cn) /\ ListGood(u, cn, pool) /\ a \notin LiveIn(u)
  BY <1>4 DEF Good
<1> HIDE DEF x, k, u, cn, c
<1>9. OnIn(u, c) = On(c) \ {h} /\ \A g \in OnIn(u, c) : u[g].admin = us[g].admin
  <2>1. \A g \in Live \ {h} : u[g] = us[g]
    BY InvParts DEF u, Live
  <2> QED
    BY <1>4, <2>1 DEF OnIn, On
<1>10. k.processing = Cardinality(OnIn(u, c)) + 1
  <2>1. Cardinality(On(c) \ {h}) = Cardinality(On(c)) - 1
    BY <1>2, <1>3, FS_RemoveElement
  <2>2. Cardinality(OnIn(u, c)) = Cardinality(On(c)) - 1
    BY <1>9, <2>1, Zenon
  <2>3. k.processing = Cardinality(OnIn(us, c)) /\ Cardinality(On(c)) \in Nat
    BY <1>3, <1>7, FS_CardinalityType DEF CountGood
  <2>4. Cardinality(OnIn(us, c)) = Cardinality(On(c))
    BY <1>3, Zenon
  <2> QED
    BY <2>2, <2>3, <2>4
<1>11. \A g \in OnIn(u, c) : ~u[g].admin
  BY <1>3, <1>9 DEF CountGood
<1>12. UsersGood(us') /\ CountsGood(us', conn')
  <2>1. /\ x.at \in {"out", "pool"}
        /\ x.bound <=> x.at = "out"
        /\ k.kind # "none"
        /\ k.kind \in Multi
        /\ k.has_admin <=> x.admin \/ \E g \in OnIn(u, c) : u[g].admin
    BY <1>3, <1>6, <1>7 DEF Multi
  <2>2. \A f, g \in OnIn(u, c) : u[f].admin /\ u[g].admin => f = g
    BY <1>11
  <2>3. /\ UsersGood([u EXCEPT ![a] = x])
        /\ CountsGood([u EXCEPT ![a] = x], [cn EXCEPT ![c] = k])
    BY <1>2, <1>6, <1>7, <1>8, <1>10, <1>11, <2>1, <2>2, AddGood
  <2> QED
    BY <1>1, <1>5, <2>3
<1>13. /\ u \in [Handles -> Upstream] /\ us'[a] = x
       /\ \A g \in Handles \ {a} : us'[g] = u[g]
       /\ u[a].at = "none"
  BY <1>1, <1>8 DEF UsersGood, LiveIn
<1>14. /\ Range(pool) = {g \in Handles : u[g].at = "pool"}
       /\ \A g \in Range(pool) : cn[u[g].conn].kind \in Multi => u[g].admin
       /\ pool \in Seq(Handles) /\ IsInjective(pool)
  BY <1>8 DEF ListGood
<1>15. /\ pool' \in Seq(Handles) /\ IsInjective(pool') /\ Len(pool') = Len(pool) + 1
       /\ Range(pool') = Range(pool) \cup {a}
  <2>1. a \in Handles \ Range(pool)
    BY <1>13, <1>14
  <2> QED
    BY <1>14, <2>1, PutInFront
<1>16. ListGood(us', conn', pool')
  <2>1. Range(pool') = {g \in Handles : us'[g].at = "pool"}
    BY <1>6, <1>13, <1>14, <1>15
  <2>2. ASSUME NEW g \in Range(pool)
        PROVE  us'[g] = u[g] /\ (conn'[u[g].conn].kind \in Multi => u[g].admin)
    <3>1. g \in Handles \ {a} /\ g \in LiveIn(u) /\ u[g].conn \in Conns
      BY <1>8, <1>13, <1>14 DEF UsersGood, LiveIn
    <3>2. CASE u[g].conn = c
      <4>1. g \in OnIn(u, c) /\ g \in On(c) /\ us[g] = u[g] /\ g \in Range(pool)
        BY <1>9, <3>1, <3>2, InvParts DEF OnIn, u, On, Live
      <4>2. us[g].admin
        BY <1>3, <4>1, InvParts DEF ListGood, On
      <4> QED
        BY <1>11, <4>1, <4>2
    <3>3. CASE u[g].conn # c
      <4>1. cn \in [Conns -> Connection] /\ conn'[u[g].conn] = cn[u[g].conn]
        BY <1>5, <1>8, <3>1, <3>3 DEF CountsGood
      <4> QED
        BY <1>13, <1>14, <3>1, <4>1
    <3> QED
      BY <1>13, <3>1, <3>2, <3>3
  <2>3. \A g \in Range(pool') : conn'[us'[g].conn].kind \in Multi => us'[g].admin
    BY <1>6, <1>13, <1>15, <2>2
  <2> QED
    BY <1>15, <2>1, <2>3 DEF ListGood
<1>17. h \in OutIn(us) /\ OutIn(us') = OutIn(us) \ {h}
  <2>1. OutIn(us') = OutIn(u)
    BY <1>6, <1>13 DEF OutIn
  <2> QED
    BY <1>4, <2>1 DEF OutIn
<1>18. size' = Len(pool')
  BY <1>15, InvParts
<1> QED
  BY <1>12, <1>16, <1>17, <1>18, GivenBack DEF Good

LEMMA GcStreamInv ==
  ASSUME PoolInv, PoolAssumption, NEW h \in Handles, NEW a \in Handles, GcStream(h, a)
  PROVE  PoolInv'
<1>1. us[h].at = "out" /\ IsMultiStream(h)
  BY DEF GcStream
<1>2. CASE ~GetsAdmin(h) \/ ~Keeps(0, H2Life)
  BY <1>1, <1>2, DestroyInv DEF GcStream
<1>3. CASE GetsAdmin(h) /\ Keeps(0, H2Life)
  BY <1>1, <1>3, NewAdminInv DEF GcStream
<1> QED
  BY <1>2, <1>3

LEMMA ReadHeaderInv ==
  ASSUME PoolInv, NEW h \in Handles, ReadHeader(h)
  PROVE  PoolInv'
<1> DEFINE x == [us[h] EXCEPT !.time = now]
<1>1. /\ us' = [us EXCEPT ![h] = x]
      /\ UNCHANGED <<now, life_time, refs, owner, deleted, pool, size, conn>>
  BY DEF ReadHeader
<1>2. /\ x \in Upstream /\ x.conn = us[h].conn /\ x.admin = us[h].admin
      /\ x.bound = us[h].bound /\ x.at = us[h].at
  BY InvParts DEF Upstream
<1> HIDE DEF x
<1>3. /\ us' \in [Handles -> Upstream]
      /\ \A g \in Handles : /\ us'[g].conn = us[g].conn /\ us'[g].admin = us[g].admin
                            /\ us'[g].bound = us[g].bound /\ us'[g].at = us[g].at
  BY <1>1, <1>2, InvParts
<1>4. UsersGood(us') /\ CountsGood(us', conn')
  <2>1. \A g \in Handles : us[g].bound <=> us[g].at = "out"
    BY InvParts DEF UsersGood
  <2>2. \A g \in Handles : us'[g].bound <=> us'[g].at = "out"
    BY <1>3, <2>1
  <2>3. \A g \in Handles : /\ us'[g].conn = us[g].conn /\ us'[g].admin = us[g].admin
                           /\ us'[g].at = "none" <=> us[g].at = "none"
    BY <1>3
  <2>4. UsersGood(us') /\ CountsGood(us', conn)
    BY <1>3, <2>2, <2>3, InvParts, SameOn
  <2> QED
    BY <1>1, <2>4
<1>5. ListGood(us', conn', pool')
  <2>1. \A g \in Range(pool) : g \in Handles
    BY InvParts DEF ListGood
  <2> QED
    BY <1>1, <1>3, <2>1, InvParts DEF ListGood
<1>6. OutIn(us') = OutIn(us)
  BY <1>3 DEF OutIn
<1>7. refs' = (IF owner' THEN 1 ELSE 0) + Cardinality(OutIn(us'))
  <2>1. Cardinality(OutIn(us')) = Cardinality(OutIn(us))
    BY <1>6
  <2> QED
    BY <1>1, <2>1, InvParts
<1>8. deleted' => ~owner' /\ OutIn(us') = {} /\ pool' = <<>>
  BY <1>1, <1>6, InvParts
<1> QED
  BY <1>1, <1>4, <1>5, <1>7, <1>8, InvParts, Reached DEF Good

\* A change of one connection that leaves its kind, or that nobody has a
\* stream on.
LEMMA ConnInv ==
  ASSUME PoolInv, NEW c \in Conns, NEW k \in Connection,
         conn' = [conn EXCEPT ![c] = k],
         k.kind = conn[c].kind \/ OnIn(us, c) = {},
         CountsGood(us, [conn EXCEPT ![c] = k]),
         UNCHANGED <<now, life_time, refs, owner, deleted, pool, size, us>>
  PROVE  PoolInv'
<1>1. /\ conn'[c] = k /\ \A e \in Conns \ {c} : conn'[e] = conn[e]
  BY InvParts
<1>2. ListGood(us, conn', pool)
  <2>1. /\ Range(pool) = {h \in Handles : us[h].at = "pool"}
        /\ \A h \in Range(pool) : conn[us[h].conn].kind \in Multi => us[h].admin
    BY InvParts DEF ListGood
  <2>2. \A h \in Range(pool) : us[h].conn \in Conns /\ h \in OnIn(us, us[h].conn)
    BY <2>1, InvParts DEF UsersGood, LiveIn, OnIn
  <2>3. \A h \in Range(pool) : conn'[us[h].conn].kind \in Multi => us[h].admin
    BY <1>1, <2>1, <2>2
  <2> QED
    BY <2>3, InvParts DEF ListGood
<1>3. Good(us', conn', pool')
  BY <1>2, InvParts DEF Good
<1> QED
  BY <1>3, InvParts, Reached

LEMMA GoawayInv ==
  ASSUME PoolInv, NEW c \in Conns, Goaway(c)
  PROVE  PoolInv'
<1> DEFINE k == [conn[c] EXCEPT !.goaway = TRUE]
<1>1. /\ conn' = [conn EXCEPT ![c] = k] /\ conn[c].kind \in Multi
      /\ UNCHANGED <<now, life_time, refs, owner, deleted, pool, size, us>>
  BY DEF Goaway, Multi
<1>2. /\ k \in Connection /\ k.kind = conn[c].kind
      /\ k.processing = conn[c].processing /\ k.has_admin = conn[c].has_admin
  BY InvParts DEF Connection
<1> HIDE DEF k
<1>3. CountsGood(us, [conn EXCEPT ![c] = k])
  <2> DEFINE d == [conn EXCEPT ![c] = k]
  <2>1. /\ d \in [Conns -> Connection] /\ d[c] = k
        /\ \A e \in Conns \ {c} : d[e] = conn[e]
    BY <1>2, InvParts
  <2> HIDE DEF d
  <2>2. \A e \in Conns : CountGood(us, conn, e)
    BY InvParts DEF CountsGood
  <2>3. \A e \in Conns : CountGood(us, d, e)
    BY <1>1, <1>2, <2>1, <2>2 DEF CountGood
  <2> QED
    BY <2>1, <2>3 DEF CountsGood, d
<1> QED
  BY <1>1, <1>2, <1>3, ConnInv

LEMMA ConnDeletedInv ==
  ASSUME PoolInv, NEW c \in Conns, ConnDeleted(c)
  PROVE  PoolInv'
<1>1. /\ conn' = [conn EXCEPT ![c] = Closed] /\ conn[c].goaway /\ conn[c].processing = 0
      /\ UNCHANGED <<now, life_time, refs, owner, deleted, pool, size, us>>
  BY DEF ConnDeleted
<1>2. /\ Closed \in Connection /\ Closed.kind = "none" /\ Closed.goaway = FALSE
  BY DEF Closed, Connection
<1>3. OnIn(us, c) = {}
  <2>1. Cardinality(OnIn(us, c)) = 0
    BY <1>1, InvParts DEF CountsGood, CountGood
  <2>2. IsFiniteSet(OnIn(us, c))
    BY InvParts, OnFinite
  <2> QED
    BY <2>1, <2>2, FS_EmptySet
<1>4. CountsGood(us, [conn EXCEPT ![c] = Closed])
  <2> DEFINE d == [conn EXCEPT ![c] = Closed]
  <2>1. /\ d \in [Conns -> Connection] /\ d[c] = Closed
        /\ \A e \in Conns \ {c} : d[e] = conn[e]
    BY <1>2, InvParts
  <2> HIDE DEF d
  <2>2. \A e \in Conns : CountGood(us, conn, e)
    BY InvParts DEF CountsGood
  <2>3. \A e \in Conns : CountGood(us, d, e)
    BY <1>2, <1>3, <2>1, <2>2 DEF CountGood, Multi
  <2> QED
    BY <2>1, <2>3 DEF CountsGood, d
<1> QED
  BY <1>1, <1>2, <1>3, <1>4, ConnInv

-----------------------------------------------------------------------------
(* The invariant.                                                          *)

LEMMA PoolInvInit ==
  ASSUME PoolAssumption, Init
  PROVE  PoolInv
<1>1. /\ now = Epoch /\ life_time = 0 /\ refs = 1 /\ owner = TRUE /\ deleted = FALSE
      /\ pool = <<>> /\ size = 0 /\ us = [h \in Handles |-> Free]
      /\ conn = [c \in Conns |-> Closed] /\ Epoch \in Int
  BY DEF Init, PoolAssumption
<1>2. /\ Free \in Upstream /\ Free.at = "none" /\ Free.bound = FALSE
      /\ Closed \in Connection /\ Closed.kind = "none" /\ Closed.goaway = FALSE
  BY DEF Free, Closed, Upstream, Connection
<1>3. \A h \in Handles : us[h] = Free
  BY <1>1
<1>4. LiveIn(us) = {} /\ OutIn(us) = {} /\ \A c : OnIn(us, c) = {}
  BY <1>2, <1>3 DEF LiveIn, OutIn, OnIn
<1>5. UsersGood(us)
  BY <1>1, <1>2, <1>3, <1>4, FS_EmptySet DEF UsersGood
<1>6. CountsGood(us, conn)
  BY <1>1, <1>2, <1>4 DEF CountsGood, CountGood, Multi
<1>7. ListGood(us, conn, pool)
  <2>1. Range(pool) = {} /\ IsInjective(pool) /\ pool \in Seq(Handles)
    BY <1>1 DEF Range, IsInjective
  <2>2. {h \in Handles : us[h].at = "pool"} = {}
    BY <1>2, <1>3
  <2> QED
    BY <2>1, <2>2 DEF ListGood
<1>8. Cardinality(OutIn(us)) = 0 /\ Len(pool) = 0
  BY <1>1, <1>4, FS_EmptySet
<1>9. Good(us, conn, pool)
  BY <1>5, <1>6, <1>7 DEF Good
<1>10. /\ now \in Int /\ life_time \in Int /\ owner = TRUE /\ deleted = FALSE
       /\ refs = 1 /\ size = 0
  BY <1>1
<1>11. refs = (IF owner THEN 1 ELSE 0) + Cardinality(OutIn(us)) /\ size = Len(pool)
  BY <1>8, <1>10
<1>12. owner \in BOOLEAN /\ deleted \in BOOLEAN /\ ~deleted
  BY <1>10
<1> QED
  BY <1>9, <1>10, <1>11, <1>12, Zenon DEF PoolInv

LEMMA PoolInvNext ==
  ASSUME PoolAssumption, PoolInv, [Next]_vars
  PROVE  PoolInv'
<1>1. CASE UNCHANGED vars
  <2>1. UNCHANGED <<now, life_time, refs, owner, deleted, pool, size, us, conn>>
    BY <1>1 DEF vars
  <2> QED
    BY <2>1, InvParts, Reached
<1>2. CASE Tick
  <2>1. /\ now' = now + 1
        /\ UNCHANGED <<life_time, refs, owner, deleted, pool, size, us, conn>>
    BY <1>2 DEF Tick
  <2>2. now' \in Int
    BY <2>1, InvParts
  <2> QED
    BY <2>1, <2>2, InvParts, Reached
<1>3. ASSUME NEW same \in BOOLEAN, NEW ws \in BOOLEAN, Fetch(ws, same) PROVE PoolInv'
  BY <1>3, LookInv, GetSocketInv, GetStreamInv DEF Fetch
<1>4. ASSUME NEW same \in BOOLEAN,
             \/ Refresh(same) \/ Clean(same) \/ RemovePool(same) \/ Delete(same)
             \/ \E t \in LifeTimes : SetLifeTime(t, same)
      PROVE  PoolInv'
  BY <1>4, LookInv, RemovePoolInv, DeleteInv
<1>5. ASSUME NEW c \in Conns, NEW h \in Handles, NEW kind \in Kinds, Connect(c, h, kind)
      PROVE  PoolInv'
  BY <1>5, ConnectInv
<1>6. ASSUME NEW h \in Handles, ReadHeader(h) PROVE PoolInv'
  BY <1>6, ReadHeaderInv
<1>7. ASSUME NEW h \in Handles, GiveBack(h) PROVE PoolInv'
  <2>1. ASSUME DestroyOut(h) \/ DestroyDoomed(h) PROVE PoolInv'
    BY <2>1, DestroyInv DEF DestroyOut, DestroyDoomed
  <2> QED
    BY <1>7, <2>1, GcInv, GcStreamInv DEF GiveBack
<1>8. ASSUME NEW c \in Conns, Goaway(c) \/ ConnDeleted(c) PROVE PoolInv'
  BY <1>8, GoawayInv, ConnDeletedInv
<1>9. CASE Over
  BY <1>1, <1>9 DEF Over
<1> QED
  BY <1>1, <1>2, <1>3, <1>4, <1>5, <1>6, <1>7, <1>8, <1>9 DEF Next

LEMMA InvImpliesCounts ==
  ASSUME PoolInv
  PROVE  PoolCounts
<1>1. /\ Live = LiveIn(us) /\ \A c : On(c) = OnIn(us, c)
  BY DEF Live, LiveIn, On, OnIn
<1>2. \A h \in Handles : us[h].bound <=> us[h].at = "out"
  BY InvParts DEF UsersGood
<1>3. RefsMatch
  <2>1. {h \in Live : us[h].bound} = OutIn(us)
    BY <1>2 DEF Live, OutIn
  <2>2. Bound(Live) = Cardinality(OutIn(us))
    BY <2>1 DEF Bound
  <2>3. deleted => Bound(Live) = 0 /\ pool = <<>>
    BY <2>2, InvParts, FS_EmptySet
  <2> QED
    BY <2>2, <2>3, InvParts DEF RefsMatch
<1>4. PoolIntact
  <2>1. /\ Range(pool) = {h \in Handles : us[h].at = "pool"}
        /\ \A h \in Range(pool) : conn[us[h].conn].kind \in Multi => us[h].admin
    BY InvParts DEF ListGood
  <2>2. Range(pool) = {h \in Live : us[h].at = "pool"}
    BY <2>1 DEF Live
  <2>3. \A h \in Range(pool) : ~us[h].bound /\ (IsMultiStream(h) => us[h].admin)
    BY <1>2, <2>1 DEF IsMultiStream, KindOf, Multi
  <2> QED
    BY <2>2, <2>3, InvParts DEF PoolIntact
<1>5. StreamsCounted
  <2> SUFFICES ASSUME NEW c \in Conns
               PROVE  LET admins == {h \in On(c) : us[h].admin}
                      IN  /\ conn[c].kind \in {"h2", "h2ws"} =>
                               /\ conn[c].processing = Cardinality(On(c))
                               /\ Cardinality(admins) = IF conn[c].has_admin THEN 1 ELSE 0
                          /\ conn[c] = Closed => On(c) = {}
    BY DEF StreamsCounted
  <2> DEFINE admins == {h \in On(c) : us[h].admin}
  <2>1. CountGood(us, conn, c)
    BY InvParts DEF CountsGood
  <2>2. conn[c] = Closed => On(c) = {}
    BY <1>1, <2>1 DEF CountGood, Closed
  <2>3. ASSUME conn[c].kind \in {"h2", "h2ws"}
        PROVE  /\ conn[c].processing = Cardinality(On(c))
               /\ Cardinality(admins) = IF conn[c].has_admin THEN 1 ELSE 0
    <3>1. /\ conn[c].processing = Cardinality(OnIn(us, c))
          /\ conn[c].has_admin <=> \E h \in On(c) : us[h].admin
          /\ \A g, h \in On(c) : us[g].admin /\ us[h].admin => g = h
      BY <1>1, <2>1, <2>3 DEF CountGood, Multi
    <3>2. conn[c].processing = Cardinality(On(c))
      BY <1>1, <3>1, Zenon
    <3>3. CASE conn[c].has_admin
      <4>1. PICK h \in On(c) : us[h].admin
        BY <3>1, <3>3
      <4>2. admins = {h}
        BY <3>1, <4>1
      <4> QED
        BY <3>2, <3>3, <4>2, FS_Singleton
    <3>4. CASE ~conn[c].has_admin
      <4>1. admins = {}
        BY <3>1, <3>4
      <4> QED
        BY <3>2, <3>4, <4>1, FS_EmptySet
    <3> QED
      BY <3>3, <3>4
  <2> QED
    BY <2>2, <2>3
<1> QED
  BY <1>3, <1>4, <1>5 DEF PoolCounts

\* However requests, timers, peers and the owner of a container interleave, the
\* container lives exactly as long as something points to it (bind, unbind), its
\* list holds each idle upstream once and none in use, and an HTTP/2 connection
\* counts its streams, at most one of them its admin stream.
THEOREM PoolKeepsCount ==
  ASSUME PoolAssumption
  PROVE  Spec => []PoolCounts
<1>1. Init => PoolInv
  BY PoolInvInit
<1>2. PoolInv /\ [Next]_vars => PoolInv'
  BY PoolInvNext
<1>3. PoolInv => PoolCounts
  BY InvImpliesCounts
<1> QED
  BY <1>1, <1>2, <1>3, PTL DEF Spec
=============================================================================
