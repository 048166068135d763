-------------------------- MODULE SelectionsProofs --------------------------
(***************************************************************************)
(* What is kept of a sequence: each of the chosen positions, once and in   *)
(* their order; and the facts about sequences and sets of numbers that the *)
(* proofs of the models which choose so keep needing.                      *)
(***************************************************************************)
EXTENDS Selections, FiniteSetTheorems, WellFoundedInduction, TLAPS

-----------------------------------------------------------------------------
(***************************************************************************)
(* Sequences.                                                              *)
(***************************************************************************)
Elements(s) == {s[i] : i \in DOMAIN s}

IsSeq(s) == s \in Seq(Elements(s))

\* A sequence over any set is one over its own elements.
LEMMA OwnElements ==
    ASSUME NEW S, NEW s \in Seq(S)
    PROVE  IsSeq(s)
  BY DEF IsSeq, Elements

\* Nothing is a sequence.
LEMMA EmptyIsSeq == IsSeq(<<>>)
  <1>1. <<>> \in Seq({})
    OBVIOUS
  <1> QED
    BY <1>1, OwnElements

\* An element of a sequence over a set is of the set.
LEMMA ElementIn ==
    ASSUME NEW S, NEW q \in Seq(S), NEW k \in 1..Len(q)
    PROVE  q[k] \in S
  OBVIOUS

\* Two sequences put together are a sequence.
LEMMA Together ==
    ASSUME NEW s, NEW t, IsSeq(s), IsSeq(t)
    PROVE  IsSeq(s \o t)
  <1> DEFINE U == Elements(s) \cup Elements(t)
  <1>1. s \in Seq(U) /\ t \in Seq(U)
    BY DEF IsSeq, Elements
  <1>2. s \o t \in Seq(U)
    BY <1>1
  <1> QED
    BY <1>2, OwnElements

\* The elements of two sequences together are theirs.
LEMMA ElementsTogether ==
    ASSUME NEW s, NEW t, IsSeq(s), IsSeq(t)
    PROVE  Elements(s \o t) \subseteq Elements(s) \cup Elements(t)
  <1> DEFINE U == Elements(s) \cup Elements(t)
  <1>1. s \in Seq(U) /\ t \in Seq(U)
    BY DEF IsSeq, Elements
  <1> HIDE DEF U
  <1>2. s \o t \in Seq(U)
    BY <1>1
  <1>3. Elements(s \o t) \subseteq U
    BY <1>2 DEF Elements
  <1> QED
    BY <1>3 DEF U

\* How long two sequences are together, and where their elements are.
LEMMA TogetherIs ==
    ASSUME NEW s, NEW t, IsSeq(s), IsSeq(t)
    PROVE  /\ Len(s) \in Nat /\ Len(t) \in Nat /\ DOMAIN s = 1..Len(s) /\ DOMAIN t = 1..Len(t)
           /\ Len(s \o t) = Len(s) + Len(t)
           /\ \A i \in 1..Len(s) : (s \o t)[i] = s[i]
           /\ \A i \in 1..Len(t) : (s \o t)[Len(s) + i] = t[i]
  <1> DEFINE U == Elements(s) \cup Elements(t)
  <1>1. s \in Seq(U) /\ t \in Seq(U)
    BY DEF IsSeq, Elements
  <1> HIDE DEF U
  <1> QED
    BY <1>1

\* The first element of two sequences together is that of the first.
LEMMA FirstOf ==
    ASSUME NEW s, NEW t, IsSeq(s), IsSeq(t), Len(s) > 0
    PROVE  (s \o t)[1] = s[1] /\ IsSeq(s \o t) /\ Len(s \o t) > 0
  <1>1. 1 \in 1..Len(s)
    BY TogetherIs
  <1>2. (s \o t)[1] = s[1] /\ Len(s \o t) = Len(s) + Len(t) /\ Len(t) \in Nat /\ Len(s) \in Nat
    BY <1>1, TogetherIs
  <1> QED
    BY <1>2, Together

\* One element more at the end.
LEMMA OneMore ==
    ASSUME NEW q, IsSeq(q), NEW e
    PROVE  LET r == Append(q, e)
           IN  /\ IsSeq(r) /\ Len(q) \in Nat /\ Len(r) = Len(q) + 1 /\ DOMAIN r = 1..(Len(q) + 1) /\ DOMAIN q = 1..Len(q)
               /\ \A i \in DOMAIN q : r[i] = q[i]
               /\ r[Len(q) + 1] = e
  <1> DEFINE r == Append(q, e)
  <1>1. /\ r \in Seq(Elements(q) \cup {e}) /\ Len(r) = Len(q) + 1 /\ DOMAIN r = 1..(Len(q) + 1)
        /\ Len(q) \in Nat /\ DOMAIN q = 1..Len(q)
        /\ \A i \in DOMAIN q : r[i] = q[i]
        /\ r[Len(q) + 1] = e
    BY DEF IsSeq
  <1> HIDE DEF r
  <1>2. IsSeq(r)
    BY <1>1, OwnElements
  <1> QED
    BY <1>1, <1>2 DEF r

\* Two more.
LEMMA TwoMore ==
    ASSUME NEW q, NEW p, IsSeq(q), IsSeq(p), Len(p) = 2
    PROVE  /\ IsSeq(q \o p) /\ Len(q) \in Nat /\ DOMAIN q = 1..Len(q)
           /\ Len(q \o p) = Len(q) + 2 /\ DOMAIN (q \o p) = 1..(Len(q) + 2)
           /\ \A i \in 1..Len(q) : (q \o p)[i] = q[i]
           /\ (q \o p)[Len(q) + 1] = p[1] /\ (q \o p)[Len(q) + 2] = p[2]
  <1>1. /\ Len(q) \in Nat /\ DOMAIN q = 1..Len(q) /\ Len(q \o p) = Len(q) + Len(p)
        /\ \A i \in 1..Len(q) : (q \o p)[i] = q[i]
        /\ \A i \in 1..Len(p) : (q \o p)[Len(q) + i] = p[i]
    BY TogetherIs
  <1>2. 1 \in 1..Len(p) /\ 2 \in 1..Len(p)
    OBVIOUS
  <1>3. IsSeq(q \o p)
    BY Together
  <1>4. DOMAIN (q \o p) = 1..Len(q \o p)
    BY <1>3 DEF IsSeq
  <1> QED
    BY <1>1, <1>2, <1>3, <1>4

\* What is rewritten place by place stays a sequence of its length.
LEMMA RewrittenIsSeq ==
    ASSUME NEW q, IsSeq(q), NEW r, r = [i \in DOMAIN q |-> r[i]]
    PROVE  IsSeq(r) /\ Len(r) = Len(q) /\ DOMAIN r = DOMAIN q
  <1>1. DOMAIN q = 1..Len(q) /\ Len(q) \in Nat
    BY DEF IsSeq
  <1>2. DOMAIN r = 1..Len(q)
    BY <1>1
  <1>3. \A i \in DOMAIN r : r[i] \in Elements(r)
    BY DEF Elements
  <1>4. r \in Seq(Elements(r)) /\ Len(r) = Len(q)
    BY <1>1, <1>2, <1>3
  <1> QED
    BY <1>1, <1>2, <1>4 DEF IsSeq

\* A function on 1..n is a sequence.
LEMMA IntervalIsSeq ==
    ASSUME NEW n \in Nat, NEW r, r = [i \in 1..n |-> r[i]]
    PROVE  IsSeq(r) /\ Len(r) = n /\ DOMAIN r = 1..n
  <1>1. DOMAIN r = 1..n
    OBVIOUS
  <1>2. \A i \in DOMAIN r : r[i] \in Elements(r)
    BY DEF Elements
  <1>3. r \in Seq(Elements(r)) /\ Len(r) = n
    BY <1>1, <1>2
  <1> QED
    BY <1>1, <1>3 DEF IsSeq

-----------------------------------------------------------------------------
(***************************************************************************)
(* The elements at some positions.                                         *)
(***************************************************************************)
\* The positions of a sequence are finitely many, and any of them are.
LEMMA PositionsFinite ==
    ASSUME NEW s, IsSeq(s), NEW P, P \subseteq DOMAIN s
    PROVE  IsFiniteSet(P) /\ Cardinality(P) \in Nat
  <1>1. Len(s) \in Nat /\ DOMAIN s = 1..Len(s)
    BY DEF IsSeq
  <1>2. IsFiniteSet(1..Len(s))
    BY <1>1, FS_Interval
  <1>3. IsFiniteSet(P)
    BY <1>1, <1>2, FS_Subset
  <1> QED
    BY <1>3, FS_CardinalityType

\* What is kept of a sequence is one.
LEMMA OnlyIsSeq ==
    ASSUME NEW s, NEW P, Cardinality(P) \in Nat
    PROVE  IsSeq(Only(s, P)) /\ Len(Only(s, P)) = Cardinality(P)
  <1> DEFINE r == Only(s, P)
             n == Cardinality(P)
  <1>1. r = [i \in 1..n |-> r[i]]
    BY DEF Only
  <1> HIDE DEF r, n
  <1>2. n \in Nat
    BY DEF n
  <1>3. IsSeq(r) /\ Len(r) = n
    BY <1>1, <1>2, IntervalIsSeq
  <1> QED
    BY <1>3 DEF r, n

\* A set of numbers has a least.
LEMMA LeastOf ==
    ASSUME NEW S \in SUBSET Nat, S # {}
    PROVE  \E m \in S : \A k \in S : m <= k
  <1> DEFINE W == OpToRel(<, Nat)
  <1>1. IsWellFoundedOn(W, Nat)
    BY NatLessThanWellFounded
  <1>2. \A x, y \in Nat : <<y, x>> \notin W => x <= y
    BY DEF OpToRel
  <1> HIDE DEF W
  <1>3. \E m \in S : \A k \in S : ~(<<k, m>> \in W)
    BY <1>1, WFMin
  <1> QED
    BY <1>2, <1>3

\* A set of positions has a last.
LEMMA LatestOf ==
    ASSUME NEW n \in Nat, NEW S \in SUBSET (1..n), S # {}
    PROVE  \E m \in S : \A k \in S : k <= m
  <1> DEFINE T == {n - k : k \in S}
  <1>0. \A k \in S : n - k \in Nat
    OBVIOUS
  <1>1. T \in SUBSET Nat /\ T # {}
    BY <1>0
  <1> HIDE DEF T
  <1>2. PICK t \in T : \A u \in T : t <= u
    BY <1>1, LeastOf
  <1>3. PICK m \in S : t = n - m
    BY <1>2 DEF T
  <1>4. \A k \in S : n - m <= n - k
    BY <1>2, <1>3 DEF T
  <1>5. \A k \in S : k <= m
    BY <1>4
  <1> QED
    BY <1>3, <1>5

\* How many of the positions are at or before one of them.
Before(P, i) == Cardinality({k \in P : k <= i})

\* Positions can be counted.
LEMMA PositionsCount ==
    ASSUME NEW n \in Nat, NEW P \in SUBSET (1..n)
    PROVE  IsFiniteSet(P) /\ Cardinality(P) \in Nat
  <1>1. IsFiniteSet(1..n)
    BY FS_Interval
  <1>2. IsFiniteSet(P)
    BY <1>1, FS_Subset
  <1> QED
    BY <1>2, FS_CardinalityType

\* The count goes up by one at each of the positions.
LEMMA BeforeCounts ==
    ASSUME NEW n \in Nat, NEW P \in SUBSET (1..n)
    PROVE  /\ Before(P, 0) = 0 /\ Before(P, n) = Cardinality(P)
           /\ \A i \in 0..n : Before(P, i) \in Nat
           /\ \A i \in 0..(n - 1) : Before(P, i + 1) = (IF i + 1 \in P THEN Before(P, i) + 1 ELSE Before(P, i))
           /\ \A i, j \in P : i < j => Before(P, i) < Before(P, j)
           /\ \A i \in P : Before(P, i) \in 1..Cardinality(P)
  <1>1. IsFiniteSet(P) /\ Cardinality(P) \in Nat
    <2>1. IsFiniteSet(1..n)
      BY FS_Interval
    <2> QED
      BY <2>1, FS_Subset, FS_CardinalityType
  <1>0. \A k \in P : k \in Int /\ 1 <= k /\ k <= n
    OBVIOUS
  <1>2. \A i : {k \in P : k <= i} \in SUBSET P
    OBVIOUS
  <1>3. \A i : IsFiniteSet({k \in P : k <= i}) /\ Before(P, i) \in Nat /\ Before(P, i) <= Cardinality(P)
    BY <1>1, <1>2, FS_Subset, FS_CardinalityType DEF Before
  <1>4. Before(P, 0) = 0
    <2>1. \A k \in P : ~(k <= 0)
      BY <1>0
    <2>2. {k \in P : k <= 0} = {}
      BY <2>1
    <2> QED
      BY <2>2, FS_EmptySet DEF Before
  <1>5. Before(P, n) = Cardinality(P)
    <2>1. {k \in P : k <= n} = P
      BY <1>0
    <2> QED
      BY <2>1 DEF Before
  <1>6. ASSUME NEW i \in 0..(n - 1)
        PROVE  Before(P, i + 1) = (IF i + 1 \in P THEN Before(P, i) + 1 ELSE Before(P, i))
    <2> DEFINE B == {k \in P : k <= i}
    <2>1. CASE i + 1 \in P
      <3>0. \A k \in P : (k <= i + 1 <=> k <= i \/ k = i + 1) /\ (k = i + 1 => ~(k <= i))
        BY <1>0, <2>1
      <3>1. {k \in P : k <= i + 1} = B \cup {i + 1} /\ i + 1 \notin B
        BY <2>1, <3>0
      <3>2. IsFiniteSet(B)
        BY <1>3
      <3> HIDE DEF B
      <3>3. Cardinality(B \cup {i + 1}) = Cardinality(B) + 1
        BY <3>1, <3>2, FS_AddElement
      <3>4. Before(P, i + 1) = Cardinality(B \cup {i + 1}) /\ Before(P, i) = Cardinality(B)
        BY <3>1 DEF Before, B
      <3> QED
        BY <2>1, <3>3, <3>4
    <2>2. CASE i + 1 \notin P
      <3>1. {k \in P : k <= i + 1} = B
        <4>1. \A k \in P : k <= i + 1 <=> k <= i
          BY <1>0, <2>2
        <4> QED
          BY <4>1
      <3> QED
        BY <2>2, <3>1 DEF Before
    <2> QED
      BY <2>1, <2>2
  <1>7. ASSUME NEW i \in P, NEW j \in P, i < j
        PROVE  Before(P, i) < Before(P, j)
    <2> DEFINE B == {k \in P : k <= i}
               C == {k \in P : k <= j}
    <2>0. (\A k \in P : k <= i => k <= j) /\ j <= j /\ ~(j <= i)
      BY <1>0, <1>7
    <2>1. B \in SUBSET C /\ j \in C /\ j \notin B
      BY <2>0
    <2>2. IsFiniteSet(C) /\ Cardinality(B) \in Nat /\ Cardinality(C) \in Nat
      BY <1>3 DEF Before
    <2> HIDE DEF B, C
    <2>3. Cardinality(B) <= Cardinality(C) /\ Cardinality(C) # Cardinality(B)
      BY <2>1, <2>2, FS_Subset
    <2>4. Cardinality(B) < Cardinality(C)
      BY <2>2, <2>3
    <2> QED
      BY <2>4 DEF Before, B, C
  <1>8. ASSUME NEW i \in P
        PROVE  Before(P, i) \in 1..Cardinality(P)
    <2>1. i \in {k \in P : k <= i}
      BY <1>0
    <2>2. Before(P, i) # 0
      BY <1>3, <2>1, FS_EmptySet DEF Before
    <2>3. Before(P, i) \in Nat /\ Before(P, i) <= Cardinality(P)
      BY <1>3
    <2> QED
      BY <1>1, <2>2, <2>3
  <1> QED
    BY <1>3, <1>4, <1>5, <1>6, <1>7, <1>8

\* There is a position of every count.
LEMMA BeforeFinds ==
    ASSUME NEW n \in Nat, NEW P \in SUBSET (1..n), NEW c \in 1..Cardinality(P)
    PROVE  \E i \in P : Before(P, i) = c
  <1>0. Cardinality(P) \in Nat
    BY PositionsCount
  <1> DEFINE S == {i \in 0..n : Before(P, i) >= c}
  <1>1. n \in S /\ S \in SUBSET Nat
    BY <1>0, BeforeCounts
  <1>2. PICK m \in S : \A k \in S : m <= k
    BY <1>1, LeastOf
  <1>2a. Before(P, 0) = 0
    BY BeforeCounts
  <1>3. m # 0 /\ m \in 0..n /\ Before(P, m) >= c
    BY <1>0, <1>2, <1>2a
  <1>4. m - 1 \in 0..(n - 1) /\ m - 1 \notin S /\ m - 1 \in 0..n
    BY <1>2, <1>3
  <1>5. Before(P, m - 1) \in Nat /\ Before(P, m - 1) < c
    BY <1>4, BeforeCounts
  <1>6. Before(P, m) = (IF m \in P THEN Before(P, m - 1) + 1 ELSE Before(P, m - 1))
    <2> DEFINE l == m - 1
    <2>1. l \in 0..(n - 1) /\ l + 1 = m
      BY <1>4
    <2> HIDE DEF l
    <2>2. \A i \in 0..(n - 1) : Before(P, i + 1) = (IF i + 1 \in P THEN Before(P, i) + 1 ELSE Before(P, i))
      BY BeforeCounts
    <2>3. Before(P, l + 1) = (IF l + 1 \in P THEN Before(P, l) + 1 ELSE Before(P, l))
      BY <2>1, <2>2
    <2> QED
      BY <2>1, <2>3 DEF l
  <1> QED
    BY <1>0, <1>3, <1>5, <1>6

\* The elements that are kept: each position's, once, in their order.
LEMMA OnlyIs ==
    ASSUME NEW s, NEW n \in Nat, NEW P \in SUBSET (1..n)
    PROVE  /\ Cardinality(P) \in Nat
           /\ \E pos \in [1..Cardinality(P) -> P] :
                 /\ Only(s, P) = [c \in 1..Cardinality(P) |-> s[pos[c]]]
                 /\ \A i \in P : \E c \in 1..Cardinality(P) : pos[c] = i
                 /\ \A c, d \in 1..Cardinality(P) : c < d => pos[c] < pos[d]
  <1>1. Cardinality(P) \in Nat
    BY PositionsCount
  <1> DEFINE N == Cardinality(P)
             pos == [c \in 1..N |-> CHOOSE i \in P : Before(P, i) = c]
  <1>2. \A c \in 1..N : pos[c] \in P /\ Before(P, pos[c]) = c
    BY BeforeFinds
  <1>3. pos \in [1..N -> P]
    BY <1>2
  <1>4. Only(s, P) = [c \in 1..N |-> s[pos[c]]]
    BY DEF Only, Before
  <1> HIDE DEF pos, N
  <1>5. \A i, j \in P : i < j => Before(P, i) < Before(P, j)
    BY BeforeCounts
  <1>6. \A i, j \in P : Before(P, i) = Before(P, j) => i = j
    <2> SUFFICES ASSUME NEW i \in P, NEW j \in P, Before(P, i) = Before(P, j), i # j PROVE FALSE
      OBVIOUS
    <2>1. i < j \/ j < i
      OBVIOUS
    <2>2. Before(P, i) \in Nat /\ Before(P, j) \in Nat
      <3>1. \A k \in P : Before(P, k) \in 1..Cardinality(P)
        BY BeforeCounts
      <3> QED
        BY <1>1, <3>1
    <2> QED
      BY <1>5, <2>1, <2>2
  <1>7. ASSUME NEW i \in P PROVE \E c \in 1..N : pos[c] = i
    <2>1. Before(P, i) \in 1..N
      BY BeforeCounts DEF N
    <2> QED
      BY <1>2, <1>6, <2>1
  <1>8. ASSUME NEW c \in 1..N, NEW d \in 1..N, c < d PROVE pos[c] < pos[d]
    <2>1. pos[c] \in P /\ pos[d] \in P /\ Before(P, pos[c]) = c /\ Before(P, pos[d]) = d
      BY <1>2
    <2>2. pos[c] # pos[d]
      BY <1>1, <1>8, <2>1 DEF N
    <2>3. c \in Int /\ d \in Int /\ ~(d < c)
      BY <1>1, <1>8 DEF N
    <2>4. ~(pos[d] < pos[c])
      <3>1. pos[d] < pos[c] => Before(P, pos[d]) < Before(P, pos[c])
        BY <1>5, <2>1
      <3> QED
        BY <2>1, <2>3, <3>1
    <2>5. pos[c] \in Int /\ pos[d] \in Int
      <3>1. \A i \in P : i \in Int
        OBVIOUS
      <3> QED
        BY <2>1, <3>1
    <2> QED
      BY <2>2, <2>4, <2>5
  <1> QED
    BY <1>1, <1>3, <1>4, <1>7, <1>8 DEF N

\* What is kept of a sequence is of it, and each position asked for once.
Places(s, P, r, pos) ==
    /\ IsSeq(r) /\ DOMAIN r = 1..Cardinality(P)
    /\ \A c \in DOMAIN r : pos[c] \in P /\ r[c] = s[pos[c]]
    /\ \A i \in P : \E c \in DOMAIN r : pos[c] = i
    /\ \A c, d \in DOMAIN r : pos[c] = pos[d] => c = d

\* Only keeps an element of each of the positions, once.
LEMMA OnlyElements ==
    ASSUME NEW s, NEW n \in Nat, NEW P \in SUBSET (1..n)
    PROVE  Cardinality(P) \in Nat /\ \E pos : Places(s, P, Only(s, P), pos)
  <1> DEFINE r == Only(s, P)
             N == Cardinality(P)
  <1>1. N \in Nat
    BY OnlyIs
  <1>2. PICK pos \in [1..N -> P] :
            /\ r = [c \in 1..N |-> s[pos[c]]]
            /\ \A i \in P : \E c \in 1..N : pos[c] = i
            /\ \A c, d \in 1..N : c < d => pos[c] < pos[d]
    BY OnlyIs, ZenonT(40)
  <1>3. IsSeq(r) /\ DOMAIN r = 1..N
    <2>1. IsSeq(r)
      BY <1>1, OnlyIsSeq
    <2> QED
      BY <1>2, <2>1
  <1>4. \A i \in P : i \in Int
    OBVIOUS
  <1> HIDE DEF r, N
  <1>5. ASSUME NEW c \in 1..N, NEW d \in 1..N, pos[c] = pos[d] PROVE c = d
    <2>1. c < d \/ d < c \/ c = d
      BY <1>1
    <2>2. pos[c] \in Int /\ pos[d] \in Int
      BY <1>2, <1>4
    <2> QED
      BY <1>2, <1>5, <2>1, <2>2
  <1>6. Places(s, P, r, pos)
    BY <1>2, <1>3, <1>5 DEF Places, N
  <1> QED
    BY <1>1, <1>6 DEF r, N

\* All the positions of a sequence are the sequence.
LEMMA OnlyAll ==
    ASSUME NEW s, IsSeq(s)
    PROVE  Only(s, DOMAIN s) = s
  <1>1. PICK n \in Nat : n = Len(s)
    BY DEF IsSeq
  <1>2. DOMAIN s = 1..n /\ s \in Seq(Elements(s))
    BY <1>1 DEF IsSeq
  <1> DEFINE P == 1..n
  <1>3. ASSUME NEW i \in P PROVE Before(P, i) = i
    <2>1. \A k \in Int : k \in P /\ k <= i <=> k \in 1..i
      BY <1>3
    <2>2. {k \in P : k <= i} = 1..i
      <3>1. P \subseteq Int /\ (1..i) \subseteq Int
        OBVIOUS
      <3> HIDE DEF P
      <3> QED
        BY <2>1, <3>1
    <2>3. Cardinality(1..i) = i
      BY FS_Interval
    <2> QED
      BY <2>2, <2>3 DEF Before
  <1>4. Cardinality(P) = n
    BY FS_Interval
  <1>5. \A c \in P : (CHOOSE i \in P : Before(P, i) = c) = c
    BY <1>3
  <1>6. Only(s, P) = [c \in P |-> s[c]]
    <2> DEFINE spot(c) == CHOOSE i \in P : Before(P, i) = c
    <2>1. Only(s, P) = [c \in 1..Cardinality(P) |-> s[spot(c)]]
      BY DEF Only, Before
    <2>2. \A c \in P : spot(c) = c
      BY <1>5
    <2> HIDE DEF spot
    <2>3. Only(s, P) = [c \in P |-> s[spot(c)]]
      BY <1>4, <2>1
    <2> QED
      BY <2>2, <2>3
  <1>7. s = [c \in P |-> s[c]]
    BY <1>2
  <1> QED
    BY <1>2, <1>6, <1>7

\* A sequence that loses nothing keeps every position.
LEMMA OnlyIsAll ==
    ASSUME NEW s, IsSeq(s), NEW P \in SUBSET DOMAIN s, Only(s, P) = s
    PROVE  P = DOMAIN s
  <1>1. PICK n \in Nat : n = Len(s) /\ DOMAIN s = 1..n
    BY DEF IsSeq
  <1>2. Cardinality(P) \in Nat
    BY <1>1, PositionsCount
  <1>3. Len(Only(s, P)) = Cardinality(P)
    BY <1>2, OnlyIsSeq
  <1>4. Cardinality(1..n) = n /\ IsFiniteSet(1..n)
    BY FS_Interval
  <1>5. P \in SUBSET (1..n) /\ Cardinality(1..n) = Cardinality(P)
    BY <1>1, <1>3, <1>4
  <1> QED
    BY <1>1, <1>4, <1>5, FS_Subset

=============================================================================
