------------------------- MODULE ConsolidateProofs --------------------------
(***************************************************************************)
(* From the operator's files to the rendered model, for every input, every *)
(* spelling of its keys and every number of files: what each side's binder *)
(* connects to, what its placeholders resolve to, what validate foretells  *)
(* of it, and what its property blocks say.  First come the operators: the *)
(* names the tool derives, and the blocks that mergeProp, overlayExtras,   *)
(* dropManaged and appendPassthrough leave, whatever they are given.       *)
(***************************************************************************)
EXTENDS Consolidate, SelectionsProofs

-----------------------------------------------------------------------------
(***************************************************************************)
(* The names the tool derives.                                             *)
(***************************************************************************)
\* stableToken gives a sequence.
LEMMA StableTokenIsSeq ==
    ASSUME NEW name, IsSeq(name)
    PROVE  IsSeq(StableToken(name))
  <1> DEFINE Word(i)  == name[i] \notin Separators
             Stays(i) == \/ Word(i)
                         \/ i > 1 /\ Word(i - 1) /\ \E j \in i..Len(name) : Word(j)
             P == {i \in DOMAIN name : Stays(i)}
             w == [i \in DOMAIN name |-> IF Word(i) THEN Upper(name[i]) ELSE "_"]
             folded == Only(w, P)
             x == <<"X">>
  <1>1. Cardinality(P) \in Nat
    BY PositionsFinite
  <1> HIDE DEF P, w
  <1>2. IsSeq(folded)
    BY <1>1, OnlyIsSeq
  <1>3. x \in Seq({"X"})
    OBVIOUS
  <1>4. IsSeq(x)
    BY <1>3, OwnElements
  <1>5. StableToken(name) = IF folded = <<>> THEN x ELSE IF Digit(folded[1]) THEN x \o folded ELSE folded
    BY DEF StableToken, P, w
  <1> HIDE DEF x, folded
  <1>6. IsSeq(x \o folded)
    BY <1>2, <1>4, Together
  <1> QED
    BY <1>2, <1>4, <1>5, <1>6

\* A name the tool derives begins with its prefix.
Generated(name) == name[1] = Prefix

\* stableName: a binder's placeholder.
LEMMA StableNameGenerated ==
    ASSUME NEW name, IsSeq(name), NEW suffix, IsSeq(suffix)
    PROVE  Generated(StableName(name, suffix))
  <1> DEFINE p == <<Prefix>>
             q == StableToken(name)
  <1>1. p \in Seq({Prefix}) /\ Len(p) = 1 /\ p[1] = Prefix
    OBVIOUS
  <1>2. IsSeq(p) /\ IsSeq(q)
    BY <1>1, OwnElements, StableTokenIsSeq
  <1>3. StableName(name, suffix) = p \o q \o suffix
    BY DEF StableName
  <1> HIDE DEF p, q
  <1>4. (p \o q)[1] = Prefix /\ IsSeq(p \o q) /\ Len(p \o q) > 0
    BY <1>1, <1>2, FirstOf
  <1> DEFINE r == p \o q
  <1> HIDE DEF r
  <1>5. (r \o suffix)[1] = Prefix
    BY <1>4, FirstOf DEF r
  <1> QED
    BY <1>3, <1>5 DEF Generated, r

\* The suffixes are sequences.
LEMMA SuffixesAreSeqs ==
    ASSUME NEW system
    PROVE  IsSeq(UserSuffix(system)) /\ IsSeq(PassSuffix(system))
  <1> DEFINE U == {"_", "CLIENT", "USERNAME", "USER", "PASSWORD"}
  <1>1. /\ <<"_", "CLIENT", "_", "USERNAME">> \in Seq(U) /\ <<"_", "USER">> \in Seq(U)
        /\ <<"_", "CLIENT", "_", "PASSWORD">> \in Seq(U) /\ <<"_", "PASSWORD">> \in Seq(U)
    OBVIOUS
  <1> HIDE DEF U
  <1>2. /\ IsSeq(<<"_", "CLIENT", "_", "USERNAME">>) /\ IsSeq(<<"_", "USER">>)
        /\ IsSeq(<<"_", "CLIENT", "_", "PASSWORD">>) /\ IsSeq(<<"_", "PASSWORD">>)
    BY <1>1, OwnElements
  <1> QED
    BY <1>2 DEF UserSuffix, PassSuffix

\* The session's placeholder.
LEMMA LeaderNameGenerated ==
    ASSUME NEW suffix, IsSeq(suffix)
    PROVE  Generated(LeaderName(suffix))
  <1> DEFINE U == {Prefix, "LEADER", "_", "ELECTION"}
             p == <<Prefix, "LEADER", "_", "ELECTION">>
  <1>1. p \in Seq(U) /\ Len(p) = 4 /\ p[1] = Prefix
    OBVIOUS
  <1>2. LeaderName(suffix) = p \o suffix
    BY DEF LeaderName
  <1> HIDE DEF p, U
  <1>3. IsSeq(p) /\ Len(p) > 0
    BY <1>1, OwnElements
  <1>4. (p \o suffix)[1] = Prefix
    BY <1>1, <1>3, FirstOf
  <1> QED
    BY <1>2, <1>4 DEF Generated

\* A store's placeholder.
LEMMA StorePasswordNameGenerated ==
    ASSUME NEW store, IsSeq(store)
    PROVE  Generated(StorePasswordName(store))
  <1> DEFINE U == {Prefix, "TLS", "_", "PASSWORD"}
             p == <<Prefix, "TLS", "_">>
             q == [i \in DOMAIN store |-> IF store[i] \in Separators THEN "_" ELSE Upper(store[i])]
             e == <<"_", "PASSWORD">>
  <1>1. p \in Seq(U) /\ Len(p) = 3 /\ p[1] = Prefix /\ e \in Seq(U)
    OBVIOUS
  <1>2. q = [i \in DOMAIN store |-> q[i]]
    OBVIOUS
  <1>3. StorePasswordName(store) = p \o q \o e
    BY DEF StorePasswordName
  <1> HIDE DEF p, q, e, U
  <1>4. IsSeq(p) /\ IsSeq(q) /\ IsSeq(e) /\ Len(p) > 0
    BY <1>1, <1>2, OwnElements, RewrittenIsSeq
  <1> DEFINE r == p \o q
  <1>5. r[1] = Prefix /\ IsSeq(r) /\ Len(r) > 0
    BY <1>1, <1>4, FirstOf
  <1> HIDE DEF r
  <1>6. (r \o e)[1] = Prefix
    BY <1>4, <1>5, FirstOf
  <1> QED
    BY <1>3, <1>6 DEF Generated, r

\* A management user's placeholder.
LEMMA UserPasswordNameGenerated ==
    ASSUME NEW user, IsSeq(user)
    PROVE  Generated(SecurityUserPasswordName(user))
  <1> DEFINE U == {Prefix, "SECURITY", "_", "USER", "PASSWORD"}
             p == <<Prefix, "SECURITY", "_", "USER", "_">>
             q == StableToken(user)
             e == <<"_", "PASSWORD">>
  <1>1. p \in Seq(U) /\ Len(p) = 5 /\ p[1] = Prefix /\ e \in Seq(U)
    OBVIOUS
  <1>2. SecurityUserPasswordName(user) = p \o q \o e
    BY DEF SecurityUserPasswordName
  <1> HIDE DEF p, q, e, U
  <1>3. IsSeq(p) /\ IsSeq(q) /\ IsSeq(e) /\ Len(p) > 0
    BY <1>1, OwnElements, StableTokenIsSeq DEF q
  <1> DEFINE r == p \o q
  <1>4. r[1] = Prefix /\ IsSeq(r) /\ Len(r) > 0
    BY <1>1, <1>3, FirstOf
  <1> HIDE DEF r
  <1>5. (r \o e)[1] = Prefix
    BY <1>3, <1>4, FirstOf
  <1> QED
    BY <1>2, <1>5 DEF Generated, r

-----------------------------------------------------------------------------
(***************************************************************************)
(* One block laid over another.                                            *)
(***************************************************************************)
\* The parts of Lay.
Same(name, p, q) == name[p.key] = name[q.key]

InBlock(name, p, s) == \E j \in DOMAIN s : Same(name, s[j], p)

FirstIn(name, i, s) == \A j \in 1..(i - 1) : ~Same(name, s[j], s[i])

Latest(name, p, s) ==
    s[CHOOSE j \in DOMAIN s : Same(name, s[j], p) /\ \A k \in DOMAIN s : Same(name, s[k], p) => k <= j]

Added(base, over, name) == {i \in DOMAIN over : ~InBlock(name, over[i], base) /\ FirstIn(name, i, over)}

\* The latest entry of a name is one of the block's, of that name.
LEMMA LatestIs ==
    ASSUME NEW name, NEW p, NEW s, IsSeq(s), InBlock(name, p, s)
    PROVE  \E j \in DOMAIN s : Latest(name, p, s) = s[j] /\ Same(name, s[j], p)
  <1>1. PICK n \in Nat : DOMAIN s = 1..n
    BY DEF IsSeq
  <1> DEFINE W == {j \in DOMAIN s : Same(name, s[j], p)}
             At(j) == Same(name, s[j], p) /\ \A k \in DOMAIN s : Same(name, s[k], p) => k <= j
  <1>2. W \in SUBSET (1..n) /\ W # {}
    BY <1>1 DEF InBlock
  <1>3. PICK m \in W : \A k \in W : k <= m
    <2> HIDE DEF W
    <2> QED
      BY <1>2, LatestOf
  <1>4. m \in DOMAIN s /\ At(m)
    BY <1>3
  <1> DEFINE c == CHOOSE j \in DOMAIN s : At(j)
  <1>5. Latest(name, p, s) = s[c]
    BY DEF Latest
  <1>6. c \in DOMAIN s /\ At(c)
    <2> HIDE DEF At
    <2> QED
      BY <1>4
  <1> QED
    BY <1>5, <1>6

\* The base, with what takes the place of its entries, and what is added.
Laid(base, over, name, r, n, N, pos) ==
    /\ IsSeq(r) /\ DOMAIN base = 1..n /\ DOMAIN r = 1..(n + N)
    /\ \A x \in 1..n : r[x] = IF InBlock(name, base[x], over) /\ FirstIn(name, x, base)
                              THEN Latest(name, base[x], over) ELSE base[x]
    /\ \A c \in 1..N : pos[c] \in Added(base, over, name) /\ r[n + c] = Latest(name, over[pos[c]], over)
    /\ \A i \in Added(base, over, name) : \E c \in 1..N : pos[c] = i
    /\ \A c, d \in 1..N : pos[c] = pos[d] => c = d

\* Lay is made of these parts.
LEMMA LayIs ==
    ASSUME NEW base, NEW over, NEW name, IsSeq(base), IsSeq(over)
    PROVE  \E n \in Nat, N \in Nat : \E pos : Laid(base, over, name, Lay(base, over, name), n, N, pos)
  <1> DEFINE r == Lay(base, over, name)
             P == Added(base, over, name)
             p == [x \in DOMAIN base |-> IF InBlock(name, base[x], over) /\ FirstIn(name, x, base)
                                         THEN Latest(name, base[x], over) ELSE base[x]]
             l == [i \in DOMAIN over |-> Latest(name, over[i], over)]
             q == Only(l, P)
  <1>1. r = p \o q
    BY DEF Lay, Same, InBlock, FirstIn, Latest, Added
  <1>2. PICK n \in Nat : DOMAIN base = 1..n /\ n = Len(base)
    BY DEF IsSeq
  <1>3. PICK m \in Nat : DOMAIN over = 1..m
    BY DEF IsSeq
  <1>4. P \in SUBSET (1..m)
    BY <1>3 DEF Added
  <1>5. \A i \in P : l[i] = Latest(name, over[i], over)
    BY <1>3, <1>4
  <1>6. p = [x \in 1..n |-> p[x]]
    BY <1>2
  <1>7. \A x \in 1..n : p[x] = IF InBlock(name, base[x], over) /\ FirstIn(name, x, base)
                               THEN Latest(name, base[x], over) ELSE base[x]
    BY <1>2
  <1> HIDE DEF P, p, l
  <1>8. IsSeq(p) /\ Len(p) = n
    BY <1>6, IntervalIsSeq
  <1>9. PICK N \in Nat : N = Cardinality(P)
    BY <1>4, PositionsCount
  <1>10. PICK pos : Places(l, P, q, pos)
    BY <1>4, OnlyElements
  <1>11. /\ IsSeq(q) /\ DOMAIN q = 1..N
         /\ \A c \in 1..N : pos[c] \in P /\ q[c] = l[pos[c]]
         /\ \A i \in P : \E c \in 1..N : pos[c] = i
         /\ \A c, d \in 1..N : pos[c] = pos[d] => c = d
    BY <1>9, <1>10 DEF Places
  <1> HIDE DEF q, r
  <1>12. Len(q) = N
    BY <1>9, <1>11 DEF IsSeq
  <1>13. IsSeq(r)
    BY <1>1, <1>8, <1>11, Together
  <1>14. \A x \in 1..n : r[x] = p[x]
    BY <1>1, <1>8, <1>11, TogetherIs
  <1>15. \A c \in 1..N : r[n + c] = q[c]
    BY <1>1, <1>8, <1>11, <1>12, TogetherIs
  <1>16. Len(r) = n + N
    BY <1>1, <1>8, <1>11, <1>12, TogetherIs, ZenonT(40)
  <1>17. DOMAIN r = 1..(n + N)
    BY <1>13, <1>16 DEF IsSeq
  <1>18. \A x \in 1..n : r[x] = IF InBlock(name, base[x], over) /\ FirstIn(name, x, base)
                                THEN Latest(name, base[x], over) ELSE base[x]
    BY <1>7, <1>14
  <1>19. \A c \in 1..N : pos[c] \in P /\ r[n + c] = Latest(name, over[pos[c]], over)
    BY <1>5, <1>11, <1>15, SMTT(20)
  <1>20. Laid(base, over, name, r, n, N, pos)
    BY <1>2, <1>11, <1>13, <1>17, <1>18, <1>19 DEF Laid, P
  <1> QED
    BY <1>20 DEF r

\* Each entry of what is laid is one of the base or of the other block, and goes by
\* the name of the entry of the base it replaces, or of the one it adds.
Entries(base, over, name, r, n, N, pos) ==
    /\ \A x \in 1..n : Same(name, r[x], base[x]) /\ r[x] \in Elements(base) \cup Elements(over)
    /\ \A c \in 1..N : Same(name, r[n + c], over[pos[c]]) /\ r[n + c] \in Elements(over)
    /\ \A x \in DOMAIN r : x \in 1..n \/ (x - n \in 1..N /\ x = n + (x - n))

\* And its entries are these.
LEMMA LaidEntries ==
    ASSUME NEW base, NEW over, NEW name, IsSeq(base), IsSeq(over),
           NEW r, NEW n \in Nat, NEW N \in Nat, NEW pos, Laid(base, over, name, r, n, N, pos)
    PROVE  Entries(base, over, name, r, n, N, pos)
  <1>1. ASSUME NEW x \in 1..n
        PROVE  Same(name, r[x], base[x]) /\ r[x] \in Elements(base) \cup Elements(over)
    <2>1. CASE InBlock(name, base[x], over) /\ FirstIn(name, x, base)
      <3>1. PICK j \in DOMAIN over : Latest(name, base[x], over) = over[j] /\ Same(name, over[j], base[x])
        BY <2>1, LatestIs
      <3>2. r[x] = over[j]
        BY <2>1, <3>1 DEF Laid
      <3> QED
        BY <3>1, <3>2 DEF Elements
    <2>2. CASE ~(InBlock(name, base[x], over) /\ FirstIn(name, x, base))
      <3>1. r[x] = base[x] /\ x \in DOMAIN base
        BY <2>2 DEF Laid
      <3> QED
        BY <3>1 DEF Same, Elements
    <2> QED
      BY <2>1, <2>2
  <1>2. ASSUME NEW c \in 1..N
        PROVE  Same(name, r[n + c], over[pos[c]]) /\ r[n + c] \in Elements(over)
    <2>1. PICK i : i = pos[c] /\ i \in DOMAIN over /\ r[n + c] = Latest(name, over[i], over)
      BY DEF Laid, Added
    <2>2. InBlock(name, over[i], over)
      BY <2>1 DEF InBlock, Same
    <2>3. PICK j \in DOMAIN over : Latest(name, over[i], over) = over[j] /\ Same(name, over[j], over[i])
      BY <2>2, LatestIs
    <2> QED
      BY <2>1, <2>3 DEF Elements
  <1>3. \A x \in DOMAIN r : x \in 1..n \/ (x - n \in 1..N /\ x = n + (x - n))
    <2>1. DOMAIN r = 1..(n + N)
      BY DEF Laid
    <2> QED
      BY <2>1
  <1> QED
    BY <1>1, <1>2, <1>3 DEF Entries

\* No two entries go by one name.
Apart(name, s) == \A i, j \in DOMAIN s : Same(name, s[i], s[j]) => i = j

\* What is laid over a block that says nothing twice says nothing twice.
LEMMA LayApart ==
    ASSUME NEW base, NEW over, NEW name, IsSeq(base), IsSeq(over), Apart(name, base)
    PROVE  Apart(name, Lay(base, over, name))
  <1> DEFINE r == Lay(base, over, name)
  <1>1a. PICK n \in Nat, N \in Nat : \E pos : Laid(base, over, name, r, n, N, pos)
    BY LayIs
  <1>1. PICK pos : Laid(base, over, name, r, n, N, pos)
    BY <1>1a
  <1> HIDE DEF r
  <1>2. /\ \A x \in 1..n : Same(name, r[x], base[x])
        /\ \A c \in 1..N : Same(name, r[n + c], over[pos[c]])
        /\ \A x \in DOMAIN r : x \in 1..n \/ (x - n \in 1..N /\ x = n + (x - n))
    <2>1. Entries(base, over, name, r, n, N, pos)
      BY <1>1, LaidEntries
    <2> QED
      BY <2>1 DEF Entries
  <1>3. /\ DOMAIN base = 1..n
        /\ \A c \in 1..N : pos[c] \in Added(base, over, name)
        /\ \A c, d \in 1..N : pos[c] = pos[d] => c = d
    BY <1>1 DEF Laid
  <1>4. \A i, j \in Added(base, over, name) : Same(name, over[i], over[j]) => i = j
    <2> SUFFICES ASSUME NEW i \in Added(base, over, name), NEW j \in Added(base, over, name),
                        Same(name, over[i], over[j]), i # j
                 PROVE  FALSE
      OBVIOUS
    <2>1. i \in Int /\ j \in Int /\ i >= 1 /\ j >= 1
      BY DEF Added, IsSeq
    <2>2. i \in 1..(j - 1) \/ j \in 1..(i - 1)
      BY <2>1
    <2> QED
      BY <2>2 DEF Added, FirstIn, Same
  <1>5. ASSUME NEW x \in 1..n, NEW c \in 1..N, Same(name, r[x], r[n + c])
        PROVE  FALSE
    <2>1. Same(name, base[x], over[pos[c]])
      BY <1>2, <1>5 DEF Same
    <2> QED
      BY <1>3, <2>1 DEF Added, InBlock
  <1>6. ASSUME NEW x \in DOMAIN r, NEW y \in DOMAIN r, Same(name, r[x], r[y])
        PROVE  x = y
    <2>1. CASE x \in 1..n /\ y \in 1..n
      <3>1. Same(name, base[x], base[y])
        BY <1>2, <1>6, <2>1 DEF Same
      <3> QED
        BY <1>3, <2>1, <3>1 DEF Apart
    <2>2. CASE x \in 1..n /\ y \notin 1..n
      <3>1. PICK c : c = y - n /\ c \in 1..N /\ y = n + c
        BY <1>2, <2>2
      <3> QED
        BY <1>5, <1>6, <2>2, <3>1
    <2>3. CASE x \notin 1..n /\ y \in 1..n
      <3>1. PICK c : c = x - n /\ c \in 1..N /\ x = n + c
        BY <1>2, <2>3
      <3>2. Same(name, r[y], r[n + c])
        BY <1>6, <3>1 DEF Same
      <3> QED
        BY <1>5, <2>3, <3>1, <3>2
    <2>4. CASE x \notin 1..n /\ y \notin 1..n
      <3>1. PICK c, d : c \in 1..N /\ x = n + c /\ d \in 1..N /\ y = n + d
        BY <1>2, <2>4
      <3>2. Same(name, over[pos[c]], over[pos[d]])
        BY <1>2, <1>6, <3>1 DEF Same
      <3>3. c = d
        BY <1>3, <1>4, <3>1, <3>2
      <3> QED
        BY <3>1, <3>3
    <2> QED
      BY <2>1, <2>2, <2>3, <2>4
  <1>7. Apart(name, r)
    BY <1>6 DEF Apart
  <1> QED
    BY <1>7 DEF r

\* What is laid is of the two blocks.
LEMMA LayFrom ==
    ASSUME NEW base, NEW over, NEW name, IsSeq(base), IsSeq(over)
    PROVE  IsSeq(Lay(base, over, name)) /\ Elements(Lay(base, over, name)) \subseteq Elements(base) \cup Elements(over)
  <1> DEFINE r == Lay(base, over, name)
  <1>1a. PICK n \in Nat, N \in Nat : \E pos : Laid(base, over, name, r, n, N, pos)
    BY LayIs
  <1>1. PICK pos : Laid(base, over, name, r, n, N, pos)
    BY <1>1a
  <1> HIDE DEF r
  <1>2. /\ \A x \in 1..n : r[x] \in Elements(base) \cup Elements(over)
        /\ \A c \in 1..N : r[n + c] \in Elements(over)
        /\ \A x \in DOMAIN r : x \in 1..n \/ (x - n \in 1..N /\ x = n + (x - n))
    <2>1. Entries(base, over, name, r, n, N, pos)
      BY <1>1, LaidEntries
    <2> QED
      BY <2>1 DEF Entries
  <1>3. \A x \in DOMAIN r : r[x] \in Elements(base) \cup Elements(over)
    BY <1>2
  <1>4. IsSeq(r)
    BY <1>1 DEF Laid
  <1>5. Elements(r) \subseteq Elements(base) \cup Elements(over)
    BY <1>3 DEF Elements
  <1> QED
    BY <1>4, <1>5 DEF r

-----------------------------------------------------------------------------
(***************************************************************************)
(* Blocks that say nothing twice.                                          *)
(***************************************************************************)
OnceKeys(p) == \A i, j \in DOMAIN p : p[i].key = p[j].key => i = j

\* Merge: a key goes by itself.
LEMMA MergeNames ==
    ASSUME NEW list, NEW props
    PROVE  \E name : /\ Merge(list, props) = Lay(list, props, name)
                     /\ \A p, q \in Elements(list) \cup Elements(props) : Same(name, p, q) <=> p.key = q.key
  <1> DEFINE name == [k \in Keys(list) \cup Keys(props) |-> k]
  <1>1. \A p \in Elements(list) \cup Elements(props) : p.key \in Keys(list) \cup Keys(props)
    BY DEF Elements, Keys
  <1>2. \A p \in Elements(list) \cup Elements(props) : name[p.key] = p.key
    BY <1>1
  <1>3. Merge(list, props) = Lay(list, props, name)
    BY DEF Merge
  <1> HIDE DEF name
  <1> QED
    BY <1>2, <1>3 DEF Same

\* overlayExtras: a key goes by its canonical form.
LEMMA OverlayNames ==
    ASSUME NEW base, NEW over
    PROVE  \E name : /\ OverlayExtras(base, over) = Lay(base, over, name)
                     /\ \A p, q \in Elements(base) \cup Elements(over) :
                           Same(name, p, q) <=> Canonical(p.key) = Canonical(q.key)
  <1> DEFINE name == [k \in Keys(base) \cup Keys(over) |-> Canonical(k)]
  <1>1. \A p \in Elements(base) \cup Elements(over) : p.key \in Keys(base) \cup Keys(over)
    BY DEF Elements, Keys
  <1>2. \A p \in Elements(base) \cup Elements(over) : name[p.key] = Canonical(p.key)
    BY <1>1
  <1>3. OverlayExtras(base, over) = Lay(base, over, name)
    BY DEF OverlayExtras
  <1> HIDE DEF name
  <1> QED
    BY <1>2, <1>3 DEF Same

\* mergeProp: a list that says nothing twice still does.
LEMMA MergeOnce ==
    ASSUME NEW list, NEW props, IsSeq(list), IsSeq(props), OnceKeys(list)
    PROVE  IsSeq(Merge(list, props)) /\ OnceKeys(Merge(list, props))
  <1>1. PICK name : /\ Merge(list, props) = Lay(list, props, name)
                    /\ \A p, q \in Elements(list) \cup Elements(props) : Same(name, p, q) <=> p.key = q.key
    BY MergeNames
  <1>2. PICK r : r = Lay(list, props, name)
    OBVIOUS
  <1>3. Apart(name, list)
    BY <1>1 DEF Apart, OnceKeys, Elements
  <1>4. Apart(name, r) /\ IsSeq(r) /\ Elements(r) \subseteq Elements(list) \cup Elements(props)
    BY <1>2, <1>3, LayApart, LayFrom
  <1>5. OnceKeys(r)
    BY <1>1, <1>4 DEF Apart, OnceKeys, Elements
  <1> QED
    BY <1>1, <1>2, <1>4, <1>5

\* overlayExtras: the same, in every spelling.
LEMMA OverlayOnce ==
    ASSUME NEW base, NEW over, IsSeq(base), IsSeq(over)
    PROVE  /\ IsSeq(OverlayExtras(base, over))
           /\ Elements(OverlayExtras(base, over)) \subseteq Elements(base) \cup Elements(over)
           /\ Once(base) => Once(OverlayExtras(base, over))
  <1>1. PICK name : /\ OverlayExtras(base, over) = Lay(base, over, name)
                    /\ \A p, q \in Elements(base) \cup Elements(over) :
                          Same(name, p, q) <=> Canonical(p.key) = Canonical(q.key)
    BY OverlayNames
  <1>2. PICK r : r = Lay(base, over, name)
    OBVIOUS
  <1>3. IsSeq(r) /\ Elements(r) \subseteq Elements(base) \cup Elements(over)
    BY <1>2, LayFrom
  <1>4. ASSUME Once(base) PROVE Once(r)
    <2>1. Apart(name, base)
      BY <1>1, <1>4 DEF Apart, Once, Elements
    <2>2. Apart(name, r)
      BY <1>2, <2>1, LayApart
    <2> QED
      BY <1>1, <1>3, <2>2 DEF Apart, Once, Elements
  <1> QED
    BY <1>1, <1>2, <1>3, <1>4

\* Two blocks that share no key and say nothing twice say nothing twice together.
LEMMA OnceTogether ==
    ASSUME NEW s, NEW t, IsSeq(s), IsSeq(t), OnceKeys(s), OnceKeys(t), Keys(s) \cap Keys(t) = {}
    PROVE  IsSeq(s \o t) /\ Keys(s \o t) = Keys(s) \cup Keys(t) /\ OnceKeys(s \o t)
  <1>1. PICK n, N, r : n = Len(s) /\ N = Len(t) /\ r = s \o t
    OBVIOUS
  <1>2. n \in Nat /\ N \in Nat /\ DOMAIN s = 1..n /\ DOMAIN t = 1..N /\ Len(r) = n + N
    BY <1>1, TogetherIs
  <1>3. \A i \in 1..n : r[i] = s[i]
    BY <1>1, TogetherIs
  <1>4. \A i \in 1..N : r[n + i] = t[i]
    BY <1>1, TogetherIs
  <1>5. IsSeq(r)
    BY <1>1, Together
  <1>6. DOMAIN r = 1..(n + N)
    BY <1>2, <1>5 DEF IsSeq
  <1>7. \A x \in DOMAIN r : x \in 1..n \/ (x - n \in 1..N /\ x = n + (x - n))
    BY <1>2, <1>6
  <1>8. (\A x \in 1..n : x \in DOMAIN r) /\ \A x \in 1..N : n + x \in DOMAIN r
    BY <1>2, <1>6
  <1>9. \A x \in DOMAIN r : \/ x \in DOMAIN s /\ r[x] = s[x]
                            \/ \E c \in DOMAIN t : x = n + c /\ r[x] = t[c]
    BY <1>2, <1>3, <1>4, <1>7
  <1>10. Keys(r) = Keys(s) \cup Keys(t)
    <2>1. \A x \in DOMAIN r : r[x].key \in Keys(s) \cup Keys(t)
      BY <1>9 DEF Keys
    <2>2. \A x \in DOMAIN s : s[x].key \in Keys(r)
      BY <1>2, <1>3, <1>8 DEF Keys
    <2>3. \A x \in DOMAIN t : t[x].key \in Keys(r)
      BY <1>2, <1>4, <1>8 DEF Keys
    <2> QED
      BY <2>1, <2>2, <2>3 DEF Keys
  <1>11. \A x \in DOMAIN s, c \in DOMAIN t : s[x].key # t[c].key
    BY DEF Keys
  <1>12. OnceKeys(r)
    <2> SUFFICES ASSUME NEW x \in DOMAIN r, NEW y \in DOMAIN r, r[x].key = r[y].key PROVE x = y
      BY DEF OnceKeys
    <2> QED
      BY <1>9, <1>11 DEF OnceKeys
  <1> QED
    BY <1>1, <1>5, <1>10, <1>12

\* What is kept of a block that says nothing twice says nothing twice.
LEMMA OnlyOnce ==
    ASSUME NEW s, IsSeq(s), NEW P \in SUBSET DOMAIN s
    PROVE  /\ IsSeq(Only(s, P))
           /\ \A x \in DOMAIN Only(s, P) : \E i \in P : Only(s, P)[x] = s[i]
           /\ \A i \in P : \E x \in DOMAIN Only(s, P) : Only(s, P)[x] = s[i]
           /\ OnceKeys(s) => OnceKeys(Only(s, P))
           /\ Once(s) => Once(Only(s, P))
  <1>1. PICK n \in Nat : DOMAIN s = 1..n
    BY DEF IsSeq
  <1>2. PICK r : r = Only(s, P)
    OBVIOUS
  <1>3. PICK pos : Places(s, P, r, pos)
    BY <1>1, <1>2, OnlyElements
  <1>4. /\ IsSeq(r)
        /\ \A c \in DOMAIN r : pos[c] \in P /\ pos[c] \in DOMAIN s /\ r[c] = s[pos[c]]
        /\ \A i \in P : \E c \in DOMAIN r : pos[c] = i
        /\ \A c, d \in DOMAIN r : pos[c] = pos[d] => c = d
    BY <1>3 DEF Places
  <1>5. OnceKeys(s) => OnceKeys(r)
    BY <1>4 DEF OnceKeys
  <1>6. Once(s) => Once(r)
    BY <1>4 DEF Once
  <1> QED
    BY <1>2, <1>4, <1>5, <1>6

\* appendPassthrough: the tool's keys, and what it does not say itself.
LEMMA PassedOn ==
    ASSUME NEW tool, NEW pass, IsSeq(tool), IsSeq(pass), OnceKeys(tool), OnceKeys(pass)
    PROVE  IsSeq(AppendPassthrough(tool, pass)) /\ OnceKeys(AppendPassthrough(tool, pass))
  <1> DEFINE P == {i \in DOMAIN pass : pass[i].key \notin Keys(tool)}
             q == Only(pass, P)
  <1>1. P \in SUBSET DOMAIN pass /\ \A i \in P : pass[i].key \notin Keys(tool)
    OBVIOUS
  <1>2. AppendPassthrough(tool, pass) = tool \o q
    BY DEF AppendPassthrough
  <1> HIDE DEF P
  <1>3. IsSeq(q) /\ OnceKeys(q) /\ \A x \in DOMAIN q : \E i \in P : q[x] = pass[i]
    BY <1>1, OnlyOnce
  <1> HIDE DEF q
  <1>4. Keys(tool) \cap Keys(q) = {}
    BY <1>1, <1>3 DEF Keys
  <1> QED
    BY <1>2, <1>3, <1>4, OnceTogether

\* dropManaged: what is left is of the block, and none of it is the tool's.
LEMMA DroppedIs ==
    ASSUME NEW props, IsSeq(props), NEW system
    PROVE  /\ IsSeq(DropManaged(props, system))
           /\ \A p \in Elements(DropManaged(props, system)) : Canonical(p.key) \notin ToolManagedKeys(system)
           /\ Once(props) => Once(DropManaged(props, system))
  <1> DEFINE P == {i \in DOMAIN props : Canonical(props[i].key) \notin ToolManagedKeys(system)}
             r == Only(props, P)
  <1>1. DropManaged(props, system) = r
    BY DEF DropManaged
  <1>2. P \in SUBSET DOMAIN props /\ \A i \in P : Canonical(props[i].key) \notin ToolManagedKeys(system)
    OBVIOUS
  <1> HIDE DEF P
  <1>3. IsSeq(r) /\ (\A x \in DOMAIN r : \E i \in P : r[x] = props[i]) /\ (Once(props) => Once(r))
    BY <1>2, OnlyOnce
  <1> HIDE DEF r
  <1> QED
    BY <1>1, <1>2, <1>3 DEF Elements

\* A block of which nothing is dropped has nothing of the tool's, and the converse.
LEMMA NothingDropped ==
    ASSUME NEW props, IsSeq(props), NEW system
    PROVE  DropManaged(props, system) = props
             <=> \A p \in Elements(props) : Canonical(p.key) \notin ToolManagedKeys(system)
  <1> DEFINE P == {i \in DOMAIN props : Canonical(props[i].key) \notin ToolManagedKeys(system)}
  <1>1. DropManaged(props, system) = Only(props, P)
    BY DEF DropManaged
  <1>2. ASSUME DropManaged(props, system) = props
        PROVE  \A p \in Elements(props) : Canonical(p.key) \notin ToolManagedKeys(system)
    <2>1. P \in SUBSET DOMAIN props
      OBVIOUS
    <2>2. P = DOMAIN props
      <3> HIDE DEF P
      <3> QED
        BY <1>1, <1>2, <2>1, OnlyIsAll
    <2> QED
      BY <2>2 DEF Elements
  <1>3. ASSUME \A p \in Elements(props) : Canonical(p.key) \notin ToolManagedKeys(system)
        PROVE  DropManaged(props, system) = props
    <2>1. P = DOMAIN props
      BY <1>3 DEF Elements
    <2> QED
      BY <1>1, <2>1, OnlyAll
  <1> QED
    BY <1>2, <1>3

\* A list of three properties, of one, and none.
LEMMA ThreeKeys ==
    ASSUME NEW p, NEW q, NEW r, p.key # q.key, p.key # r.key, q.key # r.key
    PROVE  IsSeq(<<p, q, r>>) /\ OnceKeys(<<p, q, r>>) /\ Keys(<<p, q, r>>) = {p.key, q.key, r.key}
  <1> DEFINE t == <<p, q, r>>
  <1>1. t \in Seq({p, q, r}) /\ DOMAIN t = 1..3 /\ t[1] = p /\ t[2] = q /\ t[3] = r
    OBVIOUS
  <1>2. \A i \in 1..3 : i = 1 \/ i = 2 \/ i = 3
    OBVIOUS
  <1>3. 1 \in 1..3 /\ 2 \in 1..3 /\ 3 \in 1..3
    OBVIOUS
  <1> HIDE DEF t
  <1>4. IsSeq(t)
    BY <1>1, OwnElements
  <1>5. OnceKeys(t) /\ Keys(t) = {p.key, q.key, r.key}
    BY <1>1, <1>2, <1>3 DEF OnceKeys, Keys
  <1> QED
    BY <1>4, <1>5 DEF t

\* A list of one.
LEMMA OneKey ==
    ASSUME NEW p
    PROVE  IsSeq(<<p>>) /\ OnceKeys(<<p>>) /\ Keys(<<p>>) = {p.key}
  <1> DEFINE t == <<p>>
  <1>1. t \in Seq({p}) /\ DOMAIN t = {1} /\ t[1] = p
    OBVIOUS
  <1> HIDE DEF t
  <1>2. IsSeq(t)
    BY <1>1, OwnElements
  <1>3. OnceKeys(t) /\ Keys(t) = {p.key}
    BY <1>1 DEF OnceKeys, Keys
  <1> QED
    BY <1>2, <1>3 DEF t

\* And none.
LEMMA NoKey == IsSeq(<<>>) /\ OnceKeys(<<>>) /\ Keys(<<>>) = {}
  BY EmptyIsSeq DEF OnceKeys, Keys

\* tls.SolaceProps says nothing twice, and nothing of certificate validation.
LEMMA SolacePropsOnce ==
    ASSUME NEW in, NEW s
    PROVE  IsSeq(SolaceProps(in, s)) /\ OnceKeys(SolaceProps(in, s)) /\ ValidateKey \notin Keys(SolaceProps(in, s))
  <1> DEFINE Prop(k, v) == [key |-> k, val |-> v]
             trusts == Configured(Store(in, s.trust))
             keys   == Configured(Store(in, s.key))
             t1 == Prop("SSL_TRUST_STORE", "mount")
             t2 == Prop("SSL_TRUST_STORE_PASSWORD", "ref")
             t3 == Prop("SSL_TRUST_STORE_FORMAT", "PKCS12")
             k1 == Prop("SSL_KEY_STORE", "mount")
             k2 == Prop("SSL_KEY_STORE_PASSWORD", "ref")
             k3 == Prop("SSL_KEY_STORE_FORMAT", "PKCS12")
             a1 == Prop("SSL_PRIVATE_KEY_ALIAS", s.alias)
             T == IF trusts THEN <<t1, t2, t3>> ELSE <<>>
             K == IF keys THEN <<k1, k2, k3>> ELSE <<>>
             A == IF keys /\ s.alias # "" THEN <<a1>> ELSE <<>>
  <1>1. SolaceProps(in, s) = T \o K \o A
    BY DEF SolaceProps
  <1>2. /\ t1.key = "SSL_TRUST_STORE" /\ t2.key = "SSL_TRUST_STORE_PASSWORD" /\ t3.key = "SSL_TRUST_STORE_FORMAT"
        /\ k1.key = "SSL_KEY_STORE" /\ k2.key = "SSL_KEY_STORE_PASSWORD" /\ k3.key = "SSL_KEY_STORE_FORMAT"
        /\ a1.key = "SSL_PRIVATE_KEY_ALIAS"
    OBVIOUS
  <1> HIDE DEF trusts, keys, t1, t2, t3, k1, k2, k3, a1
  <1>3. /\ IsSeq(<<t1, t2, t3>>) /\ OnceKeys(<<t1, t2, t3>>)
        /\ Keys(<<t1, t2, t3>>) = {"SSL_TRUST_STORE", "SSL_TRUST_STORE_PASSWORD", "SSL_TRUST_STORE_FORMAT"}
    BY <1>2, ThreeKeys
  <1>4. /\ IsSeq(<<k1, k2, k3>>) /\ OnceKeys(<<k1, k2, k3>>)
        /\ Keys(<<k1, k2, k3>>) = {"SSL_KEY_STORE", "SSL_KEY_STORE_PASSWORD", "SSL_KEY_STORE_FORMAT"}
    BY <1>2, ThreeKeys
  <1>5. IsSeq(<<a1>>) /\ OnceKeys(<<a1>>) /\ Keys(<<a1>>) = {"SSL_PRIVATE_KEY_ALIAS"}
    BY <1>2, OneKey
  <1>6. /\ IsSeq(T) /\ OnceKeys(T)
        /\ Keys(T) \subseteq {"SSL_TRUST_STORE", "SSL_TRUST_STORE_PASSWORD", "SSL_TRUST_STORE_FORMAT"}
    BY <1>3, NoKey
  <1>7. /\ IsSeq(K) /\ OnceKeys(K)
        /\ Keys(K) \subseteq {"SSL_KEY_STORE", "SSL_KEY_STORE_PASSWORD", "SSL_KEY_STORE_FORMAT"}
    BY <1>4, NoKey
  <1>8. IsSeq(A) /\ OnceKeys(A) /\ Keys(A) \subseteq {"SSL_PRIVATE_KEY_ALIAS"}
    BY <1>5, NoKey
  <1> HIDE DEF T, K, A
  <1> DEFINE B == T \o K
  <1>9. Keys(T) \cap Keys(K) = {}
    BY <1>6, <1>7
  <1>10. IsSeq(B) /\ OnceKeys(B) /\ Keys(B) = Keys(T) \cup Keys(K)
    BY <1>6, <1>7, <1>9, OnceTogether
  <1> HIDE DEF B
  <1>11. Keys(B) \cap Keys(A) = {}
    BY <1>6, <1>7, <1>8, <1>10
  <1>12. IsSeq(B \o A) /\ OnceKeys(B \o A) /\ Keys(B \o A) = Keys(B) \cup Keys(A)
    BY <1>8, <1>10, <1>11, OnceTogether
  <1>13. ValidateKey \notin Keys(B \o A)
    BY <1>6, <1>7, <1>8, <1>10, <1>12 DEF ValidateKey
  <1> QED
    BY <1>1, <1>12, <1>13 DEF B

-----------------------------------------------------------------------------
(***************************************************************************)
(* What a block says of certificate validation.                            *)
(***************************************************************************)
\* What a block says about certificate validation, when it says one thing.
SaysIs(p, V) ==
    /\ \A i \in DOMAIN p : p[i].key = ValidateKey => V = {p[i].val}
    /\ V # {} => \E i \in DOMAIN p : p[i].key = ValidateKey

\* mergeProp: the block that says something has the last word.
LEMMA MergeSays ==
    ASSUME NEW list, NEW props, IsSeq(list), IsSeq(props), OnceKeys(list),
           NEW V, NEW U, SaysIs(list, V), SaysIs(props, U)
    PROVE  SaysIs(Merge(list, props), IF U # {} THEN U ELSE V)
  <1>1. PICK name : /\ Merge(list, props) = Lay(list, props, name)
                    /\ \A p, q \in Elements(list) \cup Elements(props) : Same(name, p, q) <=> p.key = q.key
    BY MergeNames
  <1>2. PICK r : r = Lay(list, props, name)
    OBVIOUS
  <1>3a. PICK n \in Nat, N \in Nat : \E pos : Laid(list, props, name, r, n, N, pos)
    BY <1>2, LayIs
  <1>3. PICK pos : Laid(list, props, name, r, n, N, pos)
    BY <1>3a
  <1>4. Entries(list, props, name, r, n, N, pos)
    BY <1>3, LaidEntries
  <1>5. DOMAIN list = 1..n /\ DOMAIN r = 1..(n + N)
    BY <1>3 DEF Laid
  <1>6. \A i \in DOMAIN list : list[i] \in Elements(list)
    BY DEF Elements
  <1>7. \A i \in DOMAIN props : props[i] \in Elements(props)
    BY DEF Elements
  <1>8. \A x \in 1..n : r[x].key = list[x].key
    BY <1>1, <1>4, <1>5, <1>6 DEF Entries
  <1>9. ASSUME NEW c \in 1..N
        PROVE  /\ r[n + c] \in Elements(props) /\ r[n + c].key = props[pos[c]].key
               /\ pos[c] \in Added(list, props, name)
    <2>1. pos[c] \in Added(list, props, name)
      BY <1>3 DEF Laid
    <2>2. pos[c] \in DOMAIN props
      BY <2>1 DEF Added
    <2>3. r[n + c] \in Elements(props) /\ Same(name, r[n + c], props[pos[c]])
      BY <1>4 DEF Entries
    <2> QED
      BY <1>1, <1>7, <2>1, <2>2, <2>3
  <1>10. \A p \in Elements(props) : p.key = ValidateKey => U = {p.val}
    BY DEF SaysIs, Elements
  <1>11. \A x \in DOMAIN r : x \in 1..n \/ \E c \in 1..N : x = n + c
    BY <1>4 DEF Entries
  <1>12. CASE U = {}
    <2>1. \A p \in Elements(props) : p.key # ValidateKey
      BY <1>10, <1>12
    <2>2. ASSUME NEW x \in DOMAIN r, r[x].key = ValidateKey PROVE V = {r[x].val}
      <3>1. x \in 1..n
        BY <1>9, <1>11, <2>1, <2>2
      <3>2. list[x].key = ValidateKey
        BY <1>8, <2>2, <3>1
      <3>3. ~InBlock(name, list[x], props)
        <4> SUFFICES ASSUME NEW j \in DOMAIN props, Same(name, props[j], list[x]) PROVE FALSE
          BY DEF InBlock
        <4> QED
          BY <1>1, <1>5, <1>6, <1>7, <2>1, <3>1, <3>2
      <3>4. r[x] = list[x]
        BY <1>3, <3>1, <3>3 DEF Laid
      <3> QED
        BY <1>5, <3>1, <3>2, <3>4 DEF SaysIs
    <2>3. V # {} => \E x \in DOMAIN r : r[x].key = ValidateKey
      <3>1. \A x \in 1..n : x \in DOMAIN r
        BY <1>5
      <3> QED
        BY <1>5, <1>8, <3>1 DEF SaysIs
    <2>4. SaysIs(r, V)
      BY <2>2, <2>3 DEF SaysIs
    <2> QED
      BY <1>1, <1>2, <1>12, <2>4
  <1>13. CASE U # {}
    <2>1. PICK j \in DOMAIN props : props[j].key = ValidateKey
      BY <1>13 DEF SaysIs
    <2>2. ASSUME NEW x \in DOMAIN r, r[x].key = ValidateKey PROVE U = {r[x].val}
      <3>1. CASE x \in 1..n
        <4>1. list[x].key = ValidateKey /\ x \in DOMAIN list
          BY <1>5, <1>8, <2>2, <3>1
        <4>2. InBlock(name, list[x], props)
          BY <1>1, <1>6, <1>7, <2>1, <4>1 DEF InBlock
        <4>3. FirstIn(name, x, list)
          <5> SUFFICES ASSUME NEW k \in 1..(x - 1), Same(name, list[k], list[x]) PROVE FALSE
            BY DEF FirstIn
          <5>1. k \in DOMAIN list /\ k # x
            BY <1>5, <3>1
          <5>2. list[k].key = list[x].key
            BY <1>1, <1>6, <4>1, <5>1
          <5> QED
            BY <4>1, <5>1, <5>2 DEF OnceKeys
        <4>4. r[x] = Latest(name, list[x], props)
          BY <1>3, <3>1, <4>2, <4>3 DEF Laid
        <4>5. r[x] \in Elements(props)
          BY <4>2, <4>4, <1>7, LatestIs
        <4> QED
          BY <1>10, <2>2, <4>5
      <3>2. CASE \E c \in 1..N : x = n + c
        BY <1>9, <1>10, <2>2, <3>2
      <3> QED
        BY <1>11, <3>1, <3>2
    <2>3. \E x \in DOMAIN r : r[x].key = ValidateKey
      <3>1. CASE \E x \in DOMAIN list : list[x].key = ValidateKey
        <4>1. \A x \in 1..n : x \in DOMAIN r
          BY <1>5
        <4> QED
          BY <1>5, <1>8, <3>1, <4>1
      <3>2. CASE ~\E x \in DOMAIN list : list[x].key = ValidateKey
        <4> DEFINE spots == {i \in DOMAIN props : props[i].key = ValidateKey}
        <4>1. spots \in SUBSET Nat /\ spots # {}
          BY <2>1 DEF IsSeq
        <4>2. PICK i \in spots : \A k \in spots : i <= k
          <5> HIDE DEF spots
          <5> QED
            BY <4>1, LeastOf
        <4>3. ~InBlock(name, props[i], list)
          BY <1>1, <1>6, <1>7, <3>2, <4>2 DEF InBlock
        <4>4. FirstIn(name, i, props)
          <5> SUFFICES ASSUME NEW k \in 1..(i - 1), Same(name, props[k], props[i]) PROVE FALSE
            BY DEF FirstIn
          <5>1. i \in DOMAIN props /\ k \in DOMAIN props /\ k \in Int /\ i \in Int /\ ~(i <= k)
            BY <4>2 DEF IsSeq
          <5>2. props[k].key = ValidateKey
            BY <1>1, <1>7, <4>2, <5>1
          <5> QED
            BY <4>2, <5>1, <5>2
        <4>5. i \in Added(list, props, name)
          BY <4>2, <4>3, <4>4 DEF Added
        <4>6. PICK c \in 1..N : pos[c] = i
          BY <1>3, <4>5 DEF Laid
        <4>7. r[n + c].key = ValidateKey
          BY <1>9, <4>2, <4>6
        <4>8. n + c \in DOMAIN r
          BY <1>5
        <4> QED
          BY <4>7, <4>8
      <3> QED
        BY <3>1, <3>2
    <2>4. SaysIs(r, U)
      BY <2>2, <2>3 DEF SaysIs
    <2> QED
      BY <1>1, <1>2, <1>13, <2>4
  <1> QED
    BY <1>12, <1>13

\* What the tool has nothing to say of is said as the block says it.
LEMMA PassedSays ==
    ASSUME NEW tool, NEW pass, IsSeq(tool), IsSeq(pass), ValidateKey \notin Keys(tool), NEW V, SaysIs(pass, V)
    PROVE  IsSeq(AppendPassthrough(tool, pass)) /\ SaysIs(AppendPassthrough(tool, pass), V)
  <1> DEFINE P == {i \in DOMAIN pass : pass[i].key \notin Keys(tool)}
             q == Only(pass, P)
  <1>1. P \in SUBSET DOMAIN pass /\ \A i \in DOMAIN pass : pass[i].key = ValidateKey => i \in P
    OBVIOUS
  <1>2. AppendPassthrough(tool, pass) = tool \o q
    BY DEF AppendPassthrough
  <1> HIDE DEF P
  <1>3. /\ IsSeq(q)
        /\ \A x \in DOMAIN q : \E i \in P : q[x] = pass[i]
        /\ \A i \in P : \E x \in DOMAIN q : q[x] = pass[i]
    BY <1>1, OnlyOnce
  <1> HIDE DEF q
  <1>4. PICK n, N, r : n = Len(tool) /\ N = Len(q) /\ r = tool \o q
    OBVIOUS
  <1>5. n \in Nat /\ N \in Nat /\ DOMAIN tool = 1..n /\ DOMAIN q = 1..N /\ Len(r) = n + N
    BY <1>3, <1>4, TogetherIs
  <1>6. \A i \in 1..n : r[i] = tool[i]
    BY <1>3, <1>4, TogetherIs
  <1>7. \A i \in 1..N : r[n + i] = q[i]
    BY <1>3, <1>4, TogetherIs
  <1>8. IsSeq(r)
    BY <1>3, <1>4, Together
  <1>9. DOMAIN r = 1..(n + N)
    BY <1>5, <1>8 DEF IsSeq
  <1>10. \A x \in DOMAIN r : x \in 1..n \/ (x - n \in 1..N /\ x = n + (x - n))
    BY <1>5, <1>9
  <1>11. \A x \in 1..N : n + x \in DOMAIN r
    BY <1>5, <1>9
  <1>12. \A x \in 1..n : r[x].key # ValidateKey
    BY <1>5, <1>6 DEF Keys
  <1>13. ASSUME NEW x \in DOMAIN r, r[x].key = ValidateKey PROVE V = {r[x].val}
    <2>1. PICK c \in DOMAIN q : r[x] = q[c]
      BY <1>5, <1>7, <1>10, <1>12, <1>13
    <2> QED
      BY <1>1, <1>3, <1>13, <2>1 DEF SaysIs
  <1>14. V # {} => \E x \in DOMAIN r : r[x].key = ValidateKey
    <2>1. V # {} => \E i \in P : pass[i].key = ValidateKey
      BY <1>1 DEF SaysIs
    <2>2. V # {} => \E c \in DOMAIN q : q[c].key = ValidateKey
      BY <1>3, <2>1
    <2> QED
      BY <1>5, <1>7, <1>11, <2>2
  <1>15. SaysIs(r, V)
    BY <1>13, <1>14 DEF SaysIs
  <1> QED
    BY <1>2, <1>4, <1>8, <1>15

\* What validate reads, of a block that says one thing.
LEMMA StatedIs ==
    ASSUME NEW b, IsSeq(b.api), NEW V, SaysIs(b.api, V)
    PROVE  Stated(b) = V
  <1>1. SaysAt(b) \in SUBSET Nat /\ SaysAt(b) \subseteq DOMAIN b.api
    BY DEF SaysAt, IsSeq
  <1>2. \A i \in SaysAt(b) : V = {b.api[i].val}
    BY DEF SaysAt, SaysIs
  <1>3. CASE SaysAt(b) = {}
    <2>1. V = {}
      BY <1>3 DEF SaysIs, SaysAt
    <2> QED
      BY <1>3, <2>1 DEF Stated
  <1>4. CASE SaysAt(b) # {}
    <2>1. PICK i \in SaysAt(b) : \A k \in SaysAt(b) : i <= k
      BY <1>1, <1>4, LeastOf
    <2> DEFINE F == {j \in SaysAt(b) : \A k \in SaysAt(b) : j <= k}
    <2>2. i \in F /\ \A j \in F : j \in SaysAt(b)
      BY <2>1
    <2>3. Stated(b) = {b.api[j].val : j \in F}
      BY DEF Stated
    <2> HIDE DEF F
    <2>4. \A j \in F : V = {b.api[j].val}
      BY <1>2, <2>2
    <2> QED
      BY <2>2, <2>3, <2>4
  <1> QED
    BY <1>3, <1>4

\* A block that states it at most once says what validate reads.
LEMMA StatesOnce ==
    ASSUME NEW s, IsSeq(s.api), \A i, j \in SaysAt(s) : i = j
    PROVE  SaysIs(s.api, Stated(s))
  <1>1. \A i \in SaysAt(s) : i \in Nat
    BY DEF SaysAt, IsSeq
  <1>2. \A i \in SaysAt(s) : {j \in SaysAt(s) : \A k \in SaysAt(s) : j <= k} = {i}
    <2> SUFFICES ASSUME NEW i \in SaysAt(s) PROVE {j \in SaysAt(s) : \A k \in SaysAt(s) : j <= k} = {i}
      OBVIOUS
    <2>1. SaysAt(s) = {i}
      OBVIOUS
    <2>2. i <= i
      BY <1>1
    <2> QED
      BY <2>1, <2>2
  <1>3. \A i \in SaysAt(s) : Stated(s) = {s.api[i].val}
    BY <1>2 DEF Stated
  <1>4. SaysAt(s) = {} => Stated(s) = {}
    BY DEF Stated
  <1>5. \A i \in DOMAIN s.api : s.api[i].key = ValidateKey <=> i \in SaysAt(s)
    BY DEF SaysAt
  <1>6. SaysAt(s) \subseteq DOMAIN s.api
    BY DEF SaysAt
  <1> QED
    BY <1>3, <1>4, <1>5, <1>6 DEF SaysIs

-----------------------------------------------------------------------------
(***************************************************************************)
(* Every placeholder has its own credential.                               *)
(***************************************************************************)
\* What a credential's position claims is a sequence: empty, or its placeholder.
LEMMA PositionIsSeq ==
    ASSUME NEW from, NEW stable, NEW c
    PROVE  IsSeq(Position(from, stable, c))
  <1> DEFINE r == [name |-> Mount(stable, c), cred |-> c, from |-> from]
  <1>1. <<>> \in Seq({r}) /\ <<r>> \in Seq({r})
    OBVIOUS
  <1>2. IsSeq(<<>>) /\ IsSeq(<<r>>)
    BY <1>1, OwnElements
  <1> QED
    BY <1>2 DEF Position

\* The stores of a connection claim a sequence too.
LEMMA StorePositionsIsSeq ==
    ASSUME NEW s
    PROVE  IsSeq(StorePositions(s))
  <1> DEFINE Of(n) == IF UsesTLS(s) /\ Configured(Store(input, n))
                      THEN Position(<<"store", n>>, StorePasswordName(n), Store(input, n).pass) ELSE <<>>
  <1>1. IsSeq(<<>>)
    BY EmptyIsSeq
  <1>2. IsSeq(Of(s.trust)) /\ IsSeq(Of(s.key))
    BY <1>1, PositionIsSeq
  <1>3. IsSeq(Of(s.trust) \o Of(s.key))
    BY <1>2, Together
  <1> QED
    BY <1>3 DEF StorePositions

-----------------------------------------------------------------------------
\* The invariant: a placeholder waits to be recorded, or its name is mounted, with
\* its own credential unless a conflict is on record; only the phases that write
\* placeholders have any waiting, and what is built has neither.
Recorded(r) == r.name \in DOMAIN secrets /\ (secrets[r.name].cred = r.cred \/ conflicts # {})

Inv ==
    /\ IsSeq(claims)
    /\ \A r \in refs : r \in Elements(claims) \/ Recorded(r)
    /\ phase \notin {"wire", "users"} => claims = <<>>
    /\ phase = "built" => conflicts = {}

\* Nothing is written before the files are read.
LEMMA InitInv == Init => Inv
  <1> SUFFICES ASSUME Init PROVE Inv
    OBVIOUS
  <1>1. claims = <<>> /\ refs = {} /\ phase = "check"
    BY DEF Init
  <1>2. IsSeq(<<>>)
    BY EmptyIsSeq
  <1> QED
    BY <1>1, <1>2 DEF Inv

\* What a step writes is waiting, and nothing recorded is lost by it.
LEMMA WriteKeeps ==
    ASSUME Inv, claims = <<>>, NEW positions, IsSeq(positions), Write(positions),
           UNCHANGED <<secrets, conflicts>>
    PROVE  IsSeq(claims') /\ \A r \in refs' : r \in Elements(claims') \/ Recorded(r)'
  <1>1. claims' = positions /\ refs' = refs \cup Elements(positions)
    BY DEF Write, Elements
  <1>2. \A r \in refs : Recorded(r)
    BY DEF Inv, Elements
  <1> QED
    BY <1>1, <1>2 DEF Recorded

\* secretRef, one position: it is recorded under its name, or found to compete for it.
LEMMA ClaimKeeps ==
    ASSUME Inv, Claim
    PROVE  Inv'
  <1> DEFINE c == Head(claims)
  <1>1. claims # <<>> /\ claims \in Seq(Elements(claims)) /\ claims' = Tail(claims) /\ refs' = refs /\ phase' = phase
    BY DEF Inv, Claim, IsSeq
  <1>2. claims' \in Seq(Elements(claims))
    BY <1>1
  <1>3. IsSeq(claims')
    BY <1>2, OwnElements
  <1>4. \A r \in Elements(claims) : r = c \/ r \in Elements(claims')
    <2> SUFFICES ASSUME NEW i \in DOMAIN claims, i # 1
                 PROVE  claims[i] \in Elements(claims')
      BY <1>1, SMTT(20) DEF Elements
    <2>1. i - 1 \in DOMAIN Tail(claims) /\ Tail(claims)[i - 1] = claims[i]
      BY <1>1
    <2> QED
      BY <2>1, <1>1 DEF Elements
  <1>5. /\ DOMAIN secrets' = DOMAIN secrets \cup {c.name}
        /\ \A n \in DOMAIN secrets : secrets'[n] = secrets[n]
        /\ conflicts # {} => conflicts' # {}
        /\ secrets'[c.name].cred = c.cred \/ conflicts' # {}
    <2>1. CASE c.name \notin DOMAIN secrets
      BY <2>1 DEF Claim
    <2>2. CASE c.name \in DOMAIN secrets
      <3>1. UNCHANGED secrets
        BY <2>2 DEF Claim
      <3>2. conflicts' = IF secrets[c.name].cred # c.cred /\ \A d \in conflicts : d[1].name # c.name
                         THEN conflicts \cup {<<secrets[c.name], c>>} ELSE conflicts
        BY <2>2 DEF Claim
      <3>3. conflicts' = {} => secrets[c.name].cred = c.cred /\ conflicts = {}
        <4>1. conflicts' = {} => conflicts = {}
          BY <3>2
        <4>2. conflicts = {} => \A d \in conflicts : d[1].name # c.name
          OBVIOUS
        <4> QED
          BY <3>2, <4>1, <4>2
      <3> QED
        BY <2>2, <3>1, <3>3
    <2> QED
      BY <2>1, <2>2
  <1>6. ASSUME NEW r \in refs' PROVE r \in Elements(claims') \/ Recorded(r)'
    <2>1. CASE r = c
      BY <1>5, <2>1 DEF Recorded
    <2>2. CASE Recorded(r)
      BY <1>5, <2>2 DEF Recorded
    <2> QED
      BY <1>1, <1>4, <2>1, <2>2 DEF Inv
  <1>7. phase \in {"wire", "users"}
    BY <1>1 DEF Inv
  <1> HIDE DEF c
  <1> QED
    BY <1>1, <1>3, <1>6, <1>7 DEF Inv

\* Every other step writes the placeholders of one position, or none.
LEMMA NextInv == Inv /\ [Next]_vars => Inv'
  <1> SUFFICES ASSUME Inv, [Next]_vars PROVE Inv'
    OBVIOUS
  <1>1. CASE UNCHANGED vars
    BY <1>1 DEF Inv, Recorded, vars
  <1>2. CASE Validate
    BY <1>2 DEF Inv, Recorded, Validate
  <1>3. CASE Register
    BY <1>3 DEF Inv, Recorded, Register
  <1>4. CASE NameBinders
    BY <1>4 DEF Inv, Recorded, NameBinders
  <1>5. CASE Wire
    <2> DEFINE a == accs[at]
               p == Position(<<"user of", a.name>>, StableName(a.name, UserSuffix(a.system)), a.user)
               q == Position(<<"password of", a.name>>, StableName(a.name, PassSuffix(a.system)), a.pass)
               r == StorePositions(AsSide(a))
    <2>1. Write(p \o q \o r) /\ claims = <<>> /\ UNCHANGED <<phase, secrets, conflicts>> /\ phase = "wire"
      BY <1>5 DEF Wire
    <2>2. IsSeq(p) /\ IsSeq(q) /\ IsSeq(r)
      BY PositionIsSeq, StorePositionsIsSeq
    <2> HIDE DEF p, q, r
    <2>3. IsSeq(p \o q \o r)
      BY <2>2, Together
    <2>4. IsSeq(claims') /\ \A x \in refs' : x \in Elements(claims') \/ Recorded(x)'
      BY <2>1, <2>3, WriteKeeps
    <2> QED
      BY <2>1, <2>4 DEF Inv
  <1>6. CASE Claim
    BY <1>6, ClaimKeeps
  <1>7. CASE StartBinding
    BY <1>7 DEF Inv, Recorded, StartBinding
  <1>8. CASE Bind
    BY <1>8 DEF Inv, Recorded, Bind
  <1>9. CASE Elect
    <2> DEFINE s == LeaderSession(input)
               p == Position(<<"user of", SessionFrom(s)>>, SessionName(s, UserSuffix("solace")), s.user)
               q == Position(<<"password of", SessionFrom(s)>>, SessionName(s, PassSuffix("solace")), s.pass)
               r == StorePositions(s)
    <2>1. phase = "bind" /\ phase' = "users" /\ UNCHANGED <<secrets, conflicts>>
      BY <1>9 DEF Elect
    <2>2. claims = <<>>
      BY <2>1 DEF Inv
    <2>3. CASE UNCHANGED <<claims, refs>>
      BY <2>1, <2>3 DEF Inv, Recorded
    <2>4. CASE Write(p \o q \o r)
      <3>1. IsSeq(p) /\ IsSeq(q) /\ IsSeq(r)
        BY PositionIsSeq, StorePositionsIsSeq
      <3> HIDE DEF p, q, r
      <3>2. IsSeq(p \o q \o r)
        BY <3>1, Together
      <3>3. IsSeq(claims') /\ \A x \in refs' : x \in Elements(claims') \/ Recorded(x)'
        BY <2>1, <2>2, <2>4, <3>2, WriteKeeps
      <3> QED
        BY <2>1, <3>3 DEF Inv
    <2> QED
      BY <1>9, <2>3, <2>4 DEF Elect
  <1>10. CASE User
    <2> DEFINE u == input.users[at]
               p == Position(<<"user", u.name>>, SecurityUserPasswordName(u.name), u.pass)
    <2>1. Write(p) /\ claims = <<>> /\ UNCHANGED <<phase, secrets, conflicts>> /\ phase = "users"
      BY <1>10 DEF User
    <2>2. IsSeq(p)
      BY PositionIsSeq
    <2>3. IsSeq(claims') /\ \A x \in refs' : x \in Elements(claims') \/ Recorded(x)'
      BY <2>1, <2>2, WriteKeeps
    <2> QED
      BY <2>1, <2>3 DEF Inv
  <1>11. CASE Gate
    BY <1>11 DEF Inv, Recorded, Gate
  <1>12. CASE Rest
    BY <1>12 DEF Inv, Recorded, Rest, vars
  <1> QED
    BY <1>1, <1>2, <1>3, <1>4, <1>5, <1>6, <1>7, <1>8, <1>9, <1>10, <1>11, <1>12 DEF Next

\* secretRef and gen.build: what is rendered never resolves a placeholder to the
\* credential of another position, for every input.
THEOREM ResolvesItsOwn == Spec => []PlaceholdersResolve
  <1>1. Inv => PlaceholdersResolve
    BY DEF Inv, Recorded, PlaceholdersResolve, Built, Elements
  <1> QED
    BY InitInv, NextInv, <1>1, PTL DEF Spec

(***************************************************************************)
(* The sides of an accepted input.                                         *)
(***************************************************************************)
\* A side, a connection or a session as the checks leave it.
Sound(in, s) == s \in SideBlocks /\ HasSystem(s) /\ CheckTuple(in, s) /\ CheckSideCredentials(s)

\* There are two sides of each file, and each is a block.
LEMMA RawSidesAre ==
    ASSUME NEW in, Decoded(in)
    PROVE  /\ Len(in.wfs) \in Nat
           /\ DOMAIN RawSides(in) = 1..(2 * Len(in.wfs))
           /\ \A i \in DOMAIN RawSides(in) : RawSides(in)[i] \in SideBlocks
  <1> DEFINE wfs == in.wfs
  <1>1. wfs \in Seq([source : SideBlocks, target : SideBlocks])
    BY DEF Decoded
  <1>2. ASSUME NEW k \in 1..Len(wfs) PROVE wfs[k].source \in SideBlocks /\ wfs[k].target \in SideBlocks
    <2> DEFINE F == [source : SideBlocks, target : SideBlocks]
    <2>0. wfs \in Seq(F)
      BY <1>1
    <2> HIDE DEF F, wfs
    <2>1. wfs[k] \in F
      BY <2>0, ElementIn
    <2> QED
      BY <2>1 DEF F
  <1>3. \A i \in 1..(2 * Len(wfs)) :
            /\ i % 2 = 1 => (i + 1) \div 2 \in 1..Len(wfs)
            /\ i % 2 # 1 => i \div 2 \in 1..Len(wfs)
    BY <1>1
  <1>4. Len(wfs) \in Nat
    BY <1>1
  <1> HIDE DEF wfs
  <1>5. RawSides(in) = [i \in 1..(2 * Len(wfs)) |->
            IF i % 2 = 1 THEN wfs[(i + 1) \div 2].source ELSE wfs[i \div 2].target]
    BY DEF RawSides, wfs
  <1>6. ASSUME NEW i \in 1..(2 * Len(wfs)) PROVE RawSides(in)[i] \in SideBlocks
    <2>1. CASE i % 2 = 1
      BY <1>2, <1>3, <1>5, <2>1
    <2>2. CASE i % 2 # 1
      BY <1>2, <1>3, <1>5, <2>2
    <2> QED
      BY <2>1, <2>2
  <1>7. DOMAIN RawSides(in) = 1..(2 * Len(wfs))
    BY <1>5
  <1> QED
    BY <1>4, <1>6, <1>7 DEF wfs

\* So are the sides with their connections filled in.
LEMMA SidesAre ==
    ASSUME NEW in, Decoded(in)
    PROVE  /\ Len(in.wfs) \in Nat
           /\ DOMAIN Sides(in) = 1..(2 * Len(in.wfs))
           /\ Len(Sides(in)) = 2 * Len(in.wfs)
           /\ DOMAIN Sides(in) = DOMAIN RawSides(in)
           /\ \A i \in DOMAIN Sides(in) : Sides(in)[i] = Resolve(in.conns, RawSides(in)[i])
  <1>1. DOMAIN Sides(in) = DOMAIN RawSides(in)
    BY DEF Sides
  <1>2. \A i \in DOMAIN Sides(in) : Sides(in)[i] = Resolve(in.conns, RawSides(in)[i])
    BY DEF Sides
  <1>3. Len(Sides(in)) = 2 * Len(in.wfs)
    BY <1>1, RawSidesAre
  <1> QED
    BY <1>1, <1>2, <1>3, RawSidesAre

\* What a conn-ref adds to a connection is checked with the side.
LEMMA ResolveIsSound ==
    ASSUME NEW in, Decoded(in), CheckConnections(in), NEW s \in SideBlocks, NEW source, CheckSide(in, s, source)
    PROVE  Sound(in, Resolve(in.conns, s))
  <1>1. CASE s.ref \in DOMAIN in.conns \ {NoName}
    <2> DEFINE c == in.conns[s.ref]
               r == [c EXCEPT !.ref = s.ref, !.kind = s.kind, !.dest = s.dest, !.tuned = s.tuned]
    <2>1. c \in SideBlocks /\ HasSystem(c) /\ CheckTuple(in, c) /\ CheckSideCredentials(c)
      BY <1>1 DEF Decoded, CheckConnections
    <2>2. r \in SideBlocks
      BY <2>1 DEF SideBlocks
    <2>3. /\ r.system = c.system /\ r.broker = c.broker /\ r.user = c.user /\ r.pass = c.pass /\ r.tls = c.tls
          /\ r.cipher = c.cipher /\ r.trust = c.trust /\ r.key = c.key /\ r.alias = c.alias
      BY <2>1 DEF SideBlocks
    <2>4. Resolve(in.conns, s) = r
      BY <1>1 DEF Resolve
    <2> HIDE DEF c, r
    <2>5. HasSystem(r) /\ CheckSideCredentials(r)
      BY <2>1, <2>3 DEF HasSystem, CheckSideCredentials
    <2>6. UsesTLS(r) = UsesTLS(c)
      BY <2>3 DEF UsesTLS
    <2>7. CheckStoreSelection(in, r)
      BY <2>1, <2>3 DEF CheckTuple, CheckStoreSelection, CheckCreatedSelection
    <2>8. CheckTuple(in, r)
      BY <2>1, <2>3, <2>6, <2>7 DEF CheckTuple
    <2> QED
      BY <2>2, <2>4, <2>5, <2>8 DEF Sound
  <1>2. CASE s.ref \notin DOMAIN in.conns \ {NoName}
    <2>1. s.ref = NoName
      BY <1>2 DEF CheckSide
    <2>2. HasSystem(s) /\ CheckSideCredentials(s) /\ CheckTuple(in, s)
      BY <2>1 DEF CheckSide
    <2> QED
      BY <1>2, <2>2 DEF Resolve, Sound
  <1> QED
    BY <1>1, <1>2

\* Every side of an accepted input passed its checks.
LEMMA SidesSound ==
    ASSUME NEW in, Decoded(in), Accepted(in), NEW i \in DOMAIN Sides(in)
    PROVE  Sound(in, Sides(in)[i])
  <1>1. RawSides(in)[i] \in SideBlocks /\ i \in DOMAIN RawSides(in)
    BY RawSidesAre, SidesAre
  <1>2. CheckConnections(in) /\ CheckSide(in, RawSides(in)[i], IsSource(i))
    BY <1>1 DEF Accepted, CheckWorkflowSides
  <1>3. Sides(in)[i] = Resolve(in.conns, RawSides(in)[i])
    BY SidesAre
  <1> QED
    BY <1>1, <1>2, <1>3, ResolveIsSound

\* A connection's stores are defined, and it has none without TLS.
LEMMA StoresSound ==
    ASSUME NEW in, Decoded(in), Accepted(in), NEW s, Sound(in, s)
    PROVE  /\ s.trust # NoName => s.trust \in DOMAIN in.stores /\ Configured(Store(in, s.trust))
           /\ s.key # NoName => s.key \in DOMAIN in.stores /\ Configured(Store(in, s.key))
           /\ s.alias # "" => s.key # NoName
           /\ ~UsesTLS(s) => s.alias = "" /\ s.trust = NoName /\ s.key = NoName
  <1>1. CheckTuple(in, s) /\ CheckStoreFiles(in)
    BY DEF Sound, Accepted
  <1>2. \A n \in DOMAIN in.stores : Configured(in.stores[n])
    BY <1>1 DEF CheckStoreFiles, CheckStoreDefinition
  <1>3. {s.trust, s.key} \ {NoName} \subseteq DOMAIN in.stores
    BY <1>1 DEF CheckTuple, CheckStoreSelection
  <1>4. \A n \in {s.trust, s.key} \ {NoName} : n \in DOMAIN in.stores /\ Configured(Store(in, n))
    BY <1>2, <1>3 DEF Store
  <1> QED
    BY <1>1, <1>4 DEF CheckTuple, CheckStoreSelection

(***************************************************************************)
(* What a binder has gathered from the sides 1..d that have joined it.     *)
(***************************************************************************)
AccFields == {"key", "system", "name", "user", "pass", "tls", "conn", "trust", "store", "alias", "cipher", "api", "extra"}

Joins(in, a, k) == a.key = DedupKey(Sides(in)[k])

\* It is the first one's in system, user and password; it has the stores of each.
Gathered(in, a, d) ==
    /\ DOMAIN a = AccFields
    /\ \E k \in 1..d : LET s == Sides(in)[k]
                       IN  Joins(in, a, k) /\ a.system = s.system /\ a.user = s.user /\ a.pass = s.pass
    /\ \A k \in 1..d : LET s == Sides(in)[k]
                       IN  Joins(in, a, k) => a.trust = s.trust /\ a.store = s.key /\ a.alias = s.alias
    /\ a.tls \in BOOLEAN
    /\ a.tls <=> \E k \in 1..d : Joins(in, a, k) /\ UsesTLS(Sides(in)[k])
    /\ a.conn \in Names

\* The binders of the sides 1..d: one for each key, none missing.
OnePerKey(in, q, d) ==
    /\ IsSeq(q)
    /\ Len(q) <= d
    /\ \A i \in DOMAIN q : Gathered(in, q[i], d)
    /\ \A i, j \in DOMAIN q : q[i].key = q[j].key => i = j
    /\ \A k \in 1..d : \E i \in DOMAIN q : Joins(in, q[i], k)

\* What a side adds, field by field.
LEMMA AccumulateFields ==
    ASSUME NEW a, DOMAIN a = AccFields, NEW s
    PROVE  LET b == Accumulate(a, s)
           IN  /\ DOMAIN b = AccFields
               /\ b.key = a.key /\ b.system = a.system /\ b.user = a.user /\ b.pass = a.pass
               /\ b.trust = (IF a.trust = NoName THEN s.trust ELSE a.trust)
               /\ b.store = (IF a.store = NoName THEN s.key ELSE a.store)
               /\ b.alias = (IF a.alias = "" THEN s.alias ELSE a.alias)
               /\ b.tls = (a.tls \/ (s.system = "mq" /\ s.tls))
               /\ b.conn = (IF a.conn = NoName THEN s.ref ELSE a.conn)
  BY DEF Accumulate, AccFields

\* What a binder begins with.
LEMMA NewAccFields ==
    ASSUME NEW s
    PROVE  LET b == NewAcc(s)
           IN  /\ DOMAIN b = AccFields
               /\ b.key = DedupKey(s) /\ b.system = s.system /\ b.user = s.user /\ b.pass = s.pass
               /\ b.trust = NoName /\ b.store = NoName /\ b.alias = "" /\ b.conn = NoName
               /\ b.tls = UsesTLS(s)
  BY DEF NewAcc, AccFields

\* Two sides of one connection select the same stores, and use TLS alike if they are Solace's.
LEMMA SameSelection ==
    ASSUME NEW in, Decoded(in), Accepted(in), NEW i \in DOMAIN Sides(in), NEW j \in DOMAIN Sides(in),
           DedupKey(Sides(in)[i]) = DedupKey(Sides(in)[j])
    PROVE  LET s == Sides(in)[i]  t == Sides(in)[j]
           IN  /\ s.trust = t.trust /\ s.key = t.key /\ s.alias = t.alias
               /\ s.system = t.system /\ s.broker = t.broker
               /\ s.system = "solace" => UsesTLS(s) = UsesTLS(t)
  <1> DEFINE s == Sides(in)[i]
             t == Sides(in)[j]
  <1>1. Sound(in, s) /\ Sound(in, t)
    BY SidesSound
  <1>2. HasSystem(s) /\ HasSystem(t)
    BY <1>1 DEF Sound
  <1>3. CheckStoreSelectionConflicts(in)
    BY DEF Accepted
  <1>4. s.trust = t.trust /\ s.key = t.key /\ s.alias = t.alias
    BY <1>2, <1>3 DEF CheckStoreSelectionConflicts, SameBinder
  <1>5. s.system = t.system /\ s.broker = t.broker
    BY DEF DedupKey
  <1> HIDE DEF s, t
  <1>6. s.system = "solace" => UsesTLS(s) = UsesTLS(t)
    BY <1>5 DEF UsesTLS
  <1> QED
    BY <1>4, <1>5, <1>6 DEF s, t

\* A side that joins a binder adds nothing that another of its sides did not say.
LEMMA GatherJoin ==
    ASSUME NEW in, Decoded(in), Accepted(in), NEW d \in Nat, d + 1 \in DOMAIN Sides(in),
           NEW a, Gathered(in, a, d), Joins(in, a, d + 1)
    PROVE  Gathered(in, Accumulate(a, Sides(in)[d + 1]), d + 1)
  <1> DEFINE s == Sides(in)[d + 1]
             b == Accumulate(a, s)
  <1>1. \A k \in 1..(d + 1) : k \in DOMAIN Sides(in)
    BY SidesAre
  <1>2. PICK f \in 1..d : Joins(in, a, f) /\ a.system = Sides(in)[f].system
                          /\ a.user = Sides(in)[f].user /\ a.pass = Sides(in)[f].pass
    BY DEF Gathered
  <1>3. a.trust = Sides(in)[f].trust /\ a.store = Sides(in)[f].key /\ a.alias = Sides(in)[f].alias
    BY <1>2 DEF Gathered
  <1>4. f \in DOMAIN Sides(in) /\ DedupKey(Sides(in)[f]) = DedupKey(s)
    BY <1>1, <1>2 DEF Joins
  <1>5. /\ Sides(in)[f].trust = s.trust /\ Sides(in)[f].key = s.key /\ Sides(in)[f].alias = s.alias
        /\ Sides(in)[f].system = s.system
        /\ s.system = "solace" => UsesTLS(Sides(in)[f]) = UsesTLS(s)
    BY <1>4, SameSelection
  <1>6. Sound(in, s)
    BY SidesSound
  <1>7. s.system \in Systems /\ s.ref \in Names /\ s.tls \in BOOLEAN
    BY <1>6 DEF Sound, HasSystem, SideBlocks
  <1>8. /\ DOMAIN a = AccFields /\ a.conn \in Names /\ a.tls \in BOOLEAN
        /\ a.tls <=> \E k \in 1..d : Joins(in, a, k) /\ UsesTLS(Sides(in)[k])
        /\ \A k \in 1..d : Joins(in, a, k) => a.trust = Sides(in)[k].trust /\ a.store = Sides(in)[k].key
                                          /\ a.alias = Sides(in)[k].alias
    BY DEF Gathered
  <1>9. /\ DOMAIN b = AccFields
        /\ b.key = a.key /\ b.system = a.system /\ b.user = a.user /\ b.pass = a.pass
        /\ b.trust = a.trust /\ b.store = a.store /\ b.alias = a.alias
        /\ b.tls = (a.tls \/ (s.system = "mq" /\ s.tls))
        /\ b.conn \in Names
    <2> HIDE DEF s
    <2>1. /\ DOMAIN b = AccFields
          /\ b.key = a.key /\ b.system = a.system /\ b.user = a.user /\ b.pass = a.pass
          /\ b.trust = (IF a.trust = NoName THEN s.trust ELSE a.trust)
          /\ b.store = (IF a.store = NoName THEN s.key ELSE a.store)
          /\ b.alias = (IF a.alias = "" THEN s.alias ELSE a.alias)
          /\ b.tls = (a.tls \/ (s.system = "mq" /\ s.tls))
          /\ b.conn = (IF a.conn = NoName THEN s.ref ELSE a.conn)
      BY <1>8, AccumulateFields, ZenonT(40)
    <2> HIDE DEF b
    <2>2. a.trust = s.trust /\ a.store = s.key /\ a.alias = s.alias
      BY <1>3, <1>5 DEF s
    <2>3. b.trust = a.trust /\ b.store = a.store /\ b.alias = a.alias /\ b.conn \in Names
      BY <1>7, <1>8, <2>1, <2>2 DEF s
    <2> QED
      BY <2>1, <2>3
  <1>10. \A k : Joins(in, b, k) <=> Joins(in, a, k)
    BY <1>9 DEF Joins
  <1> HIDE DEF b
  <1>11. b.tls <=> \E k \in 1..(d + 1) : Joins(in, b, k) /\ UsesTLS(Sides(in)[k])
    <2>1. s.system = "mq" => (UsesTLS(s) <=> s.tls)
      BY DEF UsesTLS
    <2>2. s.system = "solace" => (UsesTLS(s) => a.tls)
      BY <1>2, <1>5, <1>8
    <2>3. b.tls <=> a.tls \/ UsesTLS(s)
      BY <1>7, <1>8, <1>9, <2>1, <2>2 DEF Systems
    <2>4. \A k \in 1..(d + 1) : k \in 1..d \/ k = d + 1
      OBVIOUS
    <2>5. \A k \in 1..d : k \in 1..(d + 1)
      OBVIOUS
    <2>6. d + 1 \in 1..(d + 1)
      OBVIOUS
    <2> QED
      BY <1>8, <1>10, <2>3, <2>4, <2>5, <2>6
  <1>12. \A k \in 1..(d + 1) : Joins(in, b, k) => b.trust = Sides(in)[k].trust /\ b.store = Sides(in)[k].key
                                              /\ b.alias = Sides(in)[k].alias
    BY <1>3, <1>5, <1>8, <1>9, <1>10
  <1>13. b.tls \in BOOLEAN
    BY <1>9
  <1>14. \E k \in 1..(d + 1) : LET t == Sides(in)[k]
                               IN  Joins(in, b, k) /\ b.system = t.system /\ b.user = t.user /\ b.pass = t.pass
    <2>1. f \in 1..(d + 1)
      OBVIOUS
    <2> QED
      BY <1>2, <1>9, <1>10, <2>1
  <1>15. Gathered(in, b, d + 1)
    BY <1>9, <1>11, <1>12, <1>13, <1>14 DEF Gathered
  <1> QED
    BY <1>15 DEF b

\* A side of another connection changes nothing of it.
LEMMA GatherOther ==
    ASSUME NEW in, NEW d \in Nat, NEW a, Gathered(in, a, d), ~Joins(in, a, d + 1)
    PROVE  Gathered(in, a, d + 1)
  <1>1. \A k \in 1..(d + 1) : k \in 1..d \/ k = d + 1
    OBVIOUS
  <1>2. \A k \in 1..d : k \in 1..(d + 1)
    OBVIOUS
  <1> QED
    BY <1>1, <1>2 DEF Gathered

\* The first side of a connection begins its binder.
LEMMA GatherNew ==
    ASSUME NEW in, Decoded(in), Accepted(in), NEW d \in Nat, d + 1 \in DOMAIN Sides(in),
           \A k \in 1..d : DedupKey(Sides(in)[k]) # DedupKey(Sides(in)[d + 1])
    PROVE  LET s == Sides(in)[d + 1]
           IN  Gathered(in, Accumulate(NewAcc(s), s), d + 1) /\ Joins(in, Accumulate(NewAcc(s), s), d + 1)
  <1> DEFINE s == Sides(in)[d + 1]
             a == NewAcc(s)
             b == Accumulate(a, s)
  <1>1. Sound(in, s)
    BY SidesSound
  <1>2. s.system \in Systems /\ s.ref \in Names /\ s.tls \in BOOLEAN
    BY <1>1 DEF Sound, HasSystem, SideBlocks
  <1>3. /\ DOMAIN a = AccFields
        /\ a.key = DedupKey(s) /\ a.system = s.system /\ a.user = s.user /\ a.pass = s.pass
        /\ a.trust = NoName /\ a.store = NoName /\ a.alias = "" /\ a.conn = NoName
        /\ a.tls = UsesTLS(s)
    BY NewAccFields
  <1> HIDE DEF s, a
  <1>4. /\ DOMAIN b = AccFields
        /\ b.key = DedupKey(s) /\ b.system = s.system /\ b.user = s.user /\ b.pass = s.pass
        /\ b.trust = s.trust /\ b.store = s.key /\ b.alias = s.alias
        /\ b.tls = (UsesTLS(s) \/ (s.system = "mq" /\ s.tls))
        /\ b.conn \in Names
    <2>1. /\ DOMAIN b = AccFields
          /\ b.key = a.key /\ b.system = a.system /\ b.user = a.user /\ b.pass = a.pass
          /\ b.trust = (IF a.trust = NoName THEN s.trust ELSE a.trust)
          /\ b.store = (IF a.store = NoName THEN s.key ELSE a.store)
          /\ b.alias = (IF a.alias = "" THEN s.alias ELSE a.alias)
          /\ b.tls = (a.tls \/ (s.system = "mq" /\ s.tls))
          /\ b.conn = (IF a.conn = NoName THEN s.ref ELSE a.conn)
      BY <1>3, AccumulateFields
    <2> HIDE DEF b
    <2>2. b.trust = s.trust /\ b.store = s.key /\ b.alias = s.alias /\ b.conn \in Names
      BY <1>2, <1>3, <2>1
    <2> QED
      BY <1>3, <2>1, <2>2
  <1> HIDE DEF b
  <1>5. \A k \in 1..(d + 1) : Joins(in, b, k) <=> k = d + 1
    BY <1>4 DEF Joins, s
  <1>6. b.tls \in BOOLEAN /\ (b.tls <=> UsesTLS(s))
    BY <1>2, <1>4 DEF UsesTLS
  <1>7. d + 1 \in 1..(d + 1)
    OBVIOUS
  <1>8. b.tls <=> \E k \in 1..(d + 1) : Joins(in, b, k) /\ UsesTLS(Sides(in)[k])
    BY <1>5, <1>6, <1>7 DEF s
  <1>9. Gathered(in, b, d + 1)
    BY <1>4, <1>5, <1>6, <1>7, <1>8 DEF Gathered, s
  <1> QED
    BY <1>5, <1>7, <1>9 DEF s, a, b

\* The side that comes next finds its binder, or begins one.
Joined(q, s) ==
    IF \E i \in DOMAIN q : q[i].key = DedupKey(s)
    THEN [i \in DOMAIN q |-> IF q[i].key = DedupKey(s) THEN Accumulate(q[i], s) ELSE q[i]]
    ELSE Append(q, Accumulate(NewAcc(s), s))

\* register, one side: there is still one binder for every key.
LEMMA JoinKeeps ==
    ASSUME NEW in, Decoded(in), Accepted(in), NEW d \in Nat, d + 1 \in DOMAIN Sides(in), NEW q, OnePerKey(in, q, d)
    PROVE  OnePerKey(in, Joined(q, Sides(in)[d + 1]), d + 1)
  <1> DEFINE s == Sides(in)[d + 1]
             r == Joined(q, s)
  <1>1. IsSeq(q) /\ q \in Seq(Elements(q)) /\ DOMAIN q = 1..Len(q) /\ Len(q) \in Nat /\ Len(q) <= d
    BY DEF OnePerKey, IsSeq
  <1>2. /\ \A i \in DOMAIN q : Gathered(in, q[i], d)
        /\ \A i, j \in DOMAIN q : q[i].key = q[j].key => i = j
        /\ \A k \in 1..d : \E i \in DOMAIN q : Joins(in, q[i], k)
    BY DEF OnePerKey
  <1>3. \A k \in 1..(d + 1) : k \in 1..d \/ k = d + 1
    OBVIOUS
  <1>4. CASE \E i \in DOMAIN q : q[i].key = DedupKey(s)
    <2>1. r = [i \in DOMAIN q |-> IF q[i].key = DedupKey(s) THEN Accumulate(q[i], s) ELSE q[i]]
      BY <1>4 DEF Joined
    <2> HIDE DEF r
    <2>2. DOMAIN r = 1..Len(q)
      BY <1>1, <2>1
    <2>3. \A i \in DOMAIN r : r[i] \in Elements(r)
      BY DEF Elements
    <2>4. r \in Seq(Elements(r)) /\ Len(r) = Len(q)
      BY <1>1, <2>1, <2>2, <2>3
    <2>5. ASSUME NEW i \in DOMAIN q
          PROVE  Gathered(in, r[i], d + 1) /\ r[i].key = q[i].key
      <3>1. Gathered(in, q[i], d)
        BY <1>2
      <3>2. CASE q[i].key = DedupKey(s)
        <4>1. r[i] = Accumulate(q[i], s)
          BY <2>1, <3>2
        <4>2. Joins(in, q[i], d + 1)
          BY <3>2 DEF Joins
        <4>3. Gathered(in, Accumulate(q[i], s), d + 1)
          BY <3>1, <4>2, GatherJoin
        <4>4. DOMAIN q[i] = AccFields
          BY <3>1 DEF Gathered
        <4>5. Accumulate(q[i], s).key = q[i].key
          BY <4>4, AccumulateFields
        <4> QED
          BY <4>1, <4>3, <4>5
      <3>3. CASE q[i].key # DedupKey(s)
        <4>1. r[i] = q[i]
          BY <2>1, <3>3
        <4>2. ~Joins(in, q[i], d + 1)
          BY <3>3 DEF Joins
        <4> QED
          BY <3>1, <4>1, <4>2, GatherOther
      <3> QED
        BY <3>2, <3>3
    <2>6. DOMAIN r = DOMAIN q
      BY <1>1, <2>2
    <2>7. \A k \in 1..(d + 1) : \E i \in DOMAIN r : Joins(in, r[i], k)
      <3>1. \A k, i : i \in DOMAIN q => (Joins(in, r[i], k) <=> Joins(in, q[i], k))
        BY <2>5 DEF Joins
      <3>2. \E i \in DOMAIN q : Joins(in, q[i], d + 1)
        BY <1>4 DEF Joins
      <3> QED
        BY <1>2, <1>3, <2>6, <3>1, <3>2
    <2>8. \A i, j \in DOMAIN r : r[i].key = r[j].key => i = j
      BY <1>2, <2>5, <2>6
    <2>9. OnePerKey(in, r, d + 1)
      BY <1>1, <2>4, <2>5, <2>6, <2>7, <2>8 DEF OnePerKey, IsSeq
    <2> QED
      BY <2>9 DEF r
  <1>5. CASE ~\E i \in DOMAIN q : q[i].key = DedupKey(s)
    <2> DEFINE b == Accumulate(NewAcc(s), s)
    <2>1. r = Append(q, b)
      BY <1>5 DEF Joined
    <2>2. \A k \in 1..d : DedupKey(Sides(in)[k]) # DedupKey(s)
      BY <1>2, <1>5 DEF Joins
    <2>3. Gathered(in, b, d + 1) /\ Joins(in, b, d + 1)
      BY <2>2, GatherNew
    <2>4. b.key = DedupKey(s)
      BY <2>3 DEF Joins
    <2> HIDE DEF b, r
    <2>5. /\ r \in Seq(Elements(q) \cup {b}) /\ Len(r) = Len(q) + 1 /\ DOMAIN r = 1..(Len(q) + 1)
          /\ \A i \in 1..Len(q) : r[i] = q[i]
          /\ r[Len(q) + 1] = b
      BY <1>1, <2>1
    <2>6. IsSeq(r)
      BY <2>5, OwnElements
    <2>7. ASSUME NEW i \in DOMAIN r
          PROVE  (i \in DOMAIN q /\ r[i] = q[i]) \/ (i = Len(q) + 1 /\ r[i] = b)
      BY <1>1, <2>5
    <2>8. ASSUME NEW i \in DOMAIN q PROVE Gathered(in, q[i], d + 1)
      <3>1. ~Joins(in, q[i], d + 1)
        BY <1>5 DEF Joins
      <3> QED
        BY <1>2, <3>1, GatherOther
    <2>9. \A i \in DOMAIN r : Gathered(in, r[i], d + 1)
      BY <2>3, <2>7, <2>8
    <2>10. \A i, j \in DOMAIN r : r[i].key = r[j].key => i = j
      <3>1. \A i \in DOMAIN q : q[i].key # b.key
        BY <1>5, <2>4
      <3> QED
        BY <1>2, <2>7, <3>1
    <2>11. \A k \in 1..(d + 1) : \E i \in DOMAIN r : Joins(in, r[i], k)
      <3>1. \A i \in DOMAIN q : i \in DOMAIN r /\ r[i] = q[i]
        BY <1>1, <2>5
      <3>2. Len(q) + 1 \in DOMAIN r /\ r[Len(q) + 1] = b
        BY <1>1, <2>5
      <3> QED
        BY <1>2, <1>3, <2>3, <3>1, <3>2
    <2>12. Len(r) <= d + 1
      BY <1>1, <2>5
    <2>13. OnePerKey(in, r, d + 1)
      BY <2>6, <2>9, <2>10, <2>11, <2>12 DEF OnePerKey
    <2> QED
      BY <2>13 DEF r
  <1> QED
    BY <1>4, <1>5

-----------------------------------------------------------------------------
(***************************************************************************)
(* Where the phases stand.                                                 *)
(***************************************************************************)
Sidewise == phase \in {"check", "rejected", "register"}

\* The sides that have joined their binders, the binders that are wired and the
\* sides that are bound so far.
JoinedSides  == IF Sidewise THEN at - 1 ELSE Len(Sides(input))

WiredBinders == IF Sidewise THEN 0 ELSE IF phase = "wire" THEN at - 1 ELSE Len(accs)

BoundSides   == IF Sidewise \/ phase = "wire" THEN 0 ELSE IF phase = "bind" THEN 2 * (at - 1) ELSE Len(Sides(input))

Ordered ==
    /\ input \in Inputs
    /\ phase \in {"check", "rejected", "register", "wire", "bind", "users", "built", "refused"}
    /\ at \in Nat \ {0}
    /\ phase \in {"check", "rejected"} => at = 1
    /\ phase \notin {"check", "rejected"} => Accepted(input)
    /\ phase = "register" => at <= Len(Sides(input)) + 1
    /\ phase = "wire" => at <= Len(accs) + 1
    /\ phase = "bind" => at <= Len(input.wfs) + 1
    /\ phase \in {"users", "built", "refused"} => at <= Len(input.users) + 1
    /\ OnePerKey(input, accs, JoinedSides)

\* The same for a sequence of binders that differ in their names only.
LEMMA NamesAside ==
    ASSUME NEW in, NEW d, NEW q, NEW r, OnePerKey(in, q, d), IsSeq(r), DOMAIN r = DOMAIN q, Len(r) = Len(q),
           \A i \in DOMAIN q : \E n : r[i] = [q[i] EXCEPT !.name = n]
    PROVE  OnePerKey(in, r, d)
  <1>1. /\ Len(q) <= d
        /\ \A i \in DOMAIN q : Gathered(in, q[i], d)
        /\ \A i, j \in DOMAIN q : q[i].key = q[j].key => i = j
        /\ \A k \in 1..d : \E i \in DOMAIN q : Joins(in, q[i], k)
    BY DEF OnePerKey
  <1>2. ASSUME NEW i \in DOMAIN q
        PROVE  /\ DOMAIN r[i] = AccFields /\ r[i].key = q[i].key /\ r[i].system = q[i].system /\ r[i].user = q[i].user
               /\ r[i].pass = q[i].pass /\ r[i].tls = q[i].tls /\ r[i].conn = q[i].conn
               /\ r[i].trust = q[i].trust /\ r[i].store = q[i].store /\ r[i].alias = q[i].alias
    <2>1. DOMAIN q[i] = AccFields
      BY <1>1 DEF Gathered
    <2>2. PICK n : r[i] = [q[i] EXCEPT !.name = n]
      OBVIOUS
    <2> QED
      BY <2>1, <2>2 DEF AccFields
  <1>3. \A i \in DOMAIN q : \A k : Joins(in, r[i], k) <=> Joins(in, q[i], k)
    BY <1>2 DEF Joins
  <1>4. ASSUME NEW i \in DOMAIN q PROVE Gathered(in, r[i], d)
    <2> DEFINE a == q[i]
               b == r[i]
    <2>1. Gathered(in, a, d)
      BY <1>1
    <2>2. /\ DOMAIN b = AccFields /\ b.system = a.system /\ b.user = a.user /\ b.pass = a.pass /\ b.tls = a.tls
          /\ b.conn = a.conn /\ b.trust = a.trust /\ b.store = a.store /\ b.alias = a.alias
      BY <1>2
    <2>3. \A k : Joins(in, b, k) <=> Joins(in, a, k)
      BY <1>3
    <2> HIDE DEF a, b
    <2>4. b.tls <=> \E k \in 1..d : Joins(in, b, k) /\ UsesTLS(Sides(in)[k])
      <3>1. a.tls <=> \E k \in 1..d : Joins(in, a, k) /\ UsesTLS(Sides(in)[k])
        BY <2>1 DEF Gathered
      <3> QED
        BY <2>2, <2>3, <3>1
    <2>5. b.tls \in BOOLEAN /\ b.conn \in Names
      BY <2>1, <2>2 DEF Gathered
    <2>6. Gathered(in, b, d)
      BY <2>1, <2>2, <2>3, <2>4, <2>5 DEF Gathered
    <2> QED
      BY <2>6 DEF b
  <1> QED
    BY <1>1, <1>2, <1>3, <1>4 DEF OnePerKey

\* The inputs are decoded files.
LEMMA InputIsDecoded == Ordered => Decoded(input)
  BY InputsAssumption DEF Ordered

\* The users are counted.
LEMMA UsersAreCounted ==
    ASSUME NEW in, Decoded(in)
    PROVE  Len(in.users) \in Nat
  <1> DEFINE Users == [name : Names, pass : Credentials]
  <1>1. in.users \in Seq(Users)
    BY Zenon DEF Decoded
  <1> HIDE DEF Users
  <1> QED
    BY <1>1

\* Nothing has joined before the files are read.
LEMMA InitOrdered == Init => Ordered
  <1> SUFFICES ASSUME Init PROVE Ordered
    OBVIOUS
  <1>1. input \in Inputs /\ phase = "check" /\ at = 1 /\ accs = <<>>
    BY DEF Init
  <1>2. JoinedSides = 0
    BY <1>1 DEF JoinedSides, Sidewise
  <1>3. OnePerKey(input, <<>>, 0)
    BY EmptyIsSeq DEF OnePerKey
  <1> QED
    BY <1>1, <1>2, <1>3 DEF Ordered

\* A step that leaves the binders be.
LEMMA SameAccs ==
    ASSUME Ordered, input' = input, accs' = accs, JoinedSides' = JoinedSides
    PROVE  OnePerKey(input, accs, JoinedSides)'
  BY DEF Ordered

\* One phase follows another, and a side that registers joins one binder.
LEMMA OrderedKeeps == Ordered /\ [Next]_vars => Ordered'
  <1> SUFFICES ASSUME Ordered, [Next]_vars PROVE Ordered'
    OBVIOUS
  <1> USE DEF Sidewise
  <1>0. /\ input \in Inputs /\ at \in Nat \ {0}
        /\ Len(Sides(input)) = 2 * Len(input.wfs) /\ Len(input.wfs) \in Nat
        /\ DOMAIN Sides(input) = 1..Len(Sides(input))
        /\ Len(input.users) \in Nat /\ Len(accs) \in Nat
        /\ input.wfs = input.wfs
    <2>1. Len(input.users) \in Nat
      BY InputIsDecoded, UsersAreCounted
    <2>2. Len(accs) \in Nat
      BY DEF Ordered, OnePerKey, IsSeq
    <2> QED
      BY <2>1, <2>2, InputIsDecoded, SidesAre DEF Ordered
  <1>1. CASE UNCHANGED vars
    BY <1>1 DEF Ordered, JoinedSides, vars
  <1>2. CASE Validate
    <2>1. /\ phase = "check" /\ input' = input /\ at' = at /\ accs' = accs
          /\ phase' = IF Accepted(input) THEN "register" ELSE "rejected"
      BY <1>2 DEF Validate
    <2>2. JoinedSides' = JoinedSides
      BY <2>1 DEF JoinedSides
    <2> QED
      BY <1>0, <2>1, <2>2, SameAccs DEF Ordered
  <1>3. CASE Register
    <2>1. /\ phase = "register" /\ phase' = "register" /\ input' = input /\ at' = at + 1 /\ at <= Len(Sides(input))
          /\ accs' = Joined(accs, Sides(input)[at])
      BY <1>3 DEF Register, Joined
    <2>2. JoinedSides = at - 1 /\ JoinedSides' = at
      BY <1>0, <2>1 DEF JoinedSides
    <2>3. at - 1 \in Nat /\ (at - 1) + 1 = at /\ at \in DOMAIN Sides(input)
      BY <1>0, <2>1
    <2>4. OnePerKey(input, accs, at - 1) /\ Accepted(input) /\ Decoded(input)
      BY <2>1, <2>2, InputIsDecoded DEF Ordered
    <2> DEFINE d == at - 1
    <2>5. d \in Nat /\ d + 1 \in DOMAIN Sides(input) /\ OnePerKey(input, accs, d) /\ d + 1 = at
      BY <2>3, <2>4
    <2> HIDE DEF d
    <2>6. OnePerKey(input, Joined(accs, Sides(input)[d + 1]), d + 1)
      BY <2>4, <2>5, JoinKeeps
    <2>7. OnePerKey(input, accs, JoinedSides)'
      BY <2>1, <2>2, <2>5, <2>6
    <2> QED
      BY <1>0, <2>1, <2>4, <2>7 DEF Ordered
  <1>4. CASE NameBinders
    <2>1. /\ phase = "register" /\ phase' = "wire" /\ input' = input /\ at' = 1 /\ at > Len(Sides(input))
          /\ accs' = [i \in DOMAIN accs |-> [accs[i] EXCEPT !.name = BinderName(i)]]
      BY <1>4 DEF NameBinders
    <2>2. JoinedSides = Len(Sides(input)) /\ JoinedSides' = Len(Sides(input))
      BY <1>0, <2>1 DEF JoinedSides, Ordered
    <2>3. IsSeq(accs)
      BY DEF Ordered, OnePerKey
    <2>4. accs' = [i \in DOMAIN accs |-> accs'[i]]
      BY <2>1
    <2>5. IsSeq(accs') /\ Len(accs') = Len(accs) /\ DOMAIN accs' = DOMAIN accs
      BY <2>3, <2>4, RewrittenIsSeq
    <2>7. \A i \in DOMAIN accs : \E n : accs'[i] = [accs[i] EXCEPT !.name = n]
      BY <2>1
    <2>8. OnePerKey(input, accs, JoinedSides) /\ Accepted(input)
      BY <2>1 DEF Ordered
    <2> DEFINE r == accs'
    <2>10. IsSeq(r) /\ DOMAIN r = DOMAIN accs /\ Len(r) = Len(accs) /\ \A i \in DOMAIN accs : \E n : r[i] = [accs[i] EXCEPT !.name = n]
      BY <2>5, <2>7
    <2> HIDE DEF r
    <2>11. OnePerKey(input, r, JoinedSides)
      BY <2>8, <2>10, NamesAside
    <2>12. OnePerKey(input, accs, JoinedSides)'
      BY <2>1, <2>2, <2>11 DEF r
    <2> QED
      BY <1>0, <2>1, <2>5, <2>8, <2>12 DEF Ordered
  <1>5. CASE Wire
    <2>1. phase = "wire" /\ phase' = "wire" /\ input' = input /\ accs' = accs /\ at' = at + 1 /\ at <= Len(accs)
      BY <1>5 DEF Wire
    <2>2. JoinedSides' = JoinedSides
      BY <2>1 DEF JoinedSides
    <2> QED
      BY <1>0, <2>1, <2>2, SameAccs DEF Ordered
  <1>6. CASE Claim
    BY <1>6 DEF Ordered, JoinedSides, Claim
  <1>7. CASE StartBinding
    <2>1. phase = "wire" /\ phase' = "bind" /\ input' = input /\ accs' = accs /\ at' = 1
      BY <1>7 DEF StartBinding
    <2>2. JoinedSides' = JoinedSides
      BY <2>1 DEF JoinedSides
    <2> QED
      BY <1>0, <2>1, <2>2, SameAccs DEF Ordered
  <1>8. CASE Bind
    <2>1. phase = "bind" /\ phase' = "bind" /\ input' = input /\ accs' = accs /\ at' = at + 1 /\ at <= Len(input.wfs)
      BY <1>8 DEF Bind
    <2>2. JoinedSides' = JoinedSides
      BY <2>1 DEF JoinedSides
    <2> QED
      BY <1>0, <2>1, <2>2, SameAccs DEF Ordered
  <1>9. CASE Elect
    <2>1. phase = "bind" /\ phase' = "users" /\ input' = input /\ accs' = accs /\ at' = 1
      BY <1>9 DEF Elect
    <2>2. JoinedSides' = JoinedSides
      BY <2>1 DEF JoinedSides
    <2> QED
      BY <1>0, <2>1, <2>2, SameAccs DEF Ordered
  <1>10. CASE User
    <2>1. phase = "users" /\ phase' = "users" /\ input' = input /\ accs' = accs /\ at' = at + 1 /\ at <= Len(input.users)
      BY <1>10 DEF User
    <2>2. JoinedSides' = JoinedSides
      BY <2>1 DEF JoinedSides
    <2> QED
      BY <1>0, <2>1, <2>2, SameAccs DEF Ordered
  <1>11. CASE Gate
    <2>1. phase = "users" /\ phase' \in {"built", "refused"} /\ input' = input /\ accs' = accs /\ at' = at
      BY <1>11 DEF Gate
    <2>2. JoinedSides' = JoinedSides
      BY <2>1 DEF JoinedSides
    <2> QED
      BY <1>0, <2>1, <2>2, SameAccs DEF Ordered
  <1>12. CASE Rest
    BY <1>1, <1>12 DEF Rest
  <1> QED
    BY <1>1, <1>2, <1>3, <1>4, <1>5, <1>6, <1>7, <1>8, <1>9, <1>10, <1>11, <1>12 DEF Next

\* A binder has a name: a connection's is not empty, and the others have a number.
LEMMA NamesAreSome ==
    ASSUME NEW d, OnePerKey(input, accs, d), NEW i \in DOMAIN accs
    PROVE  BinderName(i) # NoName /\ IsSeq(BinderName(i))
  <1> DEFINE conn == accs[i].conn
             number == ToString(Cardinality({j \in 1..i : accs[j].conn = NoName /\ accs[j].system = accs[i].system}))
             own == <<IF accs[i].system = "solace" THEN "sol" ELSE "mq", "-", "conn", "-", number>>
             clean == Sanitize(conn)
             again == <<"-", ToString(Cardinality({j \in 1..(i - 1) : BaseName(j) = BaseName(i)}) + 1)>>
  <1>1. conn \in Names
    BY DEF OnePerKey, Gathered
  <1>2. IsSeq(own) /\ Len(own) = 5
    <2> DEFINE first == IF accs[i].system = "solace" THEN "sol" ELSE "mq"
    <2> HIDE DEF first, number
    <2>1. <<first, "-", "conn", "-", number>> \in Seq({first, "-", "conn", number}) /\ Len(<<first, "-", "conn", "-", number>>) = 5
      OBVIOUS
    <2> QED
      BY <2>1, OwnElements DEF first
  <1>3. IsSeq(again) /\ Len(again) = 2
    <2> DEFINE n == ToString(Cardinality({j \in 1..(i - 1) : BaseName(j) = BaseName(i)}) + 1)
    <2> HIDE DEF n
    <2>1. <<"-", n>> \in Seq({"-", n}) /\ Len(<<"-", n>>) = 2
      OBVIOUS
    <2> QED
      BY <2>1, OwnElements DEF n
  <1>4. conn # NoName => IsSeq(clean) /\ Len(clean) \in Nat \ {0}
    <2> HIDE DEF conn
    <2>1. IsSeq(conn)
      BY <1>1, OwnElements DEF Names
    <2>2. clean = [k \in DOMAIN conn |-> clean[k]]
      BY DEF Sanitize
    <2>3. IsSeq(clean) /\ Len(clean) = Len(conn)
      BY <2>1, <2>2, RewrittenIsSeq
    <2>4. conn # <<>> => Len(conn) \in Nat \ {0}
      BY <1>1 DEF Names
    <2> QED
      BY <2>3, <2>4 DEF NoName
  <1>5. IsSeq(BaseName(i)) /\ Len(BaseName(i)) \in Nat \ {0}
    <2> HIDE DEF clean, own
    <2>1. BaseName(i) = IF conn # NoName THEN clean ELSE own
      BY DEF BaseName, clean, own
    <2> QED
      BY <1>2, <1>4, <2>1
  <1>6. BinderName(i) = BaseName(i) \/ BinderName(i) = BaseName(i) \o again
    BY DEF BinderName
  <1> DEFINE base == BaseName(i)
  <1> HIDE DEF again, base
  <1>7. Len(base \o again) = Len(base) + 2
    <2>1. IsSeq(base)
      BY <1>5 DEF base
    <2>2. Len(base \o again) = Len(base) + Len(again)
      BY <1>3, <2>1, TogetherIs
    <2> QED
      BY <1>3, <2>2
  <1>8. Len(BinderName(i)) # 0
    BY <1>5, <1>6, <1>7 DEF base
  <1>9. IsSeq(BinderName(i))
    <2>1. IsSeq(base)
      BY <1>5 DEF base
    <2>2. IsSeq(base \o again)
      BY <1>3, <2>1, Together
    <2> QED
      BY <1>6, <2>1, <2>2 DEF base
  <1> QED
    BY <1>8, <1>9 DEF NoName

-----------------------------------------------------------------------------
(***************************************************************************)
(* The binders that are wired, and the sides that are bound to them.       *)
(***************************************************************************)
Wired ==
    /\ ~Sidewise => \A i \in DOMAIN accs : accs[i].name # NoName /\ IsSeq(accs[i].name)
    /\ IsSeq(binders) /\ Len(binders) = WiredBinders
    /\ \A j \in DOMAIN binders : binders[j] = Binder(accs[j])

Bound ==
    /\ IsSeq(bindings) /\ Len(bindings) = BoundSides
    /\ \A i \in DOMAIN bindings : bindings[i] = Binding(i)

\* Nothing is wired or bound before the files are read.
LEMMA InitWired == Init => Wired /\ Bound
  <1> SUFFICES ASSUME Init PROVE Wired /\ Bound
    OBVIOUS
  <1>1. phase = "check" /\ binders = <<>> /\ bindings = <<>>
    BY DEF Init
  <1>2. IsSeq(<<>>)
    BY EmptyIsSeq
  <1> QED
    BY <1>1, <1>2 DEF Wired, Bound, WiredBinders, BoundSides, Sidewise

\* A step that leaves binders and bindings be.
LEMMA SameWired ==
    ASSUME Wired, UNCHANGED <<input, accs, binders>>, ~Sidewise' => ~Sidewise, WiredBinders' = WiredBinders
    PROVE  Wired'
  <1>1. \A a : Binder(a)' = Binder(a)
    BY DEF Binder, ToolProps, AsSide
  <1> QED
    BY <1>1 DEF Wired

\* And one that leaves the bindings be.
LEMMA SameBound ==
    ASSUME Bound, bindings = <<>> \/ UNCHANGED <<input, accs, binders>>, UNCHANGED bindings, BoundSides' = BoundSides
    PROVE  Bound'
  <1>1. CASE bindings = <<>>
    BY <1>1 DEF Bound
  <1>2. CASE UNCHANGED <<input, accs, binders>>
    <2>1. \A i : Binding(i)' = Binding(i)
      BY <1>2 DEF Binding, BinderOf
    <2> QED
      BY <2>1 DEF Bound
  <1> QED
    BY <1>1, <1>2

\* Each binder is wired from what it gathered, in order.
LEMMA WiredKeeps == Ordered /\ Wired /\ [Next]_vars => Wired'
  <1> SUFFICES ASSUME Ordered, Wired, [Next]_vars PROVE Wired'
    OBVIOUS
  <1> USE DEF Sidewise
  <1>0. Sidewise => Len(binders) = 0
    BY DEF Wired, WiredBinders
  <1>1. CASE UNCHANGED vars
    BY <1>1, SameWired DEF WiredBinders, vars
  <1>2. CASE Validate
    BY <1>2, SameWired DEF WiredBinders, Validate
  <1>3. CASE Register
    <2>1. phase = "register" /\ phase' = "register" /\ binders' = binders
      BY <1>3 DEF Register
    <2>2. DOMAIN binders = {}
      BY <1>0, <2>1 DEF Wired, IsSeq
    <2> QED
      BY <2>1, <2>2 DEF Wired, WiredBinders
  <1>4. CASE NameBinders
    <2>1. /\ phase = "register" /\ phase' = "wire" /\ binders' = binders /\ at' = 1
          /\ accs' = [i \in DOMAIN accs |-> [accs[i] EXCEPT !.name = BinderName(i)]]
      BY <1>4 DEF NameBinders
    <2>2. DOMAIN binders = {}
      BY <1>0, <2>1 DEF Wired, IsSeq
    <2>3. OnePerKey(input, accs, JoinedSides)
      BY DEF Ordered
    <2>4. ASSUME NEW i \in DOMAIN accs' PROVE accs'[i].name # NoName /\ IsSeq(accs'[i].name)
      <3>1. i \in DOMAIN accs /\ DOMAIN accs[i] = AccFields
        BY <2>1, <2>3 DEF OnePerKey, Gathered
      <3>2. accs'[i].name = BinderName(i)
        BY <2>1, <3>1 DEF AccFields
      <3> QED
        BY <2>3, <3>1, <3>2, NamesAreSome
    <2>5. IsSeq(binders') /\ Len(binders') = WiredBinders'
      BY <1>0, <2>1 DEF Wired, WiredBinders
    <2> QED
      BY <2>1, <2>2, <2>4, <2>5 DEF Wired
  <1>5. CASE Wire
    <2>1. /\ phase = "wire" /\ phase' = "wire" /\ input' = input /\ accs' = accs /\ at' = at + 1
          /\ binders' = Append(binders, Binder(accs[at]))
      BY <1>5 DEF Wire
    <2>2. IsSeq(binders) /\ Len(binders) = at - 1 /\ at \in Nat
      BY <2>1 DEF Wired, WiredBinders, Ordered
    <2> DEFINE e == Binder(accs[at])
               r == Append(binders, e)
    <2>3. /\ IsSeq(r) /\ Len(r) = at /\ DOMAIN r = 1..at /\ DOMAIN binders = 1..(at - 1)
          /\ \A i \in DOMAIN binders : r[i] = binders[i]
          /\ r[at] = e
      <3> HIDE DEF e
      <3>1. /\ IsSeq(r) /\ Len(r) = Len(binders) + 1 /\ DOMAIN r = 1..(Len(binders) + 1)
            /\ DOMAIN binders = 1..Len(binders)
            /\ \A i \in DOMAIN binders : r[i] = binders[i]
            /\ r[Len(binders) + 1] = e
        BY <2>2, OneMore
      <3>2. Len(binders) + 1 = at
        BY <2>2
      <3> HIDE DEF r
      <3> QED
        BY <2>2, <3>1, <3>2
    <2>4. binders' = r
      BY <2>1
    <2>5. \A i \in 1..at : i \in 1..(at - 1) \/ i = at
      BY <2>2
    <2>6. \A j \in DOMAIN r : r[j] = Binder(accs[j])
      <3> HIDE DEF r
      <3> QED
        BY <2>3, <2>5 DEF Wired
    <2>7. \A a : Binder(a)' = Binder(a)
      BY <2>1 DEF Binder, ToolProps, AsSide
    <2>8. WiredBinders' = at
      BY <2>1, <2>2 DEF WiredBinders
    <2> HIDE DEF r
    <2> QED
      BY <2>1, <2>3, <2>4, <2>6, <2>7, <2>8 DEF Wired
  <1>6. CASE Claim
    BY <1>6, SameWired DEF WiredBinders, Claim
  <1>7. CASE StartBinding
    <2>1. /\ phase = "wire" /\ phase' = "bind" /\ UNCHANGED <<input, accs, binders>> /\ at > Len(accs)
      BY <1>7 DEF StartBinding
    <2>2. at <= Len(accs) + 1 /\ at \in Nat /\ Len(accs) \in Nat
      BY <2>1 DEF Ordered, OnePerKey, IsSeq
    <2>3. WiredBinders' = WiredBinders
      BY <2>1, <2>2 DEF WiredBinders
    <2> QED
      BY <2>1, <2>3, SameWired
  <1>8. CASE Bind
    BY <1>8, SameWired DEF WiredBinders, Bind
  <1>9. CASE Elect
    <2>1. phase = "bind" /\ phase' = "users" /\ UNCHANGED <<input, accs, binders>>
      BY <1>9 DEF Elect
    <2> QED
      BY <2>1, SameWired DEF WiredBinders
  <1>10. CASE User
    BY <1>10, SameWired DEF WiredBinders, User
  <1>11. CASE Gate
    BY <1>11, SameWired DEF WiredBinders, Gate
  <1>12. CASE Rest
    BY <1>1, <1>12 DEF Rest
  <1> QED
    BY <1>1, <1>2, <1>3, <1>4, <1>5, <1>6, <1>7, <1>8, <1>9, <1>10, <1>11, <1>12 DEF Next

\* Each side is bound to the binder it joined, in order.
LEMMA BoundKeeps == Ordered /\ Bound /\ [Next]_vars => Bound'
  <1> SUFFICES ASSUME Ordered, Bound, [Next]_vars PROVE Bound'
    OBVIOUS
  <1> USE DEF Sidewise
  <1>0. Sidewise \/ phase = "wire" => bindings = <<>>
    <2>1. IsSeq(bindings)
      BY DEF Bound
    <2>2. Sidewise \/ phase = "wire" => Len(bindings) = 0
      BY DEF Bound, BoundSides
    <2> QED
      BY <2>1, <2>2 DEF IsSeq
  <1>00. Len(Sides(input)) = 2 * Len(input.wfs) /\ Len(input.wfs) \in Nat /\ at \in Nat \ {0}
    BY InputIsDecoded, SidesAre DEF Ordered
  <1>1. CASE UNCHANGED vars
    BY <1>1, SameBound DEF BoundSides, vars
  <1>2. CASE Validate
    BY <1>0, <1>2, SameBound DEF BoundSides, Validate
  <1>3. CASE Register
    BY <1>0, <1>3, SameBound DEF BoundSides, Register
  <1>4. CASE NameBinders
    BY <1>0, <1>4, SameBound DEF BoundSides, NameBinders
  <1>5. CASE Wire
    <2>1. phase = "wire" /\ phase' = "wire" /\ bindings' = bindings
      BY <1>5 DEF Wire
    <2> QED
      BY <1>0, <2>1, SameBound DEF BoundSides
  <1>6. CASE Claim
    BY <1>6, SameBound DEF BoundSides, Claim
  <1>7. CASE StartBinding
    <2>1. phase = "wire" /\ phase' = "bind" /\ bindings' = bindings /\ at' = 1
      BY <1>7 DEF StartBinding
    <2> QED
      BY <1>0, <2>1, SameBound DEF BoundSides
  <1>8. CASE Bind
    <2> DEFINE e == Binding(2 * at - 1)
               f == Binding(2 * at)
               p == <<e, f>>
               r == bindings \o p
    <2>1. /\ phase = "bind" /\ phase' = "bind" /\ UNCHANGED <<input, accs, binders>> /\ at' = at + 1
          /\ bindings' = r
      BY <1>8 DEF Bind
    <2>2. IsSeq(bindings) /\ Len(bindings) = 2 * (at - 1)
      BY <2>1 DEF Bound, BoundSides
    <2>3. /\ IsSeq(r) /\ Len(r) = Len(bindings) + 2 /\ DOMAIN r = 1..(Len(bindings) + 2)
          /\ DOMAIN bindings = 1..Len(bindings)
          /\ \A i \in DOMAIN bindings : r[i] = bindings[i]
          /\ r[Len(bindings) + 1] = e /\ r[Len(bindings) + 2] = f
      <3> HIDE DEF e, f
      <3>1. p \in Seq({e, f}) /\ Len(p) = 2 /\ p[1] = e /\ p[2] = f
        OBVIOUS
      <3> HIDE DEF p
      <3>2. IsSeq(p)
        BY <3>1, OwnElements
      <3>3. IsSeq(bindings) /\ Len(p) = 2
        BY <2>2, <3>1
      <3>4. IsSeq(r) /\ DOMAIN bindings = 1..Len(bindings) /\ Len(r) = Len(bindings) + 2
        BY <3>2, <3>3, TwoMore
      <3>5. DOMAIN r = 1..(Len(bindings) + 2)
        BY <3>2, <3>3, TwoMore
      <3>6. \A i \in 1..Len(bindings) : r[i] = bindings[i]
        BY <3>2, <3>3, TwoMore
      <3>7. r[Len(bindings) + 1] = p[1] /\ r[Len(bindings) + 2] = p[2]
        BY <3>2, <3>3, TwoMore
      <3> HIDE DEF r
      <3> QED
        BY <3>1, <3>4, <3>5, <3>6, <3>7
    <2>4. Len(bindings) + 1 = 2 * at - 1 /\ Len(bindings) + 2 = 2 * at
      BY <1>00, <2>2
    <2>5. \A i \in 1..(2 * at) : i \in 1..Len(bindings) \/ i = 2 * at - 1 \/ i = 2 * at
      BY <1>00, <2>2
    <2>6. \A i \in DOMAIN r : r[i] = Binding(i)
      <3> HIDE DEF r
      <3> QED
        BY <2>3, <2>4, <2>5 DEF Bound
    <2>7. \A i : Binding(i)' = Binding(i)
      BY <2>1 DEF Binding, BinderOf
    <2>8. BoundSides' = 2 * at
      BY <1>00, <2>1 DEF BoundSides
    <2> HIDE DEF r
    <2>9. Len(r) = 2 * at
      BY <2>3, <2>4
    <2> QED
      BY <2>1, <2>3, <2>6, <2>7, <2>8, <2>9 DEF Bound
  <1>9. CASE Elect
    <2>1. phase = "bind" /\ phase' = "users" /\ UNCHANGED <<input, accs, binders, bindings>> /\ at > Len(input.wfs)
      BY <1>9 DEF Elect
    <2>2. at <= Len(input.wfs) + 1
      BY <2>1 DEF Ordered
    <2>3. 2 * (at - 1) = Len(Sides(input))
      BY <1>00, <2>1, <2>2
    <2>4. BoundSides' = BoundSides
      BY <2>1, <2>3 DEF BoundSides
    <2> QED
      BY <2>1, <2>4, SameBound
  <1>10. CASE User
    BY <1>10, SameBound DEF BoundSides, User
  <1>11. CASE Gate
    BY <1>11, SameBound DEF BoundSides, Gate
  <1>12. CASE Rest
    BY <1>1, <1>12 DEF Rest
  <1> QED
    BY <1>1, <1>2, <1>3, <1>4, <1>5, <1>6, <1>7, <1>8, <1>9, <1>10, <1>11, <1>12 DEF Next

\* What is wired of a binder.
LEMMA BinderFields ==
    ASSUME NEW a
    PROVE  LET b == Binder(a)
           IN  /\ b.name = a.name /\ b.key = a.key /\ b.system = a.system /\ b.pass = a.pass /\ b.tls = a.tls
               /\ b.trust = (IF a.tls /\ Configured(Store(input, a.trust)) THEN a.trust ELSE NoName)
               /\ b.store = (IF a.tls /\ Configured(Store(input, a.store)) THEN a.store ELSE NoName)
               /\ b.alias = (IF a.tls /\ Configured(Store(input, a.store)) THEN a.alias ELSE "")
  BY DEF Binder

\* What is said of a side that is bound.
LEMMA BindingFields ==
    ASSUME NEW i
    PROVE  /\ Binding(i).side = i
           /\ Binding(i).binder = BinderOf(Sides(input)[i])
           /\ Binding(i).dest = Sides(input)[i].dest
  BY DEF Binding

\* When every side is bound, there is the binder of each.
LEMMA AllWired ==
    ASSUME Ordered, Wired, ~Sidewise, phase # "wire"
    PROVE  /\ DOMAIN binders = DOMAIN accs
           /\ \A j \in DOMAIN binders : binders[j] = Binder(accs[j])
           /\ OnePerKey(input, accs, Len(Sides(input)))
           /\ Decoded(input) /\ Accepted(input)
           /\ DOMAIN Sides(input) = 1..Len(Sides(input)) /\ Len(Sides(input)) \in Nat
  <1>1. Len(binders) = Len(accs) /\ IsSeq(binders)
    BY DEF Wired, WiredBinders
  <1>2. OnePerKey(input, accs, Len(Sides(input)))
    BY DEF Ordered, JoinedSides
  <1>3. DOMAIN binders = DOMAIN accs
    BY <1>1, <1>2 DEF OnePerKey, IsSeq
  <1>4. Accepted(input)
    BY DEF Ordered, Sidewise
  <1> QED
    BY <1>2, <1>3, <1>4, InputIsDecoded, SidesAre DEF Wired

\* BinderOf: the binder a side joined has its key, and what it gathered.
LEMMA OwnBinder ==
    ASSUME Ordered, Wired, ~Sidewise, phase # "wire", NEW i \in DOMAIN Sides(input)
    PROVE  \E c \in DOMAIN binders :
               /\ Joins(input, accs[c], i) /\ binders[c].key = accs[c].key
               /\ BinderOf(Sides(input)[i]) = binders[c].name
  <1> DEFINE c == CHOOSE n \in DOMAIN accs : accs[n].key = DedupKey(Sides(input)[i])
  <1>1. \E n \in DOMAIN accs : accs[n].key = DedupKey(Sides(input)[i])
    BY AllWired DEF OnePerKey, Joins
  <1>2. c \in DOMAIN accs /\ accs[c].key = DedupKey(Sides(input)[i])
    BY <1>1
  <1>3. BinderOf(Sides(input)[i]) = binders[c].name
    BY DEF BinderOf
  <1> HIDE DEF c
  <1>4. binders[c] = Binder(accs[c]) /\ c \in DOMAIN binders
    BY <1>2, AllWired
  <1>5. binders[c].key = accs[c].key
    BY <1>4, BinderFields
  <1> QED
    BY <1>2, <1>3, <1>4, <1>5 DEF Joins

\* The binder a side joined connects as that side.
LEMMA BinderServes ==
    ASSUME Ordered, Wired, ~Sidewise, phase # "wire",
           NEW i \in DOMAIN Sides(input), NEW j \in DOMAIN binders, Joins(input, accs[j], i)
    PROVE  LET s == Sides(input)[i]
           IN  /\ binders[j].key = DedupKey(s)
               /\ binders[j].trust = s.trust /\ binders[j].store = s.key /\ binders[j].alias = s.alias
               /\ UsesTLS(s) => binders[j].tls
               /\ Empty(binders[j].pass) \/ SamePassword([pass |-> binders[j].pass], s)
  <1> DEFINE s == Sides(input)[i]
             a == accs[j]
             b == binders[j]
             d == Len(Sides(input))
  <1>1. b = Binder(a) /\ Gathered(input, a, d) /\ i \in 1..d /\ Decoded(input) /\ Accepted(input)
    BY AllWired DEF OnePerKey
  <1>2. /\ b.key = a.key /\ b.pass = a.pass /\ b.tls = a.tls
        /\ b.trust = (IF a.tls /\ Configured(Store(input, a.trust)) THEN a.trust ELSE NoName)
        /\ b.store = (IF a.tls /\ Configured(Store(input, a.store)) THEN a.store ELSE NoName)
        /\ b.alias = (IF a.tls /\ Configured(Store(input, a.store)) THEN a.alias ELSE "")
    <2> HIDE DEF a, b
    <2> QED
      BY <1>1, BinderFields
  <1>3. /\ a.trust = s.trust /\ a.store = s.key /\ a.alias = s.alias
        /\ UsesTLS(s) => a.tls
    BY <1>1 DEF Gathered
  <1>4. Sound(input, s)
    BY <1>1, SidesSound
  <1>5. /\ s.trust # NoName => Configured(Store(input, s.trust)) /\ UsesTLS(s)
        /\ s.key # NoName => Configured(Store(input, s.key)) /\ UsesTLS(s)
        /\ s.alias # "" => s.key # NoName
    BY <1>1, <1>4, StoresSound
  <1>6. b.trust = s.trust /\ b.store = s.key /\ b.alias = s.alias
    <2> HIDE DEF s, a, b
    <2> QED
      BY <1>2, <1>3, <1>5
  <1>7. PICK f \in 1..d : Joins(input, a, f) /\ a.pass = Sides(input)[f].pass
    BY <1>1 DEF Gathered
  <1>8. DedupKey(Sides(input)[f]) = DedupKey(s) /\ f \in DOMAIN Sides(input) /\ a.key = DedupKey(s)
    BY <1>7, AllWired DEF Joins
  <1>9. HasSystem(s) /\ HasSystem(Sides(input)[f])
    BY <1>1, <1>4, <1>8, SidesSound DEF Sound
  <1>10. SamePassword(Sides(input)[f], s)
    BY <1>1, <1>8, <1>9 DEF Accepted, CheckPasswordConflicts, SameBinder
  <1>11. SamePassword([pass |-> b.pass], s)
    <2>1. [pass |-> b.pass].pass = Sides(input)[f].pass
      BY <1>2, <1>7
    <2> HIDE DEF b, s
    <2> QED
      BY <1>10, <2>1 DEF SamePassword
  <1>12. UsesTLS(s) => b.tls
    BY <1>2, <1>3
  <1> QED
    BY <1>2, <1>6, <1>8, <1>11, <1>12

\* If no two binders have one name, what is built reaches every side's broker.
LEMMA BindingsReach == Ordered /\ Wired /\ Bound => (BindersDiffer => SidesReachTheirBroker)
  <1> SUFFICES ASSUME Ordered, Wired, Bound, BindersDiffer, Built, NEW i \in DOMAIN Sides(input)
               PROVE  LET s     == Sides(input)[i]
                          named == {j \in DOMAIN binders : binders[j].name = bindings[i].binder}
                      IN  /\ named # {}
                          /\ \A j \in named :
                              /\ binders[j].key = DedupKey(s)
                              /\ <<binders[j].trust, binders[j].store, binders[j].alias>> = <<s.trust, s.key, s.alias>>
                              /\ UsesTLS(s) => binders[j].tls
                              /\ Empty(binders[j].pass) \/ SamePassword([pass |-> binders[j].pass], s)
    BY DEF SidesReachTheirBroker
  <1>1. ~Sidewise /\ phase # "wire" /\ phase = "built"
    BY DEF Built, Sidewise
  <1>2. Len(bindings) = Len(Sides(input)) /\ IsSeq(bindings)
    BY <1>1 DEF Bound, BoundSides
  <1>3. i \in DOMAIN bindings
    BY <1>1, <1>2, AllWired DEF IsSeq
  <1>4. bindings[i].binder = BinderOf(Sides(input)[i])
    <2>1. bindings[i] = Binding(i)
      BY <1>3 DEF Bound
    <2> QED
      BY <2>1, BindingFields
  <1>5. PICK c \in DOMAIN binders : Joins(input, accs[c], i) /\ BinderOf(Sides(input)[i]) = binders[c].name
    BY <1>1, OwnBinder
  <1>6. ASSUME NEW j \in DOMAIN binders, binders[j].name = bindings[i].binder PROVE j = c
    BY <1>4, <1>5, <1>6 DEF BindersDiffer
  <1>7. binders[c].name = bindings[i].binder
    BY <1>4, <1>5
  <1>8. LET s == Sides(input)[i]
        IN  /\ binders[c].key = DedupKey(s)
            /\ binders[c].trust = s.trust /\ binders[c].store = s.key /\ binders[c].alias = s.alias
            /\ UsesTLS(s) => binders[c].tls
            /\ Empty(binders[c].pass) \/ SamePassword([pass |-> binders[c].pass], s)
    BY <1>1, <1>5, BinderServes
  <1> QED
    BY <1>5, <1>6, <1>7, <1>8

\* The invariant of the binders, of every step.
LEMMA WiringKeeps == Ordered /\ Wired /\ Bound /\ [Next]_vars => (Ordered /\ Wired /\ Bound)'
  BY OrderedKeeps, WiredKeeps, BoundKeeps

\* Build: every side's binding names a binder, and that one connects as the side, for every
\* input whose binders assignBinderNames tells apart.
THEOREM SidesReach == Spec => [](BindersDiffer => SidesReachTheirBroker)
  <1>1. Init => Ordered /\ Wired /\ Bound
    BY InitOrdered, InitWired
  <1> QED
    BY <1>1, WiringKeeps, BindingsReach, PTL DEF Spec

-----------------------------------------------------------------------------
(***************************************************************************)
(* The leader-election session.                                            *)
(***************************************************************************)
\* Whether there is one: what buildLeaderElection looks at.
Leads(in) == in.leader.mode \notin {"absent", "standalone"} /\ HasSystem(LeaderSession(in))

\* Its connection is Solace's and passed the checks of one.
LEMMA SessionIs ==
    ASSUME NEW in, Decoded(in), Accepted(in), in.leader.mode \notin {"absent", "standalone"}
    PROVE  /\ Leads(in)
           /\ Sound(in, LeaderSession(in)) /\ LeaderSession(in).system = "solace"
           /\ in.leader.mode \in ActiveModes
           /\ \/ /\ in.leader.ref = NoName /\ InlineSession(in) /\ LeaderSession(in) = in.leader.session
              \/ /\ in.leader.ref \in DOMAIN in.conns \ {NoName} /\ ~InlineSession(in)
                 /\ LeaderSession(in) = in.conns[in.leader.ref]
  <1> DEFINE le == in.leader
             s == LeaderSession(in)
  <1>1. CheckLeaderElection(in) /\ CheckConnections(in) /\ CheckDefaultsCredentials(in)
    BY DEF Accepted
  <1>2. le.mode \in ActiveModes
    BY <1>1 DEF CheckLeaderElection
  <1>3. CASE le.ref # NoName
    <2>1. le.ref \in DOMAIN in.conns /\ in.conns[le.ref].system = "solace"
      BY <1>1, <1>3 DEF CheckLeaderElection
    <2>2. s = in.conns[le.ref]
      BY <1>3, <2>1 DEF LeaderSession
    <2>3. s \in SideBlocks /\ CheckTuple(in, s) /\ CheckSideCredentials(s) /\ HasSystem(s)
      BY <1>1, <2>1, <2>2, ZenonT(40) DEF Decoded, CheckConnections
    <2>4. ~InlineSession(in)
      BY <1>3 DEF InlineSession
    <2>5. Sound(in, s)
      BY <2>3 DEF Sound
    <2>6. Leads(in)
      BY <2>3 DEF Leads
    <2> QED
      BY <1>2, <1>3, <2>1, <2>2, <2>4, <2>5, <2>6
  <1>4. CASE le.ref = NoName
    <2>1. HasSession(in) /\ CheckTuple(in, le.session)
      BY <1>1, <1>4 DEF CheckLeaderElection
    <2>2. s = le.session
      BY <1>4 DEF LeaderSession
    <2>3. s \in SideBlocks /\ s.system # "mq"
      BY <2>2 DEF Decoded
    <2>4. s.system = "solace"
      BY <2>1, <2>2, <2>3 DEF HasSession, SideBlocks, Systems
    <2>5. CheckSideCredentials(s)
      BY <1>1, <2>1, <2>2 DEF CheckDefaultsCredentials
    <2>6. HasSystem(s)
      BY <2>4 DEF HasSystem, Systems
    <2>7. Sound(in, s)
      BY <2>1, <2>2, <2>3, <2>5, <2>6 DEF Sound
    <2>8. InlineSession(in)
      BY <1>2, <1>4, <2>2, <2>4 DEF InlineSession
    <2>9. Leads(in)
      BY <2>6 DEF Leads
    <2> QED
      BY <1>2, <1>4, <2>2, <2>4, <2>7, <2>8, <2>9
  <1> QED
    BY <1>3, <1>4

\* selectedStoreNames looks at the workflows' sides, and at the session build renders.
LEMMA RenderedAre ==
    ASSUME NEW in, Decoded(in), Accepted(in), NEW s
    PROVE  s \in RenderedSides(in) <=> \/ \E i \in DOMAIN Sides(in) : s = Sides(in)[i]
                                       \/ Leads(in) /\ s = LeaderSession(in)
  <1>1. CASE in.leader.mode \notin {"absent", "standalone"}
    <2>1. LeaderConnRef(in) = in.leader.ref
      BY <1>1, SessionIs DEF LeaderConnRef
    <2> QED
      BY <1>1, <2>1, SessionIs DEF RenderedSides
  <1>2. CASE in.leader.mode \in {"absent", "standalone"}
    <2>1. ~InlineSession(in) /\ LeaderConnRef(in) = NoName
      BY <1>2 DEF InlineSession, LeaderConnRef, ActiveModes
    <2>2. ~Leads(in)
      BY <1>2 DEF Leads
    <2> QED
      BY <2>1, <2>2 DEF RenderedSides
  <1> QED
    BY <1>1, <1>2

\* What is rendered passed the checks.
LEMMA RenderedSound ==
    ASSUME NEW in, Decoded(in), Accepted(in), NEW s \in RenderedSides(in)
    PROVE  Sound(in, s)
  <1>1. CASE \E i \in DOMAIN Sides(in) : s = Sides(in)[i]
    BY <1>1, SidesSound
  <1>2. CASE Leads(in) /\ s = LeaderSession(in)
    BY <1>2, SessionIs DEF Leads
  <1> QED
    BY <1>1, <1>2, RenderedAre

-----------------------------------------------------------------------------
(***************************************************************************)
(* The stores that are used.                                               *)
(***************************************************************************)
\* f says how the connections U use each store.
UsedAs(in, f, U) ==
    /\ \A n : n \in DOMAIN f <=> \E u \in U : n \in Selected(in, u)
    /\ \A n \in DOMAIN f : /\ f[n].trusted \in BOOLEAN /\ f[n].private \in BOOLEAN
                           /\ f[n].trusted <=> \E u \in U : n \in Selected(in, u) /\ n = u.trust
                           /\ f[n].private <=> \E u \in U : n \in Selected(in, u) /\ n = u.key

\* The connections that have used theirs.
Elected == phase \in {"users", "built", "refused"} /\ Leads(input)

Users == {AsSide(accs[k]) : k \in 1..WiredBinders} \cup (IF Elected THEN {LeaderSession(input)} ELSE {})

\* UseStores: one connection more.
LEMMA UseStoresAdds ==
    ASSUME NEW U, NEW s, UsedAs(input, stores, U), UseStores(s)
    PROVE  UsedAs(input, stores', U \cup {s})
  <1> DEFINE sel == Selected(input, s)
             Use(n) == [trusted |-> n = s.trust \/ (n \in DOMAIN stores /\ stores[n].trusted),
                        private |-> n = s.key \/ (n \in DOMAIN stores /\ stores[n].private)]
             f == stores'
  <1>1. f = [n \in DOMAIN stores \cup sel |-> IF n \in sel THEN Use(n) ELSE stores[n]]
    BY DEF UseStores
  <1>2. \A n \in sel : n = s.trust \/ n = s.key
    BY DEF Selected
  <1> HIDE DEF sel, f
  <1>3. \A n : n \in DOMAIN f <=> \E u \in U \cup {s} : n \in Selected(input, u)
    BY <1>1 DEF UsedAs, sel
  <1>4. ASSUME NEW n \in DOMAIN f
        PROVE  /\ f[n].trusted \in BOOLEAN
               /\ f[n].trusted <=> \E u \in U \cup {s} : n \in Selected(input, u) /\ n = u.trust
    <2>1. CASE n \in sel
      <3>1. f[n].trusted = (n = s.trust \/ (n \in DOMAIN stores /\ stores[n].trusted))
        BY <1>1, <2>1
      <3>2. n \in DOMAIN stores => (stores[n].trusted <=> \E u \in U : n \in Selected(input, u) /\ n = u.trust)
        BY DEF UsedAs
      <3>3. (\E u \in U : n \in Selected(input, u)) => n \in DOMAIN stores
        BY DEF UsedAs
      <3>4. f[n].trusted \in BOOLEAN
        BY <3>1
      <3>5. n \in Selected(input, s)
        BY <2>1 DEF sel
      <3>6. f[n].trusted <=> (n = s.trust \/ (n \in DOMAIN stores /\ stores[n].trusted))
        BY <3>1
      <3> QED
        BY <3>2, <3>3, <3>4, <3>5, <3>6
    <2>2. CASE n \notin sel
      <3>1. f[n] = stores[n] /\ n \in DOMAIN stores
        BY <1>1, <2>2
      <3> QED
        BY <2>2, <3>1 DEF UsedAs, sel
    <2> QED
      BY <2>1, <2>2
  <1>5. ASSUME NEW n \in DOMAIN f
        PROVE  /\ f[n].private \in BOOLEAN
               /\ f[n].private <=> \E u \in U \cup {s} : n \in Selected(input, u) /\ n = u.key
    <2>1. CASE n \in sel
      <3>1. f[n].private = (n = s.key \/ (n \in DOMAIN stores /\ stores[n].private))
        BY <1>1, <2>1
      <3>2. n \in DOMAIN stores => (stores[n].private <=> \E u \in U : n \in Selected(input, u) /\ n = u.key)
        BY DEF UsedAs
      <3>3. (\E u \in U : n \in Selected(input, u)) => n \in DOMAIN stores
        BY DEF UsedAs
      <3>4. f[n].private \in BOOLEAN
        BY <3>1
      <3>5. n \in Selected(input, s)
        BY <2>1 DEF sel
      <3>6. f[n].private <=> (n = s.key \/ (n \in DOMAIN stores /\ stores[n].private))
        BY <3>1
      <3> QED
        BY <3>2, <3>3, <3>4, <3>5, <3>6
    <2>2. CASE n \notin sel
      <3>1. f[n] = stores[n] /\ n \in DOMAIN stores
        BY <1>1, <2>2
      <3> QED
        BY <2>2, <3>1 DEF UsedAs, sel
    <2> QED
      BY <2>1, <2>2
  <1>6. UsedAs(input, f, U \cup {s})
    BY <1>3, <1>4, <1>5 DEF UsedAs
  <1> QED
    BY <1>6 DEF f

\* Build's stores, of every state.
StoresUsed == UsedAs(input, stores, Users)

\* No store is used before the files are read.
LEMMA InitStores == Init => StoresUsed
  <1> SUFFICES ASSUME Init PROVE StoresUsed
    OBVIOUS
  <1>1. phase = "check" /\ stores = <<>>
    BY DEF Init
  <1>2. Users = {}
    BY <1>1 DEF Users, WiredBinders, Sidewise, Elected
  <1> QED
    BY <1>1, <1>2 DEF StoresUsed, UsedAs

\* A step that adds no connection.
LEMMA SameStores ==
    ASSUME StoresUsed, UNCHANGED <<input, stores>>, Users' = Users
    PROVE  StoresUsed'
  BY DEF StoresUsed

\* The connections are the same when none is wired and the session is not elected.
LEMMA SameUsers ==
    ASSUME UNCHANGED input, WiredBinders = 0 \/ UNCHANGED accs, WiredBinders' = WiredBinders, Elected' <=> Elected
    PROVE  Users' = Users
  <1>1. CASE WiredBinders = 0
    BY <1>1 DEF Users
  <1>2. CASE UNCHANGED accs
    BY <1>2 DEF Users, AsSide
  <1> QED
    BY <1>1, <1>2

\* UseStores is what is known of the stores after every step.
LEMMA StoresKeep == Ordered /\ StoresUsed /\ [Next]_vars => StoresUsed'
  <1> SUFFICES ASSUME Ordered, StoresUsed, [Next]_vars PROVE StoresUsed'
    OBVIOUS
  <1> USE DEF Sidewise
  <1>0. at \in Nat /\ Len(accs) \in Nat
    BY DEF Ordered, OnePerKey, IsSeq
  <1>1. CASE UNCHANGED vars
    BY <1>1, SameUsers, SameStores DEF WiredBinders, Elected, vars
  <1>2. CASE Validate
    BY <1>2, SameUsers, SameStores DEF WiredBinders, Elected, Validate
  <1>3. CASE Register
    BY <1>3, SameUsers, SameStores DEF WiredBinders, Elected, Register
  <1>4. CASE NameBinders
    <2>1. phase = "register" /\ phase' = "wire" /\ at' = 1 /\ UNCHANGED <<input, stores>>
      BY <1>4 DEF NameBinders
    <2> QED
      BY <2>1, SameUsers, SameStores DEF WiredBinders, Elected
  <1>5. CASE Wire
    <2> DEFINE s == AsSide(accs[at])
    <2>1. phase = "wire" /\ phase' = "wire" /\ at' = at + 1 /\ UNCHANGED <<input, accs>> /\ UseStores(s)
      BY <1>5 DEF Wire
    <2>2. 1..WiredBinders' = (1..WiredBinders) \cup {at}
      BY <1>0, <2>1 DEF WiredBinders, Ordered
    <2>3. \A a : AsSide(a)' = AsSide(a)
      BY DEF AsSide
    <2>4. ~Elected /\ ~Elected'
      BY <2>1 DEF Elected
    <2>5. Users' = Users \cup {s}
      <3>1. Users = {AsSide(accs[k]) : k \in 1..WiredBinders}
        BY <2>4 DEF Users
      <3>2. Users' = {AsSide(accs[k]) : k \in (1..WiredBinders) \cup {at}}
        BY <2>1, <2>2, <2>3, <2>4 DEF Users
      <3> QED
        BY <3>1, <3>2
    <2> HIDE DEF s
    <2>6. UsedAs(input, stores', Users \cup {s})
      BY <2>1, UseStoresAdds DEF StoresUsed
    <2> QED
      BY <2>1, <2>5, <2>6 DEF StoresUsed
  <1>6. CASE Claim
    BY <1>6, SameUsers, SameStores DEF WiredBinders, Elected, Claim
  <1>7. CASE StartBinding
    <2>1. phase = "wire" /\ phase' = "bind" /\ UNCHANGED <<input, accs, stores>> /\ at > Len(accs)
      BY <1>7 DEF StartBinding
    <2>2. at <= Len(accs) + 1
      BY <2>1 DEF Ordered
    <2>3. WiredBinders' = WiredBinders /\ ~Elected /\ ~Elected'
      BY <1>0, <2>1, <2>2 DEF WiredBinders, Elected
    <2> QED
      BY <2>1, <2>3, SameUsers, SameStores
  <1>8. CASE Bind
    BY <1>8, SameUsers, SameStores DEF WiredBinders, Elected, Bind
  <1>9. CASE Elect
    <2> DEFINE s == LeaderSession(input)
    <2>1. phase = "bind" /\ phase' = "users" /\ UNCHANGED <<input, accs>> /\ WiredBinders' = WiredBinders
      BY <1>9 DEF Elect, WiredBinders
    <2>2. CASE ~Leads(input)
      <3>1. stores' = stores
        BY <1>9, <2>2 DEF Elect, Leads
      <3>2. ~Elected /\ ~Elected'
        BY <2>1, <2>2 DEF Elected
      <3> QED
        BY <2>1, <3>1, <3>2, SameUsers, SameStores
    <2>3. CASE Leads(input)
      <3>1. UseStores(s)
        BY <1>9, <2>3 DEF Elect, Leads
      <3>2. ~Elected /\ Elected'
        BY <2>1, <2>3 DEF Elected
      <3>3. Users' = Users \cup {s}
        BY <2>1, <3>2 DEF Users, AsSide
      <3> HIDE DEF s
      <3>4. UsedAs(input, stores', Users \cup {s})
        BY <3>1, UseStoresAdds DEF StoresUsed
      <3> QED
        BY <2>1, <3>3, <3>4 DEF StoresUsed
    <2> QED
      BY <2>2, <2>3
  <1>10. CASE User
    <2>1. phase = "users" /\ phase' = "users" /\ UNCHANGED <<input, accs, stores>>
      BY <1>10 DEF User
    <2> QED
      BY <2>1, SameUsers, SameStores DEF WiredBinders, Elected
  <1>11. CASE Gate
    <2>1. phase = "users" /\ phase' \in {"built", "refused"} /\ UNCHANGED <<input, accs, stores>>
      BY <1>11 DEF Gate
    <2> QED
      BY <2>1, SameUsers, SameStores DEF WiredBinders, Elected
  <1>12. CASE Rest
    BY <1>1, <1>12 DEF Rest
  <1> QED
    BY <1>1, <1>2, <1>3, <1>4, <1>5, <1>6, <1>7, <1>8, <1>9, <1>10, <1>11, <1>12 DEF Next

\* A binder uses TLS if a side of it does.
LEMMA BinderTLS ==
    ASSUME NEW in, Decoded(in), Accepted(in), NEW d, d = Len(Sides(in)), NEW a, Gathered(in, a, d)
    PROVE  UsesTLS(AsSide(a)) <=> a.tls
  <1>1. PICK f \in 1..d : Joins(in, a, f) /\ a.system = Sides(in)[f].system
    BY DEF Gathered
  <1>2. DOMAIN Sides(in) = 1..d
    BY SidesAre
  <1>3. a.key[2] = Sides(in)[f].broker
    BY <1>1 DEF Joins, DedupKey
  <1>4. CASE a.system = "solace"
    <2>1. UsesTLS(AsSide(a)) <=> UsesTLS(Sides(in)[f])
      <3>1. AsSide(a).system = "solace" /\ AsSide(a).broker = Sides(in)[f].broker
        BY <1>3, <1>4 DEF AsSide
      <3> QED
        BY <1>1, <1>4, <3>1 DEF UsesTLS
    <2>2. \A k \in 1..d : Joins(in, a, k) => (UsesTLS(Sides(in)[k]) <=> UsesTLS(Sides(in)[f]))
      <3> SUFFICES ASSUME NEW k \in 1..d, Joins(in, a, k)
                   PROVE  UsesTLS(Sides(in)[k]) <=> UsesTLS(Sides(in)[f])
        OBVIOUS
      <3>1. DedupKey(Sides(in)[k]) = DedupKey(Sides(in)[f])
        BY <1>1 DEF Joins
      <3>2. Sides(in)[k].system = "solace"
        BY <1>1, <1>4, <3>1 DEF DedupKey
      <3>3. k \in DOMAIN Sides(in) /\ f \in DOMAIN Sides(in)
        BY <1>2
      <3>4. UsesTLS(Sides(in)[k]) = UsesTLS(Sides(in)[f])
        BY <3>1, <3>2, <3>3, SameSelection
      <3> QED
        BY <3>4
    <2> QED
      BY <1>1, <2>1, <2>2 DEF Gathered
  <1>5. CASE a.system # "solace"
    <2>1. AsSide(a).system # "solace" /\ AsSide(a).tls = a.tls
      BY <1>5 DEF AsSide
    <2> QED
      BY <2>1 DEF UsesTLS
  <1> QED
    BY <1>4, <1>5

\* A binder selects a store, as its truststore or its keystore, if a side of it does.
LEMMA BinderSelects ==
    ASSUME NEW in, Decoded(in), Accepted(in), NEW d, d = Len(Sides(in)), NEW a, Gathered(in, a, d), NEW n
    PROVE  LET s == AsSide(a)
           IN  /\ n \in Selected(in, s) <=> \E k \in 1..d : Joins(in, a, k) /\ n \in Selected(in, Sides(in)[k])
               /\ \A k \in 1..d : Joins(in, a, k) => s.trust = Sides(in)[k].trust /\ s.key = Sides(in)[k].key
  <1> DEFINE s == AsSide(a)
  <1>1. s.trust = a.trust /\ s.key = a.store
    BY DEF AsSide
  <1>2. \A k \in 1..d : Joins(in, a, k) => s.trust = Sides(in)[k].trust /\ s.key = Sides(in)[k].key
    BY <1>1 DEF Gathered
  <1>3. UsesTLS(s) <=> \E k \in 1..d : Joins(in, a, k) /\ UsesTLS(Sides(in)[k])
    BY BinderTLS DEF Gathered
  <1> HIDE DEF s
  <1>4. n \in Selected(in, s) <=> \E k \in 1..d : Joins(in, a, k) /\ n \in Selected(in, Sides(in)[k])
    BY <1>2, <1>3 DEF Selected
  <1> QED
    BY <1>2, <1>4 DEF s

\* A rendered connection selects the stores it names, if it uses TLS.
LEMMA SelectedIs ==
    ASSUME NEW in, Decoded(in), Accepted(in), NEW s \in RenderedSides(in), NEW n
    PROVE  n \in Selected(in, s) <=> UsesTLS(s) /\ n \in {s.trust, s.key} \ {NoName}
  <1>1. Sound(in, s)
    BY RenderedSound
  <1>2. /\ s.trust # NoName => Configured(Store(in, s.trust))
        /\ s.key # NoName => Configured(Store(in, s.key))
    BY <1>1, StoresSound
  <1>3. ~Configured(Store(in, NoName))
    BY DEF Store, NoStore, Configured, Created
  <1> QED
    BY <1>2, <1>3 DEF Selected

\* When all is built, what uses a store is what validate takes to be rendered.
LEMMA UsersAreRendered ==
    ASSUME Ordered, Wired, Built, NEW n
    PROVE  /\ (\E u \in Users : n \in Selected(input, u))
                  <=> \E s \in RenderedSides(input) : n \in Selected(input, s)
           /\ (\E u \in Users : n \in Selected(input, u) /\ n = u.trust)
                  <=> \E s \in RenderedSides(input) : n \in Selected(input, s) /\ n = s.trust
           /\ (\E u \in Users : n \in Selected(input, u) /\ n = u.key)
                  <=> \E s \in RenderedSides(input) : n \in Selected(input, s) /\ n = s.key
  <1> DEFINE d == Len(Sides(input))
  <1>1. ~Sidewise /\ phase = "built" /\ phase # "wire"
    BY DEF Built, Sidewise
  <1>2. /\ OnePerKey(input, accs, d) /\ Decoded(input) /\ Accepted(input) /\ DOMAIN Sides(input) = 1..d
        /\ DOMAIN accs = 1..Len(accs)
    BY <1>1, AllWired DEF OnePerKey, IsSeq
  <1>3. \A u : u \in Users <=> \/ \E j \in DOMAIN accs : u = AsSide(accs[j])
                               \/ Leads(input) /\ u = LeaderSession(input)
    <2>1. WiredBinders = Len(accs) /\ (Elected <=> Leads(input))
      BY <1>1 DEF WiredBinders, Elected
    <2> QED
      BY <1>2, <2>1 DEF Users
  <1>4. \A s : s \in RenderedSides(input) <=> \/ \E i \in 1..d : s = Sides(input)[i]
                                              \/ Leads(input) /\ s = LeaderSession(input)
    BY <1>2, RenderedAre
  <1>5. ASSUME NEW j \in DOMAIN accs
        PROVE  /\ n \in Selected(input, AsSide(accs[j]))
                      <=> \E k \in 1..d : Joins(input, accs[j], k) /\ n \in Selected(input, Sides(input)[k])
               /\ \A k \in 1..d : Joins(input, accs[j], k) => /\ AsSide(accs[j]).trust = Sides(input)[k].trust
                                                              /\ AsSide(accs[j]).key = Sides(input)[k].key
    <2> DEFINE a == accs[j]
    <2>1. Gathered(input, a, d)
      BY <1>2 DEF OnePerKey
    <2> HIDE DEF a
    <2>2. /\ n \in Selected(input, AsSide(a)) <=> \E k \in 1..d : Joins(input, a, k) /\ n \in Selected(input, Sides(input)[k])
          /\ \A k \in 1..d : Joins(input, a, k) => AsSide(a).trust = Sides(input)[k].trust /\ AsSide(a).key = Sides(input)[k].key
      BY <1>2, <2>1, BinderSelects
    <2> QED
      BY <2>2 DEF a
  <1>6. \A k \in 1..d : \E j \in DOMAIN accs : Joins(input, accs[j], k)
    BY <1>2 DEF OnePerKey
  <1> HIDE DEF d
  <1>7. (\E u \in Users : n \in Selected(input, u)) <=> \E s \in RenderedSides(input) : n \in Selected(input, s)
    BY <1>3, <1>4, <1>5, <1>6
  <1>8. (\E u \in Users : n \in Selected(input, u) /\ n = u.trust)
            <=> \E s \in RenderedSides(input) : n \in Selected(input, s) /\ n = s.trust
    BY <1>3, <1>4, <1>5, <1>6
  <1>9. (\E u \in Users : n \in Selected(input, u) /\ n = u.key)
            <=> \E s \in RenderedSides(input) : n \in Selected(input, s) /\ n = s.key
    BY <1>3, <1>4, <1>5, <1>6
  <1> QED
    BY <1>7, <1>8, <1>9

\* selectedStoreNames: what build makes of the stores is what validate said.
LEMMA StoresPredicted ==
    ASSUME Ordered, Wired, StoresUsed, Built
    PROVE  /\ DOMAIN stores = SelectedStoreNames(input)
           /\ \A n \in DOMAIN stores :
                 /\ stores[n].trusted = \E s \in RenderedSides(input) : UsesTLS(s) /\ s.trust = n
                 /\ stores[n].private = \E s \in RenderedSides(input) : UsesTLS(s) /\ s.key = n
  <1>1. Decoded(input) /\ Accepted(input)
    BY InputIsDecoded DEF Ordered, Built
  <1>2. \A n : n \in DOMAIN stores <=> \E s \in RenderedSides(input) : n \in Selected(input, s)
    BY UsersAreRendered DEF StoresUsed, UsedAs
  <1>3. \A n : n \in SelectedStoreNames(input)
                 <=> \E s \in RenderedSides(input) : UsesTLS(s) /\ n \in {s.trust, s.key} \ {NoName}
    BY DEF SelectedStoreNames
  <1>4. \A n, s : s \in RenderedSides(input) =>
            (n \in Selected(input, s) <=> UsesTLS(s) /\ n \in {s.trust, s.key} \ {NoName})
    BY <1>1, SelectedIs
  <1>5. DOMAIN stores = SelectedStoreNames(input)
    BY <1>2, <1>3, <1>4
  <1>6. ASSUME NEW n \in DOMAIN stores
        PROVE  /\ stores[n].trusted = \E s \in RenderedSides(input) : UsesTLS(s) /\ s.trust = n
               /\ stores[n].private = \E s \in RenderedSides(input) : UsesTLS(s) /\ s.key = n
    <2>1. n # NoName
      BY <1>2, <1>4
    <2>2. \A s \in RenderedSides(input) :
              /\ (n \in Selected(input, s) /\ n = s.trust) <=> (UsesTLS(s) /\ s.trust = n)
              /\ (n \in Selected(input, s) /\ n = s.key) <=> (UsesTLS(s) /\ s.key = n)
      BY <1>4, <2>1
    <2>3. /\ stores[n].trusted \in BOOLEAN /\ stores[n].private \in BOOLEAN
          /\ stores[n].trusted <=> \E s \in RenderedSides(input) : n \in Selected(input, s) /\ n = s.trust
          /\ stores[n].private <=> \E s \in RenderedSides(input) : n \in Selected(input, s) /\ n = s.key
      BY UsersAreRendered DEF StoresUsed, UsedAs
    <2>4. stores[n].trusted <=> \E s \in RenderedSides(input) : UsesTLS(s) /\ s.trust = n
      BY <2>2, <2>3
    <2>5. stores[n].private <=> \E s \in RenderedSides(input) : UsesTLS(s) /\ s.key = n
      BY <2>2, <2>3
    <2> QED
      BY <2>3, <2>4, <2>5
  <1> QED
    BY <1>5, <1>6

-----------------------------------------------------------------------------
(***************************************************************************)
(* The placeholders, and where each comes from.                            *)
(***************************************************************************)
\* One is named after its position, or after the host variable it is.
Proper(r) ==
    /\ r.cred \in Credentials /\ ~Empty(r.cred) /\ CheckCred(r.cred)
    /\ IF r.cred.env # NoName THEN r.name = r.cred.env ELSE Generated(r.name)

\* A binder's password is its first side's; a session on its connection may say one.
PasswordOf(j, c) ==
    \/ c = accs[j].pass
    \/ Elected /\ accs[j].key = DedupKey(LeaderSession(input)) /\ c = LeaderSession(input).pass

Origin(r) ==
    \/ \E j \in DOMAIN binders : r.from = <<"user of", binders[j].name>> /\ r.cred = accs[j].user
    \/ \E j \in DOMAIN binders : r.from = <<"password of", binders[j].name>> /\ PasswordOf(j, r.cred)
    \/ Elected /\ r.from = <<"user of", NoName>> /\ r.cred = LeaderSession(input).user
    \/ Elected /\ r.from = <<"password of", NoName>> /\ r.cred = LeaderSession(input).pass
    \/ \E n \in DOMAIN stores : r.from = <<"store", n>> /\ r.cred = Store(input, n).pass
    \/ \E k \in DOMAIN input.users : r.from = <<"user", input.users[k].name>> /\ r.cred = input.users[k].pass

Refs == \A r \in refs : Proper(r) /\ Origin(r)

\* What is waiting, mounted or in conflict was written.
Kept ==
    /\ Elements(claims) \subseteq refs
    /\ \A n \in DOMAIN secrets : secrets[n].name = n /\ secrets[n] \in refs
    /\ \A c \in conflicts : c[1] \in refs /\ c[2] \in refs /\ c[1].name = c[2].name /\ c[1].cred # c[2].cred

\* No placeholder is written before the files are read.
LEMMA InitRefs == Init => Refs /\ Kept
  <1> SUFFICES ASSUME Init PROVE Refs /\ Kept
    OBVIOUS
  <1>1. refs = {} /\ claims = <<>> /\ secrets = <<>> /\ conflicts = {}
    BY DEF Init
  <1> QED
    BY <1>1 DEF Refs, Kept, Elements

\* What a placeholder comes from is never taken back.
Grows ==
    /\ input' = input
    /\ \A j \in DOMAIN binders : j \in DOMAIN binders' /\ binders'[j] = binders[j] /\ accs'[j] = accs[j]
    /\ DOMAIN stores \subseteq DOMAIN stores'
    /\ Elected => Elected'

\* A placeholder's position stays what it was.
LEMMA OriginStays ==
    ASSUME Grows, NEW r, Origin(r)
    PROVE  Origin(r)'
  <1>1. \A j, c : j \in DOMAIN binders /\ PasswordOf(j, c) => PasswordOf(j, c)'
    BY DEF Grows, PasswordOf
  <1>2. CASE \E j \in DOMAIN binders : r.from = <<"user of", binders[j].name>> /\ r.cred = accs[j].user
    BY <1>2 DEF Grows, Origin
  <1>3. CASE \E j \in DOMAIN binders : r.from = <<"password of", binders[j].name>> /\ PasswordOf(j, r.cred)
    BY <1>1, <1>3 DEF Grows, Origin
  <1>4. CASE Elected /\ r.from = <<"user of", NoName>> /\ r.cred = LeaderSession(input).user
    BY <1>4 DEF Grows, Origin
  <1>5. CASE Elected /\ r.from = <<"password of", NoName>> /\ r.cred = LeaderSession(input).pass
    BY <1>5 DEF Grows, Origin
  <1>6. CASE \E n \in DOMAIN stores : r.from = <<"store", n>> /\ r.cred = Store(input, n).pass
    BY <1>6 DEF Grows, Origin
  <1>7. CASE \E k \in DOMAIN input.users : r.from = <<"user", input.users[k].name>> /\ r.cred = input.users[k].pass
    BY <1>7 DEF Grows, Origin
  <1> QED
    BY <1>2, <1>3, <1>4, <1>5, <1>6, <1>7 DEF Origin

\* A connection's stores are added to those of the others.
LEMMA UseStoresGrows ==
    ASSUME NEW s, UseStores(s)
    PROVE  DOMAIN stores \subseteq DOMAIN stores' /\ Selected(input, s) \subseteq DOMAIN stores'
  BY DEF UseStores

\* No step takes back a binder, a used store or the session.
LEMMA AlwaysGrows == Ordered /\ Wired /\ [Next]_vars => Grows
  <1> SUFFICES ASSUME Ordered, Wired, [Next]_vars PROVE Grows
    OBVIOUS
  <1> USE DEF Sidewise
  <1>0. Sidewise => DOMAIN binders = {}
    BY DEF Wired, WiredBinders, IsSeq
  <1>1. CASE UNCHANGED vars
    BY <1>1 DEF Grows, Elected, vars
  <1>2. CASE Validate
    BY <1>2 DEF Grows, Elected, Validate
  <1>3. CASE Register
    <2>1. phase = "register" /\ phase' = "register" /\ UNCHANGED <<input, binders, stores>>
      BY <1>3 DEF Register
    <2> QED
      BY <1>0, <2>1 DEF Grows, Elected
  <1>4. CASE NameBinders
    <2>1. phase = "register" /\ phase' = "wire" /\ UNCHANGED <<input, binders, stores>>
      BY <1>4 DEF NameBinders
    <2> QED
      BY <1>0, <2>1 DEF Grows, Elected
  <1>5. CASE Wire
    <2>1. /\ phase = "wire" /\ UNCHANGED <<input, accs>> /\ UseStores(AsSide(accs[at]))
          /\ binders' = Append(binders, Binder(accs[at]))
      BY <1>5 DEF Wire
    <2> DEFINE e == Binder(accs[at])
    <2> HIDE DEF e
    <2>2. binders' = Append(binders, e)
      BY <2>1 DEF e
    <2>3. \A j \in DOMAIN binders : j \in DOMAIN binders' /\ binders'[j] = binders[j]
      BY <2>2, OneMore DEF Wired
    <2>4. ~Elected
      BY <2>1 DEF Elected
    <2> QED
      BY <2>1, <2>3, <2>4, UseStoresGrows DEF Grows
  <1>6. CASE Claim
    BY <1>6 DEF Grows, Elected, Claim
  <1>7. CASE StartBinding
    BY <1>7 DEF Grows, Elected, StartBinding
  <1>8. CASE Bind
    BY <1>8 DEF Grows, Elected, Bind
  <1>9. CASE Elect
    <2>1. phase = "bind" /\ phase' = "users" /\ UNCHANGED <<input, accs, binders>>
          /\ (UNCHANGED stores \/ UseStores(LeaderSession(input)))
      BY <1>9 DEF Elect
    <2> QED
      BY <2>1, UseStoresGrows DEF Grows, Elected
  <1>10. CASE User
    <2>1. phase = "users" /\ phase' = "users" /\ UNCHANGED <<input, accs, binders, stores>>
      BY <1>10 DEF User
    <2> QED
      BY <2>1 DEF Grows, Elected
  <1>11. CASE Gate
    <2>1. phase = "users" /\ phase' \in {"built", "refused"} /\ UNCHANGED <<input, accs, binders, stores>>
      BY <1>11 DEF Gate
    <2> QED
      BY <2>1 DEF Grows, Elected
  <1>12. CASE Rest
    BY <1>1, <1>12 DEF Rest
  <1> QED
    BY <1>1, <1>2, <1>3, <1>4, <1>5, <1>6, <1>7, <1>8, <1>9, <1>10, <1>11, <1>12 DEF Next

\* Positions that may be written by this step.
Sourced(p) == IsSeq(p) /\ \A r \in Elements(p) : Proper(r) /\ Origin(r)'

\* Positions that may be written may be written together.
LEMMA SourcedTogether ==
    ASSUME NEW p, NEW q, Sourced(p), Sourced(q)
    PROVE  Sourced(p \o q)
  <1>1. IsSeq(p) /\ IsSeq(q)
    BY DEF Sourced
  <1>2. IsSeq(p \o q) /\ Elements(p \o q) \subseteq Elements(p) \cup Elements(q)
    BY <1>1, Together, ElementsTogether
  <1> DEFINE r == p \o q
  <1> HIDE DEF r
  <1>3. IsSeq(r) /\ Elements(r) \subseteq Elements(p) \cup Elements(q)
    BY <1>2 DEF r
  <1>4. Sourced(r)
    BY <1>3 DEF Sourced
  <1> QED
    BY <1>4 DEF r

\* One position writes at most its own placeholder.
LEMMA PositionSourced ==
    ASSUME NEW from, NEW stable, Generated(stable), NEW c, c \in Credentials, CheckCred(c),
           \A name : ~Empty(c) => Origin([name |-> name, cred |-> c, from |-> from])'
    PROVE  Sourced(Position(from, stable, c))
  <1> DEFINE r == [name |-> Mount(stable, c), cred |-> c, from |-> from]
             p == Position(from, stable, c)
  <1>1. IsSeq(p)
    BY PositionIsSeq
  <1>2. CASE Empty(c)
    <2>1. p = <<>>
      BY <1>2 DEF Position
    <2>2. Elements(p) = {}
      BY <2>1 DEF Elements
    <2> QED
      BY <1>1, <2>2 DEF Sourced
  <1>3. CASE ~Empty(c)
    <2>1. p = <<r>>
      BY <1>3 DEF Position
    <2>2. Elements(p) = {r}
      <3> HIDE DEF r, p
      <3> QED
        BY <2>1 DEF Elements
    <2>3. Origin(r)'
      BY <1>3
    <2>4. r.cred = c /\ r.name = Mount(stable, c)
      OBVIOUS
    <2> HIDE DEF r, p
    <2>5. Proper(r)
      BY <1>3, <2>4 DEF Proper, Mount
    <2>6. Sourced(p)
      BY <1>1, <2>2, <2>3, <2>5 DEF Sourced
    <2> QED
      BY <2>6 DEF p
  <1> QED
    BY <1>2, <1>3

\* A store's password is written by the connection that uses the store.
LEMMA StorePositionsSourced ==
    ASSUME Decoded(input), Accepted(input), input' = input, NEW s, IsSeq(s.trust), IsSeq(s.key), UseStores(s)
    PROVE  Sourced(StorePositions(s))
  <1> DEFINE Of(n) == IF UsesTLS(s) /\ Configured(Store(input, n))
                      THEN Position(<<"store", n>>, StorePasswordName(n), Store(input, n).pass) ELSE <<>>
  <1>1. ASSUME NEW n \in {s.trust, s.key}
        PROVE  Sourced(Of(n))
    <2>1. CASE ~(UsesTLS(s) /\ Configured(Store(input, n)))
      <3>1. Of(n) = <<>>
        BY <2>1
      <3>2. Elements(<<>>) = {} /\ IsSeq(<<>>)
        BY EmptyIsSeq DEF Elements
      <3> QED
        BY <3>1, <3>2 DEF Sourced
    <2>2. CASE UsesTLS(s) /\ Configured(Store(input, n))
      <3> DEFINE from == <<"store", n>>
                 stable == StorePasswordName(n)
      <3>0. PICK c : c = Store(input, n).pass
        OBVIOUS
      <3>1. n \in DOMAIN input.stores /\ Store(input, n) = input.stores[n]
        BY <2>2 DEF Store, NoStore, Configured, Created
      <3>2. c \in Credentials
        <4>1. input.stores[n] \in StoreBlocks
          BY <3>1 DEF Decoded
        <4> QED
          BY <3>0, <3>1, <4>1 DEF StoreBlocks
      <3>3. CheckCred(c)
        BY <3>0, <3>1 DEF Accepted, CheckDefaultsCredentials
      <3>4. n \in DOMAIN stores'
        BY <2>2, UseStoresGrows DEF Selected
      <3>5. Generated(stable)
        BY StorePasswordNameGenerated
      <3>6. ASSUME NEW name PROVE Origin([name |-> name, cred |-> c, from |-> from])'
        <4> DEFINE r == [name |-> name, cred |-> c, from |-> from]
        <4>1. r.from = <<"store", n>> /\ r.cred = Store(input', n).pass
          BY <3>0
        <4> HIDE DEF r
        <4>2. Origin(r)'
          BY <3>4, <4>1 DEF Origin
        <4> QED
          BY <4>2 DEF r
      <3> HIDE DEF from, stable
      <3>7. Sourced(Position(from, stable, c))
        BY <3>2, <3>3, <3>5, <3>6, PositionSourced
      <3> QED
        BY <2>2, <3>0, <3>7 DEF from, stable
    <2> QED
      BY <2>1, <2>2
  <1>2. Sourced(Of(s.trust)) /\ Sourced(Of(s.key))
    BY <1>1
  <1> DEFINE p == Of(s.trust)
             q == Of(s.key)
  <1>3. StorePositions(s) = p \o q
    BY DEF StorePositions
  <1>4. Sourced(p) /\ Sourced(q)
    BY <1>2
  <1> HIDE DEF p, q
  <1> QED
    BY <1>3, <1>4, SourcedTogether

\* What is written has an origin, and what was written keeps its.
LEMMA WriteRefs ==
    ASSUME Refs, Grows, NEW p, Sourced(p), Write(p)
    PROVE  Refs'
  <1>1. refs' = refs \cup Elements(p)
    BY DEF Write, Elements
  <1>2. \A r \in refs : Origin(r)'
    BY OriginStays DEF Refs
  <1> QED
    BY <1>1, <1>2 DEF Refs, Sourced

\* A step that writes no placeholder.
LEMMA SameRefs ==
    ASSUME Refs, Grows, UNCHANGED refs
    PROVE  Refs'
  BY OriginStays DEF Refs

\* Two credentials that ask for the same are the same, when one is not both.
LEMMA CredIsKey ==
    ASSUME NEW c \in Credentials, CheckCred(c)
    PROVE  CredKey(c) = c
  <1>1. c.env # NoName => c.lit = ""
    BY DEF CheckCred, Both
  <1>2. c.lit = "" => [c EXCEPT !.lit = ""] = c
    BY DEF Credentials
  <1> QED
    BY <1>1, <1>2 DEF CredKey

\* The credentials of a connection that passed its checks.
LEMMA SoundCreds ==
    ASSUME NEW in, NEW s, Sound(in, s)
    PROVE  /\ s.user \in Credentials /\ s.pass \in Credentials /\ CheckCred(s.user) /\ CheckCred(s.pass)
           /\ IsSeq(s.trust) /\ IsSeq(s.key)
  <1>1. s \in SideBlocks /\ CheckSideCredentials(s)
    BY DEF Sound
  <1>2. s.user \in Credentials /\ s.pass \in Credentials /\ s.trust \in Names /\ s.key \in Names
    BY <1>1 DEF SideBlocks
  <1>3. IsSeq(s.trust) /\ IsSeq(s.key)
    BY <1>2, OwnElements DEF Names
  <1> QED
    BY <1>1, <1>2, <1>3 DEF CheckSideCredentials

\* The first side of a binder passed its checks: so its credentials did.
LEMMA AccCreds ==
    ASSUME NEW in, Decoded(in), Accepted(in), NEW d, d = Len(Sides(in)), NEW a, Gathered(in, a, d)
    PROVE  /\ a.user \in Credentials /\ a.pass \in Credentials /\ CheckCred(a.user) /\ CheckCred(a.pass)
           /\ IsSeq(a.trust) /\ IsSeq(a.store)
           /\ \A s : Sound(in, s) /\ a.key = DedupKey(s) => a.user = s.user
  <1>1. PICK f \in 1..d : /\ Joins(in, a, f) /\ a.user = Sides(in)[f].user /\ a.pass = Sides(in)[f].pass
                          /\ a.trust = Sides(in)[f].trust /\ a.store = Sides(in)[f].key
    BY DEF Gathered
  <1> DEFINE t == Sides(in)[f]
  <1>2. Sound(in, t)
    BY SidesAre, SidesSound
  <1>3. DedupKey(t) = a.key
    BY <1>1 DEF Joins
  <1>4. /\ t.user \in Credentials /\ t.pass \in Credentials /\ CheckCred(t.user) /\ CheckCred(t.pass)
        /\ IsSeq(t.trust) /\ IsSeq(t.key)
    BY <1>2, SoundCreds
  <1>5. ASSUME NEW s, Sound(in, s), a.key = DedupKey(s) PROVE a.user = s.user
    <2>1. CredKey(t.user) = CredKey(s.user)
      BY <1>3, <1>5 DEF DedupKey
    <2>2. s.user \in Credentials /\ CheckCred(s.user)
      BY <1>5, SoundCreds
    <2>3. t.user = s.user
      BY <1>4, <2>1, <2>2, CredIsKey
    <2> QED
      BY <1>1, <2>3
  <1> QED
    BY <1>1, <1>4, <1>5

\* A binder's user and password, and its stores', are its own.
LEMMA WireRefs ==
    ASSUME Ordered, Wired, Wired', Refs, Grows, Wire
    PROVE  Refs'
  <1>1. PICK k, a : k = at /\ a = accs[at]
    OBVIOUS
  <1>2. /\ phase = "wire" /\ phase' = "wire" /\ k \in DOMAIN accs /\ accs'[k] = a /\ UNCHANGED input
        /\ at' = k + 1 /\ k \in Nat \ {0}
    <2>1. phase = "wire" /\ UNCHANGED <<input, phase, accs>> /\ at' = k + 1 /\ k <= Len(accs)
      BY <1>1 DEF Wire
    <2>2. k \in Nat \ {0} /\ IsSeq(accs)
      BY <1>1 DEF Ordered, OnePerKey
    <2>3. k \in DOMAIN accs
      BY <2>1, <2>2 DEF IsSeq
    <2> QED
      BY <1>1, <2>1, <2>2, <2>3
  <1>3. ~Sidewise /\ Accepted(input) /\ Decoded(input)
    BY <1>2, InputIsDecoded DEF Ordered, Sidewise
  <1>4. k \in DOMAIN binders' /\ binders'[k].name = a.name
    <2>1. IsSeq(binders') /\ Len(binders') = k
      BY <1>2 DEF Wired, WiredBinders, Sidewise
    <2>2. DOMAIN binders' = 1..k
      BY <2>1 DEF IsSeq
    <2>3. k \in DOMAIN binders'
      BY <1>2, <2>2
    <2>4. binders'[k] = Append(binders, Binder(a))[k] /\ IsSeq(binders) /\ Len(binders) = k - 1
      BY <1>1, <1>2 DEF Wire, Wired, WiredBinders, Sidewise
    <2> DEFINE e == Binder(a)
    <2>5. Append(binders, e)[k] = e
      <3> HIDE DEF e
      <3> QED
        BY <1>2, <2>4, OneMore
    <2>6. e.name = a.name
      BY BinderFields
    <2> HIDE DEF e
    <2> QED
      BY <2>3, <2>4, <2>5, <2>6 DEF e
  <1>5. IsSeq(a.name)
    BY <1>1, <1>2, <1>3 DEF Wired
  <1>6. Gathered(input, a, Len(Sides(input)))
    BY <1>1, <1>2, <1>3 DEF Ordered, OnePerKey, JoinedSides
  <1>7. /\ a.user \in Credentials /\ a.pass \in Credentials /\ CheckCred(a.user) /\ CheckCred(a.pass)
        /\ IsSeq(a.trust) /\ IsSeq(a.store)
    BY <1>3, <1>6, AccCreds
  <1> DEFINE user == StableName(a.name, UserSuffix(a.system))
             pass == StableName(a.name, PassSuffix(a.system))
             p == Position(<<"user of", a.name>>, user, a.user)
             q == Position(<<"password of", a.name>>, pass, a.pass)
             s == AsSide(a)
             r == StorePositions(s)
  <1>8. Generated(user) /\ Generated(pass)
    BY <1>5, SuffixesAreSeqs, StableNameGenerated
  <1> HIDE DEF user, pass
  <1>9. Sourced(p)
    <2>1. ASSUME NEW name PROVE Origin([name |-> name, cred |-> a.user, from |-> <<"user of", a.name>>])'
      BY <1>2, <1>4 DEF Origin
    <2> QED
      BY <1>7, <1>8, <2>1, PositionSourced
  <1>10. Sourced(q)
    <2>1. ASSUME NEW name PROVE Origin([name |-> name, cred |-> a.pass, from |-> <<"password of", a.name>>])'
      <3>1. PasswordOf(k, a.pass)'
        BY <1>2 DEF PasswordOf
      <3> QED
        BY <1>4, <3>1 DEF Origin
    <2> QED
      BY <1>7, <1>8, <2>1, PositionSourced
  <1>11. Sourced(r)
    <2>1. s.trust = a.trust /\ s.key = a.store /\ UseStores(s)
      BY <1>1 DEF AsSide, Wire
    <2> HIDE DEF s
    <2> QED
      BY <1>2, <1>3, <1>7, <2>1, StorePositionsSourced
  <1>12. Write(p \o q \o r)
    BY <1>1 DEF Wire, user, pass
  <1> HIDE DEF p, q, r
  <1>13. Sourced(p \o q)
    BY <1>9, <1>10, SourcedTogether
  <1>14. Sourced(p \o q \o r)
    BY <1>11, <1>13, SourcedTogether
  <1> QED
    BY <1>12, <1>14, WriteRefs

\* The session's credentials have its binder's names, or its own.
LEMMA ElectRefs ==
    ASSUME Ordered, Wired, Refs, Grows, Elect, Leads(input)
    PROVE  Refs'
  <1>1. PICK s : s = LeaderSession(input)
    OBVIOUS
  <1>2. /\ phase = "bind" /\ phase' = "users" /\ UNCHANGED <<input, accs, binders>> /\ UseStores(s)
        /\ Write(Position(<<"user of", SessionFrom(s)>>, SessionName(s, UserSuffix("solace")), s.user)
                 \o Position(<<"password of", SessionFrom(s)>>, SessionName(s, PassSuffix("solace")), s.pass)
                 \o StorePositions(s))
    BY <1>1 DEF Elect, Leads
  <1>3. ~Sidewise /\ phase # "wire" /\ Accepted(input) /\ Decoded(input)
    BY <1>2, InputIsDecoded DEF Ordered, Sidewise
  <1>4. Sound(input, s)
    BY <1>1, <1>3, SessionIs DEF Leads
  <1>5. /\ s.user \in Credentials /\ s.pass \in Credentials /\ CheckCred(s.user) /\ CheckCred(s.pass)
        /\ IsSeq(s.trust) /\ IsSeq(s.key)
    BY <1>4, SoundCreds
  <1>6. Elected' /\ LeaderSession(input)' = s
    BY <1>1, <1>2 DEF Elected
  <1>7. PICK from, user, pass : /\ from = SessionFrom(s) /\ user = SessionName(s, UserSuffix("solace"))
                                /\ pass = SessionName(s, PassSuffix("solace"))
    OBVIOUS
  <1>8. /\ Generated(user) /\ Generated(pass)
        /\ \/ from = NoName
           \/ \E c \in DOMAIN binders' : from = binders'[c].name /\ accs'[c].user = s.user /\ accs'[c].key = DedupKey(s)
    <2>0. IsSeq(UserSuffix("solace")) /\ IsSeq(PassSuffix("solace"))
      BY SuffixesAreSeqs
    <2>1. CASE Shared(s)
      <3>1. \E i \in DOMAIN accs : accs[i].key = DedupKey(s)
        BY <2>1 DEF Shared
      <3>2. PICK c : c = CHOOSE i \in DOMAIN accs : accs[i].key = DedupKey(s)
        OBVIOUS
      <3>3. c \in DOMAIN accs /\ accs[c].key = DedupKey(s)
        BY <3>1, <3>2
      <3>4. BinderOf(s) = binders[c].name
        BY <3>2 DEF BinderOf
      <3>5. c \in DOMAIN binders /\ binders[c] = Binder(accs[c]) /\ Gathered(input, accs[c], Len(Sides(input)))
        BY <1>3, <3>3, AllWired DEF OnePerKey
      <3>6. binders[c].name = accs[c].name
        BY <3>5, BinderFields
      <3>7. IsSeq(binders[c].name)
        BY <1>3, <3>3, <3>6 DEF Wired
      <3>8. from = binders[c].name /\ user = StableName(binders[c].name, UserSuffix("solace"))
            /\ pass = StableName(binders[c].name, PassSuffix("solace"))
        BY <1>7, <2>1, <3>4 DEF SessionFrom, SessionName
      <3>9. Generated(user) /\ Generated(pass)
        BY <2>0, <3>7, <3>8, StableNameGenerated
      <3> DEFINE a == accs[c]
      <3>10. a.user = s.user
        <4>1. Gathered(input, a, Len(Sides(input))) /\ a.key = DedupKey(s)
          BY <3>3, <3>5
        <4> HIDE DEF a
        <4> QED
          BY <1>3, <1>4, <4>1, AccCreds
      <3> QED
        BY <1>2, <3>3, <3>5, <3>8, <3>9, <3>10
    <2>2. CASE ~Shared(s)
      <3>1. from = NoName /\ user = LeaderName(UserSuffix("solace")) /\ pass = LeaderName(PassSuffix("solace"))
        BY <1>7, <2>2 DEF SessionFrom, SessionName
      <3> QED
        BY <2>0, <3>1, LeaderNameGenerated
    <2> QED
      BY <2>1, <2>2
  <1> DEFINE p == Position(<<"user of", from>>, user, s.user)
             q == Position(<<"password of", from>>, pass, s.pass)
             r == StorePositions(s)
  <1>9. Sourced(p)
    <2>1. ASSUME NEW name PROVE Origin([name |-> name, cred |-> s.user, from |-> <<"user of", from>>])'
      BY <1>6, <1>8 DEF Origin
    <2> QED
      BY <1>5, <1>8, <2>1, PositionSourced
  <1>10. Sourced(q)
    <2>1. ASSUME NEW name PROVE Origin([name |-> name, cred |-> s.pass, from |-> <<"password of", from>>])'
      <3>1. \A c : accs'[c].key = DedupKey(s) => PasswordOf(c, s.pass)'
        BY <1>6 DEF PasswordOf
      <3> QED
        BY <1>6, <1>8, <3>1 DEF Origin
    <2> QED
      BY <1>5, <1>8, <2>1, PositionSourced
  <1>11. Sourced(r)
    BY <1>2, <1>3, <1>5, StorePositionsSourced
  <1>12. Write(p \o q \o r)
    BY <1>2, <1>7
  <1> HIDE DEF p, q, r
  <1>13. Sourced(p \o q)
    BY <1>9, <1>10, SourcedTogether
  <1>14. Sourced(p \o q \o r)
    BY <1>11, <1>13, SourcedTogether
  <1> QED
    BY <1>12, <1>14, WriteRefs

\* A management user's password is the user's.
LEMMA UserRefs ==
    ASSUME Ordered, Refs, Grows, User
    PROVE  Refs'
  <1>1. PICK k, u : k = at /\ u = input.users[at]
    OBVIOUS
  <1>2. /\ phase = "users" /\ at <= Len(input.users) /\ UNCHANGED input
        /\ Write(Position(<<"user", u.name>>, SecurityUserPasswordName(u.name), u.pass))
    BY <1>1 DEF User
  <1>3. Decoded(input) /\ Accepted(input) /\ k \in Nat \ {0}
    BY <1>1, <1>2, InputIsDecoded DEF Ordered
  <1> DEFINE T == [name : Names, pass : Credentials]
             l == input.users
  <1>4. l \in Seq(T)
    BY <1>3 DEF Decoded
  <1> HIDE DEF T, l
  <1>5. k \in DOMAIN l /\ l[k] \in T
    BY <1>1, <1>2, <1>3, <1>4 DEF l
  <1>6. u \in T /\ k \in DOMAIN input.users /\ u = input.users[k]
    BY <1>1, <1>5 DEF l
  <1>7. u.name \in Names /\ u.pass \in Credentials
    BY <1>6 DEF T
  <1>8. CheckCred(u.pass)
    BY <1>3, <1>6 DEF Accepted, CheckDefaultsCredentials
  <1>9. IsSeq(u.name)
    BY <1>7, OwnElements DEF Names
  <1>10. Generated(SecurityUserPasswordName(u.name))
    BY <1>9, UserPasswordNameGenerated
  <1>11. ASSUME NEW name PROVE Origin([name |-> name, cred |-> u.pass, from |-> <<"user", u.name>>])'
    BY <1>2, <1>6 DEF Origin
  <1>12. Sourced(Position(<<"user", u.name>>, SecurityUserPasswordName(u.name), u.pass))
    BY <1>7, <1>8, <1>10, <1>11, PositionSourced
  <1> QED
    BY <1>2, <1>12, WriteRefs

\* Every step writes what has an origin, or nothing.
LEMMA RefsKeep == Ordered /\ Wired /\ Refs /\ [Next]_vars => Refs'
  <1> SUFFICES ASSUME Ordered, Wired, Refs, [Next]_vars PROVE Refs'
    OBVIOUS
  <1>0. Grows /\ Wired'
    BY AlwaysGrows, WiredKeeps
  <1>1. CASE UNCHANGED refs
    BY <1>0, <1>1, SameRefs
  <1>2. CASE Wire
    BY <1>0, <1>2, WireRefs
  <1>3. CASE Elect
    <2>1. CASE Leads(input)
      BY <1>0, <1>3, <2>1, ElectRefs
    <2>2. CASE ~Leads(input)
      BY <1>1, <1>3, <2>2 DEF Elect, Leads
    <2> QED
      BY <2>1, <2>2
  <1>4. CASE User
    BY <1>0, <1>4, UserRefs
  <1>5. Validate \/ Register \/ NameBinders \/ Claim \/ StartBinding \/ Bind \/ Gate \/ Rest \/ UNCHANGED vars => UNCHANGED refs
    BY DEF Validate, Register, NameBinders, Claim, StartBinding, Bind, Gate, Rest, vars
  <1> QED
    BY <1>1, <1>2, <1>3, <1>4, <1>5 DEF Next

\* secretRef, one position: what it records was written.
LEMMA ClaimKept ==
    ASSUME Inv, Kept, Claim
    PROVE  Kept'
  <1>1. PICK c : c = Head(claims)
    OBVIOUS
  <1>2. claims # <<>> /\ claims \in Seq(Elements(claims)) /\ claims' = Tail(claims) /\ refs' = refs
    BY DEF Inv, Claim, IsSeq
  <1>3. c \in Elements(claims) /\ claims' \in Seq(Elements(claims))
    BY <1>1, <1>2
  <1>4. Elements(claims') \subseteq refs' /\ c \in refs
    <2>1. Elements(claims') \subseteq Elements(claims)
      BY <1>3 DEF Elements
    <2> QED
      BY <1>2, <1>3, <2>1 DEF Kept
  <1>5. CASE c.name \notin DOMAIN secrets
    <2>1. /\ secrets' = [n \in DOMAIN secrets \cup {c.name} |-> IF n = c.name THEN c ELSE secrets[n]]
          /\ UNCHANGED conflicts
      BY <1>1, <1>5 DEF Claim
    <2>2. \A n \in DOMAIN secrets' : secrets'[n].name = n /\ secrets'[n] \in refs'
      BY <1>2, <1>4, <2>1 DEF Kept
    <2> QED
      BY <1>2, <1>4, <2>1, <2>2 DEF Kept
  <1>6. CASE c.name \in DOMAIN secrets
    <2> DEFINE d == <<secrets[c.name], c>>
    <2>1. /\ conflicts' = IF secrets[c.name].cred # c.cred /\ \A e \in conflicts : e[1].name # c.name
                           THEN conflicts \cup {d} ELSE conflicts
          /\ UNCHANGED secrets
      BY <1>1, <1>6 DEF Claim
    <2>2. d[1] = secrets[c.name] /\ d[2] = c
      OBVIOUS
    <2>3. secrets[c.name] \in refs /\ secrets[c.name].name = c.name
      BY <1>6 DEF Kept
    <2> HIDE DEF d
    <2>4. ASSUME NEW e \in conflicts'
          PROVE  e[1] \in refs' /\ e[2] \in refs' /\ e[1].name = e[2].name /\ e[1].cred # e[2].cred
      <3>1. CASE e \in conflicts
        BY <1>2, <3>1 DEF Kept
      <3>2. CASE e \notin conflicts
        <4>1. e = d /\ secrets[c.name].cred # c.cred
          BY <2>1, <3>2
        <4> QED
          BY <1>2, <1>4, <2>2, <2>3, <4>1
      <3> QED
        BY <3>1, <3>2
    <2> QED
      BY <1>2, <1>4, <2>1, <2>4 DEF Kept
  <1> QED
    BY <1>5, <1>6

\* Positions that are written wait to be recorded.
LEMMA WriteKept ==
    ASSUME Kept, NEW p, Write(p), UNCHANGED <<secrets, conflicts>>
    PROVE  Kept'
  <1>1. refs' = refs \cup Elements(p) /\ claims' = p
    BY DEF Write, Elements
  <1> QED
    BY <1>1 DEF Kept

\* Every step keeps what is mounted and what competes to placeholders that were written.
LEMMA KeptKeeps == Inv /\ Kept /\ [Next]_vars => Kept'
  <1> SUFFICES ASSUME Inv, Kept, [Next]_vars PROVE Kept'
    OBVIOUS
  <1>1. CASE UNCHANGED <<claims, refs, secrets, conflicts>>
    BY <1>1 DEF Kept
  <1>2. CASE Wire
    BY <1>2, WriteKept DEF Wire
  <1>3. CASE Claim
    BY <1>3, ClaimKept
  <1>4. CASE Elect
    <2>1. UNCHANGED <<secrets, conflicts>>
      BY <1>4 DEF Elect
    <2>2. UNCHANGED <<claims, refs>> \/ \E p : Write(p)
      BY <1>4 DEF Elect
    <2> QED
      BY <1>1, <2>1, <2>2, WriteKept
  <1>5. CASE User
    BY <1>5, WriteKept DEF User
  <1>6. Validate \/ Register \/ NameBinders \/ StartBinding \/ Bind \/ Gate \/ Rest \/ UNCHANGED vars
            => UNCHANGED <<claims, refs, secrets, conflicts>>
    BY DEF Validate, Register, NameBinders, StartBinding, Bind, Gate, Rest, vars
  <1> QED
    BY <1>1, <1>2, <1>3, <1>4, <1>5, <1>6 DEF Next

\* A wired binder is of an accepted input, has a name, and gathered all that it has.
LEMMA WiredIs ==
    ASSUME Ordered, Wired, NEW j \in DOMAIN binders
    PROVE  /\ Accepted(input) /\ Decoded(input) /\ j \in DOMAIN accs
           /\ binders[j].name = accs[j].name /\ binders[j].name # NoName
           /\ Gathered(input, accs[j], Len(Sides(input)))
  <1>1. IsSeq(binders) /\ Len(binders) = WiredBinders /\ j \in 1..WiredBinders
    BY DEF Wired, IsSeq
  <1>2. ~Sidewise
    BY <1>1 DEF WiredBinders
  <1>3. OnePerKey(input, accs, Len(Sides(input)))
    BY <1>2 DEF Ordered, JoinedSides
  <1>4. DOMAIN accs = 1..Len(accs) /\ Len(accs) \in Nat
    BY <1>3 DEF OnePerKey, IsSeq
  <1>5. WiredBinders \in Nat /\ WiredBinders <= Len(accs)
    BY <1>2, <1>4 DEF WiredBinders, Ordered
  <1>6. j \in DOMAIN accs
    BY <1>1, <1>4, <1>5
  <1>7. binders[j].name = accs[j].name
    <2>1. binders[j] = Binder(accs[j])
      BY DEF Wired
    <2> QED
      BY <2>1, BinderFields
  <1>8. accs[j].name # NoName
    BY <1>2, <1>6 DEF Wired
  <1>9. Gathered(input, accs[j], Len(Sides(input)))
    BY <1>3, <1>6 DEF OnePerKey
  <1>10. Accepted(input)
    BY <1>2 DEF Ordered, Sidewise
  <1> QED
    BY <1>6, <1>7, <1>8, <1>9, <1>10, InputIsDecoded

\* The passwords a binder's mount name is given are one.
LEMMA OnePassword ==
    ASSUME Ordered, Wired, NEW j \in DOMAIN binders, NEW c, NEW d, ~Empty(c), ~Empty(d),
           PasswordOf(j, c), PasswordOf(j, d)
    PROVE  c = d
  <1>1. Accepted(input) /\ Decoded(input) /\ Gathered(input, accs[j], Len(Sides(input)))
    BY WiredIs
  <1> DEFINE a == accs[j]
             s == LeaderSession(input)
  <1>2. PICK f \in 1..Len(Sides(input)) : Joins(input, a, f) /\ a.pass = Sides(input)[f].pass
    BY <1>1 DEF Gathered
  <1> DEFINE t == Sides(input)[f]
  <1>3. f \in DOMAIN Sides(input) /\ Sound(input, t) /\ DedupKey(t) = a.key
    BY <1>1, <1>2, SidesAre, SidesSound DEF Joins
  <1>4. ASSUME Elected, a.key = DedupKey(s), ~Empty(s.pass), ~Empty(a.pass)
        PROVE  s.pass = a.pass
    <2>1. input.leader.mode \notin {"absent", "standalone"}
      BY <1>4 DEF Elected, Leads
    <2>2. Sound(input, s) /\ s.system = "solace"
      BY <1>1, <2>1, SessionIs
    <2>3. HasSystem(s) /\ HasSystem(t)
      BY <1>3, <2>2 DEF Sound
    <2>4. SameBinder(s, t)
      BY <1>3, <1>4, <2>3 DEF SameBinder
    <2>5. SamePassword(s, t)
      <3>1. CheckLeaderSessionPassword(input)
        BY <1>1 DEF Accepted
      <3> QED
        BY <1>3, <2>1, <2>2, <2>4, <3>1 DEF CheckLeaderSessionPassword
    <2>6. CredKey(s.pass) = CredKey(t.pass)
      BY <1>2, <1>4, <2>5 DEF SamePassword
    <2>7. s.pass \in Credentials /\ CheckCred(s.pass) /\ t.pass \in Credentials /\ CheckCred(t.pass)
      BY <1>3, <2>2, SoundCreds
    <2>8. s.pass = t.pass
      BY <2>6, <2>7, CredIsKey
    <2> QED
      BY <1>2, <2>8
  <1>5. /\ c = a.pass \/ (Elected /\ a.key = DedupKey(s) /\ c = s.pass)
        /\ d = a.pass \/ (Elected /\ a.key = DedupKey(s) /\ d = s.pass)
    BY DEF PasswordOf
  <1> HIDE DEF a, s, t
  <1> QED
    BY <1>4, <1>5

\* What two placeholders come from.
UserOf(r)  == \/ \E j \in DOMAIN binders : r.from[2] = binders[j].name /\ r.cred = accs[j].user
              \/ Elected /\ r.from[2] = NoName /\ r.cred = LeaderSession(input).user

PassOf(r)  == \/ \E j \in DOMAIN binders : r.from[2] = binders[j].name /\ PasswordOf(j, r.cred)
              \/ Elected /\ r.from[2] = NoName /\ r.cred = LeaderSession(input).pass

StoreOf(r) == r.cred = Store(input, r.from[2]).pass

\* Where a placeholder comes from, by the kind of its position.
LEMMA OriginIs ==
    ASSUME NEW r, Origin(r)
    PROVE  \/ r.from[1] = "user of" /\ UserOf(r)
           \/ r.from[1] = "password of" /\ PassOf(r)
           \/ r.from[1] = "store" /\ StoreOf(r)
           \/ r.from[1] = "user" /\ \E k \in DOMAIN input.users : r.from = <<"user", input.users[k].name>>
  <1>0. \A x, n : r.from = <<x, n>> => r.from[1] = x /\ r.from[2] = n
    OBVIOUS
  <1>1. ASSUME NEW j \in DOMAIN binders, r.from = <<"user of", binders[j].name>>, r.cred = accs[j].user
        PROVE  r.from[1] = "user of" /\ UserOf(r)
    BY <1>0, <1>1 DEF UserOf
  <1>2. ASSUME NEW j \in DOMAIN binders, r.from = <<"password of", binders[j].name>>, PasswordOf(j, r.cred)
        PROVE  r.from[1] = "password of" /\ PassOf(r)
    <2>1. r.from[1] = "password of" /\ r.from[2] = binders[j].name
      BY <1>0, <1>2
    <2>2. \E i \in DOMAIN binders : r.from[2] = binders[i].name /\ PasswordOf(i, r.cred)
      BY <1>2, <2>1
    <2> QED
      BY <2>1, <2>2 DEF PassOf
  <1>3. ASSUME Elected, r.from = <<"user of", NoName>>, r.cred = LeaderSession(input).user
        PROVE  r.from[1] = "user of" /\ UserOf(r)
    BY <1>0, <1>3 DEF UserOf
  <1>4. ASSUME Elected, r.from = <<"password of", NoName>>, r.cred = LeaderSession(input).pass
        PROVE  r.from[1] = "password of" /\ PassOf(r)
    BY <1>0, <1>4 DEF PassOf
  <1>5. ASSUME NEW n \in DOMAIN stores, r.from = <<"store", n>>, r.cred = Store(input, n).pass
        PROVE  r.from[1] = "store" /\ StoreOf(r)
    BY <1>0, <1>5 DEF StoreOf
  <1>6. ASSUME NEW k \in DOMAIN input.users, r.from = <<"user", input.users[k].name>>
        PROVE  r.from[1] = "user"
    BY <1>0, <1>6
  <1> QED
    BY <1>1, <1>2, <1>3, <1>4, <1>5, <1>6 DEF Origin

\* A conflict is between two literals: a host variable's name is its own.
LEMMA ConflictIsLiteral ==
    ASSUME NEW p, NEW q, Proper(p), Proper(q), p.name = q.name, p.cred # q.cred
    PROVE  p.cred.env = NoName
  <1> SUFFICES ASSUME p.cred.env # NoName PROVE FALSE
    OBVIOUS
  <1>1. p.name = p.cred.env /\ p.cred.lit = "" /\ p.cred.env[1] # Prefix
    BY DEF Proper, CheckCred, Both
  <1>2. q.cred.env # NoName
    BY <1>1 DEF Proper, Generated
  <1>3. q.name = q.cred.env /\ q.cred.lit = ""
    BY <1>2 DEF Proper, CheckCred, Both
  <1>4. PICK c, d : c = p.cred /\ d = q.cred
    OBVIOUS
  <1>5. c \in Credentials /\ d \in Credentials
    BY <1>4 DEF Proper
  <1>6. c.lit = d.lit /\ c.env = d.env
    BY <1>1, <1>3, <1>4
  <1>7. c = d
    BY <1>5, <1>6 DEF Credentials
  <1> QED
    BY <1>4, <1>7

\* Nor do the positions of one connection, store or session conflict.
LEMMA ConflictsAreTrue == Ordered /\ Wired /\ Refs /\ Kept => (BindersDiffer => ConflictsAreFolds)
  <1> SUFFICES ASSUME Ordered, Wired, Refs, Kept, BindersDiffer, NEW c \in conflicts
               PROVE  /\ c[1].cred.env = NoName /\ c[2].cred.env = NoName
                      /\ c[1].from # c[2].from \/ c[1].from \in {<<"user", input.users[i].name>> : i \in DOMAIN input.users}
    BY DEF ConflictsAreFolds
  <1>1. PICK p, q : p = c[1] /\ q = c[2]
    OBVIOUS
  <1>2. Proper(p) /\ Proper(q) /\ Origin(p) /\ Origin(q) /\ p.name = q.name /\ p.cred # q.cred
    BY <1>1 DEF Kept, Refs
  <1>3. p.cred.env = NoName /\ q.cred.env = NoName
    BY <1>2, ConflictIsLiteral
  <1>4. ASSUME p.from = q.from, p.from \notin {<<"user", input.users[i].name>> : i \in DOMAIN input.users}
        PROVE  FALSE
    <2>1. \/ UserOf(p) /\ UserOf(q)
          \/ PassOf(p) /\ PassOf(q)
          \/ StoreOf(p) /\ StoreOf(q)
      BY <1>2, <1>4, OriginIs
    <2>2. \A i, j \in DOMAIN binders : binders[i].name # NoName /\ (binders[i].name = binders[j].name => i = j)
      BY WiredIs DEF BindersDiffer
    <2>3. CASE UserOf(p) /\ UserOf(q)
      BY <1>2, <1>4, <2>2, <2>3 DEF UserOf
    <2>4. CASE PassOf(p) /\ PassOf(q)
      <3>1. ~Empty(p.cred) /\ ~Empty(q.cred)
        BY <1>2 DEF Proper
      <3>2. CASE p.from[2] = NoName
        BY <1>2, <1>4, <2>2, <2>4, <3>2 DEF PassOf
      <3>3. CASE p.from[2] # NoName
        <4>1. PICK j \in DOMAIN binders : p.from[2] = binders[j].name /\ PasswordOf(j, p.cred)
          BY <2>4, <3>3 DEF PassOf
        <4>2. PICK k \in DOMAIN binders : q.from[2] = binders[k].name /\ PasswordOf(k, q.cred)
          BY <1>4, <2>4, <3>3 DEF PassOf
        <4>3. j = k
          BY <1>4, <2>2, <4>1, <4>2
        <4> QED
          BY <1>2, <3>1, <4>1, <4>2, <4>3, OnePassword
      <3> QED
        BY <3>2, <3>3
    <2>5. CASE StoreOf(p) /\ StoreOf(q)
      BY <1>2, <1>4, <2>5 DEF StoreOf
    <2> QED
      BY <2>1, <2>3, <2>4, <2>5
  <1> QED
    BY <1>1, <1>3, <1>4

\* The invariant of the credentials, of every step.
LEMMA CredentialsKeep ==
    Ordered /\ Wired /\ Inv /\ Refs /\ Kept /\ [Next]_vars => (Ordered /\ Wired /\ Inv /\ Refs /\ Kept)'
  BY OrderedKeeps, WiredKeeps, NextInv, RefsKeep, KeptKeeps

\* secretConflictError: for every input whose binders assignBinderNames tells apart, a
\* conflict that refuses the render is between two literals whose names fold together.
THEOREM ConflictsFold == Spec => [](BindersDiffer => ConflictsAreFolds)
  <1>1. Init => Ordered /\ Wired /\ Inv /\ Refs /\ Kept
    BY InitOrdered, InitWired, InitInv, InitRefs
  <1> QED
    BY <1>1, CredentialsKeep, ConflictsAreTrue, PTL DEF Spec

\* usesCredentials: a credential is mounted only if something that is rendered has one.
LEMMA MountedIsUsed ==
    ASSUME Ordered, Wired, Refs, Kept, StoresUsed, Built, NEW n \in DOMAIN secrets
    PROVE  UsesCredentials(input)
  <1>1. PICK r : r = secrets[n]
    OBVIOUS
  <1>2. ~Empty(r.cred) /\ Origin(r)
    BY <1>1 DEF Kept, Refs, Proper
  <1>3. Accepted(input) /\ Decoded(input)
    BY InputIsDecoded DEF Ordered, Built
  <1>4. ASSUME NEW j \in DOMAIN binders
        PROVE  \E s \in RenderedSides(input) : accs[j].user = s.user /\ accs[j].pass = s.pass
    <2>1. PICK f \in 1..Len(Sides(input)) : accs[j].user = Sides(input)[f].user /\ accs[j].pass = Sides(input)[f].pass
      BY WiredIs DEF Gathered
    <2>2. f \in DOMAIN Sides(input)
      BY <1>3, SidesAre
    <2>3. Sides(input)[f] \in RenderedSides(input)
      BY <1>3, <2>2, RenderedAre
    <2> QED
      BY <2>1, <2>3
  <1>5. Elected => LeaderSession(input) \in RenderedSides(input)
    BY <1>3, RenderedAre DEF Elected
  <1>6. DOMAIN stores = SelectedStoreNames(input)
    BY StoresPredicted
  <1>7. ASSUME NEW s \in RenderedSides(input), r.cred = s.user \/ r.cred = s.pass
        PROVE  UsesCredentials(input)
    BY <1>2, <1>7 DEF UsesCredentials
  <1>8. CASE \E j \in DOMAIN binders : r.from = <<"user of", binders[j].name>> /\ r.cred = accs[j].user
    BY <1>4, <1>7, <1>8
  <1>9. CASE \E j \in DOMAIN binders : r.from = <<"password of", binders[j].name>> /\ PasswordOf(j, r.cred)
    BY <1>4, <1>5, <1>7, <1>9 DEF PasswordOf
  <1>10. CASE Elected /\ r.from = <<"user of", NoName>> /\ r.cred = LeaderSession(input).user
    BY <1>5, <1>7, <1>10
  <1>11. CASE Elected /\ r.from = <<"password of", NoName>> /\ r.cred = LeaderSession(input).pass
    BY <1>5, <1>7, <1>11
  <1>12. CASE \E m \in DOMAIN stores : r.from = <<"store", m>> /\ r.cred = Store(input, m).pass
    BY <1>2, <1>6, <1>12 DEF UsesCredentials
  <1>13. CASE \E k \in DOMAIN input.users : r.from = <<"user", input.users[k].name>> /\ r.cred = input.users[k].pass
    BY <1>2, <1>13 DEF UsesCredentials
  <1> QED
    BY <1>2, <1>8, <1>9, <1>10, <1>11, <1>12, <1>13 DEF Origin

\* checkDuplicateSources: two inputs that one binder consumes from one queue were warned of.
LEMMA DuplicatesAreFound ==
    ASSUME Ordered, Wired, Bound, BindersDiffer, Built,
           NEW i \in DOMAIN bindings, NEW j \in DOMAIN bindings, IsSource(i), IsSource(j), j < i,
           bindings[i].binder = bindings[j].binder, bindings[i].dest = bindings[j].dest
    PROVE  i \in DuplicateSources(input)
  <1>1. ~Sidewise /\ phase # "wire" /\ phase = "built"
    BY DEF Built, Sidewise
  <1>2. /\ DOMAIN Sides(input) = 1..Len(Sides(input)) /\ Len(Sides(input)) \in Nat
        /\ Accepted(input) /\ Decoded(input)
    BY <1>1, AllWired
  <1>3. Len(bindings) = Len(Sides(input)) /\ IsSeq(bindings)
    BY <1>1 DEF Bound, BoundSides
  <1>4. i \in DOMAIN Sides(input) /\ j \in DOMAIN Sides(input) /\ j \in 1..(i - 1)
    BY <1>2, <1>3 DEF IsSeq
  <1>5. /\ bindings[i].binder = BinderOf(Sides(input)[i]) /\ bindings[i].dest = Sides(input)[i].dest
        /\ bindings[j].binder = BinderOf(Sides(input)[j]) /\ bindings[j].dest = Sides(input)[j].dest
    <2>1. bindings[i] = Binding(i) /\ bindings[j] = Binding(j)
      BY DEF Bound
    <2> QED
      BY <2>1, BindingFields
  <1>6. PICK c \in DOMAIN binders : Joins(input, accs[c], i) /\ BinderOf(Sides(input)[i]) = binders[c].name
    BY <1>1, <1>4, OwnBinder
  <1>7. PICK e \in DOMAIN binders : Joins(input, accs[e], j) /\ BinderOf(Sides(input)[j]) = binders[e].name
    BY <1>1, <1>4, OwnBinder
  <1>8. c = e
    BY <1>5, <1>6, <1>7 DEF BindersDiffer
  <1>9. DedupKey(Sides(input)[i]) = DedupKey(Sides(input)[j])
    BY <1>6, <1>7, <1>8 DEF Joins
  <1>10. HasSystem(Sides(input)[i]) /\ HasSystem(Sides(input)[j])
    BY <1>2, <1>4, SidesSound DEF Sound
  <1>11. SameBinder(Sides(input)[i], Sides(input)[j])
    BY <1>9, <1>10 DEF SameBinder
  <1>12. Sides(input)[i].dest = Sides(input)[j].dest
    BY <1>5
  <1> QED
    BY <1>4, <1>11, <1>12 DEF DuplicateSources

\* The invariant says that the build is what validate foretold.
LEMMA PredictionsHold ==
    Ordered /\ Wired /\ Bound /\ StoresUsed /\ Refs /\ Kept => (BindersDiffer => ValidatorPredicts)
  <1> SUFFICES ASSUME Ordered, Wired, Bound, StoresUsed, Refs, Kept, BindersDiffer, Built
               PROVE  /\ DOMAIN stores = SelectedStoreNames(input)
                      /\ \A n \in DOMAIN stores :
                            /\ stores[n].trusted = \E s \in RenderedSides(input) : UsesTLS(s) /\ s.trust = n
                            /\ stores[n].private = \E s \in RenderedSides(input) : UsesTLS(s) /\ s.key = n
                      /\ DOMAIN secrets # {} => UsesCredentials(input)
                      /\ \A i, j \in DOMAIN bindings :
                            (/\ IsSource(i) /\ IsSource(j) /\ j < i
                             /\ bindings[i].binder = bindings[j].binder /\ bindings[i].dest = bindings[j].dest)
                                  => i \in DuplicateSources(input)
    BY DEF ValidatorPredicts
  <1>1. DOMAIN secrets # {} => UsesCredentials(input)
    BY MountedIsUsed
  <1>2. \A i, j \in DOMAIN bindings :
            (/\ IsSource(i) /\ IsSource(j) /\ j < i
             /\ bindings[i].binder = bindings[j].binder /\ bindings[i].dest = bindings[j].dest)
                  => i \in DuplicateSources(input)
    BY DuplicatesAreFound
  <1> QED
    BY <1>1, <1>2, StoresPredicted

\* The invariant of the whole build.
BuildInv == Ordered /\ Wired /\ Bound /\ StoresUsed /\ Inv /\ Refs /\ Kept

\* The invariant of the whole build, of every behaviour.
LEMMA BuildHolds == Spec => []BuildInv
  <1>1. Init => BuildInv
    BY InitOrdered, InitWired, InitStores, InitInv, InitRefs DEF BuildInv
  <1>2. BuildInv /\ [Next]_vars => BuildInv'
    BY OrderedKeeps, WiredKeeps, BoundKeeps, StoresKeep, NextInv, RefsKeep, KeptKeeps DEF BuildInv
  <1> QED
    BY <1>1, <1>2, PTL DEF Spec

\* selectedStoreNames, usesCredentials and checkDuplicateSources: for every input whose
\* binders assignBinderNames tells apart, validate says what the build will select, mount
\* and consume twice.
THEOREM PredictsTheBuild == Spec => [](BindersDiffer => ValidatorPredicts)
  <1>1. BuildInv => (BindersDiffer => ValidatorPredicts)
    BY PredictionsHold DEF BuildInv
  <1> QED
    BY <1>1, BuildHolds, PTL

\* The position a phase has come to is within what it goes through.
LEMMA PositionIsBounded ==
    ASSUME Ordered
    PROVE  at \in 1..(Len(Sides(input)) + Len(input.users) + 1)
  <1>1. Decoded(input)
    BY InputIsDecoded
  <1>2. Len(input.users) \in Nat
    BY <1>1, UsersAreCounted
  <1>3. Len(input.wfs) \in Nat /\ Len(Sides(input)) = 2 * Len(input.wfs)
    BY <1>1, SidesAre
  <1>4. Len(accs) \in Nat /\ (phase = "wire" => Len(accs) <= Len(Sides(input)))
    BY DEF Ordered, OnePerKey, IsSeq, JoinedSides, Sidewise
  <1>5. at \in Nat \ {0}
    BY DEF Ordered
  <1>6. PICK d, u, w, l : d = Len(Sides(input)) /\ u = Len(input.users) /\ w = Len(input.wfs) /\ l = Len(accs)
    OBVIOUS
  <1>7. \/ at = 1
        \/ at <= d + 1
        \/ phase = "wire" /\ at <= l + 1
        \/ at <= w + 1
        \/ at <= u + 1
    BY <1>6 DEF Ordered
  <1>8. d \in Nat /\ u \in Nat /\ w \in Nat /\ l \in Nat /\ d = 2 * w /\ (phase = "wire" => l <= d)
    BY <1>2, <1>3, <1>4, <1>6
  <1>9. at \in 1..(d + u + 1)
    BY <1>5, <1>7, <1>8
  <1> QED
    BY <1>6, <1>9

\* The invariant says that every variable keeps its range.
LEMMA BuildTypes == BuildInv => TypeOK
  <1> SUFFICES ASSUME BuildInv PROVE TypeOK
    OBVIOUS
  <1> USE DEF BuildInv
  <1>1. phase \in {"check", "rejected", "register", "wire", "bind", "users", "built", "refused"}
    BY DEF Ordered
  <1>2. at \in 1..(Len(Sides(input)) + Len(input.users) + 1)
    BY PositionIsBounded
  <1>3. \A i, j \in DOMAIN accs : accs[i].key = accs[j].key => i = j
    BY DEF Ordered, OnePerKey
  <1>4. {claims[i] : i \in DOMAIN claims} \subseteq refs
    BY DEF Kept, Elements
  <1>5. \A n \in DOMAIN secrets : secrets[n].name = n /\ secrets[n] \in refs
    BY DEF Kept
  <1>6. UNION {{c[1], c[2]} : c \in conflicts} \subseteq refs
    BY DEF Kept
  <1>7. DOMAIN stores \subseteq DOMAIN input.stores
    <2> SUFFICES ASSUME NEW n \in DOMAIN stores PROVE n \in DOMAIN input.stores
      OBVIOUS
    <2>1. PICK u \in Users : n \in Selected(input, u)
      BY DEF StoresUsed, UsedAs
    <2>2. Configured(Store(input, n))
      BY <2>1 DEF Selected
    <2> QED
      BY <2>2 DEF Store, NoStore, Configured, Created
  <1>8. {bindings[i].side : i \in DOMAIN bindings} \subseteq DOMAIN Sides(input)
    <2>1. Len(input.wfs) \in Nat /\ Len(Sides(input)) = 2 * Len(input.wfs) /\ DOMAIN Sides(input) = 1..Len(Sides(input))
      BY InputIsDecoded, SidesAre
    <2>2. DOMAIN bindings = 1..BoundSides
      BY DEF Bound, IsSeq
    <2>3. BoundSides \in 0..Len(Sides(input))
      BY <2>1 DEF BoundSides, Ordered
    <2>4. \A i \in DOMAIN bindings : bindings[i].side = i
      <3> SUFFICES ASSUME NEW i \in DOMAIN bindings PROVE bindings[i].side = i
        OBVIOUS
      <3>1. bindings[i] = Binding(i)
        BY DEF Bound
      <3> QED
        BY <3>1, BindingFields
    <2> QED
      BY <2>1, <2>2, <2>3, <2>4
  <1> QED
    BY <1>1, <1>2, <1>3, <1>4, <1>5, <1>6, <1>7, <1>8 DEF TypeOK

\* Every variable of the consolidation keeps its range, for every input.
THEOREM ConfigTypes == Spec => []TypeOK
  BY BuildHolds, BuildTypes, PTL

\* Nor do a binder's own keys.
LEMMA ToolPropsOnce ==
    ASSUME NEW a
    PROVE  IsSeq(ToolProps(a)) /\ OnceKeys(ToolProps(a)) /\ ValidateKey \notin Keys(ToolProps(a))
  <1> DEFINE p == [key |-> "WMQ_SSL_CIPHER_SUITE", val |-> a.cipher]
             q == SolaceProps(input, AsSide(a))
  <1>1. ToolProps(a) = IF a.system = "solace" THEN (IF a.tls THEN q ELSE <<>>)
                       ELSE IF a.cipher # "" THEN <<p>> ELSE <<>>
    BY DEF ToolProps
  <1>2. p.key = "WMQ_SSL_CIPHER_SUITE"
    OBVIOUS
  <1>3. IsSeq(q) /\ OnceKeys(q) /\ ValidateKey \notin Keys(q)
    BY SolacePropsOnce
  <1> HIDE DEF p, q
  <1>4. IsSeq(<<p>>) /\ OnceKeys(<<p>>) /\ ValidateKey \notin Keys(<<p>>)
    BY <1>2, OneKey DEF ValidateKey
  <1> QED
    BY <1>1, <1>3, <1>4, NoKey

-----------------------------------------------------------------------------
(***************************************************************************)
(* The blocks a binder gathers.                                            *)
(***************************************************************************)
\* What a side adds to the blocks.
LEMMA AccumulateBlocks ==
    ASSUME NEW a, DOMAIN a = AccFields, NEW s
    PROVE  LET b == Accumulate(a, s)
           IN  b.api = Merge(a.api, s.api) /\ b.extra = Merge(a.extra, s.extra) /\ b.key = a.key
  BY DEF Accumulate, AccFields

\* What a binder's blocks begin with.
LEMMA NewAccBlocks ==
    ASSUME NEW s
    PROVE  LET b == NewAcc(s)
           IN  DOMAIN b = AccFields /\ b.api = <<>> /\ b.extra = <<>> /\ b.key = DedupKey(s)
  BY DEF NewAcc, AccFields

\* A block of a side is a list of properties.
LEMMA BlocksAreSeqs ==
    ASSUME NEW s \in SideBlocks
    PROVE  IsSeq(s.api) /\ IsSeq(s.extra)
  <1>1. s.api \in Properties /\ s.extra \in Properties
    BY DEF SideBlocks
  <1> QED
    BY <1>1, OwnElements DEF Properties

\* No block that is rendered states certificate validation twice.
SaidOnce(in) == \A s \in RenderedSides(in) : \A i, j \in SaysAt(s) : i = j

\* A Solace binder on a TLS host, the only kind that validates a certificate.
Validates(a) == a.key[1] = "solace" /\ Tcps(a.key[2])

\* Whatever the sides 1..d that joined it state, it says.
Says(in, a, d) ==
    \E V : /\ SaysIs(a.api, V)
           /\ \A k \in 1..d : Joins(in, a, k) /\ Stated(Sides(in)[k]) # {} => V = Stated(Sides(in)[k])

Blocks(in, a, d) ==
    /\ IsSeq(a.api) /\ OnceKeys(a.api) /\ IsSeq(a.extra) /\ OnceKeys(a.extra)
    /\ SaidOnce(in) /\ Validates(a) => Says(in, a, d)

\* What the merge keeps, but for what is said of certificate validation.
LEMMA MergedBlocks ==
    ASSUME NEW a, DOMAIN a = AccFields, IsSeq(a.api), OnceKeys(a.api), IsSeq(a.extra), OnceKeys(a.extra), NEW s \in SideBlocks
    PROVE  LET b == Accumulate(a, s)
           IN  IsSeq(b.api) /\ OnceKeys(b.api) /\ IsSeq(b.extra) /\ OnceKeys(b.extra)
  <1> DEFINE b == Accumulate(a, s)
  <1>1. b.api = Merge(a.api, s.api) /\ b.extra = Merge(a.extra, s.extra)
    BY AccumulateBlocks
  <1>2. IsSeq(s.api) /\ IsSeq(s.extra)
    BY BlocksAreSeqs
  <1> HIDE DEF b
  <1> QED
    BY <1>1, <1>2, MergeOnce DEF b

\* A side that joins a binder states what its other sides do, or nothing.
LEMMA SaysJoin ==
    ASSUME NEW in, Decoded(in), Accepted(in), NEW d \in Nat, d + 1 \in DOMAIN Sides(in),
           NEW a, DOMAIN a = AccFields, Blocks(in, a, d), Joins(in, a, d + 1)
    PROVE  Blocks(in, Accumulate(a, Sides(in)[d + 1]), d + 1)
  <1> DEFINE s == Sides(in)[d + 1]
             b == Accumulate(a, s)
  <1>1. Sound(in, s) /\ s \in SideBlocks
    BY SidesSound DEF Sound
  <1>2. IsSeq(a.api) /\ OnceKeys(a.api) /\ IsSeq(a.extra) /\ OnceKeys(a.extra)
    BY DEF Blocks
  <1>3. IsSeq(b.api) /\ OnceKeys(b.api) /\ IsSeq(b.extra) /\ OnceKeys(b.extra)
    BY <1>1, <1>2, MergedBlocks
  <1>4. b.api = Merge(a.api, s.api) /\ b.key = a.key
    BY AccumulateBlocks
  <1>5. IsSeq(s.api)
    BY <1>1, BlocksAreSeqs
  <1>6. a.key = DedupKey(s)
    BY DEF Joins
  <1>7. \A k \in 1..(d + 1) : k \in DOMAIN Sides(in) /\ (k \in 1..d \/ k = d + 1)
    BY SidesAre
  <1>8. \A k \in 1..d : k \in 1..(d + 1)
    OBVIOUS
  <1>9. s \in RenderedSides(in)
    BY RenderedAre
  <1>10. ASSUME SaidOnce(in), Validates(a) PROVE Says(in, b, d + 1)
    <2>1. PICK V : /\ SaysIs(a.api, V)
                   /\ \A k \in 1..d : Joins(in, a, k) /\ Stated(Sides(in)[k]) # {} => V = Stated(Sides(in)[k])
      BY <1>10 DEF Blocks, Says
    <2>2. PICK U : U = Stated(s)
      OBVIOUS
    <2>3. SaysIs(s.api, U)
      <3>1. \A i, j \in SaysAt(s) : i = j
        BY <1>9, <1>10 DEF SaidOnce
      <3> HIDE DEF s
      <3> QED
        BY <1>5, <2>2, <3>1, StatesOnce
    <2>4. PICK W : W = IF U # {} THEN U ELSE V
      OBVIOUS
    <2>5. SaysIs(b.api, W)
      <3> HIDE DEF s, b
      <3> QED
        BY <1>2, <1>4, <1>5, <2>1, <2>3, <2>4, MergeSays
    <2>6. \A k : Joins(in, b, k) <=> Joins(in, a, k)
      <3> HIDE DEF b
      <3> QED
        BY <1>4 DEF Joins
    <2>7. ASSUME NEW k \in 1..d, Joins(in, a, k), Stated(Sides(in)[k]) # {}, U # {}
          PROVE  U = Stated(Sides(in)[k])
      <3> DEFINE t == Sides(in)[k]
      <3>1. k \in DOMAIN Sides(in)
        BY <1>7, <1>8
      <3>2. Sound(in, t)
        BY <3>1, SidesSound
      <3>3. DedupKey(s) = DedupKey(t)
        BY <1>6, <2>7 DEF Joins
      <3>4. SameBinder(s, t)
        BY <1>1, <3>2, <3>3 DEF Sound, SameBinder
      <3>5. s.system = "solace" /\ UsesTLS(s)
        <4> HIDE DEF s
        <4>1. a.key[1] = s.system /\ a.key[2] = s.broker
          BY <1>6 DEF DedupKey
        <4> QED
          BY <1>10, <4>1 DEF Validates, UsesTLS
      <3> QED
        BY <2>2, <2>7, <3>1, <3>4, <3>5 DEF Accepted, CheckValidateConflicts
    <2>8. ASSUME NEW k \in 1..(d + 1), Joins(in, b, k), Stated(Sides(in)[k]) # {}
          PROVE  W = Stated(Sides(in)[k])
      <3>1. CASE k = d + 1
        BY <2>2, <2>4, <2>8, <3>1
      <3>2. CASE k \in 1..d
        <4>1. Joins(in, a, k)
          BY <2>6, <2>8
        <4> QED
          BY <2>1, <2>4, <2>7, <2>8, <3>2, <4>1
      <3> QED
        BY <1>7, <3>1, <3>2
    <2> HIDE DEF b
    <2> QED
      BY <2>5, <2>8 DEF Says
  <1>11. Validates(b) <=> Validates(a)
    <2> HIDE DEF b
    <2> QED
      BY <1>4 DEF Validates
  <1>12. Blocks(in, b, d + 1)
    <2> HIDE DEF b
    <2> QED
      BY <1>3, <1>10, <1>11 DEF Blocks
  <1> QED
    BY <1>12

\* A side of another connection says nothing to it.
LEMMA SaysOther ==
    ASSUME NEW in, NEW d \in Nat, NEW a, Blocks(in, a, d), ~Joins(in, a, d + 1)
    PROVE  Blocks(in, a, d + 1)
  <1>1. \A k \in 1..(d + 1) : k \in 1..d \/ k = d + 1
    OBVIOUS
  <1>2. Says(in, a, d) => Says(in, a, d + 1)
    BY <1>1 DEF Says
  <1> QED
    BY <1>2 DEF Blocks

\* The first side of a connection has the first word.
LEMMA SaysNew ==
    ASSUME NEW in, Decoded(in), Accepted(in), NEW d \in Nat, d + 1 \in DOMAIN Sides(in),
           \A k \in 1..d : DedupKey(Sides(in)[k]) # DedupKey(Sides(in)[d + 1])
    PROVE  LET s == Sides(in)[d + 1] IN Blocks(in, Accumulate(NewAcc(s), s), d + 1)
  <1> DEFINE s == Sides(in)[d + 1]
             a == NewAcc(s)
  <1>1. DOMAIN a = AccFields /\ a.api = <<>> /\ a.extra = <<>> /\ a.key = DedupKey(s)
    BY NewAccBlocks
  <1> HIDE DEF a
  <1>2. (\A k \in 1..d : ~Joins(in, a, k)) /\ Joins(in, a, d + 1)
    BY <1>1 DEF Joins
  <1>3. SaysIs(a.api, {})
    BY <1>1 DEF SaysIs
  <1>4. Says(in, a, d)
    BY <1>2, <1>3 DEF Says
  <1>5. Blocks(in, a, d)
    BY <1>1, <1>4, NoKey DEF Blocks
  <1>6. Blocks(in, Accumulate(a, s), d + 1)
    BY <1>1, <1>2, <1>5, SaysJoin
  <1> QED
    BY <1>6 DEF a

\* The blocks of every binder.
AllBlocks(in, q, d) == \A i \in DOMAIN q : Blocks(in, q[i], d)

\* register, one side: the blocks of every binder are still of what joined it.
LEMMA JoinBlocks ==
    ASSUME NEW in, Decoded(in), Accepted(in), NEW d \in Nat, d + 1 \in DOMAIN Sides(in), NEW q,
           OnePerKey(in, q, d), AllBlocks(in, q, d)
    PROVE  AllBlocks(in, Joined(q, Sides(in)[d + 1]), d + 1)
  <1> DEFINE s == Sides(in)[d + 1]
             r == Joined(q, s)
  <1>1. /\ IsSeq(q)
        /\ \A i \in DOMAIN q : DOMAIN q[i] = AccFields /\ Blocks(in, q[i], d)
        /\ \A k \in 1..d : \E i \in DOMAIN q : Joins(in, q[i], k)
    BY DEF OnePerKey, Gathered, AllBlocks
  <1>2. CASE \E i \in DOMAIN q : q[i].key = DedupKey(s)
    <2>1. r = [i \in DOMAIN q |-> IF q[i].key = DedupKey(s) THEN Accumulate(q[i], s) ELSE q[i]]
      BY <1>2 DEF Joined
    <2> HIDE DEF r
    <2>2. ASSUME NEW i \in DOMAIN q PROVE Blocks(in, r[i], d + 1)
      <3>1. CASE q[i].key = DedupKey(s)
        <4>1. r[i] = Accumulate(q[i], s) /\ Joins(in, q[i], d + 1)
          BY <2>1, <3>1 DEF Joins
        <4>2. Blocks(in, Accumulate(q[i], s), d + 1)
          BY <1>1, <4>1, SaysJoin
        <4> QED
          BY <4>1, <4>2
      <3>2. CASE q[i].key # DedupKey(s)
        <4>1. r[i] = q[i] /\ ~Joins(in, q[i], d + 1)
          BY <2>1, <3>2 DEF Joins
        <4> QED
          BY <1>1, <4>1, SaysOther
      <3> QED
        BY <3>1, <3>2
    <2>3. DOMAIN r = DOMAIN q
      BY <2>1
    <2>4. AllBlocks(in, r, d + 1)
      BY <2>2, <2>3 DEF AllBlocks
    <2> QED
      BY <2>4 DEF r
  <1>3. CASE ~\E i \in DOMAIN q : q[i].key = DedupKey(s)
    <2> DEFINE b == Accumulate(NewAcc(s), s)
    <2>1. r = Append(q, b)
      BY <1>3 DEF Joined
    <2>2. \A k \in 1..d : DedupKey(Sides(in)[k]) # DedupKey(s)
      BY <1>1, <1>3 DEF Joins
    <2>3. Blocks(in, b, d + 1)
      BY <2>2, SaysNew
    <2>4. ASSUME NEW i \in DOMAIN q PROVE Blocks(in, q[i], d + 1)
      <3>1. ~Joins(in, q[i], d + 1)
        BY <1>3 DEF Joins
      <3> QED
        BY <1>1, <3>1, SaysOther
    <2> HIDE DEF b, r
    <2>5. /\ Len(q) \in Nat /\ DOMAIN r = 1..(Len(q) + 1) /\ DOMAIN q = 1..Len(q)
          /\ \A i \in DOMAIN q : r[i] = q[i]
          /\ r[Len(q) + 1] = b
      BY <1>1, <2>1, OneMore
    <2>6. \A i \in DOMAIN r : i \in DOMAIN q \/ i = Len(q) + 1
      BY <2>5
    <2>7. AllBlocks(in, r, d + 1)
      BY <2>3, <2>4, <2>5, <2>6 DEF AllBlocks
    <2> QED
      BY <2>7 DEF r
  <1> QED
    BY <1>2, <1>3

\* A name changes nothing of a binder's blocks.
LEMMA NamedBlocks ==
    ASSUME NEW in, NEW d, NEW a, DOMAIN a = AccFields, Blocks(in, a, d), NEW n
    PROVE  Blocks(in, [a EXCEPT !.name = n], d)
  <1> DEFINE b == [a EXCEPT !.name = n]
  <1>1. b.api = a.api /\ b.extra = a.extra /\ b.key = a.key
    BY DEF AccFields
  <1> HIDE DEF b
  <1>2. \A k : Joins(in, b, k) <=> Joins(in, a, k)
    BY <1>1 DEF Joins
  <1>3. Says(in, b, d) <=> Says(in, a, d)
    BY <1>1, <1>2 DEF Says
  <1>4. Validates(b) <=> Validates(a)
    BY <1>1 DEF Validates
  <1>5. Blocks(in, b, d)
    BY <1>1, <1>3, <1>4 DEF Blocks
  <1> QED
    BY <1>5 DEF b

AccBlocks == AllBlocks(input, accs, JoinedSides)

\* There are no blocks before the files are read.
LEMMA InitBlocks == Init => AccBlocks
  BY DEF Init, AccBlocks, AllBlocks

\* A step that leaves the binders be.
LEMMA SameBlocks ==
    ASSUME AccBlocks, UNCHANGED <<input, accs>>, JoinedSides' = JoinedSides
    PROVE  AccBlocks'
  BY DEF AccBlocks

\* The blocks of the binders, of every step.
LEMMA BlocksKeep == Ordered /\ AccBlocks /\ [Next]_vars => AccBlocks'
  <1> SUFFICES ASSUME Ordered, AccBlocks, [Next]_vars PROVE AccBlocks'
    OBVIOUS
  <1> USE DEF Sidewise
  <1>0. /\ at \in Nat \ {0} /\ Len(Sides(input)) \in Nat /\ DOMAIN Sides(input) = 1..Len(Sides(input))
        /\ OnePerKey(input, accs, JoinedSides)
    <2>1. Len(input.wfs) \in Nat /\ Len(Sides(input)) = 2 * Len(input.wfs) /\ DOMAIN Sides(input) = 1..(2 * Len(input.wfs))
      BY InputIsDecoded, SidesAre
    <2> QED
      BY <2>1 DEF Ordered
  <1>1. CASE UNCHANGED vars
    BY <1>1, SameBlocks DEF JoinedSides, vars
  <1>2. CASE Validate
    <2>1. phase = "check" /\ phase' \in {"register", "rejected"} /\ UNCHANGED <<input, at, accs>>
      BY <1>2 DEF Validate
    <2> QED
      BY <2>1, SameBlocks DEF JoinedSides
  <1>3. CASE Register
    <2>1. /\ phase = "register" /\ phase' = "register" /\ input' = input /\ at' = at + 1 /\ at <= Len(Sides(input))
          /\ accs' = Joined(accs, Sides(input)[at])
      BY <1>3 DEF Register, Joined
    <2>2. JoinedSides = at - 1 /\ JoinedSides' = at
      BY <1>0, <2>1 DEF JoinedSides
    <2>3. Accepted(input) /\ Decoded(input)
      BY <2>1, InputIsDecoded DEF Ordered
    <2> DEFINE d == at - 1
    <2>4. d \in Nat /\ d + 1 \in DOMAIN Sides(input) /\ d + 1 = at /\ OnePerKey(input, accs, d) /\ AllBlocks(input, accs, d)
      BY <1>0, <2>1, <2>2 DEF AccBlocks
    <2> HIDE DEF d
    <2>5. AllBlocks(input, Joined(accs, Sides(input)[d + 1]), d + 1)
      BY <2>3, <2>4, JoinBlocks
    <2> QED
      BY <2>1, <2>2, <2>4, <2>5 DEF AccBlocks
  <1>4. CASE NameBinders
    <2>1. /\ phase = "register" /\ phase' = "wire" /\ input' = input /\ at > Len(Sides(input))
          /\ accs' = [i \in DOMAIN accs |-> [accs[i] EXCEPT !.name = BinderName(i)]]
      BY <1>4 DEF NameBinders
    <2>2. JoinedSides = Len(Sides(input)) /\ JoinedSides' = Len(Sides(input))
      BY <1>0, <2>1 DEF JoinedSides, Ordered
    <2> DEFINE d == JoinedSides
    <2>3. \A i \in DOMAIN accs : DOMAIN accs[i] = AccFields /\ Blocks(input, accs[i], d)
      BY <1>0 DEF OnePerKey, Gathered, AccBlocks, AllBlocks
    <2> HIDE DEF d
    <2>4. ASSUME NEW i \in DOMAIN accs PROVE Blocks(input, [accs[i] EXCEPT !.name = BinderName(i)], d)
      <3> DEFINE a == accs[i]
                 n == BinderName(i)
      <3>1. DOMAIN a = AccFields /\ Blocks(input, a, d)
        BY <2>3
      <3> HIDE DEF a, n
      <3>2. Blocks(input, [a EXCEPT !.name = n], d)
        BY <3>1, NamedBlocks
      <3> QED
        BY <3>2 DEF a, n
    <2> DEFINE r == accs'
    <2>5. DOMAIN r = DOMAIN accs /\ \A i \in DOMAIN accs : r[i] = [accs[i] EXCEPT !.name = BinderName(i)]
      BY <2>1
    <2> HIDE DEF r
    <2>6. AllBlocks(input, r, d)
      BY <2>4, <2>5 DEF AllBlocks
    <2> QED
      BY <2>1, <2>2, <2>6 DEF AccBlocks, r, d
  <1>5. CASE Wire
    <2>1. phase = "wire" /\ phase' = "wire" /\ UNCHANGED <<input, accs>>
      BY <1>5 DEF Wire
    <2> QED
      BY <2>1, SameBlocks DEF JoinedSides
  <1>6. CASE Claim
    BY <1>6, SameBlocks DEF JoinedSides, Claim
  <1>7. CASE StartBinding
    BY <1>7, SameBlocks DEF JoinedSides, StartBinding
  <1>8. CASE Bind
    BY <1>8, SameBlocks DEF JoinedSides, Bind
  <1>9. CASE Elect
    <2>1. phase = "bind" /\ phase' = "users" /\ UNCHANGED <<input, accs>>
      BY <1>9 DEF Elect
    <2> QED
      BY <2>1, SameBlocks DEF JoinedSides
  <1>10. CASE User
    <2>1. phase = "users" /\ phase' = "users" /\ UNCHANGED <<input, accs>>
      BY <1>10 DEF User
    <2> QED
      BY <2>1, SameBlocks DEF JoinedSides
  <1>11. CASE Gate
    BY <1>11, SameBlocks DEF JoinedSides, Gate
  <1>12. CASE Rest
    BY <1>1, <1>12 DEF Rest
  <1> QED
    BY <1>1, <1>2, <1>3, <1>4, <1>5, <1>6, <1>7, <1>8, <1>9, <1>10, <1>11, <1>12 DEF Next

-----------------------------------------------------------------------------
\* buildLeaderElection: the session has its connection's blocks.
SessionApi(s) == AppendPassthrough(IF UsesTLS(s) THEN SolaceProps(input, s) ELSE <<>>, s.api)

SessionExtras(s) == OverlayExtras(input.solaceDefaults, DropManaged(s.extra, "solace"))

SessionLed ==
    session # NoSession =>
        /\ Leads(input)
        /\ session.api = SessionApi(LeaderSession(input))
        /\ session.extras = SessionExtras(LeaderSession(input))

\* The session's blocks, of every step.
LEMMA SessionKeeps == SessionLed /\ [Next]_vars => SessionLed'
  <1> SUFFICES ASSUME SessionLed, [Next]_vars PROVE SessionLed'
    OBVIOUS
  <1>1. CASE UNCHANGED <<input, session>>
    BY <1>1 DEF SessionLed, SessionApi, SessionExtras
  <1>2. CASE Elect
    <2> DEFINE s == LeaderSession(input)
    <2>1. input' = input
      BY <1>2 DEF Elect
    <2>2. CASE input.leader.mode \in {"absent", "standalone"} \/ ~HasSystem(s)
      <3>1. UNCHANGED session
        BY <1>2, <2>2 DEF Elect
      <3> QED
        BY <1>1, <2>1, <3>1
    <2>3. CASE ~(input.leader.mode \in {"absent", "standalone"} \/ ~HasSystem(s))
      <3>1. session' = [key |-> DedupKey(s), api |-> SessionApi(s), extras |-> SessionExtras(s)]
        BY <1>2, <2>3 DEF Elect, SessionApi, SessionExtras
      <3>2. session'.api = SessionApi(s) /\ session'.extras = SessionExtras(s)
        BY <3>1
      <3>3. Leads(input)
        BY <2>3 DEF Leads
      <3> QED
        BY <2>1, <3>2, <3>3 DEF SessionLed, SessionApi, SessionExtras
    <2> QED
      BY <2>2, <2>3
  <1>3. CASE Validate \/ Register \/ NameBinders \/ Wire \/ Claim \/ StartBinding \/ Bind \/ User \/ Gate \/ Rest
    BY <1>1, <1>3 DEF Validate, Register, NameBinders, Wire, Claim, StartBinding, Bind, User, Gate, Rest, vars
  <1> QED
    BY <1>1, <1>2, <1>3 DEF Next, vars

\* There is no session before the files are read.
LEMMA InitSession == Init => SessionLed
  BY DEF Init, SessionLed

\* The blocks that are rendered for a binder.
LEMMA BinderBlocks ==
    ASSUME NEW a
    PROVE  LET b == Binder(a)
           IN  /\ b.system = a.system /\ b.key = a.key
               /\ b.api = AppendPassthrough(ToolProps(a), a.api)
               /\ b.extras = (IF a.system = "solace"
                              THEN OverlayExtras(input.solaceDefaults, DropManaged(a.extra, "solace"))
                              ELSE OverlayExtras(DropManaged(input.mqDefaults, "mq"), DropManaged(a.extra, "mq")))
  BY DEF Binder

\* A binder that is built, and what it gathered.
LEMMA BuiltBlocks ==
    ASSUME Ordered, Wired, AccBlocks, Built, NEW j \in DOMAIN binders
    PROVE  /\ binders[j] = Binder(accs[j])
           /\ Blocks(input, accs[j], Len(Sides(input)))
           /\ accs[j].system \in Systems
           /\ Accepted(input) /\ Decoded(input)
  <1>1. Accepted(input) /\ Decoded(input) /\ j \in DOMAIN accs /\ Gathered(input, accs[j], Len(Sides(input)))
    BY WiredIs
  <1>2. JoinedSides = Len(Sides(input))
    BY DEF Built, JoinedSides, Sidewise
  <1>3. Blocks(input, accs[j], Len(Sides(input)))
    BY <1>1, <1>2 DEF AccBlocks, AllBlocks
  <1>4. PICK k \in 1..Len(Sides(input)) : accs[j].system = Sides(input)[k].system
    BY <1>1 DEF Gathered
  <1>5. k \in DOMAIN Sides(input)
    BY <1>1, SidesAre
  <1>6. Sound(input, Sides(input)[k])
    BY <1>1, <1>5, SidesSound
  <1> QED
    BY <1>1, <1>3, <1>4, <1>6 DEF Wired, Sound, HasSystem

\* A binder that is built says what each of its sides states.
LEMMA PostureHolds == Ordered /\ Wired /\ AccBlocks /\ SessionLed => PostureKept
  <1> SUFFICES ASSUME Ordered, Wired, AccBlocks, SessionLed, Built, SaidOnce(input)
               PROVE  /\ \A i \in DOMAIN Sides(input), j \in DOMAIN binders :
                            LET s == Sides(input)[i]
                            IN  (s.system = "solace" /\ UsesTLS(s) /\ Stated(s) # {} /\ binders[j].key = DedupKey(s))
                                  => Stated(binders[j]) = Stated(s)
                      /\ session # NoSession => Stated(session) = Stated(LeaderSession(input))
    BY DEF PostureKept, SaidOnce
  <1>1. ASSUME NEW i \in DOMAIN Sides(input), NEW j \in DOMAIN binders,
               Sides(input)[i].system = "solace", UsesTLS(Sides(input)[i]), Stated(Sides(input)[i]) # {},
               binders[j].key = DedupKey(Sides(input)[i])
        PROVE  Stated(binders[j]) = Stated(Sides(input)[i])
    <2>1. PICK a, b, s : a = accs[j] /\ b = binders[j] /\ s = Sides(input)[i]
      OBVIOUS
    <2>2. b = Binder(a) /\ Blocks(input, a, Len(Sides(input))) /\ Decoded(input)
      BY <2>1, BuiltBlocks
    <2>3. b.key = a.key /\ b.api = AppendPassthrough(ToolProps(a), a.api)
      BY <2>2, BinderBlocks
    <2>4. a.key = DedupKey(s)
      BY <1>1, <2>1, <2>3
    <2>5. Validates(a)
      <3>1. a.key[1] = s.system /\ a.key[2] = s.broker
        BY <2>4 DEF DedupKey
      <3> QED
        BY <1>1, <2>1, <3>1 DEF Validates, UsesTLS
    <2>6. PICK V : /\ SaysIs(a.api, V)
                   /\ \A k \in 1..Len(Sides(input)) : Joins(input, a, k) /\ Stated(Sides(input)[k]) # {}
                                                        => V = Stated(Sides(input)[k])
      BY <2>2, <2>5 DEF Blocks, Says
    <2>7. i \in 1..Len(Sides(input))
      BY <2>2, SidesAre
    <2>8. V = Stated(s)
      BY <1>1, <2>1, <2>4, <2>6, <2>7 DEF Joins
    <2>9. IsSeq(a.api)
      BY <2>2 DEF Blocks
    <2>10. IsSeq(b.api) /\ SaysIs(b.api, V)
      BY <2>3, <2>6, <2>9, ToolPropsOnce, PassedSays
    <2>11. Stated(b) = V
      BY <2>10, StatedIs
    <2> QED
      BY <2>1, <2>8, <2>11
  <1>2. ASSUME session # NoSession PROVE Stated(session) = Stated(LeaderSession(input))
    <2>1. PICK s, b : s = LeaderSession(input) /\ b = session
      OBVIOUS
    <2> DEFINE tool == IF UsesTLS(s) THEN SolaceProps(input, s) ELSE <<>>
    <2>2. Leads(input) /\ b.api = AppendPassthrough(tool, s.api)
      BY <1>2, <2>1 DEF SessionLed, SessionApi
    <2>3. Accepted(input) /\ Decoded(input)
      BY InputIsDecoded DEF Ordered, Built
    <2>4. s \in RenderedSides(input)
      BY <2>1, <2>2, <2>3, RenderedAre
    <2>5. Sound(input, s)
      BY <2>3, <2>4, RenderedSound
    <2>6. IsSeq(s.api) /\ \A m, n \in SaysAt(s) : m = n
      BY <2>4, <2>5, BlocksAreSeqs DEF Sound, SaidOnce
    <2>7. SaysIs(s.api, Stated(s))
      BY <2>6, StatesOnce
    <2>8. IsSeq(tool) /\ ValidateKey \notin Keys(tool)
      BY SolacePropsOnce, NoKey
    <2> HIDE DEF tool
    <2>9. IsSeq(b.api) /\ SaysIs(b.api, Stated(s))
      BY <2>2, <2>6, <2>7, <2>8, PassedSays
    <2> QED
      BY <2>1, <2>9, StatedIs
  <1> QED
    BY <1>1, <1>2

\* The defaults are lists of properties.
LEMMA DefaultsAreSeqs == Decoded(input) => IsSeq(input.solaceDefaults) /\ IsSeq(input.mqDefaults)
  BY OwnElements DEF Decoded, Properties

\* What is rendered says nothing twice.
LEMMA KeysAreOnce == Ordered /\ Wired /\ AccBlocks /\ SessionLed => KeysOnce
  <1> SUFFICES ASSUME Ordered, Wired, AccBlocks, SessionLed, Built PROVE KeysOnce
    BY DEF KeysOnce
  <1>1. Accepted(input) /\ Decoded(input)
    BY InputIsDecoded DEF Ordered, Built
  <1>2. PICK ds, dm : ds = input.solaceDefaults /\ dm = input.mqDefaults
    OBVIOUS
  <1>3. IsSeq(ds) /\ IsSeq(dm)
    BY <1>1, <1>2, DefaultsAreSeqs
  <1>4. ASSUME NEW j \in DOMAIN binders
        PROVE  LET b == binders[j]
                   managed == b.system = "mq" \/ DropManaged(ds, "solace") = ds
               IN  /\ Once(IF b.system = "mq" THEN dm ELSE ds) => Once(b.extras)
                   /\ managed => DropManaged(b.extras, b.system) = b.extras
                   /\ \A m, n \in DOMAIN b.api : b.api[m].key = b.api[n].key => m = n
    <2>1. PICK a, b : a = accs[j] /\ b = binders[j]
      OBVIOUS
    <2>2. b = Binder(a) /\ Blocks(input, a, Len(Sides(input))) /\ a.system \in Systems
      BY <2>1, BuiltBlocks
    <2>3. IsSeq(a.api) /\ OnceKeys(a.api) /\ IsSeq(a.extra)
      BY <2>2 DEF Blocks
    <2>4. b.system = a.system /\ b.api = AppendPassthrough(ToolProps(a), a.api)
      BY <2>2, BinderBlocks
    <2>5. \A m, n \in DOMAIN b.api : b.api[m].key = b.api[n].key => m = n
      <3>1. OnceKeys(b.api)
        BY <2>3, <2>4, ToolPropsOnce, PassedOn
      <3> QED
        BY <3>1 DEF OnceKeys
    <2>6. CASE a.system = "solace"
      <3> DEFINE over == DropManaged(a.extra, "solace")
      <3>1. b.extras = OverlayExtras(ds, over)
        BY <1>2, <2>2, <2>6, BinderBlocks
      <3>2. IsSeq(over) /\ \A p \in Elements(over) : Canonical(p.key) \notin ToolManagedKeys("solace")
        BY <2>3, DroppedIs
      <3> HIDE DEF over
      <3>3. /\ IsSeq(b.extras) /\ Elements(b.extras) \subseteq Elements(ds) \cup Elements(over)
            /\ Once(ds) => Once(b.extras)
        BY <1>3, <3>1, <3>2, OverlayOnce
      <3>4. DropManaged(ds, "solace") = ds => DropManaged(b.extras, "solace") = b.extras
        <4>1. DropManaged(ds, "solace") = ds => \A p \in Elements(ds) : Canonical(p.key) \notin ToolManagedKeys("solace")
          BY <1>3, NothingDropped
        <4>2. DropManaged(ds, "solace") = ds => \A p \in Elements(b.extras) : Canonical(p.key) \notin ToolManagedKeys("solace")
          BY <3>2, <3>3, <4>1
        <4> QED
          BY <3>3, <4>2, NothingDropped
      <3>5. b.system = "solace" /\ b.system # "mq"
        BY <2>4, <2>6
      <3> QED
        BY <2>1, <2>5, <3>3, <3>4, <3>5
    <2>7. CASE a.system = "mq"
      <3> DEFINE base == DropManaged(dm, "mq")
                 over == DropManaged(a.extra, "mq")
      <3>1. b.extras = OverlayExtras(base, over)
        BY <1>2, <2>2, <2>7, BinderBlocks
      <3>2. IsSeq(over) /\ \A p \in Elements(over) : Canonical(p.key) \notin ToolManagedKeys("mq")
        BY <2>3, DroppedIs
      <3>3. /\ IsSeq(base) /\ \A p \in Elements(base) : Canonical(p.key) \notin ToolManagedKeys("mq")
            /\ Once(dm) => Once(base)
        BY <1>3, DroppedIs
      <3> HIDE DEF over, base
      <3>4. /\ IsSeq(b.extras) /\ Elements(b.extras) \subseteq Elements(base) \cup Elements(over)
            /\ Once(base) => Once(b.extras)
        BY <3>1, <3>2, <3>3, OverlayOnce
      <3>5. \A p \in Elements(b.extras) : Canonical(p.key) \notin ToolManagedKeys("mq")
        BY <3>2, <3>3, <3>4
      <3>6. DropManaged(b.extras, "mq") = b.extras
        BY <3>4, <3>5, NothingDropped
      <3>7. b.system = "mq"
        BY <2>4, <2>7
      <3> QED
        BY <2>1, <2>5, <3>3, <3>4, <3>6, <3>7
    <2> QED
      BY <2>2, <2>6, <2>7 DEF Systems
  <1>5. Once(ds) => Once(session.extras)
    <2>1. CASE session = NoSession
      BY <2>1 DEF NoSession, Once
    <2>2. CASE session # NoSession
      <3>1. PICK s : s = LeaderSession(input)
        OBVIOUS
      <3> DEFINE over == DropManaged(s.extra, "solace")
      <3>2. Leads(input) /\ session.extras = OverlayExtras(ds, over)
        BY <1>2, <2>2, <3>1 DEF SessionLed, SessionExtras
      <3>3. s \in RenderedSides(input)
        BY <1>1, <3>1, <3>2, RenderedAre
      <3>4. Sound(input, s)
        BY <1>1, <3>3, RenderedSound
      <3>5. IsSeq(s.extra)
        BY <3>4, BlocksAreSeqs DEF Sound
      <3>6. IsSeq(over)
        BY <3>5, DroppedIs
      <3> HIDE DEF over
      <3> QED
        BY <1>3, <3>2, <3>6, OverlayOnce
    <2> QED
      BY <2>1, <2>2
  <1> QED
    BY <1>2, <1>4, <1>5 DEF KeysOnce

-----------------------------------------------------------------------------
\* The invariant of the blocks.
BlocksInv == Ordered /\ Wired /\ AccBlocks /\ SessionLed

\* The invariant of the blocks, of every behaviour.
LEMMA BlocksHold == Spec => []BlocksInv
  <1>1. Init => BlocksInv
    BY InitOrdered, InitWired, InitBlocks, InitSession DEF BlocksInv
  <1>2. BlocksInv /\ [Next]_vars => BlocksInv'
    BY OrderedKeeps, WiredKeeps, BlocksKeep, SessionKeeps DEF BlocksInv
  <1> QED
    BY <1>1, <1>2, PTL DEF Spec

\* mergeProp and CheckValidateConflicts: for every input none of whose blocks states it
\* twice, each connection gets the certificate validation it states, whatever the other
\* files of its binder say and in whatever order they are read.
THEOREM KeepsThePosture == Spec => []PostureKept
  <1>1. BlocksInv => PostureKept
    BY PostureHolds DEF BlocksInv
  <1> QED
    BY <1>1, BlocksHold, PTL

\* mergeProp, overlayExtras, dropManaged and appendPassthrough: for every input and every
\* spelling, no property is rendered twice unless a defaults block writes it so.
THEOREM SaysNothingTwice == Spec => []KeysOnce
  <1>1. BlocksInv => KeysOnce
    BY KeysAreOnce DEF BlocksInv
  <1> QED
    BY <1>1, BlocksHold, PTL
=============================================================================
