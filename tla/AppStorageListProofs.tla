------------------------- MODULE AppStorageListProofs -------------------------
(***************************************************************************)
(* What load_directory lists, for trees of any depth: ListIsTree.  The     *)
(* function recurs over the tree; the inductions here are over the numbers *)
(* in a set (NumberLemmas).                                                *)
(***************************************************************************)
EXTENDS AppStorageProofs, FiniteSetTheorems, NumberLemmas

-----------------------------------------------------------------------------
(***************************************************************************)
(* The order of the entries of a directory.                                *)
(***************************************************************************)

\* Two children of a directory differ in their last names.
LEMMA ChildByName ==
    ASSUME NEW d \in Paths, NEW q \in Children(d)
    PROVE  /\ q \in Paths /\ IsStrictPrefix(d, q) /\ IsPrefix(d, q) /\ Len(q) = Len(d) + 1
           /\ Len(d) \in Nat /\ Len(q) \in Nat
           /\ Last(q) \in Names /\ Last(q) \in Nat
           /\ \A r \in Children(d) : Last(q) = Last(r) => q = r
<1>1. \A r \in Children(d) :
        /\ r \in Paths /\ IsStrictPrefix(d, r) /\ IsPrefix(d, r) /\ Len(r) = Len(d) + 1
        /\ r \in Seq(Names) /\ Len(r) \in Nat
    BY PathIsSeq, LenProperties DEF Children, IsStrictPrefix
<1>2. d \in Seq(Names) /\ Len(d) \in Nat
    BY PathIsSeq, LenProperties
<1>3. Last(q) \in Names
    <2>1. Len(q) \in 1..Len(q)
        BY <1>1, <1>2
    <2> QED BY <1>1, <2>1, ElementOfSeq DEF Last
<1>4. ASSUME NEW r \in Children(d), Last(q) = Last(r) PROVE q = r
    <2>1. \A i \in 1..Len(d) : q[i] = r[i]
        BY <1>1, <1>2, PrefixIff
    <2>2. q[Len(d) + 1] = r[Len(d) + 1]
        BY <1>1, <1>4 DEF Last
    <2>3. ASSUME NEW i \in 1..Len(q) PROVE q[i] = r[i]
        <3>1. i \in 1..Len(d) \/ i = Len(d) + 1
            BY <1>1, <1>2
        <3> QED BY <2>1, <2>2, <3>1
    <2>4. Len(q) = Len(r)
        BY <1>1
    <2> QED BY <1>1, <2>3, <2>4, SeqEqual
<1> QED BY <1>1, <1>2, <1>3, <1>4, NamesAssumption

\* A directory has finitely many children.
LEMMA ChildrenFinite ==
    ASSUME NEW d \in Paths, NEW S \in SUBSET Children(d)
    PROVE  IsFiniteSet(S) /\ Cardinality(S) \in Nat
<1> DEFINE name == [q \in S |-> Last(q)]
<1>1. name \in Injection(S, Names)
    <2>1. \A q \in S : Last(q) \in Names /\ \A r \in S : Last(q) = Last(r) => q = r
        BY ChildByName
    <2> QED BY <2>1 DEF Injection, IsInjective
<1>2. IsFiniteSet(S)
    BY <1>1, NamesAssumption, FS_Injection
<1> QED BY <1>2, FS_CardinalityType

\* The list of the elements of S in the order of their last names.
ByName(s, S) ==
    /\ s \in [1..Cardinality(S) -> S]
    /\ \A i, j \in DOMAIN s : i < j => Last(s[i]) < Last(s[j])

\* The children of a directory have such a list.
LEMMA SortedExists ==
    ASSUME NEW d \in Paths, NEW S \in SUBSET Children(d)
    PROVE  \E s : ByName(s, S)
<1> DEFINE Sizes == {n \in Nat : \A X \in SUBSET Children(d) :
                        Cardinality(X) = n => \E s : ByName(s, X)}
<1>1. 0 \in Sizes
    <2> SUFFICES ASSUME NEW X \in SUBSET Children(d), Cardinality(X) = 0
                 PROVE  \E s : ByName(s, X)
        OBVIOUS
    <2> DEFINE s == [i \in {} |-> Dir]
    <2>1. 1..Cardinality(X) = {}
        OBVIOUS
    <2>2. s \in [{} -> X] /\ DOMAIN s = {}
        OBVIOUS
    <2>3. ByName(s, X)
        BY <2>1, <2>2, Zenon DEF ByName
    <2> QED BY <2>3
<1>2. ASSUME NEW n \in Nat, n \in Sizes PROVE n + 1 \in Sizes
    <2> SUFFICES ASSUME NEW X \in SUBSET Children(d), Cardinality(X) = n + 1
                 PROVE  \E s : ByName(s, X)
        OBVIOUS
    <2>1. IsFiniteSet(X) /\ X # {}
        BY ChildrenFinite, FS_EmptySet
    <2> DEFINE lasts == {Last(q) : q \in X}
    <2>2. PICK least \in lasts : \A m \in lasts : least <= m
        <3>1. lasts \in SUBSET Nat /\ lasts # {}
            BY <2>1, ChildByName
        <3> HIDE DEF lasts
        <3> QED BY <3>1, Smallest
    <2>3. PICK q \in X : \A r \in X : Last(q) <= Last(r)
        BY <2>2
    <2> DEFINE Y == X \ {q}
    <2>4. Y \in SUBSET Children(d) /\ Cardinality(Y) = n
        <3>1. Cardinality(Y) = Cardinality(X) - 1
            BY <2>1, FS_RemoveElement
        <3> QED BY <3>1
    <2>5. PICK y : ByName(y, Y)
        BY <1>2, <2>4
    <2>6. \A r \in Y : Last(q) < Last(r)
        <3> SUFFICES ASSUME NEW r \in Y PROVE Last(q) < Last(r)
            OBVIOUS
        <3>1. Last(q) \in Nat /\ Last(r) \in Nat /\ Last(q) # Last(r)
            BY ChildByName
        <3> QED BY <2>3, <3>1
    <2> DEFINE s == [i \in 1..n + 1 |-> IF i = 1 THEN q ELSE y[i - 1]]
    <2>7. y \in [1..n -> Y] /\ \A i, j \in 1..n : i < j => Last(y[i]) < Last(y[j])
        BY <2>4, <2>5 DEF ByName
    <2>8. \A i \in 1..n + 1 : i # 1 => i - 1 \in 1..n /\ y[i - 1] \in Y
        BY <2>7
    <2>9. s \in [1..n + 1 -> X]
        BY <2>8
    <2>10. ASSUME NEW i \in 1..n + 1, NEW j \in 1..n + 1, i < j
           PROVE  Last(s[i]) < Last(s[j])
        <3>1. j # 1 /\ j - 1 \in 1..n /\ s[j] = y[j - 1] /\ y[j - 1] \in Y
            BY <2>8, <2>10
        <3>2. CASE i = 1
            BY <2>6, <3>1, <3>2
        <3>3. CASE i # 1
            <4>1. i - 1 \in 1..n /\ i - 1 < j - 1 /\ s[i] = y[i - 1]
                BY <2>8, <2>10, <3>3
            <4> QED BY <2>7, <3>1, <4>1
        <3> QED BY <3>2, <3>3
    <2>11. ByName(s, X)
        <3>1. DOMAIN s = 1..n + 1
            OBVIOUS
        <3> QED BY <2>9, <2>10, <3>1 DEF ByName
    <2> QED BY <2>11
<1>3. Sizes = Nat
    <2> HIDE DEF Sizes
    <2>1. Sizes \in SUBSET Nat
        BY DEF Sizes
    <2> QED BY <1>1, <1>2, <2>1, SetInduction
<1>4. Cardinality(S) \in Sizes
    BY <1>3, ChildrenFinite
<1> QED BY <1>4

\* Sorted is that list, and has every element once.
LEMMA SortedList ==
    ASSUME NEW d \in Paths, NEW S \in SUBSET Children(d)
    PROVE  /\ Cardinality(S) \in Nat
           /\ Sorted(S) \in [1..Cardinality(S) -> S]
           /\ \A i, j \in 1..Cardinality(S) : Sorted(S)[i] = Sorted(S)[j] => i = j
           /\ \A q \in S : \E i \in 1..Cardinality(S) : Sorted(S)[i] = q
<1> DEFINE n == Cardinality(S)
           s == Sorted(S)
<1>1. n \in Nat /\ IsFiniteSet(S)
    BY ChildrenFinite
<1>2. ByName(s, S)
    <2>1. PICK y : ByName(y, S)
        BY SortedExists
    <2>2. \E z \in [1..n -> S] : \A i, j \in DOMAIN z : i < j => Last(z[i]) < Last(z[j])
        BY <2>1 DEF ByName
    <2> QED BY <2>2 DEF ByName, Sorted
<1> HIDE DEF s
<1>3. s \in [1..n -> S] /\ \A i, j \in 1..n : i < j => Last(s[i]) < Last(s[j])
    BY <1>2 DEF ByName
<1> HIDE DEF n
<1>4. \A i, j \in 1..n : s[i] = s[j] => i = j
    <2> SUFFICES ASSUME NEW i \in 1..n, NEW j \in 1..n, s[i] = s[j], i < j
                 PROVE  FALSE
        BY <1>1
    <2>1. Last(s[i]) \in Nat /\ Last(s[i]) < Last(s[j])
        <3>1. s[i] \in S
            BY <1>3
        <3> QED BY <1>3, <3>1, ChildByName
    <2> QED BY <2>1
<1>5. s \in Injection(1..n, S)
    BY <1>3, <1>4 DEF Injection, IsInjective
<1>6. Cardinality(1..n) = n
    BY <1>1, FS_Interval
<1>7. s \in Surjection(1..n, S)
    BY <1>1, <1>5, <1>6, FS_Injection DEF n
<1>8. \A q \in S : \E i \in 1..n : s[i] = q
    BY <1>7 DEF Surjection
<1> QED BY <1>1, <1>3, <1>4, <1>8 DEF n, s

-----------------------------------------------------------------------------
(***************************************************************************)
(* Listings: sequences of blocks whose names, below p, are the paths in Q. *)
(***************************************************************************)
Blocks == [dir : BOOLEAN, name : Paths]

\* b has each path in Q once and as what it is in t, and none of them after
\* one that is below it.
Listing(b, p, t, Q) ==
    /\ b \in Seq(Blocks)
    /\ \A i \in 1..Len(b) : p \o b[i].name \in Q
    /\ \A q \in Q : \E i \in 1..Len(b) : p \o b[i].name = q
    /\ \A i, j \in 1..Len(b) :
            /\ p \o b[i].name = p \o b[j].name => i = j
            /\ IsStrictPrefix(p \o b[i].name, p \o b[j].name) => i < j
    /\ \A i \in 1..Len(b) : b[i].dir = IsDir(t, p \o b[i].name)

\* No path of R is a path of Q or above one.
Follows(Q, R) == \A q \in Q, r \in R : q # r /\ ~IsStrictPrefix(r, q)

\* The listing of nothing.
LEMMA ListingOfNothing == ASSUME NEW p, NEW t PROVE Listing(<< >>, p, t, {})
<1>1. << >> \in Seq(Blocks) /\ Len(<< >>) = 0
    BY EmptySeq
<1>2. 1..Len(<< >>) = {}
    BY <1>1
<1> QED BY <1>1, <1>2 DEF Listing

\* A block tells where its path is, below p.
LEMMA BlockOfPath ==
    ASSUME NEW p \in Paths, NEW t, NEW q \in Paths, IsPrefix(p, q)
    PROVE  /\ Block(t, p, q) \in Blocks
           /\ p \o Block(t, p, q).name = q
           /\ Block(t, p, q).dir = IsDir(t, q)
<1>1. SubSeq(q, Len(p) + 1, Len(q)) \in Paths /\ p \o SubSeq(q, Len(p) + 1, Len(q)) = q
    BY RestOfPath
<1>2. IsDir(t, q) \in BOOLEAN
    BY DEF IsDir
<1> QED BY <1>1, <1>2 DEF Block, Blocks

\* One listing and then another is a listing of the paths of both.
LEMMA ListingConcat ==
    ASSUME NEW p, NEW t, NEW Q, NEW R, NEW b, NEW c,
           Listing(b, p, t, Q), Listing(c, p, t, R), Follows(Q, R)
    PROVE  Listing(b \o c, p, t, Q \cup R)
<1> DEFINE m == Len(b)
           n == Len(c)
           bc == b \o c
           B(i) == p \o b[i].name
           C(i) == p \o c[i].name
           BC(i) == p \o bc[i].name
<1>1. b \in Seq(Blocks) /\ c \in Seq(Blocks)
    BY DEF Listing
<1>2. /\ bc \in Seq(Blocks) /\ Len(bc) = m + n /\ m \in Nat /\ n \in Nat
      /\ \A i \in 1..m + n : bc[i] = IF i <= m THEN b[i] ELSE c[i - m]
    BY <1>1, ConcatProperties, LenProperties
<1> HIDE DEF bc, m, n
<1>3. /\ \A i \in 1..m : B(i) \in Q /\ b[i].dir = IsDir(t, B(i))
      /\ \A q \in Q : \E i \in 1..m : B(i) = q
      /\ \A i, j \in 1..m : (B(i) = B(j) => i = j) /\ (IsStrictPrefix(B(i), B(j)) => i < j)
    BY DEF Listing, m
<1>4. /\ \A i \in 1..n : C(i) \in R /\ c[i].dir = IsDir(t, C(i))
      /\ \A q \in R : \E i \in 1..n : C(i) = q
      /\ \A i, j \in 1..n : (C(i) = C(j) => i = j) /\ (IsStrictPrefix(C(i), C(j)) => i < j)
    BY DEF Listing, n
<1>5. /\ \A i \in 1..m : i \in 1..m + n /\ bc[i] = b[i]
      /\ \A i \in 1..n : i + m \in 1..m + n /\ bc[i + m] = c[i]
    <2>1. ASSUME NEW i \in 1..m PROVE i \in 1..m + n /\ bc[i] = b[i]
        BY <1>2
    <2>2. ASSUME NEW i \in 1..n PROVE i + m \in 1..m + n /\ bc[i + m] = c[i]
        <3>1. i + m \in 1..m + n /\ ~(i + m <= m) /\ i + m - m = i
            BY <1>2
        <3> QED BY <1>2, <3>1
    <2> QED BY <2>1, <2>2
<1>6. /\ \A i \in 1..m : i \in 1..m + n /\ bc[i] = b[i] /\ BC(i) = B(i)
      /\ \A i \in 1..n : i + m \in 1..m + n /\ bc[i + m] = c[i] /\ BC(i + m) = C(i)
    BY <1>5, Zenon
<1> HIDE DEF B, C, BC
<1>7. ASSUME NEW i \in 1..m + n
      PROVE  \/ i \in 1..m /\ bc[i] = b[i] /\ BC(i) = B(i)
             \/ i - m \in 1..n /\ ~(i \in 1..m) /\ bc[i] = c[i - m] /\ BC(i) = C(i - m)
    <2>1. CASE i \in 1..m
        BY <1>6, <2>1, Zenon
    <2>2. CASE ~(i \in 1..m)
        <3>1. i - m \in 1..n /\ i - m + m = i
            BY <1>2, <2>2
        <3> QED BY <1>6, <2>2, <3>1
    <2> QED BY <2>1, <2>2
<1>8. ASSUME NEW i \in 1..m + n
      PROVE  /\ i \in 1..m => BC(i) \in Q
             /\ ~(i \in 1..m) => BC(i) \in R
             /\ bc[i].dir = IsDir(t, BC(i))
    <2>1. CASE i \in 1..m
        <3>1. bc[i] = b[i] /\ BC(i) = B(i)
            BY <1>6, <2>1, Zenon
        <3> QED BY <1>3, <2>1, <3>1
    <2>2. CASE ~(i \in 1..m)
        <3>1. i - m \in 1..n /\ bc[i] = c[i - m] /\ BC(i) = C(i - m)
            BY <1>7, <2>2, Zenon
        <3> QED BY <1>4, <2>2, <3>1
    <2> QED BY <2>1, <2>2
<1>9. \A q \in Q \cup R : \E i \in 1..m + n : BC(i) = q
    BY <1>3, <1>4, <1>6, Zenon
<1>10. ASSUME NEW i \in 1..m + n, NEW j \in 1..m + n
       PROVE  (BC(i) = BC(j) => i = j) /\ (IsStrictPrefix(BC(i), BC(j)) => i < j)
    <2>1. CASE i \in 1..m /\ j \in 1..m
        BY <1>3, <1>7, <2>1
    <2>2. CASE i \in 1..m /\ ~(j \in 1..m)
        <3>1. BC(i) \in Q /\ BC(j) \in R
            BY <1>8, <2>2, Zenon
        <3>2. i < j
            BY <1>2, <2>2
        <3> QED BY <3>1, <3>2 DEF Follows
    <2>3. CASE ~(i \in 1..m) /\ j \in 1..m
        <3>1. BC(i) \in R /\ BC(j) \in Q
            BY <1>8, <2>3, Zenon
        <3> QED BY <3>1 DEF Follows
    <2>4. CASE ~(i \in 1..m) /\ ~(j \in 1..m)
        <3>1. /\ i - m \in 1..n /\ j - m \in 1..n
              /\ BC(i) = C(i - m) /\ BC(j) = C(j - m)
            BY <1>7, <2>4, Zenon
        <3>2. /\ BC(i) = BC(j) => i - m = j - m
              /\ IsStrictPrefix(BC(i), BC(j)) => i - m < j - m
            BY <1>4, <3>1, Zenon
        <3> QED BY <1>2, <3>2
    <2> QED BY <2>1, <2>2, <2>3, <2>4
<1>11. Listing(bc, p, t, Q \cup R)
    <2>1. \A i \in 1..m + n : BC(i) \in Q \cup R
        BY <1>8
    <2>2. Len(bc) = m + n /\ bc \in Seq(Blocks)
        BY <1>2
    <2> QED BY <1>8, <1>9, <1>10, <2>1, <2>2, Zenon DEF Listing, BC
<1> QED BY <1>11 DEF bc

\* A sequence of blocks, of the children of a directory and each of them once.
LEMMA ListingOfChildren ==
    ASSUME NEW p \in Paths, NEW t, NEW d \in Paths, IsPrefix(p, d), NEW S \in SUBSET Children(d),
           NEW n \in Nat, NEW s \in [1..n -> S],
           \A i, j \in 1..n : s[i] = s[j] => i = j,
           \A q \in S : \E i \in 1..n : s[i] = q,
           NEW b, b = [i \in 1..n |-> Block(t, p, s[i])]
    PROVE  Listing(b, p, t, S)
<1> DEFINE c == [i \in 1..n |-> Block(t, p, s[i])]
<1>1. ASSUME NEW q \in S PROVE q \in Paths /\ IsPrefix(p, q)
    BY ChildByName, PrefixOrder
<1>2. ASSUME NEW i \in 1..n
      PROVE  c[i] \in Blocks /\ p \o c[i].name = s[i] /\ c[i].dir = IsDir(t, s[i])
    <2>1. s[i] \in Paths /\ IsPrefix(p, s[i])
        BY <1>1
    <2> QED BY <2>1, BlockOfPath
<1>3. c \in Seq(Blocks) /\ Len(c) = n
    BY <1>2, SeqDef, LenProperties
<1> HIDE DEF c
<1>4. ASSUME NEW q \in S, NEW r \in S PROVE ~IsStrictPrefix(q, r)
    <2>1. q \in Paths /\ r \in Paths /\ Len(q) = Len(r) /\ Len(q) \in Nat
        BY ChildByName
    <2> QED BY <2>1, PrefixOrder
<1>5. \A i \in 1..n : s[i] \in S
    OBVIOUS
<1>6. Listing(c, p, t, S)
    <2>1. \A i \in 1..n : p \o c[i].name \in S /\ c[i].dir = IsDir(t, p \o c[i].name)
        BY <1>2, <1>5
    <2>2. \A q \in S : \E i \in 1..n : p \o c[i].name = q
        BY <1>2
    <2>3. ASSUME NEW i \in 1..n, NEW j \in 1..n
          PROVE  /\ p \o c[i].name = p \o c[j].name => i = j
                 /\ ~IsStrictPrefix(p \o c[i].name, p \o c[j].name)
        <3>1. p \o c[i].name = s[i] /\ p \o c[j].name = s[j]
            BY <1>2
        <3>2. ~IsStrictPrefix(s[i], s[j]) /\ (s[i] = s[j] => i = j)
            BY <1>4, <1>5
        <3> QED BY <3>1, <3>2, Zenon
    <2> QED BY <1>3, <2>1, <2>2, <2>3, Zenon DEF Listing
<1> QED BY <1>6 DEF c

-----------------------------------------------------------------------------
(***************************************************************************)
(* FlattenSeq, of a sequence of listings.                                  *)
(***************************************************************************)

\* The recursion of FlattenSeq has its function.
LEMMA FlattenFunction ==
    ASSUME NEW ss, NEW n \in Nat
    PROVE  \E f : f = [i \in 1..n |-> IF i = 1 THEN ss[i] ELSE f[i - 1] \o ss[i]]
<1> DEFINE Of(f, i) == IF i = 1 THEN ss[i] ELSE f[i - 1] \o ss[i]
           S == {k \in Nat : \E f : f = [i \in 1..k |-> Of(f, i)]}
<1>1. 0 \in S
    <2> DEFINE f == [i \in 1..0 |-> Dir]
    <2> HIDE DEF Of
    <2>1. f = [i \in 1..0 |-> Of(f, i)]
        OBVIOUS
    <2> QED BY <2>1
<1>2. ASSUME NEW k \in Nat, k \in S PROVE k + 1 \in S
    <2>1. PICK f : f = [i \in 1..k |-> Of(f, i)]
        BY <1>2
    <2> DEFINE g == [i \in 1..k + 1 |-> Of(f, i)]
    <2> HIDE DEF Of
    <2>2. ASSUME NEW i \in 1..k PROVE g[i] = f[i]
        <3>1. f[i] = Of(f, i)
            BY <2>1
        <3> QED BY <3>1
    <2> HIDE DEF g
    <2>3. ASSUME NEW i \in 1..k + 1 PROVE Of(g, i) = Of(f, i)
        <3>1. i = 1 \/ g[i - 1] = f[i - 1]
            BY <2>2
        <3> QED BY <3>1 DEF Of
    <2>4. g = [i \in 1..k + 1 |-> Of(g, i)]
        BY <2>3 DEF g
    <2> QED BY <2>4
<1>3. S = Nat
    <2> HIDE DEF S
    <2>1. S \in SUBSET Nat
        BY DEF S
    <2> QED BY <1>1, <1>2, <2>1, SetInduction
<1> QED BY <1>3

\* What FlattenSeq makes, step by step.
LEMMA FlattenSteps ==
    ASSUME NEW n \in Nat, n # 0, NEW ss \in [1..n -> Seq(Blocks)]
    PROVE  \E f : /\ FlattenSeq(ss) = f[n]
                  /\ f[1] = ss[1]
                  /\ \A i \in 1..n : i # 1 => f[i] = f[i - 1] \o ss[i]
<1> DEFINE Of(f, i) == IF i = 1 THEN ss[i] ELSE f[i - 1] \o ss[i]
           g == CHOOSE f : f = [i \in 1..n |-> Of(f, i)]
<1>1. Len(ss) = n
    BY SeqDef, LenProperties
<1>2. g = [i \in 1..n |-> Of(g, i)]
    BY FlattenFunction
<1>3. FlattenSeq(ss) = g[n]
    BY <1>1 DEF FlattenSeq
<1> HIDE DEF g, Of
<1>4. \A i \in 1..n : g[i] = Of(g, i)
    BY <1>2, Zenon
<1>5. g[1] = ss[1] /\ \A i \in 1..n : i # 1 => g[i] = g[i - 1] \o ss[i]
    <2>1. 1 \in 1..n
        OBVIOUS
    <2>2. ASSUME NEW i \in 1..n, i # 1 PROVE g[i] = g[i - 1] \o ss[i]
        BY <1>4, <2>2, Zenon DEF Of
    <2> QED BY <1>4, <2>1, <2>2, Zenon DEF Of
<1> QED BY <1>3, <1>5, Zenon

\* The paths of the first k sets.
FirstOf(Qs, k) == UNION {Qs[i] : i \in 1..k}

\* Listings one after the other, flattened, list the paths of all.
LEMMA ListingFlatten ==
    ASSUME NEW p, NEW t, NEW n \in Nat, NEW ss \in [1..n -> Seq(Blocks)], NEW Qs,
           \A i \in 1..n : Listing(ss[i], p, t, Qs[i]),
           \A i, j \in 1..n : i < j => Follows(Qs[i], Qs[j])
    PROVE  Listing(FlattenSeq(ss), p, t, FirstOf(Qs, n))
<1>1. CASE n = 0
    <2>1. ss = << >>
        <3>1. ss \in Seq(Seq(Blocks)) /\ Len(ss) = 0
            BY <1>1, SeqDef, LenProperties
        <3> QED BY <3>1, EmptySeq
    <2>2. FlattenSeq(ss) = << >>
        BY <2>1, EmptySeq DEF FlattenSeq
    <2>3. FirstOf(Qs, n) = {}
        BY <1>1 DEF FirstOf
    <2> QED BY <2>2, <2>3, ListingOfNothing
<1>2. CASE n # 0
    <2>1. PICK f : /\ FlattenSeq(ss) = f[n]
                   /\ f[1] = ss[1]
                   /\ \A i \in 1..n : i # 1 => f[i] = f[i - 1] \o ss[i]
        BY <1>2, FlattenSteps, Zenon
    <2> DEFINE S == {k \in Nat : k + 1 \in 1..n => Listing(f[k + 1], p, t, FirstOf(Qs, k + 1))}
    <2>2. 0 \in S
        <3>1. FirstOf(Qs, 1) = Qs[1]
            BY DEF FirstOf
        <3>2. 1 \in 1..n
            BY <1>2
        <3> QED BY <2>1, <3>1, <3>2
    <2>3. ASSUME NEW k \in Nat, k \in S PROVE k + 1 \in S
        <3> SUFFICES ASSUME k + 1 + 1 \in 1..n
                     PROVE  Listing(f[k + 1 + 1], p, t, FirstOf(Qs, k + 1 + 1))
            OBVIOUS
        <3> DEFINE m == k + 1
        <3>1. m \in 1..n /\ m + 1 \in 1..n /\ m + 1 # 1 /\ m + 1 - 1 = m
            OBVIOUS
        <3>2. Listing(f[m], p, t, FirstOf(Qs, m))
            BY <2>3, <3>1
        <3> HIDE DEF m, S
        <3>3. f[m + 1] = f[m] \o ss[m + 1]
            <4> DEFINE j == m + 1
            <4>1. j \in 1..n /\ j # 1 /\ j - 1 = m
                BY <3>1
            <4> HIDE DEF j
            <4>2. f[j] = f[j - 1] \o ss[j]
                BY <2>1, <4>1, Zenon
            <4> QED BY <4>1, <4>2, Zenon DEF j
        <3>4. FirstOf(Qs, m + 1) = FirstOf(Qs, m) \cup Qs[m + 1]
            <4>1. \A i : i \in 1..m + 1 <=> i \in 1..m \/ i = m + 1
                BY <3>1
            <4> QED BY <4>1, Zenon DEF FirstOf
        <3>5. Follows(FirstOf(Qs, m), Qs[m + 1])
            <4>1. \A i \in 1..m : i \in 1..n /\ i < m + 1
                BY <3>1
            <4>2. \A i \in 1..m : Follows(Qs[i], Qs[m + 1])
                BY <3>1, <4>1
            <4> QED BY <4>2 DEF Follows, FirstOf
        <3>6. Listing(f[m + 1], p, t, FirstOf(Qs, m + 1))
            BY <3>1, <3>2, <3>3, <3>4, <3>5, ListingConcat
        <3> QED BY <3>6 DEF m
    <2>4. S = Nat
        <3> HIDE DEF S
        <3>1. S \in SUBSET Nat
            BY DEF S
        <3> QED BY <2>2, <2>3, <3>1, SetInduction
    <2>5. n - 1 \in S /\ n - 1 + 1 = n /\ n \in 1..n
        <3> HIDE DEF S
        <3> QED BY <1>2, <2>4
    <2> QED BY <2>1, <2>5
<1> QED BY <1>1, <1>2

-----------------------------------------------------------------------------
(***************************************************************************)
(* The tree above and below a path.                                        *)
(***************************************************************************)

\* A path strictly below d is at or below a child of d.
LEMMA ChildAbove ==
    ASSUME NEW d \in Paths, NEW q \in Paths, IsStrictPrefix(d, q)
    PROVE  \E c \in Children(d) : IsPrefix(c, q)
<1> DEFINE m == Len(d) + 1
           c == SubSeq(q, 1, m)
<1>1. d \in Seq(Names) /\ q \in Seq(Names) /\ Len(q) <= MaxDepth
    BY PathIsSeq
<1>2. m \in Nat /\ Len(q) \in Nat /\ Len(d) \in Nat /\ m <= Len(q)
    BY <1>1, LenProperties, PrefixOrder
<1>3. \A i \in 1..m : i \in 1..Len(q) /\ q[i] \in Names
    BY <1>1, <1>2, ElementOfSeq
<1>4. c \in Seq(Names) /\ Len(c) = m /\ \A i \in 1..m : c[i] = q[i]
    <2>1. /\ c \in Seq(Names) /\ Len(c) = IF 1 <= m THEN m - 1 + 1 ELSE 0
          /\ \A i \in 1..m - 1 + 1 : c[i] = q[1 + i - 1]
        BY <1>1, <1>2, <1>3, SubSeqProperties
    <2>2. 1 <= m /\ m - 1 + 1 = m /\ \A i \in 1..m : 1 + i - 1 = i
        BY <1>2
    <2> HIDE DEF c, m
    <2> QED BY <2>1, <2>2
<1> HIDE DEF c
<1>5. c \in Paths
    <2>1. Len(c) <= MaxDepth
        BY <1>1, <1>2, <1>4, BoundsAssumption
    <2> QED BY <1>4, <2>1, PathIsSeq, Zenon
<1>6. IsPrefix(c, q)
    BY <1>1, <1>2, <1>4, PrefixIff
<1>7. IsPrefix(d, c) /\ Len(c) = Len(d) + 1
    <2>1. IsPrefix(d, q) /\ Len(d) <= Len(c)
        BY <1>2, <1>4 DEF IsStrictPrefix
    <2> QED BY <1>4, <1>5, <1>6, <2>1, PrefixOrder
<1>8. d # c
    BY <1>2, <1>4
<1> QED BY <1>5, <1>6, <1>7, <1>8 DEF Children, IsStrictPrefix

\* What is at or below one child of d is not at or above what is at or below
\* another.
LEMMA ChildrenApart ==
    ASSUME NEW d \in Paths, NEW c \in Children(d), NEW e \in Children(d), c # e,
           NEW q \in Paths, NEW r \in Paths, IsPrefix(c, q), IsPrefix(e, r)
    PROVE  q # r /\ ~IsStrictPrefix(r, q)
<1> SUFFICES ASSUME IsPrefix(r, q) PROVE FALSE
    BY PrefixOrder DEF IsStrictPrefix
<1>1. c \in Paths /\ e \in Paths /\ Len(c) = Len(e) /\ Len(c) \in Nat /\ Len(e) \in Nat
    BY ChildByName
<1>2. IsPrefix(e, q)
    BY <1>1, PrefixOrder
<1>3. IsPrefix(c, e)
    BY <1>1, <1>2, PrefixOrder
<1>4. ~(Len(c) < Len(e))
    BY <1>1
<1> QED BY <1>1, <1>3, <1>4, PrefixOrder DEF IsStrictPrefix

\* In a sound tree there are directories above whatever there is.
LEMMA SoundAbove ==
    ASSUME NEW t, Sound(t), NEW q \in Paths, t[q] # Free, NEW a \in Paths, IsStrictPrefix(a, q)
    PROVE  t[a] = Dir
<1> DEFINE S == {n \in Nat : \A x, y \in Paths :
                    Len(x) = n /\ t[x] # Free /\ IsStrictPrefix(y, x) => t[y] = Dir}
<1>1. 0 \in S
    <2> SUFFICES ASSUME NEW x \in Paths, NEW y \in Paths, Len(x) = 0, IsStrictPrefix(y, x)
                 PROVE  FALSE
        OBVIOUS
    <2>1. Len(y) < Len(x) /\ Len(y) \in Nat
        BY PrefixOrder, PathIsSeq, LenProperties
    <2> QED BY <2>1
<1>2. ASSUME NEW n \in Nat, n \in S PROVE n + 1 \in S
    <2> SUFFICES ASSUME NEW x \in Paths, NEW y \in Paths,
                        Len(x) = n + 1, t[x] # Free, IsStrictPrefix(y, x)
                 PROVE  t[y] = Dir
        OBVIOUS
    <2>1. x # << >>
        BY RootIsPath
    <2>2. /\ Front(x) \in Paths /\ IsPrefix(Front(x), x) /\ IsPrefix(y, x)
          /\ Len(Front(x)) = n
        BY <2>1, FrontOfPath DEF IsStrictPrefix
    <2>3. t[Front(x)] = Dir /\ t[Front(x)] # Free
        BY <2>1, ValuesAssumption DEF Sound
    <2>4. Len(y) <= Len(Front(x))
        <3>1. Len(y) < Len(x) /\ Len(y) \in Nat
            BY PrefixOrder, PathIsSeq, LenProperties
        <3> QED BY <2>2, <3>1
    <2>5. IsPrefix(y, Front(x))
        BY <2>2, <2>4, PrefixOrder
    <2>6. CASE y = Front(x)
        BY <2>3, <2>6
    <2>7. CASE y # Front(x)
        BY <1>2, <2>2, <2>3, <2>5, <2>7 DEF IsStrictPrefix
    <2> QED BY <2>6, <2>7
<1>3. S = Nat
    <2> HIDE DEF S
    <2>1. S \in SUBSET Nat
        BY DEF S
    <2> QED BY <1>1, <1>2, <2>1, SetInduction
<1>4. Len(q) \in S
    <2>1. Len(q) \in Nat
        BY PathIsSeq, LenProperties
    <2> HIDE DEF S
    <2> QED BY <1>3, <2>1
<1> QED BY <1>4

-----------------------------------------------------------------------------
(***************************************************************************)
(* load_directory.                                                         *)
(***************************************************************************)
Dirs(t, d) == {q \in Children(d) : IsDir(t, q)}
Files(t, d) == {q \in Children(d) : IsFile(t, q)}

\* What Loaded puts for a directory: its block and what it holds.
Held(t, p, recursive, load, q) ==
    <<Block(t, p, q)>> \o (IF recursive THEN load[q] ELSE << >>)

DirBlocks(t, p, recursive, load, d) ==
    [i \in 1..Cardinality(Dirs(t, d)) |-> Held(t, p, recursive, load, Sorted(Dirs(t, d))[i])]
FileBlocks(t, p, d) ==
    [i \in 1..Cardinality(Files(t, d)) |-> Block(t, p, Sorted(Files(t, d))[i])]

\* Loaded is what is put for the directories, and then the files.
LEMMA LoadedParts ==
    ASSUME NEW t, NEW p, NEW recursive, NEW load, NEW d \in Paths
    PROVE  Loaded(t, p, recursive, load, d) =
                FlattenSeq(DirBlocks(t, p, recursive, load, d)) \o FileBlocks(t, p, d)
<1> DEFINE dirs == Sorted(Dirs(t, d))
           files == Sorted(Files(t, d))
<1>1. Dirs(t, d) \in SUBSET Children(d) /\ Files(t, d) \in SUBSET Children(d)
    BY DEF Dirs, Files
<1>2. Loaded(t, p, recursive, load, d) =
        FlattenSeq([i \in DOMAIN dirs |-> Held(t, p, recursive, load, dirs[i])])
        \o [i \in DOMAIN files |-> Block(t, p, files[i])]
    BY DEF Loaded, Held, Dirs, Files
<1>3. DOMAIN dirs = 1..Cardinality(Dirs(t, d)) /\ DOMAIN files = 1..Cardinality(Files(t, d))
    BY <1>1, SortedList
<1> HIDE DEF dirs, files
<1> QED BY <1>2, <1>3, Zenon DEF dirs, files, DirBlocks, FileBlocks

\* Loaded looks load up for the children of its directory alone.
LEMMA LoadedDepends ==
    ASSUME NEW t, NEW p, NEW recursive, NEW f, NEW g, NEW d \in Paths,
           \A q \in Children(d) : f[q] = g[q]
    PROVE  Loaded(t, p, recursive, f, d) = Loaded(t, p, recursive, g, d)
<1> DEFINE dirs == Sorted(Dirs(t, d))
           n == Cardinality(Dirs(t, d))
<1>1. dirs \in [1..n -> Dirs(t, d)]
    <2>1. Dirs(t, d) \in SUBSET Children(d)
        BY DEF Dirs
    <2> QED BY <2>1, SortedList
<1> HIDE DEF dirs, n
<1>2. ASSUME NEW i \in 1..n
      PROVE  Held(t, p, recursive, f, dirs[i]) = Held(t, p, recursive, g, dirs[i])
    <2>1. dirs[i] \in Children(d)
        BY <1>1 DEF Dirs
    <2>2. f[dirs[i]] = g[dirs[i]]
        BY <2>1
    <2> QED BY <2>2, Zenon DEF Held
<1>3. DirBlocks(t, p, recursive, f, d) = DirBlocks(t, p, recursive, g, d)
    <2>1. [i \in 1..n |-> Held(t, p, recursive, f, dirs[i])]
            = [i \in 1..n |-> Held(t, p, recursive, g, dirs[i])]
        BY <1>2
    <2> QED BY <2>1, Zenon DEF DirBlocks, dirs, n
<1> QED BY <1>3, LoadedParts

\* The recursion of load_directory has its function.
LEMMA LoadFunction ==
    ASSUME NEW t, NEW p, NEW recursive
    PROVE  \E load : load = [d \in Paths |-> Loaded(t, p, recursive, load, d)]
<1> DEFINE Of(f, d) == Loaded(t, p, recursive, f, d)
           Within(f, k) == /\ f = [d \in Paths |-> f[d]]
                           /\ \A d \in Paths : MaxDepth < Len(d) + k => f[d] = Of(f, d)
           S == {k \in Nat : \E f : Within(f, k)}
<1>1. \A d \in Paths : Len(d) \in Nat /\ Len(d) <= MaxDepth
    BY PathIsSeq, LenProperties
<1>2. MaxDepth \in Nat
    BY BoundsAssumption
<1> HIDE DEF Of
<1>3. 0 \in S
    <2> DEFINE f == [d \in Paths |-> Dir]
    <2>1. f = [d \in Paths |-> f[d]]
        OBVIOUS
    <2>2. \A d \in Paths : ~(MaxDepth < Len(d) + 0)
        BY <1>1, <1>2
    <2> HIDE DEF f
    <2>3. Within(f, 0)
        BY <2>1, <2>2
    <2> QED BY <2>3
<1>4. ASSUME NEW k \in Nat, k \in S PROVE k + 1 \in S
    <2>1. PICK f : Within(f, k)
        BY <1>4
    <2> DEFINE g == [d \in Paths |-> IF Len(d) + k = MaxDepth THEN Of(f, d) ELSE f[d]]
    <2>2. \A d \in Paths : g[d] = IF Len(d) + k = MaxDepth THEN Of(f, d) ELSE f[d]
        OBVIOUS
    <2>3. g = [d \in Paths |-> g[d]]
        OBVIOUS
    <2> HIDE DEF g
    <2>4. ASSUME NEW d \in Paths, MaxDepth < Len(d) + (k + 1) PROVE g[d] = Of(g, d)
        <3>1. ASSUME NEW q \in Children(d) PROVE f[q] = g[q]
            <4>1. q \in Paths /\ Len(q) = Len(d) + 1
                BY ChildByName
            <4>2. Len(q) + k # MaxDepth
                BY <1>1, <1>2, <2>4, <4>1
            <4> QED BY <2>2, <4>1, <4>2
        <3>2. Of(f, d) = Of(g, d)
            BY <3>1, LoadedDepends DEF Of
        <3>3. CASE Len(d) + k = MaxDepth
            BY <2>2, <3>2, <3>3
        <3>4. CASE Len(d) + k # MaxDepth
            <4>1. MaxDepth < Len(d) + k
                BY <1>1, <1>2, <2>4, <3>4
            <4>2. f[d] = Of(f, d)
                BY <2>1, <4>1
            <4> QED BY <2>2, <3>2, <3>4, <4>2
        <3> QED BY <3>3, <3>4
    <2>5. Within(g, k + 1)
        BY <2>3, <2>4
    <2> QED BY <2>5
<1>5. S = Nat
    <2> HIDE DEF S
    <2>1. S \in SUBSET Nat
        BY DEF S
    <2> QED BY <1>3, <1>4, <2>1, SetInduction
<1>6. PICK f : Within(f, MaxDepth + 1)
    BY <1>2, <1>5
<1>7. \A d \in Paths : MaxDepth < Len(d) + (MaxDepth + 1)
    BY <1>1, <1>2
<1>8. \A d \in Paths : f[d] = Of(f, d)
    BY <1>6, <1>7
<1>9. f = [d \in Paths |-> Of(f, d)]
    BY <1>6, <1>8
<1> QED BY <1>9 DEF Of

-----------------------------------------------------------------------------
(***************************************************************************)
(* What load_directory lists.                                              *)
(***************************************************************************)

\* What there is below d: one step, or with the recursive option any.
Below(t, d, recursive) ==
    {q \in Paths : /\ IsStrictPrefix(d, q) /\ t[q] # Free
                   /\ recursive \/ Len(q) = Len(d) + 1}

\* What is below a directory is its files, its directories, and what is below
\* these.
LEMMA BelowParts ==
    ASSUME NEW t \in Trees, Sound(t), NEW d \in Paths, NEW recursive \in BOOLEAN, NEW q
    PROVE  q \in Below(t, d, recursive)
              <=> \/ q \in Files(t, d)
                  \/ \E c \in Dirs(t, d) : q = c \/ (recursive /\ q \in Below(t, c, recursive))
<1>1. Dir # Free /\ Free \notin Contents \cup {Torn}
    BY ValuesAssumption
<1>2. ASSUME NEW c \in Children(d), t[c] # Free PROVE c \in Below(t, d, recursive)
    BY <1>2, ChildByName DEF Below
<1>3. ASSUME q \in Files(t, d) PROVE q \in Below(t, d, recursive)
    BY <1>1, <1>2, <1>3 DEF Files, IsFile
<1>4. ASSUME NEW c \in Dirs(t, d) PROVE c \in Below(t, d, recursive)
    BY <1>1, <1>2 DEF Dirs, IsDir
<1>5. ASSUME NEW c \in Dirs(t, d), recursive, q \in Below(t, c, recursive)
      PROVE  q \in Below(t, d, recursive)
    <2>1. c \in Paths /\ q \in Paths /\ IsStrictPrefix(d, c) /\ IsStrictPrefix(c, q) /\ t[q] # Free
        BY <1>5, ChildByName DEF Dirs, Below
    <2>2. IsPrefix(d, q)
        BY <2>1, PrefixOrder DEF IsStrictPrefix
    <2>3. d # q
        <3>1. Len(d) < Len(c) /\ Len(c) < Len(q) /\ Len(d) \in Nat /\ Len(c) \in Nat /\ Len(q) \in Nat
            BY <2>1, PrefixOrder, PathIsSeq, LenProperties
        <3> QED BY <3>1
    <2> QED BY <1>5, <2>1, <2>2, <2>3 DEF Below, IsStrictPrefix
<1>6. ASSUME q \in Below(t, d, recursive)
      PROVE  \/ q \in Files(t, d)
             \/ \E c \in Dirs(t, d) : q = c \/ (recursive /\ q \in Below(t, c, recursive))
    <2>1. /\ q \in Paths /\ IsStrictPrefix(d, q) /\ t[q] # Free
          /\ recursive \/ Len(q) = Len(d) + 1
        BY <1>6 DEF Below
    <2>2. CASE Len(q) = Len(d) + 1
        <3>1. q \in Children(d)
            BY <2>1, <2>2 DEF Children
        <3>2. t[q] \in Contents \cup {Torn, Dir}
            BY <2>1 DEF Trees, Cells
        <3> QED BY <2>1, <3>1, <3>2 DEF Files, Dirs, IsFile, IsDir
    <2>3. CASE Len(q) # Len(d) + 1
        <3>1. PICK c \in Children(d) : IsPrefix(c, q)
            BY <2>1, ChildAbove
        <3>2. c \in Paths /\ IsStrictPrefix(c, q)
            BY <2>3, <3>1, ChildByName DEF IsStrictPrefix
        <3>3. t[c] = Dir
            BY <2>1, <3>2, SoundAbove
        <3> QED BY <2>1, <2>3, <3>2, <3>3 DEF Dirs, IsDir, Below
    <2> QED BY <2>2, <2>3
<1> QED BY <1>3, <1>4, <1>5, <1>6

\* What is put for a directory lists it and, with the recursive option, what
\* is below it.
LEMMA HeldLists ==
    ASSUME NEW t, NEW p \in Paths, NEW recursive \in BOOLEAN, NEW load,
           NEW c \in Paths, IsPrefix(p, c),
           recursive => Listing(load[c], p, t, Below(t, c, recursive))
    PROVE  Listing(Held(t, p, recursive, load, c), p, t,
                   {c} \cup IF recursive THEN Below(t, c, recursive) ELSE {})
<1> DEFINE one == <<Block(t, p, c)>>
<1>1. Listing(one, p, t, {c})
    <2>1. /\ Block(t, p, c) \in Blocks /\ p \o Block(t, p, c).name = c
          /\ Block(t, p, c).dir = IsDir(t, c)
        BY BlockOfPath
    <2>2. one \in Seq(Blocks) /\ Len(one) = 1 /\ one[1] = Block(t, p, c)
        BY <2>1
    <2>3. ~IsStrictPrefix(c, c)
        BY DEF IsStrictPrefix
    <2>4. 1..Len(one) = {1}
        BY <2>2
    <2> HIDE DEF one
    <2> QED BY <2>1, <2>2, <2>3, <2>4 DEF Listing
<1> HIDE DEF one
<1>2. CASE recursive
    <2>1. Follows({c}, Below(t, c, recursive))
        <3> SUFFICES ASSUME NEW r \in Below(t, c, recursive)
                     PROVE  c # r /\ ~IsStrictPrefix(r, c)
            BY DEF Follows
        <3>1. r \in Paths /\ Len(c) < Len(r) /\ Len(c) \in Nat /\ Len(r) \in Nat
            BY PrefixOrder, PathIsSeq, LenProperties DEF Below
        <3> QED BY <3>1, PrefixOrder
    <2>2. Listing(one \o load[c], p, t, {c} \cup Below(t, c, recursive))
        BY <1>1, <1>2, <2>1, ListingConcat
    <2> QED BY <1>2, <2>2, Zenon DEF Held, one
<1>3. CASE ~recursive
    <2>1. Follows({c}, {})
        BY DEF Follows
    <2>2. Listing(one \o << >>, p, t, {c} \cup {})
        BY <1>1, <2>1, ListingOfNothing, ListingConcat
    <2> QED BY <1>3, <2>2, Zenon DEF Held, one
<1> QED BY <1>2, <1>3

\* Loaded lists what is below its directory, when load does so for the
\* directories in it.
LEMMA LoadedLists ==
    ASSUME NEW t \in Trees, Sound(t), NEW p \in Paths, NEW recursive \in BOOLEAN, NEW load,
           NEW d \in Paths, IsPrefix(p, d),
           \A c \in Dirs(t, d) : recursive => Listing(load[c], p, t, Below(t, c, recursive))
    PROVE  Listing(Loaded(t, p, recursive, load, d), p, t, Below(t, d, recursive))
<1> DEFINE D == Dirs(t, d)
           F == Files(t, d)
           n == Cardinality(D)
           dirs == Sorted(D)
           files == Sorted(F)
           ss == DirBlocks(t, p, recursive, load, d)
           Of(c) == {c} \cup IF recursive THEN Below(t, c, recursive) ELSE {}
           Qs == [i \in 1..n |-> Of(dirs[i])]
           rest == FileBlocks(t, p, d)
<1>1. D \in SUBSET Children(d) /\ F \in SUBSET Children(d)
    BY DEF Dirs, Files
<1>2. /\ n \in Nat /\ dirs \in [1..n -> D]
      /\ \A i, j \in 1..n : dirs[i] = dirs[j] => i = j
      /\ \A c \in D : \E i \in 1..n : dirs[i] = c
    BY <1>1, SortedList
<1>3. Listing(rest, p, t, F)
    <2>1. /\ Cardinality(F) \in Nat /\ files \in [1..Cardinality(F) -> F]
          /\ \A i, j \in 1..Cardinality(F) : files[i] = files[j] => i = j
          /\ \A c \in F : \E i \in 1..Cardinality(F) : files[i] = c
        BY <1>1, SortedList
    <2>2. rest = [i \in 1..Cardinality(F) |-> Block(t, p, files[i])]
        BY DEF FileBlocks
    <2> HIDE DEF F, files, rest
    <2> QED BY <1>1, <2>1, <2>2, ListingOfChildren, SMTT(30)
<1>4. Loaded(t, p, recursive, load, d) = FlattenSeq(ss) \o rest
    BY LoadedParts
<1>5. ss = [i \in 1..n |-> Held(t, p, recursive, load, dirs[i])]
    BY DEF DirBlocks
<1> HIDE DEF n, dirs, files, ss, rest, Of
<1>6. \A i \in 1..n : dirs[i] \in D /\ ss[i] = Held(t, p, recursive, load, dirs[i])
                      /\ Qs[i] = Of(dirs[i])
    BY <1>2, <1>5
<1>7. ASSUME NEW i \in 1..n PROVE Listing(ss[i], p, t, Qs[i]) /\ ss[i] \in Seq(Blocks)
    <2>1. dirs[i] \in Paths /\ IsPrefix(p, dirs[i])
        BY <1>1, <1>6, ChildByName, PrefixOrder
    <2>2. Listing(Held(t, p, recursive, load, dirs[i]), p, t, Of(dirs[i]))
        BY <1>6, <2>1, HeldLists DEF Of
    <2> QED BY <1>6, <2>2 DEF Listing
<1>8. \A c \in D : \A q \in Of(c) : q \in Paths /\ IsPrefix(c, q)
    BY <1>1, ChildByName, PrefixOrder DEF Of, Below, IsStrictPrefix
<1>9. ASSUME NEW i \in 1..n, NEW j \in 1..n, i < j PROVE Follows(Qs[i], Qs[j])
    <2>1. dirs[i] \in Children(d) /\ dirs[j] \in Children(d) /\ dirs[i] # dirs[j]
        BY <1>1, <1>2, <1>6, <1>9
    <2> QED BY <1>6, <1>8, <2>1, ChildrenApart DEF Follows
<1>10. ss \in [1..n -> Seq(Blocks)]
    BY <1>7, <1>5
<1> HIDE DEF Qs
<1>11. Listing(FlattenSeq(ss), p, t, FirstOf(Qs, n))
    BY <1>2, <1>7, <1>9, <1>10, ListingFlatten
<1>12. Follows(FirstOf(Qs, n), F)
    <2> SUFFICES ASSUME NEW i \in 1..n, NEW q \in Qs[i], NEW r \in F
                 PROVE  q # r /\ ~IsStrictPrefix(r, q)
        BY DEF Follows, FirstOf
    <2>1. q \in Paths /\ IsPrefix(dirs[i], q) /\ dirs[i] \in D
        BY <1>6, <1>8
    <2>2. r \in Paths /\ IsPrefix(r, r)
        BY <1>1, ChildByName, PrefixOrder
    <2>3. dirs[i] # r
        BY <2>1, ValuesAssumption DEF Dirs, Files, IsDir, IsFile
    <2> QED BY <1>1, <2>1, <2>2, <2>3, ChildrenApart
<1>13. FirstOf(Qs, n) \cup F = Below(t, d, recursive)
    <2>1. \A q : q \in FirstOf(Qs, n) <=> \E c \in D : q \in Of(c)
        BY <1>2, <1>6 DEF FirstOf
    <2>2. \A q : q \in FirstOf(Qs, n)
                    <=> \E c \in D : q = c \/ (recursive /\ q \in Below(t, c, recursive))
        BY <2>1 DEF Of
    <2>3. \A q : q \in FirstOf(Qs, n) \cup F <=> q \in Below(t, d, recursive)
        BY <2>2, BelowParts
    <2> QED BY <2>3
<1> QED BY <1>3, <1>4, <1>11, <1>12, <1>13, ListingConcat

\* load_directory lists what is below its path.
LEMMA DirectoryLists ==
    ASSUME NEW t \in Trees, Sound(t), NEW p \in Paths, NEW recursive \in BOOLEAN
    PROVE  Listing(LoadDirectory(t, p, recursive), p, t, Below(t, p, recursive))
<1> DEFINE load == CHOOSE load : load = [d \in Paths |-> Loaded(t, p, recursive, load, d)]
           Lists(d) == Listing(load[d], p, t, Below(t, d, recursive))
<1>1. load = [d \in Paths |-> Loaded(t, p, recursive, load, d)]
    BY LoadFunction
<1>2. LoadDirectory(t, p, recursive) = load[p]
    BY DEF LoadDirectory
<1> HIDE DEF load
<1>3. \A d \in Paths : load[d] = Loaded(t, p, recursive, load, d)
    BY <1>1
<1>4. \A d \in Paths : Len(d) \in Nat /\ Len(d) <= MaxDepth
    BY PathIsSeq, LenProperties
<1>5. MaxDepth \in Nat /\ IsPrefix(p, p)
    BY BoundsAssumption, PrefixOrder
<1>6. ASSUME NEW d \in Paths, IsPrefix(p, d),
             \A c \in Dirs(t, d) : recursive => Lists(c)
      PROVE  Lists(d)
    BY <1>3, <1>6, LoadedLists
<1> DEFINE S == {k \in Nat : \A d \in Paths :
                    MaxDepth < Len(d) + k /\ IsPrefix(p, d) => Lists(d)}
<1> HIDE DEF Lists
<1>7. 0 \in S
    BY <1>4, <1>5
<1>8. ASSUME NEW k \in Nat, k \in S PROVE k + 1 \in S
    <2> SUFFICES ASSUME NEW d \in Paths, MaxDepth < Len(d) + (k + 1), IsPrefix(p, d)
                 PROVE  Lists(d)
        OBVIOUS
    <2>1. ASSUME NEW c \in Dirs(t, d) PROVE Lists(c)
        <3>1. c \in Paths /\ Len(c) = Len(d) + 1 /\ IsPrefix(d, c)
            BY ChildByName DEF Dirs
        <3>2. IsPrefix(p, c)
            BY <3>1, PrefixOrder
        <3>3. MaxDepth < Len(c) + k
            BY <1>4, <1>5, <3>1
        <3> QED BY <1>8, <3>1, <3>2, <3>3
    <2> QED BY <1>6, <2>1
<1>9. S = Nat
    <2> HIDE DEF S
    <2>1. S \in SUBSET Nat
        BY DEF S
    <2> QED BY <1>7, <1>8, <2>1, SetInduction
<1>10. MaxDepth + 1 \in S
    BY <1>5, <1>9
<1>11. Lists(p)
    BY <1>4, <1>5, <1>10
<1> QED BY <1>2, <1>11 DEF Lists

-----------------------------------------------------------------------------
\* No step but HandleList leaves an answer to a list.
LEMMA ListedOnly ==
    ASSUME TypeOK, [Next]_vars, reply' # Nothing, reply'.kind = "list"
    PROVE  UNCHANGED vars \/ \E r \in Requests : HandleList(r)
<1>1. CASE Kill \/ Restart
    BY <1>1 DEF Kill, Killed, Ends, Restart
<1>2. ASSUME NEW r \in Requests,
             \/ HandleGarbled(r) \/ HandleUnknowable(r) \/ HandleWrongPassword(r)
             \/ DieRegistering(r) \/ HandleRefused(r) \/ HandleUpload(r) \/ HandleDelete(r)
             \/ DieDeleting(r)
      PROVE  FALSE
    BY <1>2 DEF HandleGarbled, HandleUnknowable, HandleWrongPassword, DieRegistering, Killed,
                HandleRefused, Refuse, HandleUpload, HandleDelete, DieDeleting, Ends
<1>3. ASSUME NEW r \in Requests, HandleDownload(r) PROVE FALSE
    BY <1>3 DEF HandleDownload
<1>4. ASSUME NEW u \in uploads, PostUpload(u) \/ PostUploadRaises(u) \/ DieUploading(u)
      PROVE  FALSE
    BY <1>4 DEF PostUpload, PostUploadRaises, DieUploading, Killed, Ends
<1> QED BY <1>1, <1>2, <1>3, <1>4 DEF Next

\* What HandleList answers is the listing of the tree that it leaves.
LEMMA ListAnswers ==
    ASSUME TypeOK, TypeOK', \A s \in Storages : Sound(tree'[s]),
           NEW r \in Requests, HandleList(r)
    PROVE  Listing(reply'.data, reply'.path, tree'[reply'.storage],
                   Below(tree'[reply'.storage], reply'.path, reply'.recursive))
<1>1. PICK e \in Entrances(r) :
        /\ Enters(r, e) /\ r.kind = "list" /\ ~Missing(r, e.tree[e.storage])
        /\ tree' = e.tree
        /\ reply' = [kind |-> "list", storage |-> e.storage, path |-> r.path,
                     recursive |-> r.recursive,
                     data |-> LoadDirectory(e.tree[e.storage], r.path, r.recursive)]
    BY DEF HandleList
<1> DEFINE t == tree'[e.storage]
<1>2. e.storage \in Storages /\ r.recursive \in BOOLEAN /\ r.path \in Paths
    BY <1>1, EntranceParts, NotMissing, RequestsAssumption
<1>3. t \in Trees /\ Sound(t)
    BY <1>2 DEF TypeOK, Trees, Cells
<1>4. /\ reply'.storage = e.storage /\ reply'.path = r.path /\ reply'.recursive = r.recursive
      /\ reply'.data = LoadDirectory(t, r.path, r.recursive)
    BY <1>1
<1> HIDE DEF t
<1>5. Listing(LoadDirectory(t, r.path, r.recursive), r.path, t, Below(t, r.path, r.recursive))
    BY <1>2, <1>3, DirectoryLists
<1> QED BY <1>4, <1>5 DEF t

\* The answer to a list is the listing of what is below its path.
ListInv ==
    reply # Nothing /\ reply.kind = "list" =>
        Listing(reply.data, reply.path, tree[reply.storage],
                Below(tree[reply.storage], reply.path, reply.recursive))

\* That is what ListIsTree asks for.
LEMMA ListInvIsTree == ListInv => ListIsTree
<1> SUFFICES ASSUME ListInv, reply # Nothing, reply.kind = "list" PROVE ListIsTree
    BY DEF ListIsTree
<1> DEFINE b == reply.data
           t == tree[reply.storage]
           Place(i) == reply.path \o b[i].name
           B == Below(t, reply.path, reply.recursive)
<1>1. b \in Seq(Blocks) /\ DOMAIN b = 1..Len(b)
    BY LenProperties DEF ListInv, Listing
<1>2. /\ \A i \in DOMAIN b : Place(i) \in B
      /\ \A q \in B : \E i \in DOMAIN b : Place(i) = q
      /\ \A i, j \in DOMAIN b :
            /\ Place(i) = Place(j) => i = j
            /\ IsStrictPrefix(Place(i), Place(j)) => i < j
      /\ \A i \in DOMAIN b : b[i].dir = IsDir(t, Place(i))
    BY <1>1, Zenon DEF ListInv, Listing
<1>3. {Place(i) : i \in DOMAIN b} = B
    <2> HIDE DEF Place, B, b
    <2> QED BY <1>2
<1> QED BY <1>2, <1>3, Zenon DEF ListIsTree, Below

\* A step keeps ListInv, when the trees that it leaves are sound.
LEMMA ListInvStep == TypeOK /\ TypeOK' /\ TreeSound' /\ ListInv /\ [Next]_vars => ListInv'
<1> SUFFICES ASSUME TypeOK, TypeOK', TreeSound', ListInv, [Next]_vars,
                    reply' # Nothing, reply'.kind = "list"
             PROVE  Listing(reply'.data, reply'.path, tree'[reply'.storage],
                            Below(tree'[reply'.storage], reply'.path, reply'.recursive))
    BY DEF ListInv
<1>1. CASE UNCHANGED vars
    <2>1. reply' = reply /\ tree' = tree
        BY <1>1 DEF vars, disk
    <2> QED BY <2>1 DEF ListInv
<1>2. ASSUME NEW r \in Requests, HandleList(r)
      PROVE  Listing(reply'.data, reply'.path, tree'[reply'.storage],
                     Below(tree'[reply'.storage], reply'.path, reply'.recursive))
    <2>1. \A s \in Storages : Sound(tree'[s])
        BY FrontOfPath DEF TreeSound, Sound, IsDir
    <2> QED BY <1>2, <2>1, ListAnswers
<1> QED BY <1>1, <1>2, ListedOnly

\* ListIsTree: a listing has every file and directory below the path, or with
\* the recursive option at any depth below it, once and as what it is, and a
\* directory before what it holds.
THEOREM ListIsTreeAlways == Spec => []ListIsTree
<1>1. Init => ListInv
    BY DEF Init, ListInv
<1> QED BY <1>1, ListInvStep, ListInvIsTree, TypeCorrect, TreeSoundAlways, PTL DEF Spec
=============================================================================
