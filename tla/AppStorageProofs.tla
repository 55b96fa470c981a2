---------------------------- MODULE AppStorageProofs ----------------------------
(***************************************************************************)
(* Safety of AppStorage for all names, contents, users and requests, and   *)
(* every number of requests and crashes.                                   *)
(***************************************************************************)
EXTENDS AppStorage, SequenceTheorems, TLAPS

-----------------------------------------------------------------------------
(***************************************************************************)
(* Paths.                                                                  *)
(***************************************************************************)

\* A path is a sequence of at most MaxDepth names.
LEMMA PathIsSeq ==
    ASSUME NEW p
    PROVE  p \in Paths <=> p \in Seq(Names) /\ Len(p) <= MaxDepth
<1>1. ASSUME p \in Paths PROVE p \in Seq(Names) /\ Len(p) <= MaxDepth
    <2>1. PICK m \in 0..MaxDepth : p \in [1..m -> Names]
        BY <1>1 DEF Paths, BoundedSeq, SeqOf
    <2>2. p \in Seq(Names)
        BY <2>1, SeqDef
    <2>3. Len(p) = m
        BY <2>1, <2>2, LenProperties
    <2> QED BY <2>1, <2>2, <2>3
<1>2. ASSUME p \in Seq(Names), Len(p) <= MaxDepth PROVE p \in Paths
    <2>1. Len(p) \in Nat /\ p \in [1..Len(p) -> Names]
        BY <1>2, LenProperties, Zenon
    <2>2. Len(p) \in 0..MaxDepth
        BY <1>2, <2>1
    <2> QED BY <2>1, <2>2 DEF Paths, BoundedSeq, SeqOf
<1> QED BY <1>1, <1>2

\* What it is to be a prefix, name by name.
LEMMA PrefixIff ==
    ASSUME NEW a \in Seq(Names), NEW b \in Seq(Names)
    PROVE  IsPrefix(a, b) <=> Len(a) <= Len(b) /\ \A i \in 1..Len(a) : a[i] = b[i]
<1> DEFINE n == Len(a)
           x == SubSeq(a, 1, n)
           y == SubSeq(b, 1, n)
<1> SUFFICES ASSUME n <= Len(b)
             PROVE  x = y <=> \A i \in 1..n : a[i] = b[i]
    BY LenProperties DEF IsPrefix
<1>1. n \in Nat /\ (\A i \in 1..n : a[i] \in Names) /\ (\A i \in 1..n : b[i] \in Names)
    <2>1. Len(a) \in Nat /\ Len(b) \in Nat
        BY LenProperties
    <2>2. \A i \in 1..n : i \in 1..Len(a) /\ i \in 1..Len(b)
        BY <2>1
    <2> QED BY <2>1, <2>2, ElementOfSeq
<1>2. /\ x \in Seq(Names) /\ Len(x) = n
      /\ \A i \in 1..n : x[i] = a[i]
    <2>1. /\ x \in Seq(Names) /\ Len(x) = IF 1 <= n THEN n - 1 + 1 ELSE 0
          /\ \A i \in 1..n - 1 + 1 : x[i] = a[1 + i - 1]
        BY <1>1, SubSeqProperties
    <2> QED BY <2>1, <1>1
<1>3. /\ y \in Seq(Names) /\ Len(y) = n
      /\ \A i \in 1..n : y[i] = b[i]
    <2>1. /\ y \in Seq(Names) /\ Len(y) = IF 1 <= n THEN n - 1 + 1 ELSE 0
          /\ \A i \in 1..n - 1 + 1 : y[i] = b[1 + i - 1]
        BY <1>1, SubSeqProperties
    <2> QED BY <2>1, <1>1
<1> HIDE DEF x, y, n
<1>4. ASSUME \A i \in 1..n : a[i] = b[i] PROVE x = y
    BY <1>2, <1>3, <1>4, SeqEqual
<1> QED BY <1>2, <1>3, <1>4

\* A prefix with the rest is the whole path, and the rest is a path.
LEMMA RestOfPath ==
    ASSUME NEW p \in Paths, NEW q \in Paths, IsPrefix(p, q)
    PROVE  /\ SubSeq(q, Len(p) + 1, Len(q)) \in Paths
           /\ p \o SubSeq(q, Len(p) + 1, Len(q)) = q
<1> DEFINE r == SubSeq(q, Len(p) + 1, Len(q))
<1>1. p \in Seq(Names) /\ q \in Seq(Names) /\ Len(q) <= MaxDepth
    BY PathIsSeq
<1>2. Len(p) \in Nat /\ Len(q) \in Nat /\ Len(p) <= Len(q)
    BY <1>1, LenProperties DEF IsPrefix
<1>3. \A i \in Len(p) + 1..Len(q) : q[i] \in Names
    BY <1>1, <1>2, ElementOfSeq
<1>4. r \in Seq(Names) /\ Len(r) = IF Len(p) + 1 <= Len(q) THEN Len(q) - (Len(p) + 1) + 1 ELSE 0
    BY <1>2, <1>3, SubSeqProperties
<1>5. r \in Paths
    <2>1. Len(r) <= MaxDepth
        BY <1>1, <1>2, <1>4, BoundsAssumption
    <2> QED BY <1>4, <2>1, PathIsSeq, Zenon
<1>6. SubSeq(q, 1, Len(p)) \o r = SubSeq(q, 1, Len(q))
    <2>1. /\ 1 \in 1..Len(q) + 1 /\ Len(p) \in 1 - 1..Len(q)
          /\ Len(q) \in Len(p)..Len(q)
        BY <1>2
    <2> QED BY <1>1, <2>1, ConcatAdjacentSubSeq
<1>7. SubSeq(q, 1, Len(p)) = p /\ SubSeq(q, 1, Len(q)) = q
    BY <1>1, SubSeqFull DEF IsPrefix
<1> QED BY <1>5, <1>6, <1>7

\* A path stays below a path that it is put under, and the rest of it is what
\* was put there.
LEMMA Placed ==
    ASSUME NEW p \in Paths, NEW r \in Paths, p \o r \in Paths
    PROVE  /\ IsPrefix(p, p \o r)
           /\ SubSeq(p \o r, Len(p) + 1, Len(p \o r)) = r
<1>1. p \in Seq(Names) /\ r \in Seq(Names) /\ p \o r \in Seq(Names)
    BY PathIsSeq
<1>2. /\ Len(p) \in Nat /\ Len(r) \in Nat /\ Len(p \o r) = Len(p) + Len(r)
      /\ \A i \in 1..Len(p) + Len(r) : (p \o r)[i] = IF i <= Len(p) THEN p[i] ELSE r[i - Len(p)]
    BY <1>1, LenProperties, ConcatProperties
<1>3. \A i \in 1..Len(p) : p[i] = (p \o r)[i]
    BY <1>2
<1>4. IsPrefix(p, p \o r)
    <2>1. Len(p) <= Len(p \o r)
        BY <1>2
    <2> QED BY <1>1, <1>3, <2>1, PrefixIff, Zenon
<1>5. p \o SubSeq(p \o r, Len(p) + 1, Len(p \o r)) = p \o r
    BY <1>4, RestOfPath
<1>6. SubSeq(p \o r, Len(p) + 1, Len(p \o r)) \in Seq(Names)
    BY <1>4, RestOfPath, PathIsSeq
<1> QED BY <1>1, <1>4, <1>5, <1>6, ConcatSimplifications

\* Prefixes of prefixes, and of the same path.
LEMMA PrefixOrder ==
    ASSUME NEW a \in Paths, NEW b \in Paths
    PROVE  /\ IsPrefix(a, a)
           /\ IsStrictPrefix(a, b) => Len(a) < Len(b)
           /\ \A c \in Paths : IsPrefix(a, b) /\ IsPrefix(b, c) => IsPrefix(a, c)
           /\ \A c \in Paths : IsPrefix(a, c) /\ IsPrefix(b, c) /\ Len(a) <= Len(b)
                                  => IsPrefix(a, b)
<1>1. \A c \in Paths : c \in Seq(Names) /\ Len(c) \in Nat
    BY PathIsSeq, LenProperties
<1>2. IsPrefix(a, a)
    BY <1>1, PrefixIff
<1>3. ASSUME IsPrefix(a, b), Len(a) = Len(b) PROVE a = b
    BY <1>1, <1>3, PrefixIff, SeqEqual
<1>4. IsPrefix(a, b) => Len(a) <= Len(b)
    BY DEF IsPrefix
<1>5. ASSUME NEW c \in Paths, IsPrefix(a, b), IsPrefix(b, c) PROVE IsPrefix(a, c)
    <2>1. Len(a) <= Len(b) /\ Len(b) <= Len(c)
        BY <1>5 DEF IsPrefix
    <2>2. \A i \in 1..Len(a) : i \in 1..Len(b) /\ a[i] = b[i]
        BY <1>1, <1>5, <2>1, PrefixIff
    <2>3. \A i \in 1..Len(b) : b[i] = c[i]
        BY <1>1, <1>5, PrefixIff
    <2> QED BY <1>1, <2>1, <2>2, <2>3, PrefixIff
<1>6. ASSUME NEW c \in Paths, IsPrefix(a, c), IsPrefix(b, c), Len(a) <= Len(b)
      PROVE  IsPrefix(a, b)
    <2>1. \A i \in 1..Len(a) : i \in 1..Len(b) /\ a[i] = c[i]
        BY <1>1, <1>6, PrefixIff
    <2>2. \A i \in 1..Len(b) : b[i] = c[i]
        BY <1>1, <1>6, PrefixIff
    <2> QED BY <1>1, <1>6, <2>1, <2>2, PrefixIff
<1> QED BY <1>1, <1>2, <1>3, <1>4, <1>5, <1>6 DEF IsStrictPrefix

\* The directory of a path other than the root.
LEMMA FrontOfPath ==
    ASSUME NEW p \in Paths, p # << >>
    PROVE  /\ Front(p) \in Paths /\ IsStrictPrefix(Front(p), p)
           /\ Len(Front(p)) = Len(p) - 1 /\ Len(p) \in Nat
<1> DEFINE f == SubSeq(p, 1, Len(p) - 1)
<1>1. p \in Seq(Names) /\ Len(p) <= MaxDepth /\ Len(p) \in Nat \ {0}
    BY PathIsSeq, EmptySeq
<1>2. \A i \in 1..Len(p) - 1 : p[i] \in Names
    BY <1>1, ElementOfSeq
<1>3. /\ f \in Seq(Names) /\ Len(f) = IF 1 <= Len(p) - 1 THEN Len(p) - 1 - 1 + 1 ELSE 0
      /\ \A i \in 1..Len(p) - 1 - 1 + 1 : f[i] = p[1 + i - 1]
    BY <1>1, <1>2, SubSeqProperties
<1> HIDE DEF f
<1>4. /\ Len(f) = Len(p) - 1 /\ Len(f) \in Nat
      /\ \A i \in 1..Len(f) : f[i] = p[i]
    <2>1. Len(f) = Len(p) - 1 /\ Len(f) \in Nat
        <3>1. Len(f) = IF 1 <= Len(p) - 1 THEN Len(p) - 1 - 1 + 1 ELSE 0
            BY <1>3
        <3>2. PICK n \in Nat : n = Len(p) - 1
            BY <1>1
        <3> QED BY <3>1, <3>2
    <2>2. Len(f) = Len(p) - 1 - 1 + 1
        BY <1>1, <2>1
    <2>3. \A i \in 1..Len(f) : 1 + i - 1 = i
        BY <2>1
    <2> QED BY <1>3, <2>1, <2>2, <2>3
<1>5. f \in Paths
    <2>1. Len(f) <= MaxDepth
        BY <1>1, <1>4, BoundsAssumption
    <2> QED BY <1>3, <2>1, PathIsSeq
<1>6. IsStrictPrefix(f, p)
    BY <1>1, <1>3, <1>4, PrefixIff DEF IsStrictPrefix
<1> QED BY <1>1, <1>4, <1>5, <1>6 DEF f, Front

\* What is strictly above something strictly above a path is strictly above it.
LEMMA StrictOrder ==
    ASSUME NEW a \in Paths, NEW b \in Paths, NEW c \in Paths,
           IsStrictPrefix(a, b), IsStrictPrefix(b, c)
    PROVE  IsStrictPrefix(a, c)
<1>1. IsPrefix(a, b) /\ IsPrefix(b, c) /\ IsPrefix(a, c)
    BY PrefixOrder DEF IsStrictPrefix
<1>2. Len(a) < Len(b) /\ Len(b) < Len(c) /\ Len(a) \in Nat /\ Len(b) \in Nat /\ Len(c) \in Nat
    BY PrefixOrder, PathIsSeq, LenProperties
<1> QED BY <1>1, <1>2 DEF IsStrictPrefix

\* The root is a path.
LEMMA RootIsPath == << >> \in Paths /\ Len(<< >>) = 0
<1>1. << >> \in Seq(Names) /\ Len(<< >>) = 0
    BY EmptySeq
<1>2. Len(<< >>) <= MaxDepth
    BY <1>1, BoundsAssumption
<1> QED BY <1>1, <1>2, PathIsSeq, Zenon

\* A place strictly above another below the same path is so in the body.
LEMMA PlacedPrefix ==
    ASSUME NEW p \in Paths, NEW x \in Paths, NEW y \in Paths, p \o x \in Paths, p \o y \in Paths,
           IsStrictPrefix(p \o x, p \o y)
    PROVE  IsStrictPrefix(x, y)
<1> DEFINE px == p \o x
           py == p \o y
<1>1. /\ p \in Seq(Names) /\ x \in Seq(Names) /\ y \in Seq(Names)
      /\ px \in Seq(Names) /\ py \in Seq(Names)
    BY PathIsSeq
<1>2. /\ Len(p) \in Nat /\ Len(x) \in Nat /\ Len(y) \in Nat
      /\ Len(px) = Len(p) + Len(x) /\ Len(py) = Len(p) + Len(y)
    BY <1>1, LenProperties, ConcatProperties
<1>3. /\ \A i \in 1..Len(p) + Len(x) : px[i] = IF i <= Len(p) THEN p[i] ELSE x[i - Len(p)]
      /\ \A i \in 1..Len(p) + Len(y) : py[i] = IF i <= Len(p) THEN p[i] ELSE y[i - Len(p)]
    BY <1>1, ConcatProperties
<1>4. IsPrefix(px, py) /\ px # py /\ x # y
    BY DEF IsStrictPrefix
<1> HIDE DEF px, py
<1>5. Len(px) <= Len(py) /\ \A i \in 1..Len(px) : px[i] = py[i]
    BY <1>1, <1>4, PrefixIff, Zenon
<1>6. ASSUME NEW i \in 1..Len(x) PROVE x[i] = y[i]
    <2> DEFINE k == Len(p) + i
    <2>1. /\ k \in 1..Len(p) + Len(x) /\ k \in 1..Len(p) + Len(y) /\ k \in 1..Len(px)
          /\ ~(k <= Len(p)) /\ k - Len(p) = i
        BY <1>2, <1>5
    <2> HIDE DEF k
    <2>2. px[k] = x[k - Len(p)] /\ py[k] = y[k - Len(p)]
        BY <1>3, <2>1, Zenon
    <2> QED BY <1>5, <2>1, <2>2, Zenon
<1>7. Len(x) <= Len(y)
    BY <1>2, <1>5
<1>8. IsPrefix(x, y)
    BY <1>1, <1>6, <1>7, PrefixIff, Zenon
<1> QED BY <1>4, <1>8 DEF IsStrictPrefix

-----------------------------------------------------------------------------
(***************************************************************************)
(* TypeOK, and what create_handler lets a request into.                    *)
(***************************************************************************)
Cells == Contents \cup {Torn, Dir, Free}
Trees == [Paths -> Cells]
UserTables == [Users -> UserData \cup {Nothing}]

\* The trees that the operations on a storage make are trees.
LEMMA TreesStay ==
    /\ EmptyTree \in Trees /\ NoTree \in Trees
    /\ \A t \in Trees, p \in Paths : /\ Removed(t, p) \in Trees /\ Deleted(t, p) \in Trees
                                     /\ Made(t, p) \in Trees
    /\ \A t \in Trees : \A S : Without(t, S) \in Trees
    /\ \A t \in Trees, p \in Paths : \A body :
            (\A q \in DOMAIN body : body[q] \in Contents \cup {Torn}) => Stored(t, p, body) \in Trees
<1>1. NoTree \in Trees
    BY DEF NoTree, Trees, Cells
<1>2. EmptyTree \in Trees
    BY <1>1, RootIsPath DEF EmptyTree, Trees, Cells
<1>3. ASSUME NEW t \in Trees, NEW p \in Paths
      PROVE  Removed(t, p) \in Trees /\ Deleted(t, p) \in Trees /\ Made(t, p) \in Trees
    <2>1. Removed(t, p) \in Trees
        BY DEF Removed, Trees, Cells
    <2>2. Made(t, p) \in Trees
        BY DEF Made, Trees, Cells
    <2> QED BY <1>2, <2>1, <2>2 DEF Deleted
<1>4. ASSUME NEW t \in Trees, NEW p \in Paths, NEW body,
             \A q \in DOMAIN body : body[q] \in Contents \cup {Torn}
      PROVE  Stored(t, p, body) \in Trees
    <2> SUFFICES ASSUME NEW q \in Paths
                 PROVE  (IF IsPrefix(p, q) /\ SubSeq(q, Len(p) + 1, Len(q)) \in DOMAIN body
                            THEN body[SubSeq(q, Len(p) + 1, Len(q))]
                         ELSE IF IsStrictPrefix(q, p) \/ \E r \in DOMAIN body : IsStrictPrefix(q, p \o r)
                            THEN Dir
                         ELSE t[q]) \in Cells
        BY DEF Stored, Trees
    <2>1. t[q] \in Cells /\ Dir \in Cells
        BY DEF Trees, Cells
    <2>2. SubSeq(q, Len(p) + 1, Len(q)) \in DOMAIN body
            => body[SubSeq(q, Len(p) + 1, Len(q))] \in Cells
        BY <1>4 DEF Cells
    <2> QED BY <2>1, <2>2, Zenon
<1>5. ASSUME NEW t \in Trees, NEW S PROVE Without(t, S) \in Trees
    BY DEF Without, Trees, Cells
<1> QED BY <1>1, <1>2, <1>3, <1>4, <1>5

\* Of a body, all or a part is at most its paths, with its contents or cut.
LEMMA PartOfBody ==
    ASSUME NEW r \in Requests, NEW part \in Parts(r.body)
    PROVE  /\ DOMAIN part \subseteq DOMAIN r.body
           /\ \A q \in DOMAIN part : part[q] \in {r.body[q], Torn}
           /\ \A q \in DOMAIN part : part[q] \in Contents \cup {Torn}
<1>1. r.body \in [DOMAIN r.body -> Contents]
    BY RequestsAssumption DEF IsBody
<1>2. PICK S \in SUBSET DOMAIN r.body, T \in {{}} \cup {{q} : q \in DOMAIN r.body} :
            part = [q \in S |-> IF q \in T THEN Torn ELSE r.body[q]]
    BY DEF Parts
<1> QED BY <1>1, <1>2

\* The whole body is one of its parts.
LEMMA WholeIsPart == \A r \in Requests : r.body \in Parts(r.body)
<1> SUFFICES ASSUME NEW r \in Requests PROVE r.body \in Parts(r.body)
    OBVIOUS
<1> DEFINE b == r.body
           part == [q \in DOMAIN b |-> IF q \in {} THEN Torn ELSE b[q]]
<1>1. b \in [DOMAIN b -> Contents]
    BY RequestsAssumption DEF IsBody
<1>2. part = b
    BY <1>1
<1>3. \E S \in SUBSET DOMAIN b, T \in {{}} \cup {{q} : q \in DOMAIN b} :
            part = [q \in S |-> IF q \in T THEN Torn ELSE b[q]]
    <2>1. DOMAIN b \in SUBSET DOMAIN b /\ {} \in {{}} \cup {{q} : q \in DOMAIN b}
        OBVIOUS
    <2> QED BY <2>1, Zenon
<1> HIDE DEF b, part
<1>4. part \in Parts(b)
    BY <1>3 DEF Parts
<1> QED BY <1>2, <1>4 DEF b

\* What a request is let into: the anonymous storage, that of its user, or
\* a new one for a user who is not recorded.
LEMMA EntranceParts ==
    ASSUME TypeOK, NEW r \in Requests, NEW e \in Entrances(r)
    PROVE  /\ e.storage \in Storages /\ e.tree \in [Storages -> Trees] /\ e.users \in UserTables
           /\ \/ /\ e.tree = tree /\ e.users = users
                 /\ \/ r.user = Anonymous /\ e.storage = Public
                    \/ r.user # Anonymous /\ users[r.user] # Nothing /\ e.storage = users[r.user].id
              \/ /\ r.user # Anonymous /\ users[r.user] = Nothing
                 /\ e.storage \in FreshIds
                 /\ e.tree = [tree EXCEPT ![e.storage] = EmptyTree]
                 /\ e.users = [users EXCEPT ![r.user] = [id |-> e.storage, password |-> r.password]]
<1>0. /\ tree \in [Storages -> Trees] /\ users \in UserTables /\ Public \in Storages
      /\ FreshIds \subseteq Storages /\ FreshIds \subseteq UserIds
    <2>1. FreshIds \subseteq UserIds
        BY DEF FreshIds
    <2>2. tree \in [Storages -> Trees] /\ users \in UserTables
        BY DEF TypeOK, Trees, Cells, UserTables
    <2> QED BY <2>1, <2>2 DEF Storages
<1>1. r.password \in Passwords /\ (r.user # Anonymous => r.user \in Users)
    BY RequestsAssumption
<1>2. CASE r.user = Anonymous
    BY <1>0, <1>2 DEF Entrances
<1>3. CASE r.user # Anonymous /\ users[r.user] = Nothing
    <2>1. PICK id \in FreshIds :
            e = [storage |-> id, tree |-> [tree EXCEPT ![id] = EmptyTree],
                 users |-> Recorded(r.user, [id |-> id, password |-> r.password])]
        BY <1>3 DEF Entrances
    <2>2. [id |-> id, password |-> r.password] \in UserData
        BY <1>0, <1>1 DEF UserData
    <2>3. e.storage = id /\ e.tree = [tree EXCEPT ![id] = EmptyTree]
          /\ e.users = [users EXCEPT ![r.user] = [id |-> id, password |-> r.password]]
        BY <2>1 DEF Recorded
    <2>4. e.tree \in [Storages -> Trees]
        BY <1>0, <2>3, TreesStay
    <2>5. e.users \in UserTables
        BY <1>0, <2>2, <2>3 DEF UserTables
    <2> QED BY <1>0, <1>3, <2>3, <2>4, <2>5
<1>4. CASE r.user # Anonymous /\ users[r.user] # Nothing
    <2>1. e = [storage |-> users[r.user].id, tree |-> tree, users |-> users]
        BY <1>4 DEF Entrances
    <2>2. users[r.user] \in UserData
        BY <1>0, <1>1, <1>4 DEF UserTables
    <2> QED BY <1>0, <1>4, <2>1, <2>2 DEF UserData, Storages
<1> QED BY <1>2, <1>3, <1>4

\* Initially everything has its type.
LEMMA InitType == Init => TypeOK
<1> SUFFICES ASSUME Init PROVE TypeOK
    OBVIOUS
<1>1. tree \in [Storages -> Trees]
    BY TreesStay DEF Init
<1>2. users \in [Users -> UserData \cup {Nothing}]
    BY DEF Init, NoUsers
<1> QED BY <1>1, <1>2, BoundsAssumption DEF Init, TypeOK, Trees, Cells

\* Receiving and entering leave what they leave, and keep the types.
LEMMA EntersType ==
    ASSUME TypeOK, NEW r \in Requests, NEW e \in Entrances(r), Enters(r, e)
    PROVE  /\ mode = "up" /\ handled + 1 \in 1..MaxRequests /\ handled' \in 0..MaxRequests
           /\ users' \in UserTables /\ (usersFile = "empty" => users' = NoUsers)
           /\ e.storage \in Storages /\ e.tree \in [Storages -> Trees]
<1>1. users' = e.users /\ e.users \in UserTables
    BY EntranceParts DEF Enters
<1>2. usersFile = "empty" => e.users = users
    BY EntranceParts DEF Enters, UsersReadable
<1>3. handled \in 0..MaxRequests /\ MaxRequests \in Nat
    BY BoundsAssumption DEF TypeOK
<1>4. e.storage \in Storages /\ e.tree \in [Storages -> Trees]
    BY EntranceParts
<1> QED BY <1>1, <1>2, <1>3, <1>4 DEF Enters, Receives, TypeOK

\* What is deleted or downloaded is there.
LEMMA NotMissing ==
    ASSUME NEW r \in Requests, NEW t, ~Missing(r, t)
    PROVE  /\ r.path \in Paths
           /\ r.kind # "upload" => IsDir(t, r.path) \/ IsFile(t, r.path)
           /\ r.kind = "list" => IsDir(t, r.path)
<1>1. CASE r.kind = "upload"
    BY <1>1 DEF Missing
<1>2. CASE r.kind = "list"
    BY <1>2 DEF Missing, IsDir
<1>3. CASE r.kind # "upload" /\ r.kind # "list"
    BY <1>3 DEF Missing, IsDir, IsFile
<1> QED BY <1>1, <1>2, <1>3

\* A step keeps the types.
LEMMA NextType == TypeOK /\ [Next]_vars => TypeOK'
<1> SUFFICES ASSUME TypeOK, [Next]_vars PROVE TypeOK'
    OBVIOUS
<1> DEFINE RestOK == /\ usersFile \in {"whole", "empty"}
                     /\ (usersFile = "empty" => users = NoUsers)
                     /\ mode \in {"up", "killed", "raised", "garbled"}
                     /\ uploads \subseteq Upload /\ accepted \subseteq Upload
                     /\ (mode # "up" => uploads = {})
                     /\ handled \in 0..MaxRequests /\ crashes \in 0..MaxCrashes
           ManyOK == tree \in [Storages -> Trees] /\ users \in UserTables /\ RestOK
<1>1. TypeOK => ManyOK
    BY Zenon DEF TypeOK, Trees, Cells, UserTables
<1>2. ManyOK' => TypeOK'
    BY Zenon DEF TypeOK, Trees, Cells, UserTables
<1> HIDE DEF ManyOK
<1> SUFFICES ManyOK'
    BY <1>2
<1> USE <1>1 DEF ManyOK
<1>3. /\ handled \in Nat /\ crashes \in Nat /\ MaxRequests \in Nat /\ MaxCrashes \in Nat
      /\ NoUsers \in UserTables
    BY BoundsAssumption DEF NoUsers, UserTables
<1>4. CASE UNCHANGED vars
    BY <1>4 DEF vars, disk, history
<1>5. ASSUME Killed PROVE /\ mode' = "killed" /\ uploads' = {} /\ crashes' \in 0..MaxCrashes
    BY <1>3, <1>5 DEF Killed, Ends
<1>6. CASE Kill
    BY <1>5, <1>6 DEF Kill, disk, history
<1>7. CASE Restart
    <2>1. tree' \in [Storages -> Trees]
        <3>1. [tree[Public] EXCEPT ![<< >>] = Dir] \in Trees
            BY RootIsPath DEF Trees, Cells, Storages
        <3> QED BY <1>7, <3>1 DEF Restart
    <2> QED BY <1>7, <2>1 DEF Restart, history
<1>8. ASSUME NEW r \in Requests, HandleGarbled(r) PROVE ManyOK'
    BY <1>3, <1>8 DEF HandleGarbled, Ends, disk, history
<1>9. ASSUME NEW r \in Requests, HandleUnknowable(r) PROVE ManyOK'
    BY <1>3, <1>9 DEF HandleUnknowable, Receives, Ends, disk, history
<1>10. ASSUME NEW r \in Requests, HandleWrongPassword(r) PROVE ManyOK'
    BY <1>3, <1>10 DEF HandleWrongPassword, Receives, disk, history
<1>11. ASSUME NEW r \in Requests, DieRegistering(r) PROVE ManyOK'
    <2>1. tree' \in [Storages -> Trees]
        <3>1. PICK e \in Entrances(r) : tree' = e.tree
            BY <1>11 DEF DieRegistering
        <3> QED BY <3>1, EntranceParts
    <2>2. users' \in UserTables /\ usersFile' \in {"whole", "empty"}
          /\ (usersFile' = "empty" => users' = NoUsers)
        BY <1>3, <1>11 DEF DieRegistering
    <2>3. handled' \in 0..MaxRequests
        BY <1>3, <1>11 DEF DieRegistering, Receives
    <2> QED BY <1>5, <1>11, <2>1, <2>2, <2>3 DEF DieRegistering, history
<1>12. ASSUME NEW r \in Requests, HandleRefused(r) PROVE ManyOK'
    <2>1. PICK e \in Entrances(r) :
            /\ Enters(r, e) /\ tree' = e.tree
            /\ IF MessageTooLong(r)
                  THEN Ends("garbled") /\ UNCHANGED <<usersFile, accepted, crashes>>
                  ELSE Refuse
        BY <1>12 DEF HandleRefused
    <2>2. Ends("garbled") \/ UNCHANGED <<mode, uploads>>
        BY <2>1 DEF Refuse
    <2>3. UNCHANGED <<usersFile, accepted, crashes>>
        BY <2>1 DEF Refuse
    <2>4. tree' \in [Storages -> Trees] /\ users' \in UserTables /\ handled' \in 0..MaxRequests
          /\ (usersFile = "empty" => users' = NoUsers)
        BY <2>1, EntersType
    <2> QED BY <2>2, <2>3, <2>4 DEF Ends
<1>13. ASSUME NEW r \in Requests, HandleUpload(r) PROVE ManyOK'
    <2> DEFINE Accepted(e) == [number |-> handled + 1, storage |-> e.storage,
                               path |-> r.path, body |-> r.body]
    <2>1. PICK e \in Entrances(r) :
            /\ Enters(r, e) /\ r.path \in Paths /\ tree' = e.tree
            /\ uploads' = uploads \cup {Accepted(e)} /\ accepted' = accepted \cup {Accepted(e)}
            /\ UNCHANGED <<usersFile, mode, crashes>>
        BY <1>13 DEF HandleUpload
    <2>2. /\ tree' \in [Storages -> Trees] /\ users' \in UserTables /\ e.storage \in Storages
          /\ mode = "up" /\ handled + 1 \in 1..MaxRequests /\ handled' \in 0..MaxRequests
          /\ (usersFile = "empty" => users' = NoUsers)
        BY <2>1, EntersType
    <2>3. Accepted(e) \in Upload
        BY <2>1, <2>2 DEF Upload
    <2> QED BY <2>1, <2>2, <2>3
<1>14. ASSUME NEW r \in Requests, HandleDownload(r) \/ HandleList(r) PROVE ManyOK'
    <2>1. PICK e \in Entrances(r) :
            /\ Enters(r, e) /\ tree' = e.tree
            /\ UNCHANGED <<usersFile, mode, uploads, accepted, crashes>>
        BY <1>14 DEF HandleDownload, HandleList
    <2> QED BY <2>1, EntersType
<1>15. ASSUME NEW r \in Requests, HandleDelete(r) PROVE ManyOK'
    <2>1. PICK e \in Entrances(r) :
            /\ Enters(r, e) /\ ~Missing(r, e.tree[e.storage])
            /\ tree' = [e.tree EXCEPT ![e.storage] = Deleted(e.tree[e.storage], r.path)]
            /\ UNCHANGED <<usersFile, mode, uploads, accepted, crashes>>
        BY <1>15 DEF HandleDelete
    <2>2. e.tree \in [Storages -> Trees] /\ e.storage \in Storages /\ r.path \in Paths
        BY <2>1, EntersType, NotMissing
    <2>3. tree' \in [Storages -> Trees]
        BY <2>1, <2>2, TreesStay
    <2> QED BY <2>1, <2>3, EntersType
<1>20. ASSUME NEW r \in Requests, DieDeleting(r) PROVE ManyOK'
    <2>1. PICK e \in Entrances(r) :
            /\ Enters(r, e) /\ Killed
            /\ \E S : tree' = [e.tree EXCEPT ![e.storage] = Without(e.tree[e.storage], S)]
            /\ UNCHANGED <<usersFile, accepted>>
        BY <1>20 DEF DieDeleting
    <2>2. e.tree \in [Storages -> Trees] /\ e.storage \in Storages
        BY <2>1, EntersType
    <2>3. tree' \in [Storages -> Trees]
        BY <2>1, <2>2, TreesStay
    <2> QED BY <1>5, <2>1, <2>3, EntersType
<1>16. ASSUME NEW u \in uploads
       PROVE  /\ u.storage \in Storages /\ u.path \in Paths
              /\ \E r \in Requests : u.body = r.body
              /\ tree[u.storage] \in Trees /\ Removed(tree[u.storage], u.path) \in Trees
    BY TreesStay DEF Upload
<1>17. ASSUME NEW u \in uploads, PostUpload(u) PROVE ManyOK'
    <2>1. \A q \in DOMAIN u.body : u.body[q] \in Contents \cup {Torn}
        BY <1>16, RequestsAssumption DEF IsBody
    <2>2. Stored(Removed(tree[u.storage], u.path), u.path, u.body) \in Trees
        BY <1>16, <2>1, TreesStay
    <2>3. tree' \in [Storages -> Trees]
        BY <1>16, <1>17, <2>2 DEF PostUpload
    <2> QED BY <1>17, <2>3 DEF PostUpload, Finishes, history
<1>18. ASSUME NEW u \in uploads, PostUploadRaises(u) PROVE ManyOK'
    <2>1. tree' \in [Storages -> Trees]
        <3>1. CASE UNCHANGED tree
            BY <3>1
        <3>2. ASSUME NEW q \in Paths, tree' = [tree EXCEPT ![u.storage] = Made(@, q)]
              PROVE  tree' \in [Storages -> Trees]
            BY <1>16, <3>2, TreesStay
        <3> QED BY <1>18, <3>1, <3>2 DEF PostUploadRaises, MadeDownTo
    <2> QED BY <1>18, <2>1 DEF PostUploadRaises, Ends, history
<1>19. ASSUME NEW u \in uploads, DieUploading(u) PROVE ManyOK'
    <2>1. \A part \in Parts(u.body) :
            Stored(Removed(tree[u.storage], u.path), u.path, part) \in Trees
        <3> SUFFICES ASSUME NEW part \in Parts(u.body)
                     PROVE  Stored(Removed(tree[u.storage], u.path), u.path, part) \in Trees
            OBVIOUS
        <3>1. \A q \in DOMAIN part : part[q] \in Contents \cup {Torn}
            BY <1>16, PartOfBody
        <3> QED BY <1>16, <3>1, TreesStay
    <2>2. PICK new : tree' = [tree EXCEPT ![u.storage] = new] /\ new \in Trees
        <3>1. ASSUME NEW S PROVE Without(tree[u.storage], S) \in Trees
            BY <1>16, TreesStay
        <3>2. ASSUME NEW q \in MadeDownTo(u.path)
              PROVE  Made(Removed(tree[u.storage], u.path), q) \in Trees
            BY <1>16, TreesStay DEF MadeDownTo
        <3> QED BY <1>19, <2>1, <3>1, <3>2 DEF DieUploading
    <2>3. tree' \in [Storages -> Trees]
        BY <1>16, <2>2
    <2> QED BY <1>5, <1>19, <2>3 DEF DieUploading, history
<1> QED BY <1>4, <1>6, <1>7, <1>8, <1>9, <1>10, <1>11, <1>12, <1>13, <1>14, <1>15, <1>17, <1>18,
           <1>19, <1>20 DEF Next

\* TypeOK: every variable has its type whatever is uploaded or deleted and
\* wherever the process is killed, no handler outlives the process, and a cut
\* data.json has no users.
THEOREM TypeCorrect == Spec => []TypeOK
<1>1. Init => TypeOK
    BY InitType
<1>2. TypeOK /\ [Next]_vars => TypeOK'
    BY NextType
<1> QED BY <1>1, <1>2, PTL DEF Spec

-----------------------------------------------------------------------------
(***************************************************************************)
(* RegisteredStays.  It needs that no two users share a storage, whether   *)
(* they were let in or not.                                                *)
(***************************************************************************)
UsersInv ==
    /\ registered \subseteq [user : Users, data : UserData]
    /\ \A u, v \in Users :
            users[u] # Nothing /\ users[v] # Nothing /\ users[u].id = users[v].id => u = v
    /\ usersFile = "whole" => \A g \in registered : users[g.user] = g.data

\* A step lets a request in, or cuts data.json, or changes nothing of the users.
UsersStep ==
    \/ UNCHANGED <<users, usersFile, registered>>
    \/ usersFile' = "empty" /\ users' = NoUsers /\ UNCHANGED registered
    \/ \E r \in Requests : \E e \in Entrances(r) : Enters(r, e) /\ UNCHANGED usersFile

\* Every step of the server is such a step.
LEMMA NextUsers == [Next]_vars => UsersStep
<1> SUFFICES ASSUME [Next]_vars PROVE UsersStep
    OBVIOUS
<1>1. CASE UNCHANGED vars \/ Kill \/ Restart
    BY <1>1 DEF Kill, Restart, vars, disk, history, UsersStep
<1>2. ASSUME NEW r \in Requests,
             HandleGarbled(r) \/ HandleUnknowable(r) \/ HandleWrongPassword(r) \/ DieRegistering(r)
      PROVE  UsersStep
    BY <1>2 DEF HandleGarbled, HandleUnknowable, HandleWrongPassword, DieRegistering,
                disk, history, UsersStep
<1>3. ASSUME NEW r \in Requests,
             \/ HandleRefused(r) \/ HandleUpload(r) \/ HandleDownload(r) \/ HandleList(r)
             \/ HandleDelete(r) \/ DieDeleting(r)
      PROVE  UsersStep
    <2>1. \E e \in Entrances(r) : Enters(r, e) /\ UNCHANGED usersFile
        BY <1>3 DEF HandleRefused, Refuse, HandleUpload, HandleDownload, HandleList, HandleDelete,
                    DieDeleting
    <2> QED BY <2>1 DEF UsersStep
<1>4. ASSUME NEW u \in uploads, PostUpload(u) \/ PostUploadRaises(u) \/ DieUploading(u)
      PROVE  UsersStep
    BY <1>4 DEF PostUpload, PostUploadRaises, DieUploading, disk, history, UsersStep
<1> QED BY <1>1, <1>2, <1>3, <1>4 DEF Next

\* A user who is let in keeps what is recorded of the others.
LEMMA EntersUsers ==
    ASSUME TypeOK, UsersInv, NEW r \in Requests, NEW e \in Entrances(r), Enters(r, e),
           UNCHANGED usersFile
    PROVE  UsersInv'
<1>1. users \in UserTables /\ users' = e.users
    BY DEF TypeOK, UserTables, Enters
<1>2. CASE r.user = Anonymous
    <2>1. users' = users /\ registered' = registered
        BY <1>1, <1>2, EntranceParts, ValuesAssumption DEF Enters, Registers
    <2> QED BY <2>1 DEF UsersInv
<1>3. ASSUME r.user # Anonymous, users[r.user] # Nothing PROVE UsersInv'
    <2>1. users' = users /\ r.user \in Users /\ usersFile = "whole"
          /\ registered' = registered \cup {[user |-> r.user, data |-> users[r.user]]}
        BY <1>1, <1>3, EntranceParts, RequestsAssumption DEF Enters, Registers, UsersReadable
    <2>2. users[r.user] \in UserData
        BY <1>1, <1>3, <2>1 DEF UserTables
    <2> QED BY <2>1, <2>2 DEF UsersInv
<1>4. ASSUME r.user # Anonymous, users[r.user] = Nothing PROVE UsersInv'
    <2> DEFINE data == [id |-> e.storage, password |-> r.password]
    <2>1. /\ e.storage \in FreshIds /\ users' = [users EXCEPT ![r.user] = data]
          /\ r.user \in Users /\ r.password \in Passwords /\ usersFile = "whole"
        BY <1>1, <1>4, EntranceParts, RequestsAssumption DEF Enters, UsersReadable
    <2>2. data \in UserData /\ users'[r.user] = data
          /\ \A v \in Users \ {r.user} : users'[v] = users[v]
        BY <1>1, <2>1 DEF UserData, FreshIds, UserTables
    <2>3. registered' = registered \cup {[user |-> r.user, data |-> data]}
        BY <1>1, <1>4, <2>2 DEF Enters, Registers
    <2>4. \A v \in Users : users[v] # Nothing => users[v].id # e.storage
        BY <2>1 DEF FreshIds
    <2> HIDE DEF data
    <2>5. data.id = e.storage
        BY DEF data
    <2>6. ASSUME NEW g \in registered PROVE g.user # r.user /\ users'[g.user] = g.data
        <3>1. g.user \in Users /\ g.data \in UserData /\ users[g.user] = g.data
            BY <2>1, <2>6 DEF UsersInv
        <3>2. g.data # Nothing
            BY <3>1, ValuesAssumption DEF UserData
        <3> QED BY <1>4, <2>2, <3>1, <3>2
    <2>7. registered' \subseteq [user : Users, data : UserData]
        BY <2>1, <2>2, <2>3 DEF UsersInv
    <2>8. \A g \in registered' : users'[g.user] = g.data
        BY <2>2, <2>3, <2>6
    <2>9. ASSUME NEW u \in Users, NEW v \in Users,
                 users'[u] # Nothing, users'[v] # Nothing, users'[u].id = users'[v].id
          PROVE  u = v
        BY <2>2, <2>4, <2>5, <2>9 DEF UsersInv
    <2> QED BY <2>7, <2>8, <2>9 DEF UsersInv
<1> QED BY <1>2, <1>3, <1>4

\* UsersInv is inductive.
LEMMA UsersInvStep == TypeOK /\ UsersInv /\ [Next]_vars => UsersInv'
<1> SUFFICES ASSUME TypeOK, UsersInv, [Next]_vars PROVE UsersInv'
    OBVIOUS
<1>1. CASE UNCHANGED <<users, usersFile, registered>>
    BY <1>1 DEF UsersInv
<1>2. CASE usersFile' = "empty" /\ users' = NoUsers /\ UNCHANGED registered
    BY <1>2 DEF UsersInv, NoUsers
<1>3. ASSUME NEW r \in Requests, NEW e \in Entrances(r), Enters(r, e), UNCHANGED usersFile
      PROVE  UsersInv'
    BY <1>3, EntersUsers
<1> QED BY <1>1, <1>2, <1>3, NextUsers DEF UsersStep

\* Initially nobody is recorded.
LEMMA InitUsers == Init => UsersInv
BY DEF Init, UsersInv, NoUsers

\* UsersInv says of those who were let in what RegisteredStays says.
LEMMA UsersStay == TypeOK /\ UsersInv => RegisteredStays
<1> SUFFICES ASSUME TypeOK, UsersInv, usersFile = "whole",
                    NEW g \in registered, NEW h \in registered, g.data.id = h.data.id
             PROVE  users[g.user] = g.data /\ g.user = h.user
    BY DEF RegisteredStays, UsersInv
<1>1. /\ g.user \in Users /\ g.data \in UserData /\ users[g.user] = g.data
      /\ h.user \in Users /\ h.data \in UserData /\ users[h.user] = h.data
    BY DEF UsersInv
<1>2. g.data # Nothing /\ h.data # Nothing
    BY <1>1, ValuesAssumption DEF UserData
<1> QED BY <1>1, <1>2 DEF UsersInv

\* RegisteredStays: while data.json is whole, a user who was let in once has
\* the same storage and password, and shares the storage with nobody.
THEOREM RegisteredStaysAlways == Spec => []RegisteredStays
<1>1. Init => UsersInv
    BY InitUsers
<1>2. TypeOK /\ UsersInv /\ [Next]_vars => UsersInv'
    BY UsersInvStep
<1>3. TypeOK /\ UsersInv => RegisteredStays
    BY UsersStay
<1> QED BY <1>1, <1>2, <1>3, TypeCorrect, PTL DEF Spec

-----------------------------------------------------------------------------
(***************************************************************************)
(* What a step does to the trees: FilesWereUploaded and, with it, what     *)
(* makedirs can meet.                                                      *)
(***************************************************************************)
Entered == {tree} \cup {[tree EXCEPT ![id] = EmptyTree] : id \in FreshIds}

Written(u, part) == Stored(Removed(tree[u.storage], u.path), u.path, part)

Sound(t) == \A p \in Paths \ {<< >>} : t[p] # Free => t[Front(p)] = Dir

\* The trees without files that t does not have, and sound when t is.
Lesser(t) ==
    {new \in Trees : /\ \A q : IsFile(new, q) => IsFile(t, q) /\ new[q] = t[q]
                     /\ Sound(t) => Sound(new)}

TreeStep ==
    \/ tree' \in Entered
    \/ \E mid \in Entered, s \in Storages : \E new \in Lesser(mid[s]) :
            tree' = [mid EXCEPT ![s] = new]
    \/ \E u \in uploads : \E part \in Parts(u.body) :
            tree' = [tree EXCEPT ![u.storage] = Written(u, part)]
    \/ ~IsFile(tree[Public], << >>) /\ tree' = [tree EXCEPT ![Public][<< >>] = Dir]

\* What is a file of a tree after a removal in it was a file before.
LEMMA FilesOfEmpty ==
    /\ \A p : ~IsFile(EmptyTree, p)
    /\ \A t, p, q : IsFile(Removed(t, p), q) => ~IsPrefix(p, q) /\ IsFile(t, q) /\ Removed(t, p)[q] = t[q]
    /\ \A t, p, q : IsFile(Deleted(t, p), q) => IsFile(t, q) /\ Deleted(t, p)[q] = t[q]
<1>1. \A p : ~IsFile(EmptyTree, p)
    BY RootIsPath, ValuesAssumption DEF EmptyTree, NoTree, IsFile
<1>2. ASSUME NEW t, NEW p, NEW q, IsFile(Removed(t, p), q)
      PROVE  ~IsPrefix(p, q) /\ IsFile(t, q) /\ Removed(t, p)[q] = t[q]
    BY <1>2, ValuesAssumption DEF IsFile, Removed
<1>3. ASSUME NEW t, NEW p, NEW q, IsFile(Deleted(t, p), q)
      PROVE  IsFile(t, q) /\ Deleted(t, p)[q] = t[q]
    BY <1>1, <1>2, <1>3 DEF Deleted
<1> QED BY <1>1, <1>2, <1>3

\* An empty tree is sound, and so is a tree without what is below a path.
LEMMA SoundRemoved ==
    /\ Sound(EmptyTree) /\ Sound(NoTree)
    /\ \A t \in Trees, p \in Paths : Sound(t) => Sound(Removed(t, p)) /\ Sound(Deleted(t, p))
<1>1. Sound(EmptyTree) /\ Sound(NoTree)
    BY RootIsPath DEF EmptyTree, NoTree, Sound
<1>2. ASSUME NEW t \in Trees, NEW p \in Paths, Sound(t) PROVE Sound(Removed(t, p))
    <2> SUFFICES ASSUME NEW q \in Paths \ {<< >>}, Removed(t, p)[q] # Free
                 PROVE  Removed(t, p)[Front(q)] = Dir
        BY DEF Sound
    <2>1. Front(q) \in Paths /\ IsPrefix(Front(q), q)
        BY FrontOfPath DEF IsStrictPrefix
    <2>2. ~IsPrefix(p, q) /\ t[q] # Free
        BY DEF Removed
    <2>3. ~IsPrefix(p, Front(q))
        BY <2>1, <2>2, PrefixOrder
    <2>4. t[Front(q)] = Dir
        BY <1>2, <2>2 DEF Sound
    <2> QED BY <2>1, <2>3, <2>4 DEF Removed
<1>3. ASSUME NEW t \in Trees, NEW p \in Paths, Sound(t) PROVE Sound(Deleted(t, p))
    BY <1>1, <1>2, <1>3 DEF Deleted
<1> QED BY <1>1, <1>2, <1>3

\* What is removed in part, or made above a path, are lesser trees.
LEMMA LesserTrees ==
    ASSUME NEW t \in Trees, NEW p \in Paths
    PROVE  /\ Deleted(t, p) \in Lesser(t)
           /\ \A S \in Removals(t, p) : Without(t, S) \in Lesser(t)
           /\ \A q \in Paths : Made(t, q) \in Lesser(t) /\ Made(Removed(t, p), q) \in Lesser(t)
<1>1. Deleted(t, p) \in Lesser(t) /\ Removed(t, p) \in Lesser(t)
    BY TreesStay, FilesOfEmpty, SoundRemoved DEF Lesser
<1>2. ASSUME NEW S \in Removals(t, p) PROVE Without(t, S) \in Lesser(t)
    <2>1. \A q : IsFile(Without(t, S), q) => IsFile(t, q) /\ Without(t, S)[q] = t[q]
        BY ValuesAssumption DEF IsFile, Without
    <2>2. ASSUME Sound(t), NEW q \in Paths \ {<< >>}, Without(t, S)[q] # Free
          PROVE  Without(t, S)[Front(q)] = Dir
        <3>1. q \notin S /\ t[q] # Free /\ Front(q) \in Paths /\ IsPrefix(Front(q), q)
            BY <2>2, FrontOfPath DEF Without, IsStrictPrefix
        <3>2. q \in Occupied(t, Front(q))
            BY <3>1 DEF Occupied
        <3>3. Front(q) \notin S
            BY <3>1, <3>2 DEF Removals
        <3> QED BY <2>2, <3>1, <3>3 DEF Without, Sound
    <2> QED BY <2>1, <2>2, TreesStay DEF Lesser, Sound
<1>3. ASSUME NEW x \in Trees, NEW q \in Paths PROVE Made(x, q) \in Lesser(x)
    <2>1. \A y : IsFile(Made(x, q), y) => IsFile(x, y) /\ Made(x, q)[y] = x[y]
        BY ValuesAssumption DEF IsFile, Made
    <2>2. ASSUME Sound(x), NEW y \in Paths \ {<< >>}, Made(x, q)[y] # Free
          PROVE  Made(x, q)[Front(y)] = Dir
        <3>1. Front(y) \in Paths /\ IsStrictPrefix(Front(y), y)
            BY FrontOfPath
        <3>2. CASE IsStrictPrefix(y, q)
            BY <3>1, <3>2, StrictOrder DEF Made
        <3>3. CASE ~IsStrictPrefix(y, q)
            BY <2>2, <3>1, <3>3 DEF Made, Sound
        <3> QED BY <3>2, <3>3
    <2> QED BY <2>1, <2>2, TreesStay DEF Lesser, Sound
<1>4. ASSUME NEW q \in Paths PROVE Made(Removed(t, p), q) \in Lesser(t)
    <2>1. Removed(t, p) \in Lesser(t) /\ Made(Removed(t, p), q) \in Lesser(Removed(t, p))
        BY <1>1, <1>3, TreesStay
    <2> QED BY <2>1 DEF Lesser
<1> QED BY <1>1, <1>2, <1>3, <1>4

\* The trees after create_handler are among those of Entered.
LEMMA EntranceIsEntered ==
    ASSUME TypeOK, NEW r \in Requests, NEW e \in Entrances(r)
    PROVE  e.tree \in Entered
<1>1. e.tree = tree \/ \E id \in FreshIds : e.tree = [tree EXCEPT ![id] = EmptyTree]
    BY EntranceParts
<1> QED BY <1>1 DEF Entered

\* Every step leaves the trees, or changes one of them as TreeStep says.
LEMMA NextTree == TypeOK /\ [Next]_vars => TreeStep
<1> SUFFICES ASSUME TypeOK, [Next]_vars PROVE TreeStep
    OBVIOUS
<1>1. CASE UNCHANGED tree
    BY <1>1 DEF TreeStep, Entered
<1>2. ASSUME NEW r \in Requests, NEW e \in Entrances(r), tree' = e.tree PROVE TreeStep
    BY <1>2, EntranceIsEntered DEF TreeStep
<1>0. tree \in [Storages -> Trees] /\ tree \in Entered
    BY DEF TypeOK, Trees, Cells, Entered
<1>3. ASSUME NEW r \in Requests, HandleDelete(r) \/ DieDeleting(r) PROVE TreeStep
    <2>1. PICK e \in Entrances(r) :
            /\ ~Missing(r, e.tree[e.storage])
            /\ \/ tree' = [e.tree EXCEPT ![e.storage] = Deleted(e.tree[e.storage], r.path)]
               \/ \E S \in Removals(e.tree[e.storage], r.path) :
                    tree' = [e.tree EXCEPT ![e.storage] = Without(e.tree[e.storage], S)]
        BY <1>3 DEF HandleDelete, DieDeleting
    <2>2. r.path \in Paths /\ e.storage \in Storages /\ e.tree \in Entered
        BY <2>1, NotMissing, EntranceParts, EntranceIsEntered
    <2>3. e.tree[e.storage] \in Trees
        <3>1. e.storage \in Storages /\ e.tree \in [Storages -> Trees]
            BY EntranceParts, Zenon
        <3> QED BY <3>1
    <2> QED BY <2>1, <2>2, <2>3, LesserTrees DEF TreeStep
<1>11. ASSUME NEW u \in uploads, NEW new \in Lesser(tree[u.storage]),
              tree' = [tree EXCEPT ![u.storage] = new]
       PROVE  TreeStep
    BY <1>0, <1>11 DEF TypeOK, Upload, TreeStep
<1>12. ASSUME NEW u \in uploads PROVE u.path \in Paths /\ tree[u.storage] \in Trees
    BY <1>0 DEF TypeOK, Upload
<1>4. ASSUME NEW u \in uploads, PostUpload(u) PROVE TreeStep
    <2>1. u.body \in Parts(u.body)
        BY WholeIsPart DEF TypeOK, Upload
    <2> QED BY <1>4, <2>1 DEF PostUpload, Written, TreeStep
<1>5. ASSUME NEW u \in uploads, DieUploading(u) PROVE TreeStep
    <2>1. ASSUME NEW S \in Removals(tree[u.storage], u.path)
          PROVE  Without(tree[u.storage], S) \in Lesser(tree[u.storage])
        BY <1>12, LesserTrees
    <2>2. ASSUME NEW q \in MadeDownTo(u.path)
          PROVE  Made(Removed(tree[u.storage], u.path), q) \in Lesser(tree[u.storage])
        BY <1>12, LesserTrees DEF MadeDownTo
    <2>3. \/ \E new \in Lesser(tree[u.storage]) : tree' = [tree EXCEPT ![u.storage] = new]
          \/ \E part \in Parts(u.body) : tree' = [tree EXCEPT ![u.storage] = Written(u, part)]
        BY <1>5, <2>1, <2>2 DEF DieUploading, Written
    <2> QED BY <1>11, <2>3 DEF TreeStep
<1>6. CASE Restart
    BY <1>6 DEF Restart, TreeStep
<1>7. CASE UNCHANGED vars \/ Kill
    BY <1>1, <1>7 DEF vars, disk, Kill
<1>8. ASSUME NEW r \in Requests, HandleGarbled(r) \/ HandleUnknowable(r) \/ HandleWrongPassword(r)
      PROVE  TreeStep
    BY <1>1, <1>8 DEF HandleGarbled, HandleUnknowable, HandleWrongPassword, disk
<1>9. ASSUME NEW r \in Requests,
             \/ DieRegistering(r) \/ HandleRefused(r) \/ HandleUpload(r) \/ HandleDownload(r)
             \/ HandleList(r)
      PROVE  TreeStep
    <2>1. \E e \in Entrances(r) : tree' = e.tree
        BY <1>9 DEF DieRegistering, HandleRefused, HandleUpload, HandleDownload, HandleList
    <2> QED BY <1>2, <2>1
<1>10. ASSUME NEW u \in uploads, PostUploadRaises(u) PROVE TreeStep
    <2>1. ASSUME NEW q \in MadeDownTo(u.path),
                 tree' = [tree EXCEPT ![u.storage] = Made(@, q)]
          PROVE  TreeStep
        <3>1. Made(tree[u.storage], q) \in Lesser(tree[u.storage])
            BY <1>12, LesserTrees DEF MadeDownTo
        <3> QED BY <1>11, <2>1, <3>1
    <2> QED BY <1>1, <1>10, <2>1 DEF PostUploadRaises
<1> QED BY <1>3, <1>4, <1>5, <1>6, <1>7, <1>8, <1>9, <1>10 DEF Next

\* Every upload is one of those that were accepted, and as it was requested.
UploadsInv ==
    /\ uploads \subseteq accepted
    /\ \A u \in accepted : \E r \in Requests : u.path = r.path /\ u.body = r.body

\* UploadsInv is inductive, and nothing that was accepted is forgotten.
LEMMA UploadsStep == UploadsInv /\ [Next]_vars => UploadsInv' /\ accepted \subseteq accepted'
<1> SUFFICES ASSUME UploadsInv, [Next]_vars PROVE UploadsInv' /\ accepted \subseteq accepted'
    OBVIOUS
<1>1. CASE uploads' \subseteq uploads /\ accepted' = accepted
    BY <1>1 DEF UploadsInv
<1>2. ASSUME NEW r \in Requests, HandleUpload(r) PROVE UploadsInv' /\ accepted \subseteq accepted'
    <2>1. PICK u : /\ uploads' = uploads \cup {u} /\ accepted' = accepted \cup {u}
                   /\ u.path = r.path /\ u.body = r.body
        <3>1. PICK e \in Entrances(r) :
                LET u == [number |-> handled + 1, storage |-> e.storage,
                          path |-> r.path, body |-> r.body]
                IN  uploads' = uploads \cup {u} /\ accepted' = accepted \cup {u}
            BY <1>2 DEF HandleUpload
        <3> DEFINE u == [number |-> handled + 1, storage |-> e.storage,
                         path |-> r.path, body |-> r.body]
        <3>2. /\ uploads' = uploads \cup {u} /\ accepted' = accepted \cup {u}
              /\ u.path = r.path /\ u.body = r.body
            BY <3>1
        <3> HIDE DEF u
        <3> QED BY <3>2
    <2> QED BY <2>1 DEF UploadsInv
<1>3. CASE UNCHANGED vars \/ Kill \/ Restart
    BY <1>1, <1>3 DEF vars, Kill, Killed, Ends, Restart, history
<1>4. ASSUME NEW r \in Requests,
             \/ HandleGarbled(r) \/ HandleUnknowable(r) \/ HandleWrongPassword(r)
             \/ DieRegistering(r) \/ HandleDownload(r) \/ HandleList(r) \/ HandleDelete(r)
             \/ DieDeleting(r)
      PROVE  UploadsInv' /\ accepted \subseteq accepted'
    BY <1>1, <1>4 DEF HandleGarbled, HandleUnknowable, HandleWrongPassword, DieRegistering, Killed,
                      Ends, HandleDownload, HandleList, HandleDelete, DieDeleting, history
<1>5. ASSUME NEW r \in Requests, HandleRefused(r) PROVE UploadsInv' /\ accepted \subseteq accepted'
    BY <1>1, <1>5 DEF HandleRefused, Refuse, Ends
<1>6. ASSUME NEW u \in uploads, PostUpload(u) \/ PostUploadRaises(u) \/ DieUploading(u)
      PROVE  UploadsInv' /\ accepted \subseteq accepted'
    BY <1>1, <1>6 DEF PostUpload, PostUploadRaises, DieUploading, Killed, Ends, history
<1> QED BY <1>2, <1>3, <1>4, <1>5, <1>6 DEF Next

\* A file of Stored(t, p, body) is one of the body or was one of t.
LEMMA FilesOfStored ==
    \A t, body, q : \A p \in Paths :
        IsFile(Stored(t, p, body), q) =>
            \/ \E r \in DOMAIN body : p \o r = q /\ Stored(t, p, body)[q] = body[r]
            \/ IsFile(t, q) /\ Stored(t, p, body)[q] = t[q]
<1> TAKE t, body, q
<1> TAKE p \in Paths
<1> HAVE IsFile(Stored(t, p, body), q)
<1> DEFINE r == SubSeq(q, Len(p) + 1, Len(q))
           after == Stored(t, p, body)
<1>1. /\ q \in Paths /\ after[q] # Dir /\ after[q] \in Contents \cup {Torn}
      /\ after[q] = IF IsPrefix(p, q) /\ r \in DOMAIN body THEN body[r]
                     ELSE IF IsStrictPrefix(q, p) \/ \E x \in DOMAIN body : IsStrictPrefix(q, p \o x)
                         THEN Dir
                     ELSE t[q]
    BY ValuesAssumption DEF IsFile, Stored
<1>2. IsPrefix(p, q) => p \o r = q
    BY <1>1, RestOfPath
<1> HIDE DEF r, after
<1>3. \/ p \o r = q /\ r \in DOMAIN body /\ after[q] = body[r]
      \/ after[q] = t[q]
    BY <1>1, <1>2, Zenon
<1> QED BY <1>1, <1>3, Zenon DEF after, IsFile

\* A file of a storage that was made by an upload of it, among those in a set.
IsFrom(s, q, content, ups) ==
    \E u \in ups : \E r \in DOMAIN u.body :
        u.storage = s /\ u.path \o r = q /\ content \in {u.body[r], Torn}

FilesInv == \A s \in Storages : \A q : IsFile(tree[s], q) => IsFrom(s, q, tree[s][q], accepted)

\* FilesInv is inductive.
LEMMA FilesStep == TypeOK /\ UploadsInv /\ FilesInv /\ [Next]_vars => FilesInv'
<1> SUFFICES ASSUME TypeOK, UploadsInv, FilesInv, [Next]_vars,
                    NEW s \in Storages, NEW q, IsFile(tree'[s], q)
             PROVE  IsFrom(s, q, tree'[s][q], accepted')
    BY DEF FilesInv
<1>1. accepted \subseteq accepted'
    BY UploadsStep
<1>2. ASSUME NEW content, IsFrom(s, q, content, accepted) PROVE IsFrom(s, q, content, accepted')
    BY <1>1, <1>2 DEF IsFrom
<1>3. ASSUME IsFile(tree[s], q), tree'[s][q] = tree[s][q] PROVE IsFrom(s, q, tree'[s][q], accepted')
    BY <1>2, <1>3 DEF FilesInv
<1>4. tree \in [Storages -> Trees]
    BY DEF TypeOK, Trees, Cells
<1>5. ASSUME NEW mid \in Entered
      PROVE  /\ mid \in [Storages -> Trees]
             /\ IsFile(mid[s], q) => IsFile(tree[s], q) /\ mid[s][q] = tree[s][q]
    <2>1. CASE mid = tree
        BY <1>4, <2>1
    <2>2. ASSUME NEW id \in FreshIds, mid = [tree EXCEPT ![id] = EmptyTree]
          PROVE  /\ mid \in [Storages -> Trees]
                 /\ IsFile(mid[s], q) => IsFile(tree[s], q) /\ mid[s][q] = tree[s][q]
        BY <1>4, <2>2, TreesStay, FilesOfEmpty
    <2> QED BY <2>1, <2>2 DEF Entered
<1>6. CASE tree' \in Entered
    BY <1>3, <1>5, <1>6
<1>7. ASSUME NEW mid \in Entered, NEW x \in Storages, NEW new \in Lesser(mid[x]),
             tree' = [mid EXCEPT ![x] = new]
      PROVE  IsFrom(s, q, tree'[s][q], accepted')
    <2>1. IsFile(mid[s], q) /\ tree'[s][q] = mid[s][q]
        <3>1. mid \in [Storages -> Trees]
            BY <1>5
        <3>2. CASE x = s
            BY <1>7, <3>1, <3>2 DEF Lesser
        <3>3. CASE x # s
            BY <1>7, <3>1, <3>3
        <3> QED BY <3>2, <3>3
    <2> QED BY <1>3, <1>5, <2>1
<1>9. ASSUME NEW u \in uploads, NEW part \in Parts(u.body),
             tree' = [tree EXCEPT ![u.storage] = Written(u, part)]
      PROVE  IsFrom(s, q, tree'[s][q], accepted')
    <2>1. CASE u.storage = s
        <3> DEFINE before == Removed(tree[s], u.path)
        <3>1. tree'[s] = Stored(before, u.path, part)
            BY <1>4, <1>9, <2>1 DEF Written
        <3>2. u \in accepted /\ u.path \in Paths
            BY DEF TypeOK, UploadsInv, Upload
        <3> HIDE DEF before
        <3>3. CASE \E r \in DOMAIN part : u.path \o r = q /\ tree'[s][q] = part[r]
            <4>1. PICK r \in DOMAIN part : u.path \o r = q /\ tree'[s][q] = part[r]
                BY <3>3
            <4>2. r \in DOMAIN u.body /\ part[r] \in {u.body[r], Torn}
                <5>1. PICK x \in Requests : u.body = x.body
                    BY <3>2 DEF UploadsInv
                <5> QED BY <4>1, <5>1, PartOfBody
            <4> QED BY <1>1, <2>1, <3>2, <4>1, <4>2 DEF IsFrom
        <3>4. CASE IsFile(before, q) /\ tree'[s][q] = before[q]
            BY <1>3, <3>4, FilesOfEmpty DEF before
        <3>5. IsFile(Stored(before, u.path, part), q)
            BY <3>1
        <3> DEFINE after == Stored(before, u.path, part)
        <3>6. \/ \E r \in DOMAIN part : u.path \o r = q /\ after[q] = part[r]
              \/ IsFile(before, q) /\ after[q] = before[q]
            BY <3>2, <3>5, FilesOfStored
        <3>7. tree'[s][q] = after[q]
            BY <3>1
        <3> HIDE DEF after
        <3> QED BY <3>3, <3>4, <3>6, <3>7
    <2>2. CASE u.storage # s
        BY <1>3, <1>4, <1>9, <2>2
    <2> QED BY <2>1, <2>2
<1>10. CASE tree' = [tree EXCEPT ![Public][<< >>] = Dir]
    <2>1. Dir \notin Contents \cup {Torn} /\ q \in Paths
        BY ValuesAssumption DEF IsFile
    <2>2. tree'[s][q] # Dir
        BY <2>1 DEF IsFile
    <2>3. tree'[s][q] = tree[s][q]
        BY <1>4, <1>10, <2>1, <2>2, RootIsPath DEF Trees
    <2> QED BY <1>3, <2>3 DEF IsFile
<1> QED BY <1>6, <1>7, <1>9, <1>10, NextTree DEF TreeStep

\* Initially there are no files and no uploads.
LEMMA InitFiles == Init => FilesInv /\ UploadsInv
<1>1. \A p : ~IsFile(EmptyTree, p) /\ ~IsFile(NoTree, p)
    BY FilesOfEmpty, ValuesAssumption DEF IsFile, NoTree
<1> QED BY <1>1 DEF Init, FilesInv, UploadsInv

\* FilesWereUploaded: every file comes from an upload that was let into this
\* very storage, and is where that upload put it.
THEOREM FilesWereUploadedAlways == Spec => []FilesWereUploaded
<1>1. Init => FilesInv /\ UploadsInv
    BY InitFiles
<1>2. TypeOK /\ UploadsInv /\ FilesInv /\ [Next]_vars => FilesInv' /\ UploadsInv'
    BY FilesStep, UploadsStep
<1>3. FilesInv => FilesWereUploaded
    BY DEF FilesInv, IsFrom, FilesWereUploaded, FilesUnder
<1> QED BY <1>1, <1>2, <1>3, TypeCorrect, PTL DEF Spec

-----------------------------------------------------------------------------
(***************************************************************************)
(* EndsOnlyByConflict.                                                     *)
(***************************************************************************)

\* Only a handler that reads a cut data.json or meets a file raises.
LEMMA RaisesOnly ==
    TypeOK /\ [Next]_vars /\ mode' = "raised" =>
        \/ UNCHANGED <<mode, usersFile, accepted>>
        \/ usersFile' = "empty"
        \/ \E u \in uploads : PostUploadRaises(u)
<1> SUFFICES ASSUME TypeOK, [Next]_vars, mode' = "raised"
             PROVE  \/ UNCHANGED <<mode, usersFile, accepted>>
                    \/ usersFile' = "empty"
                    \/ \E u \in uploads : PostUploadRaises(u)
    OBVIOUS
<1>1. CASE UNCHANGED vars
    BY <1>1 DEF vars, disk, history
<1>2. ~Kill /\ ~Restart /\ ~Killed
    BY DEF Kill, Killed, Ends, Restart
<1>3. ASSUME NEW r \in Requests, HandleUnknowable(r) PROVE usersFile' = "empty"
    BY <1>3 DEF HandleUnknowable, UsersReadable, TypeOK, disk
<1>4. ASSUME NEW r \in Requests
      PROVE  /\ ~HandleGarbled(r) /\ ~DieRegistering(r)
             /\ ~HandleWrongPassword(r) /\ ~HandleRefused(r) /\ ~HandleUpload(r)
             /\ ~HandleDownload(r) /\ ~HandleList(r) /\ ~HandleDelete(r) /\ ~DieDeleting(r)
    <2>1. ~HandleGarbled(r) /\ ~DieRegistering(r) /\ ~DieDeleting(r)
        BY <1>2 DEF HandleGarbled, DieRegistering, DieDeleting, Ends
    <2>2. ~HandleWrongPassword(r)
        BY DEF HandleWrongPassword, Receives
    <2>3. ASSUME NEW e, Enters(r, e) PROVE mode # mode'
        BY <2>3 DEF Enters, Receives
    <2>4. ~HandleRefused(r)
        BY <2>3 DEF HandleRefused, Refuse, Ends
    <2>5. ~HandleUpload(r) /\ ~HandleDownload(r) /\ ~HandleList(r) /\ ~HandleDelete(r)
        BY <2>3 DEF HandleUpload, HandleDownload, HandleList, HandleDelete
    <2> QED BY <2>1, <2>2, <2>4, <2>5
<1>5. ASSUME NEW u \in uploads PROVE ~PostUpload(u) /\ ~DieUploading(u)
    BY <1>2 DEF PostUpload, Finishes, DieUploading
<1> QED BY <1>1, <1>2, <1>3, <1>4, <1>5 DEF Next

\* While users are only cut, a cut data.json stays cut.
LEMMA CutStays == [Next]_vars => (usersFile = "empty" => usersFile' = "empty")
BY NextUsers DEF UsersStep

RaiseExcused ==
    \/ \E a \in accepted : ~Nameable(a.path)
    \/ \E a, b \in accepted : \E q \in DOMAIN a.body :
            a.storage = b.storage /\ IsStrictPrefix(a.path \o q, b.path)

\* When post_upload raises, no file can have the name of the upload, or one
\* upload has put a file where another needs a directory.
LEMMA RaisesByConflict ==
    ASSUME TypeOK, UploadsInv, FilesInv, NEW u \in uploads, PostUploadRaises(u)
    PROVE  RaiseExcused
<1>1. u \in accepted /\ u.storage \in Storages
    BY DEF TypeOK, UploadsInv, Upload
<1>2. CASE ~MayName(u.path, u.body)
    BY <1>1, <1>2 DEF MayName, Nameable, RaiseExcused
<1>3. CASE ~MayMake(tree[u.storage], u.path)
    <2>1. PICK q \in Paths : IsStrictPrefix(q, u.path) /\ IsFile(tree[u.storage], q)
        BY <1>3 DEF MayMake
    <2>2. IsFrom(u.storage, q, tree[u.storage][q], accepted)
        BY <1>1, <2>1 DEF FilesInv
    <2>3. PICK a \in accepted : \E r \in DOMAIN a.body :
                a.storage = u.storage /\ a.path \o r = q
        BY <2>2, Zenon DEF IsFrom
    <2> QED BY <1>1, <2>1, <2>3, Zenon DEF RaiseExcused
<1> QED BY <1>2, <1>3 DEF PostUploadRaises

\* EndsOnlyByConflict: apart from a path that cannot be decoded or echoed, an
\* exception ends the server only when data.json was cut, when an upload was
\* accepted for a name that no file can have, or when one upload puts a file
\* where another needs a directory.
THEOREM EndsOnlyByConflictAlways == Spec => []EndsOnlyByConflict
<1>1. Init => EndsOnlyByConflict
    BY DEF Init, EndsOnlyByConflict
<1>2. TypeOK /\ UploadsInv /\ FilesInv /\ EndsOnlyByConflict /\ [Next]_vars => EndsOnlyByConflict'
    <2> SUFFICES ASSUME TypeOK, UploadsInv, FilesInv, EndsOnlyByConflict, [Next]_vars,
                        mode' = "raised", usersFile' # "empty"
                 PROVE  RaiseExcused'
        BY DEF EndsOnlyByConflict, RaiseExcused
    <2>1. accepted \subseteq accepted'
        BY UploadsStep
    <2>2. RaiseExcused => RaiseExcused'
        BY <2>1 DEF RaiseExcused
    <2>3. CASE UNCHANGED <<mode, usersFile, accepted>>
        BY <2>2, <2>3 DEF EndsOnlyByConflict, RaiseExcused
    <2>4. ASSUME NEW u \in uploads, PostUploadRaises(u) PROVE RaiseExcused'
        BY <2>2, <2>4, RaisesByConflict
    <2> QED BY <2>3, <2>4, RaisesOnly
<1>3. Init => FilesInv /\ UploadsInv
    BY InitFiles
<1>4. TypeOK /\ UploadsInv /\ FilesInv /\ [Next]_vars => FilesInv' /\ UploadsInv'
    BY FilesStep, UploadsStep
<1> QED BY <1>1, <1>2, <1>3, <1>4, TypeCorrect, PTL DEF Spec

-----------------------------------------------------------------------------
(***************************************************************************)
(* TreeSound, of one tree and of what the operations make of it.           *)
(***************************************************************************)
\* A body is stored soundly where nothing is.
LEMMA SoundStored ==
    ASSUME NEW t \in Trees, NEW p \in Paths, NEW body, Sound(t),
           \A q \in Paths : IsPrefix(p, q) => t[q] = Free,
           \A x \in DOMAIN body : x \in Paths /\ p \o x \in Paths,
           \A x, y \in DOMAIN body : ~IsStrictPrefix(x, y)
    PROVE  Sound(Stored(t, p, body))
<1> DEFINE Within(q) == IsPrefix(p, q) /\ SubSeq(q, Len(p) + 1, Len(q)) \in DOMAIN body
           Above(q) == IsStrictPrefix(q, p) \/ \E x \in DOMAIN body : IsStrictPrefix(q, p \o x)
           after == Stored(t, p, body)
<1>1. \A q \in Paths :
        /\ ~Within(q) /\ Above(q) => after[q] = Dir
        /\ ~Within(q) /\ ~Above(q) => after[q] = t[q]
    BY DEF Stored
<1>2. \A q \in Paths : Within(q) => \E x \in DOMAIN body : p \o x = q
    BY RestOfPath
<1>3. ASSUME NEW q \in Paths, Above(q) PROVE ~Within(q)
    <2> SUFFICES ASSUME Within(q) PROVE FALSE
        OBVIOUS
    <2>1. CASE IsStrictPrefix(q, p)
        <3>1. Len(q) < Len(p) /\ Len(p) <= Len(q) /\ Len(p) \in Nat /\ Len(q) \in Nat
            BY <2>1, PrefixOrder, PathIsSeq, LenProperties DEF IsPrefix
        <3> QED BY <3>1
    <2>2. ASSUME NEW y \in DOMAIN body, IsStrictPrefix(q, p \o y) PROVE FALSE
        <3>1. PICK x \in DOMAIN body : p \o x = q
            BY <1>2
        <3>2. IsStrictPrefix(x, y)
            BY <2>2, <3>1, PlacedPrefix
        <3> QED BY <3>2
    <2> QED BY <1>3, <2>1, <2>2
<1>4. \A q \in Paths : Above(q) => after[q] = Dir
    BY <1>1, <1>3
<1> SUFFICES ASSUME NEW q \in Paths \ {<< >>}, after[q] # Free
             PROVE  after[Front(q)] = Dir
    BY DEF Sound
<1>5. Front(q) \in Paths /\ IsStrictPrefix(Front(q), q) /\ IsPrefix(Front(q), q)
    BY FrontOfPath DEF IsStrictPrefix
<1>6. ASSUME NEW y \in Paths, IsStrictPrefix(q, y) PROVE IsStrictPrefix(Front(q), y)
    <2>1. IsPrefix(q, y) /\ IsPrefix(Front(q), y)
        BY <1>5, <1>6, PrefixOrder DEF IsStrictPrefix
    <2>2. Len(Front(q)) < Len(q) /\ Len(q) < Len(y) /\ Len(q) \in Nat /\ Len(y) \in Nat
          /\ Len(Front(q)) \in Nat
        BY <1>5, <1>6, PrefixOrder, PathIsSeq, LenProperties
    <2> QED BY <2>1, <2>2 DEF IsStrictPrefix
<1>7. CASE Within(q)
    <2>1. Above(Front(q))
        BY <1>2, <1>5, <1>7
    <2> QED BY <1>4, <1>5, <2>1
<1>8. CASE Above(q)
    <2>1. Above(Front(q))
        BY <1>6, <1>8
    <2> QED BY <1>4, <1>5, <2>1
<1>9. CASE ~Within(q) /\ ~Above(q)
    <2>1. t[q] # Free
        BY <1>1, <1>9
    <2>2. t[Front(q)] = Dir
        BY <2>1 DEF Sound
    <2>3. ~Within(Front(q))
        BY <1>5, <2>2, ValuesAssumption
    <2> QED BY <1>1, <1>5, <2>2, <2>3
<1> QED BY <1>7, <1>8, <1>9

\* A step keeps every tree sound.
LEMMA SoundStep ==
    TypeOK /\ UploadsInv /\ (\A s \in Storages : Sound(tree[s])) /\ [Next]_vars
        => \A s \in Storages : Sound(tree'[s])
<1> SUFFICES ASSUME TypeOK, UploadsInv, \A s \in Storages : Sound(tree[s]), [Next]_vars,
                    NEW s \in Storages
             PROVE  Sound(tree'[s])
    OBVIOUS
<1>1. tree \in [Storages -> Trees]
    BY DEF TypeOK, Trees, Cells
<1>2. ASSUME NEW mid \in Entered
      PROVE  mid \in [Storages -> Trees] /\ Sound(mid[s])
    <2>1. CASE mid = tree
        BY <1>1, <2>1
    <2>2. ASSUME NEW id \in FreshIds, mid = [tree EXCEPT ![id] = EmptyTree]
          PROVE  mid \in [Storages -> Trees] /\ Sound(mid[s])
        BY <1>1, <2>2, TreesStay, SoundRemoved
    <2> QED BY <2>1, <2>2 DEF Entered
<1>3. CASE tree' \in Entered
    BY <1>2, <1>3
<1>4. ASSUME NEW mid \in Entered, NEW x \in Storages, NEW new \in Lesser(mid[x]),
             tree' = [mid EXCEPT ![x] = new]
      PROVE  Sound(tree'[s])
    <2>1. mid \in [Storages -> Trees] /\ Sound(mid[s])
        BY <1>2
    <2>2. CASE x = s
        BY <1>4, <2>1, <2>2 DEF Lesser
    <2>3. CASE x # s
        BY <1>4, <2>1, <2>3
    <2> QED BY <2>2, <2>3
<1>5. ASSUME NEW u \in uploads
      PROVE  /\ u.path \in Paths /\ Removed(tree[s], u.path) \in Trees
             /\ Sound(Removed(tree[s], u.path))
    BY <1>1, TreesStay, SoundRemoved DEF TypeOK, Upload
<1>7. ASSUME NEW u \in uploads, NEW part \in Parts(u.body),
             tree' = [tree EXCEPT ![u.storage] = Written(u, part)]
      PROVE  Sound(tree'[s])
    <2>1. CASE u.storage = s
        <3> DEFINE before == Removed(tree[s], u.path)
        <3>1. tree'[s] = Stored(before, u.path, part)
            BY <1>1, <1>7, <2>1 DEF Written
        <3>2. PICK r \in Requests : u.path = r.path /\ u.body = r.body
            BY DEF UploadsInv
        <3>3. DOMAIN part \subseteq DOMAIN r.body
            <4>1. part \in Parts(r.body)
                BY <3>2
            <4> QED BY <4>1, PartOfBody
        <3>4. /\ \A x \in DOMAIN part : x \in Paths /\ u.path \o x \in Paths
              /\ \A x, y \in DOMAIN part : ~IsStrictPrefix(x, y)
            BY <1>5, <3>2, <3>3, RequestsAssumption DEF IsBody
        <3>5. \A q \in Paths : IsPrefix(u.path, q) => before[q] = Free
            BY DEF Removed
        <3>6. before \in Trees /\ Sound(before) /\ u.path \in Paths
            BY <1>5
        <3> HIDE DEF before
        <3> QED BY <3>1, <3>4, <3>5, <3>6, SoundStored
    <2>2. CASE u.storage # s
        BY <1>1, <1>7, <2>2
    <2> QED BY <2>1, <2>2
<1>8. CASE tree' = [tree EXCEPT ![Public][<< >>] = Dir]
    <2>1. \A q \in Paths : tree'[s][q] = tree[s][q] \/ (tree'[s][q] = Dir /\ q = << >>)
        <3> DEFINE root == << >>
        <3>1. tree' = [tree EXCEPT ![Public] = [tree[Public] EXCEPT ![root] = Dir]] /\ root \in Paths
            BY <1>8, RootIsPath
        <3> HIDE DEF root
        <3>2. CASE s = Public
            <4>1. tree[s] \in Trees /\ tree'[s] = [tree[s] EXCEPT ![root] = Dir]
                BY <1>1, <3>1, <3>2
            <4>2. \A q \in Paths : tree'[s][q] = IF q = root THEN Dir ELSE tree[s][q]
                BY <3>1, <4>1 DEF Trees
            <4> QED BY <4>2 DEF root
        <3>3. CASE s # Public
            BY <1>1, <3>1, <3>3
        <3> QED BY <3>2, <3>3
    <2>2. \A q \in Paths : q # << >> => tree'[s][q] = tree[s][q] /\ Front(q) \in Paths
        BY <2>1, FrontOfPath
    <2>3. ASSUME NEW q \in Paths \ {<< >>}, tree'[s][q] # Free PROVE tree'[s][Front(q)] = Dir
        <3>1. tree[s][Front(q)] = Dir
            BY <2>2, <2>3 DEF Sound
        <3> QED BY <2>1, <2>2, <3>1
    <2> QED BY <2>3 DEF Sound
<1> QED BY <1>3, <1>4, <1>7, <1>8, NextTree DEF TreeStep

\* TreeSound: what is in a storage is in a directory of it, whatever was
\* uploaded, deleted or cut in between.
THEOREM TreeSoundAlways == Spec => []TreeSound
<1> DEFINE AllSound == \A s \in Storages : Sound(tree[s])
<1>1. Init => UploadsInv
    BY InitFiles
<1>2. Init => AllSound
    BY SoundRemoved DEF Init
<1>3. TypeOK /\ UploadsInv /\ AllSound /\ [Next]_vars => UploadsInv' /\ AllSound'
    BY UploadsStep, SoundStep
<1>4. AllSound => TreeSound
    <2> SUFFICES ASSUME AllSound, NEW s \in Storages, NEW p \in Paths \ {<< >>}, tree[s][p] # Free
                 PROVE  IsDir(tree[s], Front(p))
        BY DEF TreeSound
    <2> QED BY FrontOfPath DEF Sound, IsDir
<1> HIDE DEF AllSound
<1> QED BY <1>1, <1>2, <1>3, <1>4, TypeCorrect, PTL DEF Spec

-----------------------------------------------------------------------------
(***************************************************************************)
(* The refinement: ImplementsFileStore.                                    *)
(***************************************************************************)
FileTable == [s \in Storages |-> Archive(tree[s], << >>)]
Answer == IF reply # Nothing /\ reply.kind = "download" THEN reply.data ELSE Nothing

\* Two trees with the same files.
SameFiles(t, other) ==
    \A q \in Paths : /\ IsFile(t, q) <=> IsFile(other, q)
                     /\ IsFile(t, q) => t[q] = other[q]

\* They have the same archives at every path.
LEMMA SameArchives ==
    ASSUME NEW t, NEW other, SameFiles(t, other), NEW p
    PROVE  Archive(t, p) = Archive(other, p)
<1>1. FilesUnder(t, p) = FilesUnder(other, p)
    BY DEF SameFiles, FilesUnder
<1>2. \A q \in FilesUnder(t, p) : t[q] = other[q]
    BY DEF SameFiles, FilesUnder
<1> QED BY <1>1, <1>2 DEF Archive

\* The archive of the root has every file.
LEMMA WholeArchive ==
    \A t : /\ FilesUnder(t, << >>) = {q \in Paths : IsFile(t, q)}
           /\ Archive(t, << >>) = [q \in {x \in Paths : IsFile(t, x)} |-> t[q]]
<1>1. ASSUME NEW q \in Paths PROVE IsPrefix(<< >>, q)
    <2> DEFINE root == << >>
    <2>1. root \in Seq(Names) /\ Len(root) = 0 /\ q \in Seq(Names) /\ Len(q) \in Nat
        BY EmptySeq, PathIsSeq, LenProperties
    <2> HIDE DEF root
    <2>2. Len(root) <= Len(q) /\ \A i \in 1..Len(root) : root[i] = q[i]
        BY <2>1
    <2> QED BY <2>1, <2>2, PrefixIff DEF root
<1>2. \A t : FilesUnder(t, << >>) = {q \in Paths : IsFile(t, q)}
    BY <1>1 DEF FilesUnder
<1> QED BY <1>2 DEF Archive

\* Whoever an upload was accepted from was let in.
OwnersInv ==
    \A u \in accepted : u.storage = Public \/ \E g \in registered : g.data.id = u.storage

\* OwnersInv is inductive.
LEMMA OwnersStep == TypeOK /\ OwnersInv /\ [Next]_vars => OwnersInv'
<1> SUFFICES ASSUME TypeOK, OwnersInv, [Next]_vars PROVE OwnersInv'
    OBVIOUS
<1>1. registered \subseteq registered'
    BY NextUsers DEF UsersStep, Enters, Registers
<1>2. CASE accepted' = accepted
    BY <1>1, <1>2 DEF OwnersInv
<1>3. ASSUME NEW r \in Requests, HandleUpload(r) PROVE OwnersInv'
    <2>1. PICK e \in Entrances(r) :
            /\ Enters(r, e)
            /\ accepted' = accepted \cup {[number |-> handled + 1, storage |-> e.storage,
                                           path |-> r.path, body |-> r.body]}
        BY <1>3 DEF HandleUpload
    <2>2. e.storage = Public \/ \E g \in registered' : g.data.id = e.storage
        <3>1. CASE r.user = Anonymous
            BY <3>1, EntranceParts
        <3>2. CASE r.user # Anonymous
            <4>1. [user |-> r.user, data |-> e.users[r.user]] \in registered'
                BY <2>1, <3>2 DEF Enters, Registers
            <4>2. e.users[r.user].id = e.storage
                <5>1. users \in UserTables /\ r.user \in Users
                    BY <3>2, RequestsAssumption DEF TypeOK, UserTables
                <5>2. CASE e.users = users /\ e.storage = users[r.user].id
                    BY <5>2
                <5>3. CASE e.users = [users EXCEPT ![r.user] =
                                        [id |-> e.storage, password |-> r.password]]
                    BY <5>1, <5>3 DEF UserTables
                <5> QED BY <3>2, <5>2, <5>3, EntranceParts
            <4> QED BY <4>1, <4>2
        <3> QED BY <3>1, <3>2
    <2> QED BY <1>1, <2>1, <2>2 DEF OwnersInv
<1>4. CASE UNCHANGED vars \/ Kill \/ Restart
    BY <1>2, <1>4 DEF vars, Kill, Restart, history
<1>5. ASSUME NEW r \in Requests,
             \/ HandleGarbled(r) \/ HandleUnknowable(r) \/ HandleWrongPassword(r)
             \/ DieRegistering(r) \/ HandleDownload(r) \/ HandleList(r) \/ HandleDelete(r)
             \/ DieDeleting(r)
      PROVE  OwnersInv'
    BY <1>2, <1>5 DEF HandleGarbled, HandleUnknowable, HandleWrongPassword, DieRegistering,
                      HandleDownload, HandleList, HandleDelete, DieDeleting, history
<1>6. ASSUME NEW r \in Requests, HandleRefused(r) PROVE OwnersInv'
    BY <1>2, <1>6 DEF HandleRefused, Refuse
<1>7. ASSUME NEW u \in uploads, PostUpload(u) \/ PostUploadRaises(u) \/ DieUploading(u)
      PROVE  OwnersInv'
    BY <1>2, <1>7 DEF PostUpload, PostUploadRaises, DieUploading, history
<1> QED BY <1>3, <1>4, <1>5, <1>6, <1>7 DEF Next

StoreInv == TypeOK /\ UsersInv /\ UploadsInv /\ FilesInv /\ OwnersInv

\* The directory of a new user had no files: what is uploaded to a storage is
\* uploaded by its user, who is recorded as long as data.json is whole.
LEMMA EntranceFiles ==
    ASSUME StoreInv, NEW r \in Requests, NEW e \in Entrances(r), UsersReadable(r), NEW s \in Storages
    PROVE  SameFiles(e.tree[s], tree[s])
<1>1. CASE e.tree = tree
    BY <1>1 DEF SameFiles
<1>2. CASE /\ r.user # Anonymous /\ e.storage \in FreshIds
           /\ e.tree = [tree EXCEPT ![e.storage] = EmptyTree]
    <2>1. usersFile = "whole" /\ tree \in [Storages -> Trees]
        BY <1>2 DEF UsersReadable, StoreInv, TypeOK, Trees, Cells
    <2>2. CASE s = e.storage
        <3>1. ASSUME NEW q \in Paths, IsFile(tree[s], q) PROVE FALSE
            <4>1. PICK u \in accepted : u.storage = s
                BY <3>1 DEF StoreInv, FilesInv, IsFrom
            <4>2. s # Public
                BY <1>2, <2>2, ValuesAssumption DEF FreshIds
            <4>3. PICK g \in registered : g.data.id = s
                BY <4>1, <4>2 DEF StoreInv, OwnersInv
            <4>4. g.user \in Users /\ g.data \in UserData /\ users[g.user] = g.data
                BY <2>1 DEF StoreInv, UsersInv
            <4>5. g.data # Nothing
                BY <4>4, ValuesAssumption DEF UserData
            <4> QED BY <1>2, <2>2, <4>3, <4>4, <4>5 DEF FreshIds
        <3>2. e.tree[s] = EmptyTree
            BY <1>2, <2>1, <2>2
        <3> QED BY <3>1, <3>2, FilesOfEmpty DEF SameFiles
    <2>3. CASE s # e.storage
        BY <1>2, <2>1, <2>3 DEF SameFiles
    <2> QED BY <2>2, <2>3
<1> QED BY <1>1, <1>2, EntranceParts DEF StoreInv

\* The files that stay when what is at a path and below it is removed, or
\* when the root is emptied.
LEMMA FilesOfRemoved ==
    ASSUME NEW t, NEW other, SameFiles(t, other), NEW p \in Paths
    PROVE  /\ SameFiles(Removed(t, p), Removed(other, p))
           /\ SameFiles(Deleted(t, p), Removed(other, p))
           /\ \A q \in Paths : /\ IsFile(Removed(t, p), q) <=> ~IsPrefix(p, q) /\ IsFile(t, q)
                               /\ IsFile(Removed(t, p), q) => Removed(t, p)[q] = t[q]
<1>1. \A x : \A q \in Paths :
        /\ IsFile(Removed(x, p), q) <=> ~IsPrefix(p, q) /\ IsFile(x, q)
        /\ IsFile(Removed(x, p), q) => Removed(x, p)[q] = x[q]
    BY ValuesAssumption DEF IsFile, Removed
<1>2. SameFiles(Removed(t, p), Removed(other, p))
    BY <1>1 DEF SameFiles
<1>3. CASE p = << >> /\ IsDir(t, p)
    <2>1. Deleted(t, p) = EmptyTree
        BY <1>3 DEF Deleted
    <2>2. \A q \in Paths : IsPrefix(p, q)
        <3>1. \A q \in Paths : q \in FilesUnder([x \in Paths |-> Torn], << >>)
            BY WholeArchive DEF IsFile
        <3> QED BY <1>3, <3>1 DEF FilesUnder
    <2> QED BY <1>1, <1>2, <2>1, <2>2, FilesOfEmpty DEF SameFiles
<1>4. CASE ~(p = << >> /\ IsDir(t, p))
    BY <1>1, <1>2, <1>4 DEF Deleted
<1> QED BY <1>1, <1>2, <1>3, <1>4

FilesKept == \A s \in Storages : SameFiles(tree'[s], tree[s])

\* The files of after are those of t that are not in gone.
Lost(after, t, gone) ==
    \A q \in Paths : /\ IsFile(after, q) <=> IsFile(t, q) /\ q \notin gone
                     /\ IsFile(after, q) => after[q] = t[q]

\* What is lost by a removal, whole or cut, and by makedirs.
LEMMA FilesLost ==
    ASSUME NEW t, NEW other, SameFiles(t, other), NEW p \in Paths
    PROVE  /\ \A S : Lost(Without(t, S), other, S)
           /\ \A q \in Paths : MayMake(t, p) /\ IsPrefix(q, p) => SameFiles(Made(t, q), other)
           /\ \A q \in Paths : MayMake(t, p) /\ IsPrefix(q, p) =>
                Lost(Made(Removed(t, p), q), other, Occupied(other, p))
<1>1. ASSUME NEW S PROVE Lost(Without(t, S), other, S)
    BY ValuesAssumption DEF Lost, SameFiles, IsFile, Without
<1>2. ASSUME NEW q \in Paths, MayMake(t, p), IsPrefix(q, p)
      PROVE  \A x \in Paths : IsStrictPrefix(x, q) => ~IsFile(t, x)
    <2> SUFFICES ASSUME NEW x \in Paths, IsStrictPrefix(x, q), IsFile(t, x) PROVE FALSE
        OBVIOUS
    <2>1. IsStrictPrefix(x, p)
        <3>1. q = p \/ IsStrictPrefix(q, p)
            BY <1>2 DEF IsStrictPrefix
        <3> QED BY <3>1, StrictOrder
    <2> QED BY <1>2, <2>1 DEF MayMake
<1>3. ASSUME NEW q \in Paths, MayMake(t, p), IsPrefix(q, p) PROVE SameFiles(Made(t, q), other)
    BY <1>2, <1>3, ValuesAssumption DEF SameFiles, IsFile, Made
<1>4. ASSUME NEW q \in Paths, MayMake(t, p), IsPrefix(q, p)
      PROVE  Lost(Made(Removed(t, p), q), other, Occupied(other, p))
    <2> SUFFICES ASSUME NEW x \in Paths
                 PROVE  LET after == Made(Removed(t, p), q)
                        IN  /\ IsFile(after, x) <=> IsFile(other, x) /\ x \notin Occupied(other, p)
                            /\ IsFile(after, x) => after[x] = other[x]
        BY DEF Lost
    <2>1. IsFile(other, x) => (x \in Occupied(other, p) <=> IsPrefix(p, x))
        BY ValuesAssumption DEF IsFile, Occupied
    <2>2. Made(Removed(t, p), q)[x] =
            IF IsStrictPrefix(x, q) THEN Dir ELSE IF IsPrefix(p, x) THEN Free ELSE t[x]
        BY DEF Made, Removed
    <2>3. IsStrictPrefix(x, q) => ~IsFile(other, x)
        BY <1>2, <1>4 DEF SameFiles
    <2>4. IsFile(t, x) <=> IsFile(other, x)
        BY DEF SameFiles
    <2>5. IsFile(t, x) => t[x] = other[x]
        BY DEF SameFiles
    <2> QED BY <2>1, <2>2, <2>3, <2>4, <2>5, ValuesAssumption DEF IsFile
<1> QED BY <1>1, <1>3, <1>4

Goes == mode = "up" /\ mode' = "up"
Stops == mode = "up" /\ mode' # "up"

\* What a step does to the files, which answer it gives, and whether the
\* server is then up.
StoreStep ==
    \/ FilesKept /\ Answer' = Nothing
    \/ \E s \in Storages, p \in Paths : Goes /\ FilesKept /\ Answer' = Archive(tree[s], p)
    \/ \E s \in Storages, p \in Paths :
            /\ Goes
            /\ \A x \in Storages \ {s} : SameFiles(tree'[x], tree[x])
            /\ SameFiles(tree'[s], Removed(tree[s], p))
            /\ Answer' = Nothing
    \/ \E s \in Storages, p \in Paths : \E gone :
            /\ Stops
            /\ \A x \in Storages \ {s} : SameFiles(tree'[x], tree[x])
            /\ \A q \in gone : IsPrefix(p, q)
            /\ Lost(tree'[s], tree[s], gone)
            /\ Answer' = Nothing
    \/ \E u \in uploads : \E part \in Parts(u.body) :
            /\ (Goes /\ part = u.body) \/ Stops
            /\ MayMake(tree[u.storage], u.path)
            /\ tree' = [tree EXCEPT ![u.storage] = Written(u, part)]
            /\ Answer' = Nothing

\* Every step of the server is such a step.
LEMMA NextStore == StoreInv /\ Next => StoreStep
<1> SUFFICES ASSUME StoreInv, Next PROVE StoreStep
    OBVIOUS
<1>0. tree \in [Storages -> Trees]
    BY DEF StoreInv, TypeOK, Trees, Cells
<1>1. \A t : SameFiles(t, t)
    BY DEF SameFiles
<1>2. reply' = Nothing => Answer' = Nothing
    BY DEF Answer
<1>3. CASE tree' = tree /\ reply' = Nothing
    BY <1>1, <1>2, <1>3 DEF StoreStep, FilesKept
<1>4. ASSUME NEW r \in Requests, NEW e \in Entrances(r), UsersReadable(r), tree' = e.tree
      PROVE  FilesKept
    BY <1>4, EntranceFiles DEF FilesKept
<1>5. ASSUME NEW r \in Requests, NEW e \in Entrances(r), UsersReadable(r)
      PROVE  e.tree \in [Storages -> Trees] /\ e.storage \in Storages
    BY EntranceParts DEF StoreInv
<1>6. CASE Kill
    BY <1>3, <1>6 DEF Kill, Killed, Ends, disk
<1>7. CASE Restart
    <2>1. FilesKept
        <3> SUFFICES ASSUME NEW s \in Storages PROVE SameFiles(tree'[s], tree[s])
            BY DEF FilesKept
        <3>1. CASE s = Public
            <4> DEFINE root == << >>
            <4>1. /\ tree[s] \in Trees /\ tree'[s] = [tree[s] EXCEPT ![root] = Dir]
                  /\ ~IsFile(tree[s], root)
                BY <1>0, <1>7, <3>1 DEF Restart
            <4> HIDE DEF root
            <4>2. \A q \in Paths : tree'[s][q] = IF q = root THEN Dir ELSE tree[s][q]
                BY <4>1 DEF Trees
            <4> QED BY <4>1, <4>2, ValuesAssumption DEF SameFiles, IsFile
        <3>2. CASE s # Public
            BY <1>0, <1>1, <1>7, <3>2 DEF Restart
        <3> QED BY <3>1, <3>2
    <2> QED BY <1>2, <1>7, <2>1 DEF Restart, StoreStep
<1>8. ASSUME NEW r \in Requests, HandleGarbled(r) \/ HandleUnknowable(r) \/ HandleWrongPassword(r)
      PROVE  StoreStep
    BY <1>3, <1>8 DEF HandleGarbled, HandleUnknowable, HandleWrongPassword, Ends, disk
<1>9. ASSUME NEW r \in Requests, DieRegistering(r) PROVE StoreStep
    <2>1. PICK e \in Entrances(r) : UsersReadable(r) /\ tree' = e.tree /\ reply' = Nothing
        BY <1>9 DEF DieRegistering, Killed, Ends
    <2> QED BY <1>2, <1>4, <2>1 DEF StoreStep
<1>10. ASSUME NEW r \in Requests, HandleRefused(r) \/ HandleUpload(r) \/ HandleList(r)
       PROVE  StoreStep
    <2>1. PICK e \in Entrances(r) : UsersReadable(r) /\ tree' = e.tree
        BY <1>10 DEF HandleRefused, HandleUpload, HandleList, Enters
    <2>2. reply' = Nothing \/ reply'.kind = "list"
        BY <1>10 DEF HandleRefused, Ends, Refuse, HandleUpload, HandleList
    <2>3. Answer' = Nothing
        BY <1>2, <2>2 DEF Answer
    <2> QED BY <1>4, <2>1, <2>3 DEF StoreStep
<1>11. ASSUME NEW r \in Requests, HandleDownload(r) PROVE StoreStep
    <2>1. PICK e \in Entrances(r) :
            /\ UsersReadable(r) /\ tree' = e.tree /\ ~Missing(r, e.tree[e.storage]) /\ Goes
            /\ reply' = [kind |-> "download", storage |-> e.storage, path |-> r.path,
                         data |-> Archive(e.tree[e.storage], r.path)]
        BY <1>11 DEF HandleDownload, Enters, Receives, Goes
    <2>2. e.storage \in Storages /\ r.path \in Paths /\ FilesKept
        BY <1>4, <1>5, <2>1, NotMissing
    <2>3. Archive(e.tree[e.storage], r.path) = Archive(tree[e.storage], r.path)
        BY <2>1, <2>2, EntranceFiles, SameArchives
    <2>4. Answer' = Archive(tree[e.storage], r.path) \/ Answer' = Nothing
        BY <2>1, <2>3 DEF Answer
    <2> QED BY <2>1, <2>2, <2>4 DEF StoreStep
<1>12. ASSUME NEW r \in Requests, HandleDelete(r) PROVE StoreStep
    <2>1. PICK e \in Entrances(r) :
            /\ UsersReadable(r) /\ ~Missing(r, e.tree[e.storage]) /\ reply' = Nothing /\ Goes
            /\ tree' = [e.tree EXCEPT ![e.storage] = Deleted(e.tree[e.storage], r.path)]
        BY <1>12 DEF HandleDelete, Enters, Receives, Goes
    <2>2. e.tree \in [Storages -> Trees] /\ e.storage \in Storages /\ r.path \in Paths
        BY <1>5, <2>1, NotMissing
    <2>3. tree'[e.storage] = Deleted(e.tree[e.storage], r.path)
          /\ \A x \in Storages \ {e.storage} : tree'[x] = e.tree[x]
        BY <2>1, <2>2
    <2>4. \A x \in Storages \ {e.storage} : SameFiles(tree'[x], tree[x])
        BY <2>1, <2>3, EntranceFiles
    <2>5. SameFiles(e.tree[e.storage], tree[e.storage])
        BY <2>1, <2>2, EntranceFiles
    <2>6. SameFiles(tree'[e.storage], Removed(tree[e.storage], r.path))
        BY <2>2, <2>3, <2>5, FilesOfRemoved
    <2> QED BY <1>2, <2>1, <2>2, <2>4, <2>6 DEF StoreStep
<1>16. ASSUME NEW r \in Requests, DieDeleting(r) PROVE StoreStep
    <2>1. PICK e \in Entrances(r) : \E S \in Removals(e.tree[e.storage], r.path) :
            /\ UsersReadable(r) /\ ~Missing(r, e.tree[e.storage]) /\ reply' = Nothing /\ Stops
            /\ tree' = [e.tree EXCEPT ![e.storage] = Without(e.tree[e.storage], S)]
        BY <1>16 DEF DieDeleting, Enters, Receives, Killed, Ends, Stops
    <2>2. PICK S \in Removals(e.tree[e.storage], r.path) :
            tree' = [e.tree EXCEPT ![e.storage] = Without(e.tree[e.storage], S)]
        BY <2>1
    <2>3. e.tree \in [Storages -> Trees] /\ e.storage \in Storages /\ r.path \in Paths
        BY <1>5, <2>1, NotMissing
    <2>4. tree'[e.storage] = Without(e.tree[e.storage], S)
          /\ \A x \in Storages \ {e.storage} : tree'[x] = e.tree[x]
        BY <2>2, <2>3
    <2>5. \A x \in Storages : SameFiles(e.tree[x], tree[x])
        BY <2>1, EntranceFiles
    <2>6. Lost(tree'[e.storage], tree[e.storage], S) /\ \A q \in S : IsPrefix(r.path, q)
        BY <2>3, <2>4, <2>5, FilesLost DEF Removals, Occupied
    <2> QED BY <1>2, <2>1, <2>3, <2>4, <2>5, <2>6 DEF StoreStep
<1>17. ASSUME NEW u \in uploads
       PROVE  /\ u.storage \in Storages /\ u.path \in Paths
              /\ \A new : tree' = [tree EXCEPT ![u.storage] = new] =>
                    tree'[u.storage] = new /\ \A x \in Storages \ {u.storage} : tree'[x] = tree[x]
    <2>1. u.storage \in Storages /\ u.path \in Paths
        BY DEF StoreInv, TypeOK, Upload
    <2> QED BY <1>0, <2>1
<1>13. ASSUME NEW u \in uploads, PostUpload(u) PROVE StoreStep
    <2>1. u.body \in Parts(u.body)
        BY WholeIsPart DEF StoreInv, TypeOK, Upload
    <2>2. MayMake(tree[u.storage], u.path) /\ tree' = [tree EXCEPT ![u.storage] = Written(u, u.body)]
          /\ reply' = Nothing /\ Goes
        BY <1>13 DEF PostUpload, Finishes, Written, Goes
    <2> QED BY <1>2, <2>1, <2>2 DEF StoreStep
<1>14. ASSUME NEW u \in uploads, PostUploadRaises(u) PROVE StoreStep
    <2>1. reply' = Nothing
        BY <1>14 DEF PostUploadRaises, Ends
    <2>2. ASSUME NEW q \in MadeDownTo(u.path), MayMake(tree[u.storage], u.path),
                 tree' = [tree EXCEPT ![u.storage] = Made(@, q)]
          PROVE  FilesKept
        <3>1. tree'[u.storage] = Made(tree[u.storage], q)
              /\ \A x \in Storages \ {u.storage} : tree'[x] = tree[x]
            BY <1>17, <2>2
        <3>2. SameFiles(tree'[u.storage], tree[u.storage])
            BY <1>1, <1>17, <2>2, <3>1, FilesLost DEF MadeDownTo
        <3> QED BY <1>1, <3>1, <3>2 DEF FilesKept
    <2>3. tree' = tree \/ FilesKept
        BY <1>14, <2>2 DEF PostUploadRaises
    <2> QED BY <1>1, <1>2, <2>1, <2>3 DEF StoreStep, FilesKept
<1>15. ASSUME NEW u \in uploads, DieUploading(u) PROVE StoreStep
    <2> DEFINE t == tree[u.storage]
               To(new) == tree' = [tree EXCEPT ![u.storage] = new]
    <2>1. reply' = Nothing /\ Stops
        BY <1>15 DEF DieUploading, Killed, Ends, Finishes, Stops
    <2>2. ASSUME NEW new, NEW gone, To(new), \A q \in gone : IsPrefix(u.path, q), Lost(new, t, gone)
          PROVE  StoreStep
        <3>1. tree'[u.storage] = new /\ \A x \in Storages \ {u.storage} : tree'[x] = tree[x]
            BY <1>17, <2>2
        <3> QED BY <1>1, <1>2, <1>17, <2>1, <2>2, <3>1 DEF StoreStep
    <2>3. ASSUME NEW S \in Removals(t, u.path), To(Without(t, S)) PROVE StoreStep
        <3>1. Lost(Without(t, S), t, S) /\ \A q \in S : IsPrefix(u.path, q)
            BY <1>1, <1>17, FilesLost DEF Removals, Occupied
        <3> QED BY <2>2, <2>3, <3>1
    <2>4. ASSUME NEW q \in MadeDownTo(u.path), MayMake(t, u.path), To(Made(Removed(t, u.path), q))
          PROVE  StoreStep
        <3>1. q \in Paths /\ IsPrefix(q, u.path)
            BY DEF MadeDownTo
        <3>2. Lost(Made(Removed(t, u.path), q), t, Occupied(t, u.path))
            BY <1>1, <1>17, <2>4, <3>1, FilesLost
        <3>3. \A x \in Occupied(t, u.path) : IsPrefix(u.path, x)
            BY DEF Occupied
        <3> QED BY <2>2, <2>4, <3>2, <3>3
    <2>5. ASSUME NEW part \in Parts(u.body), MayMake(t, u.path), To(Written(u, part)) PROVE StoreStep
        BY <1>2, <2>1, <2>5 DEF StoreStep
    <2> QED BY <1>15, <2>3, <2>4, <2>5 DEF DieUploading, Written
<1> QED BY <1>6, <1>7, <1>8, <1>9, <1>10, <1>11, <1>12, <1>13, <1>14, <1>15, <1>16 DEF Next

\* What is at a path and below it in the table of files.
LEMMA TableOfFiles ==
    ASSUME NEW s \in Storages, NEW p \in Paths
    PROVE  /\ DOMAIN FileTable[s] = {q \in Paths : IsFile(tree[s], q)}
           /\ \A q \in DOMAIN FileTable[s] : FileTable[s][q] = tree[s][q]
           /\ FileTable[s] = Archive(tree[s], << >>)
BY WholeArchive DEF FileTable

\* The table changes where the files of one storage do.
LEMMA TableChanges ==
    ASSUME NEW s \in Storages, NEW file, Archive(tree'[s], << >>) = file,
           \A x \in Storages \ {s} : Archive(tree'[x], << >>) = Archive(tree[x], << >>)
    PROVE  FileTable' = [FileTable EXCEPT ![s] = file]
BY DEF FileTable

\* A download is a Fetch.
LEMMA DownloadFetches ==
    ASSUME NEW s \in Storages, NEW p \in Paths, Goes, FilesKept, Answer' = Archive(tree[s], p)
    PROVE  Store!Fetch(s, p)
<1>1. FileTable' = FileTable
    BY SameArchives DEF FilesKept, FileTable
<1>2. {q \in DOMAIN FileTable[s] : IsPrefix(p, q)} = FilesUnder(tree[s], p)
    BY TableOfFiles DEF FilesUnder
<1>3. Archive(tree[s], p) = [q \in FilesUnder(tree[s], p) |-> FileTable[s][q]]
    BY TableOfFiles DEF Archive, FilesUnder
<1>4. Answer' = [q \in {x \in DOMAIN FileTable[s] : IsPrefix(p, x)} |-> FileTable[s][q]]
    BY <1>2, <1>3
<1> QED BY <1>1, <1>4, Zenon DEF Goes, Store!Fetch, Store!Below, Store!Restrict,
             Store!IsPrefix, IsPrefix, FileTable, Answer

\* The files that are lost are discarded.
LEMMA LossDiscards ==
    ASSUME NEW s \in Storages, NEW gone, Lost(tree'[s], tree[s], gone),
           \A x \in Storages \ {s} : SameFiles(tree'[x], tree[x])
    PROVE  Store!Discard(s, gone)
<1> DEFINE kept == [q \in DOMAIN FileTable[s] \ gone |-> FileTable[s][q]]
<1>1. \A x \in Storages \ {s} : Archive(tree'[x], << >>) = Archive(tree[x], << >>)
    BY SameArchives
<1>2. Archive(tree'[s], << >>) = kept
    <2> DEFINE D == {q \in Paths : IsFile(tree'[s], q)}
    <2>1. Archive(tree'[s], << >>) = [q \in D |-> tree'[s][q]]
        BY WholeArchive
    <2>2. /\ DOMAIN FileTable[s] = {q \in Paths : IsFile(tree[s], q)}
          /\ \A q \in DOMAIN FileTable[s] : FileTable[s][q] = tree[s][q]
        BY RootIsPath, TableOfFiles
    <2>3. D = DOMAIN FileTable[s] \ gone /\ \A q \in D : tree'[s][q] = FileTable[s][q]
        BY <2>2 DEF Lost
    <2> QED BY <2>1, <2>3
<1> HIDE DEF kept
<1>3. FileTable' = [FileTable EXCEPT ![s] = kept]
    BY <1>1, <1>2, TableChanges, Zenon
<1> QED BY <1>3, Zenon DEF kept, Store!Discard, Store!Restrict, FileTable

\* What is removed is erased.
LEMMA RemovalErases ==
    ASSUME NEW s \in Storages, NEW p \in Paths, Goes, SameFiles(tree'[s], Removed(tree[s], p)),
           \A x \in Storages \ {s} : SameFiles(tree'[x], tree[x]), Answer' = Nothing
    PROVE  Store!Erase(s, p)
<1> DEFINE below == {q \in DOMAIN FileTable[s] : IsPrefix(p, q)}
<1>1. SameFiles(tree[s], tree[s])
    BY DEF SameFiles
<1>2. \A q \in Paths : /\ IsFile(tree'[s], q) <=> ~IsPrefix(p, q) /\ IsFile(tree[s], q)
                       /\ IsFile(tree'[s], q) => tree'[s][q] = tree[s][q]
    BY <1>1, FilesOfRemoved, ZenonT(60) DEF SameFiles
<1>3. Lost(tree'[s], tree[s], below)
    BY <1>2, TableOfFiles DEF Lost
<1>4. Store!Discard(s, below)
    BY <1>3, LossDiscards
<1> QED BY <1>4, Zenon DEF Goes, Store!Erase, Store!Below, Store!IsPrefix, IsPrefix, FileTable, Answer

\* What is lost while the server ends is so in FileStore.
LEMMA LossEnds ==
    ASSUME NEW s \in Storages, NEW p \in Paths, NEW gone, Stops, Lost(tree'[s], tree[s], gone),
           \A q \in gone : IsPrefix(p, q),
           \A x \in Storages \ {s} : SameFiles(tree'[x], tree[x]), Answer' = Nothing
    PROVE  Store!End(s, p)
<1> DEFINE below == {q \in DOMAIN FileTable[s] : IsPrefix(p, q)}
           lost == {q \in gone : q \in DOMAIN FileTable[s]}
<1>1. Lost(tree'[s], tree[s], lost)
    BY TableOfFiles DEF Lost
<1>2. Store!Discard(s, lost) /\ lost \in SUBSET below
    BY <1>1, LossDiscards
<1>3. \E x \in SUBSET below : Store!Discard(s, x)
    BY <1>2
<1>4. Store!Below(s, p) = below
    BY DEF Store!Below, Store!IsPrefix, IsPrefix, FileTable
<1>5. (mode = "up") = TRUE /\ (mode' = "up") = FALSE
    BY DEF Stops
<1> HIDE DEF below
<1> QED BY <1>3, <1>4, <1>5, Zenon DEF Store!End, Answer

\* The files after a body was stored: those of the body, and those that were
\* not at the target or below it.
HasStored(after, t, p, body) ==
    LET placed == {p \o x : x \in DOMAIN body}
    IN  \A q \in Paths :
            /\ IsFile(after, q) <=> q \in placed \/ (~IsPrefix(p, q) /\ IsFile(t, q))
            /\ q \in placed => after[q] = body[SubSeq(q, Len(p) + 1, Len(q))]
            /\ IsFile(after, q) /\ q \notin placed => after[q] = t[q]

\* Stored(Removed(t, p), p, body) is such a tree, when makedirs does not raise.
LEMMA FilesAfterStoring ==
    ASSUME NEW t, NEW p \in Paths, NEW body, MayMake(t, p),
           \A x \in DOMAIN body : x \in Paths /\ p \o x \in Paths /\ body[x] \in Contents \cup {Torn}
    PROVE  HasStored(Stored(Removed(t, p), p, body), t, p, body)
<1> SUFFICES ASSUME NEW q \in Paths
             PROVE  LET after == Stored(Removed(t, p), p, body)
                        placed == {p \o x : x \in DOMAIN body}
                    IN  /\ IsFile(after, q) <=> q \in placed \/ (~IsPrefix(p, q) /\ IsFile(t, q))
                        /\ q \in placed => after[q] = body[SubSeq(q, Len(p) + 1, Len(q))]
                        /\ IsFile(after, q) /\ q \notin placed => after[q] = t[q]
    BY Zenon DEF HasStored
<1> DEFINE before == Removed(t, p)
           after == Stored(before, p, body)
           placed == {p \o x : x \in DOMAIN body}
           rest == SubSeq(q, Len(p) + 1, Len(q))
           Above == IsStrictPrefix(q, p) \/ \E x \in DOMAIN body : IsStrictPrefix(q, p \o x)
<1>1. after[q] = IF IsPrefix(p, q) /\ rest \in DOMAIN body THEN body[rest]
                 ELSE IF Above THEN Dir ELSE before[q]
    BY DEF Stored
<1>2. q \in placed => IsPrefix(p, q) /\ rest \in DOMAIN body
    BY Placed
<1>3. SameFiles(t, t)
    BY DEF SameFiles
<1>4. /\ IsFile(before, q) <=> ~IsPrefix(p, q) /\ IsFile(t, q)
      /\ IsFile(before, q) => before[q] = t[q]
    BY <1>3, FilesOfRemoved
<1>5. ASSUME ~IsPrefix(p, q), IsFile(t, q) PROVE ~Above
    <2> SUFFICES ASSUME Above PROVE FALSE
        OBVIOUS
    <2>1. ~IsStrictPrefix(q, p)
        BY <1>5 DEF MayMake
    <2>2. PICK x \in DOMAIN body : IsStrictPrefix(q, p \o x)
        BY <2>1
    <2>3. IsPrefix(q, p \o x) /\ IsPrefix(p, p \o x) /\ p \o x \in Paths
        BY <2>2, Placed DEF IsStrictPrefix
    <2>4. ~(Len(p) <= Len(q))
        BY <1>5, <2>3, PrefixOrder
    <2>5. Len(q) <= Len(p)
        BY <2>4, PathIsSeq, LenProperties
    <2>6. IsPrefix(q, p)
        BY <2>3, <2>5, PrefixOrder
    <2>7. q # p
        BY <1>5, PrefixOrder
    <2> QED BY <2>1, <2>6, <2>7 DEF IsStrictPrefix
<1>6. CASE q \in placed
    BY <1>1, <1>2, <1>6 DEF IsFile
<1>7. CASE q \notin placed
    <2>1. ~(IsPrefix(p, q) /\ rest \in DOMAIN body)
        BY <1>7, RestOfPath
    <2>2. IsFile(after, q) => ~Above
        BY <1>1, <2>1, ValuesAssumption DEF IsFile
    <2>3. ~Above => after[q] = before[q]
        BY <1>1, <2>1
    <2> HIDE DEF Above, before, after
    <2>4. ~Above => (IsFile(after, q) <=> IsFile(before, q))
        BY <2>3 DEF IsFile
    <2> QED BY <1>4, <1>5, <1>7, <2>2, <2>3, <2>4 DEF before, after
<1> QED BY <1>6, <1>7

\* What is stored replaces the files at the target and below it, the whole body
\* or a part of it.
LEMMA UploadReplaces ==
    ASSUME StoreInv, NEW u \in uploads, NEW part \in Parts(u.body),
           MayMake(tree[u.storage], u.path),
           tree' = [tree EXCEPT ![u.storage] = Written(u, part)]
    PROVE  /\ Store!Replace(u.storage, u.path, part)
           /\ \E r \in Requests : u.body = r.body
<1> DEFINE s == u.storage
           p == u.path
           after == Written(u, part)
           placed == {p \o x : x \in DOMAIN part}
           below == {q \in DOMAIN FileTable[s] : IsPrefix(p, q)}
           kept == DOMAIN FileTable[s] \ below
           Cell(q) == IF q \in placed THEN part[SubSeq(q, Len(p) + 1, Len(q))] ELSE FileTable[s][q]
           file == [q \in placed \cup kept |-> Cell(q)]
<1>1. /\ s \in Storages /\ p \in Paths /\ u \in accepted /\ tree \in [Storages -> Trees]
    BY DEF StoreInv, TypeOK, Upload, UploadsInv, Trees, Cells
<1>2. PICK r \in Requests : p = r.path /\ u.body = r.body
    BY <1>1 DEF StoreInv, UploadsInv
<1>3. part \in Parts(r.body)
    BY <1>2
<1>4. \A x \in DOMAIN part : x \in Paths /\ p \o x \in Paths /\ part[x] \in Contents \cup {Torn}
    <2>1. DOMAIN part \subseteq DOMAIN r.body /\ \A x \in DOMAIN part : part[x] \in Contents \cup {Torn}
        BY <1>3, PartOfBody
    <2> QED BY <1>1, <1>2, <2>1, RequestsAssumption DEF IsBody
<1>5. after = Stored(Removed(tree[s], p), p, part)
    BY DEF Written
<1>6. \A q \in Paths :
        /\ IsFile(after, q) <=> q \in placed \/ (~IsPrefix(p, q) /\ IsFile(tree[s], q))
        /\ q \in placed => after[q] = part[SubSeq(q, Len(p) + 1, Len(q))]
        /\ IsFile(after, q) /\ q \notin placed => after[q] = tree[s][q]
    <2>1. HasStored(after, tree[s], p, part)
        BY <1>1, <1>4, <1>5, FilesAfterStoring
    <2> QED BY <2>1, Zenon DEF HasStored
<1>7. tree'[s] = after /\ \A x \in Storages \ {s} : tree'[x] = tree[x]
    BY <1>1
<1>8. /\ DOMAIN FileTable[s] = {q \in Paths : IsFile(tree[s], q)}
      /\ \A q \in DOMAIN FileTable[s] : FileTable[s][q] = tree[s][q]
    BY <1>1, TableOfFiles
<1>9. placed \subseteq Paths
    BY <1>4
<1> HIDE DEF s, p, after, placed
<1>10. Archive(tree'[s], << >>) = file
    <2> DEFINE D == {q \in Paths : IsFile(after, q)}
    <2>1. Archive(tree'[s], << >>) = [q \in D |-> after[q]]
        <3>1. Archive(after, << >>) = [q \in D |-> after[q]]
            BY WholeArchive
        <3> QED BY <1>7, <3>1
    <2>2. D = placed \cup kept
        BY <1>6, <1>8, <1>9
    <2>3. \A q \in D : after[q] = Cell(q)
        BY <1>6, <1>8
    <2> QED BY <2>1, <2>2, <2>3
<1> HIDE DEF file
<1>11. FileTable' = [FileTable EXCEPT ![s] = file]
    <2>1. \A x \in Storages \ {s} : Archive(tree'[x], << >>) = Archive(tree[x], << >>)
        BY <1>7
    <2> QED BY <1>1, <1>10, <2>1, TableChanges, Zenon
<1>12. Store!Replace(s, p, part)
    BY <1>11, Zenon DEF file, placed, Store!Replace, Store!Kept, Store!Below, Store!IsPrefix,
                        IsPrefix, FileTable
<1> QED BY <1>2, <1>12 DEF s, p

\* So it is put, or the server ends in it.
LEMMA UploadPuts ==
    ASSUME StoreInv, NEW u \in uploads, NEW part \in Parts(u.body),
           (Goes /\ part = u.body) \/ Stops,
           MayMake(tree[u.storage], u.path),
           tree' = [tree EXCEPT ![u.storage] = Written(u, part)], Answer' = Nothing
    PROVE  Store!StoreNext
<1> DEFINE bodies == {r.body : r \in Requests}
<1>1. Store!Replace(u.storage, u.path, part) /\ u.body \in bodies
    BY UploadReplaces
<1>2. u.storage \in Storages /\ u.path \in Paths
    BY DEF StoreInv, TypeOK, Upload
<1> HIDE DEF bodies
<1>3. CASE Goes /\ part = u.body
    <2>1. Store!Put(u.storage, u.path, u.body)
        BY <1>1, <1>3, Zenon DEF Goes, Store!Put, Answer
    <2> QED BY <1>1, <1>2, <2>1, Zenon DEF Store!StoreNext, bodies
<1>4. CASE Stops
    <2>1. (mode = "up") = TRUE /\ (mode' = "up") = FALSE
        BY <1>4 DEF Stops
    <2>2. \E body \in bodies : \E x \in Parts(body) : Store!Replace(u.storage, u.path, x)
        BY <1>1
    <2>3. Store!End(u.storage, u.path)
        BY <2>1, <2>2, Zenon DEF Store!End, Answer, bodies
    <2> QED BY <1>2, <2>3, Zenon DEF Store!StoreNext
<1> QED BY <1>3, <1>4

\* Every step is one of FileStore, or changes neither files nor answer.
LEMMA StepImplements == StoreInv /\ [Next]_vars => [Store!StoreNext]_Store!storeVars
<1> SUFFICES ASSUME StoreInv, [Next]_vars
             PROVE  Store!StoreNext \/ UNCHANGED Store!storeVars
    OBVIOUS
<1>1. CASE UNCHANGED vars
    BY <1>1 DEF vars, disk, Store!storeVars
<1>2. ASSUME FilesKept, Answer' = Nothing PROVE Store!Forget
    <2>1. FileTable' = FileTable
        BY <1>2, SameArchives DEF FilesKept, FileTable
    <2>2. (mode' = "up") \in BOOLEAN
        OBVIOUS
    <2> QED BY <1>2, <2>1, <2>2, Zenon DEF Store!Forget, FileTable, Answer
<1>3. ASSUME NEW s \in Storages, NEW p \in Paths, Goes, FilesKept, Answer' = Archive(tree[s], p)
      PROVE  Store!StoreNext
    BY <1>3, DownloadFetches DEF Store!StoreNext
<1>4. ASSUME NEW s \in Storages, NEW p \in Paths, Goes, SameFiles(tree'[s], Removed(tree[s], p)),
             \A x \in Storages \ {s} : SameFiles(tree'[x], tree[x]), Answer' = Nothing
      PROVE  Store!StoreNext
    BY <1>4, RemovalErases DEF Store!StoreNext
<1>5. ASSUME NEW s \in Storages, NEW p \in Paths, NEW gone, Stops, Lost(tree'[s], tree[s], gone),
             \A q \in gone : IsPrefix(p, q),
             \A x \in Storages \ {s} : SameFiles(tree'[x], tree[x]), Answer' = Nothing
      PROVE  Store!StoreNext
    BY <1>5, LossEnds DEF Store!StoreNext
<1>6. ASSUME NEW u \in uploads, NEW part \in Parts(u.body), (Goes /\ part = u.body) \/ Stops,
             MayMake(tree[u.storage], u.path),
             tree' = [tree EXCEPT ![u.storage] = Written(u, part)], Answer' = Nothing
      PROVE  Store!StoreNext
    BY <1>6, UploadPuts
<1>7. CASE Next
    <2>1. StoreStep
        BY <1>7, NextStore
    <2>2. Store!Forget => Store!StoreNext
        BY DEF Store!StoreNext
    <2> QED BY <1>2, <1>3, <1>4, <1>5, <1>6, <2>1, <2>2 DEF StoreStep
<1> QED BY <1>1, <1>7

\* The empty trees have no files.
LEMMA InitImplements == Init => Store!StoreInit
<1> SUFFICES ASSUME Init PROVE Store!StoreInit
    OBVIOUS
<1>1. \A s \in Storages : \A q \in Paths : ~IsFile(tree[s], q)
    BY FilesOfEmpty, ValuesAssumption DEF Init, IsFile, NoTree
<1>2. ASSUME NEW s \in Storages PROVE Archive(tree[s], << >>) = << >>
    <2>1. {q \in Paths : IsFile(tree[s], q)} = {}
        BY <1>1
    <2>2. Archive(tree[s], << >>) = [q \in {} |-> tree[s][q]]
        BY <2>1, WholeArchive
    <2> QED BY <2>2
<1>3. mode = "up"
    BY DEF Init
<1> QED BY <1>2, <1>3 DEF Init, Store!StoreInit

\* What the trees refine FileStore by is kept by every step.
LEMMA StoreInvAlways == Spec => []StoreInv
<1>1. Init => UsersInv /\ UploadsInv /\ FilesInv /\ OwnersInv
    BY InitUsers, InitFiles DEF Init, OwnersInv
<1>2. TypeOK /\ UsersInv /\ UploadsInv /\ FilesInv /\ OwnersInv /\ [Next]_vars
        => UsersInv' /\ UploadsInv' /\ FilesInv' /\ OwnersInv'
    BY UsersInvStep, UploadsStep, FilesStep, OwnersStep
<1> QED BY <1>1, <1>2, TypeCorrect, PTL DEF Spec, StoreInv

\* ImplementsFileStore: each storage behaves as a set of files under paths,
\* of which an upload and a delete, cut by a kill or not, touch those at their
\* target or below it and no other, all of them when they are not cut, and of
\* which a download has what is there.
THEOREM StoreImplemented == Spec => ImplementsFileStore
<1>1. Init => Store!StoreInit
    BY InitImplements
<1>2. StoreInv /\ [Next]_vars => [Store!StoreNext]_Store!storeVars
    BY StepImplements
<1> QED BY <1>1, <1>2, StoreInvAlways, PTL DEF Spec, ImplementsFileStore, Store!StoreSpec
=============================================================================
