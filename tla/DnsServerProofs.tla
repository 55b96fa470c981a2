---------------------------- MODULE DnsServerProofs ----------------------------
(***************************************************************************)
(* Safety of DnsServer for every set of names, of any length, every        *)
(* operator's records, every parent that does what RFC 1035 asks, all      *)
(* queries, and every number of losses, repeated packets and crashes.      *)
(***************************************************************************)
EXTENDS DnsServer, SequenceTheorems, NumberLemmas, TLAPS

-----------------------------------------------------------------------------
(***************************************************************************)
(* Where the questions and the records of a packet are.                    *)
(***************************************************************************)
Count(p) == Len(p.questions) + Len(p.records)

\* What the lengths of the parts of a packet are counted from.
Measured(p) ==
    /\ p.questions \in Seq(Question)
    /\ Len(p.records) \in Nat /\ DOMAIN p.records = 1..Len(p.records)
    /\ \A k \in DOMAIN p.records : p.records[k].size \in Nat

\* The numbers of its questions and records.
LEMMA PartsCounted ==
    ASSUME NEW p, Measured(p)
    PROVE  /\ Len(p.questions) \in Nat /\ DOMAIN p.questions = 1..Len(p.questions)
           /\ Len(p.records) \in Nat /\ DOMAIN p.records = 1..Len(p.records)
           /\ Count(p) = Len(p.questions) + Len(p.records) /\ Count(p) \in Nat
<1>1. Len(p.questions) \in Nat /\ DOMAIN p.questions = 1..Len(p.questions)
    BY LenProperties DEF Measured
<1>2. Len(p.records) \in Nat /\ DOMAIN p.records = 1..Len(p.records)
    BY DEF Measured
<1> DEFINE q == Len(p.questions)
           n == Len(p.records)
<1>3. Count(p) = q + n
    BY DEF Count
<1> HIDE DEF q, n
<1>4. q \in Nat /\ n \in Nat => q + n \in Nat
    OBVIOUS
<1> QED BY <1>1, <1>2, <1>3, <1>4 DEF q, n

\* What UpTo is at i, given what it is before.
UpToAt(p, f, i) == IF i = 0 THEN 12 ELSE f[i - 1] + Length(p, i)

\* The recursion of UpTo has its function.
LEMMA UpToFunction ==
    ASSUME NEW p, NEW n \in Nat
    PROVE  \E f : f = [i \in 0..n |-> UpToAt(p, f, i)]
<1> DEFINE Of(f, i) == UpToAt(p, f, i)
           S == {k \in Nat : \E f : f = [i \in 0..k |-> Of(f, i)]}
<1>1. 0 \in S
    <2> DEFINE f == [i \in 0..0 |-> 12]
    <2>1. \A i \in 0..0 : Of(f, i) = 12
        BY DEF UpToAt
    <2> HIDE DEF Of
    <2>2. f = [i \in 0..0 |-> Of(f, i)]
        BY <2>1
    <2> QED BY <2>2
<1>2. ASSUME NEW k \in Nat, k \in S PROVE k + 1 \in S
    <2>1. PICK f : f = [i \in 0..k |-> Of(f, i)]
        BY <1>2
    <2> DEFINE g == [i \in 0..k + 1 |-> Of(f, i)]
    <2> HIDE DEF Of
    <2>2. ASSUME NEW i \in 0..k PROVE g[i] = f[i]
        <3>1. f[i] = Of(f, i)
            BY <2>1
        <3> QED BY <3>1
    <2> HIDE DEF g
    <2>3. ASSUME NEW i \in 0..k + 1 PROVE Of(g, i) = Of(f, i)
        <3>1. i = 0 \/ g[i - 1] = f[i - 1]
            BY <2>2
        <3> QED BY <3>1 DEF Of, UpToAt
    <2>4. g = [i \in 0..k + 1 |-> Of(g, i)]
        BY <2>3 DEF g
    <2> QED BY <2>4
<1>3. S = Nat
    <2> HIDE DEF S
    <2>1. S \in SUBSET Nat
        BY DEF S
    <2> QED BY <1>1, <1>2, <2>1, SetInduction
<1> QED BY <1>3

\* The header ends at 12, and each part where the one before ends, after its
\* length.
LEMMA UpToSteps ==
    ASSUME NEW p, Count(p) \in Nat
    PROVE  /\ UpTo(p)[0] = 12
           /\ \A i \in 1..Count(p) : UpTo(p)[i] = UpTo(p)[i - 1] + Length(p, i)
<1>1. UpTo(p) = CHOOSE f : f = [i \in 0..Count(p) |-> UpToAt(p, f, i)]
    BY DEF UpTo, UpToAt, Count
<1>2. UpTo(p) = [i \in 0..Count(p) |-> UpToAt(p, UpTo(p), i)]
    BY <1>1, UpToFunction
<1> DEFINE f == UpTo(p)
<1> HIDE DEF f
<1>3. \A i \in 0..Count(p) : f[i] = UpToAt(p, f, i)
    BY <1>2 DEF f
<1> QED BY <1>3 DEF f, UpToAt

\* Every part has a length.
LEMMA LengthPositive ==
    ASSUME NEW p, Measured(p), NEW i \in 1..Count(p)
    PROVE  Length(p, i) \in Nat /\ Length(p, i) > 0
<1>1. Len(p.questions) \in Nat /\ Len(p.records) \in Nat
    BY PartsCounted
<1>2. CASE i <= Len(p.questions)
    <2>1. p.questions[i] \in Question
        BY <1>1, <1>2, ElementOfSeq DEF Measured
    <2>2. Size[p.questions[i].name] \in Nat
        BY <2>1, NamesAssumption DEF Question
    <2> QED BY <1>2, <2>2 DEF Length
<1>3. CASE ~(i <= Len(p.questions))
    <2> DEFINE q == Len(p.questions)
               n == Len(p.records)
    <2>a. /\ q \in Nat /\ n \in Nat /\ DOMAIN p.records = 1..n /\ Count(p) = q + n
          /\ ~(i <= q) /\ i \in 1..Count(p)
        BY <1>3, PartsCounted
    <2> HIDE DEF q, n
    <2>b. i - q \in 1..n
        BY <2>a
    <2>1. i - Len(p.questions) \in DOMAIN p.records
        BY <2>a, <2>b DEF q
    <2>2. p.records[i - Len(p.questions)].size \in Nat
        BY <2>1 DEF Measured
    <2> QED BY <1>3, <2>2, SMTT(30) DEF Length
<1> QED BY <1>2, <1>3

\* So every part ends behind all parts before it.
LEMMA UpToIncreases ==
    ASSUME NEW p, Measured(p)
    PROVE  \A j \in 0..Count(p) :
                UpTo(p)[j] \in Nat /\ \A i \in 0..(j - 1) : UpTo(p)[i] < UpTo(p)[j]
<1> DEFINE f == UpTo(p)
           n == Count(p)
           Right(j) == f[j] \in Nat /\ \A i \in 0..(j - 1) : f[i] < f[j] /\ f[i] \in Nat
           S == {j \in Nat : j <= n => Right(j)}
<1>1. n \in Nat
    BY PartsCounted
<1>2. f[0] = 12 /\ \A i \in 1..n : f[i] = f[i - 1] + Length(p, i)
    BY <1>1, UpToSteps
<1>3. \A i \in 1..n : Length(p, i) \in Nat /\ Length(p, i) > 0
    BY LengthPositive
<1> HIDE DEF f, n
<1>4. 0 \in S
    BY <1>2
<1>5. ASSUME NEW j \in Nat, j \in S PROVE j + 1 \in S
    <2> SUFFICES ASSUME j + 1 <= n PROVE Right(j + 1)
        OBVIOUS
    <2>1. Right(j) /\ j + 1 \in 1..n /\ j + 1 - 1 = j
        BY <1>1, <1>5
    <2>2. f[j + 1] = f[j] + Length(p, j + 1) /\ Length(p, j + 1) \in Nat /\ Length(p, j + 1) > 0
        BY <1>2, <1>3, <2>1
    <2>3. f[j + 1] \in Nat /\ f[j] < f[j + 1]
        BY <2>1, <2>2
    <2>4. ASSUME NEW i \in 0..j PROVE f[i] < f[j + 1] /\ f[i] \in Nat
        <3>1. i = j \/ (i \in 0..(j - 1) /\ f[i] < f[j] /\ f[i] \in Nat)
            BY <2>1
        <3> QED BY <2>1, <2>3, <3>1
    <2> QED BY <2>1, <2>3, <2>4
<1>6. S = Nat
    <2>1. S \in SUBSET Nat
        OBVIOUS
    <2> HIDE DEF S
    <2> QED BY <1>4, <1>5, <2>1, SetInduction
<1>7. \A j \in 0..n : Right(j)
    BY <1>1, <1>6
<1> QED BY <1>7 DEF f, n

\* No two names of a packet are spelled at the same place.
LEMMA PlacesApart ==
    ASSUME NEW p, Measured(p)
    PROVE  /\ \A i \in DOMAIN p.questions : QuestionPlace(p, i) \in Nat
           /\ \A k \in DOMAIN p.records : DataPlace(p, k) \in Nat
           /\ \A i, h \in DOMAIN p.questions : QuestionPlace(p, i) = QuestionPlace(p, h) => i = h
           /\ \A k, h \in DOMAIN p.records : DataPlace(p, k) = DataPlace(p, h) => k = h
           /\ \A i \in DOMAIN p.questions, k \in DOMAIN p.records :
                    QuestionPlace(p, i) # DataPlace(p, k)
<1> DEFINE f == UpTo(p)
           q == Len(p.questions)
           n == Len(p.records)
<1>1. q \in Nat /\ n \in Nat /\ DOMAIN p.questions = 1..q /\ DOMAIN p.records = 1..n
    BY PartsCounted
<1>2. \A j \in 0..(q + n) : f[j] \in Nat /\ \A i \in 0..(j - 1) : f[i] < f[j]
    BY UpToIncreases DEF Count
<1>3. /\ \A i \in 1..q : QuestionPlace(p, i) = f[i - 1]
      /\ \A k \in 1..n : DataPlace(p, k) = f[q + k - 1] + 12
    BY DEF QuestionPlace, DataPlace
<1> HIDE DEF f, q, n
<1>4. ASSUME NEW i \in 0..(q + n), NEW j \in 0..(q + n)
      PROVE  f[i] \in Nat /\ f[j] \in Nat /\ (f[i] = f[j] => i = j) /\ (i <= j => f[i] <= f[j])
    <2>1. i \in 0..(j - 1) \/ i = j \/ j \in 0..(i - 1)
        BY <1>1
    <2> QED BY <1>1, <1>2, <2>1
<1>5. ASSUME NEW i \in 1..q
      PROVE  /\ i - 1 \in 0..(q + n) /\ QuestionPlace(p, i) = f[i - 1]
             /\ QuestionPlace(p, i) \in Nat
    BY <1>1, <1>3, <1>4
<1>6. ASSUME NEW k \in 1..n
      PROVE  /\ q + k - 1 \in 0..(q + n) /\ DataPlace(p, k) = f[q + k - 1] + 12
             /\ DataPlace(p, k) \in Nat /\ f[q + k - 1] \in Nat
    BY <1>1, <1>3, <1>4
<1>7. ASSUME NEW i \in 1..q, NEW h \in 1..q, QuestionPlace(p, i) = QuestionPlace(p, h)
      PROVE  i = h
    BY <1>1, <1>4, <1>5, <1>7
<1>8. ASSUME NEW k \in 1..n, NEW h \in 1..n, DataPlace(p, k) = DataPlace(p, h)
      PROVE  k = h
    <2>1. f[q + k - 1] = f[q + h - 1]
        BY <1>6, <1>8
    <2>2. q + k - 1 = q + h - 1
        BY <1>4, <1>6, <2>1
    <2> QED BY <1>1, <2>2
<1>9. ASSUME NEW i \in 1..q, NEW k \in 1..n PROVE QuestionPlace(p, i) # DataPlace(p, k)
    <2>1. i - 1 <= q + k - 1
        BY <1>1
    <2>2. f[i - 1] <= f[q + k - 1] /\ f[i - 1] \in Nat
        BY <1>4, <1>5, <1>6, <2>1
    <2> QED BY <1>5, <1>6, <2>2
<1> QED BY <1>1, <1>5, <1>6, <1>7, <1>8, <1>9

\* Packets whose parts have the same lengths have them at the same places.
LEMMA SamePlaces ==
    ASSUME NEW p, NEW w, Measured(p), w.questions = p.questions,
           Len(w.records) = Len(p.records),
           \A k \in DOMAIN p.records : w.records[k].size = p.records[k].size
    PROVE  /\ \A i \in DOMAIN p.questions : QuestionPlace(w, i) = QuestionPlace(p, i)
           /\ \A k \in DOMAIN p.records : DataPlace(w, k) = DataPlace(p, k)
<1> DEFINE f == UpTo(p)
           g == UpTo(w)
           q == Len(p.questions)
           n == Len(p.records)
           S == {j \in Nat : j <= q + n => g[j] = f[j]}
<1>1. q \in Nat /\ n \in Nat /\ DOMAIN p.questions = 1..q /\ DOMAIN p.records = 1..n
    BY PartsCounted
<1>2. Count(p) = q + n /\ Count(w) = q + n
    BY DEF Count
<1>a. Count(p) \in Nat /\ Count(w) \in Nat
    BY <1>2, PartsCounted
<1>3. f[0] = 12 /\ \A i \in 1..(q + n) : f[i] = f[i - 1] + Length(p, i)
    BY <1>2, <1>a, UpToSteps
<1>4. g[0] = 12 /\ \A i \in 1..(q + n) : g[i] = g[i - 1] + Length(w, i)
    BY <1>2, <1>a, UpToSteps
<1>5. ASSUME NEW i \in 1..(q + n) PROVE Length(w, i) = Length(p, i)
    <2>1. i <= q \/ i - q \in 1..n
        <3> HIDE DEF q, n
        <3> QED BY <1>1
    <2>2. w.questions = p.questions /\ (i - q \in 1..n =>
                w.records[i - q].size = p.records[i - q].size)
        BY <1>1
    <2> QED BY <1>1, <2>1, <2>2 DEF Length
<1> HIDE DEF f, g, q, n
<1>6. 0 \in S
    BY <1>3, <1>4
<1>7. ASSUME NEW j \in Nat, j \in S PROVE j + 1 \in S
    <2> SUFFICES ASSUME j + 1 <= q + n PROVE g[j + 1] = f[j + 1]
        OBVIOUS
    <2>1. j + 1 \in 1..(q + n) /\ j + 1 - 1 = j /\ g[j] = f[j]
        BY <1>1, <1>7
    <2> QED BY <1>3, <1>4, <1>5, <2>1
<1>8. S = Nat
    <2>1. S \in SUBSET Nat
        OBVIOUS
    <2> HIDE DEF S
    <2> QED BY <1>6, <1>7, <2>1, SetInduction
<1>9. \A j \in 0..(q + n) : g[j] = f[j]
    BY <1>1, <1>8
<1>10. /\ \A i \in 1..q : QuestionPlace(w, i) = g[i - 1] /\ QuestionPlace(p, i) = f[i - 1]
       /\ \A k \in 1..n : /\ DataPlace(w, k) = g[q + k - 1] + 12
                          /\ DataPlace(p, k) = f[q + k - 1] + 12
    BY DEF QuestionPlace, DataPlace, f, g, q
<1>11. /\ \A i \in 1..q : i - 1 \in 0..(q + n)
       /\ \A k \in 1..n : q + k - 1 \in 0..(q + n)
    BY <1>1
<1> QED BY <1>1, <1>9, <1>10, <1>11

-----------------------------------------------------------------------------
(***************************************************************************)
(* The names of the records of a packet.                                   *)
(***************************************************************************)
Sent(p) == p.questions \in Seq(Question) /\ p.records \in Seq(SentRecord)

\* The parts of a packet that was sent have a length.
LEMMA SentIsMeasured ==
    ASSUME NEW p, Sent(p)
    PROVE  /\ Measured(p)
           /\ \A j \in DOMAIN p.records : p.records[j] \in SentRecord
           /\ \A i \in DOMAIN p.questions : p.questions[i] \in Question
           /\ Len(p.records) \in Nat /\ DOMAIN p.records = 1..Len(p.records)
<1>1. Len(p.records) \in Nat /\ DOMAIN p.records = 1..Len(p.records)
    BY LenProperties DEF Sent
<1>2. \A j \in DOMAIN p.records : p.records[j] \in SentRecord
    BY <1>1, ElementOfSeq DEF Sent
<1>3. \A i \in DOMAIN p.questions : p.questions[i] \in Question
    BY LenProperties, ElementOfSeq DEF Sent
<1>4. \A j \in DOMAIN p.records : p.records[j].size \in Nat
    BY <1>2 DEF SentRecord
<1> QED BY <1>1, <1>2, <1>3, <1>4 DEF Measured, Sent

\* The last question of a name is one of the name.
LEMMA QuestionOfName ==
    ASSUME NEW p, p.questions \in Seq(Question), NEW n \in QuestionNames(p.questions)
    PROVE  \E i \in DOMAIN p.questions :
                p.questions[i].name = n /\ QuestionOffset(p, n) = QuestionPlace(p, i)
<1> DEFINE S == {i \in DOMAIN p.questions : p.questions[i].name = n}
<1>1. S \subseteq 0..Len(p.questions) /\ S # {} /\ Len(p.questions) \in Nat
    BY LenProperties DEF QuestionNames
<1>2. Max(S) \in S
    <2> HIDE DEF S
    <2> QED BY <1>1, MaxIsThere
<1> QED BY <1>2 DEF QuestionOffset

\* Every name the table gives for the byte of a pointer is that of a question
\* at this place, or what is read of the alias at this place.
LEMMA PlaceOfName ==
    ASSUME NEW p, Sent(p), NEW j \in DOMAIN p.records, NEW n \in NamesOf(p, j)
    PROVE  \/ \E i \in DOMAIN p.questions :
                /\ p.questions[i].name = n
                /\ PointerByte(p.records[j].at) = QuestionPlace(p, i)
           \/ \E k \in 1..(j - 1) :
                /\ k \in DOMAIN p.records
                /\ p.records[k].type = "CNAME" /\ CutName[p.records[k].owner] = n
                /\ PointerByte(p.records[j].at) = DataPlace(p, k)
<1>1. n \in KnownBefore(p, j) /\ OffsetBefore(p, j, n) = PointerByte(p.records[j].at)
    BY DEF NamesOf
<1>2. j \in Nat /\ \A k \in 1..(j - 1) : k \in DOMAIN p.records
    BY SentIsMeasured
<1>3. CASE AliasesBefore(p, j, n) # {}
    <2>1. AliasesBefore(p, j, n) \subseteq 0..j
        BY <1>2 DEF AliasesBefore
    <2>2. Max(AliasesBefore(p, j, n)) \in AliasesBefore(p, j, n)
        BY <2>1, <1>2, <1>3, MaxIsThere
    <2>3. PointerByte(p.records[j].at) = DataPlace(p, Max(AliasesBefore(p, j, n)))
        BY <1>1, <1>3 DEF OffsetBefore
    <2> QED BY <1>2, <2>2, <2>3 DEF AliasesBefore
<1>4. CASE AliasesBefore(p, j, n) = {}
    <2>1. n \in QuestionNames(p.questions)
        BY <1>1, <1>4 DEF KnownBefore, AliasesBefore
    <2>2. PointerByte(p.records[j].at) = QuestionOffset(p, n)
        BY <1>1, <1>4 DEF OffsetBefore
    <2> QED BY <2>1, <2>2, QuestionOfName DEF Sent
<1> QED BY <1>3, <1>4

\* The second byte of a pointer is the whole of a small offset.
LEMMA NearPointer == ASSUME NEW at \in Nat, at <= 255 PROVE PointerByte(at) = at
BY DEF PointerByte

\* The name read for a record that the parent gives with a small offset is one
\* of its own, or what is read of the alias whose target is one of its own.
LEMMA ReadPlace ==
    ASSUME NEW p, Sent(p), WellFormed(p),
           NEW j \in DOMAIN p.records, NEW n \in NamesOf(p, j), p.records[j].at <= 255
    PROVE  \/ n \in QuestionNames(p.questions) /\ n \in Owners(p.records[j])
           \/ \E k \in 1..(j - 1) :
                /\ k \in DOMAIN p.records
                /\ p.records[k].type = "CNAME" /\ CutName[p.records[k].owner] = n
                /\ p.records[k].owner \in Owners(p.records[j])
                /\ p.records[k].owner \in Range(Alias)
<1>0. /\ Measured(p)
      /\ PointerByte(p.records[j].at) = p.records[j].at
      /\ \A k \in 1..(j - 1) : k \in DOMAIN p.records
    <2>1. p.records[j].at \in Nat /\ Measured(p)
        BY SentIsMeasured DEF SentRecord
    <2>2. \A k \in 1..(j - 1) : k \in DOMAIN p.records
        BY SentIsMeasured
    <2> QED BY <2>1, <2>2, NearPointer
<1>1. ASSUME ~Elsewhere(p, p.records[j].at)
      PROVE  \E owner \in Owners(p.records[j]) : GivenFor(p, j, owner)
    <2>1. CASE p.records[j].type = "CNAME"
        <3>1. PICK m \in DOMAIN Alias : Alias[m] = p.records[j].owner /\ GivenFor(p, j, m)
            BY <2>1 DEF WellFormed
        <3> QED BY <2>1, <3>1 DEF Owners
    <2>2. CASE p.records[j].type # "CNAME"
        BY <1>1, <2>2 DEF WellFormed, Owners
    <2> QED BY <2>1, <2>2
<1>2. ASSUME NEW i \in DOMAIN p.questions,
             p.questions[i].name = n, p.records[j].at = QuestionPlace(p, i)
      PROVE  n \in QuestionNames(p.questions) /\ n \in Owners(p.records[j])
    <2>1. \A k \in 1..(j - 1) : p.records[j].at # DataPlace(p, k)
        BY <1>0, <1>2, PlacesApart
    <2>2. ~Elsewhere(p, p.records[j].at)
        BY <1>2 DEF Elsewhere
    <2>3. PICK owner \in Owners(p.records[j]) : GivenFor(p, j, owner)
        BY <1>1, <2>2
    <2>4. PICK h \in DOMAIN p.questions :
                p.records[j].at = QuestionPlace(p, h) /\ p.questions[h].name = owner
        BY <2>1, <2>3 DEF GivenFor
    <2>5. h = i
        BY <1>0, <1>2, <2>4, PlacesApart
    <2> QED BY <1>2, <2>3, <2>4, <2>5 DEF QuestionNames
<1>3. ASSUME NEW k \in 1..(j - 1),
             p.records[k].type = "CNAME", CutName[p.records[k].owner] = n,
             p.records[j].at = DataPlace(p, k)
      PROVE  /\ k \in DOMAIN p.records
             /\ p.records[k].owner \in Owners(p.records[j])
             /\ p.records[k].owner \in Range(Alias)
    <2>1. \A i \in DOMAIN p.questions : p.records[j].at # QuestionPlace(p, i)
        BY <1>0, <1>3, PlacesApart
    <2>2. ~Elsewhere(p, p.records[j].at)
        BY <1>0, <1>3 DEF Elsewhere
    <2>3. PICK owner \in Owners(p.records[j]) : GivenFor(p, j, owner)
        BY <1>1, <2>2
    <2>4. PICK h \in 1..(j - 1) : /\ p.records[j].at = DataPlace(p, h)
                                  /\ p.records[h].type = "CNAME" /\ p.records[h].owner = owner
        BY <2>1, <2>3 DEF GivenFor
    <2>5. k \in DOMAIN p.records /\ h = k
        BY <1>0, <1>3, <2>4, PlacesApart
    <2>6. owner \in Range(Alias)
        BY <1>3, <2>4, <2>5 DEF WellFormed, Range
    <2> QED BY <2>3, <2>4, <2>5, <2>6
<1> QED BY <1>0, <1>2, <1>3, PlaceOfName

\* A record the parent gives with a small offset is read under a name that one
\* of its own names may be called.
LEMMA ReadAsCalled ==
    ASSUME NEW p, Sent(p), WellFormed(p),
           NEW j \in DOMAIN p.records, NEW n \in NamesOf(p, j), p.records[j].at <= 255
    PROVE  /\ \E m \in Owners(p.records[j]) : MayBeCalled(m, n)
           /\ p.records[j].type = "A" => MayBeCalled(p.records[j].owner, n)
<1>1. \E m \in Owners(p.records[j]) : MayBeCalled(m, n)
    BY ReadPlace DEF MayBeCalled
<1>2. p.records[j].type = "A" => Owners(p.records[j]) = {p.records[j].owner}
    BY DEF Owners
<1> QED BY <1>1, <1>2

-----------------------------------------------------------------------------
(***************************************************************************)
(* dns.json and the memory.  The inductive invariant adds that the file is *)
(* empty, absent or written by save_database, so that get_database puts    *)
(* into memory all that is in it.                                          *)
(***************************************************************************)
FileSound == file \in {Absent, Empty} \/ file = Saved(file.static, file.cache)

FileInv == FileSound /\ FileIsMemory

\* What save_database has written is all there.
LEMMA SavedIsWhole ==
    ASSUME NEW s, NEW c
    PROVE  /\ Saved(s, c) = Saved(Saved(s, c).static, Saved(s, c).cache)
           /\ Saved(s, c).state = "whole"
           /\ Absent.state = "absent" /\ Empty.state = "empty"
BY DEF Saved, Absent, Empty

\* The file stays sound and the image of the memory, whatever happens.
LEMMA NextFile == FileInv /\ [Next]_vars => FileInv'
<1> SUFFICES ASSUME FileInv, [Next]_vars PROVE FileInv'
    OBVIOUS
<1> USE DEF FileInv, FileSound, FileIsMemory
<1>1. CASE UNCHANGED <<database, file, mode>>
    BY <1>1 DEF database
<1>2. CASE Ends /\ (UNCHANGED file \/ file' \in {Absent, Empty})
    BY <1>2 DEF Ends
<1>3. ASSUME NEW s, NEW c, Ends, file' = Saved(s, c) PROVE FileInv'
    BY <1>3, SavedIsWhole DEF Ends
<1>4. CASE Tick \/ ClientAsks \/ Lose
    BY <1>1, <1>4 DEF Tick, ClientAsks, Lose
<1>5. CASE Crash \/ DieCreating
    BY <1>2, <1>5 DEF Crash, DieCreating, DiesSaving, Dies
<1>6. CASE Start
    <2>1. CASE file.state = "whole"
        BY <2>1, <1>6, SavedIsWhole DEF Start
    <2>2. CASE file.state # "whole"
        BY <2>2, <1>6, SavedIsWhole DEF Start
    <2> QED BY <2>1, <2>2
<1>7. ASSUME NEW query \in inbox, TakeExtended(query) PROVE FileInv'
    BY <1>2, <1>7 DEF TakeExtended
<1>8. ASSUME NEW query \in inbox, AnswerLocally(query) \/ AskParent(query) PROVE FileInv'
    <2>1. mode' # "down" /\ static' = static
        BY <1>8 DEF AnswerLocally, AskParent, Takes, Gets
    <2>2. \/ UNCHANGED <<cache, file>>
          \/ file' = Saved(static, cache')
        BY <1>8 DEF AnswerLocally, AskParent, LooksUp
    <2>3. mode # "down"
        BY <1>8 DEF AnswerLocally, AskParent, Takes, Gets
    <2> QED BY <2>1, <2>2, <2>3, SavedIsWhole
<1>9. ASSUME NEW query \in inbox, NoIdLeft(query) \/ AnswerLocallyRaises(query) PROVE FileInv'
    BY <1>2, <1>3, <1>9 DEF NoIdLeft, AnswerLocallyRaises, LooksUpAndEnds
<1>10. ASSUME NEW query \in inbox, DieDropping(query) PROVE FileInv'
    BY <1>2, <1>3, <1>10 DEF DieDropping, DiesSaving, Dies
<1>11. ASSUME NEW p \in upstream, ParentAnswers(p) PROVE FileInv'
    BY <1>1, <1>11 DEF ParentAnswers
<1>12. ASSUME NEW p \in downstream, ReceiveUnreadable(p) PROVE FileInv'
    BY <1>2, <1>12 DEF ReceiveUnreadable
<1>13. ASSUME NEW p \in downstream, IgnoreResponse(p) PROVE FileInv'
    BY <1>1, <1>13 DEF IgnoreResponse
<1>14. ASSUME NEW p \in downstream, AcceptResponse(p) PROVE FileInv'
    <2>1. static' = static /\ file' = Saved(static, cache')
        BY <1>14 DEF AcceptResponse
    <2> QED BY <2>1, SavedIsWhole
<1>15. ASSUME NEW p \in downstream, DieCaching(p) \/ AcceptRaises(p) PROVE FileInv'
    BY <1>2, <1>3, <1>15 DEF DieCaching, AcceptRaises, DiesSaving, Dies
<1>16. CASE UNCHANGED vars
    BY <1>1, <1>16 DEF vars
<1> QED BY <1>4, <1>5, <1>6, <1>7, <1>8, <1>9, <1>10, <1>11, <1>12, <1>13, <1>14, <1>15, <1>16
        DEF Next

\* The file is absent, or as the operator has written it.
LEMMA InitFile == Init => FileInv
<1> SUFFICES ASSUME Init PROVE FileInv
    OBVIOUS
<1>1. mode = "down" /\ file \in {Absent, Saved(Static, NoCache)}
    BY DEF Init
<1> QED BY <1>1, SavedIsWhole DEF FileInv, FileSound, FileIsMemory

\* Between two handlers, and while it waits, the server has in dns.json what
\* it has in memory (save_database), for any number of crashes in the middle
\* of save_database and any records.
THEOREM FileIsMemoryAlways == Spec => []FileIsMemory
<1>1. FileInv => FileIsMemory
    BY DEF FileInv
<1> QED BY <1>1, InitFile, NextFile, PTL DEF Spec

-----------------------------------------------------------------------------
(***************************************************************************)
(* Type correctness.                                                       *)
(***************************************************************************)
Caches == [Names -> CacheRecord \cup {NoRecord}]

\* The empty cache, and what is left when records are dropped, are caches.
LEMMA DroppedIsCache ==
    /\ NoCache \in Caches
    /\ \A questions : TypeOK => DropExpired(questions) \in Caches
BY DEF NoCache, Caches, DropExpired, TypeOK

\* Reading gives a record its name, one of those in the table, and no more.
LEMMA ReadFields ==
    ASSUME NEW p
    PROVE  /\ DOMAIN Read(p) = DOMAIN p.records
           /\ \A j \in DOMAIN p.records :
                /\ Readable(p) => Read(p)[j].name \in NamesOf(p, j)
                /\ Read(p)[j].section = p.records[j].section
                /\ Read(p)[j].type = p.records[j].type
                /\ Read(p)[j].owner = p.records[j].owner
                /\ Read(p)[j].ttl = p.records[j].ttl
                /\ Read(p)[j].size = p.records[j].size
<1>1. DOMAIN Read(p) = DOMAIN p.records
    BY DEF Read
<1>2. ASSUME NEW j \in DOMAIN p.records
      PROVE  \E n : Read(p)[j] = Named(n, p.records[j]) /\ (Readable(p) => n \in NamesOf(p, j))
    <2>1. Read(p)[j] = Named(CHOOSE n \in NamesOf(p, j) : TRUE, p.records[j])
        BY DEF Read
    <2>2. Readable(p) => (CHOOSE n \in NamesOf(p, j) : TRUE) \in NamesOf(p, j)
        BY DEF Readable
    <2> QED BY <2>1, <2>2, Zenon
<1>3. ASSUME NEW n, NEW r
      PROVE  /\ Named(n, r).name = n /\ Named(n, r).section = r.section
             /\ Named(n, r).type = r.type /\ Named(n, r).owner = r.owner
             /\ Named(n, r).ttl = r.ttl /\ Named(n, r).size = r.size
    BY DEF Named
<1>4. ASSUME NEW j \in DOMAIN p.records
      PROVE  /\ Readable(p) => Read(p)[j].name \in NamesOf(p, j)
             /\ Read(p)[j].section = p.records[j].section
             /\ Read(p)[j].type = p.records[j].type
             /\ Read(p)[j].owner = p.records[j].owner
             /\ Read(p)[j].ttl = p.records[j].ttl
             /\ Read(p)[j].size = p.records[j].size
    <2>1. PICK n : Read(p)[j] = Named(n, p.records[j]) /\ (Readable(p) => n \in NamesOf(p, j))
        BY <1>2
    <2> QED BY <2>1, <1>3
<1> QED BY <1>1, <1>4

\* What is cached of a response is of one of its A records, under a name the
\* table gives for it; all else stays.
LEMMA CachedOrOfResponse ==
    ASSUME NEW p, Sent(p), Readable(p), NEW n \in Names
    PROVE  \/ CacheWith(Read(p))[n] = cache[n]
           \/ \E j \in DOMAIN p.records :
                /\ p.records[j].type = "A" /\ n \in NamesOf(p, j)
                /\ CacheWith(Read(p))[n] =
                        [owner |-> p.records[j].owner, expired |-> now + p.records[j].ttl]
<1> DEFINE R == Read(p)
           about == {j \in {j \in DOMAIN R : R[j].type = "A"} : R[j].name = n}
           S == {j \in about : \A k \in about : R[j].section <= R[k].section}
           last == Max(S)
<1>1. CacheWith(R)[n] = IF about = {} THEN cache[n]
                        ELSE [owner |-> R[last].owner, expired |-> now + R[last].ttl]
    BY DEF CacheWith, CacheOf
<1>2. /\ DOMAIN R = DOMAIN p.records
      /\ \A j \in DOMAIN p.records :
            /\ R[j].name \in NamesOf(p, j) /\ R[j].section \in Nat
            /\ R[j].type = p.records[j].type /\ R[j].owner = p.records[j].owner
            /\ R[j].ttl = p.records[j].ttl
    <2>1. \A j \in DOMAIN p.records : p.records[j].section \in Nat
        BY SentIsMeasured DEF SentRecord, ANSWERS, ADDITIONAL
    <2> QED BY <2>1, ReadFields
<1>3. Len(p.records) \in Nat /\ DOMAIN p.records = 1..Len(p.records)
    BY SentIsMeasured
<1> HIDE DEF R
<1>4. ASSUME about # {} PROVE last \in about
    <2> DEFINE T == {R[j].section : j \in about}
    <2>1. T \in SUBSET Nat /\ T # {}
        BY <1>2, <1>4
    <2>2. PICK s \in T : \A t \in T : s <= t
        BY <2>1, Smallest
    <2>3. S # {}
        BY <2>2
    <2>4. S \subseteq 0..Len(p.records)
        BY <1>2, <1>3
    <2> HIDE DEF S
    <2>5. last \in S
        BY <1>3, <2>3, <2>4, MaxIsThere
    <2> QED BY <2>5 DEF S
<1> HIDE DEF last
<1>5. about # {} => last \in DOMAIN p.records /\ R[last].type = "A" /\ R[last].name = n
    BY <1>2, <1>4
<1> HIDE DEF about
<1> QED BY <1>1, <1>2, <1>5 DEF R

\* What is cached of a response is a cache.
LEMMA CachedIsCache ==
    ASSUME TypeOK, NEW p \in downstream, Readable(p)
    PROVE  CacheWith(Read(p)) \in Caches
<1>1. CacheWith(Read(p)) = [n \in Names |-> CacheWith(Read(p))[n]]
    BY DEF CacheWith, CacheOf
<1>2. ASSUME NEW n \in Names PROVE CacheWith(Read(p))[n] \in CacheRecord \cup {NoRecord}
    <2>1. Sent(p) /\ now \in Nat /\ cache[n] \in CacheRecord \cup {NoRecord}
        BY BoundsAssumption DEF TypeOK, Sent
    <2>2. CASE CacheWith(Read(p))[n] = cache[n]
        BY <2>1, <2>2
    <2>3. ASSUME NEW j \in DOMAIN p.records,
                 CacheWith(Read(p))[n] =
                    [owner |-> p.records[j].owner, expired |-> now + p.records[j].ttl]
          PROVE  CacheWith(Read(p))[n] \in CacheRecord
        <3>1. p.records[j] \in SentRecord
            BY <2>1, SentIsMeasured
        <3>2. p.records[j].owner \in Names /\ now + p.records[j].ttl \in Nat
            BY <3>1, <2>1, SMTT(30) DEF SentRecord
        <3> QED BY <3>2, <2>3 DEF CacheRecord
    <2> QED BY <2>1, <2>2, <2>3, CachedOrOfResponse
<1> QED BY <1>1, <1>2 DEF Caches

\* Before the first step every variable has its type.
LEMMA InitType == Init => TypeOK
<1> SUFFICES ASSUME Init PROVE TypeOK
    OBVIOUS
<1>1. NoCache \in Caches /\ Static \in SUBSET Names
    BY DroppedIsCache, RecordsAssumption
<1>2. /\ file.state \in {"absent", "whole"} /\ file.static \in SUBSET Names
      /\ file.cache \in Caches /\ (file.state # "whole" => file = Absent)
    BY <1>1 DEF Init, Saved, Absent
<1> QED BY <1>1, <1>2, BoundsAssumption DEF Init, TypeOK, Caches

\* The part of the types that a step changes when the server ends, and when
\* it saves: what memory and file may be.
StoreOK ==
    /\ static \in SUBSET Names
    /\ cache \in Caches
    /\ file.state \in {"absent", "empty", "whole"}
    /\ file.static \in SUBSET Names
    /\ file.cache \in Caches
    /\ file.state # "whole" => file \in {Absent, Empty}

\* The file as save_database leaves it, or as it is when the process dies.
FileOK ==
    \/ UNCHANGED file
    \/ file' \in {Absent, Empty}
    \/ \E s \in SUBSET Names, c \in Caches : file' = Saved(s, c)

\* Memory and file stay what they may be when each is written as a whole.
LEMMA NextStore ==
    ASSUME StoreOK, FileOK, static' \in SUBSET Names, cache' \in Caches
    PROVE  StoreOK'
<1>1. CASE UNCHANGED file
    BY <1>1 DEF StoreOK
<1>2. CASE file' \in {Absent, Empty}
    BY <1>2, DroppedIsCache DEF StoreOK, Absent, Empty
<1>3. ASSUME NEW s \in SUBSET Names, NEW c \in Caches, file' = Saved(s, c) PROVE StoreOK'
    BY <1>3 DEF StoreOK, Saved
<1> QED BY <1>1, <1>2, <1>3 DEF FileOK

\* The part of the types that is about the clock, the queries and the network.
LoopOK ==
    /\ now \in 0..MaxTime
    /\ mode \in {"loop", "waiting", "down"}
    /\ inbox \in SUBSET Query
    /\ mode = "waiting" => /\ current.query \in Query
                           /\ current.id \in 1..(current.query.id - 1)
    /\ \A p \in upstream : p.id \in Nat
    /\ \A p \in downstream :
            p.id \in Nat /\ p.questions \in Seq(Question) /\ p.records \in Seq(SentRecord)
    /\ asked \in 0..MaxQueries /\ crashes \in 0..MaxCrashes
    /\ losses \in 0..MaxLosses /\ repeats \in 0..MaxRepeats

\* The two parts are all of it.
LEMMA TypeParts == TypeOK <=> StoreOK /\ LoopOK
BY DEF TypeOK, StoreOK, LoopOK, Caches

\* The server ends with an empty memory.
LEMMA EndedStore ==
    ASSUME StoreOK, FileOK, Ends
    PROVE  StoreOK'
BY NextStore, DroppedIsCache DEF Ends

\* No step breaks the types of memory and file.
LEMMA StoreStep == TypeOK /\ [Next]_vars => StoreOK'
<1> SUFFICES ASSUME TypeOK, [Next]_vars PROVE StoreOK'
    OBVIOUS
<1>0. StoreOK
    BY TypeParts
<1>a. \A c \in Caches : file' = Saved(static, c) => FileOK
    BY <1>0 DEF FileOK, StoreOK
<1>b. \A questions : DropExpired(questions) \in Caches
    BY DroppedIsCache
<1>c. (UNCHANGED file \/ file' \in {Absent, Empty}) => FileOK
    BY DEF FileOK
<1>d. static \in SUBSET Names /\ cache \in Caches
    BY <1>0 DEF StoreOK
<1>1. CASE UNCHANGED <<database, file>>
    BY <1>1, <1>0, <1>c, <1>d, NextStore DEF database
<1>2. CASE Tick \/ ClientAsks \/ Lose
    BY <1>1, <1>2 DEF Tick, ClientAsks, Lose
<1>3. CASE Crash \/ DieCreating
    BY <1>0, <1>3, <1>c, EndedStore DEF Crash, DieCreating, DiesSaving, Dies
<1>4. CASE Start
    <2>1. CASE file.state = "whole"
        BY <2>1, <1>4, <1>0, <1>c, NextStore DEF Start, StoreOK
    <2>2. CASE file.state # "whole"
        <3>1. static' \in SUBSET Names /\ cache' \in Caches /\ file' = Saved(static', cache')
            BY <2>2, <1>4, DroppedIsCache, RecordsAssumption DEF Start
        <3>2. FileOK
            BY <3>1 DEF FileOK
        <3> QED BY <1>0, <3>1, <3>2, NextStore
    <2> QED BY <2>1, <2>2
<1>5. ASSUME NEW query \in inbox, TakeExtended(query) PROVE StoreOK'
    BY <1>0, <1>5, <1>c, EndedStore DEF TakeExtended
<1>6. ASSUME NEW query \in inbox, AnswerLocally(query) \/ AskParent(query) PROVE StoreOK'
    <2>1. LooksUp(query) /\ static' = static
        BY <1>6 DEF AnswerLocally, AskParent
    <2>2. cache' = DropExpired(query.questions) /\ cache' \in Caches
        BY <2>1, <1>b DEF LooksUp
    <2>3. FileOK
        <3>1. file' = file \/ file' = Saved(static, cache')
            BY <2>1 DEF LooksUp
        <3> QED BY <3>1, <2>2, <1>a, <1>c
    <2> QED BY <1>0, <1>d, <2>1, <2>2, <2>3, NextStore
<1>7. ASSUME NEW query \in inbox, NoIdLeft(query) \/ AnswerLocallyRaises(query)
      PROVE  StoreOK'
    <2>1. FileOK /\ Ends
        BY <1>7, <1>a, <1>b, <1>c DEF NoIdLeft, AnswerLocallyRaises, LooksUpAndEnds
    <2> QED BY <1>0, <2>1, EndedStore
<1>8. ASSUME NEW query \in inbox, DieDropping(query) PROVE StoreOK'
    <2>1. FileOK /\ Ends
        BY <1>8, <1>a, <1>b, <1>c DEF DieDropping, DiesSaving, Dies
    <2> QED BY <1>0, <2>1, EndedStore
<1>9. ASSUME NEW p \in upstream, ParentAnswers(p) PROVE StoreOK'
    BY <1>1, <1>9 DEF ParentAnswers
<1>10. ASSUME NEW p \in downstream, ReceiveUnreadable(p) PROVE StoreOK'
    BY <1>0, <1>10, <1>c, EndedStore DEF ReceiveUnreadable
<1>11. ASSUME NEW p \in downstream, IgnoreResponse(p) PROVE StoreOK'
    BY <1>1, <1>11 DEF IgnoreResponse
<1>12. ASSUME NEW p \in downstream, AcceptResponse(p) PROVE StoreOK'
    <2>1. cache' = CacheWith(Read(p)) /\ static' = static /\ file' = Saved(static, cache')
        BY <1>12 DEF AcceptResponse
    <2>2. cache' \in Caches
        BY <2>1, <1>12, CachedIsCache DEF AcceptResponse, Accepted
    <2> QED BY <1>0, <1>a, <1>d, <2>1, <2>2, NextStore
<1>13. ASSUME NEW p \in downstream, DieCaching(p) \/ AcceptRaises(p) PROVE StoreOK'
    <2>1. CacheWith(Read(p)) \in Caches
        BY <1>13, CachedIsCache DEF DieCaching, AcceptRaises, Accepted
    <2>2. FileOK /\ Ends
        BY <2>1, <1>13, <1>a, <1>c DEF DieCaching, AcceptRaises, DiesSaving, Dies
    <2> QED BY <1>0, <2>2, EndedStore
<1>14. CASE UNCHANGED vars
    BY <1>1, <1>14 DEF vars
<1> QED BY <1>2, <1>3, <1>4, <1>5, <1>6, <1>7, <1>8, <1>9, <1>10, <1>11, <1>12, <1>13, <1>14
        DEF Next

\* No step breaks the types of the clock, the queries and the network.
LEMMA LoopStep == TypeOK /\ [Next]_vars => LoopOK'
<1> SUFFICES ASSUME TypeOK, [Next]_vars PROVE LoopOK'
    OBVIOUS
<1>0. LoopOK
    BY TypeParts
<1> USE <1>0, BoundsAssumption DEF LoopOK
<1>1. CASE UNCHANGED <<mode, current, inbox, network, bounded>>
    BY <1>1 DEF network, bounded
<1>2. CASE Tick
    BY <1>2 DEF Tick, network
<1>3. CASE ClientAsks
    <2>1. inbox' \in SUBSET Query
        <3>1. PICK q \in Queries :
                inbox' = inbox \cup {[tag |-> asked + 1, id |-> q.id, questions |-> q.questions,
                                       extended |-> q.extended]}
            BY <1>3 DEF ClientAsks
        <3> QED BY <3>1, <1>3 DEF ClientAsks, Query
    <2> QED BY <2>1, <1>3 DEF ClientAsks, network
<1>4. CASE Lose
    BY <1>4 DEF Lose, bounded
<1>5. CASE Crash \/ DieCreating
    BY <1>5 DEF Crash, DieCreating, DiesSaving, Dies, Ends, network
<1>6. CASE Start
    BY <1>6 DEF Start, network, bounded
<1>7. ASSUME NEW query \in inbox,
             TakeExtended(query) \/ NoIdLeft(query) \/ AnswerLocallyRaises(query)
      PROVE  LoopOK'
    BY <1>7 DEF TakeExtended, NoIdLeft, AnswerLocallyRaises, LooksUpAndEnds, Ends, network, bounded
<1>8. ASSUME NEW query \in inbox, AnswerLocally(query) PROVE LoopOK'
    BY <1>8 DEF AnswerLocally, Takes, Gets, network, bounded
<1>9. ASSUME NEW query \in inbox, AskParent(query) PROVE LoopOK'
    <2>1. PICK id \in 1..(query.id - 1) :
            /\ upstream' = upstream \cup
                    {[id |-> id, for |-> query.tag, questions |-> Missing(query.questions)]}
            /\ current' = [query |-> query, locals |-> Locals(query.questions),
                           missing |-> Missing(query.questions), id |-> id, since |-> now]
        BY <1>9 DEF AskParent, NewIds
    <2>2. query \in Query /\ query.id \in Nat
        BY DEF Query
    <2>3. \A p \in upstream' : p.id \in Nat
        BY <2>1, <2>2
    <2>4. current'.query \in Query /\ current'.id \in 1..(current'.query.id - 1)
        BY <2>1, <2>2
    <2> QED BY <2>3, <2>4, <1>9 DEF AskParent, Takes, Gets, bounded
<1>10. ASSUME NEW query \in inbox, DieDropping(query) PROVE LoopOK'
    BY <1>10 DEF DieDropping, DiesSaving, Dies, Ends, network
<1>11. ASSUME NEW p \in upstream, ParentAnswers(p) PROVE LoopOK'
    <2>1. PICK records \in Responses[p.questions] : downstream' = downstream \cup
            {[id |-> p.id, for |-> p.for, questions |-> p.questions, records |-> records]}
        BY <1>11 DEF ParentAnswers
    <2>2. p.questions \in Seq(Question) /\ records \in Seq(SentRecord)
        BY <1>11, ResponsesAssumption DEF ParentAnswers
    <2>3. \A q \in downstream' :
            q.id \in Nat /\ q.questions \in Seq(Question) /\ q.records \in Seq(SentRecord)
        BY <2>1, <2>2
    <2> QED BY <2>3, <1>11 DEF ParentAnswers, bounded
<1>12. ASSUME NEW p \in downstream, ReceiveUnreadable(p) PROVE LoopOK'
    BY <1>12 DEF ReceiveUnreadable, Receives, Ends, bounded
<1>13. ASSUME NEW p \in downstream, IgnoreResponse(p) PROVE LoopOK'
    BY <1>13 DEF IgnoreResponse, Receives, bounded
<1>14. ASSUME NEW p \in downstream, AcceptResponse(p) PROVE LoopOK'
    BY <1>14 DEF AcceptResponse, Receives, bounded
<1>15. ASSUME NEW p \in downstream, DieCaching(p) \/ AcceptRaises(p) PROVE LoopOK'
    <2>1. CASE DieCaching(p)
        BY <2>1, SMTT(30) DEF DieCaching, Receives, DiesSaving, Dies, Ends
    <2>2. CASE AcceptRaises(p)
        BY <2>2, SMTT(30) DEF AcceptRaises, Receives, Ends, bounded
    <2> QED BY <1>15, <2>1, <2>2
<1>16. CASE UNCHANGED vars
    BY <1>1, <1>16 DEF vars
<1> QED BY <1>2, <1>3, <1>4, <1>5, <1>6, <1>7, <1>8, <1>9, <1>10, <1>11, <1>12, <1>13, <1>14,
           <1>15, <1>16
        DEF Next

\* Every variable always has its type; in particular the id of a query that
\* waits is one from 1 to that of the client minus one.
THEOREM TypeCorrect == Spec => []TypeOK
<1>1. StoreOK' /\ LoopOK' => TypeOK'
    BY TypeParts, PTL
<1>2. TypeOK /\ [Next]_vars => TypeOK'
    BY <1>1, StoreStep, LoopStep
<1> QED BY <1>2, InitType, PTL DEF Spec

-----------------------------------------------------------------------------
(***************************************************************************)
(* The cache and the parent.  The inductive invariant adds that what is on *)
(* the way from the parent is what RFC 1035 asks for.                      *)
(***************************************************************************)
PacketsWellFormed == \A p \in downstream : WellFormed(p)

ToldInv == CachedAsTold /\ PacketsWellFormed

\* The records of the cache c have been heard: h.
ToldIn(c, h) ==
    \A n \in Names :
        c[n] # NoRecord =>
            \E x \in h :
                /\ x.type = "A" /\ x.owner = c[n].owner /\ x.until = c[n].expired
                /\ x.far \/ MayBeCalled(x.owner, n)

\* CachedAsTold in these words.
LEMMA ToldParts ==
    /\ CachedAsTold <=> ToldIn(cache, heard) /\ ToldIn(file.cache, heard)
    /\ CachedAsTold' <=> ToldIn(cache', heard') /\ ToldIn(file'.cache, heard')
BY DEF CachedAsTold, ToldIn

\* What is left of memory or file is still told, whatever else is heard.
LEMMA KeptTold ==
    ASSUME CachedAsTold, NEW h, heard \subseteq h, NEW c,
           \A n \in Names : c[n] \in {NoRecord, cache[n], file.cache[n]}
    PROVE  ToldIn(c, h)
BY ToldParts DEF ToldIn

\* What is dropped from memory leaves nothing new, and so does all of it.
LEMMA DroppedTold ==
    ASSUME CachedAsTold
    PROVE  /\ ToldIn(NoCache, heard) /\ ToldIn(cache, heard)
           /\ \A questions : ToldIn(DropExpired(questions), heard)
BY KeptTold DEF NoCache, DropExpired

\* Only its questions and its records decide whether a packet is what it should
\* be.
LEMMA WellFormedParts ==
    ASSUME NEW p, NEW w, w.questions = p.questions, w.records = p.records
    PROVE  WellFormed(w) <=> WellFormed(p)
<1>1. \A i : QuestionPlace(w, i) = QuestionPlace(p, i)
    BY DEF QuestionPlace, UpTo, Length
<1>2. \A k : DataPlace(w, k) = DataPlace(p, k)
    BY DEF DataPlace, UpTo, Length
<1>3. \A at : Elsewhere(w, at) <=> Elsewhere(p, at)
    BY <1>1, <1>2 DEF Elsewhere
<1>4. \A j, owner : GivenFor(w, j, owner) <=> GivenFor(p, j, owner)
    BY <1>1, <1>2 DEF GivenFor
<1> QED BY <1>3, <1>4 DEF WellFormed

\* What is cached of a response is told by the response.
LEMMA ResponseTold ==
    ASSUME TypeOK, ToldInv, NEW p \in downstream, Readable(p), Hears(p)
    PROVE  ToldIn(CacheWith(Read(p)), heard')
<1> DEFINE Told(n) == \E x \in heard' :
                        /\ x.type = "A" /\ x.owner = CacheWith(Read(p))[n].owner
                        /\ x.until = CacheWith(Read(p))[n].expired
                        /\ x.far \/ MayBeCalled(x.owner, n)
<1> SUFFICES ASSUME NEW n \in Names, CacheWith(Read(p))[n] # NoRecord
             PROVE  Told(n)
    BY DEF ToldIn
<1>0. Sent(p) /\ WellFormed(p) /\ heard \subseteq heard'
    BY DEF TypeOK, ToldInv, PacketsWellFormed, Hears, Sent
<1>1. CASE CacheWith(Read(p))[n] = cache[n]
    BY <1>0, <1>1, ToldParts DEF ToldInv, ToldIn
<1>2. CASE CacheWith(Read(p))[n] # cache[n]
    <2>1. PICK j \in DOMAIN p.records :
            /\ p.records[j].type = "A" /\ n \in NamesOf(p, j)
            /\ CacheWith(Read(p))[n] =
                    [owner |-> p.records[j].owner, expired |-> now + p.records[j].ttl]
        BY <1>0, <1>2, CachedOrOfResponse
    <2> DEFINE r == p.records[j]
               x == [type |-> r.type, owner |-> r.owner, until |-> now + r.ttl,
                     far |-> r.at > 255]
    <2>2. x \in heard'
        BY DEF Hears, Range
    <2>3. x.far \/ MayBeCalled(r.owner, n)
        <3>1. r.at \in Nat
            BY <1>0, SentIsMeasured DEF SentRecord
        <3>2. r.at <= 255 => MayBeCalled(r.owner, n)
            BY <1>0, <2>1, ReadAsCalled
        <3>3. r.at <= 255 \/ r.at > 255
            BY <3>1
        <3>4. r.at > 255 => x.far
            BY Zenon
        <3> HIDE DEF x, r
        <3> QED BY <3>2, <3>3, <3>4, Zenon
    <2>4. /\ CacheWith(Read(p))[n].owner = r.owner
          /\ CacheWith(Read(p))[n].expired = now + r.ttl
        BY <2>1
    <2>5. x.type = "A" /\ x.owner = r.owner /\ x.until = now + r.ttl
        BY <2>1
    <2> HIDE DEF x, r
    <2> QED BY <2>2, <2>3, <2>4, <2>5
<1> QED BY <1>1, <1>2

\* A cache that is saved is the one in the file.
LEMMA SavedTold ==
    ASSUME NEW c, NEW s, NEW h, ToldIn(NoCache, h), ToldIn(c, h)
    PROVE  /\ ToldIn(Saved(s, c).cache, h)
           /\ ToldIn(Absent.cache, h) /\ ToldIn(Empty.cache, h)
BY DEF Saved, Absent, Empty

\* No step caches what the parent did not tell.
LEMMA NextTold == TypeOK /\ ToldInv /\ [Next]_vars => ToldInv'
<1> SUFFICES ASSUME TypeOK, ToldInv, [Next]_vars PROVE ToldInv'
    OBVIOUS
<1>0. /\ CachedAsTold /\ PacketsWellFormed
      /\ ToldIn(cache, heard) /\ ToldIn(file.cache, heard) /\ ToldIn(NoCache, heard)
      /\ \A questions : ToldIn(DropExpired(questions), heard)
    BY ToldParts, DroppedTold DEF ToldInv
<1>a. ASSUME ToldIn(cache', heard'), ToldIn(file'.cache, heard'), downstream' \subseteq downstream
      PROVE  ToldInv'
    <2>1. CachedAsTold'
        BY <1>a, ToldParts
    <2>2. PacketsWellFormed'
        BY <1>a, <1>0 DEF PacketsWellFormed
    <2> QED BY <2>1, <2>2 DEF ToldInv
<1>b. ASSUME Ends, heard' = heard, downstream' \subseteq downstream,
             \/ file' \in {file, Absent, Empty}
             \/ \E questions : file' = Saved(static, DropExpired(questions))
      PROVE  ToldInv'
    BY <1>a, <1>b, <1>0, SavedTold DEF Ends
<1>1. CASE UNCHANGED <<database, file, heard>> /\ downstream' \subseteq downstream
    BY <1>1, <1>0, <1>a DEF database
<1>2. CASE Tick \/ ClientAsks \/ Lose
    BY <1>1, <1>2 DEF Tick, ClientAsks, Lose, network
<1>3. CASE Crash \/ DieCreating
    BY <1>3, <1>b DEF Crash, DieCreating, DiesSaving, Dies, network
<1>4. CASE Start
    BY <1>4, <1>0, <1>a, SavedTold DEF Start, network
<1>5. ASSUME NEW query \in inbox, TakeExtended(query) PROVE ToldInv'
    BY <1>5, <1>b DEF TakeExtended, network
<1>6. ASSUME NEW query \in inbox, AnswerLocally(query) \/ AskParent(query) PROVE ToldInv'
    <2>1. LooksUp(query) /\ heard' = heard /\ downstream' = downstream
        BY <1>6 DEF AnswerLocally, AskParent, network
    <2> QED BY <2>1, <1>0, <1>a, SavedTold DEF LooksUp
<1>7. ASSUME NEW query \in inbox, NoIdLeft(query) \/ AnswerLocallyRaises(query) PROVE ToldInv'
    BY <1>7, <1>b DEF NoIdLeft, AnswerLocallyRaises, LooksUpAndEnds, network
<1>8. ASSUME NEW query \in inbox, DieDropping(query) PROVE ToldInv'
    BY <1>8, <1>b DEF DieDropping, DiesSaving, Dies, network
<1>9. ASSUME NEW p \in upstream, ParentAnswers(p) PROVE ToldInv'
    <2>1. CachedAsTold'
        <3>1. ToldIn(cache', heard') /\ ToldIn(file'.cache, heard')
            BY <1>9, <1>0 DEF ParentAnswers, database
        <3> QED BY <3>1, ToldParts
    <2>2. PICK records \in Responses[p.questions] : downstream' = downstream \cup
            {[id |-> p.id, for |-> p.for, questions |-> p.questions, records |-> records]}
        BY <1>9 DEF ParentAnswers
    <2> DEFINE sent == [id |-> p.id, for |-> p.for, questions |-> p.questions,
                        records |-> records]
    <2>3. WellFormed(sent)
        <3>1. WellFormed([questions |-> p.questions, records |-> records])
            BY <1>9, <2>2, ResponsesAssumption DEF ParentAnswers
        <3> QED BY <3>1, WellFormedParts
    <2>4. PacketsWellFormed'
        BY <2>2, <2>3, <1>0 DEF PacketsWellFormed
    <2> QED BY <2>1, <2>4 DEF ToldInv
<1>10. ASSUME NEW p \in downstream, ReceiveUnreadable(p) PROVE ToldInv'
    BY <1>10, <1>b DEF ReceiveUnreadable, Receives
<1>11. ASSUME NEW p \in downstream, IgnoreResponse(p) PROVE ToldInv'
    BY <1>11, <1>1 DEF IgnoreResponse, Receives
<1>12. ASSUME NEW p \in downstream, AcceptResponse(p) PROVE ToldInv'
    <2>1. ToldIn(cache', heard') /\ cache' = CacheWith(Read(p))
        BY <1>12, ResponseTold DEF AcceptResponse, Accepted
    <2>2. file'.cache = cache' /\ downstream' \subseteq downstream
        BY <1>12 DEF AcceptResponse, Receives, Saved
    <2> QED BY <2>1, <2>2, <1>a
<1>13. ASSUME NEW p \in downstream, DieCaching(p) \/ AcceptRaises(p) PROVE ToldInv'
    <2>1. ToldIn(CacheWith(Read(p)), heard')
        BY <1>13, ResponseTold DEF DieCaching, AcceptRaises, Accepted
    <2>2. ToldIn(NoCache, heard')
        BY DEF ToldIn, NoCache
    <2>3. downstream' \subseteq downstream /\ cache' = NoCache
        BY <1>13 DEF DieCaching, AcceptRaises, Receives, DiesSaving, Dies, Ends
    <2>4. file' \in {Absent, Empty} \/ file' = Saved(static, CacheWith(Read(p)))
        BY <1>13 DEF DieCaching, AcceptRaises, DiesSaving
    <2> QED BY <2>1, <2>2, <2>3, <2>4, <1>a, SavedTold
<1>14. CASE UNCHANGED vars
    BY <1>14, <1>1 DEF vars, network
<1> QED BY <1>2, <1>3, <1>4, <1>5, <1>6, <1>7, <1>8, <1>9, <1>10, <1>11, <1>12, <1>13, <1>14
        DEF Next

\* At the start nothing is cached and nothing is on the way.
LEMMA InitTold == Init => ToldInv
BY DEF Init, ToldInv, CachedAsTold, PacketsWellFormed, NoCache, Saved, Absent

\* Whatever response is taken for another, and wherever the process dies, the
\* cache in memory and on the disk holds only addresses the parent gave, until
\* the time it gave them for, and under the name it gave them for when the place
\* of the name was one that a single byte can hold (from_bytes,
\* save_cache_into_database, get_database).
THEOREM CachedAsToldAlways == Spec => []CachedAsTold
<1>1. TypeOK /\ ToldInv /\ [Next]_vars => (TypeOK /\ ToldInv)'
    <2>1. StoreOK' /\ LoopOK' => TypeOK'
        BY TypeParts, PTL
    <2> QED BY <2>1, StoreStep, LoopStep, NextTold
<1>2. ToldInv => CachedAsTold
    BY DEF ToldInv
<1> QED BY <1>1, <1>2, InitType, InitTold, PTL DEF Spec

-----------------------------------------------------------------------------
(***************************************************************************)
(* The questions about some of the names: those that are answered from     *)
(* here, and those that are sent on to the parent.                         *)
(***************************************************************************)

\* What is among the first i questions, given what is among those before.
AmongFirst(questions, names, f, i) ==
    IF i = 0 THEN <<>>
    ELSE IF questions[i].name \in names THEN Append(f[i - 1], questions[i])
    ELSE f[i - 1]

\* The recursion of Among has its function.
LEMMA AmongFunction ==
    ASSUME NEW questions, NEW names, NEW n \in Nat
    PROVE  \E f : f = [i \in 0..n |-> AmongFirst(questions, names, f, i)]
<1> DEFINE Of(f, i) == AmongFirst(questions, names, f, i)
           S == {k \in Nat : \E f : f = [i \in 0..k |-> Of(f, i)]}
<1>1. 0 \in S
    <2> DEFINE f == [i \in 0..0 |-> <<>>]
    <2>1. \A i \in 0..0 : Of(f, i) = <<>>
        BY DEF AmongFirst
    <2> HIDE DEF Of
    <2>2. f = [i \in 0..0 |-> Of(f, i)]
        BY <2>1
    <2> QED BY <2>2
<1>2. ASSUME NEW k \in Nat, k \in S PROVE k + 1 \in S
    <2>1. PICK f : f = [i \in 0..k |-> Of(f, i)]
        BY <1>2
    <2> DEFINE g == [i \in 0..k + 1 |-> Of(f, i)]
    <2> HIDE DEF Of
    <2>2. ASSUME NEW i \in 0..k PROVE g[i] = f[i]
        <3>1. f[i] = Of(f, i)
            BY <2>1
        <3> QED BY <3>1
    <2> HIDE DEF g
    <2>3. ASSUME NEW i \in 0..k + 1 PROVE Of(g, i) = Of(f, i)
        <3>1. i = 0 \/ g[i - 1] = f[i - 1]
            BY <2>2
        <3> QED BY <3>1 DEF Of, AmongFirst
    <2>4. g = [i \in 0..k + 1 |-> Of(g, i)]
        BY <2>3 DEF g
    <2> QED BY <2>4
<1>3. S = Nat
    <2> HIDE DEF S
    <2>1. S \in SUBSET Nat
        BY DEF S
    <2> QED BY <1>1, <1>2, <2>1, SetInduction
<1> QED BY <1>3

\* One more question is among them or not.
LEMMA AmongNext ==
    ASSUME NEW questions, NEW names, NEW f, NEW k \in Nat
    PROVE  /\ questions[k + 1].name \in names =>
                AmongFirst(questions, names, f, k + 1) = Append(f[k], questions[k + 1])
           /\ questions[k + 1].name \notin names =>
                AmongFirst(questions, names, f, k + 1) = f[k]
<1>1. k + 1 # 0 /\ k + 1 - 1 = k
    OBVIOUS
<1> QED BY <1>1 DEF AmongFirst

\* They are questions of the query with such a name, all of them only when all
\* have one, and none when none has.
LEMMA AmongQuestions ==
    ASSUME NEW questions \in Seq(Question), NEW names
    PROVE  /\ Among(questions, names) \in Seq(Question)
           /\ QuestionNames(Among(questions, names)) \subseteq QuestionNames(questions) \cap names
           /\ Among(questions, names) = questions =>
                \A i \in DOMAIN questions : questions[i].name \in names
           /\ (\A i \in DOMAIN questions : questions[i].name \notin names) =>
                Among(questions, names) = <<>>
<1> DEFINE n == Len(questions)
           f == CHOOSE f : f = [i \in 0..n |-> AmongFirst(questions, names, f, i)]
           First(k) == {questions[i] : i \in {i \in 1..k : questions[i].name \in names}}
           Right(k) == /\ f[k] \in Seq(First(k)) /\ Len(f[k]) <= k
                       /\ Len(f[k]) = k => \A i \in 1..k : questions[i].name \in names
                       /\ (\A i \in 1..k : questions[i].name \notin names) => f[k] = <<>>
           S == {k \in Nat : k <= n => Right(k)}
<1>1. n \in Nat /\ DOMAIN questions = 1..n /\ \A i \in 1..n : questions[i] \in Question
    BY LenProperties, ElementOfSeq
<1>2. Among(questions, names) = f[n]
    BY DEF Among, AmongFirst
<1>3. \A i \in 0..n : f[i] = AmongFirst(questions, names, f, i)
    <2>1. f = [i \in 0..n |-> AmongFirst(questions, names, f, i)]
        BY <1>1, AmongFunction
    <2> HIDE DEF f
    <2> QED BY <2>1
<1> HIDE DEF n, f
<1>4. 0 \in S
    <2>1. f[0] = <<>>
        BY <1>1, <1>3 DEF AmongFirst
    <2>2. <<>> \in Seq(First(0)) /\ Len(<<>>) = 0
        BY EmptySeq, Zenon
    <2>3. f[0] \in Seq(First(0)) /\ Len(f[0]) = 0
        BY <2>1, <2>2, Zenon
    <2> HIDE DEF First
    <2>4. \A i \in 1..0 : questions[i].name \in names
        OBVIOUS
    <2>5. Len(f[0]) <= 0
        BY <2>3
    <2>6. Right(0)
        BY <2>1, <2>3, <2>4, <2>5, Zenon
    <2> HIDE DEF Right
    <2> QED BY <2>6
<1>5. ASSUME NEW k \in Nat, k \in S PROVE k + 1 \in S
    <2> SUFFICES ASSUME k + 1 <= n PROVE Right(k + 1)
        OBVIOUS
    <2>1. Right(k) /\ f[k + 1] = AmongFirst(questions, names, f, k + 1)
        BY <1>1, <1>3, <1>5
    <2>a. /\ questions[k + 1].name \in names => f[k + 1] = Append(f[k], questions[k + 1])
          /\ questions[k + 1].name \notin names => f[k + 1] = f[k]
        <3>1. f[k + 1] = AmongFirst(questions, names, f, k + 1)
            BY <2>1
        <3> HIDE DEF Right, First
        <3> QED BY <3>1, AmongNext
    <2>2. First(k) \subseteq First(k + 1)
        OBVIOUS
    <2>3. f[k] \in Seq(First(k + 1)) /\ Len(f[k]) \in Nat
        BY <2>1, <2>2, SeqMonotonic, LenProperties
    <2>4. CASE questions[k + 1].name \notin names
        <3>1. f[k + 1] = f[k]
            BY <2>4, <2>a
        <3>2. \A i \in 1..k : i \in 1..k + 1
            OBVIOUS
        <3> HIDE DEF First
        <3> QED BY <2>1, <2>3, <3>1, <3>2
    <2>5. CASE questions[k + 1].name \in names
        <3>1. f[k + 1] = Append(f[k], questions[k + 1])
            BY <2>5, <2>a
        <3>2. f[k + 1] \in Seq(First(k + 1)) /\ Len(f[k + 1]) = Len(f[k]) + 1
            <4>1. questions[k + 1] \in First(k + 1)
                BY <2>5
            <4> HIDE DEF First
            <4>2. /\ Append(f[k], questions[k + 1]) \in Seq(First(k + 1))
                  /\ Len(Append(f[k], questions[k + 1])) = Len(f[k]) + 1
                BY <2>3, <4>1, AppendProperties
            <4> QED BY <3>1, <4>2, Zenon
        <3>3. \A i \in 1..k + 1 : i \in 1..k \/ i = k + 1
            OBVIOUS
        <3> HIDE DEF First
        <3>4. Len(f[k + 1]) <= k + 1 /\ (Len(f[k + 1]) = k + 1 => Len(f[k]) = k)
            BY <2>1, <2>3, <3>2
        <3>5. k + 1 \in 1..k + 1
            OBVIOUS
        <3> QED BY <2>1, <2>5, <3>2, <3>3, <3>4, <3>5
    <2> QED BY <2>4, <2>5
<1>6. Right(n)
    <2>1. S \in SUBSET Nat
        OBVIOUS
    <2> HIDE DEF S
    <2>2. S = Nat
        BY <1>4, <1>5, <2>1, SetInduction
    <2>3. n \in S /\ n <= n
        BY <1>1, <2>2
    <2> HIDE DEF Right
    <2> QED BY <2>3 DEF S
<1>7. f[n] \in Seq(First(n)) /\ \A j \in DOMAIN f[n] : f[n][j] \in First(n)
    <2>1. f[n] \in Seq(First(n))
        BY <1>6
    <2> HIDE DEF First
    <2> QED BY <2>1, LenProperties, ElementOfSeq
<1>8. QuestionNames(f[n]) \subseteq QuestionNames(questions) \cap names
    BY <1>1, <1>7 DEF QuestionNames
<1>9. f[n] \in Seq(Question)
    <2>1. First(n) \subseteq Question
        BY <1>1
    <2> HIDE DEF First
    <2> QED BY <1>7, <2>1, SeqMonotonic
<1> QED BY <1>1, <1>2, <1>6, <1>8, <1>9 DEF n

-----------------------------------------------------------------------------
(***************************************************************************)
(* The records of an answer: those that are read of the packet and those   *)
(* that were found here.                                                   *)
(***************************************************************************)

\* The names of the questions and of the aliases before j are known.
LEMMA KnownNames ==
    ASSUME NEW p, Sent(p), NEW j \in DOMAIN p.records, NEW n \in NamesOf(p, j)
    PROVE  /\ n \in KnownBefore(p, Len(p.records) + 1)
           /\ Readable(p) => n \in Names
<1>1. n \in KnownBefore(p, j)
    BY DEF NamesOf
<1>2. 1..(j - 1) \subseteq 1..(Len(p.records) + 1 - 1) /\ 1..(j - 1) \subseteq DOMAIN p.records
    BY SentIsMeasured
<1>3. n \in KnownBefore(p, Len(p.records) + 1)
    BY <1>1, <1>2 DEF KnownBefore
<1>4. CASE n \in QuestionNames(p.questions)
    <2>1. n \in Names
        BY <1>4, SentIsMeasured DEF QuestionNames, Question
    <2> QED BY <1>3, <2>1
<1>5. CASE n \notin QuestionNames(p.questions)
    <2>1. PICK k \in 1..(j - 1) :
            p.records[k].type = "CNAME" /\ CutName[p.records[k].owner] = n
        BY <1>1, <1>5 DEF KnownBefore
    <2>2. k \in DOMAIN p.records /\ p.records[k].owner \in Names
        <3>1. k \in DOMAIN p.records
            BY <1>2
        <3> QED BY <3>1, SentIsMeasured DEF SentRecord
    <2>3. Readable(p) => n # NoName
        BY <2>1, <2>2 DEF Readable
    <2> QED BY <1>3, <2>1, <2>2, <2>3, NamesAssumption
<1> QED BY <1>4, <1>5

\* What is read of a packet are records.
LEMMA ReadIsRecords ==
    ASSUME NEW p, Sent(p), Readable(p)
    PROVE  Read(p) \in Seq(Record) /\ Len(Read(p)) = Len(p.records)
<1>1. ASSUME NEW j \in DOMAIN p.records PROVE Read(p)[j] \in Record
    <2> DEFINE n == CHOOSE n \in NamesOf(p, j) : TRUE
    <2>1. n \in NamesOf(p, j) /\ Read(p)[j] = Named(n, p.records[j])
        BY DEF Readable, Read
    <2> HIDE DEF n
    <2>2. n \in Names /\ p.records[j] \in SentRecord
        BY <2>1, KnownNames, SentIsMeasured
    <2> QED BY <2>1, <2>2 DEF SentRecord, Record, Named
<1>2. /\ DOMAIN p.records = 1..Len(p.records) /\ Len(p.records) \in Nat
      /\ Read(p) = [j \in DOMAIN p.records |-> Read(p)[j]]
    BY SentIsMeasured DEF Read
<1>3. Read(p) \in [1..Len(p.records) -> Record]
    BY <1>1, <1>2
<1>4. Read(p) \in Seq(Record)
    BY <1>2, <1>3, SeqDef
<1> QED BY <1>2, <1>3, <1>4, LenProperties

\* The records with those found here are the ones and the others, and nothing
\* of the ones is left out.
LEMMA WithLocalsRecords ==
    ASSUME NEW records \in Seq(Record), NEW locals \in Seq(Record)
    PROVE  /\ WithLocals(records, locals) \in Seq(Record)
           /\ \A j \in DOMAIN WithLocals(records, locals) :
                \/ \E k \in DOMAIN records : WithLocals(records, locals)[j] = records[k]
                \/ \E i \in DOMAIN locals : WithLocals(records, locals)[j] = locals[i]
           /\ \A k \in DOMAIN records :
                \E j \in DOMAIN WithLocals(records, locals) :
                    WithLocals(records, locals)[j] = records[k]
           /\ locals = <<>> => WithLocals(records, locals) = records
<1> DEFINE n == Len(records)
           l == Len(locals)
           before == {0} \cup {j \in DOMAIN records : records[j].section = ANSWERS}
           m == Max(before)
           front == SubSeq(records, 1, m)
           back == SubSeq(records, m + 1, n)
           w == WithLocals(records, locals)
<1>1. /\ n \in Nat /\ DOMAIN records = 1..n /\ \A k \in 1..n : records[k] \in Record
      /\ l \in Nat /\ DOMAIN locals = 1..l /\ \A i \in 1..l : locals[i] \in Record
    BY LenProperties, ElementOfSeq
<1>2. m \in 0..n
    <2>1. before \subseteq 0..n /\ before # {}
        BY <1>1
    <2> HIDE DEF before, n
    <2>2. m \in before
        BY <1>1, <2>1, MaxIsThere
    <2> QED BY <2>1, <2>2
<1>3. w = (front \o locals) \o back
    BY DEF WithLocals
<1> HIDE DEF n, l, m, w
<1>4. front \in Seq(Record) /\ Len(front) = m /\ \A i \in 1..m : front[i] = records[i]
    <2>1. /\ front \in Seq(Record) /\ Len(front) = IF 1 <= m THEN m - 1 + 1 ELSE 0
          /\ \A i \in 1..m - 1 + 1 : front[i] = records[1 + i - 1]
        <3>1. 1 \in Int /\ m \in Int /\ \A i \in 1..m : records[i] \in Record
            BY <1>1, <1>2
        <3> HIDE DEF front
        <3> QED BY <3>1, SubSeqProperties DEF front
    <2> HIDE DEF front
    <2>2. Len(front) = m
        BY <1>2, <2>1
    <2>3. \A i \in 1..m : i \in 1..m - 1 + 1 /\ 1 + i - 1 = i
        BY <1>2
    <2> QED BY <2>1, <2>2, <2>3
<1>5. back \in Seq(Record) /\ Len(back) = n - m /\ \A i \in 1..(n - m) : back[i] = records[m + i]
    <2>1. /\ back \in Seq(Record) /\ Len(back) = IF m + 1 <= n THEN n - (m + 1) + 1 ELSE 0
          /\ \A i \in 1..n - (m + 1) + 1 : back[i] = records[m + 1 + i - 1]
        <3>1. m + 1 \in Int /\ n \in Int /\ \A i \in m + 1..n : records[i] \in Record
            BY <1>1, <1>2
        <3> QED BY <3>1, SubSeqProperties
    <2> HIDE DEF back
    <2>2. Len(back) = n - m
        BY <1>1, <1>2, <2>1
    <2>3. \A i \in 1..(n - m) : i \in 1..n - (m + 1) + 1 /\ m + 1 + i - 1 = m + i
        BY <1>1, <1>2
    <2> QED BY <2>1, <2>2, <2>3
<1> HIDE DEF front, back
<1>6. /\ front \o locals \in Seq(Record) /\ Len(front \o locals) = m + l
      /\ \A i \in 1..m + l : (front \o locals)[i] = IF i <= m THEN records[i] ELSE locals[i - m]
    <2>1. /\ front \o locals \in Seq(Record) /\ Len(front \o locals) = Len(front) + Len(locals)
          /\ \A i \in 1..Len(front) + Len(locals) :
                (front \o locals)[i] = IF i <= Len(front) THEN front[i] ELSE locals[i - Len(front)]
        BY <1>4, ConcatProperties
    <2>2. \A i \in 1..m + l : (front \o locals)[i] = IF i <= m THEN front[i] ELSE locals[i - m]
        BY <1>4, <2>1 DEF l
    <2>3. \A i \in 1..m + l : i <= m => front[i] = records[i]
        BY <1>1, <1>2, <1>4
    <2> QED BY <1>4, <2>1, <2>2, <2>3 DEF l
<1>7. /\ w \in Seq(Record) /\ Len(w) = m + l + (n - m)
      /\ \A j \in 1..m + l + (n - m) : w[j] =
            IF j <= m + l THEN (front \o locals)[j] ELSE back[j - (m + l)]
    <2> DEFINE x == front \o locals
    <2>1. x \in Seq(Record) /\ Len(x) = m + l
        BY <1>6
    <2> HIDE DEF x
    <2>2. /\ x \o back \in Seq(Record) /\ Len(x \o back) = Len(x) + Len(back)
          /\ \A j \in 1..Len(x) + Len(back) :
                (x \o back)[j] = IF j <= Len(x) THEN x[j] ELSE back[j - Len(x)]
        BY <1>5, <2>1, ConcatProperties
    <2>3. w = x \o back
        BY <1>3 DEF x
    <2> QED BY <1>5, <2>1, <2>2, <2>3 DEF x
<1>8. Len(w) = n + l /\ DOMAIN w = 1..n + l
    <2>1. Len(w) = n + l
        BY <1>1, <1>2, <1>7
    <2> QED BY <1>7, <2>1, LenProperties
<1>9. ASSUME NEW j \in 1..n + l
      PROVE  \/ j <= m /\ w[j] = records[j]
             \/ ~(j <= m) /\ j <= m + l /\ w[j] = locals[j - m]
             \/ ~(j <= m + l) /\ w[j] = records[j - l]
    <2>1. j \in 1..m + l + (n - m)
        BY <1>1, <1>2
    <2>2. CASE j <= m + l
        <3>1. j \in 1..m + l
            BY <1>1, <1>2, <2>2
        <3>2. w[j] = (front \o locals)[j]
            BY <1>7, <2>1, <2>2
        <3> QED BY <1>6, <2>2, <3>1, <3>2
    <2>3. CASE ~(j <= m + l)
        <3>1. w[j] = back[j - (m + l)] /\ j - (m + l) \in 1..(n - m) /\ m + (j - (m + l)) = j - l
            BY <1>1, <1>2, <1>7, <2>1, <2>3
        <3> QED BY <1>5, <2>3, <3>1
    <2> QED BY <2>2, <2>3
<1>10. ASSUME NEW j \in DOMAIN w
       PROVE  \/ \E k \in DOMAIN records : w[j] = records[k]
              \/ \E i \in DOMAIN locals : w[j] = locals[i]
    <2>1. /\ j \in 1..n + l
          /\ j <= m => j \in 1..n
          /\ ~(j <= m) /\ j <= m + l => j - m \in 1..l
          /\ ~(j <= m + l) => j - l \in 1..n
        BY <1>1, <1>2, <1>8
    <2> QED BY <1>1, <1>9, <2>1
<1>11. ASSUME NEW k \in DOMAIN records PROVE \E j \in DOMAIN w : w[j] = records[k]
    <2>1. CASE k <= m
        <3>1. k \in 1..n + l /\ k <= m + l
            BY <1>1, <1>2, <2>1
        <3>2. w[k] = records[k]
            BY <1>9, <2>1, <3>1
        <3> QED BY <1>8, <3>1, <3>2
    <2>2. CASE ~(k <= m)
        <3> DEFINE j == k + l
        <3>1. j \in 1..n + l /\ ~(j <= m + l) /\ ~(j <= m) /\ j - l = k
            BY <1>1, <1>2, <2>2
        <3> HIDE DEF j
        <3>2. w[j] = records[j - l]
            BY <1>9, <3>1
        <3>3. w[j] = records[k]
            BY <3>1, <3>2
        <3> QED BY <1>8, <3>1, <3>3
    <2> QED BY <2>1, <2>2
<1>12. ASSUME locals = <<>> PROVE w = records
    <2>1. l = 0
        BY <1>12, EmptySeq DEF l
    <2>2. ASSUME NEW j \in 1..n PROVE w[j] = records[j]
        <3>1. j \in 1..n + l /\ (~(j <= m) => ~(j <= m + l)) /\ j - l = j
            BY <1>1, <1>2, <2>1
        <3> QED BY <1>9, <3>1
    <2>3. Len(w) = Len(records) /\ Len(w) = n
        BY <1>1, <1>8, <2>1 DEF n
    <2> QED BY <1>7, <2>2, <2>3, SeqEqual
<1> QED BY <1>7, <1>10, <1>11, <1>12 DEF w

-----------------------------------------------------------------------------
(***************************************************************************)
(* The time to live of what is answered.  The inductive invariant adds     *)
(* where the static records come from, and that the local answers that     *)
(* wait for those of the parent were right when the query arrived.         *)
(***************************************************************************)
Operators == Static \cup DefaultStatic

\* The record r of a name and an address may be given out at the time t.
Covered(r, t, h) ==
    \E x \in h : x.type = "A" /\ x.owner = r.owner /\ t + r.ttl <= x.until

StaticKnown == static \subseteq Operators /\ file.static \subseteq Operators

LocalsCovered ==
    mode = "waiting" =>
        /\ current.since \in Nat /\ current.since <= now
        /\ current.locals \in Seq(Record)
        /\ \A i \in DOMAIN current.locals :
                \/ current.locals[i].owner \in Operators
                \/ Covered(current.locals[i], current.since, heard)
        /\ Len(current.query.questions) = 1 => current.locals = <<>>

\* The answer a of a set of answers is as WithinTimeToLive says.
AnswerCovered(a, h) ==
    \A r \in Range(a.packet.records) :
        r.type = "A" /\ r.owner \notin Operators =>
            Covered(r, IF Len(a.packet.questions) = 1 THEN a.sent ELSE a.since, h)

\* WithinTimeToLive in these words.
LEMMA WithinParts ==
    /\ WithinTimeToLive <=> \A a \in answered : AnswerCovered(a, heard)
    /\ WithinTimeToLive' <=> \A a \in answered' : AnswerCovered(a, heard')
BY DEF WithinTimeToLive, AnswerCovered, Covered, Operators

\* The record that is found for a name holds no longer than the cached one.
LEMMA ActiveRecordCovered ==
    ASSUME TypeOK, CachedAsTold, StaticKnown, NEW n \in Names, IsLocal(n)
    PROVE  /\ ActiveRecord(n) \in Record
           /\ ActiveRecord(n).name = n /\ ActiveRecord(n).type = "A"
           /\ ActiveRecord(n).owner \in Operators \/ Covered(ActiveRecord(n), now, heard)
<1>0. now \in Nat /\ StaticTtl \in Nat /\ cache[n] \in CacheRecord \cup {NoRecord}
    BY BoundsAssumption DEF TypeOK
<1>1. ASSUME NEW owner \in Names, NEW ttl \in Nat
      PROVE  /\ Address(n, owner, ttl) \in Record
             /\ Address(n, owner, ttl).name = n /\ Address(n, owner, ttl).type = "A"
             /\ Address(n, owner, ttl).owner = owner /\ Address(n, owner, ttl).ttl = ttl
    BY DEF Address, Record, Types, ANSWERS, ADDITIONAL
<1>2. CASE n \in static
    <2>1. ActiveRecord(n) = Address(n, n, StaticTtl) /\ n \in Operators
        BY <1>2 DEF ActiveRecord, StaticKnown
    <2> QED BY <1>0, <1>1, <2>1
<1>3. CASE n \notin static
    <2>1. /\ cache[n] \in CacheRecord /\ cache[n] # NoRecord /\ ~(cache[n].expired < now)
        BY <1>0, <1>3 DEF IsLocal, Expired
    <2>2. /\ cache[n].owner \in Names /\ cache[n].expired \in Nat
          /\ cache[n].expired - now \in Nat
          /\ now + (cache[n].expired - now) <= cache[n].expired
        BY <2>1, <1>0 DEF CacheRecord
    <2>3. ActiveRecord(n) = Address(n, cache[n].owner, cache[n].expired - now)
        BY <1>3 DEF ActiveRecord
    <2>4. \E x \in heard :
            x.type = "A" /\ x.owner = cache[n].owner /\ x.until = cache[n].expired
        BY <2>1 DEF CachedAsTold
    <2>5. /\ ActiveRecord(n) \in Record
          /\ ActiveRecord(n).name = n /\ ActiveRecord(n).type = "A"
          /\ ActiveRecord(n).owner = cache[n].owner
          /\ ActiveRecord(n).ttl = cache[n].expired - now
        BY <1>1, <2>2, <2>3
    <2>6. Covered(ActiveRecord(n), now, heard)
        BY <2>2, <2>4, <2>5 DEF Covered
    <2> QED BY <2>5, <2>6
<1> QED BY <1>2, <1>3

\* The local answers to a query are under names of its questions.  When all or
\* the only one of them are for the parent, there are none.
LEMMA LocalsFound ==
    ASSUME TypeOK, CachedAsTold, StaticKnown, NEW questions \in Seq(Question)
    PROVE  /\ Locals(questions) \in Seq(Record)
           /\ \A i \in DOMAIN Locals(questions) : \E n \in QuestionNames(questions) :
                n \in Names /\ IsLocal(n) /\ Locals(questions)[i] = ActiveRecord(n)
           /\ Missing(questions) = questions => Locals(questions) = <<>>
           /\ Len(questions) = 1 /\ ~AllLocal(questions) => Locals(questions) = <<>>
           /\ QuestionNames(Missing(questions)) \subseteq QuestionNames(questions)
<1> DEFINE here == {n \in Names : IsLocal(n)}
           there == {n \in Names : ~IsLocal(n)}
           found == Among(questions, here)
           locals == Locals(questions)
<1>1. /\ Len(questions) \in Nat /\ DOMAIN questions = 1..Len(questions)
      /\ \A i \in DOMAIN questions : questions[i].name \in Names
    <2>1. Len(questions) \in Nat /\ DOMAIN questions = 1..Len(questions)
        BY LenProperties
    <2>2. \A i \in DOMAIN questions : questions[i] \in Question
        BY <2>1, ElementOfSeq
    <2> QED BY <2>1, <2>2 DEF Question
<1>2. found \in Seq(Question) /\ QuestionNames(found) \subseteq QuestionNames(questions) \cap here
    BY AmongQuestions
<1>3. Missing(questions) = Among(questions, there)
    BY DEF Missing
<1>4. locals = [i \in DOMAIN found |-> ActiveRecord(found[i].name)]
    BY DEF Locals
<1> HIDE DEF found, locals
<1>5. ASSUME NEW i \in DOMAIN found
      PROVE  /\ found[i].name \in QuestionNames(questions)
             /\ found[i].name \in Names /\ IsLocal(found[i].name)
             /\ locals[i] = ActiveRecord(found[i].name) /\ locals[i] \in Record
    <2>1. found[i].name \in QuestionNames(found)
        BY DEF QuestionNames
    <2>2. found[i].name \in QuestionNames(questions) \cap here
        BY <1>2, <2>1
    <2> QED BY <1>4, <2>2, ActiveRecordCovered
<1>6. locals \in Seq(Record) /\ Len(locals) = Len(found) /\ DOMAIN locals = DOMAIN found
    <2>1. Len(found) \in Nat /\ DOMAIN found = 1..Len(found)
        BY <1>2, LenProperties
    <2>2. locals \in [1..Len(found) -> Record]
        BY <1>4, <1>5, <2>1
    <2>3. locals \in Seq(Record)
        BY <2>1, <2>2, SeqDef
    <2> QED BY <1>4, <2>1, <2>2, <2>3, LenProperties
<1>7. ASSUME \A i \in DOMAIN questions : ~IsLocal(questions[i].name)
      PROVE  locals = <<>>
    <2>1. \A i \in DOMAIN questions : questions[i].name \notin here
        BY <1>7
    <2>2. found = <<>>
        BY <2>1, AmongQuestions DEF found
    <2>3. Len(locals) = 0
        BY <1>6, <2>2, EmptySeq
    <2> QED BY <1>6, <2>3, EmptySeq
<1>8. ASSUME Missing(questions) = questions PROVE locals = <<>>
    <2>1. \A i \in DOMAIN questions : questions[i].name \in there
        BY <1>3, <1>8, AmongQuestions
    <2> QED BY <1>7, <2>1
<1>9. ASSUME Len(questions) = 1, ~AllLocal(questions) PROVE locals = <<>>
    <2>1. Missing(questions) # <<>>
        BY <1>9 DEF AllLocal
    <2>2. ~ \A i \in DOMAIN questions : questions[i].name \notin there
        BY <1>3, <2>1, AmongQuestions
    <2>3. \A i \in DOMAIN questions : ~IsLocal(questions[i].name)
        BY <1>1, <1>9, <2>2
    <2> QED BY <1>7, <2>3
<1>10. QuestionNames(Missing(questions)) \subseteq QuestionNames(questions)
    BY <1>3, AmongQuestions
<1> QED BY <1>5, <1>6, <1>8, <1>9, <1>10 DEF locals

\* A record of the packet that is sent is one of the records it is made of.
LEMMA WrittenRecord ==
    ASSUME NEW packet, NEW w, NEW sent, sent = Written(packet, w)
    PROVE  /\ sent.questions = w.questions /\ DOMAIN sent.records = DOMAIN w.records
           /\ \A j \in DOMAIN w.records :
                /\ sent.records[j].type = w.records[j].type
                /\ sent.records[j].owner = w.records[j].owner
                /\ sent.records[j].ttl = w.records[j].ttl
                /\ sent.records[j].size = w.records[j].size
                /\ sent.records[j].at = WrittenOffset(packet, w, j, w.records[j].name)
<1>1. /\ sent.questions = w.questions /\ DOMAIN sent.records = DOMAIN w.records
      /\ \A j \in DOMAIN w.records : sent.records[j] =
            Pointing(WrittenOffset(packet, w, j, w.records[j].name), w.records[j])
    BY DEF Written
<1>2. ASSUME NEW at, NEW r
      PROVE  /\ Pointing(at, r).type = r.type /\ Pointing(at, r).owner = r.owner
             /\ Pointing(at, r).ttl = r.ttl /\ Pointing(at, r).size = r.size
             /\ Pointing(at, r).at = at
    BY DEF Pointing
<1> QED BY <1>1, <1>2

\* An answer made of the records of a packet of the parent that has just come,
\* and of records that were found when the query came, is as it should be: at
\* its own time when nothing was found, or when the two times are the same.
LEMMA AnswerIsCovered ==
    ASSUME now \in Nat, NEW since \in Nat, since <= now, NEW h,
           NEW packet, Sent(packet), Readable(packet),
           \A j \in DOMAIN packet.records : packet.records[j].type = "A" =>
                \E x \in h : /\ x.type = "A" /\ x.owner = packet.records[j].owner
                             /\ x.until = now + packet.records[j].ttl,
           NEW locals \in Seq(Record),
           \A i \in DOMAIN locals :
                locals[i].owner \in Operators \/ Covered(locals[i], since, h),
           NEW questions,
           since = now \/ (Len(questions) = 1 => locals = <<>>),
           NEW a,
           a.packet = Written(packet, [questions |-> questions,
                                       records |-> WithLocals(Read(packet), locals)]),
           a.sent = now, a.since = since
    PROVE  AnswerCovered(a, h)
<1> DEFINE records == WithLocals(Read(packet), locals)
           w == [questions |-> questions, records |-> records]
           time == IF Len(questions) = 1 THEN now ELSE since
<1>1. /\ \A j \in DOMAIN records :
            \/ \E k \in DOMAIN Read(packet) : records[j] = Read(packet)[k]
            \/ \E i \in DOMAIN locals : records[j] = locals[i]
      /\ Read(packet) \in Seq(Record)
    <2>1. Read(packet) \in Seq(Record)
        BY ReadIsRecords
    <2> QED BY <2>1, WithLocalsRecords
<1>2. /\ a.packet.questions = questions /\ DOMAIN a.packet.records = DOMAIN records
      /\ \A j \in DOMAIN records :
            /\ a.packet.records[j].type = records[j].type
            /\ a.packet.records[j].owner = records[j].owner
            /\ a.packet.records[j].ttl = records[j].ttl
    <2>1. w.questions = questions /\ w.records = records /\ a.packet = Written(packet, w)
        OBVIOUS
    <2> HIDE DEF w, records
    <2> QED BY <2>1, WrittenRecord
<1> HIDE DEF records
<1> SUFFICES ASSUME NEW r \in Range(a.packet.records), r.type = "A", r.owner \notin Operators
             PROVE  Covered(r, time, h)
    BY <1>2 DEF AnswerCovered
<1>3. PICK j \in DOMAIN records :
            r.type = records[j].type /\ r.owner = records[j].owner /\ r.ttl = records[j].ttl
    BY <1>2 DEF Range
<1>4. CASE \E k \in DOMAIN Read(packet) : records[j] = Read(packet)[k]
    <2>1. PICK k \in DOMAIN packet.records :
            /\ r.type = packet.records[k].type /\ r.owner = packet.records[k].owner
            /\ r.ttl = packet.records[k].ttl
        <3>1. PICK k \in DOMAIN Read(packet) : records[j] = Read(packet)[k]
            BY <1>4
        <3>2. /\ k \in DOMAIN packet.records /\ Read(packet)[k].type = packet.records[k].type
              /\ Read(packet)[k].owner = packet.records[k].owner
              /\ Read(packet)[k].ttl = packet.records[k].ttl
            BY ReadFields
        <3> QED BY <1>3, <3>1, <3>2
    <2>2. r.ttl \in Nat
        BY <2>1, SentIsMeasured DEF SentRecord
    <2>3. PICK x \in h : x.type = "A" /\ x.owner = r.owner /\ x.until = now + r.ttl
        BY <2>1
    <2>4. time + r.ttl <= x.until
        BY <2>2, <2>3
    <2> QED BY <2>3, <2>4 DEF Covered
<1>5. CASE \E i \in DOMAIN locals : records[j] = locals[i]
    <2>1. PICK i \in DOMAIN locals : records[j] = locals[i]
        BY <1>5
    <2>2. locals # <<>>
        BY <2>1
    <2>3. time = since
        BY <2>2
    <2> QED BY <1>3, <2>1, <2>3 DEF Covered
<1> QED BY <1>1, <1>3, <1>4, <1>5

WithinInv == StaticKnown /\ LocalsCovered /\ WithinTimeToLive

\* What is covered stays covered when more is heard.
LEMMA CoveredStays ==
    ASSUME NEW h, NEW k, h \subseteq k
    PROVE  /\ \A r, t : Covered(r, t, h) => Covered(r, t, k)
           /\ \A a : AnswerCovered(a, h) => AnswerCovered(a, k)
BY DEF Covered, AnswerCovered

\* Static records come from the operator's file or from Database().
LEMMA StaticStep == StaticKnown /\ [Next]_vars => StaticKnown'
<1> SUFFICES ASSUME StaticKnown, [Next]_vars PROVE StaticKnown'
    OBVIOUS
<1> USE DEF StaticKnown
<1>0. /\ Absent.static = {} /\ Empty.static = {}
      /\ \A s, c : Saved(s, c).static = s
    BY DEF Absent, Empty, Saved
<1>1. CASE UNCHANGED <<static, file>>
    BY <1>1
<1>2. CASE Tick \/ ClientAsks \/ Lose \/ (\E p \in upstream : ParentAnswers(p))
            \/ (\E p \in downstream : IgnoreResponse(p)) \/ UNCHANGED vars
    BY <1>1, <1>2 DEF Tick, ClientAsks, Lose, ParentAnswers, IgnoreResponse, vars, database
<1>3. CASE Crash \/ DieCreating
    BY <1>3, <1>0 DEF Crash, DieCreating, DiesSaving, Dies, Ends
<1>4. CASE Start
    BY <1>4, <1>0 DEF Start, Operators
<1>5. ASSUME NEW query \in inbox,
             \/ TakeExtended(query) \/ AnswerLocally(query) \/ AskParent(query)
             \/ NoIdLeft(query) \/ AnswerLocallyRaises(query) \/ DieDropping(query)
      PROVE  StaticKnown'
    BY <1>5, <1>0 DEF TakeExtended, AnswerLocally, AskParent, NoIdLeft, AnswerLocallyRaises,
                      DieDropping, LooksUp, LooksUpAndEnds, DiesSaving, Dies, Ends
<1>6. ASSUME NEW p \in downstream,
             \/ ReceiveUnreadable(p) \/ AcceptResponse(p)
             \/ AcceptRaises(p) \/ DieCaching(p)
      PROVE  StaticKnown'
    BY <1>6, <1>0 DEF ReceiveUnreadable, AcceptResponse, AcceptRaises, DieCaching,
                      DiesSaving, Dies, Ends
<1> QED BY <1>2, <1>3, <1>4, <1>5, <1>6 DEF Next

\* While the server waits its local answers stay as they are, and so does what
\* was heard of them.
LEMMA LocalsStep ==
    TypeOK /\ CachedAsTold /\ StaticKnown /\ LocalsCovered /\ [Next]_vars => LocalsCovered'
<1> SUFFICES ASSUME TypeOK, CachedAsTold, StaticKnown, LocalsCovered, [Next]_vars
             PROVE  LocalsCovered'
    OBVIOUS
<1>1. CASE mode' # "waiting"
    BY <1>1 DEF LocalsCovered
<1>2. ASSUME UNCHANGED <<mode, current>>, heard' = heard, now' \in {now, now + 1}
      PROVE  LocalsCovered'
    <2>1. now \in Nat
        BY BoundsAssumption DEF TypeOK
    <2>2. mode = "waiting" /\ current.since \in Nat /\ current.since <= now => current.since <= now'
        BY <2>1, <1>2
    <2> QED BY <1>2, <2>2 DEF LocalsCovered
<1>3. CASE Tick \/ ClientAsks \/ Lose \/ (\E p \in upstream : ParentAnswers(p))
            \/ (\E p \in downstream : IgnoreResponse(p)) \/ UNCHANGED vars
    BY <1>2, <1>3 DEF Tick, ClientAsks, Lose, ParentAnswers, IgnoreResponse, vars, bounded
<1>4. CASE Crash \/ Start \/ DieCreating
    BY <1>1, <1>4 DEF Crash, DieCreating, DiesSaving, Dies, Ends, Start
<1>5. ASSUME NEW query \in inbox,
             \/ TakeExtended(query) \/ AnswerLocally(query) \/ AnswerLocallyRaises(query)
             \/ NoIdLeft(query) \/ DieDropping(query)
      PROVE  LocalsCovered'
    BY <1>1, <1>5 DEF TakeExtended, AnswerLocally, AnswerLocallyRaises, LooksUpAndEnds, NoIdLeft,
                      DieDropping, Takes, Gets, DiesSaving, Dies, Ends
<1>6. ASSUME NEW query \in inbox, AskParent(query) PROVE LocalsCovered'
    <2>1. query.questions \in Seq(Question) /\ now \in Nat
        BY BoundsAssumption DEF TypeOK, Query
    <2>2. /\ current'.query = query /\ current'.locals = Locals(query.questions)
          /\ current'.since = now
        BY <1>6 DEF AskParent
    <2>3. ~AllLocal(query.questions) /\ now' = now /\ heard' = heard
        BY <1>6 DEF AskParent, bounded
    <2>4. /\ Locals(query.questions) \in Seq(Record)
          /\ \A i \in DOMAIN Locals(query.questions) :
                \/ Locals(query.questions)[i].owner \in Operators
                \/ Covered(Locals(query.questions)[i], now, heard)
          /\ Len(query.questions) = 1 => Locals(query.questions) = <<>>
        BY <2>1, <2>3, LocalsFound, ActiveRecordCovered
    <2> QED BY <2>1, <2>2, <2>3, <2>4 DEF LocalsCovered
<1>7. ASSUME NEW p \in downstream,
             \/ ReceiveUnreadable(p) \/ AcceptResponse(p)
             \/ AcceptRaises(p) \/ DieCaching(p)
      PROVE  LocalsCovered'
    BY <1>1, <1>7 DEF ReceiveUnreadable, AcceptResponse, AcceptRaises, DieCaching,
                      DiesSaving, Dies, Ends
<1> QED BY <1>3, <1>4, <1>5, <1>6, <1>7 DEF Next

\* A new packet has no questions and no records.
LEMMA NewPacketIsSent ==
    /\ Sent(NewPacket) /\ Readable(NewPacket) /\ WellFormed(NewPacket)
    /\ NewPacket.questions = <<>> /\ \A j \in DOMAIN NewPacket.records : FALSE
<1>1. NewPacket.questions = <<>> /\ NewPacket.records = <<>>
    BY DEF NewPacket
<1>2. Sent(NewPacket)
    BY <1>1, EmptySeq DEF Sent
<1>3. \A j \in DOMAIN NewPacket.records : FALSE
    BY <1>1
<1> QED BY <1>1, <1>2, <1>3 DEF Readable, WellFormed

\* Every answer that is sent is within the time of its records.
LEMMA WithinStep ==
    /\ TypeOK /\ CachedAsTold /\ StaticKnown /\ LocalsCovered /\ WithinTimeToLive
    /\ [Next]_vars
    => WithinTimeToLive'
<1> SUFFICES ASSUME TypeOK, CachedAsTold, StaticKnown, LocalsCovered, WithinTimeToLive,
                    [Next]_vars
             PROVE  WithinTimeToLive'
    OBVIOUS
<1>0. now \in Nat /\ \A a \in answered : AnswerCovered(a, heard)
    BY BoundsAssumption, WithinParts DEF TypeOK
<1>1. ASSUME heard \subseteq heard', \A a \in answered' \ answered : AnswerCovered(a, heard')
      PROVE  WithinTimeToLive'
    BY <1>0, <1>1, CoveredStays, WithinParts
<1>2. CASE UNCHANGED <<heard, answered>>
    BY <1>1, <1>2
<1>3. CASE Tick \/ ClientAsks \/ Crash \/ Start \/ DieCreating \/ Lose
            \/ (\E p \in upstream : ParentAnswers(p)) \/ UNCHANGED vars
    BY <1>2, <1>3 DEF Tick, ClientAsks, Crash, Start, DieCreating, Lose, ParentAnswers, vars
<1>4. ASSUME NEW query \in inbox,
             \/ TakeExtended(query) \/ AskParent(query) \/ NoIdLeft(query)
             \/ AnswerLocallyRaises(query) \/ DieDropping(query)
      PROVE  WithinTimeToLive'
    BY <1>2, <1>4 DEF TakeExtended, AskParent, NoIdLeft, AnswerLocallyRaises, DieDropping
<1>5. ASSUME NEW query \in inbox, AnswerLocally(query) PROVE WithinTimeToLive'
    <2> DEFINE locals == Locals(query.questions)
               w == [questions |-> query.questions,
                     records |-> WithLocals(Read(NewPacket), locals)]
               a == [tag |-> query.tag, since |-> now, sent |-> now,
                     about |-> NewPacket.questions, missing |-> current.missing,
                     packet |-> Written(NewPacket, w)]
    <2>1. query.questions \in Seq(Question)
        BY DEF TypeOK, Query
    <2>2. answered' = answered \cup {a} /\ heard' = heard
        BY <1>5 DEF AnswerLocally, Answers, Answer
    <2>3. /\ Sent(NewPacket) /\ Readable(NewPacket)
          /\ \A j \in DOMAIN NewPacket.records : FALSE
        BY NewPacketIsSent
    <2>4. /\ locals \in Seq(Record)
          /\ \A i \in DOMAIN locals :
                locals[i].owner \in Operators \/ Covered(locals[i], now, heard)
        BY <2>1, LocalsFound, ActiveRecordCovered
    <2>5. /\ a.sent = now /\ a.since = now /\ now <= now
          /\ a.packet = Written(NewPacket, [questions |-> query.questions,
                                            records |-> WithLocals(Read(NewPacket), locals)])
        BY <1>0
    <2> HIDE DEF a, locals, w
    <2>6. AnswerCovered(a, heard)
        BY <1>0, <2>3, <2>4, <2>5, AnswerIsCovered
    <2> QED BY <1>1, <2>2, <2>6
<1>6. ASSUME NEW p \in downstream, ReceiveUnreadable(p) \/ IgnoreResponse(p) PROVE WithinTimeToLive'
    BY <1>2, <1>6 DEF ReceiveUnreadable, IgnoreResponse
<1>7. ASSUME NEW p \in downstream, AcceptResponse(p) PROVE WithinTimeToLive'
    <2> DEFINE questions == current.query.questions
               w == [questions |-> questions,
                     records |-> WithLocals(Read(p), current.locals)]
               a == [tag |-> current.query.tag, since |-> current.since, sent |-> now,
                     about |-> p.questions, missing |-> current.missing,
                     packet |-> Written(p, w)]
    <2>1. answered' = answered \cup {a} /\ Hears(p) /\ mode = "waiting" /\ Readable(p)
        BY <1>7 DEF AcceptResponse, Answers, Answer, Receives, Accepted
    <2>2. Sent(p)
        BY DEF TypeOK, Sent
    <2>3. heard \subseteq heard'
        BY <2>1 DEF Hears
    <2>4. \A j \in DOMAIN p.records : p.records[j].type = "A" =>
                \E x \in heard' : /\ x.type = "A" /\ x.owner = p.records[j].owner
                                  /\ x.until = now + p.records[j].ttl
        <3> SUFFICES ASSUME NEW j \in DOMAIN p.records, p.records[j].type = "A"
                     PROVE  \E x \in heard' : /\ x.type = "A" /\ x.owner = p.records[j].owner
                                              /\ x.until = now + p.records[j].ttl
            OBVIOUS
        <3> DEFINE r == p.records[j]
                   x == [type |-> r.type, owner |-> r.owner, until |-> now + r.ttl,
                         far |-> r.at > 255]
        <3>1. x \in heard'
            BY <2>1 DEF Hears, Range
        <3>2. x.type = "A" /\ x.owner = r.owner /\ x.until = now + r.ttl
            OBVIOUS
        <3> HIDE DEF x
        <3> QED BY <3>1, <3>2
    <2>5. /\ current.since \in Nat /\ current.since <= now
          /\ current.locals \in Seq(Record)
          /\ \A i \in DOMAIN current.locals :
                \/ current.locals[i].owner \in Operators
                \/ Covered(current.locals[i], current.since, heard')
          /\ Len(questions) = 1 => current.locals = <<>>
        BY <2>1, <2>3, CoveredStays DEF LocalsCovered
    <2>6. /\ a.sent = now /\ a.since = current.since
          /\ a.packet = Written(p, [questions |-> questions,
                                    records |-> WithLocals(Read(p), current.locals)])
        OBVIOUS
    <2> HIDE DEF a, questions, w
    <2>7. AnswerCovered(a, heard')
        BY <1>0, <2>1, <2>2, <2>4, <2>5, <2>6, AnswerIsCovered
    <2> QED BY <1>1, <2>1, <2>3, <2>7
<1>8. ASSUME NEW p \in downstream, DieCaching(p) \/ AcceptRaises(p) PROVE WithinTimeToLive'
    BY <1>1, <1>8 DEF DieCaching, AcceptRaises, Hears
<1> QED BY <1>3, <1>4, <1>5, <1>6, <1>7, <1>8 DEF Next

\* At the start nothing is answered.
LEMMA InitWithin == Init => WithinInv
BY DEF Init, WithinInv, StaticKnown, LocalsCovered, WithinTimeToLive, Operators, Saved, Absent

\* No address from the parent is given out for longer than the parent allowed,
\* however long the server waits and whenever it restarts
\* (get_active_record, save_cache_into_database, request_handler).
THEOREM WithinTimeToLiveAlways == Spec => []WithinTimeToLive
<1> DEFINE Inv == TypeOK /\ ToldInv /\ WithinInv
<1>1. Inv /\ [Next]_vars => Inv'
    <2>1. StoreOK' /\ LoopOK' => TypeOK'
        BY TypeParts, PTL
    <2>2. ToldInv => CachedAsTold
        BY DEF ToldInv
    <2>3. StaticKnown' /\ LocalsCovered' /\ WithinTimeToLive' => WithinInv'
        BY DEF WithinInv
    <2>4. WithinInv => StaticKnown /\ LocalsCovered /\ WithinTimeToLive
        BY DEF WithinInv
    <2> QED BY <2>1, <2>2, <2>3, <2>4, StoreStep, LoopStep, NextTold, StaticStep, LocalsStep,
               WithinStep
<1>2. Inv => WithinTimeToLive
    BY DEF WithinInv
<1>3. Init => Inv
    BY InitType, InitTold, InitWithin
<1> HIDE DEF Inv
<1> QED BY <1>1, <1>2, <1>3, PTL DEF Spec

-----------------------------------------------------------------------------
(***************************************************************************)
(* The names that are read of an answer.  The inductive invariant adds, of *)
(* the query that waits, that its local answers are given under the names  *)
(* of its questions, and what of it was sent on to the parent.             *)
(***************************************************************************)

\* ToldFar, of what has been heard: h.
FarIn(record, h) == \E x \in h : x.far /\ x.type = record.type /\ x.owner = record.owner

LocalsFit(questions, locals, h) ==
    /\ locals \in Seq(Record)
    /\ \A i \in DOMAIN locals :
            /\ locals[i].name \in QuestionNames(questions)
            /\ locals[i].type = "A"
            /\ MayBeCalled(locals[i].owner, locals[i].name) \/ FarIn(locals[i], h)

MissingFits(questions, locals, missing) ==
    /\ QuestionNames(missing) \subseteq QuestionNames(questions)
    /\ missing = questions => locals = <<>>

WaitingFits ==
    mode = "waiting" =>
        /\ LocalsFit(current.query.questions, current.locals, heard)
        /\ MissingFits(current.query.questions, current.locals, current.missing)

\* What is found for a query fits it when it comes.
LEMMA FoundFits ==
    ASSUME TypeOK, CachedAsTold, StaticKnown, NEW questions \in Seq(Question)
    PROVE  /\ LocalsFit(questions, Locals(questions), heard)
           /\ MissingFits(questions, Locals(questions), Missing(questions))
<1> DEFINE locals == Locals(questions)
<1>1. /\ locals \in Seq(Record)
      /\ \A i \in DOMAIN locals : \E n \in QuestionNames(questions) :
            n \in Names /\ IsLocal(n) /\ locals[i] = ActiveRecord(n)
      /\ Missing(questions) = questions => locals = <<>>
      /\ QuestionNames(Missing(questions)) \subseteq QuestionNames(questions)
    BY LocalsFound
<1> HIDE DEF locals
<1>2. ASSUME NEW i \in DOMAIN locals
      PROVE  /\ locals[i].name \in QuestionNames(questions)
             /\ locals[i].type = "A"
             /\ MayBeCalled(locals[i].owner, locals[i].name) \/ FarIn(locals[i], heard)
    <2>1. PICK n \in QuestionNames(questions) :
            n \in Names /\ IsLocal(n) /\ locals[i] = ActiveRecord(n)
        BY <1>1
    <2>2. locals[i].name = n /\ locals[i].type = "A"
        BY <2>1, ActiveRecordCovered
    <2>3. CASE n \in static
        <3>1. locals[i].owner = n
            BY <2>1, <2>3 DEF ActiveRecord, Address
        <3> QED BY <2>2, <3>1 DEF MayBeCalled
    <2>4. CASE n \notin static
        <3>1. cache[n] # NoRecord /\ locals[i].owner = cache[n].owner
            BY <2>1, <2>4 DEF IsLocal, ActiveRecord, Address
        <3>2. PICK x \in heard : /\ x.type = "A" /\ x.owner = cache[n].owner
                                 /\ x.far \/ MayBeCalled(x.owner, n)
            BY <2>1, <3>1 DEF CachedAsTold
        <3>3. MayBeCalled(locals[i].owner, n) \/ x.far
            BY <3>1, <3>2, Zenon
        <3>4. x.type = locals[i].type /\ x.owner = locals[i].owner
            BY <2>2, <3>1, <3>2
        <3>5. x.far => FarIn(locals[i], heard)
            BY <3>4, Zenon DEF FarIn
        <3> QED BY <2>2, <3>3, <3>5
    <2> QED BY <2>1, <2>2, <2>3, <2>4
<1> QED BY <1>1, <1>2 DEF LocalsFit, MissingFits, locals

\* What a resolver reads at the place of a question.
LEMMA NamesAtQuestion ==
    ASSUME NEW w, Measured(w), NEW j, NEW i \in DOMAIN w.questions,
           w.records[j].at = QuestionPlace(w, i)
    PROVE  NamesRead(w, j) = {w.questions[i].name}
<1>1. {h \in DOMAIN w.questions : QuestionPlace(w, h) = w.records[j].at} = {i}
    BY PlacesApart
<1>2. {k \in DOMAIN w.records : /\ w.records[k].type = "CNAME"
                                /\ DataPlace(w, k) = w.records[j].at} = {}
    BY PlacesApart
<1> QED BY <1>1, <1>2 DEF NamesRead

\* What a resolver reads at the place of an alias.
LEMMA NamesAtAlias ==
    ASSUME NEW w, Measured(w), NEW j, NEW k \in DOMAIN w.records,
           w.records[j].at = DataPlace(w, k), w.records[k].type = "CNAME"
    PROVE  NamesRead(w, j) = {w.records[k].owner}
<1>1. {h \in DOMAIN w.questions : QuestionPlace(w, h) = w.records[j].at} = {}
    BY PlacesApart
<1>2. {h \in DOMAIN w.records : /\ w.records[h].type = "CNAME"
                                /\ DataPlace(w, h) = w.records[j].at} = {k}
    BY PlacesApart
<1> QED BY <1>1, <1>2 DEF NamesRead

\* The targets of the aliases of a packet.
Targets(packet) ==
    {packet.records[j].owner : j \in {j \in DOMAIN packet.records :
        packet.records[j].type = "CNAME"}}

\* The name n is one for the record r, as far as was heard.
Belongs(n, r, h) == FarIn(r, h) \/ \E m \in Owners(r) : MayBeCalled(m, n)

\* The record j of a packet is read under names of its own.
ReadUnderOwn(packet, j, h) ==
    /\ NamesRead(packet, j) # {}
    /\ \A n \in NamesRead(packet, j) : Belongs(n, packet.records[j], h)

\* The answer a is as AnswersReadRight says.
ReadRight(a, h) ==
    /\ a.about = a.missing
    /\ \/ Targets(a.packet) = {}
       \/ a.missing = a.packet.questions /\ ToldApart(Targets(a.packet), a.missing)
    => \A j \in DOMAIN a.packet.records : ReadUnderOwn(a.packet, j, h)

\* AnswersReadRight in these words.
LEMMA ReadRightParts ==
    /\ AnswersReadRight <=> \A a \in answered : ReadRight(a, heard)
    /\ AnswersReadRight' <=> \A a \in answered' : ReadRight(a, heard')
<1>1. /\ \A r : ToldFar(r) <=> FarIn(r, heard)
      /\ \A r : ToldFar(r)' <=> FarIn(r, heard')
    BY Zenon DEF ToldFar, FarIn
<1> QED BY <1>1, Zenon DEF AnswersReadRight, ReadRight, ReadUnderOwn, Belongs, Targets

\* What is read right stays so when more is heard.
LEMMA ReadRightStays ==
    ASSUME NEW h, NEW k, h \subseteq k
    PROVE  /\ \A questions, locals : LocalsFit(questions, locals, h) => LocalsFit(questions, locals, k)
           /\ \A a : ReadRight(a, h) => ReadRight(a, k)
<1>1. \A r : FarIn(r, h) => FarIn(r, k)
    BY Zenon DEF FarIn
<1>2. \A questions, locals : LocalsFit(questions, locals, h) => LocalsFit(questions, locals, k)
    BY <1>1, Zenon DEF LocalsFit
<1>3. \A a, j : ReadUnderOwn(a, j, h) => ReadUnderOwn(a, j, k)
    BY <1>1, Zenon DEF ReadUnderOwn, Belongs
<1> QED BY <1>2, <1>3, Zenon DEF ReadRight

\* A record of the parent belongs to the name it is read under.
LEMMA ReadBelongs ==
    ASSUME NEW p, Sent(p), WellFormed(p), NEW h,
           \A j \in DOMAIN p.records : p.records[j].at > 255 => FarIn(p.records[j], h),
           NEW j \in DOMAIN p.records, NEW n \in NamesOf(p, j),
           NEW r, r.type = p.records[j].type, r.owner = p.records[j].owner
    PROVE  Belongs(n, r, h)
<1>1. Owners(r) = Owners(p.records[j])
    BY DEF Owners
<1>2. p.records[j].at \in Nat
    BY SentIsMeasured DEF SentRecord
<1>3. CASE p.records[j].at <= 255
    BY <1>1, <1>3, ReadAsCalled DEF Belongs
<1>4. CASE p.records[j].at > 255
    <2>1. FarIn(p.records[j], h)
        BY <1>4
    <2>2. FarIn(r, h)
        BY <2>1, Zenon DEF FarIn
    <2> QED BY <2>2 DEF Belongs
<1> QED BY <1>2, <1>3, <1>4

\* The answer sent is made of a packet p of the parent and of what was found
\* here for the questions of the client.
MadeOf(sent, p, questions, locals) ==
    sent = Written(p, [questions |-> questions, records |-> WithLocals(Read(p), locals)])

\* Its records are those of the packet and those found here; they have their
\* names by the table, and no alias of the packet is left out.
LEMMA AnswerParts ==
    ASSUME NEW p, Sent(p), Readable(p), NEW questions \in Seq(Question),
           NEW locals \in Seq(Record), NEW sent, MadeOf(sent, p, questions, locals),
           NEW records, records = WithLocals(Read(p), locals),
           NEW w, w = [questions |-> questions, records |-> records]
    PROVE  /\ sent.questions = questions /\ Measured(sent) /\ Measured(w)
           /\ DOMAIN sent.records = DOMAIN records
           /\ \A j \in DOMAIN records :
                /\ sent.records[j].type = records[j].type
                /\ sent.records[j].owner = records[j].owner
                /\ sent.records[j].at = WrittenOffset(p, w, j, records[j].name)
           /\ \A i \in DOMAIN questions : QuestionPlace(sent, i) = QuestionPlace(w, i)
           /\ \A j \in DOMAIN records : DataPlace(sent, j) = DataPlace(w, j)
           /\ \A j \in DOMAIN records :
                \/ \E k \in DOMAIN p.records : /\ records[j].name \in NamesOf(p, k)
                                               /\ records[j].type = p.records[k].type
                                               /\ records[j].owner = p.records[k].owner
                \/ \E i \in DOMAIN locals : records[j] = locals[i]
           /\ \A k \in DOMAIN p.records :
                \E j \in DOMAIN records : /\ records[j].type = p.records[k].type
                                          /\ records[j].owner = p.records[k].owner
<1>1. Read(p) \in Seq(Record)
    BY ReadIsRecords
<1>2. /\ records \in Seq(Record)
      /\ \A j \in DOMAIN records :
            \/ \E k \in DOMAIN Read(p) : records[j] = Read(p)[k]
            \/ \E i \in DOMAIN locals : records[j] = locals[i]
      /\ \A k \in DOMAIN Read(p) : \E j \in DOMAIN records : records[j] = Read(p)[k]
    BY <1>1, WithLocalsRecords
<1>3. /\ Len(records) \in Nat /\ DOMAIN records = 1..Len(records)
      /\ \A j \in DOMAIN records : records[j] \in Record
    BY <1>2, LenProperties, ElementOfSeq
<1>4. w.questions = questions /\ w.records = records /\ sent = Written(p, w)
    BY DEF MadeOf
<1>5. /\ sent.questions = questions /\ DOMAIN sent.records = DOMAIN records
      /\ \A j \in DOMAIN records :
            /\ sent.records[j].type = records[j].type
            /\ sent.records[j].owner = records[j].owner
            /\ sent.records[j].size = records[j].size
            /\ sent.records[j].at = WrittenOffset(p, w, j, records[j].name)
    BY <1>4, WrittenRecord
<1>6. Measured(w)
    BY <1>3, <1>4 DEF Measured, Record
<1>7. Len(sent.records) = Len(records)
    <2>1. sent.records = [j \in DOMAIN records |-> sent.records[j]]
        BY <1>4 DEF Written
    <2> QED BY <1>3, <2>1
<1>8. Measured(sent)
    <2>1. \A j \in DOMAIN sent.records : sent.records[j].size \in Nat
        BY <1>3, <1>5 DEF Record
    <2> QED BY <1>3, <1>5, <1>7, <2>1 DEF Measured
<1>9. /\ \A i \in DOMAIN questions : QuestionPlace(sent, i) = QuestionPlace(w, i)
      /\ \A j \in DOMAIN records : DataPlace(sent, j) = DataPlace(w, j)
    <2>1. /\ sent.questions = w.questions /\ Len(sent.records) = Len(w.records)
          /\ \A j \in DOMAIN w.records : sent.records[j].size = w.records[j].size
        BY <1>4, <1>5, <1>7
    <2>2. /\ \A i \in DOMAIN w.questions : QuestionPlace(sent, i) = QuestionPlace(w, i)
          /\ \A j \in DOMAIN w.records : DataPlace(sent, j) = DataPlace(w, j)
        BY <1>6, <2>1, SamePlaces
    <2> QED BY <1>4, <2>2
<1>10. ASSUME NEW k \in DOMAIN Read(p)
       PROVE  /\ k \in DOMAIN p.records /\ Read(p)[k].name \in NamesOf(p, k)
              /\ Read(p)[k].type = p.records[k].type /\ Read(p)[k].owner = p.records[k].owner
    BY ReadFields
<1>11. ASSUME NEW j \in DOMAIN records
       PROVE  \/ \E k \in DOMAIN p.records : /\ records[j].name \in NamesOf(p, k)
                                             /\ records[j].type = p.records[k].type
                                             /\ records[j].owner = p.records[k].owner
              \/ \E i \in DOMAIN locals : records[j] = locals[i]
    <2>1. CASE \E k \in DOMAIN Read(p) : records[j] = Read(p)[k]
        <3>1. PICK k \in DOMAIN Read(p) : records[j] = Read(p)[k]
            BY <2>1
        <3> QED BY <1>10, <3>1
    <2> QED BY <1>2, <2>1
<1>12. ASSUME NEW k \in DOMAIN p.records
       PROVE  \E j \in DOMAIN records : /\ records[j].type = p.records[k].type
                                        /\ records[j].owner = p.records[k].owner
    <2>1. k \in DOMAIN Read(p)
        BY ReadFields
    <2>2. PICK j \in DOMAIN records : records[j] = Read(p)[k]
        BY <1>2, <2>1
    <2> QED BY <1>10, <2>1, <2>2
<1> QED BY <1>5, <1>6, <1>8, <1>9, <1>11, <1>12

\* An answer made of a packet of the parent and of what was found here is read
\* right, when they fit the query.
LEMMA AnswerReadsRight ==
    ASSUME NEW p, Sent(p), Readable(p), WellFormed(p), NEW h,
           \A j \in DOMAIN p.records : p.records[j].at > 255 => FarIn(p.records[j], h),
           NEW questions \in Seq(Question), NEW locals, LocalsFit(questions, locals, h),
           NEW a, a.about = p.questions, MadeOf(a.packet, p, questions, locals),
           a.about = a.missing => MissingFits(questions, locals, a.missing)
    PROVE  ReadRight(a, h)
<1> DEFINE records == WithLocals(Read(p), locals)
           w == [questions |-> questions, records |-> records]
           sent == a.packet
           T == Targets(sent)
<1> SUFFICES ASSUME a.about = a.missing,
                    \/ T = {}
                    \/ a.missing = sent.questions /\ ToldApart(T, a.missing),
                    NEW j \in DOMAIN sent.records
             PROVE  ReadUnderOwn(sent, j, h)
    BY DEF ReadRight
<1> DEFINE name == records[j].name
<1>1. /\ sent.questions = questions /\ Measured(sent) /\ Measured(w)
      /\ DOMAIN sent.records = DOMAIN records
      /\ \A i \in DOMAIN records :
            /\ sent.records[i].type = records[i].type
            /\ sent.records[i].owner = records[i].owner
            /\ sent.records[i].at = WrittenOffset(p, w, i, records[i].name)
      /\ \A i \in DOMAIN questions : QuestionPlace(sent, i) = QuestionPlace(w, i)
      /\ \A i \in DOMAIN records : DataPlace(sent, i) = DataPlace(w, i)
    BY AnswerParts DEF LocalsFit
<1>2. /\ \A i \in DOMAIN records :
            \/ \E k \in DOMAIN p.records : /\ records[i].name \in NamesOf(p, k)
                                           /\ records[i].type = p.records[k].type
                                           /\ records[i].owner = p.records[k].owner
            \/ \E l \in DOMAIN locals : records[i] = locals[l]
      /\ \A k \in DOMAIN p.records :
            \E i \in DOMAIN records : /\ records[i].type = p.records[k].type
                                      /\ records[i].owner = p.records[k].owner
    <2>1. locals \in Seq(Record)
        BY DEF LocalsFit
    <2>2. records = WithLocals(Read(p), locals) /\ w = [questions |-> questions, records |-> records]
        OBVIOUS
    <2> HIDE DEF records, w, sent
    <2>3. MadeOf(sent, p, questions, locals)
        BY DEF sent
    <2> QED BY <2>1, <2>2, <2>3, AnswerParts
<1>3. /\ w.questions = questions /\ w.records = records /\ j \in DOMAIN records
      /\ p.questions = a.missing
      /\ QuestionNames(p.questions) \subseteq QuestionNames(questions)
      /\ p.questions = questions => locals = <<>>
    BY <1>1 DEF MissingFits
<1>4. T # {} => p.questions = questions /\ ToldApart(T, questions)
    BY <1>1, <1>3
<1>5. /\ \A i \in DOMAIN records : records[i].type = "CNAME" => records[i].owner \in T
      /\ \A k \in DOMAIN p.records : p.records[k].type = "CNAME" => p.records[k].owner \in T
    <2>1. \A i \in DOMAIN records : records[i].type = "CNAME" => records[i].owner \in T
        BY <1>1 DEF Targets
    <2> QED BY <1>2, <2>1
<1>6. /\ Measured(p) /\ Len(p.records) \in Nat /\ DOMAIN p.records = 1..Len(p.records)
      /\ \A i \in DOMAIN records : \A k \in 1..(i - 1) : k \in DOMAIN records
    <2>1. DOMAIN records = 1..Len(records) /\ Len(records) \in Nat
        BY <1>1, <1>3 DEF Measured
    <2> HIDE DEF records
    <2> QED BY <2>1, SentIsMeasured
<1> HIDE DEF records, w, sent, T
<1>7. Belongs(name, sent.records[j], h)
    <2>1. CASE \E k \in DOMAIN p.records : /\ records[j].name \in NamesOf(p, k)
                                           /\ records[j].type = p.records[k].type
                                           /\ records[j].owner = p.records[k].owner
        <3>1. PICK k \in DOMAIN p.records : /\ name \in NamesOf(p, k)
                                            /\ records[j].type = p.records[k].type
                                            /\ records[j].owner = p.records[k].owner
            BY <2>1
        <3>2. /\ sent.records[j].type = p.records[k].type
              /\ sent.records[j].owner = p.records[k].owner
            BY <1>1, <1>3, <3>1
        <3> QED BY <3>1, <3>2, ReadBelongs
    <2>2. CASE \E i \in DOMAIN locals : records[j] = locals[i]
        <3>1. PICK i \in DOMAIN locals : records[j] = locals[i]
            BY <2>2
        <3>2. /\ sent.records[j].type = "A" /\ locals[i].type = "A"
              /\ sent.records[j].owner = locals[i].owner
              /\ MayBeCalled(locals[i].owner, name) \/ FarIn(locals[i], h)
            BY <1>1, <1>3, <3>1 DEF LocalsFit
        <3>3. FarIn(locals[i], h) => FarIn(sent.records[j], h)
            BY <3>2, Zenon DEF FarIn
        <3>4. Owners(sent.records[j]) = {locals[i].owner}
            BY <3>2 DEF Owners
        <3> QED BY <3>2, <3>3, <3>4 DEF Belongs
    <2> QED BY <1>2, <1>3, <2>1, <2>2
<1>8. ASSUME T # {}
      PROVE  /\ records = Read(p) /\ j \in DOMAIN p.records /\ name \in NamesOf(p, j)
             /\ \A k \in DOMAIN p.records :
                    /\ k \in DOMAIN records /\ DataPlace(sent, k) = DataPlace(p, k)
                    /\ sent.records[k].type = p.records[k].type
                    /\ sent.records[k].owner = p.records[k].owner
    <2>1. records = Read(p)
        <3>1. locals = <<>> /\ Read(p) \in Seq(Record)
            BY <1>3, <1>4, <1>8, ReadIsRecords
        <3> QED BY <3>1, EmptySeq, WithLocalsRecords DEF records
    <2>2. DOMAIN records = DOMAIN p.records /\ Len(records) = Len(p.records)
        BY <2>1, ReadFields, ReadIsRecords
    <2>3. \A k \in DOMAIN p.records :
            /\ records[k].name \in NamesOf(p, k) /\ records[k].size = p.records[k].size
            /\ records[k].type = p.records[k].type /\ records[k].owner = p.records[k].owner
        BY <2>1, ReadFields
    <2>4. \A k \in DOMAIN p.records : DataPlace(w, k) = DataPlace(p, k)
        BY <1>3, <1>4, <1>6, <1>8, <2>2, <2>3, SamePlaces
    <2> QED BY <1>1, <1>3, <2>1, <2>2, <2>3, <2>4
<1>9. ~ \E k \in 1..(j - 1) : records[k].type = "CNAME" /\ UncutName[records[k].owner] = name
    <2> SUFFICES ASSUME NEW k \in 1..(j - 1), records[k].type = "CNAME",
                        UncutName[records[k].owner] = name
                 PROVE  FALSE
        OBVIOUS
    <2>1. records[k].owner \in T
        BY <1>3, <1>5, <1>6
    <2>2. ToldApart(T, questions) /\ name \in NamesOf(p, j) /\ p.questions = questions
        BY <1>4, <1>8, <2>1
    <2>3. name \notin QuestionNames(p.questions)
        BY <2>1, <2>2 DEF ToldApart
    <2>4. PICK i \in 1..(j - 1) :
                p.records[i].type = "CNAME" /\ CutName[p.records[i].owner] = name
        BY <2>2, <2>3 DEF NamesOf, KnownBefore
    <2>5. p.records[i].owner \in T
        <3>1. j \in DOMAIN p.records
            BY <1>8, <2>1
        <3>2. i \in DOMAIN p.records
            BY <1>6, <3>1
        <3> QED BY <1>5, <2>4, <3>2
    <2> QED BY <2>1, <2>2, <2>4, <2>5 DEF ToldApart
<1>10. sent.records[j].at = IF name \in QuestionNames(questions) THEN QuestionOffset(w, name)
                            ELSE OffsetBefore(p, Len(p.records) + 1, name)
    <2>1. sent.records[j].at = WrittenOffset(p, w, j, name)
        BY <1>1, <1>3
    <2> QED BY <1>3, <1>9, <2>1 DEF WrittenOffset
<1>11. CASE name \in QuestionNames(questions)
    <2>1. PICK i \in DOMAIN questions :
            questions[i].name = name /\ QuestionOffset(w, name) = QuestionPlace(w, i)
        BY <1>3, <1>11, QuestionOfName
    <2>2. sent.records[j].at = QuestionPlace(sent, i) /\ i \in DOMAIN sent.questions
        BY <1>1, <1>10, <1>11, <2>1
    <2>3. NamesRead(sent, j) = {name}
        <3>1. NamesRead(sent, j) = {sent.questions[i].name}
            BY <1>1, <2>2, NamesAtQuestion
        <3> QED BY <1>1, <2>1, <3>1
    <2> QED BY <1>7, <2>3 DEF ReadUnderOwn
<1>12. CASE name \notin QuestionNames(questions)
    <2> DEFINE before == AliasesBefore(p, Len(p.records) + 1, name)
               last == Max(before)
    <2>1. T # {}
        <3>1. CASE \E i \in DOMAIN locals : records[j] = locals[i]
            BY <1>12, <3>1 DEF LocalsFit
        <3>2. CASE \E k \in DOMAIN p.records : name \in NamesOf(p, k)
            <4>1. PICK k \in DOMAIN p.records : name \in NamesOf(p, k)
                BY <3>2
            <4>2. PICK i \in 1..(k - 1) : p.records[i].type = "CNAME"
                BY <1>3, <1>12, <4>1 DEF NamesOf, KnownBefore
            <4>3. i \in DOMAIN p.records
                BY <1>6
            <4> QED BY <1>5, <4>2, <4>3
        <3> QED BY <1>2, <1>3, <3>1, <3>2
    <2>2. /\ j \in DOMAIN p.records /\ name \in NamesOf(p, j)
          /\ p.questions = questions /\ ToldApart(T, questions)
        BY <1>4, <1>8, <2>1
    <2>3. name \in KnownBefore(p, Len(p.records) + 1)
        BY <2>2, KnownNames
    <2>4. before # {} /\ before \subseteq 0..Len(p.records) /\ before \subseteq DOMAIN p.records
        <3>1. before # {}
            BY <1>12, <2>2, <2>3 DEF KnownBefore, AliasesBefore
        <3>2. before \subseteq 1..(Len(p.records) + 1 - 1)
            BY DEF AliasesBefore
        <3> HIDE DEF before
        <3> QED BY <1>6, <3>1, <3>2
    <2>5. last \in before
        <3> HIDE DEF before
        <3> QED BY <1>6, <2>4, MaxIsThere
    <2>6. sent.records[j].at = DataPlace(p, last)
        BY <1>10, <1>12, <2>4 DEF OffsetBefore
    <2>7. p.records[last].type = "CNAME" /\ CutName[p.records[last].owner] = name
        BY <2>5 DEF AliasesBefore
    <2>8. last \in DOMAIN p.records
        BY <2>4, <2>5
    <2> HIDE DEF last, before
    <2>9. NamesRead(sent, j) = {p.records[last].owner}
        <3>1. /\ last \in DOMAIN sent.records /\ sent.records[j].at = DataPlace(sent, last)
              /\ sent.records[last].type = "CNAME"
              /\ sent.records[last].owner = p.records[last].owner
            BY <1>1, <1>8, <2>1, <2>6, <2>7, <2>8
        <3> QED BY <1>1, <3>1, NamesAtAlias
    <2>10. Belongs(p.records[last].owner, sent.records[j], h)
        <3> DEFINE r == p.records[j]
        <3>1. sent.records[j].type = r.type /\ sent.records[j].owner = r.owner /\ r.at \in Nat
            BY <1>8, <2>1, <2>2, SentIsMeasured DEF SentRecord
        <3>2. CASE r.at > 255
            <4>1. FarIn(r, h)
                BY <2>2, <3>2
            <4>2. FarIn(sent.records[j], h)
                BY <3>1, <4>1, Zenon DEF FarIn
            <4> QED BY <4>2 DEF Belongs
        <3>3. CASE r.at <= 255
            <4>1. PICK k \in 1..(j - 1) :
                    /\ k \in DOMAIN p.records
                    /\ p.records[k].type = "CNAME" /\ CutName[p.records[k].owner] = name
                    /\ p.records[k].owner \in Owners(r)
                BY <1>12, <2>2, <3>3, ReadPlace
            <4>2. p.records[k].owner \in T /\ p.records[last].owner \in T
                BY <1>5, <2>7, <2>8, <4>1
            <4>3. p.records[last].owner = p.records[k].owner
                BY <2>2, <2>7, <4>1, <4>2 DEF ToldApart
            <4>4. Owners(sent.records[j]) = Owners(r)
                BY <3>1 DEF Owners
            <4> QED BY <4>1, <4>3, <4>4 DEF Belongs, MayBeCalled
        <3> QED BY <3>1, <3>2, <3>3
    <2> QED BY <2>9, <2>10 DEF ReadUnderOwn
<1> QED BY <1>11, <1>12


\* The query that waits fits what was found for it when it came.
LEMMA WaitingFitsStep ==
    TypeOK /\ CachedAsTold /\ StaticKnown /\ WaitingFits /\ [Next]_vars => WaitingFits'
<1> SUFFICES ASSUME TypeOK, CachedAsTold, StaticKnown, WaitingFits, [Next]_vars
             PROVE  WaitingFits'
    OBVIOUS
<1>1. CASE mode' # "waiting"
    BY <1>1 DEF WaitingFits
<1>2. CASE UNCHANGED <<mode, current, heard>>
    BY <1>2 DEF WaitingFits
<1>3. CASE Tick \/ ClientAsks \/ Lose \/ (\E p \in upstream : ParentAnswers(p))
            \/ (\E p \in downstream : IgnoreResponse(p)) \/ UNCHANGED vars
    BY <1>2, <1>3 DEF Tick, ClientAsks, Lose, ParentAnswers, IgnoreResponse, vars
<1>4. CASE Crash \/ Start \/ DieCreating
    BY <1>1, <1>4 DEF Crash, DieCreating, DiesSaving, Dies, Ends, Start
<1>5. ASSUME NEW query \in inbox,
             \/ TakeExtended(query) \/ AnswerLocally(query) \/ AnswerLocallyRaises(query)
             \/ NoIdLeft(query) \/ DieDropping(query)
      PROVE  WaitingFits'
    BY <1>1, <1>5 DEF TakeExtended, AnswerLocally, AnswerLocallyRaises, LooksUpAndEnds, NoIdLeft,
                      DieDropping, Takes, Gets, DiesSaving, Dies, Ends
<1>6. ASSUME NEW query \in inbox, AskParent(query) PROVE WaitingFits'
    <2>1. query.questions \in Seq(Question)
        BY DEF TypeOK, Query
    <2>2. /\ current'.query = query /\ current'.locals = Locals(query.questions)
          /\ current'.missing = Missing(query.questions) /\ heard' = heard
        BY <1>6 DEF AskParent
    <2> QED BY <2>1, <2>2, FoundFits DEF WaitingFits
<1>7. ASSUME NEW p \in downstream,
             ReceiveUnreadable(p) \/ AcceptResponse(p) \/ AcceptRaises(p) \/ DieCaching(p)
      PROVE  WaitingFits'
    BY <1>1, <1>7 DEF ReceiveUnreadable, AcceptResponse, AcceptRaises, DieCaching, DiesSaving,
                      Dies, Ends
<1> QED BY <1>3, <1>4, <1>5, <1>6, <1>7 DEF Next

\* An answer to a query that waits, or to one that needs nobody, is one made of
\* the packet and of what was found.
LEMMA AnswerIsMade ==
    ASSUME NEW query, NEW packet, NEW locals, NEW since, Answers(query, packet, locals, since)
    PROVE  \E a : /\ answered' = answered \cup {a}
                  /\ a.about = packet.questions /\ a.missing = current.missing
                  /\ MadeOf(a.packet, packet, query.questions, locals)
<1>1. PICK answer \in Answer(query, packet, locals) :
        answered' = answered \cup
            {[tag |-> query.tag, since |-> since, sent |-> now, about |-> packet.questions,
              missing |-> current.missing, packet |-> answer]}
    BY DEF Answers
<1>2. MadeOf(answer, packet, query.questions, locals)
    BY DEF Answer, MadeOf
<1> DEFINE a == [tag |-> query.tag, since |-> since, sent |-> now, about |-> packet.questions,
                 missing |-> current.missing, packet |-> answer]
<1>3. a.about = packet.questions /\ a.missing = current.missing /\ a.packet = answer
    OBVIOUS
<1>4. answered' = answered \cup {a}
    BY <1>1
<1> HIDE DEF a
<1> QED BY <1>2, <1>3, <1>4

\* Every answer that is sent is read right.
LEMMA ReadRightStep ==
    /\ TypeOK /\ ToldInv /\ StaticKnown /\ WaitingFits /\ AnswersReadRight
    /\ [Next]_vars
    => AnswersReadRight'
<1> SUFFICES ASSUME TypeOK, ToldInv, StaticKnown, WaitingFits, AnswersReadRight, [Next]_vars
             PROVE  AnswersReadRight'
    OBVIOUS
<1>0. CachedAsTold /\ PacketsWellFormed /\ \A a \in answered : ReadRight(a, heard)
    BY ReadRightParts DEF ToldInv
<1>1. ASSUME heard \subseteq heard', \A a \in answered' \ answered : ReadRight(a, heard')
      PROVE  AnswersReadRight'
    BY <1>0, <1>1, ReadRightStays, ReadRightParts
<1>2. CASE UNCHANGED answered /\ heard \subseteq heard'
    BY <1>1, <1>2
<1>3. CASE Tick \/ ClientAsks \/ Crash \/ Start \/ DieCreating \/ Lose
            \/ (\E p \in upstream : ParentAnswers(p)) \/ UNCHANGED vars
    BY <1>2, <1>3 DEF Tick, ClientAsks, Crash, Start, DieCreating, Lose, ParentAnswers, vars
<1>4. ASSUME NEW query \in inbox,
             \/ TakeExtended(query) \/ AnswerLocallyRaises(query) \/ AskParent(query)
             \/ NoIdLeft(query) \/ DieDropping(query)
      PROVE  AnswersReadRight'
    BY <1>2, <1>4 DEF TakeExtended, AnswerLocallyRaises, AskParent, NoIdLeft, DieDropping
<1>5. ASSUME NEW query \in inbox, AnswerLocally(query) PROVE AnswersReadRight'
    <2> DEFINE locals == Locals(query.questions)
    <2>1. query.questions \in Seq(Question)
        BY DEF TypeOK, Query
    <2>2. Answers(query, NewPacket, locals, now) /\ heard' = heard
        BY <1>5 DEF AnswerLocally
    <2>3. PICK a : /\ answered' = answered \cup {a}
                   /\ a.about = NewPacket.questions /\ a.missing = current.missing
                   /\ MadeOf(a.packet, NewPacket, query.questions, locals)
        BY <2>2, AnswerIsMade
    <2>4. LocalsFit(query.questions, locals, heard')
        BY <1>0, <2>1, <2>2, FoundFits
    <2>5. MissingFits(query.questions, locals, <<>>)
        <3>1. QuestionNames(<<>>) = {}
            BY DEF QuestionNames
        <3>2. <<>> = query.questions => Len(locals) = 0 /\ DOMAIN locals = {}
            BY <2>1, <2>4, <3>1, EmptySeq, LenProperties DEF LocalsFit
        <3>3. locals \in Seq(Record)
            BY <2>4 DEF LocalsFit
        <3> HIDE DEF locals
        <3>4. <<>> = query.questions => locals = <<>>
            BY <3>2, <3>3, EmptySeq
        <3> QED BY <3>1, <3>4 DEF MissingFits
    <2> HIDE DEF locals
    <2>6. ReadRight(a, heard')
        BY <2>1, <2>3, <2>4, <2>5, NewPacketIsSent, AnswerReadsRight
    <2> QED BY <1>1, <2>2, <2>3, <2>6
<1>6. ASSUME NEW p \in downstream, ReceiveUnreadable(p) \/ IgnoreResponse(p)
      PROVE  AnswersReadRight'
    BY <1>2, <1>6 DEF ReceiveUnreadable, IgnoreResponse
<1>7. ASSUME NEW p \in downstream, AcceptResponse(p) PROVE AnswersReadRight'
    <2> DEFINE questions == current.query.questions
    <2>1. /\ Answers(current.query, p, current.locals, current.since) /\ Hears(p)
          /\ mode = "waiting" /\ Readable(p)
        BY <1>7 DEF AcceptResponse, Receives, Accepted
    <2>2. Sent(p) /\ WellFormed(p) /\ heard \subseteq heard'
        BY <1>0, <2>1 DEF TypeOK, PacketsWellFormed, Hears, Sent
    <2>3. PICK a : /\ answered' = answered \cup {a}
                   /\ a.about = p.questions /\ a.missing = current.missing
                   /\ MadeOf(a.packet, p, questions, current.locals)
        BY <2>1, AnswerIsMade
    <2>4. \A j \in DOMAIN p.records : p.records[j].at > 255 => FarIn(p.records[j], heard')
        <3> SUFFICES ASSUME NEW j \in DOMAIN p.records, p.records[j].at > 255
                     PROVE  FarIn(p.records[j], heard')
            OBVIOUS
        <3> DEFINE x == [type |-> p.records[j].type, owner |-> p.records[j].owner,
                         until |-> now + p.records[j].ttl, far |-> p.records[j].at > 255]
        <3>1. p.records[j] \in Range(p.records)
            BY DEF Range
        <3>2. x \in heard'
            BY <2>1, <3>1 DEF Hears
        <3>3. x.far /\ x.type = p.records[j].type /\ x.owner = p.records[j].owner
            OBVIOUS
        <3> QED BY <3>2, <3>3, Zenon DEF FarIn
    <2>5. questions \in Seq(Question)
        BY <2>1 DEF TypeOK, Query
    <2>6. /\ LocalsFit(questions, current.locals, heard')
          /\ MissingFits(questions, current.locals, current.missing)
        BY <2>1, <2>2, ReadRightStays DEF WaitingFits
    <2> HIDE DEF questions
    <2>7. ReadRight(a, heard')
        BY <2>1, <2>2, <2>3, <2>4, <2>5, <2>6, AnswerReadsRight
    <2> QED BY <1>1, <2>2, <2>3, <2>7
<1>8. ASSUME NEW p \in downstream, AcceptRaises(p) \/ DieCaching(p) PROVE AnswersReadRight'
    BY <1>2, <1>8 DEF AcceptRaises, DieCaching, Hears
<1> QED BY <1>3, <1>4, <1>5, <1>6, <1>7, <1>8 DEF Next

\* Whatever is asked, however much of it is known here, and wherever the names
\* come to stand in the packet of the parent and in the answer, the client
\* reads every record of an answer that is sent under a name it belongs to: a
\* pointer that does not fit into one byte is not written.  It says nothing of
\* records told with a name behind byte 255, of a response to another query, and
\* of aliases the table of names has one entry for (request_handler, from_bytes,
\* DNSPacket.__bytes__).
THEOREM AnswersReadRightAlways == Spec => []AnswersReadRight
<1> DEFINE Inv == TypeOK /\ ToldInv /\ StaticKnown /\ WaitingFits /\ AnswersReadRight
<1>1. Inv /\ [Next]_vars => Inv'
    <2>1. StoreOK' /\ LoopOK' => TypeOK'
        BY TypeParts, PTL
    <2>2. ToldInv => CachedAsTold
        BY DEF ToldInv
    <2> QED BY <2>1, <2>2, StoreStep, LoopStep, NextTold, StaticStep, WaitingFitsStep,
               ReadRightStep
<1>2. Init => Inv
    <2>1. Init => StaticKnown
        BY InitWithin DEF WithinInv
    <2>2. Init => WaitingFits /\ AnswersReadRight
        BY DEF Init, WaitingFits, AnswersReadRight
    <2> QED BY <2>1, <2>2, InitType, InitTold
<1>3. Inv => AnswersReadRight
    OBVIOUS
<1> HIDE DEF Inv
<1> QED BY <1>1, <1>2, <1>3, PTL DEF Spec
=============================================================================
