------------------------------ MODULE DnsPackets ------------------------------
(***************************************************************************)
(* The packets of the DNS server, as far as their names go.  A record does *)
(* not spell its name: it holds a pointer, the offset of a place in the    *)
(* packet where the name is spelled, a question or the data of a CNAME     *)
(* record.  The code keeps the table domainNames from names to offsets     *)
(* while it reads or writes a packet; here the table is a function of the  *)
(* packet.  A packet is its questions and its records; its bytes are only  *)
(* counted, which is all that decides where a pointer leads.               *)
(***************************************************************************)
EXTENDS Naturals, Sequences, FiniteSetsExt

CONSTANTS
    Names,
    NoName,
    Size,       \* the bytes of a name that is spelled, with its last 0
    CutName,    \* the name that is read where the data of a CNAME spells n,
                \* without its last two bytes, or NoName where nothing is left
    UncutName   \* the name that is read of the whole data, or NoName where a
                \* pointer in it is taken for text and cannot be decoded

ASSUME NamesAssumption ==
    /\ Size \in [Names -> Nat \ {0}]
    /\ CutName \in [Names -> Names \cup {NoName}]
    /\ UncutName \in [Names -> Names \cup {NoName}]
    /\ NoName \notin Names

Types == {"A", "AAAA", "CNAME", "SOA"}
Question == [name : Names, type : {"A", "AAAA"}]

\* The sections of the records, in the order of a packet.
ANSWERS == 1
AUTHORITY == 2
ADDITIONAL == 3

\* A record as it is sent, with size bytes of data, and as the server keeps
\* it.  An address is known by its owner; the data of a CNAME is the name owner.
SentRecord == [section : ANSWERS..ADDITIONAL, type : Types, at : Nat, owner : Names,
               ttl : Nat, size : Nat]
Record == [section : ANSWERS..ADDITIONAL, name : Names, type : Types, owner : Names,
           ttl : Nat, size : Nat]
Named(name, sent) ==
    [section |-> sent.section, name |-> name, type |-> sent.type, owner |-> sent.owner,
     ttl |-> sent.ttl, size |-> sent.size]
Pointing(at, record) ==
    [section |-> record.section, type |-> record.type, at |-> at, owner |-> record.owner,
     ttl |-> record.ttl, size |-> record.size]

-----------------------------------------------------------------------------
(***************************************************************************)
(* Where things are in a packet: after a header of 12 bytes the questions, *)
(* each a name with 4 bytes, and then the records, each 12 bytes with its  *)
(* data.  upTo[i] is where the first i of them end.                        *)
(***************************************************************************)
Length(p, i) ==
    LET q == Len(p.questions)
    IN  IF i <= q THEN Size[p.questions[i].name] + 4 ELSE 12 + p.records[i - q].size

UpTo(p) ==
    LET upTo[i \in 0..(Len(p.questions) + Len(p.records))] ==
            IF i = 0 THEN 12 ELSE upTo[i - 1] + Length(p, i)
    IN  upTo

QuestionPlace(p, i) == UpTo(p)[i - 1]
DataPlace(p, k) == UpTo(p)[Len(p.questions) + k - 1] + 12

QuestionNames(questions) == {questions[i].name : i \in DOMAIN questions}
QuestionOffset(p, n) ==
    QuestionPlace(p, Max({i \in DOMAIN p.questions : p.questions[i].name = n}))

-----------------------------------------------------------------------------
(***************************************************************************)
(* DNSPacket.from_bytes.  The table holds the questions, and the names of  *)
(* the CNAME records read so far; a later entry of a name replaces an      *)
(* earlier one.  from_bytes drops the last two bytes of the data of a      *)
(* CNAME, so that the name of its target is read as CutName; when they are *)
(* all it has, there is nothing to read and IndexError is raised.          *)
(***************************************************************************)
AliasesBefore(p, j, n) ==
    {k \in 1..(j - 1) : p.records[k].type = "CNAME" /\ CutName[p.records[k].owner] = n}

KnownBefore(p, j) ==
    QuestionNames(p.questions) \cup
    {CutName[p.records[k].owner] : k \in {k \in 1..(j - 1) : p.records[k].type = "CNAME"}}

OffsetBefore(p, j, n) ==
    IF AliasesBefore(p, j, n) # {}
        THEN DataPlace(p, Max(AliasesBefore(p, j, n)))
        ELSE QuestionOffset(p, n)

\* Of the two bytes of a pointer only the second is looked at.
PointerByte(at) == at % 256

NamesOf(p, j) ==
    {n \in KnownBefore(p, j) : OffsetBefore(p, j, n) = PointerByte(p.records[j].at)}

\* from_bytes raises nothing, reversedDomainNames[...] in particular.
Readable(p) ==
    \A j \in DOMAIN p.records :
        /\ NamesOf(p, j) # {}
        /\ p.records[j].type = "CNAME" => CutName[p.records[j].owner] # NoName

Read(p) ==
    [j \in DOMAIN p.records |->
        Named(CHOOSE n \in NamesOf(p, j) : TRUE, p.records[j])]

-----------------------------------------------------------------------------
(***************************************************************************)
(* DNSPacket.__bytes__.  The table is the one the packet p was read with,  *)
(* in which every question is entered again, and then the name read of the *)
(* whole data of each CNAME record, two bytes before that data.            *)
(***************************************************************************)
\* A bug for AnswersReadRight: a name the packet was read with keeps its offset.
OffsetKept(p, w, j, n) ==
    IF n \in KnownBefore(p, Len(p.records) + 1)
        THEN OffsetBefore(p, Len(p.records) + 1, n)
        ELSE QuestionOffset(w, n)

WrittenOffset(p, w, j, n) ==
    LET written == {k \in 1..(j - 1) : w.records[k].type = "CNAME"
                                       /\ UncutName[w.records[k].owner] = n}
    IN  IF written # {} THEN DataPlace(w, Max(written)) - 2
        ELSE IF n \in QuestionNames(w.questions) THEN QuestionOffset(w, n)
        ELSE OffsetBefore(p, Len(p.records) + 1, n)

\* The packet w as it is sent.
Written(p, w) ==
    [questions |-> w.questions,
     records |-> [j \in DOMAIN w.records |->
        Pointing(WrittenOffset(p, w, j, w.records[j].name), w.records[j])]]

\* to_bytes raises nothing: a pointer gets one byte for its offset, and the
\* name of a target can be read.
Writable(sent) ==
    \A j \in DOMAIN sent.records :
        /\ sent.records[j].at <= 255
        /\ sent.records[j].type = "CNAME" => UncutName[sent.records[j].owner] # NoName

-----------------------------------------------------------------------------
\* How a resolver that follows RFC 1035 reads the name of record j of p: the
\* name spelled at the offset, and no name when nothing is spelled there.
NamesRead(p, j) ==
    {p.questions[i].name : i \in {i \in DOMAIN p.questions :
            QuestionPlace(p, i) = p.records[j].at}}
    \cup {p.records[k].owner : k \in {k \in DOMAIN p.records :
            p.records[k].type = "CNAME" /\ DataPlace(p, k) = p.records[j].at}}
=============================================================================
