----------------------------- MODULE MCDnsServer -----------------------------
(***************************************************************************)
(* An instance of DnsServer for TLC.  At the parent, web, cdn, cd, img and *)
(* long have addresses; local is unknown there; top has no address, and    *)
(* asked for twice it is a question whose offset is forgotten.  www is an  *)
(* alias of cdn, which is read as cd; short one of web, whose name is      *)
(* spelled by a pointer alone; pics one of img, which is cd in another     *)
(* zone: its spelled label is read as cd and the pointer that follows      *)
(* cannot be decoded.  long takes so many bytes that a second question     *)
(* starts at 268, where the second byte of a pointer is that of the first  *)
(* question, at 12.                                                        *)
(***************************************************************************)
EXTENDS DnsServer

CONSTANTS local, web, www, cdn, cd, short, top, long, pics, img, Ttls

MCAlias == [n \in {www, short, pics} |->
    CASE n = www -> cdn [] n = short -> web [] n = pics -> img]
MCSize == [n \in Names |-> IF n = long THEN 252 ELSE 5]
MCCutName == [n \in Names |-> IF n \in {cdn, img} THEN cd ELSE NoName]
MCUncutName == [n \in Names |-> IF n = cdn THEN cdn ELSE NoName]

A(n) == [name |-> n, type |-> "A"]
AAAA(n) == [name |-> n, type |-> "AAAA"]

Sent(section, type, at, owner, ttl, size) ==
    [section |-> section, type |-> type, at |-> at, owner |-> owner, ttl |-> ttl, size |-> size]

\* What is given for a question at the place here, when the first record is
\* written at start: an alias and the address of its target, an address, or
\* the record of the zone, whose name is that of the question only at the top
\* of the zone.
RecordsFor(n, type, here, start, ttl) ==
    CASE n \in DOMAIN MCAlias ->
            <<Sent(ANSWERS, "CNAME", here, MCAlias[n], ttl, 5),
              Sent(ANSWERS, type, start + 12, MCAlias[n], ttl, 4)>>
      [] n = web ->
            <<Sent(ANSWERS, type, here, n, ttl, 4), Sent(ADDITIONAL, "AAAA", here, n, ttl, 16)>>
      [] n \in {cdn, cd, img, long} -> <<Sent(ANSWERS, type, here, n, ttl, 4)>>
      [] n = local -> <<>>
      [] OTHER -> <<Sent(AUTHORITY, "SOA", IF n = top THEN here ELSE here + 1, n, ttl, 30)>>

\* Of two questions the first is one with a single record.
ParentRecords(questions, ttl) ==
    LET a == questions[1]
        b == questions[2]
        second == 16 + MCSize[a.name]
        end == second + 4 + MCSize[b.name]
        first == RecordsFor(a.name, a.type, 12, end, ttl)
    IN  IF Len(questions) = 1 THEN RecordsFor(a.name, a.type, 12, second, ttl)
        ELSE first \o RecordsFor(b.name, b.type, second,
                                 IF first = <<>> THEN end ELSE end + 12 + first[1].size, ttl)

Asked ==
    {<<A(local), A(web)>>, <<A(www)>>, <<A(cd), A(www)>>, <<A(short)>>,
     <<A(pics)>>, <<A(top), AAAA(top)>>, <<A(long), A(web)>>, <<A(long), A(local)>>}

MCResponses ==
    [questions \in Asked \cup {<<q>> : q \in Question} |->
        {ParentRecords(questions, ttl) : ttl \in Ttls}]

Asks(id, questions, extended) ==
    [id |-> id, questions |-> questions, extended |-> extended]

MCQueries ==
    {Asks(3, questions, FALSE) : questions \in Asked}
    \cup {Asks(1, <<A(web)>>, FALSE), Asks(3, <<A(local)>>, TRUE)}
=============================================================================
