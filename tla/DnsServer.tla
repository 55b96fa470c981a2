------------------------------- MODULE DnsServer -------------------------------
(***************************************************************************)
(* The DNS server: its loop, which handles one query at a time, the static *)
(* and cached records it keeps in memory and in dns.json, and the parent   *)
(* server it asks for what it does not know.  The process may die and be   *)
(* started again, also in the middle of save_database; an exception that   *)
(* nothing catches ends it as well.                                        *)
(*                                                                         *)
(* The clients and the parent are not part of the repository.  What the    *)
(* parent may answer is a constant, of which only what RFC 1035 asks is    *)
(* assumed; a message between it and the server may be lost, delayed or    *)
(* received twice.  The server is the only process that touches its file,  *)
(* so a handler is one action, with a second action for each place where   *)
(* the process may die in it.                                              *)
(***************************************************************************)
EXTENDS DnsPackets

CONSTANTS
    NoRecord,
    Static,         \* the static records of the operator's dns.json
    DefaultStatic,  \* those of Database()
    Alias,          \* at the parent: the target of each name with a CNAME
    Responses,      \* the records the parent may answer some questions with
    Queries,        \* what the clients may ask: the transaction id, the
                    \* questions, and whether there is an OPT record (EDNS)
    StaticTtl,
    MaxTime, MaxQueries, MaxLosses, MaxRepeats, MaxCrashes  \* bounds

\* A record is given for the name of a question, or for the target of a CNAME
\* record that comes before it; only what is no CNAME record may be given for
\* a name that is spelled elsewhere.  A CNAME record says what the alias is.
GivenFor(p, j, owner) ==
    \/ \E i \in DOMAIN p.questions :
            p.records[j].at = QuestionPlace(p, i) /\ p.questions[i].name = owner
    \/ \E k \in 1..(j - 1) :
            /\ p.records[j].at = DataPlace(p, k)
            /\ p.records[k].type = "CNAME" /\ p.records[k].owner = owner

\* No question and no CNAME record spells its name at this place.
Elsewhere(p, at) ==
    /\ \A i \in DOMAIN p.questions : at # QuestionPlace(p, i)
    /\ \A k \in DOMAIN p.records : p.records[k].type = "CNAME" => at # DataPlace(p, k)

WellFormed(p) ==
    /\ \A j, k \in DOMAIN p.records : j < k => p.records[j].section <= p.records[k].section
    /\ \A j \in DOMAIN p.records :
        IF p.records[j].type = "CNAME"
            THEN \E n \in DOMAIN Alias : Alias[n] = p.records[j].owner /\ GivenFor(p, j, n)
            ELSE Elsewhere(p, p.records[j].at) \/ GivenFor(p, j, p.records[j].owner)

ASSUME RecordsAssumption ==
    /\ Static \cup DefaultStatic \subseteq Names
    /\ NoRecord \notin [owner : Names, expired : Nat]
ASSUME ResponsesAssumption ==
    \A questions \in DOMAIN Responses : \A records \in Responses[questions] :
        /\ questions \in Seq(Question)
        /\ records \in Seq(SentRecord)
        /\ WellFormed([questions |-> questions, records |-> records])
ASSUME BoundsAssumption ==
    /\ \A q \in Queries : /\ q.id \in Nat /\ q.extended \in BOOLEAN
                          /\ q.questions \in Seq(Question)
    /\ StaticTtl \in Nat
    /\ {MaxTime, MaxQueries, MaxLosses, MaxRepeats, MaxCrashes} \subseteq Nat

VARIABLES
    now,                    \* int(time.time())
    mode,                   \* "loop", "waiting" for the parent, or "down"
    static, cache,          \* the database in memory
    file,                   \* dns.json
    current,                \* the query under way, while waiting
    inbox,                  \* the queries that have not been received
    upstream, downstream,   \* the packets to and from the parent
    heard, answered,        \* what the parent has said, what was answered
    asked, losses, repeats, crashes

database == <<static, cache>>
network == <<upstream, downstream, losses, repeats>>
bounded == <<now, asked, crashes>>
vars == <<database, file, mode, current, inbox, heard, answered, network, bounded>>

NoCache == [n \in Names |-> NoRecord]
Absent == [state |-> "absent", static |-> {}, cache |-> NoCache]
Empty == [Absent EXCEPT !.state = "empty"]
Saved(s, c) == [state |-> "whole", static |-> s, cache |-> c]

CacheRecord == [owner : Names, expired : Nat]
Query == [tag : 1..MaxQueries, id : Nat, questions : Seq(Question), extended : BOOLEAN]

TypeOK ==
    /\ now \in 0..MaxTime
    /\ mode \in {"loop", "waiting", "down"}
    /\ static \in SUBSET Names
    /\ cache \in [Names -> CacheRecord \cup {NoRecord}]
    /\ file.state \in {"absent", "empty", "whole"}
    /\ file.static \in SUBSET Names
    /\ file.cache \in [Names -> CacheRecord \cup {NoRecord}]
    /\ file.state # "whole" => file \in {Absent, Empty}
    /\ inbox \in SUBSET Query
    /\ mode = "waiting" => /\ current.query \in Query
                           /\ current.id \in 1..(current.query.id - 1)
    /\ \A p \in upstream : p.id \in Nat
    /\ \A p \in downstream :
            p.id \in Nat /\ p.questions \in Seq(Question) /\ p.records \in Seq(SentRecord)
    /\ asked \in 0..MaxQueries /\ crashes \in 0..MaxCrashes
    /\ losses \in 0..MaxLosses /\ repeats \in 0..MaxRepeats

NoQuery == [query |-> NoRecord, locals |-> <<>>, missing |-> <<>>, id |-> 0, since |-> 0]

\* The server is not started yet; the operator has written dns.json, or not.
Init ==
    /\ now = 0
    /\ mode = "down"
    /\ static = {}
    /\ cache = NoCache
    /\ file \in {Absent, Saved(Static, NoCache)}
    /\ current = NoQuery
    /\ inbox = {}
    /\ upstream = {} /\ downstream = {}
    /\ heard = {} /\ answered = {}
    /\ asked = 0 /\ losses = 0 /\ repeats = 0 /\ crashes = 0

Tick ==
    /\ now < MaxTime
    /\ now' = now + 1
    /\ UNCHANGED <<database, file, mode, current, inbox, heard, answered, network,
                   asked, crashes>>

\* What is sent to a server that does not run is lost.
ClientAsks ==
    /\ mode # "down"
    /\ asked < MaxQueries
    /\ asked' = asked + 1
    /\ \E q \in Queries :
        inbox' = inbox \cup {[tag |-> asked + 1, id |-> q.id, questions |-> q.questions,
                              extended |-> q.extended]}
    /\ UNCHANGED <<database, file, mode, current, heard, answered, network, now, crashes>>

-----------------------------------------------------------------------------
(***************************************************************************)
(* The process ends: main_loop is left by an exception, or it is killed.   *)
(* What it had in memory is gone, and so is what waits in its socket.      *)
(***************************************************************************)
Ends ==
    /\ mode' = "down"
    /\ static' = {}
    /\ cache' = NoCache
    /\ current' = NoQuery
    /\ inbox' = {}

Dies ==
    /\ crashes < MaxCrashes
    /\ crashes' = crashes + 1
    /\ Ends

\* save_database removes the file, and opens the new one, before it writes.
DiesSaving == Dies /\ file' \in {Absent, Empty}

Crash ==
    /\ mode # "down"
    /\ Dies
    /\ UNCHANGED <<file, heard, answered, network, now, asked>>

\* get_database; json.load raises on an empty file, whoever starts the server.
Start ==
    /\ mode = "down"
    /\ file.state # "empty"
    /\ mode' = "loop"
    /\ IF file.state = "whole"
          THEN static' = file.static /\ cache' = file.cache /\ UNCHANGED file
          ELSE static' = DefaultStatic /\ cache' = NoCache /\ file' = Saved(static', cache')
    /\ UNCHANGED <<current, inbox, heard, answered, network, bounded>>

\* It dies in get_database, while the new database is saved.
DieCreating ==
    /\ mode = "down"
    /\ file.state = "absent"
    /\ DiesSaving
    /\ UNCHANGED <<heard, answered, network, now, asked>>

-----------------------------------------------------------------------------
(***************************************************************************)
(* get_active_record for every question of a query: what is answered from  *)
(* here, and the cached records that it drops because they are too old.    *)
(* The type of the question is not looked at.                              *)
(***************************************************************************)
Expired(n) == n \notin static /\ cache[n] # NoRecord /\ cache[n].expired < now

DropExpired(questions) ==
    [n \in Names |-> IF n \in QuestionNames(questions) /\ Expired(n) THEN NoRecord ELSE cache[n]]

IsLocal(n) == n \in static \/ (cache[n] # NoRecord /\ ~Expired(n))

Address(n, owner, ttl) ==
    [section |-> ANSWERS, name |-> n, type |-> "A", owner |-> owner, ttl |-> ttl, size |-> 4]

\* A bug for WithinTimeToLive: the time to live as it was when it was cached.
ActiveRecordUnaged(n) ==
    IF n \in static THEN Address(n, n, StaticTtl)
    ELSE Address(n, cache[n].owner, cache[n].expired)

ActiveRecord(n) ==
    IF n \in static THEN Address(n, n, StaticTtl)
    ELSE Address(n, cache[n].owner, cache[n].expired - now)

\* The questions about a set of names, in the order of the query.
Among(questions, names) ==
    LET among[i \in 0..Len(questions)] ==
            IF i = 0 THEN <<>>
            ELSE IF questions[i].name \in names THEN Append(among[i - 1], questions[i])
            ELSE among[i - 1]
    IN  among[Len(questions)]

\* queriesRecords, after each of the questions.
Missing(questions) == Among(questions, {n \in Names : ~IsLocal(n)})

Locals(questions) ==
    LET found == Among(questions, {n \in Names : IsLocal(n)})
    IN  [i \in DOMAIN found |-> ActiveRecord(found[i].name)]

AllLocal(questions) == Missing(questions) = <<>>

-----------------------------------------------------------------------------
(***************************************************************************)
(* The end of request_handler.  The packet that is sent to the client is   *)
(* that of the parent, or a new one, with the questions of the client and  *)
(* with what is known here behind the records of the answers section.      *)
(***************************************************************************)
WithLocals(records, locals) ==
    LET answers == Max({0} \cup {j \in DOMAIN records : records[j].section = ANSWERS})
    IN  SubSeq(records, 1, answers) \o locals \o SubSeq(records, answers + 1, Len(records))

\* There is one answer to a query.
Answer(query, packet, locals) ==
    {Written(packet, [questions |-> query.questions, records |-> records]) :
        records \in {WithLocals(Read(packet), locals)}}

Answers(query, packet, locals, since) ==
    \E answer \in Answer(query, packet, locals) :
    /\ Writable(answer)
    /\ answered' = answered \cup
        {[tag |-> query.tag, since |-> since, sent |-> now,
          about |-> packet.questions, missing |-> current.missing,
          packet |-> answer]}

-----------------------------------------------------------------------------
(***************************************************************************)
(* main_loop and the first half of request_handler.                        *)
(***************************************************************************)
Gets(query) ==
    /\ mode = "loop"
    /\ query \in inbox

Takes(query) == Gets(query) /\ inbox' = inbox \ {query}

\* The name of an OPT record is the root, which is not a place in the packet:
\* from_bytes raises KeyError in recvfrom.
TakeExtended(query) ==
    /\ Gets(query)
    /\ query.extended
    /\ Ends
    /\ UNCHANGED <<file, heard, answered, network, bounded>>

\* A bug for FileIsMemory: a drop is not saved.
LooksUpOnly(query) ==
    /\ ~query.extended
    /\ cache' = DropExpired(query.questions)
    /\ UNCHANGED file

\* The records that are too old are dropped; each drop saves the database.
LooksUp(query) ==
    LET left == DropExpired(query.questions)
    IN  /\ ~query.extended
        /\ cache' = left
        /\ file' = IF left = cache THEN file ELSE Saved(static, left)

NewPacket == [questions |-> <<>>, records |-> <<>>]

AnswerLocally(query) ==
    /\ Takes(query)
    /\ LooksUp(query)
    /\ AllLocal(query.questions)
    /\ Answers(query, NewPacket, Locals(query.questions), now)
    /\ UNCHANGED <<static, mode, current, heard, network, bounded>>

\* An exception after the look-up; what was dropped is saved.
LooksUpAndEnds(query) ==
    /\ ~query.extended
    /\ file' = IF DropExpired(query.questions) = cache THEN file
               ELSE Saved(static, DropExpired(query.questions))
    /\ Ends

\* The name of a question that starts behind byte 255 is asked for again in a
\* record, and to_bytes raises ValueError.
AnswerLocallyRaises(query) ==
    /\ Gets(query)
    /\ AllLocal(query.questions)
    /\ \E answer \in Answer(query, NewPacket, Locals(query.questions)) : ~Writable(answer)
    /\ LooksUpAndEnds(query)
    /\ UNCHANGED <<heard, answered, network, bounded>>

\* A bug for TypeOK: 0 is a choice as well.
NewIdsFromZero(id) == 0..(id - 1)

\* random.randint(1, id - 1) chooses the id of the query to the parent.
NewIds(id) == 1..(id - 1)

AskParent(query) ==
    /\ Takes(query)
    /\ LooksUp(query)
    /\ ~AllLocal(query.questions)
    /\ \E id \in NewIds(query.id) :
        /\ upstream' = upstream \cup
                {[id |-> id, for |-> query.tag, questions |-> Missing(query.questions)]}
        /\ current' = [query |-> query, locals |-> Locals(query.questions),
                       missing |-> Missing(query.questions), id |-> id, since |-> now]
    /\ mode' = "waiting"
    /\ UNCHANGED <<static, heard, answered, downstream, losses, repeats, bounded>>

\* There is no number from 1 to id - 1, and randint raises ValueError.
NoIdLeft(query) ==
    /\ Gets(query)
    /\ ~AllLocal(query.questions)
    /\ NewIds(query.id) = {}
    /\ LooksUpAndEnds(query)
    /\ UNCHANGED <<heard, answered, network, bounded>>

\* It dies while the drop of a record is saved, or between two such drops.
DieDropping(query) ==
    /\ Gets(query)
    /\ ~query.extended
    /\ DropExpired(query.questions) # cache
    /\ \/ DiesSaving
       \/ /\ Dies
          /\ \E i \in DOMAIN query.questions :
                file' = Saved(static, DropExpired(SubSeq(query.questions, 1, i)))
    /\ UNCHANGED <<heard, answered, network, now, asked>>

-----------------------------------------------------------------------------
(***************************************************************************)
(* The parent server, and what is between it and this one.                 *)
(***************************************************************************)
ParentAnswers(p) ==
    /\ p \in upstream
    /\ upstream' = upstream \ {p}
    /\ p.questions \in DOMAIN Responses
    /\ \E records \in Responses[p.questions] :
        downstream' = downstream \cup
            {[id |-> p.id, for |-> p.for, questions |-> p.questions, records |-> records]}
    /\ UNCHANGED <<database, file, mode, current, inbox, heard, answered, losses, repeats,
                   bounded>>

\* Nothing between the server and the parent is ever sent again.
Lose ==
    /\ losses < MaxLosses
    /\ losses' = losses + 1
    /\ \/ \E p \in upstream : upstream' = upstream \ {p} /\ UNCHANGED downstream
       \/ \E p \in downstream : downstream' = downstream \ {p} /\ UNCHANGED upstream
    /\ UNCHANGED <<database, file, mode, current, inbox, heard, answered, repeats, bounded>>

-----------------------------------------------------------------------------
(***************************************************************************)
(* The second half of request_handler: it waits, for ever if need be, for  *)
(* a response with the id of its query, whatever that response is about.   *)
(***************************************************************************)
Receives(p) ==
    /\ mode = "waiting"
    /\ p \in downstream
    /\ \/ downstream' = downstream \ {p} /\ UNCHANGED repeats
       \/ repeats < MaxRepeats /\ repeats' = repeats + 1 /\ UNCHANGED downstream
    /\ UNCHANGED <<upstream, losses>>

\* A bug for Served: the id of the client instead of the new one.
AcceptedByClientId(p) == Readable(p) /\ p.id = current.query.id

Accepted(p) == Readable(p) /\ p.id = current.id

ReceiveUnreadable(p) ==
    /\ Receives(p)
    /\ ~Readable(p)
    /\ Ends
    /\ UNCHANGED <<file, heard, answered, bounded>>

IgnoreResponse(p) ==
    /\ Receives(p)
    /\ Readable(p)
    /\ ~Accepted(p)
    /\ UNCHANGED <<database, file, mode, current, inbox, heard, answered, bounded>>

\* save_cache_into_database goes through the additional records, those of the
\* authority, and the answers: of the records of one name the last one stays.
CacheOf(records, saved) ==
    [n \in Names |->
        LET about == {j \in saved : records[j].name = n}
            last == Max({j \in about : \A k \in about :
                            records[j].section <= records[k].section})
        IN  IF about = {} THEN cache[n]
            ELSE [owner |-> records[last].owner, expired |-> now + records[last].ttl]]

\* A bug for CachedAsTold: records of every type are cached.
CacheAny(records) == CacheOf(records, DOMAIN records)

CacheWith(records) == CacheOf(records, {j \in DOMAIN records : records[j].type = "A"})

Hears(p) ==
    heard' = heard \cup {[type |-> r.type, owner |-> r.owner, until |-> now + r.ttl,
                          far |-> r.at > 255] : r \in Range(p.records)}

AcceptResponse(p) ==
    /\ Receives(p)
    /\ Accepted(p)
    /\ \E records \in {Read(p)} : cache' = CacheWith(records)
    /\ file' = Saved(static, cache')
    /\ Hears(p)
    /\ Answers(current.query, p, current.locals, current.since)
    /\ mode' = "loop"
    /\ current' = NoQuery
    /\ UNCHANGED <<static, inbox, bounded>>

\* The answer cannot be written: to_bytes raises on an offset above 255 or on
\* the data of a CNAME.  What the parent said is cached and saved by then.
AcceptRaises(p) ==
    /\ Receives(p)
    /\ Accepted(p)
    /\ \E answer \in Answer(current.query, p, current.locals) : ~Writable(answer)
    /\ file' = Saved(static, CacheWith(Read(p)))
    /\ Hears(p)
    /\ Ends
    /\ UNCHANGED <<answered, bounded>>

DieCaching(p) ==
    /\ Receives(p)
    /\ Accepted(p)
    /\ Hears(p)
    /\ \/ DiesSaving
       \/ Dies /\ file' = Saved(static, CacheWith(Read(p)))
    /\ UNCHANGED <<answered, now, asked>>

-----------------------------------------------------------------------------
Next ==
    \/ Tick
    \/ ClientAsks
    \/ Crash
    \/ Start
    \/ DieCreating
    \/ Lose
    \/ \E query \in inbox :
        \/ TakeExtended(query)
        \/ AnswerLocally(query)
        \/ AnswerLocallyRaises(query)
        \/ AskParent(query)
        \/ NoIdLeft(query)
        \/ DieDropping(query)
    \/ \E p \in upstream : ParentAnswers(p)
    \/ \E p \in downstream :
        \/ ReceiveUnreadable(p)
        \/ IgnoreResponse(p)
        \/ AcceptResponse(p)
        \/ AcceptRaises(p)
        \/ DieCaching(p)

\* A live process keeps calling recvfrom, in its loop or while it waits, and
\* takes what is there; the parent answers.  Nobody has to ask, and nothing is
\* ever lost for certain.
Spec ==
    /\ Init /\ [][Next]_vars
    /\ WF_inbox(\E query \in inbox : Takes(query))
    /\ WF_vars(\E p \in upstream : ParentAnswers(p))
    /\ WF_network(\E p \in downstream : Receives(p))

-----------------------------------------------------------------------------
\* What is cached under n is the address of the owner of n, or of the target
\* of some alias whose name from_bytes cuts to n.
MayBeCalled(owner, n) ==
    \/ n = owner
    \/ owner \in Range(Alias) /\ n = CutName[owner]

\* The cache, in memory and on the disk, never holds an A record beyond the
\* time the parent gave it for, nor under a name it did not give it for when
\* the place of the name was one that a single byte can hold: whatever response
\* was taken for another, and wherever the process died (from_bytes, which looks
\* at one byte of a pointer, save_cache_into_database, get_database).
CachedAsTold ==
    \A c \in {cache, file.cache}, n \in Names :
        c[n] # NoRecord =>
            \E h \in heard :
                /\ h.type = "A" /\ h.owner = c[n].owner /\ h.until = c[n].expired
                /\ h.far \/ MayBeCalled(h.owner, n)

\* Between two handlers, and while it waits, the server has in dns.json what
\* it has in memory: a restart forgets nothing and revives no dropped record
\* (save_database after every pop and every response).
FileIsMemory == mode # "down" => file = Saved(static, cache)

\* An address from the parent is never given out for longer than the parent
\* allowed, counted from the moment the answer leaves: the time to live of a
\* cached record is what remains of it (get_active_record).  When a query of
\* several questions waits, its cached answers are as old as its arrival.
WithinTimeToLive ==
    \A a \in answered : \A r \in Range(a.packet.records) :
        r.type = "A" /\ r.owner \notin Static \cup DefaultStatic =>
            \E h \in heard :
                /\ h.type = "A" /\ h.owner = r.owner
                /\ (IF Len(a.packet.questions) = 1 THEN a.sent ELSE a.since) + r.ttl <= h.until

\* The table of names, from names to offsets, has one entry for each target,
\* and no target is entered again, two bytes too early, under the name of a
\* question or under one that a record is read with.
ToldApart(targets, questions) ==
    \A n \in targets :
        /\ UncutName[n] \notin QuestionNames(questions)
        /\ \A m \in targets :
                UncutName[n] # CutName[m] /\ (CutName[n] = CutName[m] => n = m)

\* The names a record may be given for.
Owners(record) ==
    IF record.type = "CNAME" THEN {n \in DOMAIN Alias : Alias[n] = record.owner}
    ELSE {record.owner}

\* What the parent said of this record, it said with a name that is spelled
\* behind byte 255, which from_bytes takes for another.
ToldFar(record) ==
    \E h \in heard : h.far /\ h.type = record.type /\ h.owner = record.owner

\* The client reads every record of an answer under a name it belongs to: the
\* offsets are right although the packet of the parent is sent on with other
\* questions and more records, wherever they come to stand in it.  It fails for
\* a record that was told far, and where the response was one to an earlier
\* query with the same id, where an alias is answered beside a name that is
\* known here, and where the target of an alias is asked for as well or is cut
\* to the name of another (request_handler, from_bytes, DNSPacket.__bytes__).
AnswersReadRight ==
    \A a \in answered :
        LET records == a.packet.records
            targets == {records[j].owner : j \in {j \in DOMAIN records :
                            records[j].type = "CNAME"}}
        IN  /\ a.about = a.missing
            /\ \/ targets = {}
               \/ a.missing = a.packet.questions /\ ToldApart(targets, a.missing)
            => \A j \in DOMAIN records :
                    /\ NamesRead(a.packet, j) # {}
                    /\ \A n \in NamesRead(a.packet, j) :
                            \/ ToldFar(records[j])
                            \/ \E m \in Owners(records[j]) : MayBeCalled(m, n)

\* A query is answered, unless the server ends or a packet between it and the
\* parent was lost: the wait has no end of its own (request_handler).
Served ==
    \A tag \in 1..MaxQueries :
        (\E query \in inbox : query.tag = tag)
            ~> (\/ \E a \in answered : a.tag = tag
                \/ mode = "down"
                \/ losses > 0)
=============================================================================
