------------------------ MODULE RudpUploadServiceProofs ------------------------
(***************************************************************************)
(* What RudpUpload writes to the storage, with and without restarts, and   *)
(* that it implements UploadService.                                       *)
(***************************************************************************)
EXTENDS RudpUploadProofs

-----------------------------------------------------------------------------
(***************************************************************************)
(* Frames.                                                                 *)
(***************************************************************************)

\* The clients and the network leave the server alone.
LEMMA ServerFrame ==
    ASSUME (\E c \in Clients : ClientStep(c)) \/ NetworkStep \/ UNCHANGED vars
    PROVE  UNCHANGED serverVars
BY DEF vars, ClientStep, ClientStart, ClientResponse, ClientNoResponse, Send, EnterRefresh,
    ClientReceive, RefreshTimeout, RefreshEarlyTimeout, NetworkStep, LoseToServer, LoseToClient

\* The server leaves the clients alone, and loses no packet.
LEMMA ClientFrame ==
    ASSUME ServerStep
    PROVE  UNCHANGED clientVars /\ c2s' = c2s
BY DEF ServerStep, ServerAccept, ServerReject, ServerSegment, ServerUnknown,
    PostUploadRemove, PostUploadOpen, PostUploadWrite, ServerRestart

-----------------------------------------------------------------------------
(***************************************************************************)
(* A stored file is whole, also after restarts.                            *)
(***************************************************************************)
KeptOnce(S) == \A s, t \in S : s[2] = t[2] => s = t

\* No segment number is kept twice, and post_upload is called for as many
\* segments as the request has.
KeptInv ==
    /\ \A id \in RequestID : KeptOnce(segments[id])
    /\ serverPc # "loop" => Complete(storing, segments[storing])
    /\ \A c \in Clients : fileState[c] = "written" =>
            Cardinality(file[c]) = AmountOf[c] /\ KeptOnce(file[c])

\* Half a file is the work of a process that has ended, or of this one.
TornInv ==
    \A c \in Clients : fileState[c] = "torn" =>
        restarts > 0 \/ (serverPc = "fill" /\ owner[storing] = c)

\* A client with an address of its own sends and leaves segments of its body
\* only, for whatever request they are taken.
OfBodies(S) == \A s \in S : s[2] < AmountOf[s[1]]

NumbersInv ==
    /\ \A m \in s2c : m.type = "Response" =>
            \A c \in Clients : AddrOf[c] = m.to => m.seg = AmountOf[c]
    /\ WindowsInBody
    /\ \A m \in c2s : m.type = "Segment" => m.seg < AmountOf[m.client]
    /\ \A id \in RequestID : OfBodies(segments[id])
    /\ \A c \in Clients : fileState[c] = "written" => OfBodies(file[c])

WholeInv == KeptInv /\ TornInv /\ (DistinctAddresses => NumbersInv)

\* Before the first step nothing is kept or written.
LEMMA InitWhole == Init => WholeInv
<1> SUFFICES ASSUME Init PROVE WholeInv
    OBVIOUS
<1>1. KeptInv
    BY DEF Init, KeptInv, KeptOnce
<1>2. NumbersInv
    BY DEF Init, NumbersInv, WindowsInBody, OfBodies
<1>3. TornInv
    BY DEF Init, TornInv
<1> QED BY <1>1, <1>2, <1>3 DEF WholeInv

\* What a segment adds is no second copy of a number.
LEMMA KeptReceived ==
    ASSUME TypeOK, NEW m \in c2s, m.id \in RequestID, KeptOnce(segments[m.id])
    PROVE  KeptOnce(Received(m))
<1>1. m.client \in Clients /\ m.seg \in Nat /\ segments[m.id] \subseteq Clients \X Nat
    BY DEF TypeOK, ClientPocket
<1> QED BY <1>1 DEF Received, KeptOnce

\* The server writes what it has counted.
LEMMA KeptStep == TypeOK /\ KeptInv /\ [Next]_vars => KeptInv'
<1> SUFFICES ASSUME TypeOK, KeptInv, [Next]_vars PROVE KeptInv'
    OBVIOUS
<1>1. CASE UNCHANGED serverVars
    BY <1>1 DEF KeptInv, KeptOnce, Complete, serverVars, handlerVars, storeVars
<1>2. ASSUME NEW m \in c2s, ServerAccept(m) PROVE KeptInv'
    <2> DEFINE id == lastRequestID + 1
    <2>1. /\ serverPc = "loop" /\ segments' = [segments EXCEPT ![id] = {}]
          /\ UNCHANGED <<serverPc, fileState, file>>
        BY <1>2 DEF ServerAccept, storeVars
    <2>2. \A x \in RequestID : segments'[x] = segments[x] \/ segments'[x] = {}
        BY <2>1 DEF TypeOK
    <2> QED BY <2>1, <2>2 DEF KeptInv, KeptOnce
<1>3. ASSUME NEW m \in c2s, ServerSegment(m) PROVE KeptInv'
    <2>1. /\ m.id \in RequestID /\ segments' = [segments EXCEPT ![m.id] = Received(m)]
          /\ serverPc = "loop" /\ UNCHANGED <<owner, fileState, file>>
          /\ \/ Complete(m.id, Received(m)) /\ storing' = m.id
             \/ serverPc' = "loop"
        BY <1>3 DEF ServerSegment, TypeOK
    <2>2. \A x \in RequestID : segments'[x] = IF x = m.id THEN Received(m) ELSE segments[x]
        BY <2>1 DEF TypeOK
    <2>3. KeptOnce(Received(m))
        <3>1. KeptOnce(segments[m.id])
            BY <2>1 DEF KeptInv
        <3> QED BY <2>1, <3>1, KeptReceived
    <2>4. \A x \in RequestID : KeptOnce(segments'[x])
        BY <2>2, <2>3 DEF KeptInv
    <2>5. serverPc' # "loop" => Complete(storing, segments[storing])'
        BY <2>1, <2>2 DEF Complete
    <2>6. \A c \in Clients : fileState'[c] = "written" =>
            Cardinality(file'[c]) = AmountOf[c] /\ KeptOnce(file'[c])
        BY <2>1 DEF KeptInv
    <2> QED BY <2>4, <2>5, <2>6 DEF KeptInv, KeptOnce, Complete
<1>4. CASE PostUploadRemove \/ PostUploadOpen
    <2>1. /\ serverPc # "loop" /\ UNCHANGED <<owner, segments, storing>>
          /\ \E state \in {"removed", "torn"} :
                fileState' = [fileState EXCEPT ![owner[storing]] = state]
          /\ \E part : file' = [file EXCEPT ![owner[storing]] = part]
        BY <1>4 DEF PostUploadRemove, PostUploadOpen, handlerVars
    <2>2. Complete(storing, segments[storing])'
        BY <2>1 DEF KeptInv, Complete
    <2>3. \A c \in Clients : fileState'[c] = "written" =>
            fileState[c] = "written" /\ file'[c] = file[c]
        BY <2>1 DEF TypeOK
    <2> QED BY <2>1, <2>2, <2>3 DEF KeptInv, KeptOnce
<1>5. CASE PostUploadWrite
    <2>1. /\ fileState' = [fileState EXCEPT ![owner[storing]] = "written"]
          /\ file' = [file EXCEPT ![owner[storing]] = segments[storing]]
          /\ serverPc = "fill" /\ serverPc' = "loop" /\ UNCHANGED segments
        BY <1>5 DEF PostUploadWrite
    <2>2. storing \in RequestID /\ owner[storing] \in Clients
        BY <2>1 DEF TypeOK
    <2>3. Cardinality(segments[storing]) = AmountOf[owner[storing]] /\ KeptOnce(segments[storing])
        BY <2>1, <2>2 DEF KeptInv, Complete
    <2>4. \A c \in Clients : file'[c] = IF c = owner[storing] THEN segments[storing] ELSE file[c]
        BY <2>1 DEF TypeOK
    <2>5. \A c \in Clients : c # owner[storing] => fileState'[c] = fileState[c]
        BY <2>1 DEF TypeOK
    <2> QED BY <2>1, <2>3, <2>4, <2>5 DEF KeptInv, KeptOnce
<1>6. CASE ServerRestart
    BY <1>6 DEF ServerRestart, KeptInv, KeptOnce
<1>7. ASSUME NEW m \in c2s, ServerReject(m) \/ ServerUnknown(m) PROVE UNCHANGED serverVars
    BY <1>7 DEF ServerReject, ServerUnknown
<1> QED BY <1>1, <1>2, <1>3, <1>4, <1>5, <1>6, <1>7, ServerFrame DEF Next, ServerStep

\* A file is torn by post_upload, and whole when it returns.
LEMMA TornStep == TypeOK /\ TornInv /\ [Next]_vars => TornInv'
<1> SUFFICES ASSUME TypeOK, TornInv, [Next]_vars PROVE TornInv'
    OBVIOUS
<1>1. CASE UNCHANGED serverVars
    BY <1>1 DEF TornInv, serverVars, handlerVars, storeVars
<1>2. ASSUME NEW m \in c2s, ServerAccept(m) \/ ServerSegment(m) PROVE TornInv'
    <2>1. serverPc = "loop" /\ UNCHANGED <<fileState, restarts>>
        BY <1>2 DEF ServerAccept, ServerSegment, storeVars
    <2> QED BY <2>1 DEF TornInv
<1>3. CASE PostUploadRemove \/ PostUploadOpen \/ PostUploadWrite
    <2>1. /\ UNCHANGED <<owner, storing, restarts>>
          /\ \/ /\ serverPc = "remove"
                /\ fileState' = [fileState EXCEPT ![owner[storing]] = "removed"]
             \/ /\ serverPc = "write" /\ serverPc' = "fill"
                /\ fileState' = [fileState EXCEPT ![owner[storing]] = "torn"]
             \/ /\ serverPc = "fill"
                /\ fileState' = [fileState EXCEPT ![owner[storing]] = "written"]
        BY <1>3 DEF PostUploadRemove, PostUploadOpen, PostUploadWrite, handlerVars
    <2> QED BY <2>1 DEF TornInv, TypeOK
<1>4. CASE ServerRestart
    BY <1>4 DEF ServerRestart, TornInv, TypeOK
<1>5. ASSUME NEW m \in c2s, ServerReject(m) \/ ServerUnknown(m) PROVE UNCHANGED serverVars
    BY <1>5 DEF ServerReject, ServerUnknown
<1> QED BY <1>1, <1>2, <1>3, <1>4, <1>5, ServerFrame DEF Next, ServerStep

\* A client has the number of its segments from a Response to itself.
LEMMA ClientNumbers ==
    ASSUME TypeOK, DistinctAddresses, NumbersInv,
           (\E c \in Clients : ClientStep(c)) \/ NetworkStep \/ UNCHANGED vars
    PROVE  NumbersInv'
<1>1. UNCHANGED <<segments, fileState, file>>
    BY ServerFrame DEF serverVars, handlerVars, storeVars
<1>2. ASSUME s2c' \subseteq s2c, WindowsInBody',
             \A m \in c2s' : m.type = "Segment" => m.seg < AmountOf[m.client]
      PROVE  NumbersInv'
    BY <1>1, <1>2 DEF NumbersInv, OfBodies
<1>3. ASSUME NEW c \in Clients, ClientStart(c) PROVE NumbersInv'
    BY <1>2, <1>3 DEF ClientStart, RequestPocket, NumbersInv, WindowsInBody
<1>4. ASSUME NEW c \in Clients, NEW m \in s2c, ClientResponse(c, m) PROVE NumbersInv'
    <2>1. m.type = "Response" => m.seg = AmountOf[c]
        BY <1>4 DEF ClientResponse, NumbersInv
    <2>2. AmountOf[c] \in Nat
        BY AmountAssumption
    <2>3. /\ UNCHANGED <<windowSending, c2s, s2c>>
          /\ \/ windowToSend' = [windowToSend EXCEPT ![c] = 0..(AmountOf[c] - 1)]
             \/ UNCHANGED windowToSend
        BY <1>4, <2>1 DEF ClientResponse
    <2>4. WindowsInBody'
        <3>1. \A d \in Clients : \A i \in windowToSend'[d] :
                i \in windowToSend[d] \/ (d = c /\ i \in 0..(AmountOf[c] - 1))
            BY <2>3 DEF TypeOK
        <3>2. \A i \in 0..(AmountOf[c] - 1) : i < AmountOf[c]
            BY <2>2
        <3> QED BY <2>3, <3>1, <3>2 DEF NumbersInv, WindowsInBody
    <2> QED BY <1>2, <2>3, <2>4 DEF NumbersInv
<1>5. ASSUME NEW c \in Clients, Send(c) PROVE NumbersInv'
    <2>1. PICK i \in windowToSend[c] :
            /\ windowToSend' = [windowToSend EXCEPT ![c] = @ \ {i}]
            /\ windowSending' = [windowSending EXCEPT ![c] = @ \cup {i}]
            /\ c2s' = c2s \cup {SegmentPocket(c, i)}
        BY <1>5 DEF Send
    <2>2. WindowsInBody'
        BY <2>1 DEF NumbersInv, WindowsInBody, TypeOK
    <2>3. i < AmountOf[c]
        BY DEF NumbersInv, WindowsInBody
    <2>4. s2c' = s2c
        BY <1>5 DEF Send
    <2> QED BY <1>2, <2>1, <2>2, <2>3, <2>4 DEF NumbersInv, SegmentPocket
<1>6. ASSUME NEW c \in Clients, NEW m \in s2c, ClientReceive(c, m) PROVE NumbersInv'
    <2>1. WindowsInBody'
        BY <1>6 DEF ClientReceive, NumbersInv, WindowsInBody, TypeOK
    <2> QED BY <1>2, <1>6, <2>1 DEF ClientReceive, NumbersInv
<1>7. ASSUME NEW c \in Clients, RefreshTimeout(c) PROVE NumbersInv'
    <2>1. WindowsInBody'
        BY <1>7 DEF RefreshTimeout, NumbersInv, WindowsInBody, TypeOK
    <2> QED BY <1>2, <1>7, <2>1 DEF RefreshTimeout, NumbersInv
<1>8. ASSUME NEW c \in Clients, ClientNoResponse(c) \/ EnterRefresh(c) \/ RefreshEarlyTimeout(c)
      PROVE  NumbersInv'
    BY <1>2, <1>8 DEF ClientNoResponse, EnterRefresh, RefreshEarlyTimeout, NumbersInv, WindowsInBody
<1>9. CASE NetworkStep
    BY <1>2, <1>9 DEF NetworkStep, LoseToServer, LoseToClient, clientVars, NumbersInv, WindowsInBody
<1>10. CASE UNCHANGED vars
    BY <1>2, <1>10 DEF vars, clientVars, NumbersInv, WindowsInBody
<1> QED BY <1>3, <1>4, <1>5, <1>6, <1>7, <1>8, <1>9, <1>10 DEF ClientStep

\* The server tells a client its own number, and keeps and writes what it gets.
LEMMA ServerNumbers ==
    ASSUME TypeOK, DistinctAddresses, NumbersInv, ServerStep
    PROVE  NumbersInv'
<1>1. WindowsInBody' /\ c2s' = c2s
    BY ClientFrame DEF NumbersInv, WindowsInBody, clientVars
<1>2. ASSUME \A m \in s2c' : m.type = "Response" => m \in s2c,
             \A id \in RequestID : OfBodies(segments'[id]),
             \A c \in Clients : fileState'[c] = "written" => OfBodies(file'[c])
      PROVE  NumbersInv'
    BY <1>1, <1>2 DEF NumbersInv, OfBodies
<1>3. ASSUME NEW m \in c2s, ServerAccept(m) PROVE NumbersInv'
    <2> DEFINE id == lastRequestID + 1
    <2>1. /\ segments' = [segments EXCEPT ![id] = {}]
          /\ s2c' = s2c \cup {ResponsePocket(AddrOf[m.client], id, AmountOf[m.client])}
          /\ UNCHANGED <<fileState, file>>
        BY <1>3 DEF ServerAccept, storeVars
    <2>2. \A x \in RequestID : segments'[x] = segments[x] \/ segments'[x] = {}
        BY <2>1 DEF TypeOK
    <2>3. m.client \in Clients
        BY DEF TypeOK, ClientPocket
    <2>4. \A p \in s2c' : p.type = "Response" =>
            \A c \in Clients : AddrOf[c] = p.to => p.seg = AmountOf[c]
        BY <2>1, <2>3 DEF ResponsePocket, NumbersInv, DistinctAddresses
    <2>5. \A x \in RequestID : OfBodies(segments'[x])
        BY <2>2 DEF NumbersInv, OfBodies
    <2> QED BY <1>1, <2>1, <2>4, <2>5 DEF NumbersInv, OfBodies
<1>4. ASSUME NEW m \in c2s, ServerSegment(m) PROVE NumbersInv'
    <2>1. /\ m.id \in RequestID /\ segments' = [segments EXCEPT ![m.id] = Received(m)]
          /\ m.type = "Segment" /\ UNCHANGED <<fileState, file>>
        BY <1>4 DEF ServerSegment, TypeOK
    <2>2. \A p \in s2c' : p.type = "Response" => p \in s2c
        BY <1>4 DEF ServerSegment, AckPocket, ClosePocket
    <2>3. m.seg < AmountOf[m.client]
        BY <2>1 DEF NumbersInv
    <2>4. OfBodies(Received(m))
        BY <2>1, <2>3 DEF NumbersInv, OfBodies, Received
    <2>5. \A x \in RequestID : segments'[x] = IF x = m.id THEN Received(m) ELSE segments[x]
        BY <2>1 DEF TypeOK
    <2>6. \A x \in RequestID : OfBodies(segments'[x])
        BY <2>4, <2>5 DEF NumbersInv
    <2>7. \A c \in Clients : fileState'[c] = "written" => OfBodies(file'[c])
        BY <2>1 DEF NumbersInv
    <2> QED BY <1>2, <2>2, <2>6, <2>7
<1>5. CASE PostUploadRemove \/ PostUploadOpen \/ PostUploadWrite
    <2>1. UNCHANGED <<segments, s2c>> /\ storing \in RequestID /\ owner[storing] \in Clients
        BY <1>5 DEF PostUploadRemove, PostUploadOpen, PostUploadWrite, handlerVars, TypeOK
    <2>2. \/ /\ \E state \in {"removed", "torn"} :
                    fileState' = [fileState EXCEPT ![owner[storing]] = state]
             /\ \E part : file' = [file EXCEPT ![owner[storing]] = part]
          \/ /\ fileState' = [fileState EXCEPT ![owner[storing]] = "written"]
             /\ file' = [file EXCEPT ![owner[storing]] = segments[storing]]
        BY <1>5 DEF PostUploadRemove, PostUploadOpen, PostUploadWrite
    <2>3. \A c \in Clients : fileState'[c] = "written" =>
            file'[c] = segments[storing] \/ (fileState[c] = "written" /\ file'[c] = file[c])
        BY <2>2 DEF TypeOK
    <2>4. \A c \in Clients : fileState'[c] = "written" => OfBodies(file'[c])
        BY <2>1, <2>3 DEF NumbersInv
    <2> QED BY <1>2, <2>1, <2>4 DEF NumbersInv
<1>6. CASE ServerRestart
    BY <1>1, <1>6 DEF ServerRestart, NumbersInv, OfBodies
<1>7. ASSUME NEW m \in c2s, ServerReject(m) \/ ServerUnknown(m) PROVE NumbersInv'
    BY <1>1, <1>7 DEF ServerReject, ServerUnknown, ErrorPocket, ClosePocket, NumbersInv, OfBodies,
        serverVars, handlerVars, storeVars
<1> QED BY <1>3, <1>4, <1>5, <1>6, <1>7 DEF ServerStep

\* Whatever restarts there are, and whoever shares an address: a file that is
\* written to its end has as many segments as its body, no number twice, and
\* is the body when every segment is of its client; and a part of one stands
\* at a destination only while it is written, or after a restart.
THEOREM StoredIsWhole == Spec => []StoredWhole
<1>1. TypeOK /\ WholeInv /\ [Next]_vars => WholeInv'
    <2> SUFFICES ASSUME TypeOK, WholeInv, [Next]_vars PROVE WholeInv'
        OBVIOUS
    <2>1. DistinctAddresses' = DistinctAddresses
        BY DEF DistinctAddresses
    <2> QED BY <2>1, KeptStep, TornStep, ClientNumbers, ServerNumbers DEF WholeInv, Next
<1>2. TypeOK /\ WholeInv => StoredWhole
    <2> SUFFICES ASSUME TypeOK, WholeInv, NEW c \in Clients, fileState[c] = "written",
                        DistinctAddresses, \A s \in file[c] : s[1] = c
                 PROVE  file[c] = Body(c)
        BY DEF StoredWhole, WholeInv, KeptInv, KeptOnce, TornInv
    <2>1. AmountOf[c] \in Nat
        BY AmountAssumption
    <2>2. \A s \in file[c] : s = <<c, s[2]>> /\ s[2] \in Nat /\ s[2] < AmountOf[c]
        BY DEF TypeOK, WholeInv, NumbersInv, OfBodies
    <2>3. file[c] \subseteq Body(c)
        BY <2>1, <2>2 DEF Body
    <2>4. Cardinality(file[c]) = AmountOf[c]
        BY DEF WholeInv, KeptInv
    <2> QED BY <2>3, <2>4, BodyCardinality, FS_Subset
<1> QED BY <1>1, <1>2, InitWhole, TypeCorrect, PTL DEF Spec
-----------------------------------------------------------------------------
(***************************************************************************)
(* A file is stored once.                                                  *)
(***************************************************************************)

\* Only the request its client knows of gets segments, so at most one handler
\* of a client is ever complete: the one post_upload works for.  When it has
\* left the dictionary the file is written, and the client's other handlers,
\* of doubled Requests, stay empty.
OnceInv ==
    /\ \A id \in Issued : segments[id] # {} => rid[owner[id]] = id
    /\ \A id \in handlers : Complete(id, segments[id]) <=> serverPc # "loop" /\ storing = id
    /\ \A id \in Issued \ handlers : fileState[owner[id]] = "written"
    /\ serverPc = "remove" => fileState[owner[storing]] = "old"
    /\ \A c \in Clients :
        /\ fileState[c] \in {"removed", "torn"} <=>
                serverPc \in {"write", "fill"} /\ owner[storing] = c
        /\ fileState[c] = "written" => rid[c] \in Issued \ handlers

StoreInv == Undisturbed => OnceInv

\* An issued id is a request with an owner.
LEMMA IssuedType ==
    ASSUME TypeOK
    PROVE  /\ Issued \subseteq RequestID /\ 0 \notin Issued
           /\ \A id \in Issued : owner[id] \in Clients
BY BoundsAssumption DEF TypeOK, RequestID, Issued

\* Nothing is stored before the first step.
LEMMA InitStore == Init => StoreInv
BY DEF Init, StoreInv, OnceInv, Issued

\* A client learns of its request once.
LEMMA RidOnce ==
    ASSUME TypeOK, ClientKnowsRequest, NEW c \in Clients,
           (\E d \in Clients : ClientStep(d)) \/ NetworkStep \/ UNCHANGED vars
    PROVE  rid'[c] = rid[c] \/ rid[c] = 0
<1>1. ASSUME NEW d \in Clients, NEW m \in s2c, ClientResponse(d, m)
      PROVE  rid'[c] = rid[c] \/ rid[c] = 0
    BY <1>1 DEF ClientResponse, ClientKnowsRequest, TypeOK
<1>2. ASSUME NEW d \in Clients,
             \/ ClientStart(d) \/ ClientNoResponse(d) \/ Send(d) \/ EnterRefresh(d)
             \/ \E m \in s2c : ClientReceive(d, m)
             \/ RefreshTimeout(d) \/ RefreshEarlyTimeout(d)
      PROVE  rid' = rid
    BY <1>2 DEF ClientStart, ClientNoResponse, Send, EnterRefresh, ClientReceive, RefreshTimeout,
        RefreshEarlyTimeout
<1>3. ASSUME NetworkStep \/ UNCHANGED vars PROVE rid' = rid
    BY <1>3 DEF NetworkStep, LoseToServer, LoseToClient, vars, clientVars
<1> QED BY <1>1, <1>2, <1>3 DEF ClientStep

\* The client's steps do not touch what OnceInv is about.
LEMMA ClientOnce ==
    ASSUME TypeOK, RequestsInv, OnceInv,
           (\E c \in Clients : ClientStep(c)) \/ NetworkStep \/ UNCHANGED vars
    PROVE  OnceInv'
<1>1. UNCHANGED <<handlers, owner, segments, lastRequestID, serverPc, storing, fileState>>
    BY ServerFrame DEF serverVars, handlerVars, storeVars
<1>2. \A c \in Clients : rid[c] \in Issued => rid'[c] = rid[c]
    BY RidOnce, IssuedType DEF RequestsInv
<1>3. Issued' = Issued
    BY <1>1 DEF Issued
<1>4. \A id \in Issued : segments[id] # {} => rid'[owner[id]] = id
    BY <1>2, IssuedType DEF OnceInv
<1> QED BY <1>1, <1>2, <1>3, <1>4 DEF OnceInv, Complete

\* A request is complete only with segments: no body is empty.
LEMMA CompleteHasSegments ==
    ASSUME NEW id \in RequestID, owner[id] \in Clients, Complete(id, {})
    PROVE  FALSE
BY AmountAssumption, FS_EmptySet DEF Complete

\* The steps of the server keep it.
LEMMA ServerOnce ==
    ASSUME TypeOK, RequestsInv, OnceInv, Undisturbed', ServerStep
    PROVE  OnceInv'
<1>1. UNCHANGED <<pc, rid, c2s>>
    BY ClientFrame DEF clientVars
<1>2. ASSUME NEW m \in c2s, ServerAccept(m) PROVE OnceInv'
    <2> DEFINE new == lastRequestID + 1
    <2>1. /\ serverPc = "loop" /\ lastRequestID' = new /\ handlers' = handlers \cup {new}
          /\ owner' = [owner EXCEPT ![new] = m.client]
          /\ segments' = [segments EXCEPT ![new] = {}]
          /\ UNCHANGED <<serverPc, storing, fileState>>
        BY <1>2 DEF ServerAccept, storeVars
    <2>2. new \in RequestID /\ new \notin Issued /\ Issued' = Issued \cup {new} /\ m.client \in Clients
        <3>1. m.client \in Clients
            BY DEF TypeOK, ClientPocket
        <3>2. lastRequestID \in Nat /\ new <= MaxRequestID
            BY <1>2, BoundsAssumption DEF ServerAccept, TypeOK
        <3> QED BY <2>1, <3>1, <3>2, BoundsAssumption DEF RequestID, Issued
    <2>3. owner'[new] = m.client /\ segments'[new] = {}
        BY <2>1, <2>2 DEF TypeOK
    <2>4. \A id \in Issued : id # new /\ owner'[id] = owner[id] /\ segments'[id] = segments[id]
        BY <2>1, <2>2, IssuedType DEF TypeOK
    <2>5. handlers \subseteq Issued
        BY DEF RequestsInv, HandlersInv
    <2>6. Cardinality(segments'[new]) # AmountOf[owner'[new]]
        BY <2>2, <2>3, AmountAssumption, FS_EmptySet
    <2> HIDE DEF new
    <2>7. \A id \in handlers' : Complete(id, segments[id])' <=> serverPc' # "loop" /\ storing' = id
        BY <2>1, <2>4, <2>5, <2>6 DEF OnceInv, Complete
    <2>8. \A c \in Clients : fileState'[c] \notin {"removed", "torn"}
        BY <2>1 DEF OnceInv
    <2>9. \A c \in Clients : fileState'[c] = "written" => rid'[c] \in Issued' \ handlers'
        BY <1>1, <2>1, <2>2 DEF OnceInv
    <2>10. \A id \in Issued' : segments'[id] # {} => rid'[owner'[id]] = id
        BY <1>1, <2>2, <2>3, <2>4 DEF OnceInv
    <2>11. \A id \in Issued' \ handlers' : fileState'[owner'[id]] = "written"
        BY <2>1, <2>2, <2>4 DEF OnceInv
    <2> QED BY <2>1, <2>7, <2>8, <2>9, <2>10, <2>11 DEF OnceInv
<1>3. ASSUME NEW m \in c2s, ServerSegment(m) PROVE OnceInv'
    <2> DEFINE S == Received(m)
    <2>1. /\ m.type = "Segment" /\ m.id \in handlers /\ serverPc = "loop"
          /\ segments' = [segments EXCEPT ![m.id] = S]
          /\ \/ Complete(m.id, S) /\ serverPc' = "remove" /\ storing' = m.id
             \/ ~Complete(m.id, S) /\ serverPc' = "loop" /\ storing' = storing
          /\ UNCHANGED <<handlers, owner, lastRequestID, fileState>>
        BY <1>3 DEF ServerSegment
    <2>2. m.id \in Issued /\ rid[owner[m.id]] = m.id
        BY <2>1 DEF RequestsInv, SegmentsInFlight
    <2>3. m.id \in RequestID /\ owner[m.id] \in Clients
        BY <2>2, IssuedType
    <2> HIDE DEF S
    <2>4. \A id \in RequestID : segments'[id] = IF id = m.id THEN S ELSE segments[id]
        BY <2>1 DEF TypeOK
    <2>5. Issued' = Issued
        BY <2>1 DEF Issued
    <2>6. \A id \in Issued : segments'[id] # {} => rid'[owner[id]] = id
        BY <1>1, <2>2, <2>4, IssuedType DEF OnceInv
    <2>7. \A id \in handlers : Complete(id, segments'[id]) <=> serverPc' # "loop" /\ storing' = id
        <3>1. \A id \in handlers : id \in RequestID
            BY DEF TypeOK
        <3>2. \A id \in handlers : ~Complete(id, segments[id])
            BY <2>1 DEF OnceInv
        <3> QED BY <2>1, <2>4, <3>1, <3>2
    <2>8. fileState[owner[m.id]] = "old"
        BY <2>1, <2>2, <2>3 DEF OnceInv, TypeOK
    <2>9. \A c \in Clients : fileState[c] \notin {"removed", "torn"}
        BY <2>1 DEF OnceInv
    <2> QED BY <1>1, <2>1, <2>5, <2>6, <2>7, <2>8, <2>9 DEF OnceInv, Complete
<1>4. CASE PostUploadRemove
    <2>1. /\ serverPc = "remove" /\ serverPc' = "write"
          /\ fileState' = [fileState EXCEPT ![owner[storing]] = "removed"]
          /\ UNCHANGED <<handlers, owner, segments, lastRequestID, storing>>
        BY <1>4 DEF PostUploadRemove, handlerVars
    <2>2. storing \in handlers /\ owner[storing] \in Clients /\ fileState[owner[storing]] = "old"
        BY <2>1 DEF TypeOK, OnceInv
    <2>3. \A c \in Clients : fileState'[c] = IF c = owner[storing] THEN "removed" ELSE fileState[c]
        BY <2>1 DEF TypeOK
    <2>4. \A id \in Issued : owner[id] \in Clients
        BY IssuedType
    <2>5. Issued' = Issued
        BY <2>1 DEF Issued
    <2>6. \A c \in Clients : fileState[c] \notin {"removed", "torn"}
        BY <2>1 DEF OnceInv
    <2> QED BY <1>1, <2>1, <2>2, <2>3, <2>4, <2>5, <2>6 DEF OnceInv, Complete
<1>5. CASE PostUploadWrite
    <2>1. /\ serverPc = "fill" /\ serverPc' = "loop" /\ handlers' = handlers \ {storing}
          /\ fileState' = [fileState EXCEPT ![owner[storing]] = "written"]
          /\ UNCHANGED <<owner, segments, lastRequestID, storing>>
        BY <1>5 DEF PostUploadWrite
    <2>2. storing \in handlers /\ storing \in RequestID /\ owner[storing] \in Clients
          /\ storing \in Issued
        BY <2>1 DEF TypeOK, RequestsInv, HandlersInv
    <2>3. rid[owner[storing]] = storing
        <3>1. Complete(storing, segments[storing])
            BY <2>1, <2>2 DEF OnceInv
        <3>2. segments[storing] # {}
            BY <2>2, <3>1, CompleteHasSegments
        <3> QED BY <2>2, <3>2 DEF OnceInv
    <2>4. \A c \in Clients : fileState'[c] = IF c = owner[storing] THEN "written" ELSE fileState[c]
        BY <2>1 DEF TypeOK
    <2>5. \A id \in Issued : owner[id] \in Clients
        BY IssuedType
    <2>6. Issued' = Issued
        BY <2>1 DEF Issued
    <2>7. \A c \in Clients : fileState'[c] \notin {"removed", "torn"}
        BY <2>1, <2>4 DEF OnceInv
    <2> QED BY <1>1, <2>1, <2>2, <2>3, <2>4, <2>5, <2>6, <2>7 DEF OnceInv, Complete
<1>6. CASE PostUploadOpen
    <2>1. /\ serverPc = "write" /\ serverPc' = "fill"
          /\ fileState' = [fileState EXCEPT ![owner[storing]] = "torn"]
          /\ UNCHANGED <<handlers, owner, segments, lastRequestID, storing>>
        BY <1>6 DEF PostUploadOpen, handlerVars
    <2>2. owner[storing] \in Clients /\ fileState[owner[storing]] \in {"removed", "torn"}
        BY <2>1 DEF TypeOK, OnceInv
    <2>3. \A c \in Clients : fileState'[c] = IF c = owner[storing] THEN "torn" ELSE fileState[c]
        BY <2>1 DEF TypeOK
    <2>4. \A id \in Issued : owner[id] \in Clients
        BY IssuedType
    <2>5. Issued' = Issued
        BY <2>1 DEF Issued
    <2> QED BY <1>1, <2>1, <2>2, <2>3, <2>4, <2>5 DEF OnceInv, Complete
<1>7. ~ServerRestart
    BY DEF ServerRestart, Undisturbed, TypeOK
<1>8. ASSUME NEW m \in c2s, ServerReject(m) \/ ServerUnknown(m) PROVE OnceInv'
    BY <1>1, <1>8 DEF ServerReject, ServerUnknown, serverVars, handlerVars, storeVars, OnceInv,
        Complete, Issued
<1> QED BY <1>2, <1>3, <1>4, <1>5, <1>6, <1>7, <1>8 DEF ServerStep

\* A restart is never taken back.
LEMMA RestartsGrow == TypeOK /\ [Next]_vars /\ restarts' = 0 => restarts = 0
<1> SUFFICES ASSUME TypeOK, [Next]_vars, restarts' = 0 PROVE restarts = 0
    OBVIOUS
<1>1. ServerStep => restarts' = restarts \/ restarts' = restarts + 1
    BY DEF ServerStep, ServerAccept, ServerReject, ServerSegment, ServerUnknown,
        PostUploadRemove, PostUploadOpen, PostUploadWrite, ServerRestart, serverVars
<1> QED BY <1>1, ServerFrame DEF Next, TypeOK, serverVars

\* The invariant of the storage is inductive.
LEMMA StoreStep == TypeOK /\ UploadInv /\ StoreInv /\ [Next]_vars => StoreInv'
<1> SUFFICES ASSUME TypeOK, UploadInv, StoreInv, [Next]_vars, Undisturbed' PROVE OnceInv'
    BY DEF StoreInv
<1>1. Undisturbed
    BY RestartsGrow DEF Undisturbed, DistinctAddresses
<1> QED BY <1>1, ClientOnce, ServerOnce DEF StoreInv, UploadInv, Next

\* It holds in every behaviour.
LEMMA StoreAlways == Spec => []StoreInv
BY InitStore, StoreStep, TypeCorrect, RequestsStayApart, PTL DEF Spec

\* Once written, a destination is left alone by what is late or doubled.
THEOREM WrittenOnce == Spec => StoredOnce
<1>1. TypeOK /\ StoreInv /\ [Next]_vars =>
        [\A c \in Clients :
            DistinctAddresses /\ restarts' = 0 /\ fileState[c] = "written" =>
                fileState'[c] = "written" /\ file'[c] = file[c]]_vars
    <2> SUFFICES ASSUME TypeOK, StoreInv, [Next]_vars, NEW c \in Clients,
                        DistinctAddresses, restarts' = 0, fileState[c] = "written"
                 PROVE  fileState'[c] = "written" /\ file'[c] = file[c]
        OBVIOUS
    <2>1. OnceInv
        BY RestartsGrow DEF StoreInv, Undisturbed
    <2>2. CASE PostUploadRemove \/ PostUploadOpen \/ PostUploadWrite
        <3>1. owner[storing] # c
            BY <2>1, <2>2 DEF PostUploadRemove, PostUploadOpen, PostUploadWrite, OnceInv
        <3> QED BY <2>2, <3>1 DEF PostUploadRemove, PostUploadOpen, PostUploadWrite, TypeOK
    <2>3. CASE ServerStep /\ ~PostUploadRemove /\ ~PostUploadOpen /\ ~PostUploadWrite
        BY <2>3 DEF ServerStep, ServerAccept, ServerReject, ServerSegment, ServerUnknown,
            ServerRestart, serverVars, storeVars
    <2> QED BY <2>2, <2>3, ServerFrame DEF Next, serverVars, storeVars
<1> QED BY <1>1, StoreAlways, TypeCorrect, PTL DEF Spec, StoredOnce
-----------------------------------------------------------------------------
(***************************************************************************)
(* RudpUpload implements UploadService, as long as the server is not       *)
(* restarted and clients have addresses of their own.                      *)
(***************************************************************************)

\* Two functions that differ at one point only.
LEMMA OnePoint ==
    ASSUME NEW S, NEW f, NEW g, NEW x \in S,
           f = [y \in S |-> f[y]], g = [y \in S |-> g[y]],
           \A y \in S \ {x} : g[y] = f[y]
    PROVE  g = [f EXCEPT ![x] = g[x]]
OBVIOUS

\* What the service sees are functions of the clients, before a step and
\* after it.
LEMMA BarsAreFunctions ==
    /\ outcomeBar = [c \in Clients |-> outcomeBar[c]]
    /\ outcomeBar' = [c \in Clients |-> outcomeBar'[c]]
    /\ bodyBar = [c \in Clients |-> bodyBar[c]]
    /\ bodyBar' = [c \in Clients |-> bodyBar'[c]]
BY DEF outcomeBar, bodyBar

\* What the service sees of a client.
LEMMA OutcomeOf ==
    ASSUME NEW c \in Clients
    PROVE  outcomeBar[c] = Outcome(pc[c]) /\ outcomeBar'[c] = Outcome(pc'[c])
BY DEF outcomeBar

\* The outcomes.
LEMMA Outcomes ==
    /\ Outcome("off") = "idle"
    /\ Outcome("done") = "success"
    /\ Outcome("failed") = "failure"
    /\ Outcome("crashed") = "failure"
    /\ \A state \in Active : Outcome(state) = "busy"
BY DEF Outcome, Active

\* What the service sees of a body.
LEMMA BodyOf ==
    ASSUME NEW c \in Clients
    PROVE  /\ fileState[c] = "written" => bodyBar[c] = "stored"
           /\ fileState[c] \in {"removed", "torn"} => bodyBar[c] = "removed"
           /\ fileState[c] = "old" /\ HasBody(c) => bodyBar[c] = "held"
           /\ fileState[c] = "old" /\ ~HasBody(c) => bodyBar[c] = "missing"
<1>1. bodyBar[c] =
        CASE fileState[c] = "written" -> "stored"
          [] fileState[c] \in {"removed", "torn"} -> "removed"
          [] OTHER -> IF HasBody(c) THEN "held" ELSE "missing"
    BY DEF bodyBar
<1> QED BY <1>1

\* And after a step.
LEMMA BodyOfNext ==
    ASSUME NEW c \in Clients
    PROVE  /\ fileState'[c] = "written" => bodyBar'[c] = "stored"
           /\ fileState'[c] \in {"removed", "torn"} => bodyBar'[c] = "removed"
           /\ fileState'[c] = "old" /\ HasBody(c)' => bodyBar'[c] = "held"
           /\ fileState'[c] = "old" /\ ~HasBody(c)' => bodyBar'[c] = "missing"
<1>1. bodyBar'[c] =
        CASE fileState'[c] = "written" -> "stored"
          [] fileState'[c] \in {"removed", "torn"} -> "removed"
          [] OTHER -> IF HasBody(c)' THEN "held" ELSE "missing"
    BY DEF bodyBar
<1> QED BY <1>1

\* A step of one client changes the outcome of that client only.
LEMMA OutcomeMoves ==
    ASSUME TypeOK, NEW c \in Clients, NEW state, pc' = [pc EXCEPT ![c] = state]
    PROVE  /\ outcomeBar' = [outcomeBar EXCEPT ![c] = outcomeBar'[c]]
           /\ outcomeBar'[c] = Outcome(state)
<1>1. pc'[c] = state /\ \A d \in Clients \ {c} : pc'[d] = pc[d]
    BY DEF TypeOK
<1>2. \A d \in Clients \ {c} : outcomeBar'[d] = outcomeBar[d]
    BY <1>1, OutcomeOf
<1> QED BY <1>1, <1>2, OnePoint, BarsAreFunctions, OutcomeOf

\* The service does not see what leaves a client active, off or ended.
LEMMA OutcomeStays ==
    ASSUME \A c \in Clients : pc'[c] = pc[c] \/ (pc[c] \in Active /\ pc'[c] \in Active)
    PROVE  outcomeBar' = outcomeBar
<1>1. \A c \in Clients : outcomeBar'[c] = outcomeBar[c]
    BY OutcomeOf, Outcomes
<1> QED BY <1>1, BarsAreFunctions

\* Nor what does not change a file or the completeness of a request.
LEMMA BodyStays ==
    ASSUME TypeOK, NEW c \in Clients,
           fileState'[c] = fileState[c], HasBody(c)' <=> HasBody(c)
    PROVE  bodyBar'[c] = bodyBar[c]
<1>1. fileState[c] \in {"old", "removed", "torn", "written"}
    BY DEF TypeOK
<1> QED BY <1>1, BodyOf, BodyOfNext

\* The steps of a client are Ask, Succeed or Fail, or not seen.
LEMMA ClientServes ==
    ASSUME TypeOK, RequestsInv, OnceInv, NEW c \in Clients, ClientStep(c)
    PROVE  [Service!ServiceNext]_<<outcomeBar, bodyBar>>
<1>1. bodyBar' = bodyBar
    <2>1. UNCHANGED <<handlers, owner, segments, fileState>>
        BY ServerFrame DEF serverVars, handlerVars, storeVars
    <2>2. \A d \in Clients : HasBody(d)' <=> HasBody(d)
        BY <2>1 DEF HasBody, Complete
    <2> QED BY <2>1, <2>2, BodyStays, BarsAreFunctions
<1>2. ASSUME NEW state \in {"wait", "done", "failed", "crashed"},
             pc' = [pc EXCEPT ![c] = state],
             \/ pc[c] = "off" /\ state = "wait"
             \/ pc[c] \in Active /\ state \in {"failed", "crashed"}
             \/ pc[c] \in Active /\ state = "done" /\ bodyBar[c] # "missing"
      PROVE  Service!ServiceNext
    <2>1. outcomeBar' = [outcomeBar EXCEPT ![c] = Outcome(state)]
        BY <1>2, OutcomeMoves
    <2>2. outcomeBar[c] = Outcome(pc[c])
        BY OutcomeOf
    <2>3. Outcome("wait") = "busy"
        BY Outcomes DEF Active
    <2>4. Service!Ask(c) \/ Service!Fail(c) \/ Service!Succeed(c)
        BY <1>1, <1>2, <2>1, <2>2, <2>3, Outcomes DEF Service!Ask, Service!Fail, Service!Succeed
    <2> QED BY <2>4 DEF Service!ServiceNext
<1>3. CASE ClientStart(c)
    BY <1>2, <1>3 DEF ClientStart
<1>4. ASSUME NEW m \in s2c, ClientResponse(c, m) PROVE [Service!ServiceNext]_<<outcomeBar, bodyBar>>
    <2>1. CASE pc' = [pc EXCEPT ![c] = "send"]
        <3>1. \A d \in Clients : pc'[d] = pc[d] \/ (pc[d] \in Active /\ pc'[d] \in Active)
            BY <1>4, <2>1 DEF ClientResponse, TypeOK, Active
        <3> QED BY <1>1, <3>1, OutcomeStays
    <2>2. CASE pc' = [pc EXCEPT ![c] = "failed"]
        BY <1>2, <1>4, <2>2 DEF ClientResponse, Active
    <2> QED BY <1>4, <2>1, <2>2 DEF ClientResponse
<1>5. CASE ClientNoResponse(c)
    BY <1>2, <1>5 DEF ClientNoResponse, Active
<1>6. CASE Send(c) \/ EnterRefresh(c) \/ RefreshTimeout(c)
    <2>1. \A d \in Clients : pc'[d] = pc[d] \/ (pc[d] \in Active /\ pc'[d] \in Active)
        BY <1>6 DEF Send, EnterRefresh, RefreshTimeout, TypeOK, Active
    <2> QED BY <1>1, <2>1, OutcomeStays
<1>7. ASSUME NEW m \in s2c, ClientReceive(c, m) PROVE [Service!ServiceNext]_<<outcomeBar, bodyBar>>
    <2>1. CASE m.type = "Close"
        <3>1. rid[c] \in Issued /\ segments[rid[c]] = Body(c) /\ owner[rid[c]] = c
            BY <1>7, <2>1 DEF ClientReceive, RequestsInv, ClosesInFlight, ClientKnowsRequest, Uploading
        <3>2. Complete(rid[c], segments[rid[c]])
            BY <3>1, BodyCardinality DEF Complete
        <3>3. rid[c] \in handlers => HasBody(c)
            BY <3>1, <3>2 DEF HasBody
        <3>4. rid[c] \notin handlers => fileState[c] = "written"
            BY <3>1 DEF OnceInv
        <3>5. fileState[c] \in {"old", "removed", "torn", "written"}
            BY DEF TypeOK
        <3>6. bodyBar[c] # "missing"
            BY <3>3, <3>4, <3>5, BodyOf
        <3> QED BY <1>2, <1>7, <2>1, <3>6 DEF ClientReceive, Active
    <2>2. CASE m.type # "Close"
        <3>1. \A d \in Clients : pc'[d] = pc[d]
            BY <1>7, <2>2 DEF ClientReceive, TypeOK
        <3> QED BY <1>1, <3>1, OutcomeStays
    <2> QED BY <2>1, <2>2
<1>8. CASE RefreshEarlyTimeout(c)
    BY <1>2, <1>8 DEF RefreshEarlyTimeout, Active
<1> QED BY <1>3, <1>4, <1>5, <1>6, <1>7, <1>8 DEF ClientStep

\* The steps of the server are Hold, RemoveOld or WriteNew, or not seen.
LEMMA ServerServes ==
    ASSUME TypeOK, RequestsInv, OnceInv, Undisturbed', ServerStep
    PROVE  [Service!ServiceNext]_<<outcomeBar, bodyBar>>
<1>1. outcomeBar' = outcomeBar
    BY ClientFrame, OutcomeStays DEF clientVars
<1>2. ASSUME \A c \in Clients : fileState'[c] = fileState[c] /\ (HasBody(c)' <=> HasBody(c))
      PROVE  bodyBar' = bodyBar
    BY <1>2, BodyStays, BarsAreFunctions
<1>3. ASSUME NEW c \in Clients,
             \A d \in Clients \ {c} : fileState'[d] = fileState[d] /\ (HasBody(d)' <=> HasBody(d)),
             \/ bodyBar[c] = "missing" /\ bodyBar'[c] = "held" /\ pc[c] # "off"
             \/ bodyBar[c] = "held" /\ bodyBar'[c] = "removed"
             \/ bodyBar[c] = "removed" /\ bodyBar'[c] = "stored"
      PROVE  Service!ServiceNext
    <2>1. \A d \in Clients \ {c} : bodyBar'[d] = bodyBar[d]
        BY <1>3, BodyStays
    <2>2. bodyBar' = [bodyBar EXCEPT ![c] = bodyBar'[c]]
        BY <2>1, OnePoint, BarsAreFunctions
    <2>3. pc[c] # "off" => outcomeBar[c] # "idle"
        <3>1. pc[c] \in Active \cup {"off", "done", "failed", "crashed"}
            BY DEF TypeOK
        <3> QED BY <3>1, OutcomeOf, Outcomes
    <2>4. Service!Hold(c) \/ Service!RemoveOld(c) \/ Service!WriteNew(c)
        BY <1>1, <1>3, <2>2, <2>3 DEF Service!Hold, Service!RemoveOld, Service!WriteNew
    <2> QED BY <2>4 DEF Service!ServiceNext
<1>4. ASSUME NEW m \in c2s, ServerAccept(m) PROVE bodyBar' = bodyBar
    <2> DEFINE new == lastRequestID + 1
    <2>1. /\ handlers' = handlers \cup {new} /\ owner' = [owner EXCEPT ![new] = m.client]
          /\ segments' = [segments EXCEPT ![new] = {}] /\ fileState' = fileState
        BY <1>4 DEF ServerAccept, storeVars
    <2>2. new \in RequestID /\ new \notin handlers /\ m.client \in Clients
        <3>1. m.client \in Clients
            BY DEF TypeOK, ClientPocket
        <3>2. lastRequestID \in Nat /\ new <= MaxRequestID
            BY <1>4, BoundsAssumption DEF ServerAccept, TypeOK
        <3> QED BY <3>1, <3>2, BoundsAssumption DEF RequestID, RequestsInv, HandlersInv, Issued
    <2>3. /\ owner'[new] = m.client /\ segments'[new] = {}
          /\ \A id \in handlers : owner'[id] = owner[id] /\ segments'[id] = segments[id]
        BY <2>1, <2>2 DEF TypeOK
    <2>4. Cardinality(segments'[new]) # AmountOf[owner'[new]]
        BY <2>2, <2>3, AmountAssumption, FS_EmptySet
    <2> HIDE DEF new
    <2>5. \A c \in Clients : HasBody(c)' <=> HasBody(c)
        BY <2>1, <2>3, <2>4 DEF HasBody, Complete
    <2> QED BY <1>2, <2>1, <2>5
<1>5. ASSUME NEW m \in c2s, ServerSegment(m) PROVE [Service!ServiceNext]_<<outcomeBar, bodyBar>>
    <2> DEFINE S == Received(m)
    <2>1. /\ m.type = "Segment" /\ m.id \in handlers /\ serverPc = "loop"
          /\ segments' = [segments EXCEPT ![m.id] = S]
          /\ UNCHANGED <<handlers, owner, fileState>>
        BY <1>5 DEF ServerSegment
    <2>2. m.id \in Issued /\ rid[owner[m.id]] = m.id /\ m.id \in RequestID /\ owner[m.id] \in Clients
        BY <2>1, IssuedType DEF RequestsInv, SegmentsInFlight
    <2>3. \A id \in handlers : ~Complete(id, segments[id])
        BY <2>1 DEF OnceInv
    <2> HIDE DEF S
    <2>4. \A id \in handlers : segments'[id] = IF id = m.id THEN S ELSE segments[id]
        BY <2>1 DEF TypeOK
    <2>5. \A c \in Clients : ~HasBody(c)
        BY <2>3 DEF HasBody
    <2>6. \A c \in Clients : HasBody(c)' <=> c = owner[m.id] /\ Complete(m.id, S)
        BY <2>1, <2>3, <2>4 DEF HasBody, Complete
    <2>7. CASE Complete(m.id, S)
        <3> DEFINE c == owner[m.id]
        <3>1. pc[c] # "off"
            BY <2>2, IssuedType DEF RequestsInv, ClientKnowsRequest
        <3>2. fileState[c] = "old"
            BY <2>1, <2>2 DEF OnceInv, TypeOK
        <3>3. bodyBar[c] = "missing"
            BY <2>2, <2>5, <3>2, BodyOf
        <3>4. bodyBar'[c] = "held"
            BY <2>1, <2>2, <2>6, <2>7, <3>2, BodyOfNext
        <3>5. \A d \in Clients \ {c} : fileState'[d] = fileState[d] /\ (HasBody(d)' <=> HasBody(d))
            BY <2>1, <2>5, <2>6
        <3>6. c \in Clients
            BY <2>2
        <3> HIDE DEF c
        <3> QED BY <1>3, <3>1, <3>3, <3>4, <3>5, <3>6
    <2>8. CASE ~Complete(m.id, S)
        BY <1>1, <1>2, <2>1, <2>5, <2>6, <2>8
    <2> QED BY <2>7, <2>8
<1>6. CASE PostUploadRemove
    <2>1. /\ serverPc = "remove" /\ fileState' = [fileState EXCEPT ![owner[storing]] = "removed"]
          /\ UNCHANGED <<handlers, owner, segments>>
        BY <1>6 DEF PostUploadRemove, handlerVars
    <2>2. PICK c \in Clients : c = owner[storing] /\ storing \in handlers
        BY <2>1 DEF TypeOK
    <2>3. \A d \in Clients : fileState'[d] = IF d = c THEN "removed" ELSE fileState[d]
        BY <2>1, <2>2 DEF TypeOK
    <2>4. HasBody(c) /\ fileState[c] = "old"
        BY <2>1, <2>2 DEF HasBody, OnceInv
    <2>5. bodyBar[c] = "held"
        BY <2>4, BodyOf
    <2>6. bodyBar'[c] = "removed"
        BY <2>3, BodyOfNext
    <2>7. \A d \in Clients : HasBody(d)' <=> HasBody(d)
        BY <2>1 DEF HasBody, Complete
    <2> QED BY <1>3, <2>3, <2>5, <2>6, <2>7
<1>7. CASE PostUploadWrite
    <2>1. /\ serverPc = "fill" /\ fileState' = [fileState EXCEPT ![owner[storing]] = "written"]
          /\ handlers' = handlers \ {storing} /\ UNCHANGED <<owner, segments>>
        BY <1>7 DEF PostUploadWrite
    <2>2. PICK c \in Clients : c = owner[storing]
        BY <2>1 DEF TypeOK
    <2>3. \A d \in Clients : fileState'[d] = IF d = c THEN "written" ELSE fileState[d]
        BY <2>1, <2>2 DEF TypeOK
    <2>4. fileState[c] \in {"removed", "torn"}
        BY <2>1, <2>2 DEF OnceInv
    <2>5. bodyBar[c] = "removed"
        BY <2>4, BodyOf
    <2>6. bodyBar'[c] = "stored"
        BY <2>3, BodyOfNext
    <2>7. \A d \in Clients \ {c} : HasBody(d)' <=> HasBody(d)
        BY <2>1, <2>2 DEF HasBody, Complete
    <2> QED BY <1>3, <2>3, <2>5, <2>6, <2>7
<1>8. CASE PostUploadOpen
    <2>1. /\ serverPc = "write" /\ fileState' = [fileState EXCEPT ![owner[storing]] = "torn"]
          /\ UNCHANGED <<handlers, owner, segments>>
        BY <1>8 DEF PostUploadOpen, handlerVars
    <2>2. PICK c \in Clients : c = owner[storing]
        BY <2>1 DEF TypeOK
    <2>3. \A d \in Clients : fileState'[d] = IF d = c THEN "torn" ELSE fileState[d]
        BY <2>1, <2>2 DEF TypeOK
    <2>4. bodyBar[c] = "removed" /\ bodyBar'[c] = "removed"
        BY <2>1, <2>2, <2>3, BodyOf, BodyOfNext DEF OnceInv
    <2>5. \A d \in Clients : HasBody(d)' <=> HasBody(d)
        BY <2>1 DEF HasBody, Complete
    <2>6. \A d \in Clients : bodyBar'[d] = bodyBar[d]
        BY <2>3, <2>4, <2>5, BodyStays
    <2> QED BY <1>1, <2>6, BarsAreFunctions
<1>9. ~ServerRestart
    BY DEF ServerRestart, Undisturbed, TypeOK
<1>10. ASSUME NEW m \in c2s, ServerReject(m) \/ ServerUnknown(m) PROVE bodyBar' = bodyBar
    <2>1. UNCHANGED <<handlers, owner, segments, fileState>>
        BY <1>10 DEF ServerReject, ServerUnknown, serverVars, handlerVars, storeVars
    <2>2. \A c \in Clients : HasBody(c)' <=> HasBody(c)
        BY <2>1 DEF HasBody, Complete
    <2> QED BY <1>2, <2>1, <2>2
<1> QED BY <1>1, <1>4, <1>5, <1>6, <1>7, <1>8, <1>9, <1>10 DEF ServerStep

\* Without restarts, and with an address for every client, the protocol is
\* the service: success only of what is held, removed before written, once.
THEOREM ServiceImplemented ==
    ASSUME DistinctAddresses, MaxRestarts = 0
    PROVE  Spec => ImplementsService
<1>1. Init => Service!ServiceInit
    <2> SUFFICES ASSUME Init PROVE Service!ServiceInit
        OBVIOUS
    <2>1. \A c \in Clients : outcomeBar[c] = "idle"
        <3>1. \A c \in Clients : pc[c] = "off"
            BY DEF Init
        <3> QED BY <3>1, OutcomeOf, Outcomes
    <2>2. \A c \in Clients : bodyBar[c] = "missing"
        <3>1. \A c \in Clients : fileState[c] = "old" /\ ~HasBody(c)
            BY DEF Init, HasBody
        <3> QED BY <3>1, BodyOf
    <2> QED BY <2>1, <2>2, BarsAreFunctions DEF Service!ServiceInit
<1>2. TypeOK /\ TypeOK' /\ UploadInv /\ StoreInv /\ [Next]_vars =>
            [Service!ServiceNext]_<<outcomeBar, bodyBar>>
    <2> SUFFICES ASSUME TypeOK, TypeOK', UploadInv, StoreInv, [Next]_vars
                 PROVE  [Service!ServiceNext]_<<outcomeBar, bodyBar>>
        OBVIOUS
    <2>1. Undisturbed /\ Undisturbed'
        BY DEF Undisturbed, DistinctAddresses, TypeOK
    <2>2. RequestsInv /\ OnceInv
        BY <2>1 DEF UploadInv, StoreInv
    <2>3. CASE NetworkStep \/ UNCHANGED vars
        <3>1. UNCHANGED <<pc, handlers, owner, segments, fileState>>
            BY <2>3 DEF NetworkStep, LoseToServer, LoseToClient, vars, clientVars, serverVars,
                handlerVars, storeVars
        <3>2. \A c \in Clients : HasBody(c)' <=> HasBody(c)
            BY <3>1 DEF HasBody, Complete
        <3>3. bodyBar' = bodyBar
            BY <3>1, <3>2, BodyStays, BarsAreFunctions
        <3>4. outcomeBar' = outcomeBar
            BY <3>1, OutcomeStays
        <3> QED BY <3>3, <3>4
    <2> QED BY <2>1, <2>2, <2>3, ClientServes, ServerServes DEF Next
<1> QED BY <1>1, <1>2, TypeCorrect, RequestsStayApart, StoreAlways, PTL
        DEF Spec, ImplementsService, Service!ServiceSpec, Service!serviceVars
=============================================================================
