-------------------------- MODULE RudpDownloadProofs --------------------------
(***************************************************************************)
(* Safety of RudpDownload for every number of clients, segments and        *)
(* request ids, and every size of the pool.                                *)
(***************************************************************************)
EXTENDS RudpDownload, SequenceTheorems, TLAPS

-----------------------------------------------------------------------------
(***************************************************************************)
(* The handlers, the Responses to be repeated and the queue of the pool.   *)
(***************************************************************************)

\* Every request waits in the queue at most once, and only before its task.
QueueInv ==
    /\ \A i \in DOMAIN queue : task[queue[i]] = "queued"
    /\ \A i, j \in DOMAIN queue : queue[i] = queue[j] => i = j

\* The requests with a handler are those whose task has not ended, and ids
\* that have not been handed out have none.
HandlersInv ==
    \A id \in RequestID :
        /\ id \in handlers <=> id <= lastRequestID /\ task[id] # "ended"
        /\ id > lastRequestID => task[id] = "none" /\ windowSending[id] = {}

TasksInv == QueueInv /\ HandlersInv /\ NotReadyHasHandler

-----------------------------------------------------------------------------
(***************************************************************************)
(* What the packets under way and the windows say about the clients.       *)
(***************************************************************************)
Windows(id) == windowToSend[id] \cup windowSending[id]
Segments(id) == 0..(AmountOf[owner[id]] - 1)

\* A client has its id from a Response to a request of its own.
ClientsInv ==
    \A c \in Clients :
        /\ pc[c] \in {"off", "wait", "failed"} => rid[c] = 0
        /\ pc[c] \in Downloading \cup {"done"} =>
                rid[c] \in 1..lastRequestID /\ owner[rid[c]] = c
        /\ pc[c] \in {"complete", "done"} => needed[c] = {}

\* A packet of a client is about its request, and true.
Sound(m) ==
    m.type # "Request" =>
        /\ m.id = rid[m.client] /\ pc[m.client] \in Downloading \cup {"done"}
        /\ m.type = "ACK" => m.seg \notin needed[m.client]
        /\ m.type = "DownloadComplited" => pc[m.client] \in {"complete", "done"}

ToServerInv == \A m \in c2s : Sound(m)

PocketsInv ==
    \A id \in RequestID : \A p \in pockets[id] : p.type # "Request" /\ p.id = id /\ Sound(p)

\* A Response is about a request of the client it is sent to, and a Close is
\* sent to a client only when its task is at its end.
ToClientInv ==
    \A m \in s2c :
        /\ m.type = "Response" =>
                /\ m.id \in 1..lastRequestID
                /\ m.to = AddrOf[owner[m.id]] /\ m.seg = AmountOf[owner[m.id]]
        /\ m.type = "Close" =>
                \A c \in Clients : AddrOf[c] = m.to =>
                    rid[c] \in RequestID /\ task[rid[c]] \in {"closing", "ended"}

\* A task is that of the one request its client downloads by, and it comes to
\* its end after the client.
OwnersInv ==
    /\ \A id \in RequestID :
        /\ task[id] # "none" => rid[owner[id]] = id
        /\ task[id] \in {"drain", "closing", "ended"} => pc[owner[id]] \in {"complete", "done"}
    /\ \A c \in Clients : pc[c] = "done" => task[rid[c]] \in {"closing", "ended"}

\* In the windows of a request is what its client needs, or everything when
\* the client does not know of the request.
WindowsInv ==
    \A id \in 1..lastRequestID :
        /\ Windows(id) \subseteq Segments(id)
        /\ IF rid[owner[id]] = id THEN needed[owner[id]] \subseteq Windows(id)
                                  ELSE Segments(id) \subseteq Windows(id)

\* A segment under way is one of a client that downloads, and what a client
\* that is alone has, and what it needs, is the file.
DataInv ==
    /\ \A m \in s2c : m.type = "Segment" => rid[m.of] # 0 /\ m.seg \in 0..(AmountOf[m.of] - 1)
    /\ \A c \in Clients : Alone(c) =>
            IF rid[c] = 0 THEN got[c] = {}
            ELSE got[c] = {<<c, i>> : i \in 0..(AmountOf[c] - 1) \ needed[c]}

ApartInv ==
    /\ ClientsInv /\ ToServerInv /\ PocketsInv /\ ToClientInv
    /\ OwnersInv /\ WindowsInv /\ DataInv

IInv == TypeOK /\ TasksInv /\ (DistinctAddresses => ApartInv)

-----------------------------------------------------------------------------
(***************************************************************************)
(* Type correctness.                                                       *)
(***************************************************************************)

\* The packets the actions send are packets.
LEMMA PacketTypes ==
    /\ SomeClient \in Clients
    /\ \A t \in {"Request", "Ready", "ACK", "DownloadComplited"}, c \in Clients, id, i \in Nat :
            ToServer(t, c, id, i) \in ClientPocket
    /\ \A t \in {"Response", "Error", "Segment", "Close"}, a \in Addresses, id, i \in Nat,
          c \in Clients : ToClient(t, a, id, i, c) \in ServerPocket
    /\ \A a \in Addresses : CloseTo(a) \in ServerPocket /\ ErrorTo(a) \in ServerPocket
<1>1. SomeClient \in Clients
    BY ClientsAssumption DEF SomeClient
<1> QED BY <1>1 DEF ToServer, ToClient, ClientPocket, ServerPocket, CloseTo, ErrorTo, NoId, NoSeg

\* An id is a number other than 0.
LEMMA IdIsNat == \A id \in RequestID : id \in Nat /\ id # 0
BY BoundsAssumption DEF RequestID

\* What every iteration of main_loop sends and hears is a packet.
LEMMA MainTypes ==
    ASSUME TypeOK, NEW m \in c2s
    PROVE  /\ m.client \in Clients /\ m.id \in Nat /\ m.seg \in Nat
           /\ AddrOf[m.client] \in Addresses
           /\ Repeated(m) \in SUBSET ServerPocket
<1>1. m.client \in Clients /\ m.id \in Nat /\ m.seg \in Nat
    BY DEF TypeOK, ClientPocket
<1>2. ASSUME NEW id \in notReady PROVE ResponseTo(id) \in ServerPocket
    <2>1. id \in RequestID /\ owner[id] \in Clients
        BY <1>2 DEF TypeOK
    <2>2. AddrOf[owner[id]] \in Addresses /\ AmountOf[owner[id]] \in Nat
        BY <2>1, AddrAssumption, AmountAssumption
    <2> QED BY <2>1, <2>2, IdIsNat, PacketTypes DEF ResponseTo
<1> QED BY <1>1, <1>2, AddrAssumption DEF Repeated

\* Before the first step every variable has its type.
LEMMA InitType == Init => TypeOK
<1> SUFFICES ASSUME Init PROVE TypeOK
    OBVIOUS
<1>1. owner \in [RequestID -> Clients] /\ clientAddress \in Addresses
    BY PacketTypes, AddrAssumption DEF Init
<1>2. lastRequestID \in 0..MaxRequestID /\ queue \in Seq(RequestID)
    BY BoundsAssumption, EmptySeq DEF Init
<1> QED BY <1>1, <1>2, BoundsAssumption DEF Init, TypeOK

\* Halving a congestion window leaves one: never 0, never above the bound.
LEMMA HalvedType ==
    ASSUME NEW n \in 1..MaxCwnd
    PROVE  Halved(n) \in 1..MaxCwnd
BY BoundsAssumption DEF Halved

\* No step of a client breaks the types.
LEMMA ClientType ==
    ASSUME TypeOK, NEW c \in Clients, ClientStep(c)
    PROVE  TypeOK'
<1> USE DEF serverUnchanged, mainVars, taskVars
<1>1. CASE ClientStart(c)
    BY <1>1, PacketTypes DEF TypeOK, ClientStart, Downloading, NoId, NoSeg
<1>2. ASSUME NEW m \in s2c, ClientResponse(c, m) PROVE TypeOK'
    <2>1. m.id \in Nat /\ 0..(m.seg - 1) \in SUBSET Nat
        BY DEF TypeOK, ServerPocket
    <2>2. ToServer("Ready", c, m.id, NoSeg) \in ClientPocket
        BY <2>1, PacketTypes DEF NoSeg
    <2> QED BY <1>2, <2>1, <2>2 DEF TypeOK, ClientResponse, Downloading
<1>3. CASE ClientNoResponse(c)
    BY <1>3 DEF TypeOK, ClientNoResponse
<1>4. CASE ClientRepeat(c)
    <2>1. /\ ToServer("Ready", c, rid[c], NoSeg) \in ClientPocket
          /\ ToServer("DownloadComplited", c, rid[c], NoSeg) \in ClientPocket
        BY PacketTypes DEF TypeOK, NoSeg
    <2> QED BY <1>4, <2>1 DEF TypeOK, ClientRepeat, clientVars
<1>5. ASSUME NEW m \in s2c, ClientSegment(c, m) PROVE TypeOK'
    <2>1. m.seg \in Nat /\ <<m.of, m.seg>> \in Clients \X Nat /\ rid[c] \in Nat
        BY DEF TypeOK, ServerPocket
    <2>2. /\ ToServer("ACK", c, rid[c], m.seg) \in ClientPocket
          /\ ToServer("DownloadComplited", c, rid[c], NoSeg) \in ClientPocket
        BY <2>1, PacketTypes DEF NoSeg
    <2>3. c2s' \in SUBSET ClientPocket
        BY <1>5, <2>2 DEF TypeOK, ClientSegment
    <2>4. needed' \in [Clients -> SUBSET Nat] /\ got' \in [Clients -> SUBSET (Clients \X Nat)]
        BY <1>5, <2>1 DEF TypeOK, ClientSegment
    <2>5. pc' \in [Clients -> Downloading \cup {"off", "wait", "done", "failed"}]
        BY <1>5 DEF TypeOK, ClientSegment, Downloading
    <2> QED BY <1>5, <2>3, <2>4, <2>5 DEF TypeOK, ClientSegment
<1>6. ASSUME NEW m \in s2c, ClientClose(c, m) PROVE TypeOK'
    BY <1>6 DEF TypeOK, ClientClose
<1> QED BY <1>1, <1>2, <1>3, <1>4, <1>5, <1>6 DEF ClientStep

\* No step of the main loop breaks the types.
LEMMA MainType ==
    ASSUME TypeOK, MainStep
    PROVE  TypeOK'
<1> USE DEF MainReceives, clientVars, taskVars
<1>1. ASSUME NEW m \in c2s, MainAccept(m) PROVE TypeOK'
    <2> DEFINE id == lastRequestID + 1
               amount == AmountOf[m.client]
    <2>1. id \in RequestID /\ id \in 0..MaxRequestID /\ id \in Nat
        BY <1>1, BoundsAssumption DEF TypeOK, MainAccept, RequestID
    <2>2. m.client \in Clients /\ amount \in Nat
        BY MainTypes, AmountAssumption
    <2>3. ToClient("Response", AddrOf[m.client], id, amount, m.client) \in ServerPocket
        BY <2>1, <2>2, MainTypes, PacketTypes
    <2>4. s2c' \in SUBSET ServerPocket /\ clientAddress' \in Addresses
        BY <1>1, <2>3, MainTypes DEF TypeOK, MainAccept
    <2>5. windowToSend' \in [RequestID -> SUBSET Nat]
        <3>1. 0..(amount - 1) \in SUBSET Nat
            BY <2>2
        <3> QED BY <1>1, <3>1 DEF TypeOK, MainAccept
    <2> QED BY <1>1, <2>1, <2>2, <2>4, <2>5 DEF TypeOK, MainAccept
<1>2. ASSUME NEW m \in c2s, MainReject(m) PROVE TypeOK'
    BY <1>2, MainTypes, PacketTypes DEF TypeOK, MainReject
<1>3. ASSUME NEW m \in c2s, MainReady(m) PROVE TypeOK'
    <2>1. queue' \in Seq(RequestID)
        BY <1>3, AppendProperties DEF TypeOK, MainReady
    <2>2. s2c' \in SUBSET ServerPocket /\ clientAddress' \in Addresses
        BY <1>3, MainTypes DEF TypeOK, MainReady
    <2> QED BY <1>3, <2>1, <2>2 DEF TypeOK, MainReady
<1>4. ASSUME NEW m \in c2s, MainPocket(m) PROVE TypeOK'
    BY <1>4, MainTypes DEF TypeOK, MainPocket
<1>5. ASSUME NEW m \in c2s, MainUnknown(m) PROVE TypeOK'
    BY <1>5, MainTypes, PacketTypes DEF TypeOK, MainUnknown
<1>6. ASSUME NEW m \in c2s, MainLosesHandler(m) PROVE TypeOK'
    BY <1>6, MainTypes DEF TypeOK, MainLosesHandler
<1> QED BY <1>1, <1>2, <1>3, <1>4, <1>5, <1>6 DEF MainStep

\* No step of a task breaks the types.
LEMMA TaskType ==
    ASSUME TypeOK, TaskStep
    PROVE  TypeOK'
<1> USE DEF taskUnchanged, clientVars, mainVars, Running
<1>1. CASE TaskStart
    <2>1. Head(queue) \in RequestID /\ Tail(queue) \in Seq(RequestID)
        BY <1>1, HeadTailProperties DEF TypeOK, TaskStart
    <2> QED BY <1>1, <2>1 DEF TypeOK, TaskStart
<1>2. ASSUME NEW id \in RequestID, TaskSend(id) PROVE TypeOK'
    <2>1. PICK i \in windowToSend[id] :
            /\ windowToSend' = [windowToSend EXCEPT ![id] = @ \ {i}]
            /\ windowSending' = [windowSending EXCEPT ![id] = @ \cup {i}]
            /\ s2c' = s2c \cup {SegmentFrom(id, i, clientAddress)}
        BY <1>2 DEF TaskSend
    <2>2. i \in Nat /\ owner[id] \in Clients
        BY DEF TypeOK
    <2>3. SegmentFrom(id, i, clientAddress) \in ServerPocket
        BY <2>2, PacketTypes DEF SegmentFrom, TypeOK, RequestID
    <2>4. windowToSend' \in [RequestID -> SUBSET Nat] /\ windowSending' \in [RequestID -> SUBSET Nat]
        BY <2>1, <2>2 DEF TypeOK
    <2> QED BY <1>2, <2>1, <2>3, <2>4 DEF TypeOK, TaskSend
<1>3. ASSUME NEW id \in RequestID, TaskRefresh(id) PROVE TypeOK'
    BY <1>3 DEF TypeOK, TaskRefresh
<1>4. ASSUME NEW id \in RequestID, NEW p \in pockets[id], TaskPocket(id, p) PROVE TypeOK'
    <2>1. pockets' \in [RequestID -> SUBSET ClientPocket]
        <3>1. \/ pockets' = [pockets EXCEPT ![id] = {}]
              \/ pockets' = [pockets EXCEPT ![id] = @ \ {p}]
            BY <1>4 DEF TaskPocket
        <3>2. pockets \in [RequestID -> SUBSET ClientPocket]
            BY DEF TypeOK
        <3> QED BY <3>1, <3>2
    <2>2. windowToSend' \in [RequestID -> SUBSET Nat] /\ windowSending' \in [RequestID -> SUBSET Nat]
        <3>1. CASE p.type = "ACK"
            <4>1. /\ windowToSend' = [windowToSend EXCEPT ![id] = @ \ {p.seg}]
                  /\ windowSending' = [windowSending EXCEPT ![id] = @ \ {p.seg}]
                BY <1>4, <3>1 DEF TaskPocket
            <4> QED BY <4>1 DEF TypeOK
        <3>2. CASE p.type # "ACK"
            BY <1>4, <3>2 DEF TypeOK, TaskPocket
        <3> QED BY <3>1, <3>2
    <2>3. task' \in [RequestID -> Running \cup {"none", "queued", "ended"}]
        BY <1>4 DEF TypeOK, TaskPocket
    <2> QED BY <1>4, <2>1, <2>2, <2>3 DEF TypeOK, TaskPocket
<1>5. ASSUME NEW id \in RequestID, TaskTimeout(id) PROVE TypeOK'
    <2>1. cwnd[id] \in 1..MaxCwnd /\ Halved(cwnd[id]) \in 1..MaxCwnd
        BY HalvedType DEF TypeOK
    <2>2. PICK w \in 1..MaxCwnd : cwnd' = [cwnd EXCEPT ![id] = w]
        BY <1>5, <2>1 DEF TaskTimeout
    <2>3. cwnd' \in [RequestID -> 1..MaxCwnd]
        BY <2>2 DEF TypeOK
    <2> QED BY <1>5, <2>3 DEF TypeOK, TaskTimeout
<1>6. ASSUME NEW id \in RequestID, TaskClose(id) PROVE TypeOK'
    <2>1. CloseTo(AddrOf[owner[id]]) \in ServerPocket
        BY PacketTypes, AddrAssumption DEF TypeOK
    <2> QED BY <1>6, <2>1 DEF TypeOK, TaskClose
<1>7. ASSUME NEW id \in RequestID, TaskPop(id) PROVE TypeOK'
    BY <1>7 DEF TypeOK, TaskPop
<1> QED BY <1>1, <1>2, <1>3, <1>4, <1>5, <1>6, <1>7 DEF TaskStep

\* Nor does the network.
LEMMA NetworkType ==
    ASSUME TypeOK, NetworkStep
    PROVE  TypeOK'
BY DEF TypeOK, NetworkStep, LoseToServer, LoseToClient, serverUnchanged, clientVars, mainVars, taskVars

\* The types are inductive.
LEMMA NextType == TypeOK /\ [Next]_vars => TypeOK'
<1> SUFFICES ASSUME TypeOK, [Next]_vars PROVE TypeOK'
    OBVIOUS
<1>1. CASE UNCHANGED vars
    BY <1>1 DEF TypeOK, vars, clientVars, mainVars, taskVars
<1> QED BY <1>1, ClientType, MainType, TaskType, NetworkType DEF Next

\* In every behaviour each variable keeps its type: among the rest, no
\* congestion window is ever 0, however often it is halved.
THEOREM TypeCorrect == Spec => []TypeOK
BY InitType, NextType, PTL DEF Spec

-----------------------------------------------------------------------------
(***************************************************************************)
(* The main loop never stumbles over a handler that is gone.               *)
(***************************************************************************)
tasksVars == <<handlers, lastRequestID, notReady, queue, task, windowSending>>

\* Before the first step there are no requests.
LEMMA InitTasks == Init => TasksInv
<1> SUFFICES ASSUME Init PROVE TasksInv
    OBVIOUS
<1>1. QueueInv
    BY DEF Init, QueueInv
<1>2. HandlersInv
    BY IdIsNat DEF Init, HandlersInv
<1> QED BY <1>1, <1>2 DEF Init, TasksInv, NotReadyHasHandler

\* A step that touches none of these variables keeps the invariant.
LEMMA SameTasks == TasksInv /\ UNCHANGED tasksVars => TasksInv'
BY DEF TasksInv, QueueInv, HandlersInv, NotReadyHasHandler, tasksVars

\* Whatever has a task has been handed out.
LEMMA TaskIsIssued ==
    ASSUME TypeOK, TasksInv, NEW id \in RequestID, task[id] # "none"
    PROVE  id \in Nat /\ lastRequestID \in Nat /\ id <= lastRequestID /\ id \in 1..lastRequestID
<1>1. id \in Nat /\ id # 0 /\ lastRequestID \in Nat
    BY IdIsNat, BoundsAssumption DEF TypeOK
<1>2. ~(id > lastRequestID)
    BY DEF TasksInv, HandlersInv
<1> QED BY <1>1, <1>2

\* A task that is not queued may change its state, and end with its handler.
LEMMA TaskMoves ==
    ASSUME TypeOK, TasksInv, NEW id \in RequestID, NEW state, state \notin {"none", "queued"},
           task[id] \notin {"none", "queued", "ended"}, task' = [task EXCEPT ![id] = state],
           handlers' = IF state = "ended" THEN handlers \ {id} ELSE handlers,
           UNCHANGED <<lastRequestID, notReady, queue>>,
           \A x \in RequestID : x > lastRequestID => windowSending'[x] = windowSending[x]
    PROVE  TasksInv'
<1>1. \A x \in RequestID : task'[x] = IF x = id THEN state ELSE task[x]
    BY DEF TypeOK
<1>2. QueueInv'
    <2>1. \A i \in DOMAIN queue : queue[i] \in RequestID
        BY ElementOfSeq DEF TypeOK
    <2> QED BY <1>1, <2>1 DEF TasksInv, QueueInv
<1>3. HandlersInv'
    BY <1>1 DEF TasksInv, HandlersInv
<1>4. NotReadyHasHandler'
    BY <1>1 DEF TasksInv, NotReadyHasHandler, TypeOK
<1> QED BY <1>2, <1>3, <1>4 DEF TasksInv

\* The steps of the main loop keep it: a Response is repeated only until its
\* task is queued, and it is queued once.
LEMMA MainTasks ==
    ASSUME TypeOK, TasksInv, MainStep
    PROVE  TasksInv'
<1>1. ASSUME NEW m \in c2s, MainAccept(m) PROVE TasksInv'
    <2> DEFINE id == lastRequestID + 1
    <2>1. id \in RequestID /\ lastRequestID \in Nat
        BY <1>1, BoundsAssumption DEF TypeOK, MainAccept, RequestID
    <2>2. task[id] = "none" /\ id \notin handlers
        BY <2>1 DEF TasksInv, HandlersInv
    <2>3. /\ handlers' = handlers \cup {id} /\ notReady' = notReady \cup {id}
          /\ lastRequestID' = id /\ UNCHANGED <<queue, task, windowSending>>
        BY <1>1 DEF MainAccept
    <2>4. HandlersInv'
        <3> SUFFICES ASSUME NEW x \in RequestID
                     PROVE  /\ x \in handlers' <=> x <= id /\ task[x] # "ended"
                            /\ x > id => task[x] = "none" /\ windowSending[x] = {}
            BY <2>3 DEF HandlersInv
        <3>1. x \in Nat
            BY IdIsNat
        <3> QED BY <2>1, <2>2, <2>3, <3>1 DEF TasksInv, HandlersInv
    <2>5. QueueInv' /\ NotReadyHasHandler'
        BY <2>2, <2>3 DEF TasksInv, QueueInv, NotReadyHasHandler
    <2> QED BY <2>4, <2>5 DEF TasksInv
<1>2. ASSUME NEW m \in c2s, MainReady(m) PROVE TasksInv'
    <2>1. /\ m.id \in RequestID /\ m.id \in handlers /\ task[m.id] = "none"
          /\ task' = [task EXCEPT ![m.id] = "queued"] /\ queue' = Append(queue, m.id)
          /\ notReady' = notReady \ {m.id} /\ UNCHANGED <<handlers, lastRequestID, windowSending>>
        BY <1>2 DEF MainReady, TypeOK
    <2>2. \A x \in RequestID : task'[x] = IF x = m.id THEN "queued" ELSE task[x]
        BY <2>1 DEF TypeOK
    <2>3. QueueInv'
        <3>1. /\ DOMAIN queue' = 1..(Len(queue) + 1) /\ Len(queue) \in Nat
              /\ queue'[Len(queue) + 1] = m.id
              /\ \A i \in 1..Len(queue) : queue'[i] = queue[i] /\ queue[i] \in RequestID
            BY <2>1, AppendProperties, ElementOfSeq DEF TypeOK
        <3>2. \A i \in 1..Len(queue) : queue[i] # m.id
            BY <2>1 DEF TasksInv, QueueInv, TypeOK
        <3>3. \A i \in DOMAIN queue' : i \in 1..Len(queue) \/ i = Len(queue) + 1
            BY <3>1
        <3>4. \A i, j \in 1..Len(queue) : queue[i] = queue[j] => i = j
            BY DEF TasksInv, QueueInv, TypeOK
        <3>5. \A i \in 1..Len(queue) : task[queue[i]] = "queued"
            BY DEF TasksInv, QueueInv, TypeOK
        <3>6. \A i \in DOMAIN queue' : task'[queue'[i]] = "queued"
            BY <2>1, <2>2, <3>1, <3>3, <3>5
        <3>7. \A i, j \in DOMAIN queue' : queue'[i] = queue'[j] => i = j
            BY <3>1, <3>2, <3>3, <3>4
        <3> QED BY <3>6, <3>7 DEF QueueInv
    <2>4. HandlersInv'
        <3>1. m.id \in Nat /\ lastRequestID \in Nat /\ ~(m.id > lastRequestID)
            BY <2>1, IdIsNat, BoundsAssumption DEF TasksInv, HandlersInv, TypeOK
        <3> SUFFICES ASSUME NEW x \in RequestID
                     PROVE  /\ x \in handlers <=> x <= lastRequestID /\ task'[x] # "ended"
                            /\ x > lastRequestID => task'[x] = "none" /\ windowSending[x] = {}
            BY <2>1 DEF HandlersInv
        <3>2. CASE x = m.id
            BY <2>1, <2>2, <3>1, <3>2
        <3>3. CASE x # m.id
            BY <2>2, <3>3 DEF TasksInv, HandlersInv
        <3> QED BY <3>2, <3>3
    <2>5. NotReadyHasHandler'
        BY <2>1, <2>2 DEF TasksInv, NotReadyHasHandler, TypeOK
    <2> QED BY <2>3, <2>4, <2>5 DEF TasksInv
<1>3. ASSUME NEW m \in c2s, MainLosesHandler(m) PROVE TasksInv'
    <2>1. /\ m.id \in RequestID /\ task[m.id] = "closing"
          /\ task' = [task EXCEPT ![m.id] = "ended"] /\ handlers' = handlers \ {m.id}
          /\ UNCHANGED <<lastRequestID, notReady, queue, windowSending>>
        BY <1>3 DEF MainLosesHandler, TypeOK
    <2> QED BY <2>1, TaskMoves
<1>4. ASSUME NEW m \in c2s, MainReject(m) \/ MainPocket(m) \/ MainUnknown(m) PROVE TasksInv'
    BY <1>4, SameTasks DEF MainReject, MainPocket, MainUnknown, taskVars, tasksVars
<1> QED BY <1>1, <1>2, <1>3, <1>4 DEF MainStep

\* The steps of the tasks keep it: a task pops its own handler, once it was
\* queued and is not waited for by a Response.
LEMMA TaskTasks ==
    ASSUME TypeOK, TasksInv, TaskStep
    PROVE  TasksInv'
<1> USE DEF taskUnchanged, mainVars
<1>1. CASE TaskStart
    <2> DEFINE id == Head(queue)
    <2>1. /\ task' = [task EXCEPT ![id] = "send"] /\ queue' = Tail(queue) /\ queue # <<>>
          /\ UNCHANGED <<handlers, lastRequestID, notReady, windowSending>>
        BY <1>1 DEF TaskStart
    <2>2. /\ Len(queue) \in Nat /\ Len(queue) > 0 /\ id = queue[1] /\ DOMAIN queue = 1..Len(queue)
          /\ id \in RequestID
        BY <2>1, HeadTailProperties, EmptySeq DEF TypeOK
    <2>3. /\ DOMAIN queue' = 1..(Len(queue) - 1)
          /\ \A i \in DOMAIN queue' : queue'[i] = queue[i + 1] /\ queue[i + 1] \in RequestID
        BY <2>1, <2>2, HeadTailProperties, ElementOfSeq DEF TypeOK
    <2>4. \A x \in RequestID : task'[x] = IF x = id THEN "send" ELSE task[x]
        BY <2>1, <2>2 DEF TypeOK
    <2>5. task[id] = "queued"
        BY <2>2 DEF TasksInv, QueueInv
    <2>6. \A i \in DOMAIN queue' : i + 1 \in DOMAIN queue /\ queue[i + 1] # id
        BY <2>2, <2>3 DEF TasksInv, QueueInv
    <2>7. QueueInv'
        <3>1. \A i \in DOMAIN queue' : task'[queue'[i]] = "queued"
            BY <2>3, <2>4, <2>6 DEF TasksInv, QueueInv
        <3>2. \A i, j \in DOMAIN queue' : queue'[i] = queue'[j] => i = j
            <4> SUFFICES ASSUME NEW i \in DOMAIN queue', NEW j \in DOMAIN queue', queue'[i] = queue'[j]
                         PROVE  i = j
                OBVIOUS
            <4>1. i \in Nat /\ j \in Nat /\ i + 1 = j + 1
                BY <2>2, <2>3, <2>6 DEF TasksInv, QueueInv
            <4> QED BY <4>1
        <3> QED BY <3>1, <3>2 DEF QueueInv
    <2>8. HandlersInv'
        BY <2>1, <2>4, <2>5 DEF TasksInv, HandlersInv
    <2>9. NotReadyHasHandler'
        BY <2>1, <2>4, <2>5 DEF TasksInv, NotReadyHasHandler, TypeOK
    <2> QED BY <2>7, <2>8, <2>9 DEF TasksInv
<1>2. ASSUME NEW id \in RequestID, TaskSend(id) PROVE TasksInv'
    <2>1. id \in Nat /\ lastRequestID \in Nat /\ id <= lastRequestID
        BY <1>2, TaskIsIssued DEF TaskSend
    <2>2. \A x \in RequestID : x > lastRequestID => windowSending'[x] = windowSending[x]
        BY <1>2, <2>1, IdIsNat DEF TaskSend, TypeOK
    <2> QED BY <1>2, <2>2 DEF TaskSend, TasksInv, QueueInv, HandlersInv, NotReadyHasHandler
<1>3. ASSUME NEW id \in RequestID, TaskRefresh(id) PROVE TasksInv'
    BY <1>3, TaskMoves DEF TaskRefresh
<1>4. ASSUME NEW id \in RequestID, NEW p \in pockets[id], TaskPocket(id, p) PROVE TasksInv'
    <2>1. id \in Nat /\ lastRequestID \in Nat /\ id <= lastRequestID
        BY <1>4, TaskIsIssued DEF TaskPocket
    <2>2. \A x \in RequestID : x > lastRequestID => windowSending'[x] = windowSending[x]
        BY <1>4, <2>1, IdIsNat DEF TaskPocket, TypeOK
    <2>3. UNCHANGED <<handlers, lastRequestID, notReady, queue>>
        BY <1>4 DEF TaskPocket
    <2>4. CASE p.type = "DownloadComplited"
        BY <1>4, <2>2, <2>3, <2>4, TaskMoves DEF TaskPocket
    <2>5. CASE p.type # "DownloadComplited"
        <3>1. UNCHANGED task
            BY <1>4, <2>5 DEF TaskPocket
        <3> QED BY <2>2, <2>3, <3>1 DEF TasksInv, QueueInv, HandlersInv, NotReadyHasHandler
    <2> QED BY <2>4, <2>5
<1>5. ASSUME NEW id \in RequestID, TaskTimeout(id) PROVE TasksInv'
    <2>1. id \in Nat /\ lastRequestID \in Nat /\ id <= lastRequestID
        BY <1>5, TaskIsIssued DEF TaskTimeout
    <2>2. \A x \in RequestID : x > lastRequestID => windowSending'[x] = windowSending[x]
        BY <1>5, <2>1, IdIsNat DEF TaskTimeout, TypeOK
    <2> QED BY <1>5, <2>2, TaskMoves DEF TaskTimeout
<1>6. ASSUME NEW id \in RequestID, TaskClose(id) PROVE TasksInv'
    BY <1>6, TaskMoves DEF TaskClose
<1>7. ASSUME NEW id \in RequestID, TaskPop(id) PROVE TasksInv'
    BY <1>7, TaskMoves DEF TaskPop
<1> QED BY <1>1, <1>2, <1>3, <1>4, <1>5, <1>6, <1>7 DEF TaskStep

\* The invariant of the shared dictionaries is inductive.
LEMMA NextTasks == TypeOK /\ TasksInv /\ [Next]_vars => TasksInv'
<1> SUFFICES ASSUME TypeOK, TasksInv, [Next]_vars PROVE TasksInv'
    OBVIOUS
<1>1. ASSUME NEW c \in Clients, ClientStep(c) PROVE UNCHANGED tasksVars
    BY <1>1 DEF ClientStep, ClientStart, ClientResponse, ClientNoResponse, ClientRepeat,
        ClientSegment, ClientClose, serverUnchanged, mainVars, taskVars, tasksVars
<1>2. CASE NetworkStep
    BY <1>2, SameTasks DEF NetworkStep, LoseToServer, LoseToClient, serverUnchanged,
        mainVars, taskVars, tasksVars
<1>3. CASE UNCHANGED vars
    BY <1>3, SameTasks DEF vars, mainVars, taskVars, tasksVars
<1> QED BY <1>1, <1>2, <1>3, SameTasks, MainTasks, TaskTasks DEF Next

\* main_loop may repeat the Response of every request of notReady: its
\* handler is there, because its task has not even been queued.
THEOREM NotReadyHasHandlerAlways == Spec => []NotReadyHasHandler
<1>1. Init => TypeOK /\ TasksInv
    BY InitType, InitTasks
<1>2. TypeOK /\ TasksInv /\ [Next]_vars => TypeOK' /\ TasksInv'
    BY NextType, NextTasks
<1>3. TasksInv => NotReadyHasHandler
    BY DEF TasksInv
<1> QED BY <1>1, <1>2, <1>3, PTL DEF Spec
-----------------------------------------------------------------------------
(***************************************************************************)
(* Clients with addresses of their own do not disturb each other.          *)
(***************************************************************************)

\* What the packets to a client are made of.
LEMMA ServerPacket ==
    ASSUME TypeOK, NEW m \in s2c
    PROVE  m.id \in Nat /\ m.seg \in Nat /\ m.of \in Clients /\ m.to \in Addresses
BY DEF TypeOK, ServerPocket

\* What has been handed out is a request, with an owner.
LEMMA IssuedTypes ==
    ASSUME TypeOK, NEW id \in 1..lastRequestID
    PROVE  id \in RequestID /\ id # 0 /\ owner[id] \in Clients /\ AmountOf[owner[id]] \in Nat
<1>1. lastRequestID \in Nat /\ lastRequestID <= MaxRequestID
    BY BoundsAssumption DEF TypeOK
<1>2. id \in RequestID /\ id # 0
    BY <1>1, BoundsAssumption DEF RequestID
<1> QED BY <1>2, AmountAssumption DEF TypeOK

\* A client that knows of a request owns it.
LEMMA KnownRequest ==
    ASSUME TypeOK, ClientsInv, NEW c \in Clients, pc[c] \in Downloading \cup {"done"}
    PROVE  /\ rid[c] \in 1..lastRequestID /\ rid[c] \in RequestID /\ rid[c] # 0
           /\ owner[rid[c]] = c
<1>1. rid[c] \in 1..lastRequestID /\ owner[rid[c]] = c
    BY DEF ClientsInv
<1> QED BY <1>1, IssuedTypes

\* Before the first step nobody has anything to disturb.
LEMMA InitApart == Init => ApartInv
<1> SUFFICES ASSUME Init PROVE ApartInv
    OBVIOUS
<1>1. ClientsInv /\ ToServerInv /\ PocketsInv /\ ToClientInv
    BY DEF Init, ClientsInv, ToServerInv, PocketsInv, ToClientInv, Downloading
<1>2. OwnersInv
    BY PacketTypes DEF Init, OwnersInv
<1>3. WindowsInv
    BY DEF Init, WindowsInv
<1>4. DataInv
    BY DEF Init, DataInv
<1> QED BY <1>1, <1>2, <1>3, <1>4 DEF ApartInv

\* The Response tells a client of a request it owns, that no task works for,
\* and whose windows are still full.
LEMMA ResponseApart ==
    ASSUME TypeOK, TasksInv, DistinctAddresses, ApartInv,
           NEW c \in Clients, NEW m \in s2c, ClientResponse(c, m)
    PROVE  ApartInv'
<1> USE DEF serverUnchanged, mainVars, taskVars
<1>1. /\ pc[c] = "wait" /\ m.to = AddrOf[c] /\ m.type = "Response"
      /\ pc' = [pc EXCEPT ![c] = "ready"] /\ rid' = [rid EXCEPT ![c] = m.id]
      /\ needed' = [needed EXCEPT ![c] = 0..(m.seg - 1)]
      /\ c2s' = c2s \cup {ToServer("Ready", c, m.id, NoSeg)}
      /\ UNCHANGED <<got, s2c, owner, lastRequestID, task, pockets, windowToSend, windowSending>>
    BY DEF ClientResponse
<1>2. m.id \in 1..lastRequestID /\ m.to = AddrOf[owner[m.id]] /\ m.seg = AmountOf[owner[m.id]]
    BY <1>1 DEF ApartInv, ToClientInv
<1>3. m.id \in RequestID /\ m.id # 0 /\ owner[m.id] \in Clients
    BY <1>2, IssuedTypes
<1>4. owner[m.id] = c
    BY <1>1, <1>2, <1>3 DEF DistinctAddresses
<1>5. /\ \A d \in Clients : pc'[d] = IF d = c THEN "ready" ELSE pc[d]
      /\ \A d \in Clients : rid'[d] = IF d = c THEN m.id ELSE rid[d]
      /\ \A d \in Clients : needed'[d] = IF d = c THEN 0..(m.seg - 1) ELSE needed[d]
    BY <1>1 DEF TypeOK
<1>6. rid[c] = 0
    BY <1>1 DEF ApartInv, ClientsInv
<1>7. ClientsInv'
    BY <1>1, <1>2, <1>4, <1>5 DEF ApartInv, ClientsInv, Downloading
<1>8. ASSUME NEW p \in ClientPocket, Sound(p) PROVE Sound(p)'
    <2>1. p.client \in Clients
        BY DEF ClientPocket
    <2> QED BY <1>1, <1>5, <1>8, <2>1 DEF Sound, Downloading
<1>9. ToServerInv'
    <2>1. Sound(ToServer("Ready", c, m.id, NoSeg))'
        BY <1>5 DEF Sound, ToServer, Downloading
    <2> QED BY <1>1, <1>8, <2>1 DEF ApartInv, ToServerInv, TypeOK
<1>10. PocketsInv'
    BY <1>1, <1>8 DEF ApartInv, PocketsInv, TypeOK
<1>11. ToClientInv'
    <2>1. 0 \notin RequestID
        BY IdIsNat
    <2> QED BY <1>1, <1>5, <1>6, <2>1 DEF ApartInv, ToClientInv
<1>12. OwnersInv'
    <2>1. \A id \in RequestID : owner[id] = c => task[id] = "none"
        BY <1>6, IdIsNat DEF ApartInv, OwnersInv
    <2>2. \A id \in RequestID : owner[id] \in Clients
        BY DEF TypeOK
    <2> QED BY <1>1, <1>5, <2>1, <2>2 DEF ApartInv, OwnersInv
<1>13. WindowsInv'
    <2> SUFFICES ASSUME NEW id \in 1..lastRequestID
                 PROVE  /\ Windows(id) \subseteq Segments(id)
                        /\ IF rid'[owner[id]] = id THEN needed'[owner[id]] \subseteq Windows(id)
                                                  ELSE Segments(id) \subseteq Windows(id)
        BY <1>1 DEF WindowsInv, Windows, Segments
    <2>1. owner[id] \in Clients /\ id # 0
        BY IssuedTypes
    <2>2. CASE owner[id] = c
        <3>1. Segments(id) \subseteq Windows(id)
            BY <1>6, <2>1, <2>2 DEF ApartInv, WindowsInv
        <3>2. needed'[c] = Segments(id)
            BY <1>2, <1>4, <1>5, <2>2 DEF Segments
        <3> QED BY <2>2, <3>1, <3>2 DEF ApartInv, WindowsInv
    <2>3. CASE owner[id] # c
        BY <1>5, <2>1, <2>3 DEF ApartInv, WindowsInv
    <2> QED BY <2>2, <2>3
<1>14. DataInv'
    <2>1. \A p \in s2c' : p.type = "Segment" => rid'[p.of] # 0 /\ p.seg \in 0..(AmountOf[p.of] - 1)
        BY <1>1, <1>3, <1>5, ServerPacket DEF ApartInv, DataInv
    <2>2. ASSUME NEW d \in Clients, Alone(d)'
          PROVE  rid'[d] # 0 /\ got'[d] = {<<d, i>> : i \in 0..(AmountOf[d] - 1) \ needed'[d]}
        <3>1. d = c
            BY <1>3, <1>5, <2>2 DEF Alone
        <3>2. Alone(c)
            BY <1>5, <2>2, <3>1 DEF Alone
        <3>3. got'[c] = {}
            BY <1>1, <1>6, <3>2 DEF ApartInv, DataInv
        <3>4. needed'[c] = 0..(AmountOf[c] - 1)
            BY <1>2, <1>4, <1>5
        <3> QED BY <1>3, <1>5, <3>1, <3>3, <3>4
    <2> QED BY <2>1, <2>2 DEF DataInv
<1> QED BY <1>7, <1>9, <1>10, <1>11, <1>12, <1>13, <1>14 DEF ApartInv

\* A segment leaves what a client needs when it puts the bytes away, and its
\* acknowledgement says so.
LEMMA SegmentApart ==
    ASSUME TypeOK, TasksInv, DistinctAddresses, ApartInv,
           NEW c \in Clients, NEW m \in s2c, ClientSegment(c, m)
    PROVE  ApartInv'
<1> USE DEF serverUnchanged, mainVars, taskVars
<1> DEFINE left == needed[c] \ {m.seg}
           ack == ToServer("ACK", c, rid[c], m.seg)
           complited == ToServer("DownloadComplited", c, rid[c], NoSeg)
<1>1. /\ pc[c] \in {"ready", "recv"} /\ m.type = "Segment"
      /\ needed' = [needed EXCEPT ![c] = left]
      /\ got' = [got EXCEPT ![c] = IF m.seg \in needed[c] THEN @ \cup {<<m.of, m.seg>>} ELSE @]
      /\ UNCHANGED <<rid, s2c, owner, lastRequestID, task, pockets, windowToSend, windowSending>>
    BY DEF ClientSegment
<1>2. \/ left = {} /\ pc' = [pc EXCEPT ![c] = "complete"] /\ c2s' = c2s \cup {ack, complited}
      \/ left # {} /\ pc' = [pc EXCEPT ![c] = "recv"] /\ c2s' = c2s \cup {ack}
    BY DEF ClientSegment
<1>3. /\ \A d \in Clients : needed'[d] = IF d = c THEN left ELSE needed[d]
      /\ \A d \in Clients : d # c => pc'[d] = pc[d]
      /\ pc'[c] \in {"recv", "complete"} /\ (pc'[c] = "complete" => left = {})
    BY <1>1, <1>2 DEF TypeOK
<1>4. rid[c] \in 1..lastRequestID /\ rid[c] # 0 /\ owner[rid[c]] = c
    BY <1>1, KnownRequest DEF ApartInv, Downloading
<1>5. ClientsInv'
    BY <1>1, <1>3, <1>4 DEF ApartInv, ClientsInv, Downloading
<1>6. ASSUME NEW p \in ClientPocket, Sound(p) PROVE Sound(p)'
    <2>1. p.client \in Clients
        BY DEF ClientPocket
    <2> QED BY <1>1, <1>3, <1>6, <2>1 DEF Sound, Downloading
<1>7. ToServerInv'
    <2>1. ASSUME NEW p, p = ack PROVE Sound(p)'
        BY <1>1, <1>3, <2>1 DEF Sound, ToServer, Downloading
    <2>2. ASSUME NEW p, p = complited, pc' = [pc EXCEPT ![c] = "complete"] PROVE Sound(p)'
        BY <1>1, <2>2 DEF Sound, ToServer, Downloading, TypeOK
    <2>3. \A p \in c2s : Sound(p)'
        BY <1>6 DEF ApartInv, ToServerInv, TypeOK
    <2> HIDE DEF ack, complited
    <2> QED BY <1>2, <2>1, <2>2, <2>3 DEF ToServerInv
<1>8. PocketsInv'
    BY <1>1, <1>6 DEF ApartInv, PocketsInv, TypeOK
<1>9. ToClientInv'
    BY <1>1 DEF ApartInv, ToClientInv
<1>10. OwnersInv'
    <2>1. \A id \in RequestID : owner[id] \in Clients
        BY DEF TypeOK
    <2> QED BY <1>1, <1>3, <2>1 DEF ApartInv, OwnersInv
<1>11. WindowsInv'
    <2> SUFFICES ASSUME NEW id \in 1..lastRequestID
                 PROVE  /\ Windows(id) \subseteq Segments(id)
                        /\ IF rid[owner[id]] = id THEN needed'[owner[id]] \subseteq Windows(id)
                                                  ELSE Segments(id) \subseteq Windows(id)
        BY <1>1 DEF WindowsInv, Windows, Segments
    <2>1. needed'[owner[id]] \subseteq needed[owner[id]]
        BY <1>3, IssuedTypes
    <2> QED BY <2>1 DEF ApartInv, WindowsInv
<1>12. DataInv'
    <2>1. \A p \in s2c' : p.type = "Segment" => rid'[p.of] # 0 /\ p.seg \in 0..(AmountOf[p.of] - 1)
        BY <1>1 DEF ApartInv, DataInv
    <2>2. ASSUME NEW d \in Clients, Alone(d)'
          PROVE  rid'[d] # 0 /\ got'[d] = {<<d, i>> : i \in 0..(AmountOf[d] - 1) \ needed'[d]}
        <3>1. d = c /\ Alone(c)
            BY <1>1, <1>4, <2>2 DEF Alone
        <3>2. m.of = c /\ m.seg \in 0..(AmountOf[c] - 1)
            BY <1>1, <3>1, ServerPacket DEF ApartInv, DataInv, Alone
        <3>3. got[c] = {<<c, i>> : i \in 0..(AmountOf[c] - 1) \ needed[c]}
            BY <1>4, <3>1 DEF ApartInv, DataInv
        <3>4. got'[c] = IF m.seg \in needed[c] THEN got[c] \cup {<<c, m.seg>>} ELSE got[c]
            BY <1>1, <3>2 DEF TypeOK
        <3>5. needed'[c] = needed[c] \ {m.seg}
            BY <1>3
        <3>6. CASE m.seg \in needed[c]
            BY <3>2, <3>3, <3>4, <3>5, <3>6, <1>1, <1>4, <3>1
        <3>7. CASE m.seg \notin needed[c]
            BY <3>3, <3>4, <3>5, <3>7, <1>1, <1>4, <3>1
        <3> QED BY <3>6, <3>7
    <2> QED BY <2>1, <2>2 DEF DataInv
<1> QED BY <1>5, <1>7, <1>8, <1>9, <1>10, <1>11, <1>12 DEF ApartInv

\* The other steps of a client change what it is at, and nothing it needs.
LEMMA ClientApart ==
    ASSUME TypeOK, TasksInv, DistinctAddresses, ApartInv, NEW c \in Clients, ClientStep(c)
    PROVE  ApartInv'
<1> USE DEF serverUnchanged, mainVars, taskVars
<1>1. ASSUME NEW state, NEW sent \in SUBSET ClientPocket, pc' = [pc EXCEPT ![c] = state],
             c2s' = c2s \cup sent,
             UNCHANGED <<rid, needed, got, s2c, owner, lastRequestID, task, pockets,
                         windowToSend, windowSending>>,
             \/ state = pc[c] /\ pc[c] \in Downloading
             \/ pc[c] = "off" /\ state = "wait"
             \/ pc[c] = "wait" /\ state = "failed"
             \/ pc[c] = "complete" /\ state = "done" /\ task[rid[c]] \in {"closing", "ended"},
             \A m \in sent : Sound(m)'
      PROVE  ApartInv'
    <2>1. \A d \in Clients : pc'[d] = IF d = c THEN state ELSE pc[d]
        BY <1>1 DEF TypeOK
    <2>2. ClientsInv'
        BY <1>1, <2>1 DEF ApartInv, ClientsInv, Downloading
    <2>3. ASSUME NEW p \in ClientPocket, Sound(p) PROVE Sound(p)'
        <3>1. p.client \in Clients
            BY DEF ClientPocket
        <3> QED BY <1>1, <2>1, <2>3, <3>1 DEF Sound, Downloading
    <2>4. ToServerInv' /\ PocketsInv'
        BY <1>1, <2>3 DEF ApartInv, ToServerInv, PocketsInv, TypeOK
    <2>5. ToClientInv'
        BY <1>1 DEF ApartInv, ToClientInv
    <2>6. OwnersInv'
        <3>1. \A id \in RequestID : owner[id] \in Clients
            BY DEF TypeOK
        <3> QED BY <1>1, <2>1, <3>1 DEF ApartInv, OwnersInv, Downloading
    <2>7. WindowsInv' /\ DataInv'
        BY <1>1 DEF ApartInv, WindowsInv, Windows, Segments, DataInv, Alone
    <2> QED BY <2>2, <2>4, <2>5, <2>6, <2>7 DEF ApartInv
<1>2. CASE ClientStart(c)
    <2> DEFINE request == ToServer("Request", c, NoId, NoSeg)
    <2>1. {request} \in SUBSET ClientPocket
        BY PacketTypes DEF NoId, NoSeg
    <2>2. Sound(request)'
        BY DEF Sound, ToServer
    <2> QED BY <1>1, <1>2, <2>1, <2>2 DEF ClientStart
<1>3. CASE ClientNoResponse(c)
    <2>1. {} \in SUBSET ClientPocket /\ c2s' = c2s \cup {}
        BY <1>3 DEF ClientNoResponse
    <2> QED BY <1>1, <1>3, <2>1 DEF ClientNoResponse
<1>4. CASE ClientRepeat(c)
    <2>1. PICK sent \in {ToServer("Ready", c, rid[c], NoSeg),
                         ToServer("DownloadComplited", c, rid[c], NoSeg)} :
            /\ c2s' = c2s \cup {sent} /\ pc[c] \in {"ready", "complete"}
            /\ sent.type = "DownloadComplited" => pc[c] = "complete"
        BY <1>4 DEF ClientRepeat, ToServer
    <2>2. {sent} \in SUBSET ClientPocket
        BY PacketTypes DEF TypeOK, NoSeg
    <2>3. pc' = pc /\ pc' = [pc EXCEPT ![c] = pc[c]] /\ rid' = rid
        BY <1>4 DEF ClientRepeat, clientVars, TypeOK
    <2>4. Sound(sent)'
        BY <2>1, <2>3 DEF Sound, ToServer, Downloading
    <2> QED BY <1>1, <1>4, <2>1, <2>2, <2>3, <2>4 DEF ClientRepeat, clientVars, Downloading
<1>5. ASSUME NEW m \in s2c, ClientClose(c, m) PROVE ApartInv'
    <2>1. {} \in SUBSET ClientPocket /\ c2s' = c2s \cup {}
        BY <1>5 DEF ClientClose
    <2>2. task[rid[c]] \in {"closing", "ended"}
        BY <1>5 DEF ClientClose, ApartInv, ToClientInv
    <2> QED BY <1>1, <1>5, <2>1, <2>2 DEF ClientClose
<1> QED BY <1>2, <1>3, <1>4, <1>5, ResponseApart, SegmentApart DEF ClientStep
\* What a step of the server, or of the network, may do without disturbing a
\* client: move the task of a request its client downloads by, take out of the
\* windows what is not needed, and send what is true.
LEMMA ServerApart ==
    ASSUME TypeOK, ApartInv, c2s' \subseteq c2s,
           UNCHANGED <<pc, rid, needed, got, owner, lastRequestID>>,
           \A id \in RequestID :
                \/ task'[id] = task[id]
                \/ /\ rid[owner[id]] = id
                   /\ task[id] \in {"closing", "ended"} => task'[id] \in {"closing", "ended"}
                   /\ task'[id] \in {"drain", "closing", "ended"} =>
                            pc[owner[id]] \in {"complete", "done"},
           \A id \in RequestID :
                \/ Windows(id)' = Windows(id)
                \/ /\ rid[owner[id]] = id /\ Windows(id)' \subseteq Windows(id)
                   /\ needed[owner[id]] \cap Windows(id) \subseteq Windows(id)',
           \A id \in RequestID : \A p \in pockets'[id] :
                p \in pockets[id] \/ (p.type # "Request" /\ p.id = id /\ Sound(p)),
           \A p \in s2c' : p \notin s2c =>
                /\ p.type = "Response" =>
                        /\ p.id \in 1..lastRequestID
                        /\ p.to = AddrOf[owner[p.id]] /\ p.seg = AmountOf[owner[p.id]]
                /\ p.type = "Close" =>
                        \A c \in Clients : AddrOf[c] = p.to =>
                            rid[c] \in RequestID /\ task'[rid[c]] \in {"closing", "ended"}
                /\ p.type = "Segment" => rid[p.of] # 0 /\ p.seg \in 0..(AmountOf[p.of] - 1)
    PROVE  ApartInv'
<1>1. ClientsInv' /\ ToServerInv' /\ PocketsInv'
    BY DEF ApartInv, ClientsInv, ToServerInv, PocketsInv, Sound
<1>2. \A id \in RequestID : task[id] \in {"closing", "ended"} => task'[id] \in {"closing", "ended"}
    OBVIOUS
<1>3. ToClientInv'
    BY <1>2 DEF ApartInv, ToClientInv
<1>4. OwnersInv'
    <2>1. \A c \in Clients : pc[c] = "done" => rid[c] \in RequestID
        BY KnownRequest DEF ApartInv
    <2>2. \A id \in RequestID : task'[id] # "none" => rid[owner[id]] = id
        BY DEF ApartInv, OwnersInv
    <2>3. \A id \in RequestID : task'[id] \in {"drain", "closing", "ended"} =>
                pc[owner[id]] \in {"complete", "done"}
        BY DEF ApartInv, OwnersInv
    <2> QED BY <1>2, <2>1, <2>2, <2>3 DEF ApartInv, OwnersInv
<1>5. WindowsInv'
    <2> SUFFICES ASSUME NEW id \in 1..lastRequestID
                 PROVE  /\ Windows(id)' \subseteq Segments(id)
                        /\ IF rid[owner[id]] = id THEN needed[owner[id]] \subseteq Windows(id)'
                                                  ELSE Segments(id) \subseteq Windows(id)'
        BY DEF WindowsInv, Segments
    <2>1. id \in RequestID
        BY IssuedTypes
    <2> QED BY <2>1 DEF ApartInv, WindowsInv
<1>6. DataInv'
    BY DEF ApartInv, DataInv, Alone
<1> QED BY <1>1, <1>3, <1>4, <1>5, <1>6 DEF ApartInv

\* A repeated Response is the one its request was answered with.
LEMMA RepeatedResponses ==
    ASSUME TypeOK, TasksInv, NEW m \in c2s, NEW p \in Repeated(m)
    PROVE  /\ p.type = "Response" /\ p.id \in 1..lastRequestID
           /\ p.to = AddrOf[owner[p.id]] /\ p.seg = AmountOf[owner[p.id]]
<1>1. PICK id \in notReady : p = ResponseTo(id)
    BY DEF Repeated
<1>2. id \in RequestID /\ id \in handlers
    BY DEF TypeOK, TasksInv, NotReadyHasHandler
<1>3. id <= lastRequestID /\ id \in Nat /\ id # 0 /\ lastRequestID \in Nat
    BY <1>2, IdIsNat, BoundsAssumption DEF TasksInv, HandlersInv, TypeOK
<1>4. p.type = "Response" /\ p.id = id /\ p.to = AddrOf[owner[id]] /\ p.seg = AmountOf[owner[id]]
    BY <1>1 DEF ResponseTo, ToClient
<1> QED BY <1>3, <1>4

\* A new request is one nobody knows of, and its windows are full.
LEMMA AcceptApart ==
    ASSUME TypeOK, TasksInv, ApartInv, NEW m \in c2s, MainAccept(m)
    PROVE  ApartInv'
<1> USE DEF MainReceives, clientVars
<1> DEFINE id == lastRequestID + 1
           amount == AmountOf[m.client]
           response == ToClient("Response", AddrOf[m.client], id, amount, m.client)
<1>1. /\ id \in RequestID /\ lastRequestID \in Nat /\ id \in Nat /\ id # 0
      /\ id \notin 1..lastRequestID /\ 1..id = 1..lastRequestID \cup {id}
    BY BoundsAssumption DEF TypeOK, MainAccept, RequestID
<1>2. m.client \in Clients /\ amount \in Nat
    BY MainTypes, AmountAssumption
<1>3. /\ lastRequestID' = id
      /\ owner' = [owner EXCEPT ![id] = m.client]
      /\ windowToSend' = [windowToSend EXCEPT ![id] = 0..(amount - 1)]
      /\ s2c' = s2c \cup Repeated(m) \cup {response}
      /\ UNCHANGED <<pc, rid, needed, got, task, windowSending, pockets, c2s>>
    BY DEF MainAccept
<1>4. \A x \in RequestID : owner'[x] = IF x = id THEN m.client ELSE owner[x]
    BY <1>3 DEF TypeOK
<1>5. /\ task[id] = "none" /\ windowSending[id] = {}
    BY <1>1 DEF TasksInv, HandlersInv
<1>6. \A x \in 1..lastRequestID : x \in RequestID /\ x # id /\ owner'[x] = owner[x]
    BY <1>1, <1>4, IssuedTypes
<1>7. \A c \in Clients : rid[c] # id
    <2>1. \A c \in Clients : pc[c] \in Downloading \cup {"done"} \/ pc[c] \in {"off", "wait", "failed"}
        BY DEF TypeOK
    <2> QED BY <1>1, <2>1, KnownRequest DEF ApartInv, ClientsInv
<1>8. ClientsInv'
    BY <1>1, <1>3, <1>6 DEF ApartInv, ClientsInv
<1>9. ToServerInv' /\ PocketsInv'
    BY <1>3 DEF ApartInv, ToServerInv, PocketsInv, Sound
<1>10. ToClientInv'
    <2>1. ASSUME NEW p \in s2c', p.type = "Response"
          PROVE  /\ p.id \in 1..id /\ p.to = AddrOf[owner'[p.id]] /\ p.seg = AmountOf[owner'[p.id]]
        <3>1. CASE p = response
            BY <1>1, <1>4, <3>1 DEF ToClient
        <3>2. CASE p # response
            <4>1. /\ p.id \in 1..lastRequestID
                  /\ p.to = AddrOf[owner[p.id]] /\ p.seg = AmountOf[owner[p.id]]
                BY <1>3, <2>1, <3>2, RepeatedResponses DEF ApartInv, ToClientInv
            <4> QED BY <1>1, <1>6, <4>1
        <3> QED BY <3>1, <3>2
    <2>2. \A p \in s2c' : p.type = "Close" => p \in s2c
        BY <1>3, RepeatedResponses DEF ToClient
    <2>3. \A p \in s2c' : p.type = "Close" =>
            \A c \in Clients : AddrOf[c] = p.to =>
                rid'[c] \in RequestID /\ task'[rid'[c]] \in {"closing", "ended"}
        BY <1>3, <2>2 DEF ApartInv, ToClientInv
    <2> QED BY <1>3, <2>1, <2>3 DEF ToClientInv
<1>11. OwnersInv'
    BY <1>3, <1>4, <1>5 DEF ApartInv, OwnersInv
<1>12. WindowsInv'
    <2> SUFFICES ASSUME NEW x \in 1..id
                 PROVE  /\ Windows(x)' \subseteq Segments(x)'
                        /\ IF rid[owner'[x]] = x THEN needed[owner'[x]] \subseteq Windows(x)'
                                                 ELSE Segments(x)' \subseteq Windows(x)'
        BY <1>3 DEF WindowsInv
    <2>1. CASE x = id
        <3>1. Windows(x)' = 0..(amount - 1)
            BY <1>1, <1>3, <1>5, <2>1 DEF Windows, TypeOK
        <3>2. Segments(x)' = 0..(amount - 1)
            BY <1>1, <1>4, <2>1 DEF Segments
        <3>3. rid[owner'[x]] # x
            BY <1>1, <1>2, <1>4, <1>7, <2>1
        <3> QED BY <3>1, <3>2, <3>3
    <2>2. CASE x \in 1..lastRequestID
        <3>1. owner'[x] = owner[x] /\ Segments(x)' = Segments(x)
            BY <1>6, <2>2 DEF Segments
        <3>2. Windows(x)' = Windows(x)
            BY <1>3, <1>6, <2>2 DEF Windows, TypeOK
        <3> QED BY <2>2, <3>1, <3>2 DEF ApartInv, WindowsInv
    <2> QED BY <1>1, <2>1, <2>2
<1>13. DataInv'
    <2>1. \A p \in s2c' : p.type = "Segment" => p \in s2c
        BY <1>3, RepeatedResponses DEF ToClient
    <2> QED BY <1>3, <2>1 DEF ApartInv, DataInv, Alone
<1> QED BY <1>8, <1>9, <1>10, <1>11, <1>12, <1>13 DEF ApartInv

\* The main loop believes what a packet says, and the packet is true.
LEMMA MainApart ==
    ASSUME TypeOK, TasksInv, DistinctAddresses, ApartInv, MainStep
    PROVE  ApartInv'
<1> USE DEF MainReceives, clientVars, taskVars
<1>1. \A m \in c2s : m.type # "Request" =>
        /\ m.client \in Clients /\ m.id \in RequestID /\ m.id \in 1..lastRequestID
        /\ owner[m.id] = m.client /\ rid[owner[m.id]] = m.id /\ Sound(m)
    BY MainTypes, KnownRequest DEF ApartInv, ToServerInv, Sound
<1>2. ASSUME NEW m \in c2s, MainReject(m) PROVE ApartInv'
    <2>1. s2c' = s2c \cup Repeated(m) \cup {ErrorTo(AddrOf[m.client])}
        BY <1>2 DEF MainReject
    <2>2. UNCHANGED <<pc, rid, needed, got, owner, lastRequestID, task, pockets, c2s>>
        BY <1>2 DEF MainReject
    <2>3. \A id \in RequestID : Windows(id)' = Windows(id)
        BY <1>2 DEF MainReject, Windows
    <2> QED BY <2>1, <2>2, <2>3, RepeatedResponses, ServerApart DEF ErrorTo, ToClient
<1>3. ASSUME NEW m \in c2s, MainReady(m) PROVE ApartInv'
    <2>1. /\ s2c' = s2c \cup Repeated(m) /\ task[m.id] = "none" /\ m.id \in RequestID
          /\ task' = [task EXCEPT ![m.id] = "queued"] /\ rid[owner[m.id]] = m.id
          /\ UNCHANGED <<pc, rid, needed, got, owner, lastRequestID, pockets, c2s>>
        BY <1>1, <1>3 DEF MainReady
    <2>2. \A id \in RequestID : task'[id] = IF id = m.id THEN "queued" ELSE task[id]
        BY <2>1 DEF TypeOK
    <2>3. \A id \in RequestID : Windows(id)' = Windows(id)
        BY <1>3 DEF MainReady, Windows
    <2> QED BY <2>1, <2>2, <2>3, RepeatedResponses, ServerApart
<1>4. ASSUME NEW m \in c2s, MainPocket(m) PROVE ApartInv'
    <2>1. /\ s2c' = s2c \cup Repeated(m) /\ m.type # "Request"
          /\ pockets' = [pockets EXCEPT ![m.id] = @ \cup {m}]
          /\ UNCHANGED <<pc, rid, needed, got, owner, lastRequestID, task, c2s>>
        BY <1>4 DEF MainPocket
    <2>2. \A id \in RequestID : \A p \in pockets'[id] : p \in pockets[id] \/ (p = m /\ p.id = id)
        BY <2>1 DEF TypeOK
    <2>3. \A id \in RequestID : Windows(id)' = Windows(id)
        BY <1>4 DEF MainPocket, Windows
    <2> QED BY <1>1, <2>1, <2>2, <2>3, RepeatedResponses, ServerApart
<1>5. ASSUME NEW m \in c2s, MainUnknown(m) PROVE ApartInv'
    <2>1. /\ s2c' = s2c \cup Repeated(m) \cup {CloseTo(AddrOf[m.client])}
          /\ m.type # "Request" /\ m.id \notin handlers
          /\ UNCHANGED <<pc, rid, needed, got, owner, lastRequestID, task, pockets, c2s>>
        BY <1>5 DEF MainUnknown
    <2>2. \A id \in RequestID : Windows(id)' = Windows(id)
        BY <1>5 DEF MainUnknown, Windows
    <2>3. m.client \in Clients /\ rid[m.client] = m.id /\ m.id \in RequestID /\ m.id \in 1..lastRequestID
        BY <1>1, <2>1
    <2>4. task[m.id] = "ended"
        <3>1. lastRequestID \in Nat /\ m.id <= lastRequestID
            BY <2>3, BoundsAssumption DEF TypeOK
        <3> QED BY <2>1, <2>3, <3>1 DEF TasksInv, HandlersInv
    <2>5. \A c \in Clients : AddrOf[c] = AddrOf[m.client] => c = m.client
        BY <2>3 DEF DistinctAddresses
    <2>6. \A p \in s2c' : p \notin s2c /\ p.type # "Response" => p.type = "Close" /\ p.to = AddrOf[m.client]
        BY <2>1, RepeatedResponses DEF CloseTo, ToClient
    <2>7. \A p \in s2c' : p \notin s2c /\ p.type = "Response" => p \in Repeated(m)
        BY <2>1 DEF CloseTo, ToClient
    <2> QED BY <2>1, <2>2, <2>3, <2>4, <2>5, <2>6, <2>7, RepeatedResponses, ServerApart
<1>6. ASSUME NEW m \in c2s, MainLosesHandler(m) PROVE ApartInv'
    <2>1. /\ s2c' = s2c \cup Repeated(m) /\ task[m.id] = "closing" /\ m.id \in RequestID
          /\ task' = [task EXCEPT ![m.id] = "ended"] /\ rid[owner[m.id]] = m.id
          /\ UNCHANGED <<pc, rid, needed, got, owner, lastRequestID, pockets, c2s>>
        BY <1>1, <1>6 DEF MainLosesHandler
    <2>2. \A id \in RequestID : task'[id] = IF id = m.id THEN "ended" ELSE task[id]
        BY <2>1 DEF TypeOK
    <2>3. \A id \in RequestID : Windows(id)' = Windows(id)
        BY <1>6 DEF MainLosesHandler, Windows
    <2>4. pc[owner[m.id]] \in {"complete", "done"}
        BY <2>1 DEF ApartInv, OwnersInv
    <2> QED BY <2>1, <2>2, <2>3, <2>4, RepeatedResponses, ServerApart
<1> QED BY <1>2, <1>3, <1>4, <1>5, <1>6, AcceptApart DEF MainStep
\* A segment sent is one of the request, and an acknowledged one is not needed.
LEMMA TaskApart ==
    ASSUME TypeOK, TasksInv, DistinctAddresses, ApartInv, TaskStep
    PROVE  ApartInv'
<1> USE DEF taskUnchanged, clientVars, mainVars
<1>1. \A id \in RequestID : task[id] # "none" =>
        /\ id \in 1..lastRequestID /\ owner[id] \in Clients
        /\ rid[owner[id]] = id /\ Windows(id) \subseteq Segments(id)
    BY TaskIsIssued, IssuedTypes DEF ApartInv, OwnersInv, WindowsInv
<1>2. CASE TaskStart
    <2>1. /\ task' = [task EXCEPT ![Head(queue)] = "send"] /\ queue # <<>>
          /\ UNCHANGED <<pc, rid, needed, got, owner, lastRequestID, pockets, c2s, s2c>>
        BY <1>2 DEF TaskStart
    <2>2. Head(queue) \in RequestID /\ task[Head(queue)] = "queued"
        BY <2>1, HeadTailProperties, EmptySeq DEF TypeOK, TasksInv, QueueInv
    <2>3. \A id \in RequestID : task'[id] = IF id = Head(queue) THEN "send" ELSE task[id]
        BY <2>1, <2>2 DEF TypeOK
    <2>4. \A id \in RequestID : Windows(id)' = Windows(id)
        BY <1>2 DEF TaskStart, Windows
    <2> QED BY <1>1, <2>1, <2>2, <2>3, <2>4, ServerApart
<1>3. ASSUME NEW id \in RequestID, TaskSend(id) PROVE ApartInv'
    <2>1. PICK i \in windowToSend[id] :
            /\ windowToSend' = [windowToSend EXCEPT ![id] = @ \ {i}]
            /\ windowSending' = [windowSending EXCEPT ![id] = @ \cup {i}]
            /\ s2c' = s2c \cup {SegmentFrom(id, i, clientAddress)}
        BY <1>3 DEF TaskSend
    <2>2. UNCHANGED <<pc, rid, needed, got, owner, lastRequestID, task, pockets, c2s>> /\ task[id] = "send"
        BY <1>3 DEF TaskSend
    <2>3. \A x \in RequestID : Windows(x)' = Windows(x)
        BY <2>1 DEF Windows, TypeOK
    <2>4. rid[owner[id]] # 0 /\ i \in 0..(AmountOf[owner[id]] - 1)
        BY <1>1, <2>1, <2>2, IdIsNat DEF Windows, Segments
    <2>5. \A p \in s2c' : p \notin s2c => p.type = "Segment" /\ p.of = owner[id] /\ p.seg = i
        BY <2>1 DEF SegmentFrom, ToClient
    <2> QED BY <2>2, <2>3, <2>4, <2>5, ServerApart
<1>4. ASSUME NEW id \in RequestID, TaskRefresh(id) PROVE ApartInv'
    <2>1. /\ task' = [task EXCEPT ![id] = "refresh"] /\ task[id] = "send"
          /\ UNCHANGED <<pc, rid, needed, got, owner, lastRequestID, pockets, c2s, s2c>>
        BY <1>4 DEF TaskRefresh
    <2>2. \A x \in RequestID : task'[x] = IF x = id THEN "refresh" ELSE task[x]
        BY <2>1 DEF TypeOK
    <2>3. \A x \in RequestID : Windows(x)' = Windows(x)
        BY <1>4 DEF TaskRefresh, Windows
    <2> QED BY <1>1, <2>1, <2>2, <2>3, ServerApart
<1>5. ASSUME NEW id \in RequestID, NEW p \in pockets[id], TaskPocket(id, p) PROVE ApartInv'
    <2>1. /\ task[id] \in {"refresh", "drain"} /\ rid[owner[id]] = id /\ owner[id] \in Clients
          /\ UNCHANGED <<pc, rid, needed, got, owner, lastRequestID, c2s, s2c>>
        BY <1>1, <1>5 DEF TaskPocket
    <2>2. p \in ClientPocket /\ p.client \in Clients
        BY DEF TypeOK, ClientPocket
    <2>3. Sound(p) /\ p.type # "Request" /\ p.id = id
        BY DEF ApartInv, PocketsInv
    <2>4. p.client = owner[id]
        BY <2>2, <2>3, KnownRequest DEF ApartInv, Sound
    <2>5. \A x \in RequestID : pockets'[x] \subseteq pockets[x]
        BY <1>5 DEF TaskPocket, TypeOK
    <2>6. CASE p.type = "ACK"
        <3>1. /\ windowToSend' = [windowToSend EXCEPT ![id] = @ \ {p.seg}]
              /\ windowSending' = [windowSending EXCEPT ![id] = @ \ {p.seg}] /\ UNCHANGED task
            BY <1>5, <2>6 DEF TaskPocket
        <3>2. p.seg \notin needed[owner[id]]
            BY <2>3, <2>4, <2>6 DEF Sound
        <3>3. \A x \in RequestID : Windows(x)' = IF x = id THEN Windows(x) \ {p.seg} ELSE Windows(x)
            BY <3>1 DEF Windows, TypeOK
        <3> QED BY <2>1, <2>5, <3>1, <3>2, <3>3, ServerApart
    <2>7. CASE p.type = "DownloadComplited"
        <3>1. task' = [task EXCEPT ![id] = "drain"] /\ UNCHANGED <<windowToSend, windowSending>>
            BY <1>5, <2>7 DEF TaskPocket
        <3>2. pc[owner[id]] \in {"complete", "done"}
            BY <2>3, <2>4, <2>7 DEF Sound
        <3>3. \A x \in RequestID : task'[x] = IF x = id THEN "drain" ELSE task[x]
            BY <3>1 DEF TypeOK
        <3>4. \A x \in RequestID : Windows(x)' = Windows(x)
            BY <3>1 DEF Windows
        <3> QED BY <2>1, <2>5, <3>2, <3>3, <3>4, ServerApart
    <2>8. CASE p.type \notin {"ACK", "DownloadComplited"}
        <3>1. UNCHANGED <<task, windowToSend, windowSending>>
            BY <1>5, <2>8 DEF TaskPocket
        <3>2. \A x \in RequestID : Windows(x)' = Windows(x)
            BY <3>1 DEF Windows
        <3> QED BY <2>1, <2>5, <3>1, <3>2, ServerApart
    <2> QED BY <2>6, <2>7, <2>8
<1>6. ASSUME NEW id \in RequestID, TaskTimeout(id) PROVE ApartInv'
    <2>1. /\ task' = [task EXCEPT ![id] = "send"] /\ task[id] = "refresh"
          /\ windowToSend' = [windowToSend EXCEPT ![id] = windowSending[id] \cup @]
          /\ windowSending' = [windowSending EXCEPT ![id] = {}]
          /\ UNCHANGED <<pc, rid, needed, got, owner, lastRequestID, pockets, c2s, s2c>>
        BY <1>6 DEF TaskTimeout
    <2>2. \A x \in RequestID : task'[x] = IF x = id THEN "send" ELSE task[x]
        BY <2>1 DEF TypeOK
    <2>3. \A x \in RequestID : Windows(x)' = Windows(x)
        BY <2>1 DEF Windows, TypeOK
    <2> QED BY <1>1, <2>1, <2>2, <2>3, ServerApart
<1>7. ASSUME NEW id \in RequestID, TaskClose(id) PROVE ApartInv'
    <2>1. /\ task' = [task EXCEPT ![id] = "closing"] /\ task[id] = "drain"
          /\ s2c' = s2c \cup {CloseTo(AddrOf[owner[id]])}
          /\ UNCHANGED <<pc, rid, needed, got, owner, lastRequestID, pockets, c2s>>
        BY <1>7 DEF TaskClose
    <2>2. \A x \in RequestID : task'[x] = IF x = id THEN "closing" ELSE task[x]
        BY <2>1 DEF TypeOK
    <2>3. \A x \in RequestID : Windows(x)' = Windows(x)
        BY <1>7 DEF TaskClose, Windows
    <2>4. pc[owner[id]] \in {"complete", "done"} /\ rid[owner[id]] = id /\ owner[id] \in Clients
        BY <1>1, <2>1 DEF ApartInv, OwnersInv
    <2>5. \A c \in Clients : AddrOf[c] = AddrOf[owner[id]] => c = owner[id]
        BY <2>4 DEF DistinctAddresses
    <2>6. \A p \in s2c' : p \notin s2c => p.type = "Close" /\ p.to = AddrOf[owner[id]]
        BY <2>1 DEF CloseTo, ToClient
    <2> QED BY <2>1, <2>2, <2>3, <2>4, <2>5, <2>6, ServerApart
<1>8. ASSUME NEW id \in RequestID, TaskPop(id) PROVE ApartInv'
    <2>1. /\ task' = [task EXCEPT ![id] = "ended"] /\ task[id] = "closing"
          /\ UNCHANGED <<pc, rid, needed, got, owner, lastRequestID, pockets, c2s, s2c>>
        BY <1>8 DEF TaskPop
    <2>2. \A x \in RequestID : task'[x] = IF x = id THEN "ended" ELSE task[x]
        BY <2>1 DEF TypeOK
    <2>3. \A x \in RequestID : Windows(x)' = Windows(x)
        BY <1>8 DEF TaskPop, Windows
    <2>4. pc[owner[id]] \in {"complete", "done"} /\ rid[owner[id]] = id
        BY <1>1, <2>1 DEF ApartInv, OwnersInv
    <2> QED BY <2>1, <2>2, <2>3, <2>4, ServerApart
<1> QED BY <1>2, <1>3, <1>4, <1>5, <1>6, <1>7, <1>8 DEF TaskStep

\* The invariant of the clients and the server is inductive.
LEMMA NextInv == IInv /\ [Next]_vars => IInv'
<1> SUFFICES ASSUME IInv, [Next]_vars PROVE IInv'
    OBVIOUS
<1>1. TypeOK' /\ TasksInv'
    BY NextType, NextTasks DEF IInv
<1>2. ASSUME DistinctAddresses PROVE ApartInv'
    <2>1. TypeOK /\ TasksInv /\ ApartInv
        BY <1>2 DEF IInv
    <2>2. CASE NetworkStep
        <3>1. /\ c2s' \subseteq c2s /\ s2c' \subseteq s2c
              /\ UNCHANGED <<pc, rid, needed, got, owner, lastRequestID, task, pockets>>
            BY <2>2 DEF NetworkStep, LoseToServer, LoseToClient, serverUnchanged, clientVars, mainVars, taskVars
        <3>2. \A id \in RequestID : Windows(id)' = Windows(id)
            BY <2>2 DEF NetworkStep, LoseToServer, LoseToClient, serverUnchanged, taskVars, Windows
        <3> QED BY <2>1, <3>1, <3>2, ServerApart
    <2>3. CASE UNCHANGED vars
        <3>1. UNCHANGED <<pc, rid, needed, got, owner, lastRequestID, task, pockets, c2s, s2c>>
            BY <2>3 DEF vars, clientVars, mainVars, taskVars
        <3>2. \A id \in RequestID : Windows(id)' = Windows(id)
            BY <2>3 DEF vars, taskVars, Windows
        <3> QED BY <2>1, <3>1, <3>2, ServerApart
    <2> QED BY <1>2, <2>1, <2>2, <2>3, ClientApart, MainApart, TaskApart DEF Next
<1>3. DistinctAddresses' = DistinctAddresses
    BY DEF DistinctAddresses
<1> QED BY <1>1, <1>2, <1>3 DEF IInv

\* It holds in every behaviour.
THEOREM InvariantHolds == Spec => []IInv
<1>1. Init => IInv
    BY InitType, InitTasks, InitApart DEF IInv
<1> QED BY <1>1, NextInv, PTL DEF Spec

\* A segment a client still needs is in a window of the server: it will be
\* sent (again), whatever was lost.
THEOREM NeededIsInWindowAlways == Spec => []NeededIsInWindow
<1>1. IInv => NeededIsInWindow
    <2> SUFFICES ASSUME IInv, DistinctAddresses, NEW c \in Clients, pc[c] \in Downloading
                 PROVE  needed[c] \subseteq Windows(rid[c])
        BY DEF NeededIsInWindow, Windows
    <2>1. rid[c] \in 1..lastRequestID /\ owner[rid[c]] = c
        BY KnownRequest DEF IInv, ApartInv
    <2> QED BY <2>1 DEF IInv, ApartInv, WindowsInv
<1> QED BY <1>1, InvariantHolds, PTL

\* A task ends only when its client has everything.
THEOREM DroppedWhenCompleteAlways == Spec => []DroppedWhenComplete
<1>1. IInv => DroppedWhenComplete
    BY DEF IInv, ApartInv, OwnersInv, DroppedWhenComplete
<1> QED BY <1>1, InvariantHolds, PTL

\* A client is closed only when the task of its request is at its end.
THEOREM ClosedReleasesThreadAlways == Spec => []ClosedReleasesThread
<1>1. IInv => ClosedReleasesThread
    BY DEF IInv, ApartInv, OwnersInv, ClosedReleasesThread
<1> QED BY <1>1, InvariantHolds, PTL

\* A client that nobody downloads besides has the file it asked for, whatever
\* the network lost and whoever else sent requests.
THEOREM DataIntactAloneAlways == Spec => []DataIntactAlone
<1>1. IInv => DataIntactAlone
    <2> SUFFICES ASSUME IInv, DistinctAddresses, NEW c \in Clients, pc[c] = "done", Alone(c)
                 PROVE  got[c] = Body(c)
        BY DEF DataIntactAlone
    <2>1. rid[c] # 0
        BY KnownRequest DEF IInv, ApartInv
    <2>2. needed[c] = {}
        BY DEF IInv, ApartInv, ClientsInv
    <2>3. got[c] = {<<c, i>> : i \in 0..(AmountOf[c] - 1) \ needed[c]}
        BY <2>1 DEF IInv, ApartInv, DataInv
    <2> QED BY <2>2, <2>3 DEF Body
<1> QED BY <1>1, InvariantHolds, PTL
=============================================================================
