----------------------------- MODULE RudpDownload -----------------------------
(***************************************************************************)
(* The download of a file (and of a directory listing, which travels the   *)
(* same way): download_data of the client, the main loop of the app server, *)
(* its pool of two threads running downloading_task, and the dictionary of *)
(* handlers they share, over the network of RudpUpload.                    *)
(*                                                                         *)
(* The main loop and the tasks are threads of one process.  A task reads   *)
(* clientAddress, a variable of main_loop: the sender of the packet that   *)
(* was received last, whoever that is.                                     *)
(***************************************************************************)
EXTENDS Naturals, FiniteSets, Sequences

CONSTANTS
    Clients,        \* the client processes, one download each
    Addresses,
    AddrOf,         \* the address a client binds
    AmountOf,       \* number of segments of the file a client asks for
    MaxRequestID,   \* bound on the ids the server hands out
    PoolSize,       \* ThreadPoolExecutor(2)
    CwndStart,      \* config.CWND_START_VALUE
    MaxCwnd,        \* bound on the window the cubic formula may return
    Refused,        \* the clients whose user or path may not be accepted
    Lossy           \* the types of the datagrams that may vanish

ASSUME ClientsAssumption == Clients # {}
ASSUME AddrAssumption == AddrOf \in [Clients -> Addresses]
ASSUME AmountAssumption == AmountOf \in [Clients -> Nat \ {0}]
ASSUME BoundsAssumption ==
    /\ MaxRequestID \in Nat
    /\ PoolSize \in Nat \ {0}
    /\ MaxCwnd \in Nat
    /\ CwndStart \in 1..MaxCwnd

VARIABLES
    pc,             \* where the client process is
    rid,            \* requestID of download_data, 0 before the Response
    needed,         \* neededSegments
    got,            \* segments: pairs <<owner of the bytes, number>>
    mainPc,         \* "loop", or "dead" after an exception in main_loop
    clientAddress,  \* the sender of the last packet
    handlers, owner, lastRequestID,
    notReady,       \* keys of the dictionary of responses to be repeated
    queue,          \* what the executor has not started yet
    task,           \* where the downloading_task of a request is
    windowToSend, windowSending, cwnd,
    pockets,        \* handler.pockets
    c2s, s2c        \* the datagrams under way

clientVars == <<pc, rid, needed, got>>
mainVars == <<mainPc, clientAddress, owner, lastRequestID, notReady>>
taskVars == <<task, windowToSend, windowSending, cwnd>>
vars == <<clientVars, mainVars, handlers, queue, taskVars, pockets, c2s, s2c>>

RequestID == 1..MaxRequestID
Body(c) == {<<c, i>> : i \in 0..(AmountOf[c] - 1)}

ClientPocket == [type : {"Request", "Ready", "ACK", "DownloadComplited"},
                 client : Clients, id : Nat, seg : Nat]
ServerPocket == [type : {"Response", "Error", "Segment", "Close"},
                 to : Addresses, id : Nat, seg : Nat, of : Clients]

ToServer(t, c, id, i) == [type |-> t, client |-> c, id |-> id, seg |-> i]
\* The "of" field of a Segment is the owner of its bytes; in a Response seg
\* is the segments amount.
ToClient(t, a, id, i, c) == [type |-> t, to |-> a, id |-> id, seg |-> i, of |-> c]

\* Fields a packet does not have.
NoId == 0
NoSeg == 0
SomeClient == CHOOSE c \in Clients : TRUE

ResponseTo(id) ==
    ToClient("Response", AddrOf[owner[id]], id, AmountOf[owner[id]], owner[id])
SegmentFrom(id, i, a) == ToClient("Segment", a, id, i, owner[id])
CloseTo(a) == ToClient("Close", a, NoId, NoSeg, SomeClient)
ErrorTo(a) == ToClient("Error", a, NoId, NoSeg, SomeClient)

Downloading == {"ready", "recv", "complete"}
Running == {"send", "refresh", "drain", "closing"}

TypeOK ==
    /\ pc \in [Clients -> Downloading \cup {"off", "wait", "done", "failed"}]
    /\ rid \in [Clients -> Nat]
    /\ needed \in [Clients -> SUBSET Nat]
    /\ got \in [Clients -> SUBSET (Clients \X Nat)]
    /\ mainPc \in {"loop", "dead"}
    /\ clientAddress \in Addresses
    /\ handlers \in SUBSET RequestID
    /\ owner \in [RequestID -> Clients]
    /\ lastRequestID \in 0..MaxRequestID
    /\ notReady \in SUBSET RequestID
    /\ queue \in Seq(RequestID)
    /\ task \in [RequestID -> Running \cup {"none", "queued", "ended"}]
    /\ windowToSend \in [RequestID -> SUBSET Nat]
    /\ windowSending \in [RequestID -> SUBSET Nat]
    /\ cwnd \in [RequestID -> 1..MaxCwnd]
    /\ pockets \in [RequestID -> SUBSET ClientPocket]
    /\ c2s \in SUBSET ClientPocket
    /\ s2c \in SUBSET ServerPocket

Init ==
    /\ pc = [c \in Clients |-> "off"]
    /\ rid = [c \in Clients |-> 0]
    /\ needed = [c \in Clients |-> {}]
    /\ got = [c \in Clients |-> {}]
    /\ mainPc = "loop"
    /\ clientAddress = AddrOf[SomeClient]
    /\ handlers = {}
    /\ owner = [id \in RequestID |-> SomeClient]
    /\ lastRequestID = 0
    /\ notReady = {}
    /\ queue = <<>>
    /\ task = [id \in RequestID |-> "none"]
    /\ windowToSend = [id \in RequestID |-> {}]
    /\ windowSending = [id \in RequestID |-> {}]
    /\ cwnd = [id \in RequestID |-> CwndStart]
    /\ pockets = [id \in RequestID |-> {}]
    /\ c2s = {}
    /\ s2c = {}

-----------------------------------------------------------------------------
(***************************************************************************)
(* The client.                                                             *)
(***************************************************************************)
serverUnchanged == UNCHANGED <<mainVars, handlers, queue, taskVars, pockets>>

ClientStart(c) ==
    /\ pc[c] = "off"
    /\ pc' = [pc EXCEPT ![c] = "wait"]
    /\ c2s' = c2s \cup {ToServer("Request", c, NoId, NoSeg)}
    /\ UNCHANGED <<rid, needed, got, s2c>> /\ serverUnchanged

\* A bug for DataIntactAlone: the last segment is not asked for.
ResponseButOne(c, m) ==
    /\ pc[c] = "wait"
    /\ m \in s2c /\ m.to = AddrOf[c]
    /\ m.type = "Response"
    /\ pc' = [pc EXCEPT ![c] = "ready"]
    /\ rid' = [rid EXCEPT ![c] = m.id]
    /\ needed' = [needed EXCEPT ![c] = 0..(m.seg - 1) \ {m.seg - 1}]
    /\ c2s' = c2s \cup {ToServer("Ready", c, m.id, NoSeg)}
    /\ UNCHANGED <<got, s2c>> /\ serverUnchanged

\* The first datagram is taken for the Response.  An error is printed, and
\* a timeout of recvfrom is an exception nobody catches: both end the client.
ClientResponse(c, m) ==
    /\ pc[c] = "wait"
    /\ m \in s2c /\ m.to = AddrOf[c]
    /\ m.type = "Response"
    /\ pc' = [pc EXCEPT ![c] = "ready"]
    /\ rid' = [rid EXCEPT ![c] = m.id]
    /\ needed' = [needed EXCEPT ![c] = 0..(m.seg - 1)]
    /\ c2s' = c2s \cup {ToServer("Ready", c, m.id, NoSeg)}
    /\ UNCHANGED <<got, s2c>> /\ serverUnchanged

ClientNoResponse(c) ==
    /\ pc[c] = "wait"
    /\ pc' = [pc EXCEPT ![c] = "failed"]
    /\ UNCHANGED <<rid, needed, got, c2s, s2c>> /\ serverUnchanged

\* Until the first segment comes the client repeats its ReadyForDownloading,
\* after the last one its DownloadComplited.  In between it only answers.
ClientRepeat(c) ==
    /\ \/ /\ pc[c] = "ready"
          /\ c2s' = c2s \cup {ToServer("Ready", c, rid[c], NoSeg)}
       \/ /\ pc[c] = "complete"
          /\ c2s' = c2s \cup {ToServer("DownloadComplited", c, rid[c], NoSeg)}
    /\ UNCHANGED <<clientVars, s2c>> /\ serverUnchanged

\* The bytes that come with a number still needed are kept, whatever request
\* the segment belongs to, and every segment is acknowledged.
ClientSegment(c, m) ==
    /\ pc[c] \in {"ready", "recv"}
    /\ m \in s2c /\ m.to = AddrOf[c]
    /\ m.type = "Segment"
    /\ LET left == needed[c] \ {m.seg}
           ack == ToServer("ACK", c, rid[c], m.seg)
       IN  /\ needed' = [needed EXCEPT ![c] = left]
           /\ got' = [got EXCEPT ![c] = IF m.seg \in needed[c] THEN @ \cup {<<m.of, m.seg>>} ELSE @]
           /\ \/ /\ left = {}
                 /\ pc' = [pc EXCEPT ![c] = "complete"]
                 /\ c2s' = c2s \cup {ack, ToServer("DownloadComplited", c, rid[c], NoSeg)}
              \/ /\ left # {}
                 /\ pc' = [pc EXCEPT ![c] = "recv"]
                 /\ c2s' = c2s \cup {ack}
    /\ UNCHANGED <<rid, s2c>> /\ serverUnchanged

ClientClose(c, m) ==
    /\ pc[c] = "complete"
    /\ m \in s2c /\ m.to = AddrOf[c]
    /\ m.type = "Close"
    /\ pc' = [pc EXCEPT ![c] = "done"]
    /\ UNCHANGED <<rid, needed, got, c2s, s2c>> /\ serverUnchanged

-----------------------------------------------------------------------------
(***************************************************************************)
(* The main loop: one iteration is one action.  Every packet moves         *)
(* clientAddress, and has the Responses repeated that wait for their Ready, *)
(* except the one it is about.                                             *)
(***************************************************************************)
Repeated(m) == {ResponseTo(id) : id \in notReady \ {m.id}}

\* recvfrom has returned m.
MainReceives(m) ==
    /\ mainPc = "loop"
    /\ m \in c2s
    /\ clientAddress' = AddrOf[m.client]

\* create_handler and route accept the Request.
MainAccept(m) ==
    /\ MainReceives(m)
    /\ m.type = "Request"
    /\ lastRequestID < MaxRequestID
    /\ LET id == lastRequestID + 1
       IN  /\ lastRequestID' = id
           /\ handlers' = handlers \cup {id}
           /\ notReady' = notReady \cup {id}
           /\ owner' = [owner EXCEPT ![id] = m.client]
           /\ windowToSend' = [windowToSend EXCEPT ![id] = 0..(AmountOf[m.client] - 1)]
           /\ s2c' = s2c \cup Repeated(m) \cup
                 {ToClient("Response", AddrOf[m.client], id, AmountOf[m.client], m.client)}
    /\ UNCHANGED <<clientVars, mainPc, queue, task, windowSending, cwnd, pockets, c2s>>

\* ... or send an error Response.
MainReject(m) ==
    /\ MainReceives(m)
    /\ m.type = "Request"
    /\ m.client \in Refused
    /\ s2c' = s2c \cup Repeated(m) \cup {ErrorTo(AddrOf[m.client])}
    /\ UNCHANGED <<clientVars, mainPc, owner, lastRequestID, notReady>>
    /\ UNCHANGED <<handlers, queue, taskVars, pockets, c2s>>

\* A bug for NotReadyHasHandler: the Response stays in notReady.
ReadyKeepsResponse(m) ==
    /\ MainReceives(m)
    /\ m.type # "Request"
    /\ m.id \in handlers
    /\ task[m.id] = "none"
    /\ task' = [task EXCEPT ![m.id] = "queued"]
    /\ queue' = Append(queue, m.id)
    /\ s2c' = s2c \cup Repeated(m)
    /\ UNCHANGED <<clientVars, mainPc, owner, lastRequestID, notReady, handlers>>
    /\ UNCHANGED <<windowToSend, windowSending, cwnd, pockets, c2s>>

\* The first packet of a request starts its task, and is not kept.
MainReady(m) ==
    /\ MainReceives(m)
    /\ m.type # "Request"
    /\ m.id \in handlers
    /\ task[m.id] = "none"
    /\ notReady' = notReady \ {m.id}
    /\ task' = [task EXCEPT ![m.id] = "queued"]
    /\ queue' = Append(queue, m.id)
    /\ s2c' = s2c \cup Repeated(m)
    /\ UNCHANGED <<clientVars, mainPc, owner, lastRequestID, handlers>>
    /\ UNCHANGED <<windowToSend, windowSending, cwnd, pockets, c2s>>

MainPocket(m) ==
    /\ MainReceives(m)
    /\ m.type # "Request"
    /\ m.id \in handlers
    /\ task[m.id] # "none"
    /\ pockets' = [pockets EXCEPT ![m.id] = @ \cup {m}]
    /\ s2c' = s2c \cup Repeated(m)
    /\ UNCHANGED <<clientVars, mainPc, owner, lastRequestID, notReady>>
    /\ UNCHANGED <<handlers, queue, taskVars, c2s>>

\* A bug for ClosedReleasesThread: a Close for every late packet.
ClosesKnown(m) ==
    /\ MainReceives(m)
    /\ m.type # "Request"
    /\ s2c' = s2c \cup Repeated(m) \cup {CloseTo(AddrOf[m.client])}
    /\ UNCHANGED <<clientVars, mainPc, owner, lastRequestID, notReady>>
    /\ UNCHANGED <<handlers, queue, taskVars, pockets, c2s>>

MainUnknown(m) ==
    /\ MainReceives(m)
    /\ m.type # "Request"
    /\ m.id \notin handlers
    /\ s2c' = s2c \cup Repeated(m) \cup {CloseTo(AddrOf[m.client])}
    /\ UNCHANGED <<clientVars, mainPc, owner, lastRequestID, notReady>>
    /\ UNCHANGED <<handlers, queue, taskVars, pockets, c2s>>

\* "requestID in handlers" and "handlers[requestID]" are two steps without
\* the lock.  When the task of the request pops its handler between them,
\* the second raises KeyError and the main loop is over.
MainLosesHandler(m) ==
    /\ MainReceives(m)
    /\ m.type # "Request"
    /\ m.id \in handlers
    /\ task[m.id] = "closing"
    /\ handlers' = handlers \ {m.id}
    /\ task' = [task EXCEPT ![m.id] = "ended"]
    /\ mainPc' = "dead"
    /\ s2c' = s2c \cup Repeated(m)
    /\ UNCHANGED <<clientVars, owner, lastRequestID, notReady, queue>>
    /\ UNCHANGED <<windowToSend, windowSending, cwnd, pockets, c2s>>

-----------------------------------------------------------------------------
(***************************************************************************)
(* downloading_task, run by a thread of the pool.                          *)
(***************************************************************************)
taskUnchanged == UNCHANGED <<clientVars, mainVars, c2s>>

Busy == {id \in RequestID : task[id] \in Running}

TaskStart ==
    /\ queue # <<>>
    /\ Cardinality(Busy) < PoolSize
    /\ task' = [task EXCEPT ![Head(queue)] = "send"]
    /\ queue' = Tail(queue)
    /\ UNCHANGED <<handlers, windowToSend, windowSending, cwnd, pockets, s2c>> /\ taskUnchanged

\* A segment goes to clientAddress, not to handler.get_client_address().
TaskSend(id) ==
    /\ task[id] = "send"
    /\ Cardinality(windowSending[id]) < cwnd[id]
    /\ \E i \in windowToSend[id] :
        /\ \A j \in windowToSend[id] : i <= j
        /\ windowToSend' = [windowToSend EXCEPT ![id] = @ \ {i}]
        /\ windowSending' = [windowSending EXCEPT ![id] = @ \cup {i}]
        /\ s2c' = s2c \cup {SegmentFrom(id, i, clientAddress)}
    /\ UNCHANGED <<handlers, queue, task, cwnd, pockets>> /\ taskUnchanged

TaskRefresh(id) ==
    /\ task[id] = "send"
    /\ task' = [task EXCEPT ![id] = "refresh"]
    /\ UNCHANGED <<handlers, queue, windowToSend, windowSending, cwnd, pockets, s2c>> /\ taskUnchanged

\* A bug for NeededIsInWindow: the AKCLayer(0) a Ready is built with is read.
ReadyAcksFirst(id, p) ==
    /\ task[id] \in {"refresh", "drain"}
    /\ p \in pockets[id]
    /\ p.type # "DownloadComplited"
    /\ pockets' = [pockets EXCEPT ![id] = @ \ {p}]
    /\ windowToSend' = [windowToSend EXCEPT ![id] = @ \ {p.seg}]
    /\ windowSending' = [windowSending EXCEPT ![id] = @ \ {p.seg}]
    /\ UNCHANGED <<handlers, queue, task, cwnd, s2c>> /\ taskUnchanged

\* A bug for DroppedWhenComplete: what is no ACK ends the task.
AnyPocketEnds(id, p) ==
    /\ task[id] \in {"refresh", "drain"}
    /\ p \in pockets[id]
    /\ p.type # "ACK"
    /\ pockets' = [pockets EXCEPT ![id] = {}]
    /\ task' = [task EXCEPT ![id] = "drain"]
    /\ UNCHANGED <<handlers, queue, windowToSend, windowSending, cwnd, s2c>> /\ taskUnchanged

\* One packet of handler.pockets: DownloadComplited drops the others and
\* makes this round the last, an ACK takes its segment out of the windows.
TaskPocket(id, p) ==
    /\ task[id] \in {"refresh", "drain"}
    /\ p \in pockets[id]
    /\ \/ /\ p.type = "DownloadComplited"
          /\ pockets' = [pockets EXCEPT ![id] = {}]
          /\ task' = [task EXCEPT ![id] = "drain"]
          /\ UNCHANGED <<windowToSend, windowSending>>
       \/ /\ p.type = "ACK"
          /\ pockets' = [pockets EXCEPT ![id] = @ \ {p}]
          /\ windowToSend' = [windowToSend EXCEPT ![id] = @ \ {p.seg}]
          /\ windowSending' = [windowSending EXCEPT ![id] = @ \ {p.seg}]
          /\ UNCHANGED task
       \/ /\ p.type = "Ready"
          /\ pockets' = [pockets EXCEPT ![id] = @ \ {p}]
          /\ UNCHANGED <<task, windowToSend, windowSending>>
    /\ UNCHANGED <<handlers, queue, cwnd, s2c>> /\ taskUnchanged

\* A bug for TypeOK: the window is halved without max(..., 1).
HalvedToZero(n) == n \div 2

\* cwnd = int(max(cwnd / 2, 1))
Halved(n) == IF n \div 2 >= 1 THEN n \div 2 ELSE 1

\* A bug for DownloadEnds: the segments in flight are not queued again.
ForgetfulTimeout(id) ==
    /\ task[id] = "refresh"
    /\ pockets[id] = {}
    /\ task' = [task EXCEPT ![id] = "send"]
    /\ windowSending' = [windowSending EXCEPT ![id] = {}]
    /\ UNCHANGED <<handlers, queue, windowToSend, cwnd, pockets, s2c>> /\ taskUnchanged

\* The round ends when its time is over and no packet is waiting.
TaskTimeout(id) ==
    /\ task[id] = "refresh"
    /\ pockets[id] = {}
    /\ task' = [task EXCEPT ![id] = "send"]
    /\ windowToSend' = [windowToSend EXCEPT ![id] = windowSending[id] \cup @]
    /\ windowSending' = [windowSending EXCEPT ![id] = {}]
    /\ \/ windowSending[id] # {} /\ cwnd' = [cwnd EXCEPT ![id] = Halved(@)]
       \/ windowSending[id] = {} /\ \E w \in 1..MaxCwnd : cwnd' = [cwnd EXCEPT ![id] = w]
    /\ UNCHANGED <<handlers, queue, pockets, s2c>> /\ taskUnchanged

TaskClose(id) ==
    /\ task[id] = "drain"
    /\ pockets[id] = {}
    /\ task' = [task EXCEPT ![id] = "closing"]
    /\ s2c' = s2c \cup {CloseTo(AddrOf[owner[id]])}
    /\ UNCHANGED <<handlers, queue, windowToSend, windowSending, cwnd, pockets>> /\ taskUnchanged

\* handlers.pop; the thread goes back to the pool.
TaskPop(id) ==
    /\ task[id] = "closing"
    /\ task' = [task EXCEPT ![id] = "ended"]
    /\ handlers' = handlers \ {id}
    /\ UNCHANGED <<queue, windowToSend, windowSending, cwnd, pockets, s2c>> /\ taskUnchanged

-----------------------------------------------------------------------------
LoseToServer(m) ==
    /\ m.type \in Lossy
    /\ c2s' = c2s \ {m}
    /\ UNCHANGED <<clientVars, s2c>> /\ serverUnchanged

LoseToClient(m) ==
    /\ m.type \in Lossy
    /\ s2c' = s2c \ {m}
    /\ UNCHANGED <<clientVars, c2s>> /\ serverUnchanged

ClientStep(c) ==
    \/ ClientStart(c)
    \/ \E m \in s2c : ClientResponse(c, m)
    \/ ClientNoResponse(c)
    \/ ClientRepeat(c)
    \/ \E m \in s2c : ClientSegment(c, m)
    \/ \E m \in s2c : ClientClose(c, m)

MainStep ==
    \/ \E m \in c2s : MainAccept(m)
    \/ \E m \in c2s : MainReject(m)
    \/ \E m \in c2s : MainReady(m)
    \/ \E m \in c2s : MainPocket(m)
    \/ \E m \in c2s : MainUnknown(m)
    \/ \E m \in c2s : MainLosesHandler(m)

TaskStep ==
    \/ TaskStart
    \/ \E id \in RequestID : TaskSend(id)
    \/ \E id \in RequestID : TaskRefresh(id)
    \/ \E id \in RequestID : \E p \in pockets[id] : TaskPocket(id, p)
    \/ \E id \in RequestID : TaskTimeout(id)
    \/ \E id \in RequestID : TaskClose(id)
    \/ \E id \in RequestID : TaskPop(id)

NetworkStep ==
    \/ \E m \in c2s : LoseToServer(m)
    \/ \E m \in s2c : LoseToClient(m)

Next ==
    \/ \E c \in Clients : ClientStep(c)
    \/ MainStep
    \/ TaskStep
    \/ NetworkStep

Spec == Init /\ [][Next]_vars

(***************************************************************************)
(* Fairness.  Threads are scheduled and time passes: the client repeats    *)
(* itself, a task sends, takes its packets and ends its rounds (SF: a      *)
(* round may be found over before anything is sent, and a waiting packet   *)
(* delays its end).  Packets do not pour in faster than a task takes them: *)
(* again and again handler.pockets is found empty.  The links are          *)
(* fair-lossy, as in RudpUpload.                                           *)
(***************************************************************************)
ReadyPending(c) ==
    \E m \in c2s : m.client = c /\ m.type = "Ready" /\ m.id \in handlers /\ task[m.id] = "none"
ReadyArrives(c) == \E m \in c2s : m.client = c /\ MainReady(m)

AckPending(c, i) ==
    \E m \in c2s :
        /\ m.client = c /\ m.type = "ACK" /\ m.seg = i /\ m.id \in handlers
        /\ i \in windowToSend[m.id] \cup windowSending[m.id]
        /\ task[m.id] # "none" /\ m \notin pockets[m.id]
AckArrives(c, i) == \E m \in c2s : m.client = c /\ m.type = "ACK" /\ m.seg = i /\ MainPocket(m)

ComplitedPending(c) ==
    \E m \in c2s :
        /\ m.client = c /\ m.type = "DownloadComplited"
        /\ IF m.id \in handlers
           THEN task[m.id] \in {"send", "refresh"} /\ m \notin pockets[m.id]
           ELSE CloseTo(AddrOf[c]) \notin s2c
ComplitedArrives(c) ==
    \E m \in c2s :
        m.client = c /\ m.type = "DownloadComplited" /\ (MainPocket(m) \/ MainUnknown(m))

SegmentPending(c, i) ==
    /\ pc[c] \in {"ready", "recv"}
    /\ i \in needed[c] \/ ToServer("ACK", c, rid[c], i) \notin c2s
    /\ \E m \in s2c : m.to = AddrOf[c] /\ m.type = "Segment" /\ m.seg = i
SegmentArrives(c, i) == \E m \in s2c : m.seg = i /\ ClientSegment(c, m)

ClosePending(c) == pc[c] = "complete" /\ CloseTo(AddrOf[c]) \in s2c
CloseArrives(c) == ClientClose(c, CloseTo(AddrOf[c]))

FairLinks(c) ==
    /\ []<>ReadyPending(c) => []<><<ReadyArrives(c)>>_vars
    /\ []<>ComplitedPending(c) => []<><<ComplitedArrives(c)>>_vars
    /\ []<>ClosePending(c) => []<><<CloseArrives(c)>>_vars
    /\ \A i \in 0..(AmountOf[c] - 1) :
        /\ []<>AckPending(c, i) => []<><<AckArrives(c, i)>>_vars
        /\ []<>SegmentPending(c, i) => []<><<SegmentArrives(c, i)>>_vars

Fairness ==
    /\ \A c \in Clients : WF_vars(ClientRepeat(c)) /\ FairLinks(c)
    /\ WF_vars(TaskStart)
    /\ \A id \in RequestID :
        /\ SF_vars(TaskSend(id))
        /\ WF_vars(TaskRefresh(id))
        /\ WF_vars(\E p \in pockets[id] : TaskPocket(id, p))
        /\ []<>(task[id] \in {"refresh", "drain"} => pockets[id] = {})
        /\ SF_vars(TaskTimeout(id))
        /\ SF_vars(TaskClose(id))
        /\ WF_vars(TaskPop(id))

FairSpec == Spec /\ Fairness

-----------------------------------------------------------------------------
(***************************************************************************)
(* Properties.                                                             *)
(***************************************************************************)
DistinctAddresses == \A c, d \in Clients : AddrOf[c] = AddrOf[d] => c = d

\* main_loop repeats handlers[key] for the keys of notReady without asking
\* whether the handler is still there: no task can have popped it.
NotReadyHasHandler ==
    \A id \in notReady : id \in handlers /\ task[id] = "none"

\* A segment leaves both windows of the server only when the client has put
\* it away, so nothing the client still needs is ever given up on.  (Whether
\* the right bytes were put away is DataIntact.)
NeededIsInWindow ==
    DistinctAddresses =>
        \A c \in Clients : pc[c] \in Downloading =>
            \A i \in needed[c] : i \in windowToSend[rid[c]] \cup windowSending[rid[c]]

\* A task ends, and its handler is dropped, only when the client of the
\* request has all its segments.
DroppedWhenComplete ==
    DistinctAddresses =>
        \A id \in RequestID : task[id] \in {"drain", "closing", "ended"} =>
            pc[owner[id]] \in {"complete", "done"} /\ rid[owner[id]] = id

\* A client that has been closed leaves no thread of the pool at work for it.
ClosedReleasesThread ==
    DistinctAddresses =>
        \A c \in Clients : pc[c] = "done" => task[rid[c]] \in {"closing", "ended"}

Alone(c) == \A d \in Clients \ {c} : rid[d] = 0

\* The file of a finished download is the file that was asked for, as long as
\* nobody else downloads: every segment once, whoever else talks to the server.
DataIntactAlone ==
    DistinctAddresses =>
        \A c \in Clients : pc[c] = "done" /\ Alone(c) => got[c] = Body(c)

\* As long as nobody else talks to the server and its main loop lives, a
\* download comes to its end, whatever the network loses.
DownloadEnds ==
    \A c \in Clients :
        pc[c] = "ready" ~> pc[c] = "done" \/ mainPc = "dead"
                           \/ \E d \in Clients \ {c} : pc[d] # "off"

\* README: the app, "same like TCP is reliable": what is downloaded is the
\* file, also when two clients download at a time.
DataIntact ==
    \A c \in Clients : pc[c] = "done" => got[c] = Body(c)

\* README: "the client send Download Complited until the server sends Close".
\* So while a client waits for its Close the server has to be there.
CloseStillComes ==
    \A c \in Clients : pc[c] = "complete" => mainPc = "loop"
=============================================================================
