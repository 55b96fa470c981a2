------------------------------ MODULE RudpUpload ------------------------------
(***************************************************************************)
(* The upload of a file over the application's RUDP protocol: upload_command *)
(* and upload_data of the client, the main loop of the app server with its *)
(* dictionary of handlers, and the datagram network between them, which    *)
(* loses, duplicates, delays and reorders.                                 *)
(*                                                                         *)
(* A datagram in c2s or s2c may be received any number of times until it   *)
(* is lost, so that duplication needs no action of its own.  What is left  *)
(* out: the bytes (segment i of the body of client c is the pair <<c, i>>), *)
(* and the clock (a timeout may come whenever the code waits for one; the  *)
(* cubic formula of the congestion window is any value it can produce).    *)
(***************************************************************************)
EXTENDS Naturals, FiniteSets

CONSTANTS
    Clients,        \* the client processes, one upload each
    Addresses,      \* <host, port> pairs
    AddrOf,         \* the address a client binds; successive clients share
                    \* the default port, so it need not be injective
    AmountOf,       \* number of segments of the body of a client
    MaxRequestID,   \* bound on the ids the server hands out
    MaxRestarts,    \* bound on the restarts of the server
    CwndStart,      \* config.CWND_START_VALUE
    MaxCwnd,        \* bound on the window the cubic formula may return
    Lossy           \* the types of the datagrams that may vanish.  No guard
                    \* asks for the absence of one, so for what is reachable
                    \* a datagram that is never received is as good as lost;
                    \* what must happen in the end depends on it

ASSUME ClientsAssumption == Clients # {}
ASSUME AddrAssumption == AddrOf \in [Clients -> Addresses]
ASSUME AmountAssumption == AmountOf \in [Clients -> Nat \ {0}]
ASSUME BoundsAssumption ==
    /\ MaxRequestID \in Nat
    /\ MaxRestarts \in Nat
    /\ MaxCwnd \in Nat
    /\ CwndStart \in 1..MaxCwnd

VARIABLES
    pc,             \* where the client process is
    rid,            \* requestID of upload_data, 0 before the Response
    windowToSend, windowSending, cwnd,
    heard,          \* upload_data has received a datagram: "data" is bound
    refreshed,      \* a refresh is behind: rtt has outgrown SOCKET_TIMEOUT
    handlers,       \* the keys of the dictionary of handlers
    owner,          \* the client whose Request created a handler
    segments,       \* handler.segments
    lastRequestID,
    serverPc,       \* "loop", or the step of post_upload that is next
    storing,        \* the request post_upload works for
    fileState, file, \* what stands at the destination of a client
    restarts,
    c2s, s2c        \* the datagrams under way

clientVars == <<pc, rid, windowToSend, windowSending, cwnd, heard, refreshed>>
handlerVars == <<handlers, owner, segments, lastRequestID>>
storeVars == <<serverPc, storing, fileState, file>>
serverVars == <<handlerVars, storeVars, restarts>>
vars == <<clientVars, serverVars, c2s, s2c>>

RequestID == 1..MaxRequestID
Body(c) == {<<c, i>> : i \in 0..(AmountOf[c] - 1)}

\* Client to server; the client field stands for the source address and for
\* the owner of the bytes the datagram carries.
ClientPocket == [type : {"Request", "Segment"}, client : Clients, id : Nat, seg : Nat]
\* Server to client; seg is the segment number of an ACK, and in a Response
\* the segments amount.
ServerPocket == [type : {"Response", "Error", "ACK", "Close"},
                 to : Addresses, id : Nat, seg : Nat]

RequestPocket(c) == [type |-> "Request", client |-> c, id |-> 0, seg |-> 0]
SegmentPocket(c, i) == [type |-> "Segment", client |-> c, id |-> rid[c], seg |-> i]
ResponsePocket(a, id, n) == [type |-> "Response", to |-> a, id |-> id, seg |-> n]
ErrorPocket(a) == [type |-> "Error", to |-> a, id |-> 0, seg |-> 0]
AckPocket(a, id, i) == [type |-> "ACK", to |-> a, id |-> id, seg |-> i]
ClosePocket(a) == [type |-> "Close", to |-> a, id |-> 0, seg |-> 0]

Active == {"wait", "send", "refresh"}
Uploading == {"send", "refresh"}

TypeOK ==
    /\ pc \in [Clients -> Active \cup {"off", "done", "failed", "crashed"}]
    /\ rid \in [Clients -> Nat]
    /\ windowToSend \in [Clients -> SUBSET Nat]
    /\ windowSending \in [Clients -> SUBSET Nat]
    /\ cwnd \in [Clients -> 1..MaxCwnd]
    /\ heard \in [Clients -> BOOLEAN]
    /\ refreshed \in [Clients -> BOOLEAN]
    /\ handlers \in SUBSET RequestID
    /\ owner \in [RequestID -> Clients]
    /\ segments \in [RequestID -> SUBSET (Clients \X Nat)]
    /\ lastRequestID \in 0..MaxRequestID
    /\ serverPc \in {"loop", "remove", "write", "fill"}
    /\ storing \in Nat
    /\ serverPc # "loop" => storing \in handlers
    /\ fileState \in [Clients -> {"old", "removed", "torn", "written"}]
    /\ file \in [Clients -> SUBSET (Clients \X Nat)]
    /\ restarts \in 0..MaxRestarts
    /\ c2s \in SUBSET ClientPocket
    /\ s2c \in SUBSET ServerPocket

Init ==
    /\ pc = [c \in Clients |-> "off"]
    /\ rid = [c \in Clients |-> 0]
    /\ windowToSend = [c \in Clients |-> {}]
    /\ windowSending = [c \in Clients |-> {}]
    /\ cwnd = [c \in Clients |-> CwndStart]
    /\ heard = [c \in Clients |-> FALSE]
    /\ refreshed = [c \in Clients |-> FALSE]
    /\ handlers = {}
    /\ owner = [id \in RequestID |-> CHOOSE c \in Clients : TRUE]
    /\ segments = [id \in RequestID |-> {}]
    /\ lastRequestID = 0
    /\ serverPc = "loop"
    /\ storing = 0
    /\ fileState = [c \in Clients |-> "old"]
    /\ file = [c \in Clients |-> {}]
    /\ restarts = 0
    /\ c2s = {}
    /\ s2c = {}

-----------------------------------------------------------------------------
(***************************************************************************)
(* The client.                                                             *)
(***************************************************************************)

\* Clients that share an address run one after the other.  (SO_REUSEADDR
\* would let two bind it at once, and the older one hear nothing any more.)
AddressFree(c) == \A d \in Clients : AddrOf[d] = AddrOf[c] => pc[d] \notin Active

\* The Request is sent once and never again.
ClientStart(c) ==
    /\ pc[c] = "off"
    /\ AddressFree(c)
    /\ pc' = [pc EXCEPT ![c] = "wait"]
    /\ c2s' = c2s \cup {RequestPocket(c)}
    /\ UNCHANGED <<rid, windowToSend, windowSending, cwnd, heard, refreshed, serverVars, s2c>>

\* The first datagram that reaches the socket is taken for the Response,
\* whatever request it belongs to; one without a response layer, or with
\* ok = False, ends the command with an error.
ClientResponse(c, m) ==
    /\ pc[c] = "wait"
    /\ m \in s2c
    /\ m.to = AddrOf[c]
    /\ \/ /\ m.type = "Response"
          /\ pc' = [pc EXCEPT ![c] = "send"]
          /\ rid' = [rid EXCEPT ![c] = m.id]
          /\ windowToSend' = [windowToSend EXCEPT ![c] = 0..(m.seg - 1)]
       \/ /\ m.type # "Response"
          /\ pc' = [pc EXCEPT ![c] = "failed"]
          /\ UNCHANGED <<rid, windowToSend>>
    /\ UNCHANGED <<windowSending, cwnd, heard, refreshed, serverVars, c2s, s2c>>

ClientNoResponse(c) ==
    /\ pc[c] = "wait"
    /\ pc' = [pc EXCEPT ![c] = "failed"]
    /\ UNCHANGED <<rid, windowToSend, windowSending, cwnd, heard, refreshed, serverVars, c2s, s2c>>

\* A bug for WindowsOrdered: pop() in place of pop(0).
LastOut(W, i) == i \in W /\ \A j \in W : i >= j

\* windowToSend.pop(0): the list is sorted (WindowsOrdered), so its head is
\* the least segment.
Head(W, i) == i \in W /\ \A j \in W : i <= j

Send(c) ==
    /\ pc[c] = "send"
    /\ Cardinality(windowSending[c]) < cwnd[c]
    /\ \E i \in windowToSend[c] :
        /\ Head(windowToSend[c], i)
        /\ windowToSend' = [windowToSend EXCEPT ![c] = @ \ {i}]
        /\ windowSending' = [windowSending EXCEPT ![c] = @ \cup {i}]
        /\ c2s' = c2s \cup {SegmentPocket(c, i)}
    /\ UNCHANGED <<pc, rid, cwnd, heard, refreshed, serverVars, s2c>>

\* Nothing to send, the window full, or the round over: time decides.
EnterRefresh(c) ==
    /\ pc[c] = "send"
    /\ pc' = [pc EXCEPT ![c] = "refresh"]
    /\ UNCHANGED <<rid, windowToSend, windowSending, cwnd, heard, refreshed, serverVars, c2s, s2c>>

\* A bug for SuccessMeansReceived: whatever is no ACK ends the upload.
ReceiveAnyEnds(c, m) ==
    /\ pc[c] = "refresh"
    /\ m \in s2c
    /\ m.to = AddrOf[c]
    /\ heard' = [heard EXCEPT ![c] = TRUE]
    /\ pc' = [pc EXCEPT ![c] = IF m.type # "ACK" THEN "done" ELSE @]
    /\ windowToSend' = [windowToSend EXCEPT ![c] = IF m.type = "ACK" THEN @ \ {m.seg} ELSE @]
    /\ windowSending' = [windowSending EXCEPT ![c] = IF m.type = "ACK" THEN @ \ {m.seg} ELSE @]
    /\ UNCHANGED <<rid, cwnd, refreshed, serverVars, c2s, s2c>>

\* A datagram is handled whatever request id it carries: a Close ends the
\* upload as a success, an ACK takes its segment out of both windows, and
\* the rest is ignored.
ClientReceive(c, m) ==
    /\ pc[c] = "refresh"
    /\ m \in s2c
    /\ m.to = AddrOf[c]
    /\ heard' = [heard EXCEPT ![c] = TRUE]
    /\ pc' = [pc EXCEPT ![c] = IF m.type = "Close" THEN "done" ELSE @]
    /\ windowToSend' = [windowToSend EXCEPT ![c] = IF m.type = "ACK" THEN @ \ {m.seg} ELSE @]
    /\ windowSending' = [windowSending EXCEPT ![c] = IF m.type = "ACK" THEN @ \ {m.seg} ELSE @]
    /\ UNCHANGED <<rid, cwnd, refreshed, serverVars, c2s, s2c>>

\* A bug for TypeOK: the window is halved without max(..., 1).
HalvedToZero(n) == n \div 2

\* cwnd = int(max(cwnd / 2, 1))
Halved(n) == IF n \div 2 >= 1 THEN n \div 2 ELSE 1

\* A bug for UploadStored: the segments in flight are not queued again.
ForgetfulTimeout(c) ==
    /\ pc[c] = "refresh"
    /\ pc' = [pc EXCEPT ![c] = "send"]
    /\ refreshed' = [refreshed EXCEPT ![c] = TRUE]
    /\ windowSending' = [windowSending EXCEPT ![c] = {}]
    /\ \E w \in 1..MaxCwnd : cwnd' = [cwnd EXCEPT ![c] = w]
    /\ UNCHANGED <<rid, windowToSend, heard, serverVars, c2s, s2c>>

\* The time of the round is over: the unacknowledged segments go back in
\* front of the window, which shrinks, or else it follows the cubic curve.
RefreshTimeout(c) ==
    /\ pc[c] = "refresh"
    /\ pc' = [pc EXCEPT ![c] = "send"]
    /\ refreshed' = [refreshed EXCEPT ![c] = TRUE]
    /\ windowToSend' = [windowToSend EXCEPT ![c] = windowSending[c] \cup @]
    /\ windowSending' = [windowSending EXCEPT ![c] = {}]
    /\ \/ /\ windowSending[c] # {}
          /\ cwnd' = [cwnd EXCEPT ![c] = Halved(@)]
       \/ /\ windowSending[c] = {}
          /\ \E w \in 1..MaxCwnd : cwnd' = [cwnd EXCEPT ![c] = w]
    /\ UNCHANGED <<rid, heard, serverVars, c2s, s2c>>

\* recvfrom times out before the round is over, possible once rtt has grown,
\* and the code goes on with "data".  Holding an older datagram, it handles
\* it a second time, which changes nothing: a Close would have ended the
\* loop, and an acknowledged segment is in no window any more.  Never having
\* received one, it reads an unbound variable.
RefreshEarlyTimeout(c) ==
    /\ pc[c] = "refresh"
    /\ refreshed[c]
    /\ ~heard[c]
    /\ pc' = [pc EXCEPT ![c] = "crashed"]
    /\ UNCHANGED <<rid, windowToSend, windowSending, cwnd, heard, refreshed, serverVars, c2s, s2c>>

-----------------------------------------------------------------------------
(***************************************************************************)
(* The server: one iteration of main_loop is one action, except that the   *)
(* call of post_upload inside it is followed step by step.                 *)
(***************************************************************************)

\* create_handler: the Request is valid and gets the next id.  A duplicate
\* of a Request creates a second handler.
ServerAccept(m) ==
    /\ serverPc = "loop"
    /\ m \in c2s
    /\ m.type = "Request"
    /\ lastRequestID < MaxRequestID
    /\ LET id == lastRequestID + 1
       IN  /\ lastRequestID' = id
           /\ handlers' = handlers \cup {id}
           /\ owner' = [owner EXCEPT ![id] = m.client]
           /\ segments' = [segments EXCEPT ![id] = {}]
           /\ s2c' = s2c \cup {ResponsePocket(AddrOf[m.client], id, AmountOf[m.client])}
    /\ UNCHANGED <<clientVars, storeVars, restarts, c2s>>

\* create_handler or route: the user or the path is not accepted.
ServerReject(m) ==
    /\ serverPc = "loop"
    /\ m \in c2s
    /\ m.type = "Request"
    /\ s2c' = s2c \cup {ErrorPocket(AddrOf[m.client])}
    /\ UNCHANGED <<clientVars, serverVars, c2s>>

\* A bug for AckedSegmentsHeld: only the next segment in order is kept.
ReceivedInOrder(m) ==
    IF m.seg # Cardinality(segments[m.id])
    THEN segments[m.id]
    ELSE segments[m.id] \cup {<<m.client, m.seg>>}

\* The segments of request m.id once m has been handled: the first one that
\* comes with a number is kept.
Received(m) ==
    IF \E s \in segments[m.id] : s[2] = m.seg
    THEN segments[m.id]
    ELSE segments[m.id] \cup {<<m.client, m.seg>>}

\* A bug for UploadInv and StoredIsBody: the last segment is not awaited.
CompleteButOne(id, S) == Cardinality(S) + 1 >= AmountOf[owner[id]]

\* len(handler.segments) == handler.segmentsAmount
Complete(id, S) == Cardinality(S) = AmountOf[owner[id]]

\* handle_upload_pocket: the segment is acknowledged to the client of the
\* handler; when none is missing that client is sent the Close, and only
\* then is the body stored.
ServerSegment(m) ==
    /\ serverPc = "loop"
    /\ m \in c2s
    /\ m.type = "Segment"
    /\ m.id \in handlers
    /\ LET S == Received(m)
           a == AddrOf[owner[m.id]]
       IN  /\ segments' = [segments EXCEPT ![m.id] = S]
           /\ \/ /\ Complete(m.id, S)
                 /\ s2c' = s2c \cup {AckPocket(a, m.id, m.seg), ClosePocket(a)}
                 /\ serverPc' = "remove"
                 /\ storing' = m.id
              \/ /\ ~Complete(m.id, S)
                 /\ s2c' = s2c \cup {AckPocket(a, m.id, m.seg)}
                 /\ UNCHANGED <<serverPc, storing>>
    /\ UNCHANGED <<clientVars, handlers, owner, lastRequestID, fileState, file, restarts, c2s>>

\* A packet of a request the server does not know is answered by a Close.
ServerUnknown(m) ==
    /\ serverPc = "loop"
    /\ m \in c2s
    /\ m.type = "Segment"
    /\ m.id \notin handlers
    /\ s2c' = s2c \cup {ClosePocket(AddrOf[m.client])}
    /\ UNCHANGED <<clientVars, serverVars, c2s>>

PostUploadRemove ==
    /\ serverPc = "remove"
    /\ serverPc' = "write"
    /\ fileState' = [fileState EXCEPT ![owner[storing]] = "removed"]
    /\ file' = [file EXCEPT ![owner[storing]] = {}]
    /\ UNCHANGED <<clientVars, handlerVars, storing, restarts, c2s, s2c>>

\* open(..., "wb") truncates the file, or extractall makes the directory: from
\* here on the first part of the body stands at the destination, and how much
\* of it the disk holds is not known before the write is over.
PostUploadOpen ==
    /\ serverPc = "write"
    /\ serverPc' = "fill"
    /\ fileState' = [fileState EXCEPT ![owner[storing]] = "torn"]
    /\ \E n \in 0..AmountOf[owner[storing]] :
        file' = [file EXCEPT ![owner[storing]] = {s \in segments[storing] : s[2] < n}]
    /\ UNCHANGED <<clientVars, handlerVars, storing, restarts, c2s, s2c>>

\* A bug for StoredOnce and ImplementsService: the handler is not popped.
WriteKeepsHandler ==
    /\ serverPc = "fill"
    /\ serverPc' = "loop"
    /\ fileState' = [fileState EXCEPT ![owner[storing]] = "written"]
    /\ file' = [file EXCEPT ![owner[storing]] = segments[storing]]
    /\ UNCHANGED <<clientVars, handlerVars, storing, restarts, c2s, s2c>>

\* A bug for StoredWhole: the write stops in the middle (a full disk, say),
\* the error is swallowed, and the handler is popped all the same.
WriteStops ==
    /\ serverPc = "fill"
    /\ serverPc' = "loop"
    /\ handlers' = handlers \ {storing}
    /\ UNCHANGED <<clientVars, owner, segments, lastRequestID, storing, fileState, file>>
    /\ UNCHANGED <<restarts, c2s, s2c>>

\* The file is written to its end, and main_loop forgets the handler.
PostUploadWrite ==
    /\ serverPc = "fill"
    /\ serverPc' = "loop"
    /\ fileState' = [fileState EXCEPT ![owner[storing]] = "written"]
    /\ file' = [file EXCEPT ![owner[storing]] = segments[storing]]
    /\ handlers' = handlers \ {storing}
    /\ UNCHANGED <<clientVars, owner, segments, lastRequestID, storing, restarts, c2s, s2c>>

\* The process dies (an exception no handler catches, among them those of
\* post_upload itself, or a signal) and is started again: the handlers are
\* gone, the ids begin anew, and what stands on the disk stays as it is.
ServerRestart ==
    /\ restarts < MaxRestarts
    /\ restarts' = restarts + 1
    /\ handlers' = {}
    /\ segments' = [id \in RequestID |-> {}]
    /\ lastRequestID' = 0
    /\ serverPc' = "loop"
    /\ UNCHANGED <<clientVars, owner, storing, fileState, file, c2s, s2c>>

-----------------------------------------------------------------------------
\* The network loses a datagram.
LoseToServer(m) ==
    /\ m.type \in Lossy
    /\ c2s' = c2s \ {m}
    /\ UNCHANGED <<clientVars, serverVars, s2c>>

LoseToClient(m) ==
    /\ m.type \in Lossy
    /\ s2c' = s2c \ {m}
    /\ UNCHANGED <<clientVars, serverVars, c2s>>

ClientStep(c) ==
    \/ ClientStart(c)
    \/ \E m \in s2c : ClientResponse(c, m)
    \/ ClientNoResponse(c)
    \/ Send(c)
    \/ EnterRefresh(c)
    \/ \E m \in s2c : ClientReceive(c, m)
    \/ RefreshTimeout(c)
    \/ RefreshEarlyTimeout(c)

ServerStep ==
    \/ \E m \in c2s : ServerAccept(m)
    \/ \E m \in c2s : ServerReject(m)
    \/ \E m \in c2s : ServerSegment(m)
    \/ \E m \in c2s : ServerUnknown(m)
    \/ PostUploadRemove
    \/ PostUploadOpen
    \/ PostUploadWrite
    \/ ServerRestart

NetworkStep ==
    \/ \E m \in c2s : LoseToServer(m)
    \/ \E m \in s2c : LoseToClient(m)

Next ==
    \/ \E c \in Clients : ClientStep(c)
    \/ ServerStep
    \/ NetworkStep

Spec == Init /\ [][Next]_vars

(***************************************************************************)
(* Fairness.  The loops of the client and the server never stop, and time  *)
(* passes, so a round ends (EnterRefresh, RefreshTimeout) and post_upload  *)
(* returns.  After a refresh the clock of the round starts anew, so a      *)
(* client with something to send sends it (SF: the round may also be found *)
(* over).  The links are fair-lossy: a datagram that is under way again    *)
(* and again, and still matters to its receiver, is received again and     *)
(* again.  SF on the receiver's action would be too weak: the kernel keeps *)
(* a datagram while the receiver is busy elsewhere.                        *)
(***************************************************************************)
SegmentPending(c, i) ==
    \E m \in c2s :
        /\ m.type = "Segment" /\ m.client = c /\ m.seg = i
        /\ IF m.id \in handlers
           THEN \/ Received(m) # segments[m.id]
                \/ AckPocket(AddrOf[owner[m.id]], m.id, i) \notin s2c
           ELSE ClosePocket(AddrOf[c]) \notin s2c
SegmentArrives(c, i) ==
    \E m \in c2s : m.client = c /\ m.seg = i /\ (ServerSegment(m) \/ ServerUnknown(m))

AckPending(c, i) ==
    /\ pc[c] \in Uploading
    /\ i \in windowToSend[c] \cup windowSending[c]
    /\ \E m \in s2c : m.type = "ACK" /\ m.to = AddrOf[c] /\ m.seg = i
AckArrives(c, i) == \E m \in s2c : m.type = "ACK" /\ m.seg = i /\ ClientReceive(c, m)

ClosePending(c) == pc[c] \in Uploading /\ ClosePocket(AddrOf[c]) \in s2c
CloseArrives(c) == ClientReceive(c, ClosePocket(AddrOf[c]))

FairLinks(c) ==
    /\ \A i \in 0..(AmountOf[c] - 1) :
        /\ []<>SegmentPending(c, i) => []<><<SegmentArrives(c, i)>>_vars
        /\ []<>AckPending(c, i) => []<><<AckArrives(c, i)>>_vars
    /\ []<>ClosePending(c) => []<><<CloseArrives(c)>>_vars

Fairness ==
    /\ WF_vars(PostUploadRemove)
    /\ WF_vars(PostUploadOpen)
    /\ WF_vars(PostUploadWrite)
    /\ \A c \in Clients :
        /\ WF_vars(EnterRefresh(c))
        /\ WF_vars(RefreshTimeout(c))
        /\ SF_vars(Send(c))
        /\ FairLinks(c)

FairSpec == Spec /\ Fairness

-----------------------------------------------------------------------------
(***************************************************************************)
(* Properties.                                                             *)
(***************************************************************************)

\* What the protocol relies on and does not check: no two clients use one
\* address, and the server has not been restarted.
DistinctAddresses == \A c, d \in Clients : AddrOf[c] = AddrOf[d] => c = d
Undisturbed == DistinctAddresses /\ restarts = 0

\* Every segment that is in flight has a smaller number than every segment
\* still to be sent, so "windowSending + windowToSend" in upload_data is
\* sorted again and pop(0) always takes the oldest missing segment.
WindowsOrdered ==
    \A c \in Clients : \A i \in windowSending[c], j \in windowToSend[c] : i < j

\* A segment that an uploading client has dropped from both windows is at
\* the server, with the client's own bytes: an ACK is never sent before the
\* segment is kept, nor believed for a segment of another request.
AckedSegmentsHeld ==
    Undisturbed =>
        \A c \in Clients : pc[c] \in Uploading =>
            \A s \in Body(c) :
                s[2] \in windowToSend[c] \cup windowSending[c] \/ s \in segments[rid[c]]

\* The client reports the upload as done only when the server has the whole
\* body of the request, whatever was lost, doubled or late on the way.
SuccessMeansReceived ==
    Undisturbed =>
        \A c \in Clients : pc[c] = "done" => segments[rid[c]] = Body(c)

\* A file the server has written is the file of its client, every segment of
\* it and no other, however the segments of several uploads interleave.
StoredIsBody ==
    Undisturbed =>
        \A c \in Clients : fileState[c] = "written" => file[c] = Body(c)

\* What post_upload has written to the end has as many segments as the body
\* of the request, no number twice, whatever was restarted before.  After a
\* restart ids are used again, and a late segment of another client can be
\* among them; where none is, the file is the body.  A part of a file stands
\* at a destination only while the server fills it, or after a restart: it
\* is what a process leaves that dies in the middle, and nothing removes it.
StoredWhole ==
    \A c \in Clients :
        /\ fileState[c] = "written" =>
            /\ Cardinality(file[c]) = AmountOf[c]
            /\ \A s, t \in file[c] : s[2] = t[2] => s = t
            /\ DistinctAddresses /\ (\A s \in file[c] : s[1] = c) => file[c] = Body(c)
        /\ fileState[c] = "torn" => restarts > 0 \/ (serverPc = "fill" /\ owner[storing] = c)

\* Once written, the destination is not touched again by late or doubled
\* packets of the same upload: a handler leaves the dictionary before the
\* next packet is looked at.
StoredOnce ==
    [][\A c \in Clients :
        DistinctAddresses /\ restarts' = 0 /\ fileState[c] = "written" =>
            fileState'[c] = "written" /\ file'[c] = file[c]]_vars

\* Whatever the network loses, an upload the server has accepted is stored
\* in the end, unless its client crashes on the unbound "data" or the server
\* goes down.
UploadStored ==
    \A c \in Clients :
        pc[c] = "send" ~> fileState[c] = "written" \/ pc[c] = "crashed" \/ restarts > 0

\* The README of the repository: the protocol "is reliable", and the server
\* ends an upload with a Close packet; so the upload command should end.
UploadTerminates ==
    \A c \in Clients :
        pc[c] = "send" ~> pc[c] \in {"done", "crashed"}

\* The message upload_command prints, 'The file "..." upload as "..." to the
\* app', should be true: the server has the body it is printed for.
ReportedUploadIsHeld ==
    \A c \in Clients :
        pc[c] = "done" =>
            \E id \in RequestID : owner[id] = c /\ segments[id] = Body(c)

-----------------------------------------------------------------------------
(***************************************************************************)
(* The inductive invariant behind the safety properties.  Its heart is who *)
(* may speak of which request: no datagram of the client names a request   *)
(* other than the one of its Response, and the server says of a request    *)
(* only what its segments bear out.                                        *)
(***************************************************************************)
Issued == 1..lastRequestID

ClientKnowsRequest ==
    \A c \in Clients :
        /\ pc[c] \in {"off", "wait"} => rid[c] = 0
        /\ pc[c] \in Uploading \cup {"done"} => rid[c] \in Issued /\ owner[rid[c]] = c

SegmentsInFlight ==
    \A m \in c2s : m.type = "Segment" =>
        /\ m.id \in Issued
        /\ owner[m.id] = m.client
        /\ rid[m.client] = m.id
        /\ m.seg < AmountOf[m.client]

NothingSentYet == \A c \in Clients : pc[c] \in {"off", "wait"} => windowSending[c] = {}

WindowsInBody ==
    \A c \in Clients : \A i \in windowToSend[c] \cup windowSending[c] : i < AmountOf[c]

ResponsesInFlight ==
    \A m \in s2c : m.type = "Response" =>
        /\ m.id \in Issued
        /\ m.to = AddrOf[owner[m.id]]
        /\ m.seg = AmountOf[owner[m.id]]

AcksInFlight ==
    \A m \in s2c : m.type = "ACK" =>
        /\ m.id \in Issued
        /\ m.to = AddrOf[owner[m.id]]
        /\ rid[owner[m.id]] = m.id
        /\ <<owner[m.id], m.seg>> \in segments[m.id]

ClosesInFlight ==
    \A m \in s2c : m.type = "Close" =>
        \A c \in Clients : m.to = AddrOf[c] =>
            rid[c] \in Issued /\ segments[rid[c]] = Body(c)

HandlersInv ==
    /\ handlers \subseteq Issued
    /\ \A id \in Issued : segments[id] \subseteq Body(owner[id])
    /\ \A id \in Issued \ handlers : segments[id] = Body(owner[id])
    /\ serverPc # "loop" => segments[storing] = Body(owner[storing])

RequestsInv ==
    /\ ClientKnowsRequest
    /\ WindowsInBody
    /\ SegmentsInFlight
    /\ ResponsesInFlight
    /\ AcksInFlight
    /\ ClosesInFlight
    /\ HandlersInv

UploadInv == Undisturbed => RequestsInv

-----------------------------------------------------------------------------
(***************************************************************************)
(* The protocol implements UploadService.                                  *)
(***************************************************************************)
Outcome(state) ==
    CASE state = "off" -> "idle"
      [] state \in Active -> "busy"
      [] state = "done" -> "success"
      [] OTHER -> "failure"

HasBody(c) == \E id \in handlers : owner[id] = c /\ Complete(id, segments[id])

outcomeBar == [c \in Clients |-> Outcome(pc[c])]

bodyBar ==
    [c \in Clients |->
        CASE fileState[c] = "written" -> "stored"
          [] fileState[c] \in {"removed", "torn"} -> "removed"
          [] OTHER -> IF HasBody(c) THEN "held" ELSE "missing"]

Service == INSTANCE UploadService WITH outcome <- outcomeBar, body <- bodyBar

\* Every behaviour of the protocol, seen through outcomeBar and bodyBar, is
\* one of the service: held before success, removed before written, once.
ImplementsService == Service!ServiceSpec
=============================================================================
