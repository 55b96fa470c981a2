--------------------------- MODULE RudpUploadProofs ---------------------------
(***************************************************************************)
(* Safety of RudpUpload for every number of clients, segments, request ids *)
(* and restarts.                                                           *)
(***************************************************************************)
EXTENDS RudpUpload, FiniteSetTheorems, TLAPS

-----------------------------------------------------------------------------
(***************************************************************************)
(* Type correctness.                                                       *)
(***************************************************************************)

\* Halving a congestion window leaves one: never 0, never above the bound.
LEMMA HalvedType ==
    ASSUME NEW n \in 1..MaxCwnd
    PROVE  Halved(n) \in 1..MaxCwnd
BY BoundsAssumption DEF Halved

\* Before the first step every variable has its type.
LEMMA InitType == Init => TypeOK
<1>1. PICK d : d \in Clients /\ d = CHOOSE c \in Clients : TRUE
    BY ClientsAssumption
<1>2. Init => owner \in [RequestID -> Clients]
    BY <1>1 DEF Init
<1>3. Init => lastRequestID \in 0..MaxRequestID /\ restarts \in 0..MaxRestarts /\ storing \in Nat
    BY BoundsAssumption DEF Init
<1> QED BY <1>2, <1>3, BoundsAssumption DEF Init, TypeOK

\* No step of the client, the server or the network breaks the types.
LEMMA NextType == TypeOK /\ [Next]_vars => TypeOK'
<1> SUFFICES ASSUME TypeOK, [Next]_vars PROVE TypeOK'
    OBVIOUS
<1> USE ClientsAssumption, AddrAssumption, AmountAssumption, BoundsAssumption
<1>1. ASSUME NEW c \in Clients, ClientStart(c) PROVE TypeOK'
    BY <1>1 DEF TypeOK, ClientStart, RequestPocket, ClientPocket, Active,
        serverVars, handlerVars, storeVars
<1>2. ASSUME NEW c \in Clients, NEW m \in s2c, ClientResponse(c, m) PROVE TypeOK'
    <2>1. m.id \in Nat /\ m.seg \in Nat /\ 0..(m.seg - 1) \in SUBSET Nat
        BY DEF TypeOK, ServerPocket
    <2>2. /\ pc' \in [Clients -> Active \cup {"off", "done", "failed", "crashed"}]
          /\ rid' \in [Clients -> Nat]
          /\ windowToSend' \in [Clients -> SUBSET Nat]
        <3>1. CASE m.type = "Response"
            <4>1. PICK W \in SUBSET Nat : windowToSend' = [windowToSend EXCEPT ![c] = W]
                BY <3>1, <1>2, <2>1 DEF ClientResponse
            <4>2. windowToSend' \in [Clients -> SUBSET Nat]
                BY <4>1 DEF TypeOK
            <4> QED BY <4>2, <3>1, <1>2, <2>1 DEF TypeOK, ClientResponse, Active
        <3>2. CASE m.type # "Response"
            BY <3>2, <1>2 DEF TypeOK, ClientResponse, Active
        <3> QED BY <3>1, <3>2
    <2> QED BY <2>2, <1>2 DEF TypeOK, ClientResponse, serverVars, handlerVars, storeVars
<1>3. ASSUME NEW c \in Clients, ClientNoResponse(c) PROVE TypeOK'
    BY <1>3 DEF TypeOK, ClientNoResponse, Active, serverVars, handlerVars, storeVars
<1>4. ASSUME NEW c \in Clients, Send(c) PROVE TypeOK'
    BY <1>4 DEF TypeOK, Send, SegmentPocket, ClientPocket, Active, serverVars, handlerVars, storeVars
<1>5. ASSUME NEW c \in Clients, EnterRefresh(c) PROVE TypeOK'
    BY <1>5 DEF TypeOK, EnterRefresh, Active, serverVars, handlerVars, storeVars
<1>6. ASSUME NEW c \in Clients, NEW m \in s2c, ClientReceive(c, m) PROVE TypeOK'
    BY <1>6 DEF TypeOK, ClientReceive, Active, serverVars, handlerVars, storeVars
<1>7. ASSUME NEW c \in Clients, RefreshTimeout(c) PROVE TypeOK'
    <2>1. cwnd' \in [Clients -> 1..MaxCwnd]
        BY <1>7, HalvedType DEF TypeOK, RefreshTimeout
    <2> QED BY <2>1, <1>7 DEF TypeOK, RefreshTimeout, Active, serverVars, handlerVars, storeVars
<1>8. ASSUME NEW c \in Clients, RefreshEarlyTimeout(c) PROVE TypeOK'
    BY <1>8 DEF TypeOK, RefreshEarlyTimeout, Active, serverVars, handlerVars, storeVars
<1>9. ASSUME NEW m \in c2s, ServerAccept(m) PROVE TypeOK'
    <2>1. m.client \in Clients /\ AddrOf[m.client] \in Addresses /\ AmountOf[m.client] \in Nat
        BY DEF TypeOK, ClientPocket
    <2>2. lastRequestID + 1 \in RequestID
        BY <1>9 DEF TypeOK, ServerAccept, RequestID
    <2> DEFINE id == lastRequestID + 1
               p == ResponsePocket(AddrOf[m.client], id, AmountOf[m.client])
    <2>3. id \in Nat /\ id \in 0..MaxRequestID
        BY <2>2 DEF RequestID
    <2>4. p \in ServerPocket
        BY <2>1, <2>3 DEF ResponsePocket, ServerPocket
    <2>5. s2c' \in SUBSET ServerPocket
        BY <2>4, <1>9 DEF ServerAccept, TypeOK
    <2>6. /\ handlers' \in SUBSET RequestID
          /\ owner' \in [RequestID -> Clients]
          /\ segments' \in [RequestID -> SUBSET (Clients \X Nat)]
          /\ lastRequestID' \in 0..MaxRequestID
        BY <2>1, <2>2, <2>3, <1>9 DEF TypeOK, ServerAccept
    <2> QED BY <2>5, <2>6, <1>9 DEF TypeOK, ServerAccept, clientVars, storeVars
<1>10. ASSUME NEW m \in c2s, ServerReject(m) PROVE TypeOK'
    BY <1>10 DEF TypeOK, ServerReject, ErrorPocket, ServerPocket, ClientPocket,
        clientVars, serverVars, handlerVars, storeVars
<1>11. ASSUME NEW m \in c2s, ServerSegment(m) PROVE TypeOK'
    <2>1. /\ m.client \in Clients /\ m.seg \in Nat /\ m.id \in RequestID
          /\ AddrOf[owner[m.id]] \in Addresses
        BY <1>11 DEF TypeOK, ClientPocket, ServerSegment
    <2>2. Received(m) \in SUBSET (Clients \X Nat)
        BY <2>1 DEF TypeOK, Received
    <2>3. segments' \in [RequestID -> SUBSET (Clients \X Nat)]
        BY <1>11, <2>1, <2>2 DEF TypeOK, ServerSegment
    <2>4. s2c' \in SUBSET ServerPocket
        <3> DEFINE a == AddrOf[owner[m.id]]
        <3>1. AckPocket(a, m.id, m.seg) \in ServerPocket /\ ClosePocket(a) \in ServerPocket
            BY <2>1 DEF AckPocket, ClosePocket, ServerPocket, RequestID
        <3>2. s2c' \subseteq s2c \cup {AckPocket(a, m.id, m.seg), ClosePocket(a)}
            BY <1>11 DEF ServerSegment
        <3> QED BY <3>1, <3>2 DEF TypeOK
    <2>5. serverPc' \in {"loop", "remove", "write", "fill"} /\ storing' \in Nat
          /\ (serverPc' # "loop" => storing' \in handlers)
        <3>1. m.id \in Nat /\ m.id \in handlers
            BY <1>11, <2>1 DEF ServerSegment, RequestID
        <3> QED BY <3>1, <1>11 DEF TypeOK, ServerSegment
    <2> QED BY <2>3, <2>4, <2>5, <1>11 DEF TypeOK, ServerSegment, clientVars
<1>12. ASSUME NEW m \in c2s, ServerUnknown(m) PROVE TypeOK'
    BY <1>12 DEF TypeOK, ServerUnknown, ClosePocket, ServerPocket, ClientPocket,
        clientVars, serverVars, handlerVars, storeVars
<1>13. ASSUME PostUploadRemove PROVE TypeOK'
    BY <1>13 DEF TypeOK, PostUploadRemove, clientVars, handlerVars
<1>14. ASSUME PostUploadOpen PROVE TypeOK'
    <2>1. storing \in RequestID /\ segments[storing] \subseteq Clients \X Nat
        BY <1>14 DEF TypeOK, PostUploadOpen
    <2> QED BY <1>14, <2>1 DEF TypeOK, PostUploadOpen, clientVars, handlerVars
<1>15. ASSUME PostUploadWrite PROVE TypeOK'
    BY <1>15 DEF TypeOK, PostUploadWrite, clientVars
<1>16. ASSUME ServerRestart PROVE TypeOK'
    BY <1>16 DEF TypeOK, ServerRestart, clientVars
<1>17. ASSUME NEW m, LoseToServer(m) \/ LoseToClient(m) PROVE TypeOK'
    BY <1>17 DEF TypeOK, LoseToServer, LoseToClient, clientVars, serverVars, handlerVars, storeVars
<1>18. CASE UNCHANGED vars
    BY <1>18 DEF TypeOK, vars, clientVars, serverVars, handlerVars, storeVars
<1> QED
    BY <1>1, <1>2, <1>3, <1>4, <1>5, <1>6, <1>7, <1>8, <1>9, <1>10, <1>11, <1>12,
       <1>13, <1>14, <1>15, <1>16, <1>17, <1>18 DEF Next, ClientStep, ServerStep, NetworkStep

\* In every behaviour of the protocol, with faults and restarts, each
\* variable keeps its type: among the rest, no congestion window is ever 0,
\* and post_upload only ever works for a handler of the dictionary.
THEOREM TypeCorrect == Spec => []TypeOK
BY InitType, NextType, PTL DEF Spec

-----------------------------------------------------------------------------
(***************************************************************************)
(* The windows of the client, with or without faults.                      *)
(***************************************************************************)
WindowsInv == NothingSentYet /\ WindowsOrdered

\* The client begins with nothing in flight, takes the head of what is left
\* to send, and empties one list when it puts it in front of the other.
LEMMA WindowsStep == TypeOK /\ WindowsInv /\ [Next]_vars => WindowsInv'
<1> SUFFICES ASSUME TypeOK, WindowsInv, [Next]_vars PROVE WindowsInv'
    OBVIOUS
<1> USE DEF WindowsInv, NothingSentYet, WindowsOrdered
<1>1. ASSUME NEW c \in Clients, ClientStart(c) PROVE WindowsInv'
    BY <1>1 DEF ClientStart, TypeOK
<1>2. ASSUME NEW c \in Clients, NEW m \in s2c, ClientResponse(c, m) PROVE WindowsInv'
    <2>1. pc[c] = "wait" /\ windowSending[c] = {} /\ windowSending' = windowSending
        BY <1>2 DEF ClientResponse
    <2>2. \A d \in Clients \ {c} : pc'[d] = pc[d] /\ windowToSend'[d] = windowToSend[d]
        BY <1>2 DEF ClientResponse, TypeOK
    <2>3. pc'[c] \notin {"off", "wait"}
        BY <1>2 DEF ClientResponse, TypeOK
    <2> QED BY <2>1, <2>2, <2>3
<1>3. ASSUME NEW c \in Clients, ClientNoResponse(c) PROVE WindowsInv'
    BY <1>3 DEF ClientNoResponse, TypeOK
<1>4. ASSUME NEW c \in Clients, Send(c) PROVE WindowsInv'
    <2>1. PICK i \in windowToSend[c] :
            /\ \A j \in windowToSend[c] : i <= j
            /\ windowToSend' = [windowToSend EXCEPT ![c] = @ \ {i}]
            /\ windowSending' = [windowSending EXCEPT ![c] = @ \cup {i}]
        BY <1>4 DEF Send, Head
    <2>2. windowToSend[c] \subseteq Nat
        BY DEF TypeOK
    <2>3. \A d \in Clients \ {c} :
            windowToSend'[d] = windowToSend[d] /\ windowSending'[d] = windowSending[d]
        BY <2>1 DEF TypeOK
    <2>4. \A k \in windowSending'[c], j \in windowToSend'[c] : k < j
        BY <2>1, <2>2 DEF TypeOK
    <2>5. pc' = pc /\ pc[c] = "send"
        BY <1>4 DEF Send
    <2> QED BY <2>3, <2>4, <2>5
<1>5. ASSUME NEW c \in Clients, EnterRefresh(c) PROVE WindowsInv'
    BY <1>5 DEF EnterRefresh, TypeOK
<1>6. ASSUME NEW c \in Clients, NEW m \in s2c, ClientReceive(c, m) PROVE WindowsInv'
    BY <1>6 DEF ClientReceive, TypeOK
<1>7. ASSUME NEW c \in Clients, RefreshTimeout(c) PROVE WindowsInv'
    BY <1>7 DEF RefreshTimeout, TypeOK
<1>8. ASSUME NEW c \in Clients, RefreshEarlyTimeout(c) PROVE WindowsInv'
    BY <1>8 DEF RefreshEarlyTimeout, TypeOK
<1>9. CASE UNCHANGED clientVars
    BY <1>9 DEF clientVars
<1>10. ServerStep \/ NetworkStep \/ UNCHANGED vars => UNCHANGED clientVars
    BY DEF ServerStep, NetworkStep, vars, ServerAccept, ServerReject, ServerSegment, ServerUnknown,
        PostUploadRemove, PostUploadOpen, PostUploadWrite, ServerRestart,
        LoseToServer, LoseToClient
<1> QED
    BY <1>1, <1>2, <1>3, <1>4, <1>5, <1>6, <1>7, <1>8, <1>9, <1>10 DEF Next, ClientStep

\* pop(0) always takes the oldest missing segment: what is in flight comes
\* before what is still to be sent, in every behaviour.
THEOREM WindowsStayOrdered == Spec => []WindowsOrdered
<1>1. Init => WindowsInv
    BY DEF Init, WindowsInv, NothingSentYet, WindowsOrdered
<1>2. WindowsInv => WindowsOrdered
    BY DEF WindowsInv
<1> QED BY <1>1, <1>2, TypeCorrect, WindowsStep, PTL DEF Spec

-----------------------------------------------------------------------------
(***************************************************************************)
(* Counting segments.                                                      *)
(***************************************************************************)

\* A body has as many segments as its segments amount says.
LEMMA BodyCardinality ==
    ASSUME NEW c \in Clients
    PROVE  IsFiniteSet(Body(c)) /\ Cardinality(Body(c)) = AmountOf[c]
<1> DEFINE I == 0..(AmountOf[c] - 1)
           f == [i \in I |-> <<c, i>>]
<1>1. AmountOf[c] \in Nat /\ AmountOf[c] > 0
    BY AmountAssumption
<1>2. IsFiniteSet(I) /\ Cardinality(I) = AmountOf[c]
    <2>1. 0 \in Int /\ AmountOf[c] - 1 \in Int
        BY <1>1
    <2>2. IsFiniteSet(I) /\ Cardinality(I) =
              IF 0 > AmountOf[c] - 1 THEN 0 ELSE (AmountOf[c] - 1) - 0 + 1
        BY <2>1, FS_Interval
    <2> QED BY <1>1, <2>2
<1>3. f \in Bijection(I, Body(c))
    BY DEF Bijection, Injection, IsInjective, Surjection, Body
<1> QED BY <1>2, <1>3, FS_Bijection DEF ExistsBijection

\* len(handler.segments) == handler.segmentsAmount is the right test: kept
\* segments of the body that are as many as its segments are the body.
LEMMA CompleteMeansBody ==
    ASSUME NEW id \in RequestID, owner[id] \in Clients, NEW S \in SUBSET Body(owner[id]),
           Complete(id, S)
    PROVE  S = Body(owner[id])
BY BodyCardinality, FS_Subset DEF Complete

-----------------------------------------------------------------------------
(***************************************************************************)
(* What the server holds.  UploadInv and the three properties are proved   *)
(* together, for behaviours without a restart in which no two clients use  *)
(* one address.                                                            *)
(***************************************************************************)
Promises == AckedSegmentsHeld /\ SuccessMeansReceived /\ StoredIsBody
IInv == UploadInv /\ Promises

\* Before the first packet nothing is promised.
LEMMA InitIInv == Init => IInv
<1> SUFFICES ASSUME Init PROVE IInv
    OBVIOUS
<1>1. RequestsInv
    BY DEF Init, RequestsInv, ClientKnowsRequest, WindowsInBody, SegmentsInFlight,
        ResponsesInFlight, AcksInFlight, ClosesInFlight, HandlersInv, Issued, Uploading
<1>2. Promises
    BY DEF Init, Promises, AckedSegmentsHeld, SuccessMeansReceived, StoredIsBody, Uploading
<1> QED BY <1>1, <1>2 DEF IInv, UploadInv

\* A step of the client or of the network.
LEMMA ClientIInv ==
    ASSUME TypeOK, TypeOK', RequestsInv, Promises, Undisturbed, Undisturbed',
           UNCHANGED serverVars,
           \/ \E c \in Clients : ClientStep(c)
           \/ NetworkStep
           \/ UNCHANGED vars
    PROVE  RequestsInv' /\ Promises'
<1> USE DEF serverVars, handlerVars, storeVars, Issued, Uploading
<1>a. Issued \subseteq RequestID
    BY BoundsAssumption DEF TypeOK, RequestID
<1>h. HandlersInv'
    BY DEF RequestsInv, HandlersInv
<1>f. StoredIsBody'
    BY DEF Promises, StoredIsBody, Undisturbed
<1>1. ASSUME NEW c \in Clients, ClientStart(c) PROVE RequestsInv' /\ Promises'
    <2>1. ClientKnowsRequest'
        BY <1>1 DEF RequestsInv, ClientKnowsRequest, ClientStart, TypeOK
    <2>2. SegmentsInFlight'
        BY <1>1 DEF RequestsInv, SegmentsInFlight, ClientStart, RequestPocket
    <2>3. WindowsInBody' /\ ResponsesInFlight' /\ AcksInFlight' /\ ClosesInFlight'
        BY <1>1 DEF RequestsInv, WindowsInBody, ResponsesInFlight, AcksInFlight, ClosesInFlight,
            ClientStart
    <2>4. AckedSegmentsHeld' /\ SuccessMeansReceived'
        BY <1>1 DEF Promises, AckedSegmentsHeld, SuccessMeansReceived, ClientStart, TypeOK
    <2> QED BY <2>1, <2>2, <2>3, <2>4, <1>h, <1>f DEF RequestsInv, Promises
<1>2. ASSUME NEW c \in Clients, NEW m \in s2c, ClientResponse(c, m)
      PROVE  RequestsInv' /\ Promises'
    <2>1. CASE m.type = "Response"
        <3>1. /\ m.id \in Issued /\ m.to = AddrOf[owner[m.id]] /\ m.seg = AmountOf[owner[m.id]]
              /\ owner[m.id] \in Clients
            BY <2>1, <1>a DEF RequestsInv, ResponsesInFlight, TypeOK
        <3>2. owner[m.id] = c
            BY <3>1, <1>2 DEF ClientResponse, Undisturbed, DistinctAddresses
        <3>3. /\ pc' = [pc EXCEPT ![c] = "send"]
              /\ rid' = [rid EXCEPT ![c] = m.id]
              /\ windowToSend' = [windowToSend EXCEPT ![c] = 0..(m.seg - 1)]
            BY <2>1, <1>2 DEF ClientResponse
        <3>4. rid[c] = 0
            BY <1>2 DEF ClientResponse, RequestsInv, ClientKnowsRequest
        <3>5. ClientKnowsRequest'
            BY <3>1, <3>2, <3>3 DEF RequestsInv, ClientKnowsRequest, TypeOK
        <3>6. WindowsInBody'
            <4>1. AmountOf[c] \in Nat /\ m.seg = AmountOf[c] /\ windowSending' = windowSending
                BY <3>1, <3>2, <1>2, AmountAssumption DEF ClientResponse
            <4>2. \A i \in windowToSend'[c] : i < AmountOf[c]
                BY <4>1, <3>3 DEF TypeOK
            <4>3. \A d \in Clients \ {c} : windowToSend'[d] = windowToSend[d]
                BY <3>3 DEF TypeOK
            <4> QED BY <4>1, <4>2, <4>3 DEF RequestsInv, WindowsInBody
        <3>7. SegmentsInFlight'
            BY <3>3, <3>4, <1>2
               DEF RequestsInv, SegmentsInFlight, ClientResponse, TypeOK, ClientPocket
        <3>8. ResponsesInFlight'
            BY <1>2 DEF RequestsInv, ResponsesInFlight, ClientResponse
        <3>9. AcksInFlight'
            <4>1. s2c' = s2c /\ \A d \in Clients \ {c} : rid'[d] = rid[d]
                BY <3>3, <1>2 DEF ClientResponse, TypeOK
            <4>2. ASSUME NEW n \in s2c, n.type = "ACK"
                  PROVE  rid[owner[n.id]] = n.id /\ n.id # 0 /\ owner[n.id] \in Clients
                <5>1. n.id \in Issued /\ rid[owner[n.id]] = n.id
                    BY <4>2 DEF RequestsInv, AcksInFlight
                <5>2. n.id \in RequestID /\ n.id # 0
                    BY <5>1, <1>a DEF RequestID
                <5> QED BY <5>1, <5>2 DEF TypeOK
            <4> QED BY <4>1, <4>2, <3>4 DEF RequestsInv, AcksInFlight
        <3>10. ClosesInFlight'
            BY <3>3, <3>4, <1>2 DEF RequestsInv, ClosesInFlight, ClientResponse, TypeOK
        <3>11. AckedSegmentsHeld'
            <4>1. windowToSend'[c] = 0..(AmountOf[c] - 1)
                BY <3>1, <3>2, <3>3 DEF TypeOK
            <4>2. \A s \in Body(c) : s[2] \in windowToSend'[c]
                BY <4>1 DEF Body
            <4>3. \A d \in Clients \ {c} :
                    /\ pc'[d] = pc[d] /\ rid'[d] = rid[d]
                    /\ windowToSend'[d] = windowToSend[d] /\ windowSending'[d] = windowSending[d]
                BY <3>3, <1>2 DEF ClientResponse, TypeOK
            <4> QED BY <4>2, <4>3 DEF Promises, AckedSegmentsHeld
        <3>12. SuccessMeansReceived'
            BY <3>3 DEF Promises, SuccessMeansReceived, TypeOK
        <3> QED BY <3>5, <3>6, <3>7, <3>8, <3>9, <3>10, <3>11, <3>12, <1>h, <1>f
            DEF RequestsInv, Promises
    <2>2. CASE m.type # "Response"
        <3>1. /\ pc' = [pc EXCEPT ![c] = "failed"]
              /\ UNCHANGED <<rid, windowToSend, windowSending, c2s, s2c>>
            BY <2>2, <1>2 DEF ClientResponse
        <3>2. ClientKnowsRequest' /\ WindowsInBody' /\ SegmentsInFlight' /\ ResponsesInFlight'
              /\ AcksInFlight' /\ ClosesInFlight'
            <4>1. ClientKnowsRequest'
                BY <3>1 DEF RequestsInv, ClientKnowsRequest, TypeOK
            <4>2. WindowsInBody' /\ SegmentsInFlight' /\ ResponsesInFlight' /\ AcksInFlight' /\ ClosesInFlight'
                BY <3>1 DEF RequestsInv, WindowsInBody, SegmentsInFlight, ResponsesInFlight,
                    AcksInFlight, ClosesInFlight
            <4> QED BY <4>1, <4>2
        <3>3. AckedSegmentsHeld' /\ SuccessMeansReceived'
            BY <3>1 DEF Promises, AckedSegmentsHeld, SuccessMeansReceived, TypeOK
        <3> QED BY <3>2, <3>3, <1>h, <1>f DEF RequestsInv, Promises
    <2> QED BY <2>1, <2>2
<1>3. ASSUME NEW c \in Clients,
             ClientNoResponse(c) \/ EnterRefresh(c) \/ RefreshEarlyTimeout(c)
      PROVE  RequestsInv' /\ Promises'
    <2>1. /\ UNCHANGED <<rid, windowToSend, windowSending, c2s, s2c>>
          /\ \/ pc[c] = "send" /\ pc' = [pc EXCEPT ![c] = "refresh"]
             \/ pc' = [pc EXCEPT ![c] = "failed"]
             \/ pc' = [pc EXCEPT ![c] = "crashed"]
        BY <1>3 DEF ClientNoResponse, EnterRefresh, RefreshEarlyTimeout
    <2>2. ClientKnowsRequest' /\ WindowsInBody' /\ SegmentsInFlight' /\ ResponsesInFlight'
          /\ AcksInFlight' /\ ClosesInFlight'
        <3>1. ClientKnowsRequest'
            BY <2>1 DEF RequestsInv, ClientKnowsRequest, TypeOK
        <3>2. WindowsInBody' /\ SegmentsInFlight' /\ ResponsesInFlight' /\ AcksInFlight' /\ ClosesInFlight'
            BY <2>1 DEF RequestsInv, WindowsInBody, SegmentsInFlight, ResponsesInFlight,
                AcksInFlight, ClosesInFlight
        <3> QED BY <3>1, <3>2
    <2>3. \A d \in Clients : /\ pc'[d] \in {"send", "refresh"} => pc[d] \in {"send", "refresh"}
                             /\ pc'[d] = "done" => pc[d] = "done"
        BY <2>1 DEF TypeOK
    <2>4. AckedSegmentsHeld' /\ SuccessMeansReceived'
        BY <2>1, <2>3 DEF Promises, AckedSegmentsHeld, SuccessMeansReceived, Body
    <2> QED BY <2>2, <2>4, <1>h, <1>f DEF RequestsInv, Promises
<1>4. ASSUME NEW c \in Clients, Send(c) PROVE RequestsInv' /\ Promises'
    <2>1. PICK i \in windowToSend[c] :
            /\ windowToSend' = [windowToSend EXCEPT ![c] = @ \ {i}]
            /\ windowSending' = [windowSending EXCEPT ![c] = @ \cup {i}]
            /\ c2s' = c2s \cup {SegmentPocket(c, i)}
        BY <1>4 DEF Send
    <2>2. pc[c] = "send" /\ UNCHANGED <<pc, rid, s2c>>
        BY <1>4 DEF Send
    <2>3. SegmentsInFlight'
        BY <2>1, <2>2 DEF RequestsInv, SegmentsInFlight, SegmentPocket, ClientKnowsRequest,
            WindowsInBody
    <2>4. WindowsInBody'
        BY <2>1 DEF RequestsInv, WindowsInBody, TypeOK
    <2>5. ClientKnowsRequest' /\ ResponsesInFlight' /\ AcksInFlight' /\ ClosesInFlight'
        BY <2>2 DEF RequestsInv, ClientKnowsRequest, ResponsesInFlight, AcksInFlight,
            ClosesInFlight
    <2>6. AckedSegmentsHeld' /\ SuccessMeansReceived'
        BY <2>1, <2>2 DEF Promises, AckedSegmentsHeld, SuccessMeansReceived, TypeOK
    <2> QED BY <2>3, <2>4, <2>5, <2>6, <1>h, <1>f DEF RequestsInv, Promises
<1>5. ASSUME NEW c \in Clients, NEW m \in s2c, ClientReceive(c, m)
      PROVE  RequestsInv' /\ Promises'
    <2>1. /\ pc[c] = "refresh" /\ m.to = AddrOf[c]
          /\ pc' = [pc EXCEPT ![c] = IF m.type = "Close" THEN "done" ELSE @]
          /\ windowToSend' =
                [windowToSend EXCEPT ![c] = IF m.type = "ACK" THEN @ \ {m.seg} ELSE @]
          /\ windowSending' =
                [windowSending EXCEPT ![c] = IF m.type = "ACK" THEN @ \ {m.seg} ELSE @]
          /\ UNCHANGED <<rid, c2s, s2c>>
        BY <1>5 DEF ClientReceive
    <2>2. ClientKnowsRequest'
        BY <2>1 DEF RequestsInv, ClientKnowsRequest, TypeOK
    <2>3. WindowsInBody'
        BY <2>1 DEF RequestsInv, WindowsInBody, TypeOK
    <2>4. SegmentsInFlight' /\ ResponsesInFlight' /\ AcksInFlight' /\ ClosesInFlight'
        BY <2>1 DEF RequestsInv, SegmentsInFlight, ResponsesInFlight, AcksInFlight, ClosesInFlight
    <2>5. m.type = "ACK" => rid[c] = m.id /\ <<c, m.seg>> \in segments[rid[c]]
        <3>1. SUFFICES ASSUME m.type = "ACK"
                       PROVE  rid[c] = m.id /\ <<c, m.seg>> \in segments[rid[c]]
            OBVIOUS
        <3>2. /\ m.id \in Issued /\ m.to = AddrOf[owner[m.id]] /\ rid[owner[m.id]] = m.id
              /\ <<owner[m.id], m.seg>> \in segments[m.id] /\ owner[m.id] \in Clients
            BY <3>1, <1>a DEF RequestsInv, AcksInFlight, TypeOK
        <3>3. owner[m.id] = c
            BY <3>2, <2>1 DEF Undisturbed, DistinctAddresses
        <3> QED BY <3>2, <3>3
    <2>6. m.type = "Close" => segments[rid[c]] = Body(c)
        BY <2>1 DEF RequestsInv, ClosesInFlight
    <2>7. AckedSegmentsHeld'
        <3> SUFFICES ASSUME NEW d \in Clients, pc'[d] \in {"send", "refresh"},
                            NEW s \in Body(d),
                            s[2] \notin windowToSend'[d] \cup windowSending'[d]
                     PROVE  s \in segments[rid[d]]
            BY <2>1 DEF AckedSegmentsHeld
        <3>1. pc[d] \in {"send", "refresh"}
            BY <2>1 DEF TypeOK
        <3>2. CASE s[2] \notin windowToSend[d] \cup windowSending[d]
            BY <3>1, <3>2 DEF Promises, AckedSegmentsHeld
        <3>3. CASE s[2] \in windowToSend[d] \cup windowSending[d]
            <4>1. d = c /\ m.type = "ACK" /\ s[2] = m.seg
                BY <3>3, <2>1 DEF TypeOK
            <4> QED BY <4>1, <2>5 DEF Body
        <3> QED BY <3>2, <3>3
    <2>8. SuccessMeansReceived'
        BY <2>1, <2>6 DEF Promises, SuccessMeansReceived, TypeOK
    <2> QED BY <2>2, <2>3, <2>4, <2>7, <2>8, <1>h, <1>f DEF RequestsInv, Promises
<1>6. ASSUME NEW c \in Clients, RefreshTimeout(c) PROVE RequestsInv' /\ Promises'
    <2>1. /\ pc[c] = "refresh" /\ pc' = [pc EXCEPT ![c] = "send"]
          /\ windowToSend' = [windowToSend EXCEPT ![c] = windowSending[c] \cup @]
          /\ windowSending' = [windowSending EXCEPT ![c] = {}]
          /\ UNCHANGED <<rid, c2s, s2c>>
        BY <1>6 DEF RefreshTimeout
    <2>2. ClientKnowsRequest'
        BY <2>1 DEF RequestsInv, ClientKnowsRequest, TypeOK
    <2>3. WindowsInBody'
        BY <2>1 DEF RequestsInv, WindowsInBody, TypeOK
    <2>4. SegmentsInFlight' /\ ResponsesInFlight' /\ AcksInFlight' /\ ClosesInFlight'
        BY <2>1 DEF RequestsInv, SegmentsInFlight, ResponsesInFlight, AcksInFlight, ClosesInFlight
    <2>5. AckedSegmentsHeld' /\ SuccessMeansReceived'
        BY <2>1 DEF Promises, AckedSegmentsHeld, SuccessMeansReceived, TypeOK
    <2> QED BY <2>2, <2>3, <2>4, <2>5, <1>h, <1>f DEF RequestsInv, Promises
<1>7. CASE NetworkStep \/ UNCHANGED vars
    <2>1. UNCHANGED clientVars /\ c2s' \subseteq c2s /\ s2c' \subseteq s2c
        BY <1>7 DEF NetworkStep, LoseToServer, LoseToClient, vars, clientVars
    <2>2. ClientKnowsRequest' /\ WindowsInBody' /\ SegmentsInFlight' /\ ResponsesInFlight'
          /\ AcksInFlight' /\ ClosesInFlight'
        BY <2>1 DEF RequestsInv, ClientKnowsRequest, WindowsInBody, SegmentsInFlight,
            ResponsesInFlight, AcksInFlight, ClosesInFlight, clientVars
    <2>3. AckedSegmentsHeld' /\ SuccessMeansReceived'
        BY <2>1 DEF Promises, AckedSegmentsHeld, SuccessMeansReceived, Undisturbed, clientVars
    <2> QED BY <2>2, <2>3, <1>h, <1>f DEF RequestsInv, Promises
<1> QED BY <1>1, <1>2, <1>3, <1>4, <1>5, <1>6, <1>7 DEF ClientStep

\* A step of the server.  In ServerSegment the segments of one request grow
\* inside the body of its owner, and the Close goes out when they are the body.
LEMMA ServerIInv ==
    ASSUME TypeOK, TypeOK', RequestsInv, Promises, Undisturbed, Undisturbed', ServerStep
    PROVE  RequestsInv' /\ Promises'
<1> USE DEF Issued, Uploading
<1>a. Issued \subseteq RequestID
    BY BoundsAssumption DEF TypeOK, RequestID
<1>b. UNCHANGED <<clientVars, c2s>>
    BY DEF ServerStep, ServerAccept, ServerReject, ServerSegment, ServerUnknown,
        PostUploadRemove, PostUploadOpen, PostUploadWrite, ServerRestart
<1>c. WindowsInBody'
    BY <1>b DEF RequestsInv, WindowsInBody, clientVars
<1>1. ASSUME NEW m \in c2s, ServerAccept(m) PROVE RequestsInv' /\ Promises'
    <2> DEFINE new == lastRequestID + 1
               p == ResponsePocket(AddrOf[m.client], new, AmountOf[m.client])
    <2>1. /\ lastRequestID' = new /\ handlers' = handlers \cup {new}
          /\ owner' = [owner EXCEPT ![new] = m.client]
          /\ segments' = [segments EXCEPT ![new] = {}]
          /\ s2c' = s2c \cup {p}
          /\ UNCHANGED <<storeVars, restarts>>
        BY <1>1 DEF ServerAccept
    <2>2. new \in RequestID /\ new \notin Issued /\ m.client \in Clients
        BY <1>1 DEF ServerAccept, RequestID, TypeOK, ClientPocket
    <2>3. Issued' = Issued \cup {new}
        <3>1. lastRequestID \in Nat
            BY DEF TypeOK
        <3> QED BY <3>1, <2>1
    <2>4. owner'[new] = m.client /\ segments'[new] = {}
        BY <2>1, <2>2 DEF TypeOK
    <2>5. \A id \in Issued : owner'[id] = owner[id] /\ segments'[id] = segments[id]
        BY <2>1, <2>2, <1>a DEF TypeOK
    <2> HIDE DEF new, p, Issued
    <2>6. ClientKnowsRequest'
        BY <2>3, <2>5, <1>b DEF RequestsInv, ClientKnowsRequest, clientVars
    <2>7. SegmentsInFlight'
        BY <2>3, <2>5, <1>b DEF RequestsInv, SegmentsInFlight, clientVars
    <2>8. ResponsesInFlight'
        <3>1. p.id = new /\ p.to = AddrOf[m.client] /\ p.seg = AmountOf[m.client]
            BY DEF p, ResponsePocket
        <3> QED BY <3>1, <2>1, <2>3, <2>4, <2>5 DEF RequestsInv, ResponsesInFlight
    <2>9. AcksInFlight'
        <3>1. p.type # "ACK"
            BY DEF p, ResponsePocket
        <3> QED BY <3>1, <2>1, <2>3, <2>5, <1>b DEF RequestsInv, AcksInFlight, clientVars
    <2>10. ClosesInFlight'
        <3>1. p.type # "Close"
            BY DEF p, ResponsePocket
        <3> QED BY <3>1, <2>1, <2>3, <2>5, <1>b DEF RequestsInv, ClosesInFlight, clientVars, Body
    <2>11. HandlersInv'
        <3>1. /\ handlers' \subseteq Issued'
              /\ \A id \in Issued' : segments'[id] \subseteq Body(owner'[id])
              /\ \A id \in Issued' \ handlers' : segments'[id] = Body(owner'[id])
            BY <2>1, <2>3, <2>4, <2>5 DEF RequestsInv, HandlersInv
        <3>2. serverPc' # "loop" => segments'[storing'] = Body(owner'[storing'])
            BY <1>1, <2>1 DEF ServerAccept, storeVars
        <3> QED BY <3>1, <3>2 DEF HandlersInv, Body
    <2>12. AckedSegmentsHeld' /\ SuccessMeansReceived'
        BY <2>5, <1>b DEF RequestsInv, ClientKnowsRequest, Promises, AckedSegmentsHeld,
            SuccessMeansReceived, clientVars, Body
    <2>13. StoredIsBody'
        BY <2>1 DEF Promises, StoredIsBody, storeVars, Body
    <2> QED BY <2>6, <2>7, <2>8, <2>9, <2>10, <2>11, <2>12, <2>13, <1>c DEF RequestsInv, Promises
<1>2. ASSUME NEW m \in c2s, ServerReject(m) PROVE RequestsInv' /\ Promises'
    <2>1. s2c' = s2c \cup {ErrorPocket(AddrOf[m.client])} /\ UNCHANGED serverVars
        BY <1>2 DEF ServerReject
    <2>2. ClientKnowsRequest' /\ SegmentsInFlight' /\ HandlersInv' /\ ResponsesInFlight'
        BY <2>1, <1>b DEF RequestsInv, ClientKnowsRequest, SegmentsInFlight, HandlersInv,
            ResponsesInFlight, ErrorPocket, clientVars, serverVars, handlerVars, storeVars, Body
    <2>3. AcksInFlight' /\ ClosesInFlight'
        BY <2>1, <1>b DEF RequestsInv, AcksInFlight, ClosesInFlight, ErrorPocket,
            clientVars, serverVars, handlerVars, Body
    <2>4. Promises'
        BY <2>1, <1>b DEF Promises, AckedSegmentsHeld, SuccessMeansReceived, StoredIsBody,
            clientVars, serverVars, handlerVars, storeVars, Body, Undisturbed
    <2> QED BY <2>2, <2>3, <2>4, <1>c DEF RequestsInv
<1>3. ASSUME NEW m \in c2s, ServerSegment(m) PROVE RequestsInv' /\ Promises'
    <2> DEFINE S == Received(m)
               c == owner[m.id]
               ack == AckPocket(AddrOf[c], m.id, m.seg)
               close == ClosePocket(AddrOf[c])
    <2>1. /\ m.type = "Segment" /\ m.id \in handlers /\ serverPc = "loop"
          /\ segments' = [segments EXCEPT ![m.id] = S]
          /\ \/ /\ Complete(m.id, S) /\ s2c' = s2c \cup {ack, close} /\ storing' = m.id
             \/ s2c' = s2c \cup {ack} /\ serverPc' = "loop"
          /\ UNCHANGED <<handlers, owner, lastRequestID, fileState, file, restarts>>
        BY <1>3 DEF ServerSegment
    <2>2. m.id \in Issued /\ c = m.client /\ rid[c] = m.id /\ m.seg < AmountOf[c]
        BY <2>1 DEF RequestsInv, SegmentsInFlight
    <2>3. m.id \in RequestID /\ c \in Clients /\ m.seg \in Nat
        BY <2>2, <1>a DEF TypeOK, ClientPocket
    <2>4. segments[m.id] \subseteq Body(c)
        BY <2>2 DEF RequestsInv, HandlersInv
    <2>5. <<c, m.seg>> \in Body(c)
        BY <2>2, <2>3, AmountAssumption DEF Body
    <2>6. segments[m.id] \subseteq S /\ S \subseteq Body(c) /\ <<c, m.seg>> \in S
        BY <2>2, <2>4, <2>5 DEF Received, Body
    <2>7. \A id \in RequestID : /\ id # m.id => segments'[id] = segments[id]
                                /\ segments[id] \subseteq segments'[id]
                                /\ segments'[m.id] = S
        BY <2>1, <2>3, <2>6 DEF TypeOK
    <2>8. Complete(m.id, S) => S = Body(c)
        BY <2>3, <2>6, CompleteMeansBody
    <2> HIDE DEF S, ack, close, Issued
    <2>9. Issued' = Issued
        BY <2>1 DEF Issued
    <2>10. ClientKnowsRequest' /\ SegmentsInFlight'
        BY <2>1, <2>9, <1>b DEF RequestsInv, ClientKnowsRequest, SegmentsInFlight, clientVars
    <2>11. ResponsesInFlight'
        BY <2>1, <2>9 DEF RequestsInv, ResponsesInFlight, ack, close, AckPocket, ClosePocket
    <2>12. AcksInFlight'
        <3> SUFFICES ASSUME NEW n \in s2c', n.type = "ACK"
                     PROVE  /\ n.id \in Issued /\ n.to = AddrOf[owner[n.id]]
                            /\ rid[owner[n.id]] = n.id
                            /\ <<owner[n.id], n.seg>> \in segments'[n.id]
            BY <2>1, <2>9, <1>b DEF AcksInFlight, clientVars
        <3>1. CASE n \in s2c
            BY <3>1, <2>7, <1>a DEF RequestsInv, AcksInFlight
        <3>2. CASE n = ack
            <4>1. n.id = m.id /\ n.to = AddrOf[c] /\ n.seg = m.seg
                BY <3>2 DEF ack, AckPocket
            <4> QED BY <4>1, <2>2, <2>3, <2>6, <2>7
        <3>3. n # close
            BY DEF close, ClosePocket
        <3> QED BY <3>1, <3>2, <3>3, <2>1
    <2>13. ClosesInFlight'
        <3> SUFFICES ASSUME NEW n \in s2c', n.type = "Close",
                            NEW d \in Clients, n.to = AddrOf[d]
                     PROVE  rid[d] \in Issued /\ segments'[rid[d]] = Body(d)
            BY <2>9, <1>b DEF ClosesInFlight, clientVars
        <3>1. CASE n \in s2c
            <4>1. rid[d] \in Issued /\ segments[rid[d]] = Body(d)
                BY <3>1 DEF RequestsInv, ClosesInFlight
            <4>2. CASE rid[d] = m.id
                <5>1. d = c
                    <6>1. <<d, 0>> \in Body(d)
                        BY AmountAssumption DEF Body
                    <6>2. Body(d) \subseteq Body(c)
                        BY <4>1, <4>2, <2>4
                    <6> QED BY <6>1, <6>2 DEF Body
                <5> QED BY <4>1, <4>2, <5>1, <2>3, <2>6, <2>7
            <4>3. CASE rid[d] # m.id
                BY <4>1, <4>3, <2>7, <1>a
            <4> QED BY <4>2, <4>3
        <3>2. CASE n = close /\ n \notin s2c
            <4>1. Complete(m.id, S)
                BY <3>2, <2>1 DEF ack, close, AckPocket, ClosePocket
            <4>2. d = c
                BY <3>2, <2>3 DEF close, ClosePocket, Undisturbed, DistinctAddresses
            <4> QED BY <4>1, <4>2, <2>2, <2>3, <2>7, <2>8
        <3>3. n # ack
            BY DEF ack, AckPocket
        <3> QED BY <3>1, <3>2, <3>3, <2>1
    <2>14. HandlersInv'
        <3>1. handlers' \subseteq Issued'
            BY <2>1, <2>9 DEF RequestsInv, HandlersInv
        <3>2. \A id \in Issued : segments'[id] \subseteq Body(owner[id])
            BY <2>6, <2>7, <1>a DEF RequestsInv, HandlersInv
        <3>3. \A id \in Issued \ handlers : segments'[id] = Body(owner[id])
            BY <2>1, <2>7, <1>a DEF RequestsInv, HandlersInv
        <3>4. serverPc' # "loop" => segments'[storing'] = Body(owner[storing'])
            BY <2>1, <2>3, <2>7, <2>8
        <3> QED BY <3>1, <3>2, <3>3, <3>4, <2>1, <2>9 DEF HandlersInv, Body
    <2>15. AckedSegmentsHeld'
        BY <2>7, <1>a, <1>b DEF RequestsInv, ClientKnowsRequest, Promises, AckedSegmentsHeld,
            clientVars, Body
    <2>16. SuccessMeansReceived'
        <3> SUFFICES ASSUME NEW d \in Clients, pc[d] = "done"
                     PROVE  segments'[rid[d]] = Body(d)
            BY <1>b DEF SuccessMeansReceived, clientVars
        <3>1. rid[d] \in Issued /\ owner[rid[d]] = d /\ segments[rid[d]] = Body(d)
            BY DEF RequestsInv, ClientKnowsRequest, Promises, SuccessMeansReceived
        <3> QED BY <3>1, <2>6, <2>7, <1>a
    <2>17. StoredIsBody'
        BY <2>1 DEF Promises, StoredIsBody, Body
    <2> QED BY <2>10, <2>11, <2>12, <2>13, <2>14, <2>15, <2>16, <2>17, <1>c
        DEF RequestsInv, Promises
<1>4. ASSUME NEW m \in c2s, ServerUnknown(m) PROVE RequestsInv' /\ Promises'
    <2> DEFINE close == ClosePocket(AddrOf[m.client])
    <2>1. /\ m.type = "Segment" /\ m.id \notin handlers
          /\ s2c' = s2c \cup {close} /\ UNCHANGED serverVars
        BY <1>4 DEF ServerUnknown
    <2>2. m.client \in Clients
        BY DEF TypeOK, ClientPocket
    <2>3. rid[m.client] \in Issued /\ segments[rid[m.client]] = Body(m.client)
        BY <2>1 DEF RequestsInv, SegmentsInFlight, HandlersInv
    <2>4. ClosesInFlight'
        <3>1. \A d \in Clients : close.to = AddrOf[d] => d = m.client
            BY <2>2 DEF ClosePocket, Undisturbed, DistinctAddresses
        <3> QED BY <3>1, <2>1, <2>3, <1>b DEF RequestsInv, ClosesInFlight, clientVars, serverVars,
                handlerVars, Body
    <2>5. AcksInFlight' /\ ResponsesInFlight'
        BY <2>1, <1>b DEF RequestsInv, AcksInFlight, ResponsesInFlight, ClosePocket,
            clientVars, serverVars, handlerVars
    <2>6. ClientKnowsRequest' /\ SegmentsInFlight' /\ HandlersInv'
        BY <2>1, <1>b DEF RequestsInv, ClientKnowsRequest, SegmentsInFlight, HandlersInv,
            clientVars, serverVars, handlerVars, storeVars, Body
    <2>7. Promises'
        BY <2>1, <1>b DEF Promises, AckedSegmentsHeld, SuccessMeansReceived, StoredIsBody,
            clientVars, serverVars, handlerVars, storeVars, Body, Undisturbed
    <2> QED BY <2>4, <2>5, <2>6, <2>7, <1>c DEF RequestsInv
<1>5. CASE PostUploadRemove \/ PostUploadOpen \/ PostUploadWrite
    <2>1. /\ UNCHANGED <<owner, segments, lastRequestID, storing, restarts, s2c>>
          /\ handlers \ {storing} \subseteq handlers' /\ handlers' \subseteq handlers
          /\ serverPc # "loop"
        BY <1>5 DEF PostUploadRemove, PostUploadOpen, PostUploadWrite, handlerVars
    <2>2. segments[storing] = Body(owner[storing]) /\ storing \in RequestID
        BY <2>1 DEF RequestsInv, HandlersInv, TypeOK
    <2>3. ClientKnowsRequest' /\ SegmentsInFlight' /\ ResponsesInFlight' /\ AcksInFlight'
          /\ ClosesInFlight'
        BY <2>1, <1>b DEF RequestsInv, ClientKnowsRequest, SegmentsInFlight, ResponsesInFlight,
            AcksInFlight, ClosesInFlight, clientVars, Body
    <2>4. HandlersInv'
        BY <2>1, <2>2 DEF RequestsInv, HandlersInv, Body
    <2>5. AckedSegmentsHeld' /\ SuccessMeansReceived'
        BY <2>1, <1>b DEF Promises, AckedSegmentsHeld, SuccessMeansReceived, clientVars, Body,
            Undisturbed
    <2>6. StoredIsBody'
        <3>1. \/ /\ fileState' = [fileState EXCEPT ![owner[storing]] = "removed"]
                 /\ file' = [file EXCEPT ![owner[storing]] = {}]
              \/ /\ fileState' = [fileState EXCEPT ![owner[storing]] = "torn"]
                 /\ \E n \in 0..AmountOf[owner[storing]] : file' =
                        [file EXCEPT ![owner[storing]] = {s \in segments[storing] : s[2] < n}]
              \/ /\ fileState' = [fileState EXCEPT ![owner[storing]] = "written"]
                 /\ file' = [file EXCEPT ![owner[storing]] = segments[storing]]
            BY <1>5 DEF PostUploadRemove, PostUploadOpen, PostUploadWrite
        <3> QED BY <3>1, <2>2, SMTT(30) DEF Promises, StoredIsBody, TypeOK, Body
    <2> QED BY <2>3, <2>4, <2>5, <2>6, <1>c DEF RequestsInv, Promises
<1>6. ~ServerRestart
    BY DEF ServerRestart, Undisturbed, TypeOK
<1> QED BY <1>1, <1>2, <1>3, <1>4, <1>5, <1>6 DEF ServerStep

\* Undisturbed behaviours only ever come from undisturbed ones.
LEMMA IInvStep == TypeOK /\ TypeOK' /\ IInv /\ [Next]_vars => IInv'
<1> SUFFICES ASSUME TypeOK, TypeOK', IInv, [Next]_vars PROVE IInv'
    OBVIOUS
<1>1. CASE ~Undisturbed'
    BY <1>1 DEF IInv, UploadInv, Promises, AckedSegmentsHeld, SuccessMeansReceived, StoredIsBody
<1>2. CASE Undisturbed'
    <2>1. \/ restarts' = restarts + 1
          \/ restarts' = restarts
        BY DEF Next, vars, clientVars, serverVars, handlerVars, storeVars,
            ClientStep, ClientStart, ClientResponse, ClientNoResponse, Send, EnterRefresh,
            ClientReceive, RefreshTimeout, RefreshEarlyTimeout,
            ServerStep, ServerAccept, ServerReject, ServerSegment, ServerUnknown,
            PostUploadRemove, PostUploadOpen, PostUploadWrite, ServerRestart,
            NetworkStep, LoseToServer, LoseToClient
    <2>2. Undisturbed
        BY <1>2, <2>1 DEF Undisturbed, DistinctAddresses, TypeOK
    <2>3. RequestsInv /\ Promises
        BY <2>2 DEF IInv, UploadInv
    <2>4. (\E c \in Clients : ClientStep(c)) \/ NetworkStep \/ UNCHANGED vars => UNCHANGED serverVars
        BY DEF vars, ClientStep, ClientStart, ClientResponse, ClientNoResponse, Send, EnterRefresh,
            ClientReceive, RefreshTimeout, RefreshEarlyTimeout,
            NetworkStep, LoseToServer, LoseToClient
    <2>5. RequestsInv' /\ Promises'
        BY <1>2, <2>2, <2>3, <2>4, ClientIInv, ServerIInv DEF Next
    <2> QED BY <2>5 DEF IInv, UploadInv
<1> QED BY <1>1, <1>2

\* The inductive invariant holds in every behaviour.
LEMMA IInvAlways == Spec => []IInv
BY InitIInv, IInvStep, TypeCorrect, PTL DEF Spec

\* No datagram ever speaks of a request that is not its sender's, and the
\* server says of a request only what its segments bear out.
THEOREM RequestsStayApart == Spec => []UploadInv
<1>1. IInv => UploadInv
    BY DEF IInv
<1> QED BY <1>1, IInvAlways, PTL

\* A segment the client has been told is acknowledged is at the server.
THEOREM AckedIsHeld == Spec => []AckedSegmentsHeld
<1>1. IInv => AckedSegmentsHeld
    BY DEF IInv, Promises
<1> QED BY <1>1, IInvAlways, PTL

\* Without restarts and shared addresses, "done" means the server has it all.
THEOREM SuccessIsReceived == Spec => []SuccessMeansReceived
<1>1. IInv => SuccessMeansReceived
    BY DEF IInv, Promises
<1> QED BY <1>1, IInvAlways, PTL

\* Without restarts and shared addresses, what is stored is what was sent.
THEOREM StoredIsSent == Spec => []StoredIsBody
<1>1. IInv => StoredIsBody
    BY DEF IInv, Promises
<1> QED BY <1>1, IInvAlways, PTL
=============================================================================
