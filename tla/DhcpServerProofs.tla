--------------------------- MODULE DhcpServerProofs ---------------------------
(***************************************************************************)
(* Safety of DhcpServer for every set of hosts and addresses, every pool,  *)
(* lease time, number of transactions and number of crashes.               *)
(***************************************************************************)
EXTENDS DhcpServer, TLAPS

-----------------------------------------------------------------------------
(***************************************************************************)
(* Type correctness.                                                       *)
(***************************************************************************)

\* The time of a lease given now is one the database can hold.
LEMMA LeaseEnd == \A t \in 0..MaxTime : t + LeaseTime \in Times
BY TimeAssumption DEF Times

\* A message a host sends is one of a host.
LEMMA SentIsMessage ==
    ASSUME TypeOK, NEW h \in Hosts, NEW type \in {"Discover", "Request", "Release"},
           NEW n \in Nat, NEW c \in Addresses \cup {0}, NEW w \in Addresses \cup {0},
           NEW e \in BOOLEAN, HostSends(h, type, n, c, w, e)
    PROVE  toServer' \in SUBSET HostMessage
BY DEF TypeOK, HostSends, HostMessage

\* A reply to a host's message is a message of the server.
LEMMA ReplyIsMessage ==
    ASSUME NEW m \in HostMessage, NEW type \in {"Offer", "ACK", "NAK"},
           NEW a \in Addresses \cup {0}
    PROVE  Reply(type, m, a) \in ServerMessage
BY DEF HostMessage, ServerMessage, Reply

\* Before the first step every variable has its type.
LEMMA InitType == Init => TypeOK
BY TimeAssumption, CrashAssumption DEF Init, TypeOK, NoLeases, Leases, Times

\* No step of the hosts, the server or the clock breaks the types.
LEMMA NextType == TypeOK /\ [Next]_vars => TypeOK'
<1> SUFFICES ASSUME TypeOK, [Next]_vars PROVE TypeOK'
    OBVIOUS
<1> USE AddressesAssumption, TimeAssumption, CrashAssumption, HostsAssumption
<1>1. ASSUME Tick PROVE TypeOK'
    BY <1>1 DEF TypeOK, Tick, hostVars, serverVars, fileVars
<1>2. ASSUME NEW h \in Hosts, HostDiscover(h) PROVE TypeOK'
    <2>1. toServer' \in SUBSET HostMessage
        <3>1. PICK w \in Wants : HostSends(h, "Discover", xid[h] + 1, 0, w, FALSE)
            BY <1>2 DEF HostDiscover
        <3>2. xid[h] + 1 \in Nat /\ w \in Addresses \cup {0}
            BY DEF TypeOK
        <3> QED BY <3>1, <3>2, SentIsMessage
    <2> QED BY <2>1, <1>2 DEF TypeOK, HostDiscover, serverVars, fileVars
<1>3. ASSUME NEW h \in Hosts, NEW m \in toHosts, HostRequest(h, m) PROVE TypeOK'
    <2>1. m.ip \in Addresses \cup {0} /\ m.xid \in Nat
        BY DEF TypeOK, ServerMessage
    <2>2. toServer' \in SUBSET HostMessage
        BY <2>1, <1>3, SentIsMessage DEF HostRequest
    <2> QED BY <2>1, <2>2, <1>3 DEF TypeOK, HostRequest, serverVars, fileVars
<1>4. ASSUME NEW h \in Hosts, HostRequestElsewhere(h) PROVE TypeOK'
    <2>1. toServer' \in SUBSET HostMessage
        <3>1. PICK a \in Pool : HostSends(h, "Request", xid[h], 0, a, TRUE)
            BY <1>4 DEF HostRequestElsewhere
        <3>2. xid[h] \in Nat /\ a \in Addresses \cup {0}
            BY DEF TypeOK
        <3> QED BY <3>1, <3>2, SentIsMessage
    <2> QED BY <2>1, <1>4 DEF TypeOK, HostRequestElsewhere, serverVars, fileVars
<1>5. ASSUME NEW h \in Hosts, HostRenew(h) PROVE TypeOK'
    <2>1. toServer' \in SUBSET HostMessage
        <3>1. xid[h] + 1 \in Nat /\ ip[h] \in Addresses \cup {0}
            BY DEF TypeOK
        <3> QED BY <3>1, <1>5, SentIsMessage DEF HostRenew
    <2> QED BY <2>1, <1>5 DEF TypeOK, HostRenew, serverVars, fileVars
<1>6. ASSUME NEW h \in Hosts, NEW m \in toHosts, HostAck(h, m) PROVE TypeOK'
    <2>1. m.ip \in Addresses \cup {0} /\ asked[h] + LeaseTime \in Times
        BY LeaseEnd DEF TypeOK, ServerMessage
    <2> QED BY <2>1, <1>6 DEF TypeOK, HostAck, serverVars, fileVars
<1>7. ASSUME NEW h \in Hosts, NEW m \in toHosts, HostNak(h, m) PROVE TypeOK'
    BY <1>7 DEF TypeOK, HostNak, serverVars, fileVars
<1>8. ASSUME NEW h \in Hosts, HostRestart(h) PROVE TypeOK'
    BY <1>8 DEF TypeOK, HostRestart, serverVars, fileVars
<1>9. ASSUME NEW h \in Hosts, HostRelease(h) PROVE TypeOK'
    <2>1. toServer' \in SUBSET HostMessage
        <3>1. xid[h] \in Nat /\ ip[h] \in Addresses \cup {0}
            BY DEF TypeOK
        <3> QED BY <3>1, <1>9, SentIsMessage DEF HostRelease
    <2> QED BY <2>1, <1>9 DEF TypeOK, HostRelease, serverVars, fileVars
<1>10. ASSUME NEW m \in toServer, HandleDiscover(m) PROVE TypeOK'
    <2>1. m \in HostMessage /\ m.wanted \in Addresses \cup {0}
        BY DEF TypeOK, HostMessage
    <2>2. \A a \in Addresses \cup {0} : Reply("Offer", m, a) \in ServerMessage
        BY <2>1, ReplyIsMessage
    <2>3. CASE UNCHANGED <<serverPc, leases, reply>>
        BY <2>1, <2>2, <2>3, <1>10 DEF TypeOK, HandleDiscover, hostVars, fileVars, SaveThenReply
    <2>4. CASE serverPc' = "remove"
        <3>1. /\ leases' \in Leases
              /\ reply' \in SUBSET ServerMessage
              /\ toHosts' = toHosts
            <4>1. 0 \in Times
                BY DEF Times
            <4> QED BY <4>1, <2>2, <2>4, <1>10 DEF TypeOK, HandleDiscover, SaveThenReply, Leases
        <3> QED BY <3>1, <2>4, <1>10 DEF TypeOK, HandleDiscover, hostVars, fileVars
    <2> QED BY <2>3, <2>4, <1>10 DEF HandleDiscover, SaveThenReply
<1>11. ASSUME NEW m \in toServer, HandleRequest(m) PROVE TypeOK'
    <2>1. m \in HostMessage /\ m.wanted \in Addresses \cup {0}
        BY DEF TypeOK, HostMessage
    <2>2. \A a \in Addresses \cup {0}, type \in {"ACK", "NAK"} :
              Reply(type, m, a) \in ServerMessage
        BY <2>1, ReplyIsMessage
    <2>3. now + LeaseTime \in Times
        BY LeaseEnd DEF TypeOK
    <2>4. /\ leases' \in Leases
          /\ reply' \in SUBSET ServerMessage
          /\ toHosts' \in SUBSET ServerMessage
        <3>1. CASE ValidRequest(m)
            <4>1. leases' = [leases EXCEPT ![m.wanted] = now + LeaseTime]
                BY <3>1, <1>11 DEF HandleRequest
            <4>2. leases' \in Leases
                BY <4>1, <2>3 DEF TypeOK, Leases
            <4> QED BY <4>2, <3>1, <2>1, <2>2, <1>11 DEF TypeOK, HandleRequest, SaveThenReply
        <3>2. CASE ~ValidRequest(m)
            BY <3>2, <2>1, <2>2, <1>11 DEF TypeOK, HandleRequest
        <3> QED BY <3>1, <3>2
    <2>5. serverPc' \in {"loop", "remove"} /\ fileState = "whole"
        BY <1>11 DEF TypeOK, HandleRequest, SaveThenReply
    <2> QED BY <2>4, <2>5, <1>11 DEF TypeOK, HandleRequest, hostVars, fileVars
<1>12. ASSUME NEW m \in toServer, HandleRenewal(m) PROVE TypeOK'
    <2>1. m \in HostMessage /\ m.ciaddr \in Addresses \cup {0}
        BY DEF TypeOK, HostMessage
    <2>2. Reply("ACK", m, m.ciaddr) \in ServerMessage
        BY <2>1, ReplyIsMessage
    <2>3. now + LeaseTime \in Times
        BY LeaseEnd DEF TypeOK
    <2> QED BY <2>1, <2>2, <2>3, <1>12
            DEF TypeOK, HandleRenewal, SaveThenReply, Leases, hostVars, fileVars
<1>13. ASSUME NEW m \in toServer, HandleRelease(m) PROVE TypeOK'
    <2>1. leases' \in Leases
        <3>1. 0 \in Times
            BY DEF Times
        <3> QED BY <3>1, <1>13 DEF TypeOK, HandleRelease, Leases
    <2> QED BY <2>1, <1>13 DEF TypeOK, HandleRelease, SaveThenReply, hostVars, fileVars
<1>14. ASSUME SaveRemove \/ SaveOpen \/ SaveWrite PROVE TypeOK'
    <2>1. NoLeases \in Leases
        BY DEF NoLeases, Leases, Times
    <2>2. CASE SaveRemove
        BY <2>1, <2>2 DEF TypeOK, SaveRemove, hostVars
    <2>3. CASE SaveOpen
        BY <2>3 DEF TypeOK, SaveOpen, hostVars
    <2>4. CASE SaveWrite
        BY <2>4 DEF TypeOK, SaveWrite, hostVars
    <2> QED BY <2>2, <2>3, <2>4, <1>14
<1>15. ASSUME Crash \/ Start PROVE TypeOK'
    <2>1. NoLeases \in Leases
        BY DEF NoLeases, Leases, Times
    <2> QED BY <2>1, <1>15 DEF TypeOK, Crash, Start, hostVars, fileVars
<1>16. CASE UNCHANGED vars
    BY <1>16 DEF TypeOK, vars, hostVars, serverVars, fileVars
<1> QED
    BY <1>1, <1>2, <1>3, <1>4, <1>5, <1>6, <1>7, <1>8, <1>9, <1>10, <1>11, <1>12,
       <1>13, <1>14, <1>15, <1>16 DEF Next, HostStep, ServerStep

\* In every behaviour, with crashes, late and doubled messages, each variable
\* keeps its type: among the rest, main_loop only runs with a whole dhcp.json.
THEOREM TypeCorrect == Spec => []TypeOK
BY InitType, NextType, PTL DEF Spec

-----------------------------------------------------------------------------
(***************************************************************************)
(* The steps of the hosts and of the clock.  They leave the leases alone;  *)
(* what has to be shown is that none of them makes a claim, except by      *)
(* taking an answer that was one already.                                  *)
(***************************************************************************)
NoNewClaims ==
    \A h \in Hosts, a \in Addresses, t \in Times :
        /\ Claims(h, a, t, toHosts \cup reply)' => Claims(h, a, t, toHosts \cup reply)
        /\ Claims(h, a, t, toHosts)' => Claims(h, a, t, toHosts)

\* A step that makes no claim, of a host or of the clock, leaves the claims
\* covered and apart; a Release it sends only takes addresses out of them.
LEMMA ClaimsKept ==
    ASSUME RecordsCover, ClaimsApart, NoNewClaims, toServer \subseteq toServer',
           UNCHANGED <<serverVars, toHosts>>
    PROVE  RecordsCover' /\ ClaimsApart'
<1>1. \A a : Released(a) => Released(a)'
    BY DEF Released
<1>2. UNCHANGED <<serverPc, leases, reply, file, toHosts>>
    BY DEF serverVars, fileVars
<1>3. Covers(leases, toHosts \cup reply) => Covers(leases, toHosts \cup reply)'
    BY <1>1, <1>2 DEF Covers, NoNewClaims
<1>4. Covers(file, toHosts) => Covers(file, toHosts)'
    BY <1>1, <1>2 DEF Covers, NoNewClaims
<1>5. RecordsCover'
    BY <1>2, <1>3, <1>4 DEF RecordsCover
<1>6. \A a \in Addresses :
          Claimants(a, toHosts \cup reply)' \subseteq Claimants(a, toHosts \cup reply)
    BY DEF Claimants, NoNewClaims
<1>7. ClaimsApart'
    BY <1>1, <1>6 DEF ClaimsApart
<1> QED BY <1>5, <1>7

\* Every message names a host and has a number.
LEMMA SentTypes ==
    ASSUME TypeOK
    PROVE  /\ \A m \in toServer : m.host \in Hosts /\ m.xid \in Nat
           /\ \A m \in toHosts \cup reply : m.host \in Hosts /\ m.xid \in Nat
BY DEF TypeOK, HostMessage, ServerMessage

\* Time ends claims and makes none.
LEMMA TickKeeps == TypeOK /\ LeaseInv /\ Tick => LeaseInv'
<1> SUFFICES ASSUME TypeOK, LeaseInv, Tick PROVE LeaseInv'
    OBVIOUS
<1>1. UNCHANGED <<state, xid, ip, asked, expiry, reply, toServer, toHosts, serverVars>>
    BY DEF Tick, hostVars, serverVars
<1>2. RequestsInFlight' /\ AnswersInFlight'
    BY <1>1 DEF LeaseInv, RequestsInFlight, AnswersInFlight
<1>3. HostClocks'
    BY <1>1, TimeAssumption DEF LeaseInv, HostClocks, Tick, TypeOK, Times
<1>4. NoNewClaims
    <2>1. \A t \in Times : now' <= t => now <= t
        BY TimeAssumption DEF Tick, TypeOK, Times
    <2>2. \A h \in Hosts : now' <= expiry[h] => now <= expiry[h]
        BY <2>1 DEF TypeOK
    <2> QED BY <1>1, <2>1, <2>2 DEF NoNewClaims, Claims, Acked
<1> QED BY <1>1, <1>2, <1>3, <1>4, ClaimsKept DEF LeaseInv

\* A step of one host.
OnlyHost(h) ==
    /\ UNCHANGED <<now, serverVars, toHosts>>
    /\ toServer \subseteq toServer'
    /\ \A g \in Hosts \ {h} :
          /\ state'[g] = state[g] /\ xid'[g] = xid[g] /\ ip'[g] = ip[g]
          /\ asked'[g] = asked[g] /\ expiry'[g] = expiry[g]

\* What such a step must show, of its host alone, to keep the invariant.
LEMMA HostStepKeeps ==
    ASSUME TypeOK, LeaseInv, NEW h \in Hosts, OnlyHost(h),
           \A m \in toServer' \ toServer : m.host = h,
           \A m \in toServer' : m.host = h =>
              /\ m.xid <= xid'[h]
              /\ m.elsewhere => m.ciaddr = 0
              /\ m.type = "Request" /\ ~m.elsewhere /\ m.xid = xid'[h] =>
                    /\ state'[h] # "selecting"
                    /\ state'[h] = "requesting" => m.ciaddr = 0 /\ m.wanted = ip'[h]
                    /\ state'[h] = "renewing" => m.ciaddr = ip'[h] /\ m.wanted = 0,
           \A m \in toHosts \cup reply : m.host = h =>
              /\ m.xid <= xid'[h]
              /\ m.type = "ACK" /\ m.xid = xid'[h] =>
                    /\ state'[h] # "selecting"
                    /\ state'[h] \in {"requesting", "renewing"} => m.ip = ip'[h],
           asked'[h] <= now,
           state'[h] \in {"bound", "renewing"} => expiry'[h] \in 1..(now + LeaseTime),
           \A a \in Addresses, t \in Times :
              /\ Claims(h, a, t, toHosts \cup reply)' => Claims(h, a, t, toHosts \cup reply)
              /\ Claims(h, a, t, toHosts)' => Claims(h, a, t, toHosts)
    PROVE  LeaseInv'
<1>1. UNCHANGED <<now, reply, toHosts, serverVars>>
    BY DEF OnlyHost, serverVars
<1>2. \A m \in toServer' : m.host # h => m \in toServer /\ m.host \in Hosts \ {h}
    BY SentTypes
<1>3. RequestsInFlight'
    BY <1>2 DEF LeaseInv, RequestsInFlight, OnlyHost
<1>4. AnswersInFlight'
    <2>1. \A m \in toHosts \cup reply : m.host # h => m.host \in Hosts \ {h}
        BY SentTypes
    <2> QED BY <1>1, <2>1 DEF LeaseInv, AnswersInFlight, OnlyHost
<1>5. HostClocks'
    BY <1>1 DEF LeaseInv, HostClocks, OnlyHost
<1>6. NoNewClaims
    <2>1. ASSUME NEW g \in Hosts \ {h}, NEW a \in Addresses, NEW t \in Times
          PROVE  /\ Claims(g, a, t, toHosts \cup reply)' => Claims(g, a, t, toHosts \cup reply)
                 /\ Claims(g, a, t, toHosts)' => Claims(g, a, t, toHosts)
        BY <1>1 DEF OnlyHost, Claims, Acked
    <2> QED BY <2>1 DEF NoNewClaims
<1> QED BY <1>1, <1>3, <1>4, <1>5, <1>6, ClaimsKept DEF LeaseInv, OnlyHost

\* No message carries a transaction its host has not begun.
LEMMA NoLaterXid ==
    ASSUME LeaseInv
    PROVE  /\ \A m \in toServer : m.xid <= xid[m.host]
           /\ \A m \in toHosts \cup reply : m.xid <= xid[m.host]
BY DEF LeaseInv, RequestsInFlight, AnswersInFlight

\* A host that begins anew has no claim, and nothing is on its way for the
\* transaction it begins.
LEMMA HostDiscoverKeeps ==
    ASSUME TypeOK, LeaseInv, NEW h \in Hosts, HostDiscover(h)
    PROVE  LeaseInv'
<1>1. /\ OnlyHost(h)
      /\ state'[h] = "selecting" /\ xid'[h] = xid[h] + 1 /\ xid[h] \in Nat
      /\ asked'[h] = asked[h]
    BY DEF TypeOK, HostDiscover, OnlyHost, HostSends
<1>2. PICK w : HostSends(h, "Discover", xid[h] + 1, 0, w, FALSE)
    BY DEF HostDiscover
<1>3. \A m \in toServer' \ toServer :
          m.host = h /\ m.type = "Discover" /\ m.xid = xid[h] + 1 /\ ~m.elsewhere
    BY <1>2 DEF HostSends
<1>4. \A m \in toServer : m.host = h => m.xid <= xid[h] /\ m.xid \in Nat
    BY SentTypes, NoLaterXid
<1>5. \A m \in toHosts \cup reply : m.host = h => m.xid <= xid[h] /\ m.xid \in Nat
    BY SentTypes, NoLaterXid
<1>6. \A m \in toServer' : m.host = h =>
          /\ m.xid <= xid'[h]
          /\ m.elsewhere => m.ciaddr = 0
          /\ ~(m.type = "Request" /\ m.xid = xid'[h])
    BY <1>1, <1>3, <1>4 DEF LeaseInv, RequestsInFlight
<1>7. \A m \in toHosts \cup reply : m.host = h => m.xid <= xid'[h] /\ m.xid # xid'[h]
    BY <1>1, <1>5
<1>8. asked'[h] <= now
    BY <1>1 DEF LeaseInv, HostClocks
<1>9. \A a, t, R : ~Claims(h, a, t, R)'
    BY <1>1 DEF Claims
<1> QED BY <1>1, <1>3, <1>6, <1>7, <1>8, <1>9, HostStepKeeps

\* There is no ACK yet for the Request a host sends for an offer.
LEMMA HostRequestKeeps ==
    ASSUME TypeOK, LeaseInv, NEW h \in Hosts, NEW o \in toHosts, HostRequest(h, o)
    PROVE  LeaseInv'
<1>1. /\ OnlyHost(h)
      /\ state[h] = "selecting" /\ state'[h] = "requesting" /\ xid' = xid /\ xid[h] \in Nat
      /\ asked'[h] = now /\ ip'[h] = o.ip /\ o.xid = xid[h]
      /\ now \in Nat
    BY DEF TypeOK, HostRequest, OnlyHost, HostSends
<1>2. \A m \in toServer' \ toServer :
          /\ m.host = h /\ m.type = "Request" /\ m.xid = xid[h]
          /\ ~m.elsewhere /\ m.ciaddr = 0 /\ m.wanted = o.ip
    BY DEF HostRequest, HostSends
<1>3. \A m \in toServer : m.host = h =>
          /\ m.xid <= xid[h]
          /\ m.elsewhere => m.ciaddr = 0
          /\ ~(m.type = "Request" /\ ~m.elsewhere /\ m.xid = xid[h])
    BY <1>1 DEF LeaseInv, RequestsInFlight
<1>4. \A m \in toHosts \cup reply : m.host = h =>
          m.xid <= xid[h] /\ ~(m.type = "ACK" /\ m.xid = xid[h])
    BY <1>1 DEF LeaseInv, AnswersInFlight
<1>5. \A a, t : ~Claims(h, a, t, toHosts \cup reply)' /\ ~Claims(h, a, t, toHosts)'
    BY <1>1, <1>4 DEF Claims, Acked, OnlyHost, serverVars
<1> QED BY <1>1, <1>2, <1>3, <1>4, <1>5, HostStepKeeps

\* The Request for another server names no lease to renew, and its host has
\* no claim.
LEMMA HostRequestElsewhereKeeps ==
    ASSUME TypeOK, LeaseInv, NEW h \in Hosts, HostRequestElsewhere(h)
    PROVE  LeaseInv'
<1>1. /\ OnlyHost(h)
      /\ state'[h] = "init" /\ xid' = xid /\ xid[h] \in Nat /\ asked' = asked
    BY DEF TypeOK, HostRequestElsewhere, OnlyHost, HostSends
<1>2. PICK a : HostSends(h, "Request", xid[h], 0, a, TRUE)
    BY DEF HostRequestElsewhere
<1>3. \A m \in toServer' \ toServer :
          m.host = h /\ m.xid = xid[h] /\ m.elsewhere /\ m.ciaddr = 0
    BY <1>2 DEF HostSends
<1>4. \A m \in toServer' : m.host = h =>
          m.xid <= xid'[h] /\ (m.elsewhere => m.ciaddr = 0)
    BY <1>1, <1>3 DEF LeaseInv, RequestsInFlight
<1>5. asked'[h] <= now
    BY <1>1 DEF LeaseInv, HostClocks
<1>6. \A m \in toHosts \cup reply : m.host = h => m.xid <= xid'[h]
    BY <1>1, NoLaterXid
<1>7. \A b, t, R : ~Claims(h, b, t, R)'
    BY <1>1 DEF Claims
<1> QED BY <1>1, <1>3, <1>4, <1>5, <1>6, <1>7, HostStepKeeps

\* A host that renews keeps the claim it has; the answer is still to come.
LEMMA HostRenewKeeps ==
    ASSUME TypeOK, LeaseInv, NEW h \in Hosts, HostRenew(h)
    PROVE  LeaseInv'
<1>1. /\ OnlyHost(h)
      /\ state[h] = "bound" /\ state'[h] = "renewing"
      /\ xid'[h] = xid[h] + 1 /\ xid[h] \in Nat
      /\ asked'[h] = now /\ ip' = ip /\ expiry' = expiry
      /\ now \in Nat
    BY DEF TypeOK, HostRenew, OnlyHost, HostSends
<1>2. \A m \in toServer' \ toServer :
          /\ m.host = h /\ m.type = "Request" /\ m.xid = xid[h] + 1
          /\ ~m.elsewhere /\ m.ciaddr = ip[h] /\ m.wanted = 0
    BY DEF HostRenew, HostSends
<1>3. \A m \in toServer : m.host = h => m.xid <= xid[h] /\ m.xid \in Nat
    BY SentTypes, NoLaterXid
<1>4. \A m \in toHosts \cup reply : m.host = h =>
          m.xid <= xid'[h] /\ m.xid # xid'[h]
    BY <1>1, SentTypes, NoLaterXid
<1>5. \A m \in toServer' : m.host = h =>
          /\ m.xid <= xid'[h]
          /\ m.elsewhere => m.ciaddr = 0
          /\ m.type = "Request" /\ m.xid = xid'[h] => m.ciaddr = ip'[h] /\ m.wanted = 0
    BY <1>1, <1>2, <1>3 DEF LeaseInv, RequestsInFlight
<1>6. expiry'[h] \in 1..(now + LeaseTime)
    BY <1>1 DEF LeaseInv, HostClocks
<1>7. ~Acked(h, toHosts \cup reply)' /\ ~Acked(h, toHosts)'
    BY <1>1, <1>4 DEF Acked, OnlyHost, serverVars
<1>8. \A a, t :
          /\ Claims(h, a, t, toHosts \cup reply)' => Claims(h, a, t, toHosts \cup reply)
          /\ Claims(h, a, t, toHosts)' => Claims(h, a, t, toHosts)
    BY <1>1, <1>7 DEF Claims, OnlyHost
<1>9. \A m \in toServer' \ toServer : m.host = h
    BY <1>2
<1>10. asked'[h] <= now /\ state'[h] # "selecting" /\ state'[h] # "requesting"
    BY <1>1
<1>11. OnlyHost(h)
    BY <1>1
<1> QED BY <1>4, <1>5, <1>6, <1>8, <1>9, <1>10, <1>11, HostStepKeeps

\* The ACK a host takes is about the address it has in mind, so the claim
\* it makes was one from the moment the ACK was written.
LEMMA HostAckKeeps ==
    ASSUME TypeOK, LeaseInv, NEW h \in Hosts, NEW k \in toHosts, HostAck(h, k)
    PROVE  LeaseInv'
<1>1. /\ OnlyHost(h)
      /\ state[h] = "requesting" \/ (state[h] = "renewing" /\ now <= expiry[h])
      /\ state'[h] = "bound" /\ xid' = xid /\ xid[h] \in Nat
      /\ asked' = asked /\ ip'[h] = k.ip /\ expiry'[h] = asked[h] + LeaseTime
      /\ now \in Nat /\ asked[h] \in Nat /\ toServer' = toServer
    BY DEF TypeOK, HostAck, OnlyHost, HostSends
<1>2. k.ip = ip[h] /\ Acked(h, toHosts) /\ Acked(h, toHosts \cup reply)
    BY <1>1 DEF LeaseInv, AnswersInFlight, HostAck, Acked
<1>3. asked[h] <= now
    BY DEF LeaseInv, HostClocks
<1>4. expiry'[h] \in 1..(now + LeaseTime)
    BY <1>1, <1>3, TimeAssumption
<1>5. \A m \in toServer' : m.host = h => m.xid <= xid'[h] /\ (m.elsewhere => m.ciaddr = 0)
    BY <1>1 DEF LeaseInv, RequestsInFlight
<1>6. \A m \in toHosts \cup reply : m.host = h => m.xid <= xid'[h]
    BY <1>1, NoLaterXid
<1>7. \A a, t :
          /\ Claims(h, a, t, toHosts \cup reply)' => Claims(h, a, t, toHosts \cup reply)
          /\ Claims(h, a, t, toHosts)' => Claims(h, a, t, toHosts)
    BY <1>1, <1>2 DEF Claims, OnlyHost
<1> QED BY <1>1, <1>3, <1>4, <1>5, <1>6, <1>7, HostStepKeeps

\* A host that gives up, is refused or releases its lease has no claim.
LEMMA HostLeavesKeeps ==
    ASSUME TypeOK, LeaseInv, NEW h \in Hosts,
           \/ \E k \in toHosts : HostNak(h, k)
           \/ HostRestart(h)
           \/ HostRelease(h)
    PROVE  LeaseInv'
<1>1. /\ OnlyHost(h)
      /\ state'[h] = "init" /\ xid' = xid /\ xid[h] \in Nat /\ asked' = asked
    BY DEF TypeOK, HostNak, HostRestart, HostRelease, OnlyHost, HostSends
<1>2. \A m \in toServer' \ toServer : m.host = h /\ m.xid = xid[h] /\ ~m.elsewhere
    BY DEF HostNak, HostRestart, HostRelease, HostSends
<1>3. \A m \in toServer' : m.host = h => m.xid <= xid'[h] /\ (m.elsewhere => m.ciaddr = 0)
    BY <1>1, <1>2 DEF LeaseInv, RequestsInFlight
<1>4. asked'[h] <= now
    BY <1>1 DEF LeaseInv, HostClocks
<1>5. \A m \in toHosts \cup reply : m.host = h => m.xid <= xid'[h]
    BY <1>1, NoLaterXid
<1>6. \A a, t, R : ~Claims(h, a, t, R)'
    BY <1>1 DEF Claims
<1> QED BY <1>1, <1>2, <1>3, <1>4, <1>5, <1>6, HostStepKeeps

-----------------------------------------------------------------------------
(***************************************************************************)
(* The steps of the server.  They leave the hosts alone; what has to be    *)
(* shown is that a lease that goes, or is given, was nobody's, and that    *)
(* an ACK makes a claim for its host only.                                 *)
(***************************************************************************)
HostsStay == UNCHANGED <<now, hostVars, toServer>>

\* A step that leaves the hosts alone keeps what speaks of them only.
LEMMA ServerFrame ==
    ASSUME LeaseInv, HostsStay
    PROVE  /\ RequestsInFlight'
           /\ HostClocks'
           /\ \A a : Released(a)' <=> Released(a)
<1>1. UNCHANGED <<now, state, xid, ip, asked, expiry, toServer>>
    BY DEF HostsStay, hostVars
<1> QED BY <1>1 DEF LeaseInv, RequestsInFlight, HostClocks, Released

\* The answers so far still agree with the hosts; only new ones are to show.
LEMMA AnswersFrame ==
    ASSUME LeaseInv, HostsStay,
           \A m \in (toHosts' \cup reply') \ (toHosts \cup reply) :
              /\ m.xid <= xid[m.host]
              /\ m.type = "ACK" /\ m.xid = xid[m.host] =>
                    /\ state[m.host] # "selecting"
                    /\ state[m.host] \in {"requesting", "renewing"} => m.ip = ip[m.host]
    PROVE  AnswersInFlight'
<1>1. UNCHANGED <<state, xid, ip>>
    BY DEF HostsStay, hostVars
<1> QED BY <1>1 DEF LeaseInv, AnswersInFlight

\* Without a new ACK there is no new claim.
LEMMA NoAckNoClaim ==
    ASSUME HostsStay,
           \A m \in toHosts' \cup reply' : m.type = "ACK" => m \in toHosts \cup reply
    PROVE  /\ \A h, a, t : Claims(h, a, t, toHosts \cup reply)' =>
                 Claims(h, a, t, toHosts \cup reply)
           /\ ClaimsApart => ClaimsApart'
<1>1. UNCHANGED <<now, state, xid, ip, asked, expiry, toServer>>
    BY DEF HostsStay, hostVars
<1>2. \A h, a, t : Claims(h, a, t, toHosts \cup reply)' => Claims(h, a, t, toHosts \cup reply)
    BY <1>1 DEF Claims, Acked
<1>3. \A a : Claimants(a, toHosts \cup reply)' \subseteq Claimants(a, toHosts \cup reply)
    BY <1>2 DEF Claimants
<1>4. ClaimsApart => ClaimsApart'
    BY <1>1, <1>3 DEF ClaimsApart, Released
<1> QED BY <1>2, <1>4

\* While the answer waits, the file still covers what the hosts have heard.
LEMMA FileCovers ==
    ASSUME HostsStay, RecordsCover, serverPc = "loop", UNCHANGED <<file, toHosts>>
    PROVE  Covers(file, toHosts)'
<1>1. Covers(file, toHosts)
    <2>1. toHosts \cup reply = toHosts
        BY DEF RecordsCover
    <2> QED BY <2>1 DEF RecordsCover
<1>2. UNCHANGED <<now, state, xid, ip, asked, expiry, toServer>>
    BY DEF HostsStay, hostVars
<1> QED BY <1>1, <1>2 DEF Covers, Claims, Acked, Released

\* A claim lasts at least until now, and ends at 1 or later.
LEMMA ClaimTimes ==
    ASSUME TypeOK, LeaseInv, NEW h \in Hosts, NEW a, NEW t \in Times, NEW R,
           Claims(h, a, t, R)
    PROVE  now <= t /\ t \in 1..(now + LeaseTime)
BY TimeAssumption DEF TypeOK, LeaseInv, HostClocks, Claims, Times

\* An offer promises nothing, and the lease forgotten to make one is over
\* for every host that had a claim on it.
LEMMA HandleDiscoverKeeps ==
    ASSUME TypeOK, LeaseInv, NEW m \in toServer, HandleDiscover(m)
    PROVE  LeaseInv'
<1>1. HostsStay /\ serverPc = "loop" /\ UNCHANGED file
    BY DEF HandleDiscover, HostsStay, fileVars
<1>2. \A a : LET o == Reply("Offer", m, a) IN o.type = "Offer" /\ o.xid <= xid[o.host]
    BY NoLaterXid DEF Reply
<1>3. \A n \in (toHosts' \cup reply') \ (toHosts \cup reply) :
          n.type = "Offer" /\ n.xid <= xid[n.host]
    BY <1>2 DEF HandleDiscover, SaveThenReply
<1>4. \A n \in toHosts' \cup reply' : n.type = "ACK" => n \in toHosts \cup reply
    BY <1>3
<1>5. AnswersInFlight'
    BY <1>1, <1>3, AnswersFrame
<1>6. ASSUME SafeCrashes PROVE RecordsCover' /\ ClaimsApart'
    <2>1. RecordsCover /\ ClaimsApart
        BY <1>6 DEF LeaseInv
    <2>2. ASSUME NEW h \in Hosts, NEW a \in Addresses, NEW t \in Times,
                 ~Released(a)', Claims(h, a, t, toHosts \cup reply)'
          PROVE  leases'[a] >= t
        <3>1. ~Released(a) /\ Claims(h, a, t, toHosts \cup reply)
            BY <1>1, <1>4, <2>2, NoAckNoClaim, ServerFrame
        <3>2. leases[a] >= t /\ now <= t
            BY <1>1, <2>1, <3>1, ClaimTimes DEF RecordsCover, Covers
        <3>3. leases[a] \in Nat /\ t \in Nat /\ now \in Nat
            BY DEF TypeOK, Leases, Times
        <3>4. CASE leases' = leases
            BY <3>2, <3>4
        <3>5. ASSUME NEW e \in Addresses, Expired(e), leases' = [leases EXCEPT ![e] = 0]
              PROVE  leases'[a] >= t
            <4>1. now > leases[e] /\ leases[e] \in Nat
                BY <3>5 DEF Expired, TypeOK, Leases, Times
            <4>2. a # e
                BY <4>1, <3>2, <3>3
            <4> QED BY <4>2, <3>2, <3>5 DEF TypeOK, Leases
        <3> QED BY <3>4, <3>5 DEF HandleDiscover
    <2>3. Covers(leases, toHosts \cup reply)'
        BY <2>2 DEF Covers
    <2>4. serverPc' \in {"loop", "remove"}
        BY DEF HandleDiscover, SaveThenReply
    <2>5. serverPc' = "loop" => reply' = {} /\ leases' = file'
        BY <1>1, <2>1 DEF HandleDiscover, SaveThenReply, RecordsCover
    <2>6. serverPc' = "remove" => Covers(file, toHosts)'
        BY <1>1, <2>1, FileCovers DEF HandleDiscover, SaveThenReply
    <2>7. RecordsCover'
        BY <2>3, <2>4, <2>5, <2>6 DEF RecordsCover
    <2> QED BY <1>1, <1>4, <2>1, <2>7, NoAckNoClaim
<1> QED BY <1>1, <1>5, <1>6, ServerFrame DEF LeaseInv

\* An address without a lease is nobody's, so the host a new lease is given
\* to is the only one with a claim on it; a refusal makes no claim.
LEMMA HandleRequestKeeps ==
    ASSUME TypeOK, LeaseInv, NEW m \in toServer, HandleRequest(m)
    PROVE  LeaseInv'
<1>1. HostsStay /\ serverPc = "loop" /\ UNCHANGED file /\ m.type = "Request"
    BY DEF HandleRequest, HostsStay, fileVars
<1>2. CASE ~ValidRequest(m)
    <2> DEFINE n == Reply("NAK", m, 0)
    <2>1. n.type = "NAK" /\ n.xid <= xid[n.host]
        BY NoLaterXid DEF Reply
    <2>2. toHosts' = toHosts \cup {n} /\ UNCHANGED <<serverPc, leases, reply>>
        BY <1>2 DEF HandleRequest
    <2>3. AnswersInFlight'
        BY <1>1, <2>1, <2>2, AnswersFrame
    <2>4. \A k \in toHosts' \cup reply' : k.type = "ACK" => k \in toHosts \cup reply
        BY <2>1, <2>2
    <2>5. ASSUME SafeCrashes PROVE RecordsCover' /\ ClaimsApart'
        <3>1. RecordsCover /\ ClaimsApart
            BY <2>5 DEF LeaseInv
        <3>2. Covers(leases, toHosts \cup reply)'
            BY <1>1, <2>2, <2>4, <3>1, NoAckNoClaim, ServerFrame DEF RecordsCover, Covers
        <3>3. RecordsCover'
            BY <1>1, <2>2, <3>1, <3>2 DEF RecordsCover
        <3> QED BY <1>1, <2>4, <3>1, <3>3, NoAckNoClaim
    <2> QED BY <1>1, <2>3, <2>5, ServerFrame DEF LeaseInv
<1>3. CASE ValidRequest(m)
    <2> DEFINE w == m.wanted
               k == Reply("ACK", m, w)
    <2>1. /\ ~m.elsewhere /\ w \in Addresses /\ leases[w] = 0
          /\ leases' = [leases EXCEPT ![w] = now + LeaseTime]
          /\ serverPc' = "remove" /\ reply' = {k} /\ toHosts' = toHosts
        BY <1>3 DEF HandleRequest, SaveThenReply, ValidRequest, Available, TypeOK, HostMessage
    <2>2. k.type = "ACK" /\ k.host = m.host /\ k.xid = m.xid /\ k.ip = w
        BY DEF Reply
    <2>3. m.xid <= xid[m.host] /\ m.host \in Hosts
        BY NoLaterXid, SentTypes
    <2>4. m.xid = xid[m.host] =>
              /\ state[m.host] \notin {"selecting", "renewing"}
              /\ state[m.host] = "requesting" => ip[m.host] = w
        BY <1>1, <2>1, AddressesAssumption DEF LeaseInv, RequestsInFlight
    <2>5. AnswersInFlight'
        BY <1>1, <2>1, <2>2, <2>3, <2>4, AnswersFrame
    <2>6. ASSUME SafeCrashes PROVE RecordsCover' /\ ClaimsApart'
        <3>1. RecordsCover /\ ClaimsApart /\ reply = {}
            BY <1>1, <2>6 DEF LeaseInv, RecordsCover
        <3>2. UNCHANGED <<now, state, xid, ip, asked, expiry>>
            BY <1>1 DEF HostsStay, hostVars
        <3>3. \A h, a, t : Claims(h, a, t, toHosts \cup reply)' =>
                  \/ Claims(h, a, t, toHosts \cup reply)
                  \/ h = m.host /\ a = w /\ t = asked[h] + LeaseTime
            BY <2>1, <2>2, <2>4, <3>1, <3>2 DEF Claims, Acked
        <3>4. \A h \in Hosts, t \in Times :
                  ~Released(w) => ~Claims(h, w, t, toHosts \cup reply)
            <4>1. ASSUME NEW h \in Hosts, NEW t \in Times, ~Released(w),
                         Claims(h, w, t, toHosts \cup reply)
                  PROVE  FALSE
                <5>1. leases[w] >= t
                    BY <1>1, <2>1, <3>1, <4>1 DEF RecordsCover, Covers
                <5>2. t \in 1..(now + LeaseTime)
                    BY <4>1, ClaimTimes
                <5> QED BY <2>1, <5>1, <5>2
            <4> QED BY <4>1
        <3>5. Covers(leases, toHosts \cup reply)'
            <4>1. ASSUME NEW h \in Hosts, NEW a \in Addresses, NEW t \in Times,
                         ~Released(a)', Claims(h, a, t, toHosts \cup reply)'
                  PROVE  leases'[a] >= t
                <5>1. CASE Claims(h, a, t, toHosts \cup reply)
                    <6>1. ~Released(a) /\ leases[a] >= t
                        BY <1>1, <3>1, <4>1, <5>1, ServerFrame DEF RecordsCover, Covers
                    <6>2. a # w
                        BY <6>1, <5>1, <3>4
                    <6> QED BY <2>1, <6>1, <6>2 DEF TypeOK, Leases
                <5>2. CASE h = m.host /\ a = w /\ t = asked[h] + LeaseTime
                    <6>1. asked[h] <= now /\ asked[h] \in Nat /\ now \in Nat
                        BY DEF LeaseInv, HostClocks, TypeOK
                    <6>2. leases'[a] = now + LeaseTime
                        BY <2>1, <5>2 DEF TypeOK, Leases
                    <6> QED BY <5>2, <6>1, <6>2, TimeAssumption
                <5> QED BY <3>3, <4>1, <5>1, <5>2
            <4> QED BY <4>1 DEF Covers
        <3>6. RecordsCover'
            BY <1>1, <2>1, <3>1, <3>5, FileCovers DEF RecordsCover
        <3>7. ClaimsApart'
            <4>1. ASSUME NEW a \in Addresses, ~Released(a)',
                         NEW g \in Claimants(a, toHosts \cup reply)',
                         NEW h \in Claimants(a, toHosts \cup reply)'
                  PROVE  g = h
                <5>1. ~Released(a)
                    BY <1>1, <4>1, ServerFrame
                <5>2. CASE a = w
                    BY <2>1, <3>3, <3>4, <4>1, <5>1, <5>2 DEF Claimants
                <5>3. CASE a # w
                    BY <3>1, <3>3, <4>1, <5>1, <5>3 DEF Claimants, ClaimsApart
                <5> QED BY <5>2, <5>3
            <4> QED BY <4>1 DEF ClaimsApart
        <3> QED BY <3>6, <3>7
    <2> QED BY <1>1, <2>5, <2>6, ServerFrame DEF LeaseInv
<1> QED BY <1>2, <1>3

\* A renewal is asked for by a host that has the address in mind, if it asks
\* in its current transaction, so the ACK makes no host a new claimant.
LEMMA HandleRenewalKeeps ==
    ASSUME TypeOK, LeaseInv, NEW m \in toServer, HandleRenewal(m)
    PROVE  LeaseInv'
<1> DEFINE c == m.ciaddr
           k == Reply("ACK", m, c)
<1>1. /\ HostsStay /\ serverPc = "loop" /\ UNCHANGED file
      /\ m.type = "Request" /\ c \in Addresses
      /\ leases' = [leases EXCEPT ![c] = now + LeaseTime]
      /\ serverPc' = "remove" /\ reply' = {k} /\ toHosts' = toHosts
    BY DEF HandleRenewal, SaveThenReply, HostsStay, fileVars, Leased
<1>2. k.type = "ACK" /\ k.host = m.host /\ k.xid = m.xid /\ k.ip = c
    BY DEF Reply
<1>3. m.xid <= xid[m.host] /\ m.host \in Hosts
    BY NoLaterXid, SentTypes
<1>4. ~m.elsewhere /\ c # 0
    BY <1>1, AddressesAssumption DEF LeaseInv, RequestsInFlight, TypeOK, HostMessage
<1>5. m.xid = xid[m.host] =>
          /\ state[m.host] \notin {"selecting", "requesting"}
          /\ state[m.host] = "renewing" => ip[m.host] = c
    BY <1>1, <1>4 DEF LeaseInv, RequestsInFlight
<1>6. AnswersInFlight'
    BY <1>1, <1>2, <1>3, <1>5, AnswersFrame
<1>7. ASSUME SafeCrashes PROVE RecordsCover' /\ ClaimsApart'
    <2>1. RecordsCover /\ ClaimsApart /\ reply = {}
        BY <1>1, <1>7 DEF LeaseInv, RecordsCover
    <2>2. UNCHANGED <<now, state, xid, ip, asked, expiry>>
        BY <1>1 DEF HostsStay, hostVars
    <2>3. \A h \in Hosts : \A a, t : Claims(h, a, t, toHosts \cup reply)' =>
              \/ Claims(h, a, t, toHosts \cup reply)
              \/ /\ a = c /\ t = asked[h] + LeaseTime
                 /\ Claims(h, a, expiry[h], toHosts \cup reply)
        <3>1. ASSUME NEW h \in Hosts, NEW a, NEW t, Claims(h, a, t, toHosts \cup reply)',
                     ~Claims(h, a, t, toHosts \cup reply)
              PROVE  /\ a = c /\ t = asked[h] + LeaseTime
                     /\ Claims(h, a, expiry[h], toHosts \cup reply)
            <4>1. /\ ip[h] = a /\ t = asked[h] + LeaseTime /\ ~Acked(h, toHosts \cup reply)
                  /\ state[h] = "requesting" \/ (state[h] = "renewing" /\ now <= expiry[h])
                BY <2>2, <3>1 DEF Claims
            <4>2. h = m.host /\ m.xid = xid[h]
                BY <1>1, <1>2, <2>1, <2>2, <3>1, <4>1 DEF Claims, Acked
            <4> QED BY <1>5, <4>1, <4>2 DEF Claims
        <3> QED BY <3>1
    <2>4. Covers(leases, toHosts \cup reply)'
        <3>1. ASSUME NEW h \in Hosts, NEW a \in Addresses, NEW t \in Times,
                     ~Released(a)', Claims(h, a, t, toHosts \cup reply)'
              PROVE  leases'[a] >= t
            <4>1. asked[h] <= now /\ asked[h] \in Nat /\ now \in Nat
                BY DEF LeaseInv, HostClocks, TypeOK
            <4>2. leases'[c] = now + LeaseTime
                BY <1>1 DEF TypeOK, Leases
            <4>3. CASE Claims(h, a, t, toHosts \cup reply)
                <5>1. ~Released(a) /\ leases[a] >= t
                    BY <1>1, <2>1, <3>1, <4>3, ServerFrame DEF RecordsCover, Covers
                <5>2. t <= now + LeaseTime
                    BY <4>3, ClaimTimes
                <5>3. CASE a = c
                    BY <4>1, <4>2, <5>2, <5>3, TimeAssumption DEF Times
                <5>4. CASE a # c
                    BY <1>1, <5>1, <5>4 DEF TypeOK, Leases
                <5> QED BY <5>3, <5>4
            <4>4. CASE a = c /\ t = asked[h] + LeaseTime
                BY <4>1, <4>2, <4>4, TimeAssumption
            <4> QED BY <2>3, <3>1, <4>3, <4>4
        <3> QED BY <3>1 DEF Covers
    <2>5. RecordsCover'
        BY <1>1, <2>1, <2>4, FileCovers DEF RecordsCover
    <2>6. \A a : Claimants(a, toHosts \cup reply)' \subseteq Claimants(a, toHosts \cup reply)
        <3>1. \A h \in Hosts : expiry[h] \in Times
            BY DEF TypeOK
        <3> QED BY <2>3, <3>1 DEF Claimants
    <2>7. ClaimsApart'
        BY <1>1, <2>1, <2>6, ServerFrame DEF ClaimsApart
    <2> QED BY <2>5, <2>7
<1> QED BY <1>1, <1>6, <1>7, ServerFrame DEF LeaseInv

\* The lease a Release ends is on an address no claim counts on any more.
LEMMA HandleReleaseKeeps ==
    ASSUME TypeOK, LeaseInv, NEW m \in toServer, HandleRelease(m)
    PROVE  LeaseInv'
<1>1. /\ HostsStay /\ serverPc = "loop" /\ UNCHANGED file
      /\ Released(m.ciaddr)
      /\ leases' = [leases EXCEPT ![m.ciaddr] = 0]
      /\ serverPc' = "remove" /\ reply' = {} /\ toHosts' = toHosts
    BY DEF HandleRelease, SaveThenReply, HostsStay, fileVars, Released
<1>2. AnswersInFlight'
    BY <1>1, AnswersFrame
<1>3. ASSUME SafeCrashes PROVE RecordsCover' /\ ClaimsApart'
    <2>1. RecordsCover /\ ClaimsApart
        BY <1>3 DEF LeaseInv
    <2>2. Covers(leases, toHosts \cup reply)'
        <3>1. ASSUME NEW h \in Hosts, NEW a \in Addresses, NEW t \in Times,
                     ~Released(a)', Claims(h, a, t, toHosts \cup reply)'
              PROVE  leases'[a] >= t
            <4>1. ~Released(a) /\ Claims(h, a, t, toHosts \cup reply)
                BY <1>1, <3>1, NoAckNoClaim, ServerFrame
            <4>2. leases[a] >= t /\ a # m.ciaddr
                BY <1>1, <2>1, <4>1 DEF RecordsCover, Covers
            <4> QED BY <1>1, <4>2 DEF TypeOK, Leases
        <3> QED BY <3>1 DEF Covers
    <2>3. RecordsCover'
        BY <1>1, <2>1, <2>2, FileCovers DEF RecordsCover
    <2> QED BY <1>1, <2>1, <2>3, NoAckNoClaim
<1> QED BY <1>1, <1>2, <1>3, ServerFrame DEF LeaseInv

\* save_database moves the answer to the network and the leases to the file.
LEMMA SaveKeeps ==
    ASSUME TypeOK, LeaseInv, SaveRemove \/ SaveOpen \/ SaveWrite
    PROVE  LeaseInv'
<1>1. /\ HostsStay /\ UNCHANGED leases
      /\ toHosts' \cup reply' = toHosts \cup reply
      /\ serverPc \notin {"loop", "down"} /\ serverPc' \in {"open", "write", "loop"}
      /\ serverPc' = "loop" => reply' = {} /\ leases' = file'
    BY DEF SaveRemove, SaveOpen, SaveWrite, HostsStay
<1>2. AnswersInFlight'
    BY <1>1, AnswersFrame
<1>3. ASSUME SafeCrashes PROVE RecordsCover' /\ ClaimsApart'
    <2>1. RecordsCover /\ ClaimsApart
        BY <1>3 DEF LeaseInv
    <2>2. Covers(leases, toHosts \cup reply)'
        BY <1>1, <2>1, NoAckNoClaim, ServerFrame DEF RecordsCover, Covers
    <2>3. RecordsCover'
        BY <1>1, <2>1, <2>2 DEF RecordsCover
    <2> QED BY <1>1, <2>1, <2>3, NoAckNoClaim
<1> QED BY <1>1, <1>2, <1>3, ServerFrame DEF LeaseInv

\* Where the process may die, the file covers all the hosts have heard; the
\* answer that dies with it was heard by none.
LEMMA CrashKeeps ==
    ASSUME TypeOK, LeaseInv, Crash
    PROVE  LeaseInv'
<1>1. /\ HostsStay /\ UNCHANGED <<file, toHosts>> /\ reply' = {}
      /\ serverPc \in CrashPoints /\ serverPc' = "down"
    BY DEF Crash, HostsStay, fileVars
<1>2. AnswersInFlight'
    BY <1>1, AnswersFrame
<1>3. ASSUME SafeCrashes PROVE RecordsCover' /\ ClaimsApart'
    <2>1. RecordsCover /\ ClaimsApart /\ serverPc \in {"loop", "remove"}
        BY <1>1, <1>3 DEF LeaseInv, SafeCrashes
    <2>2. Covers(file, toHosts)
        <3>1. CASE serverPc = "loop"
            <4>1. toHosts \cup reply = toHosts
                BY <2>1, <3>1 DEF RecordsCover
            <4> QED BY <2>1, <3>1, <4>1 DEF RecordsCover
        <3>2. CASE serverPc = "remove"
            BY <2>1, <3>2 DEF RecordsCover
        <3> QED BY <2>1, <3>1, <3>2
    <2>3. Covers(file, toHosts)'
        <3>1. UNCHANGED <<now, state, xid, ip, asked, expiry, toServer>>
            BY <1>1 DEF HostsStay, hostVars
        <3> QED BY <1>1, <2>2, <3>1 DEF Covers, Claims, Acked, Released
    <2>4. RecordsCover'
        BY <1>1, <2>3 DEF RecordsCover
    <2> QED BY <1>1, <2>1, <2>4, NoAckNoClaim
<1> QED BY <1>1, <1>2, <1>3, ServerFrame DEF LeaseInv

\* The next process goes on from the file.
LEMMA StartKeeps ==
    ASSUME TypeOK, LeaseInv, Start
    PROVE  LeaseInv'
<1>1. /\ HostsStay /\ UNCHANGED <<file, toHosts, reply>>
      /\ serverPc = "down" /\ serverPc' \in {"loop", "open"} /\ leases' = file
    BY DEF Start, HostsStay, fileVars
<1>2. AnswersInFlight'
    BY <1>1, AnswersFrame
<1>3. ASSUME SafeCrashes PROVE RecordsCover' /\ ClaimsApart'
    <2>1. RecordsCover /\ ClaimsApart /\ reply = {} /\ Covers(file, toHosts)
        BY <1>1, <1>3 DEF LeaseInv, RecordsCover
    <2>2. Covers(leases, toHosts \cup reply)'
        <3>1. UNCHANGED <<now, state, xid, ip, asked, expiry, toServer>>
            BY <1>1 DEF HostsStay, hostVars
        <3> QED BY <1>1, <2>1, <3>1 DEF Covers, Claims, Acked, Released
    <2>3. RecordsCover'
        BY <1>1, <2>1, <2>2 DEF RecordsCover
    <2> QED BY <1>1, <2>1, <2>3, NoAckNoClaim
<1> QED BY <1>1, <1>2, <1>3, ServerFrame DEF LeaseInv

-----------------------------------------------------------------------------
(***************************************************************************)
(* The theorems.                                                           *)
(***************************************************************************)

\* At the start nobody has a claim and nothing is on its way.
LEMMA InitLeaseInv == Init => LeaseInv
<1> SUFFICES ASSUME Init PROVE LeaseInv
    OBVIOUS
<1>1. RequestsInFlight /\ AnswersInFlight
    BY DEF Init, RequestsInFlight, AnswersInFlight
<1>2. \A h \in Hosts : state[h] = "init" /\ asked[h] = 0 /\ now = 0
    BY DEF Init
<1>3. HostClocks
    <2>1. ASSUME NEW h \in Hosts PROVE asked[h] <= now
        <3>1. asked[h] = 0 /\ now = 0
            BY <1>2
        <3> QED BY <3>1
    <2> QED BY <1>2, <2>1 DEF HostClocks
<1>4. \A h \in Hosts : \A a, t, R : ~Claims(h, a, t, R)
    BY <1>2 DEF Claims
<1>5. RecordsCover /\ ClaimsApart
    BY <1>4 DEF Init, RecordsCover, Covers, ClaimsApart, Claimants
<1> QED BY <1>1, <1>3, <1>5 DEF LeaseInv

\* Every step keeps the invariant.
LEMMA NextLeaseInv == TypeOK /\ LeaseInv /\ [Next]_vars => LeaseInv'
<1> SUFFICES ASSUME TypeOK, LeaseInv, [Next]_vars PROVE LeaseInv'
    OBVIOUS
<1>1. ASSUME NEW h \in Hosts, HostStep(h) PROVE LeaseInv'
    BY <1>1, HostDiscoverKeeps, HostRequestKeeps, HostRequestElsewhereKeeps,
       HostRenewKeeps, HostAckKeeps, HostLeavesKeeps DEF HostStep
<1>2. CASE ServerStep
    BY <1>2, HandleDiscoverKeeps, HandleRequestKeeps, HandleRenewalKeeps,
       HandleReleaseKeeps, SaveKeeps, CrashKeeps, StartKeeps DEF ServerStep
<1>3. CASE UNCHANGED vars
    <2>1. /\ UNCHANGED <<now, state, xid, ip, asked, expiry, serverPc, leases, reply, file>>
          /\ UNCHANGED <<toServer, toHosts>>
        BY <1>3 DEF vars, hostVars, serverVars, fileVars
    <2>2. RequestsInFlight' /\ AnswersInFlight' /\ HostClocks'
        BY <2>1 DEF LeaseInv, RequestsInFlight, AnswersInFlight, HostClocks
    <2>3. SafeCrashes => RecordsCover' /\ ClaimsApart'
        BY <2>1 DEF LeaseInv, RecordsCover, Covers, ClaimsApart, Claimants, Claims, Acked, Released
    <2> QED BY <2>2, <2>3 DEF LeaseInv
<1> QED BY <1>1, <1>2, <1>3, TickKeeps DEF Next

\* In every behaviour, what is on its way agrees with the hosts, every claim
\* is on record where a crash leaves it, and claims never meet.
THEOREM LeasesCoverClaims == Spec => []LeaseInv
<1>1. TypeOK /\ LeaseInv /\ [Next]_vars => TypeOK' /\ LeaseInv'
    BY NextType, NextLeaseInv
<1> QED BY <1>1, InitType, InitLeaseInv, PTL DEF Spec

\* A host that uses an address has a claim on it, whatever is on its way.
LEMMA HoldsIsClaim ==
    ASSUME NEW h \in Hosts, NEW a, NEW R, Holds(h, a)
    PROVE  Claims(h, a, expiry[h], R)
BY DEF Holds, Claims

\* No two hosts ever use the same address at the same time, for any number
\* of hosts, as long as the server does not die while dhcp.json is rewritten
\* and the address has not been released.
THEOREM AddressesUnique == Spec => []UniqueAddress
<1>1. TypeOK /\ LeaseInv => UniqueAddress
    <2> SUFFICES ASSUME TypeOK, LeaseInv, SafeCrashes, NEW g \in Hosts, NEW h \in Hosts,
                        NEW a \in Addresses, Holds(g, a), Holds(h, a), ~Released(a)
                 PROVE  g = h
        BY DEF UniqueAddress
    <2>1. expiry[g] \in Times /\ expiry[h] \in Times
        BY DEF TypeOK
    <2>2. g \in Claimants(a, toHosts \cup reply) /\ h \in Claimants(a, toHosts \cup reply)
        BY <2>1, HoldsIsClaim DEF Claimants
    <2> QED BY <2>2 DEF LeaseInv, ClaimsApart
<1> QED BY <1>1, TypeCorrect, LeasesCoverClaims, PTL

\* Every address in use has a lease on record that ends no earlier than its
\* use, in memory or, when the process is down, in the file.
THEOREM HeldAddressesLeased == Spec => []HeldIsLeased
<1>1. TypeOK /\ LeaseInv => HeldIsLeased
    <2> SUFFICES ASSUME TypeOK, LeaseInv, SafeCrashes, NEW h \in Hosts,
                        NEW a \in Addresses, Holds(h, a), ~Released(a)
                 PROVE  Record[a] >= expiry[h]
        BY DEF HeldIsLeased
    <2>1. expiry[h] \in Times
        BY DEF TypeOK
    <2>2. /\ Claims(h, a, expiry[h], toHosts \cup reply)
          /\ Claims(h, a, expiry[h], toHosts)
        BY HoldsIsClaim
    <2> QED BY <2>1, <2>2 DEF LeaseInv, RecordsCover, Covers, Record
<1> QED BY <1>1, TypeCorrect, LeasesCoverClaims, PTL

\* A process that is not running has no leases in memory.
NoneWhenDown == serverPc = "down" => leases = NoLeases

\* A crash empties the memory, and only a running process fills it.
LEMMA NextNoneWhenDown == TypeOK /\ NoneWhenDown /\ [Next]_vars => NoneWhenDown'
<1> SUFFICES ASSUME TypeOK, NoneWhenDown, [Next]_vars PROVE NoneWhenDown'
    OBVIOUS
<1>1. CASE UNCHANGED <<serverPc, leases>>
    BY <1>1 DEF NoneWhenDown
<1>2. ASSUME NEW h \in Hosts, HostStep(h) PROVE UNCHANGED <<serverPc, leases>>
    BY <1>2 DEF HostStep, HostDiscover, HostRequest, HostRequestElsewhere, HostRenew,
        HostAck, HostNak, HostRestart, HostRelease, serverVars
<1>3. ASSUME NEW m \in toServer,
             HandleDiscover(m) \/ HandleRequest(m) \/ HandleRenewal(m) \/ HandleRelease(m)
      PROVE  NoneWhenDown'
    BY <1>3 DEF HandleDiscover, HandleRequest, HandleRenewal, HandleRelease,
        SaveThenReply, NoneWhenDown
<1>4. CASE SaveRemove \/ SaveOpen \/ SaveWrite \/ Crash \/ Start
    BY <1>4 DEF SaveRemove, SaveOpen, SaveWrite, Crash, Start, NoneWhenDown
<1>5. CASE Tick \/ UNCHANGED vars
    BY <1>1, <1>5 DEF Tick, vars, serverVars
<1> QED BY <1>1, <1>2, <1>3, <1>4, <1>5 DEF Next, ServerStep

\* A lease leaves the memory of a running server only when it is over or a
\* Release for the address has been sent.
THEOREM LeasesHonoured == Spec => LeaseHonoured
<1> DEFINE Honoured ==
        \A a \in Addresses :
            serverPc' # "down" /\ leases[a] # 0 /\ leases'[a] = 0 =>
                now > leases[a] \/ Released(a)
<1>1. TypeOK /\ NoneWhenDown /\ [Next]_vars => [Honoured]_vars
    <2> SUFFICES ASSUME TypeOK, NoneWhenDown, Next, NEW a \in Addresses,
                        serverPc' # "down", leases[a] # 0, leases'[a] = 0
                 PROVE  now > leases[a] \/ Released(a)
        OBVIOUS
    <2>1. CASE leases' = leases
        BY <2>1
    <2>2. ASSUME NEW h \in Hosts, HostStep(h) PROVE leases' = leases
        BY <2>2 DEF HostStep, HostDiscover, HostRequest, HostRequestElsewhere, HostRenew,
            HostAck, HostNak, HostRestart, HostRelease, serverVars
    <2>3. CASE Tick \/ SaveRemove \/ SaveOpen \/ SaveWrite
        BY <2>1, <2>3 DEF Tick, SaveRemove, SaveOpen, SaveWrite, serverVars
    <2>4. CASE Crash \/ Start
        BY <2>4 DEF Crash, Start, NoneWhenDown, NoLeases
    <2>5. ASSUME NEW m \in toServer, HandleDiscover(m)
          PROVE  now > leases[a] \/ Released(a)
        <3>1. CASE leases' = leases
            BY <3>1
        <3>2. ASSUME NEW e \in Addresses, Expired(e), leases' = [leases EXCEPT ![e] = 0]
              PROVE  now > leases[a]
            <4>1. a = e
                BY <3>2 DEF TypeOK, Leases
            <4> QED BY <4>1, <3>2 DEF Expired
        <3> QED BY <2>5, <3>1, <3>2 DEF HandleDiscover
    <2>6. ASSUME NEW m \in toServer, HandleRequest(m) \/ HandleRenewal(m) PROVE FALSE
        <3>1. now + LeaseTime # 0
            BY TimeAssumption DEF TypeOK
        <3>2. \/ leases' = leases
              \/ \E b : leases' = [leases EXCEPT ![b] = now + LeaseTime]
            BY <2>6 DEF HandleRequest, HandleRenewal
        <3>3. leases'[a] # 0
            BY <3>1, <3>2 DEF TypeOK, Leases
        <3> QED BY <3>3
    <2>7. ASSUME NEW m \in toServer, HandleRelease(m) PROVE Released(a)
        <3>1. m.ciaddr = a
            BY <2>7 DEF HandleRelease, TypeOK, Leases
        <3> QED BY <2>7, <3>1 DEF HandleRelease, Released
    <2> QED BY <2>1, <2>2, <2>3, <2>4, <2>5, <2>6, <2>7 DEF Next, ServerStep
<1>2. Init => NoneWhenDown
    BY DEF Init, NoneWhenDown
<1> QED BY <1>1, <1>2, NextNoneWhenDown, TypeCorrect, PTL DEF Spec, LeaseHonoured
=============================================================================
