------------------------------ MODULE DhcpServer ------------------------------
(***************************************************************************)
(* The DHCP server: its main loop and handlers, the leases it keeps in     *)
(* memory and in dhcp.json, the hosts that use it, and the network between *)
(* them.  The process may die and be started again, also in the middle of  *)
(* save_database.                                                          *)
(*                                                                         *)
(* The hosts are not part of the repository (its tests run dhclient): they *)
(* follow RFC 2131 as far as the handlers depend on it.  A message stays   *)
(* in toServer or toHosts, where it may be received never, late or often.  *)
(***************************************************************************)
EXTENDS Naturals

CONSTANTS
    Hosts,
    Addresses,      \* the last part of the address; 0 stands for none
    Pool,           \* database.pool_range
    Reserved,       \* the server, the router, and whatever is not in prefix
    Wants,          \* what a Discover asks for; 0 when it has no such option
    Releasers,      \* the hosts that may release their lease
    Roamers,        \* the hosts that may take the offer of another server
    CrashPoints,    \* the places of the server where the process may die
    LeaseTime,      \* database.lease_time
    MaxTime,        \* bound on the clock
    MaxXidOf,       \* bound on the transactions of each host
    MaxCrashes      \* bound on the crashes of the server

ASSUME AddressesAssumption ==
    /\ Addresses \subseteq Nat \ {0}
    /\ Pool \subseteq Addresses
    /\ Reserved \subseteq Addresses
    /\ Wants \subseteq Addresses \cup {0}
ASSUME TimeAssumption == LeaseTime \in Nat \ {0} /\ MaxTime \in Nat
ASSUME HostsAssumption == Releasers \cup Roamers \subseteq Hosts /\ MaxXidOf \in [Hosts -> Nat]
ASSUME CrashAssumption ==
    /\ CrashPoints \subseteq {"loop", "remove", "open", "write"}
    /\ MaxCrashes \in Nat

VARIABLES
    now,            \* int(time.time()), the same clock for all
    state, xid,     \* of a host: where it is, and its current transaction
    ip,             \* the address it asks for or uses, or 0
    asked,          \* when it sent the Request under way
    expiry,         \* when it has to stop using ip
    serverPc,       \* "loop", "down", or the step of save_database
    leases,         \* ip_address_leases: expired_time, 0 for no entry
    reply,          \* what the handler sends when save_database returns
    fileState, file,\* dhcp.json
    crashes,
    toServer, toHosts

hostVars == <<state, xid, ip, asked, expiry>>
fileVars == <<fileState, file>>
serverVars == <<serverPc, leases, reply, fileVars, crashes>>
vars == <<now, hostVars, serverVars, toServer, toHosts>>

Times == 0..(MaxTime + LeaseTime)
Leases == [Addresses -> Times]
NoLeases == [a \in Addresses |-> 0]

HostMessage == [type : {"Discover", "Request", "Release"}, host : Hosts, xid : Nat,
                ciaddr : Addresses \cup {0}, wanted : Addresses \cup {0},
                elsewhere : BOOLEAN]
ServerMessage == [type : {"Offer", "ACK", "NAK"}, host : Hosts, xid : Nat,
                  ip : Addresses \cup {0}]

\* Every reply is broadcast; the xid and hardware address of the request,
\* which the handlers leave in the packet, say whom it is for.
Reply(type, m, a) == [type |-> type, host |-> m.host, xid |-> m.xid, ip |-> a]

TypeOK ==
    /\ now \in 0..MaxTime
    /\ state \in [Hosts -> {"init", "selecting", "requesting", "bound", "renewing"}]
    /\ xid \in [Hosts -> Nat]
    /\ ip \in [Hosts -> Addresses \cup {0}]
    /\ asked \in [Hosts -> 0..MaxTime]
    /\ expiry \in [Hosts -> Times]
    /\ serverPc \in {"down", "loop", "remove", "open", "write"}
    /\ leases \in Leases
    /\ reply \in SUBSET ServerMessage
    /\ fileState \in {"absent", "empty", "whole"}
    /\ file \in Leases
    /\ fileState # "whole" => file = NoLeases
    /\ serverPc \in {"loop", "remove"} => fileState = "whole"
    /\ serverPc = "open" => fileState = "absent"
    /\ crashes \in 0..MaxCrashes
    /\ toServer \in SUBSET HostMessage
    /\ toHosts \in SUBSET ServerMessage

Init ==
    /\ now = 0
    /\ state = [h \in Hosts |-> "init"]
    /\ xid = [h \in Hosts |-> 0]
    /\ ip = [h \in Hosts |-> 0]
    /\ asked = [h \in Hosts |-> 0]
    /\ expiry = [h \in Hosts |-> 0]
    /\ serverPc = "down"
    /\ leases = NoLeases
    /\ reply = {}
    /\ fileState = "absent"
    /\ file = NoLeases
    /\ crashes = 0
    /\ toServer = {}
    /\ toHosts = {}

Tick ==
    /\ now < MaxTime
    /\ now' = now + 1
    /\ UNCHANGED <<hostVars, serverVars, toServer, toHosts>>

-----------------------------------------------------------------------------
(***************************************************************************)
(* The hosts (RFC 2131, section 4.4).  A host counts its lease from the    *)
(* moment it sent the Request, and stops using the address when the lease  *)
(* is over.                                                                *)
(***************************************************************************)
Holds(h, a) == state[h] \in {"bound", "renewing"} /\ ip[h] = a /\ now <= expiry[h]

HostSends(h, type, n, ciaddr, wanted, elsewhere) ==
    toServer' = toServer \cup
        {[type |-> type, host |-> h, xid |-> n, ciaddr |-> ciaddr,
          wanted |-> wanted, elsewhere |-> elsewhere]}

HostDiscover(h) ==
    /\ state[h] = "init"
    /\ xid[h] < MaxXidOf[h]
    /\ state' = [state EXCEPT ![h] = "selecting"]
    /\ xid' = [xid EXCEPT ![h] = @ + 1]
    /\ \E w \in Wants : HostSends(h, "Discover", xid[h] + 1, 0, w, FALSE)
    /\ UNCHANGED <<now, ip, asked, expiry, serverVars, toHosts>>

HostRequest(h, m) ==
    /\ state[h] = "selecting"
    /\ m.type = "Offer" /\ m.host = h /\ m.xid = xid[h]
    /\ state' = [state EXCEPT ![h] = "requesting"]
    /\ ip' = [ip EXCEPT ![h] = m.ip]
    /\ asked' = [asked EXCEPT ![h] = now]
    /\ HostSends(h, "Request", m.xid, 0, m.ip, FALSE)
    /\ UNCHANGED <<now, xid, expiry, serverVars, toHosts>>

\* The host takes the offer of another server; its Request is broadcast.
HostRequestElsewhere(h) ==
    /\ h \in Roamers
    /\ state[h] = "selecting"
    /\ state' = [state EXCEPT ![h] = "init"]
    /\ \E a \in Pool : HostSends(h, "Request", xid[h], 0, a, TRUE)
    /\ UNCHANGED <<now, xid, ip, asked, expiry, serverVars, toHosts>>

HostRenew(h) ==
    /\ state[h] = "bound"
    /\ now <= expiry[h]
    /\ xid[h] < MaxXidOf[h]
    /\ state' = [state EXCEPT ![h] = "renewing"]
    /\ xid' = [xid EXCEPT ![h] = @ + 1]
    /\ asked' = [asked EXCEPT ![h] = now]
    /\ HostSends(h, "Request", xid[h] + 1, ip[h], 0, FALSE)
    /\ UNCHANGED <<now, ip, expiry, serverVars, toHosts>>

HostAck(h, m) ==
    /\ state[h] = "requesting" \/ (state[h] = "renewing" /\ now <= expiry[h])
    /\ m.type = "ACK" /\ m.host = h /\ m.xid = xid[h]
    /\ state' = [state EXCEPT ![h] = "bound"]
    /\ ip' = [ip EXCEPT ![h] = m.ip]
    /\ expiry' = [expiry EXCEPT ![h] = asked[h] + LeaseTime]
    /\ UNCHANGED <<now, xid, asked, serverVars, toServer, toHosts>>

HostNak(h, m) ==
    /\ state[h] \in {"requesting", "renewing"}
    /\ m.type = "NAK" /\ m.host = h /\ m.xid = xid[h]
    /\ state' = [state EXCEPT ![h] = "init"]
    /\ UNCHANGED <<now, xid, ip, asked, expiry, serverVars, toServer, toHosts>>

\* No answer comes, or the lease is over: the host starts again.
HostRestart(h) ==
    /\ \/ state[h] \in {"selecting", "requesting"}
       \/ state[h] \in {"bound", "renewing"} /\ now > expiry[h]
    /\ state' = [state EXCEPT ![h] = "init"]
    /\ UNCHANGED <<now, xid, ip, asked, expiry, serverVars, toServer, toHosts>>

HostRelease(h) ==
    /\ h \in Releasers
    /\ state[h] = "bound"
    /\ state' = [state EXCEPT ![h] = "init"]
    /\ HostSends(h, "Release", xid[h], ip[h], 0, FALSE)
    /\ UNCHANGED <<now, xid, ip, asked, expiry, serverVars, toHosts>>

-----------------------------------------------------------------------------
(***************************************************************************)
(* The database.                                                           *)
(***************************************************************************)

\* The keys of ip_address_leases.
Leased == {a \in Addresses : leases[a] # 0}

\* A bug for LeaseInv: an expired lease counts as none.
AvailableWhenOver(L, a) == a \notin Reserved \cup {0} /\ L[a] <= now

\* is_available: inside the prefix, not reserved, and not leased, expired
\* or not.  It does not ask for the pool.
Available(L, a) == a \notin Reserved \cup {0} /\ L[a] = 0

\* A bug for LeaseHonoured: ">=" in place of ">".
OverAtOnce(a) == a \in Leased /\ now >= leases[a]

Expired(a) == a \in Leased /\ now > leases[a]

\* The address of the pool that get_ip takes: the first that is free.
FirstFree(L, a) ==
    /\ a \in Pool
    /\ Available(L, a)
    /\ \A b \in Pool : Available(L, b) => a <= b

PoolExhausted(L) == \A a \in Pool : ~Available(L, a)

\* A bug for HeldIsLeased: the answer leaves before the leases are saved.
ReplyThenSave(R) == serverPc' = "remove" /\ reply' = {} /\ toHosts' = toHosts \cup R

\* A handler that changes the leases saves them before it sends its answer.
SaveThenReply(R) == serverPc' = "remove" /\ reply' = R /\ UNCHANGED toHosts

\* save_database removes the old file, opens a new one and writes it.
SaveRemove ==
    /\ serverPc = "remove"
    /\ serverPc' = "open"
    /\ fileState' = "absent"
    /\ file' = NoLeases
    /\ UNCHANGED <<now, hostVars, leases, reply, crashes, toServer, toHosts>>

SaveOpen ==
    /\ serverPc = "open"
    /\ serverPc' = "write"
    /\ fileState' = "empty"
    /\ UNCHANGED <<now, hostVars, leases, reply, file, crashes, toServer, toHosts>>

SaveWrite ==
    /\ serverPc = "write"
    /\ serverPc' = "loop"
    /\ fileState' = "whole"
    /\ file' = leases
    /\ toHosts' = toHosts \cup reply
    /\ reply' = {}
    /\ UNCHANGED <<now, hostVars, leases, crashes, toServer>>

-----------------------------------------------------------------------------
(***************************************************************************)
(* The handlers, as main_loop calls them.                                  *)
(***************************************************************************)

\* handle_discover offers the wanted address, or else the first free one of
\* the pool; when there is none one expired lease is forgotten, whether or
\* not it is of the pool, and the pool is tried again.  Nothing is reserved
\* for an offer, and a Discover no address is found for gets no answer.
\* (clean_ip_address_leases takes the expired lease that was entered first;
\* here it may be any.)
HandleDiscover(m) ==
    /\ serverPc = "loop"
    /\ m.type = "Discover"
    /\ \/ /\ Available(leases, m.wanted)
          /\ toHosts' = toHosts \cup {Reply("Offer", m, m.wanted)}
          /\ UNCHANGED <<serverPc, leases, reply>>
       \/ /\ ~Available(leases, m.wanted)
          /\ \E a \in Pool :
                /\ FirstFree(leases, a)
                /\ toHosts' = toHosts \cup {Reply("Offer", m, a)}
          /\ UNCHANGED <<serverPc, leases, reply>>
       \/ /\ ~Available(leases, m.wanted)
          /\ PoolExhausted(leases)
          /\ \E e \in Addresses :
                /\ Expired(e)
                /\ leases' = [leases EXCEPT ![e] = 0]
          /\ SaveThenReply({Reply("Offer", m, a) : a \in {b \in Pool : FirstFree(leases', b)}})
    /\ UNCHANGED <<now, hostVars, fileVars, crashes, toServer>>

\* A bug for UniqueAddress: whether the address is still free is left to
\* the offer that has been made for it.
TrustsOffer(m) == ~m.elsewhere /\ m.wanted # 0

\* handle_request_validation
ValidRequest(m) == ~m.elsewhere /\ m.wanted # 0 /\ Available(leases, m.wanted)

\* handle_request: the address is leased and the lease saved, or refused.
\* A Request for another server, and the second copy of one that has been
\* granted, are refused too.
HandleRequest(m) ==
    /\ serverPc = "loop"
    /\ m.type = "Request"
    /\ m.ciaddr \notin Leased
    /\ \/ /\ ValidRequest(m)
          /\ leases' = [leases EXCEPT ![m.wanted] = now + LeaseTime]
          /\ SaveThenReply({Reply("ACK", m, m.wanted)})
       \/ /\ ~ValidRequest(m)
          /\ toHosts' = toHosts \cup {Reply("NAK", m, 0)}
          /\ UNCHANGED <<serverPc, leases, reply>>
    /\ UNCHANGED <<now, hostVars, fileVars, crashes, toServer>>

\* handle_renewal_request: a lease on the client address is extended for
\* whoever names it.
HandleRenewal(m) ==
    /\ serverPc = "loop"
    /\ m.type = "Request"
    /\ m.ciaddr \in Leased
    /\ leases' = [leases EXCEPT ![m.ciaddr] = now + LeaseTime]
    /\ SaveThenReply({Reply("ACK", m, m.ciaddr)})
    /\ UNCHANGED <<now, hostVars, fileVars, crashes, toServer>>

\* handle_release: a lease is forgotten for whoever names it.
HandleRelease(m) ==
    /\ serverPc = "loop"
    /\ m.type = "Release"
    /\ m.ciaddr \in Leased
    /\ leases' = [leases EXCEPT ![m.ciaddr] = 0]
    /\ SaveThenReply({})
    /\ UNCHANGED <<now, hostVars, fileVars, crashes, toServer>>

Crash ==
    /\ serverPc \in CrashPoints
    /\ crashes < MaxCrashes
    /\ crashes' = crashes + 1
    /\ serverPc' = "down"
    /\ leases' = NoLeases
    /\ reply' = {}
    /\ UNCHANGED <<now, hostVars, fileVars, toServer, toHosts>>

\* A bug for TypeOK: a new database is not saved.
StartUnsaved ==
    /\ serverPc = "down"
    /\ fileState # "empty"
    /\ serverPc' = "loop"
    /\ leases' = file
    /\ UNCHANGED <<now, hostVars, reply, fileVars, crashes, toServer, toHosts>>

\* get_database: the leases are those of the file; without a file the
\* server begins with a new database and saves it; an empty file is no json,
\* and the server does not start.
Start ==
    /\ serverPc = "down"
    /\ \/ /\ fileState = "whole"
          /\ serverPc' = "loop"
       \/ /\ fileState = "absent"
          /\ serverPc' = "open"
    /\ leases' = file
    /\ UNCHANGED <<now, hostVars, reply, fileVars, crashes, toServer, toHosts>>

-----------------------------------------------------------------------------
HostStep(h) ==
    \/ HostDiscover(h)
    \/ \E m \in toHosts : HostRequest(h, m)
    \/ HostRequestElsewhere(h)
    \/ HostRenew(h)
    \/ \E m \in toHosts : HostAck(h, m)
    \/ \E m \in toHosts : HostNak(h, m)
    \/ HostRestart(h)
    \/ HostRelease(h)

ServerStep ==
    \/ \E m \in toServer : HandleDiscover(m)
    \/ \E m \in toServer : HandleRequest(m)
    \/ \E m \in toServer : HandleRenewal(m)
    \/ \E m \in toServer : HandleRelease(m)
    \/ SaveRemove
    \/ SaveOpen
    \/ SaveWrite
    \/ Crash
    \/ Start

Next ==
    \/ Tick
    \/ \E h \in Hosts : HostStep(h)
    \/ ServerStep

Spec == Init /\ [][Next]_vars

-----------------------------------------------------------------------------
(***************************************************************************)
(* Properties.                                                             *)
(***************************************************************************)

\* What the server's promises rest on: it does not die between the removal
\* and the rewriting of dhcp.json, and no Release for the address has been
\* sent, because a late or second copy of it ends the lease of another host.
SafeCrashes == CrashPoints \subseteq {"loop", "remove"}
Released(a) == \E m \in toServer : m.type = "Release" /\ m.ciaddr = a

\* Two hosts never use one address at the same time, whatever is offered
\* twice, asked for twice, refused, renewed late, reclaimed, or lost with
\* the process.
UniqueAddress ==
    SafeCrashes =>
        \A g, h \in Hosts : \A a \in Addresses :
            Holds(g, a) /\ Holds(h, a) /\ ~Released(a) => g = h

\* The leases as they stand, in memory or, when the process is down, in the
\* file.
Record == IF serverPc = "down" THEN file ELSE leases

\* A host that uses an address has a lease on record that ends no earlier
\* than the host stops: the answer leaves after the save, and the host's
\* time began before the server's.
HeldIsLeased ==
    SafeCrashes =>
        \A h \in Hosts : \A a \in Addresses :
            Holds(h, a) /\ ~Released(a) => Record[a] >= expiry[h]

\* A lease leaves the database of a running server only when its time is
\* over or a host has given it up.
LeaseHonoured ==
    [][\A a \in Addresses :
        serverPc' # "down" /\ leases[a] # 0 /\ leases'[a] = 0 =>
            now > leases[a] \/ Released(a)]_vars

\* The README says of ip_address_leases: "All the leases that the server
\* gives".  So a running server has an entry for every address a host uses
\* and did not release, whatever happened to the process before.
LeasesListed ==
    serverPc = "loop" =>
        \A h \in Hosts : \A a \in Addresses :
            Holds(h, a) /\ ~Released(a) => leases[a] # 0

-----------------------------------------------------------------------------
(***************************************************************************)
(* The inductive invariant behind UniqueAddress and HeldIsLeased.  A host  *)
(* has a claim on an address not only while it uses it, but from the ACK   *)
(* on that will let it: every claim has its lease, and no two hosts have a *)
(* claim on the same address.  What the file must know is less than what   *)
(* the memory must: the answer that waits for the save counts only there.  *)
(***************************************************************************)
Acked(h, R) == \E m \in R : m.type = "ACK" /\ m.host = h /\ m.xid = xid[h]

\* With the answers R on their way, h may use a until t.
Claims(h, a, t, R) ==
    /\ ip[h] = a
    /\ now <= t
    /\ \/ state[h] \in {"bound", "renewing"} /\ t = expiry[h]
       \/ /\ state[h] = "requesting" \/ (state[h] = "renewing" /\ now <= expiry[h])
          /\ Acked(h, R)
          /\ t = asked[h] + LeaseTime

Claimants(a, R) == {h \in Hosts : \E t \in Times : Claims(h, a, t, R)}

\* A request of the current transaction of a host is about the address the
\* host has in mind.
RequestsInFlight ==
    \A m \in toServer :
        /\ m.xid <= xid[m.host]
        /\ m.elsewhere => m.ciaddr = 0
        /\ m.type = "Request" /\ ~m.elsewhere /\ m.xid = xid[m.host] =>
              /\ state[m.host] # "selecting"
              /\ state[m.host] = "requesting" => m.ciaddr = 0 /\ m.wanted = ip[m.host]
              /\ state[m.host] = "renewing" => m.ciaddr = ip[m.host] /\ m.wanted = 0

\* So is the answer to it, on its way or waiting for the save.
AnswersInFlight ==
    \A m \in toHosts \cup reply :
        /\ m.xid <= xid[m.host]
        /\ m.type = "ACK" /\ m.xid = xid[m.host] =>
              /\ state[m.host] # "selecting"
              /\ state[m.host] \in {"requesting", "renewing"} => m.ip = ip[m.host]

\* The time of a host ends at most one lease from now, and not before it began.
HostClocks ==
    \A h \in Hosts :
        /\ asked[h] <= now
        /\ state[h] \in {"bound", "renewing"} => expiry[h] \in 1..(now + LeaseTime)

\* The leases L bear out every claim that rests on the answers R.
Covers(L, R) ==
    \A h \in Hosts : \A a \in Addresses : \A t \in Times :
        ~Released(a) /\ Claims(h, a, t, R) => L[a] >= t

RecordsCover ==
    /\ serverPc \in {"loop", "down"} => reply = {}
    /\ serverPc = "loop" => leases = file
    /\ serverPc # "down" => Covers(leases, toHosts \cup reply)
    /\ serverPc \in {"down", "remove"} => Covers(file, toHosts)

ClaimsApart ==
    \A a \in Addresses :
        ~Released(a) => \A g, h \in Claimants(a, toHosts \cup reply) : g = h

\* The invariant: what is on its way agrees with the hosts, every claim is
\* on record where a crash leaves it, and claims never meet.
LeaseInv ==
    /\ RequestsInFlight
    /\ AnswersInFlight
    /\ HostClocks
    /\ SafeCrashes => RecordsCover /\ ClaimsApart
=============================================================================
