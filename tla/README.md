# Verification of networking-final

TLA+ models of the app server and its client (an FTP-like storage over a reliable protocol on UDP,
"RUDP"), of the DHCP server and of the DNS server, with TLC runs on small instances and TLAPS proofs for all instances.
Paths below are relative to the root of the repository.

## The system

| Component | State it keeps | Operations | Talks to |
| --- | --- | --- | --- |
| App server, `src/app/controller.py`, `rudp.py`, `handlers.py` | `handlers` by request id, `notReady` Responses, `lastRequestID`, a pool of two threads; per upload `segments`; per download the windows, `pockets`, `ready` | `main_loop` (one packet at a time), `create_handler`, `route`, `handle_upload_pocket`, `post_upload`, `downloading_task` | clients by datagrams; tasks and main loop share `handlers`, `pockets` and `clientAddress` |
| App storage, `src/app/storage.py`, `handlers.py`, `create_handler` | public and private file trees, the users file | upload, download, list, delete, creation of a user at first use | called by the app server |
| Client, `src/client` | the windows of an upload, the needed segments of a download, the user's files | `upload`, `download`, `list`, `delete` | the app server by datagrams |
| Packets and network, `src/lib/ftp.py`, `network.py` | none; sockets | encode, decode, send, receive with a timeout | used by client and app |
| DHCP server, `src/dhcp` | `ip_address_leases`, `dhcp.json` | Discover, Request, renewal, Release, `save_database`, `get_database` | hosts on the local network |
| DNS server, `src/dns` | static and cached records, `dns.json` | one query at a time, a question to the parent server, caching with expiry | resolvers and the parent server |
| Profiler, configuration, tests | | | |

What is hard in it, and what makes each part correct:

* **Upload.** Segments and ACKs are lost, doubled and late, several uploads interleave in one loop, the
  Close is sent before the file is stored and only once, ids begin anew after a restart, and the client
  never checks which request a datagram belongs to. Correct means: an acknowledged segment is held, a
  reported success is one, the stored file is the sent one, stored once, and stored in the end.
* **Download.** The main loop and up to two tasks are threads of one process; the task reads a variable
  of the main loop, and the main loop reads a dictionary the task changes. Correct means: nothing the
  client needs is given up, a request is dropped only when the client has everything, the main loop
  never stumbles over a handler that is gone, the file is intact, the download ends.
* **DHCP.** Offers reserve nothing; messages come late or twice, leases expire on two clocks' readings
  of one time, and the leases are rewritten by remove and write. Correct means: no address is used by two
  hosts, and a host that uses one is on record, also after a crash.
* **DNS.** The loop blocks until the parent answers, accepts any answer with the right id, and draws ids from a
  small range; records are cached until they expire, and every change of the cache rewrites `dns.json` by remove
  and write; an answer of the parent is sent on with other questions, so that the offsets its names are written as
  move; of a pointer only one byte is read and one can be written; a packet that cannot be read or written ends
  the server. Correct means: only what the parent said is cached and
  answered, never for longer than it allowed; memory and file agree; the client reads the names that were
  meant; a query is answered unless a packet was lost or the server ended.
* **Storage and users.** Uploads are accepted without a look at the tree and stored later; paths lie below files, the
  root is a destination and may be replaced; users are made at their first request; a kill tears files and
  cuts `data.json`. Correct means: a file is where an upload of this storage put it, nothing but the target of a
  request is touched, a listing is the tree, a user keeps storage and password and shares them with nobody, and
  no interleaving ends the server but for a real conflict of two uploads, or a name no file can have.

## Modules

| Module | What it is |
| --- | --- |
| `UploadService` | What an upload promises, without packets: success is reported only once the server holds the body; the old file goes, the new one is written, once. |
| `RudpUpload` | The upload protocol: client, server loop, `post_upload` step by step, network. Implements `UploadService`. |
| `MCRudpUpload` | Its instances for TLC. |
| `RudpUploadProofs` | Its theorems. |
| `RudpUploadServiceProofs` | More of them: what is written after restarts, that it is written once, the refinement. |
| `RudpDownload`, `MCRudpDownload` | The download protocol: client, main loop, thread pool, `downloading_task`, network; its instances. |
| `RudpDownloadProofs` | Its theorems. |
| `DhcpServer`, `MCDhcpServer` | The DHCP server, its file and its hosts; its instances. |
| `DhcpServerProofs` | Its theorems. |
| `DnsPackets` | The names of DNS packets: the table of offsets while a packet is read and while it is written. |
| `DnsServer`, `MCDnsServer` | The DNS server, its cache and file, clients and parent; its instance. Extends `DnsPackets`. |
| `DnsServerProofs` | Its theorems. |
| `FileStore` | What the storage of the app promises: files under paths, put, erased and fetched; no directories. |
| `AppStorage`, `MCAppStorage` | Trees, `data.json`, `create_handler`, the request handlers, kill and restart; its instance. Implements `FileStore`. |
| `AppStorageProofs` | Its theorems, the refinement among them. |
| `AppStorageListProofs` | One more: what is listed, for trees of any depth. |
| `NumberLemmas` | Least and greatest elements of sets of numbers, and induction; used by the proofs of DNS server and listings. |

### RudpUpload

One action per step of the code. The client: `ClientStart` sends the Request; `ClientResponse` and
`ClientNoResponse` are the single `recvfrom` of `upload_command`; `Send` is the first branch of the loop of
`upload_data`, `EnterRefresh` its `else`, `ClientReceive` one datagram of the refresh, `RefreshTimeout` the end
of a round, `RefreshEarlyTimeout` the read of an unbound `data`. The server: `ServerAccept` and `ServerReject`
are `create_handler`, `ServerSegment` is `handle_upload_pocket` up to the Close, `PostUploadRemove`, `PostUploadOpen` and
`PostUploadWrite` are `post_upload` and the `pop` of the handler, `ServerUnknown` is the Close for an unknown
id, `ServerRestart` the end and new start of the process. Between `PostUploadOpen`, which truncates the file, and
`PostUploadWrite` some part of the body is at the destination (`fileState` "torn"); a restart in between leaves it there.

Abstracted: segment `i` of client `c` is the pair `<<c, i>>`, so a foreign segment is recognised as one; the
clock is gone, a round may end whenever the code waits; the cubic formula may return any window up to
`MaxCwnd`. A datagram stays in the network and may be received again, or never, or after others. That is
loss, duplication and reordering; only liveness needs a datagram that is really gone, so `Lossy` names the
types that may vanish. No guard asks for the absence of a datagram, and therefore `Lossy = {}` hides no
reachable state of the safety properties. The windows are sets, because `WindowsOrdered` holds: the
segments in flight are smaller than the ones to be sent, so the concatenation in `upload_data` is sorted and
`pop(0)` is the minimum.

The assumption of most safety properties is `Undisturbed`: clients have addresses of their own and the server
has not been restarted. Both are needed, and `upload_same_port` shows what happens without the first.
`StoredWhole` says what holds without them: what is written to its end has the number of segments of the request and none
twice, and with addresses of their own it is the body unless a segment of somebody else is in it. That can be:
ids begin anew after a restart, and a late segment of another client's old request falls into the new one with its id. A part
of a file is at a destination only while the server writes it, or after a restart, where the code leaves it.

### RudpDownload

`MainReceives` is what every iteration of `main_loop` begins with: it moves `clientAddress`, and has the
Responses of `notReady` repeated. `MainAccept`, `MainReject`, `MainReady`, `MainPocket`, `MainUnknown` are the branches of
the iteration; `MainLosesHandler` is the same test and lookup with the task's `pop` in between. `TaskStart` is a
thread of the pool taking the next task; `TaskSend` to `TaskPop` are the steps of `downloading_task`. The tasks
interleave with the main loop freely. `TaskSend` uses `clientAddress`, as the code does.

The clients of this model do not die during a download. The safety that is claimed of them is claimed when they have
addresses of their own (`DistinctAddresses`); only `NotReadyHasHandler` needs no such condition.

### DhcpServer

Handlers are single actions up to `save_database`, which is three (`SaveRemove`, `SaveOpen`, `SaveWrite`), and the
answer leaves with the last of them. `Crash` may come at the points of `CrashPoints`; `Start` is `get_database`:
the file as it is, a new database when there is none, and no start at all when it is empty. The hosts are
not in the repository (the Makefile runs `dhclient`); they are modelled after RFC 2131 as far as the handlers
depend on it: a host counts its lease from the moment it sends its Request and stops at its end, ignores
answers of older transactions, and may give up, renew, release or take another server's offer. All clocks are one.

`UniqueAddress` and `HeldIsLeased` are promised up to the first Release of the address. The code frees an
address for whoever names it, so a late or second copy of a Release ends somebody else's lease. `HandleDiscover` offers
an address that is asked for whether or not it is in `pool_range`, as `get_ip` does.

### DnsPackets and DnsServer

In a packet a record does not spell its name but gives the offset of a place where it is spelled: a question, or the
data of a CNAME record. `DnsPackets` counts bytes: `Size` is the length of a name that is spelled, a record has the `size` of its
data, and `QuestionPlace` and `DataPlace` are the offsets that follow. The table `domainNames` is a function of the packet:
`Readable` and `Read` are `DNSPacket.from_bytes`, `Written` is `__bytes__` with the table the packet was read with, in
which the questions are entered again. Two limits of the code are in it. `from_bytes` looks at the second byte of a pointer alone (`PointerByte`),
so offset 268 is read as 12, and a name spelled there is taken for the first question. `to_bytes` puts an offset in one
byte and raises above 255, and it decodes the whole data of a CNAME, pointers as text, which may raise as well (`Writable`).
What a name is read as is given by constants: `CutName` where `from_bytes` has taken two bytes off the data of a CNAME, `NoName` where nothing
is left to read, and `UncutName` where `to_bytes` reads all of it, `NoName` where it cannot be decoded. `NamesRead` is the other side: how a
resolver that follows RFC 1035 reads an answer.

In `DnsServer` the code up to the question to the parent is one action per outcome: `AnswerLocally`, `AnswerLocallyRaises` (an answer
that cannot be written), `AskParent`, `NoIdLeft` (no id
from 1 to below that of the client), `TakeExtended` (an OPT record, whose name is the root and at no place). Waiting is
the mode "waiting", in which only packets of the parent are handled: `IgnoreResponse`, `AcceptResponse`, `AcceptRaises` (the answer cannot be
written, after its records were cached and saved), `ReceiveUnreadable`. `Crash`,
`DieDropping`, `DieCaching` and `DieCreating` are the places where the process may die; in the last three the file is left absent, empty or
whole. `Start` is `get_database`: the file, the default database when there is none, which is saved, and no start when the file is empty; whoever starts
the server after an exception does the same. What waits in the socket of a process that ends is lost, and a query to a server that does not run is never
received. The server alone touches its file, so a handler is otherwise one action.

The parent is the constant `Responses`, of which `ResponsesAssumption` asks what RFC 1035 does: a record is given for the
name in question, for the target of an alias that comes first or, as that of a zone, for a name that is spelled elsewhere; an alias is answered
by its target; the three sections come in their order, which decides what is cached last and where the records known here are put. The packets
between server and parent may be lost, late or doubled. The flags, the class of records and the bytes of addresses are
left out: an address is known by its owner.

`CachedAsTold` and `AnswersReadRight` have an exception, `far`: a record the parent has told with a name behind byte 255 of its packet is taken
for one of another name, cached under it and sent on with it. In a packet that fits in 255 bytes neither needs it.

`AnswersReadRight` does not hold of every answer otherwise, and its premises say of which: the response must be about the questions that were
sent on (an id may be drawn twice), and where it has aliases nothing may have been known here and the table of names must tell their targets
apart (`ToldApart`). `domainNames` has one entry for a name, so an alias whose target is also asked for, is cut to the name of another target, or is
cut to the same as another target moves or shares an entry, and what `to_bytes` enters again after the CNAME record is an offset
two bytes before the name. An answer with an offset above 255 is not sent at all, and this is what the property rests on.

### AppStorage

A storage is a function from paths of at most `MaxDepth` names (two in the run) to a content, `Dir` or `Free`. `Entrances` is `create_handler` up to the
choice of the handler: the storage a request is let into, with the tree and `data.json` afterwards. `HandleUpload`,
`HandleDownload`, `HandleList`, `HandleDelete` and `HandleRefused` are the `route` methods; `PostUpload` is what follows the last segment, and
`PostUploadRaises` the same where `makedirs`, `open` or `extractall` meets a file or a name that no file can have. Any requests may be handled between an upload's acceptance
and its `PostUpload`, and a request may be handled as often as the network delivers it. `DieRegistering`, `DieUploading`, `DieDeleting` and `Kill` end
the process in between, `DieUploading` and `DieDeleting` also inside `shutil.rmtree` (`Removals`: any part of a directory may be gone, but a
directory only after what is in it) and, the first, while the directories are made (`MadeDownTo`) or the body is written (`Parts`); `Restart` is `init_strorage`, which cannot make the public root where an upload has put a file.

Handlers are atomic otherwise, because they run on the main loop alone and no other thread touches the disk: a download
carries the bytes that were read in `route`. A path that leaves the storage is `Outside`, or `FarOutside` when the error that echoes it does not
fit in its length byte; one that is longer than
`FILE_PATH_MAX_LENGTH` is `Long`, one whose bytes cannot be decoded `Garbled`. `Unechoed` are the paths in the storage too long for the error that they do
not exist, and `Unnameable` the names of 256 characters, which pass the test of `FILE_PATH_MAX_LENGTH` and that no file can have. A path that cannot be
decoded or echoed ends the server (mode "garbled"); any other exception is mode "raised". No two uuid4 are
the same. Names in the trees are ASCII.

`FileStore` has no directories and no users, and of the process only whether it runs (`running`). `Store` in `AppStorage` maps a tree to its files (`Archive(tree[s], << >>)`) and the
reply of a download to its answer; an upload is a `Put`, a delete is an `Erase`, and one that is cut by a kill is an `End`: part of what was below the
target may be gone, or all of it and part of the body there, and nothing else has changed.

## Runs

Deadlock is not checked: clients finish, hosts run out of transactions, queries and requests out of their bound, a
server that cannot be started stays down, and then the system stops.

| Run | Instance | Checks |
| --- | --- | --- |
| `upload_safety` | 2 clients at 2 addresses, 2 and 1 segments, 2 ids, window 2 | types, `WindowsOrdered`, the inductive invariant `UploadInv`, `AckedSegmentsHeld`, `SuccessMeansReceived`, `StoredIsBody`, `StoredOnce`, and the refinement `ImplementsService` |
| `upload_liveness` | 1 client, 2 segments, 1 id, 1 restart, window 1 to 2, segments, ACKs and Close may vanish | `StoredWhole`, `UploadStored` |
| `upload_same_port` | as `upload_safety`, one address | `ReportedUploadIsHeld`, **violated** |
| `upload_lost_close` | 1 client, 2 segments, no restart, fair links | `UploadTerminates`, **violated** |
| `download_safety` | 2 clients, 1 segment each, 2 ids, a pool of 1, the second may be refused | types, `NotReadyHasHandler`, `NeededIsInWindow`, `DroppedWhenComplete`, `ClosedReleasesThread`, `DataIntactAlone` |
| `download_liveness` | 1 client, 2 segments, window 1 to 2, segments, DownloadComplited and Close may vanish | `DownloadEnds` |
| `download_mixed` | 2 clients, 1 segment each, a pool of 2 | `DataIntact`, **violated** |
| `download_keyerror` | the same | `CloseStillComes`, **violated** |
| `dhcp_safety` | 2 hosts, one address to give and one reserved, lease of 1, clock to 2, 2 and 1 transactions, 1 crash | types, `UniqueAddress`, `HeldIsLeased`, the inductive invariant `LeaseInv`, `LeaseHonoured` |
| `dhcp_lost_leases` | the same hosts, crash in the save | `LeasesListed`, **violated** |
| `dns_safety` | 10 names, 10 possible queries, 2 of them asked, time to live 1, clock to 2, one packet lost, one doubled, 1 crash | types, `CachedAsTold`, `FileIsMemory`, `WithinTimeToLive`, `AnswersReadRight`, `Served` |
| `storage_safety` | 2 users and an anonymous client, 3 storages, 18 possible requests, 3 of them handled, 1 kill | types, `TreeSound`, `FilesWereUploaded`, `ListIsTree`, `EndsOnlyByConflict`, `RegisteredStays`, the refinement `ImplementsFileStore` |

Why the bounds are enough for the cases that matter. Two clients give every mix-up of requests, addresses
and bytes; two segments give an order, a window that is not empty while another segment waits, and a last
segment; two ids let a doubled Request create a second handler, and with one id a restart hands the same id
out again. A pool of one makes a task wait for another one. One address, two hosts and a clock of two ticks
let a lease run out, be reclaimed and be given to the other host while messages of the first are still under way.
The restart and loss of `upload_liveness` are one client's: liveness of one upload does not depend on another
one, but for the finite time of its `post_upload`.

Two queries let an answer to the first be taken for one to the second, a record be cached by the first and answered or
dropped for the second; the names of `MCDnsServer` are a static one, one with an address, an alias, one whose target is
cut to another name that exists, one whose target is nothing but a pointer, one whose target cannot be decoded with its pointer, one so long
that a second question starts at 268, and one that can only be refused. A record
of one tick is fresh, at its boundary and over within the clock. Three requests are two uploads and what comes between
them, or an upload, another request and a listing or a download; the requests of `MCAppStorage` include a path below another's file,
the root as a target, an archive, an empty archive, a name no file can have, every refusal and every packet that ends the server.

The violated runs are disagreements between the code and what the repository says; `PROJECT.json` quotes both
under `findings`.

* `upload_same_port`: the client that comes second on the default port takes the Response of the first.
* `upload_lost_close`: Close is sent once. When it is lost after the last ACK, the client waits for ever.
* `download_mixed`: `controller.py:125` sends to the last sender, not to the client of the handler.
* `download_keyerror`: `controller.py:67-68` against `:185`. The server ends with a `KeyError`.
* `dhcp_lost_leases`: `save_database` removes before it writes.

## Fairness

The loops of client and server run for ever and time passes: rounds end, tasks are scheduled, `post_upload`
returns (weak fairness). After a refresh the clock of a round starts anew, so a segment that may be sent is
sent at last, although a round may also be found over before (strong fairness of `Send`, `TaskSend`). The links
are fair-lossy: what is under way again and again, and still matters to its receiver, is received again and
again. This is stated per segment, ACK, Close, Ready and DownloadComplited, as `[]<>Pending => []<><<Arrives>>_vars`,
and not as strong fairness of the receiver's action, because the kernel keeps a datagram while the receiver
is busy. Nothing is assumed of the first Request and Response, which the code sends once: `UploadStored` and
`DownloadEnds` begin after the Response. Downloads also assume that packets do not pour in for ever faster than
a task takes them, for a round of `downloading_task` ends only when `pockets` is found empty.

The DNS server handles a query when it can, the parent answers, and a packet that is there is received (weak
fairness); `Served` therefore allows for a lost packet, because the code sends its query once and waits without end, and for the end of the
server, with which the queries in its socket are lost.
Nothing is claimed of the storage that needs fairness.

No fairness is assumed of crashes, restarts or losses.

## Proofs

`RudpUploadProofs` proves, for any set of clients, any number of segments, ids, restarts and any windows, and
from the four assumptions on the constants of `RudpUpload` (there are clients, `AddrOf` and `AmountOf` are
functions of the right sets, `CwndStart` is in `1..MaxCwnd`):

* `TypeCorrect`: `Spec => []TypeOK`, by one case per action;
* `WindowsStayOrdered`: `Spec => []WindowsOrdered`. It is not inductive alone: the segment that `Send` takes
  goes before those that were never sent, so the invariant also says (`NothingSentYet`) that a client without
  a Response has nothing in flight when its window is filled;
* `RequestsStayApart`, `AckedIsHeld`, `SuccessIsReceived`, `StoredIsSent`: `UploadInv` and the properties that rest on it.

The inductive invariant is `IInv`, the conjunction of `UploadInv` and the three properties. `SuccessMeansReceived`
alone is not inductive, because nothing in it says what a Close in flight is worth. `UploadInv` says it of
every packet in flight: a Segment, a Response or an ACK names a request of the one client it belongs to
(`SegmentsInFlight`, `ResponsesInFlight`, `AcksInFlight`); an ACK is for a held segment; a Close to an address means
that the request of the client there is complete (`ClosesInFlight`), which holds also for the Close that answers a packet
of an unknown request, because an issued id is only missing from `handlers` once its segments are the whole body
(`HandlersInv`). `CompleteMeansBody` turns the test of the code, a number of segments, into equality with the body;
it rests on the cardinality of an interval.
`IInvStep` splits on the client's, the server's and the network's actions; a behaviour that is undisturbed after
a step was so before it.

`RudpUploadServiceProofs` proves, from the same assumptions:

* `StoredIsWhole`: `Spec => []StoredWhole`, with restarts at any place and shared addresses. `KeptInv` has no number twice in any request; `NumbersInv`
  (with addresses of their own) has every segment under way or kept among those of its client's body, whatever request it is
  kept for. As many segments as the body has, of that body and none twice, are the body;
* `WrittenOnce`: `Spec => StoredOnce`, from `OnceInv`: only the request its client knows of ever gets segments, a handler is
  complete exactly while `post_upload` works for it, and an id that has left `handlers` is one whose file is written. The
  handlers of doubled Requests therefore stay empty;
* `ServiceImplemented`: if clients have addresses of their own and there is no restart, `Spec => Service!ServiceSpec`. Each client step is
  `Ask`, `Succeed`, `Fail` or a stutter, each server step `Hold`, `RemoveOld`, `WriteNew` or a stutter. `Succeed` needs the body held, which
  `ClosesInFlight` gives; `Hold` needs that no other handler of the client was complete before, which is `OnceInv`.

`RudpDownloadProofs` proves, for any clients, amounts of segments, ids, size of the pool and windows, and from the
assumptions on the constants of `RudpDownload` (as for uploads; the pool is not empty):

* `TypeCorrect`, and `NotReadyHasHandlerAlways` from `TasksInv`: a request waits in the queue of the pool at most once, and only
  before its task (`QueueInv`), and those with a handler are those handed out whose task has not ended (`HandlersInv`). So a
  task pops only a handler whose Response is no longer repeated;
* `NeededIsInWindowAlways`, `DroppedWhenCompleteAlways`, `ClosedReleasesThreadAlways`, `DataIntactAloneAlways`, from `ApartInv`.

None of the four is inductive, because each speaks of what a packet under way has yet to do. `ApartInv` says that the packets to
the server are true when they are received, however late: they name the one request of their client, an ACK is for a segment no longer
needed, a DownloadComplited comes from a client that needs nothing (`Sound`, of `c2s` and of `pockets`); a Response is about a
request of the client it is sent to, and a Close is sent only to a client whose task is at its end (`ToClientInv`), also the
Close for an unknown request, by `HandlersInv`. `WindowsInv` says the windows of a request its client has not heard of
are still full, so that they cover what is needed once the Response is taken. `DataInv` does not say whose bytes a segment carries,
but that their owner has a request: a client that is `Alone` can only be sent its own. `ServerApart` states once what a step of the server
or the network may do without disturbing a client, and the steps of main loop, tasks and network are each shown to be like that.
Where bytes of two downloads meet nothing is proved, and `download_mixed` shows why.

`DhcpServerProofs` proves, for any hosts, addresses, pool, lease time, and any number of transactions and crashes,
from the assumptions on the constants of `DhcpServer` (addresses are numbers other than 0, a lease is at least 1):

* `TypeCorrect`: `Spec => []TypeOK`;
* `LeasesCoverClaims`: `Spec => []LeaseInv`, and from it `AddressesUnique` (`[]UniqueAddress`) and
  `HeldAddressesLeased` (`[]HeldIsLeased`);
* `LeasesHonoured`: `Spec => LeaseHonoured`, which needs of the invariant only that a dead process has no leases.

`UniqueAddress` is not inductive: two hosts that wait for an ACK each use no address yet. `LeaseInv` therefore speaks of
claims: a host has one on the address it uses, and on the address it asked for once the ACK for its current
transaction is on its way or waits for the save. It says that no two hosts have a claim on the same
address (`ClaimsApart`), that every claim has a lease that ends no earlier (`RecordsCover`: in memory for all the
answers, in the file, where a crash is allowed, for those that have left), and, so that an ACK
is about what its host has in mind, how the messages in flight agree with the host (`RequestsInFlight`,
`AnswersInFlight`). Then an address without a lease is nobody's, and can be given; a lease that is over, `now >
leases[a]`, is over for every host with a claim on it. The steps of hosts and of the clock make no claim that was
not one before (`ClaimsKept`); of the server's steps only an ACK does (`NoAckNoClaim`).

`DnsServerProofs` proves, for any names, aliases, parent, queries, times and crashes, from the four assumptions on the
constants of `DnsServer` and `DnsPackets`:

* `FileIsMemoryAlways`: by one case per action; the invariant adds `FileSound`, what is in the file in each of its states;
* `TypeCorrect`: `[]TypeOK`, on the way to which it is shown that `Read` yields records with names, although it chooses a name from
  the table: `Readable` says there is one;
* `CachedAsToldAlways`: the invariant adds that the packets on their way from the parent are well formed. The heart is that
  `Read` finds for an A record with a pointer of one byte a name it was given for (or to which its owner is cut; `ReadAsCalled`), by the places of the questions
  and of the CNAME records before it, of which no two are the same (`PlacesApart`, by the sizes of what is between them); nothing is needed of ids,
  so it holds for a response taken for another, and for what is saved before the answer cannot be written;
* `AnswersReadRightAlways`: the invariant `WaitingFits` says of the query that waits that its local answers are given under names of its
  questions, and that what was sent on to the parent are its questions, all of them only if none was answered from here
  (`AmongQuestions`, by induction over the questions). `ReadPlace` finds the name read for a record at the place of a question or of an alias, and
  `AnswerReadsRight` follows it to where it is written: a question's name to the question that has moved, any other to the last alias
  that is cut to it, of which `ToldApart` says that it is the same one; `SamePlaces` says that the packet that is sent has its
  records where the table has them;
* `WithinTimeToLiveAlways`: an answer is made of the records of the parent's packet, heard in the same step, of
  static ones, and of cached ones, of which `CachedAsTold` and `expired - now` say enough. The cached answers of a query that waits are as
  old as its arrival (`current.since`), which is `LocalsCovered` of the invariant.

`AppStorageProofs` proves, for any names, storages, users, requests and kills and paths of any length, from the four assumptions on the
constants of `AppStorage` (the names are finitely many numbers):

* `TypeCorrect`, and `RegisteredStaysAlways` from `UsersInv`: no two entries of `data.json` have the same storage, and while the file is whole it has
  everyone who was let in;
* `FilesWereUploadedAlways` and `EndsOnlyByConflictAlways` from `UploadsInv` and `FilesInv`: a file above the target of an upload is itself from an
  accepted upload of that storage, which is the conflict; what else `post_upload` can meet is a name no file can have;
* `TreeSoundAlways`: removal takes what is below with it, and what an upload puts under its target hangs together because the
  paths of an archive do (`IsBody`);
* `StoreImplemented`: `Spec => Store!StoreSpec`. Each step of the trees is described by the files it changes (`StoreStep`), which needs `OwnersInv` (an accepted
  upload is to a storage somebody was let into, so that the empty tree of a new user overwrites nobody) and `FilesInv`
  (the storage of an id that nobody has is without files); then each kind of step is a `Put`, an `Erase`, a `Fetch`, an `End` or a `Forget`.

`AppStorageListProofs` proves `ListIsTreeAlways`, from the same assumptions and `TreeSoundAlways`. `LoadDirectory` recurs over
the tree and `FlattenSeq` over a sequence, and the induction theorems of the library cannot be instantiated here; `SetInduction` of `NumberLemmas`
is induction over the numbers in a set, from the theorem that a well-founded order has minimal elements. With it:

* `SortedList`: the entries of a directory can be put in the order of their names (`SortedExists`, by induction over their number);
* `FlattenFunction`, `LoadFunction`: the recursive definitions have functions, the second by induction over what is left of the depth (a path of
  `MaxDepth` names has no children);
* `Listing(blocks, p, t, Q)` is what is to be shown of a sequence of blocks: it lists the set `Q` of paths. `ListingConcat` and `ListingFlatten` put
  listings together, if nothing in the second is also in the first or above a path in it (`Follows`), which `ChildrenApart` gives for the directories of one
  directory. `LoadedLists` does one level, `DirectoryLists` all of them, where the tree is sound: what is below a child is below the directory
  (`BelowParts`), and in a sound tree nothing is below a file.

Every invariant and action property the passing runs check is proved. Checked by TLC only are the liveness properties, `UploadStored`,
`DownloadEnds` and `Served`: liveness under fairness is out of the prover's reach.

## Not modelled

* The bytes of packets (`lib/ftp.py`, `dhcp/packets.py`, `dns/packets.py`), apart from their fields and the offsets of DNS names. That
  the data of a CNAME is read as the names `CutName` and `UncutName` is an assumption on constants, not a model of `unpack_host_name`.
  That lengths count characters and the data bytes is in `AppStorage` only as a request that cannot be decoded.
* The user's disk: `download_command` removes the destination before it asks.
* DNS flags, record classes and the data of records other than A and CNAME; a second parent.
* Kills while `data.json` is first made by `init_strorage`; times and sizes in listings, the refusal of the empty user name, names outside ASCII on the disk.
* TCP mode, the profiler, configuration and argument parsing, printing and logging.

## Plan

In order of importance; done are 1 to 12.

1. `UploadService`, `RudpUpload`: the protocol of uploads, with the refinement.
2. `RudpUploadProofs`: types, ordered windows, the safety of uploads.
3. `RudpDownload`: the threads of the app server.
4. `DhcpServer`: leases, file, crash.
5. `DhcpServerProofs`: types, unique addresses, leases on record, leases honoured.
6. `DnsPackets`, `DnsServer`: queries, parent, cache, file.
7. `DnsServerProofs`: types, file and memory, cache, time to live.
8. `FileStore`, `AppStorage`: trees, users, handlers, kills, with the refinement.
9. `AppStorageProofs`: types, users, files, trees, conflicts, the refinement.
10. `RudpUploadServiceProofs`: `StoredWhole` with restarts, `StoredOnce`, and that every step of `RudpUpload` is one of `UploadService` or a stutter.
11. `RudpDownloadProofs`: types, handlers and their tasks, windows, closes, the data of a client that is alone.
12. `AppStorageListProofs`, and `AnswersReadRight` in `DnsServerProofs`: what is listed, what is read of an answer.
13. An abstract lease service, of which `DhcpServer` would be shown to be an implementation up to the first Release.
14. `PocketCodec`: lengths in characters and bytes, segmentation of a body and its inverse, against a reference definition.
