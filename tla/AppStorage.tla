------------------------------- MODULE AppStorage -------------------------------
(***************************************************************************)
(* The storage of the app: the trees of files of the anonymous clients and *)
(* of each user, data.json with the users, and the handlers that work on   *)
(* them.  How the bodies travel is left to RudpUpload and RudpDownload;    *)
(* here an upload is accepted in one step and stored in a later one, and   *)
(* any other request may be handled in between.  Handlers run on the main  *)
(* loop alone, so that each is one action, with further actions for the    *)
(* places where the process may be killed in it.                           *)
(*                                                                         *)
(* A request may be handled whenever and as often as the network delivers  *)
(* it.  Names are ASCII in the trees; a path that is not is in a request   *)
(* what its bytes are decoded to.                                          *)
(***************************************************************************)
EXTENDS Naturals, SequencesExt

CONSTANTS
    Public, UserIds,    \* the directories of the storages
    Users, Passwords, Anonymous,
    Names,              \* numbers, in the order in which names are sorted
    Unnameable,         \* the names that no file can have: of 256 characters,
                        \* or with a NUL
    Contents, Torn,     \* what is in a file; Torn when it is not all there
    Requests,           \* what the clients may send
    Dir, Free,          \* a directory, and a path where there is nothing
    Outside, Long, Garbled, \* the paths that leave the storage, are longer
                        \* than FILE_PATH_MAX_LENGTH, or cannot be decoded
    FarOutside, Unechoed, \* the paths that leave it, and those that do not,
                        \* which are too long to be echoed in any message
    Nothing,
    MaxDepth,           \* bound on the names of a path
    MaxRequests, MaxCrashes     \* bounds

Storages == {Public} \cup UserIds
Paths == BoundedSeq(Names, MaxDepth)
BadPaths == {Outside, FarOutside, Long, Garbled}

Nameable(p) == \A i \in DOMAIN p : p[i] \notin Unnameable

\* The body of an upload: a file is the content at <<>>, an archive contents
\* at paths below.  Directories without files are not in an archive.
IsBody(body) ==
    /\ DOMAIN body \subseteq Paths /\ body \in [DOMAIN body -> Contents]
    /\ \A q, r \in DOMAIN body : ~IsStrictPrefix(q, r)

ASSUME NamesAssumption ==
    Names \subseteq Nat /\ IsFiniteSet(Names) /\ Unnameable \subseteq Names
ASSUME ValuesAssumption ==
    /\ Public \notin UserIds /\ Anonymous \notin Users
    /\ Dir # Free /\ Dir \notin Contents \cup {Torn} /\ Free \notin Contents \cup {Torn}
    /\ Nothing \notin [id : UserIds, password : Passwords]
    /\ BadPaths \cap Paths = {} /\ Unechoed \subseteq Paths
ASSUME RequestsAssumption ==
    \A r \in Requests :
        /\ r.kind \in {"upload", "download", "list", "delete"} /\ r.recursive \in BOOLEAN
        /\ r.user \in Users \cup {Anonymous} /\ r.password \in Passwords
        /\ r.path \in Paths \cup BadPaths
        /\ IsBody(r.body)
        /\ \A q \in DOMAIN r.body : Nameable(q) /\ (r.path \in Paths => r.path \o q \in Paths)
ASSUME BoundsAssumption == {MaxDepth, MaxRequests, MaxCrashes} \subseteq Nat

VARIABLES
    tree,           \* of each storage: Dir, a content or Free at each path
    users,          \* the entries of data.json; Nothing for no entry
    usersFile,      \* "whole", or "empty" when it was cut while written
    mode,           \* "up", or how the process ended
    uploads,        \* the handlers of the uploads that are under way
    reply,          \* the content of the answer of the last step
    accepted,       \* the uploads ever accepted
    registered,     \* the users that were ever let in, as they were recorded
    handled, crashes

disk == <<tree, users, usersFile>>
history == <<accepted, registered>>
vars == <<disk, mode, uploads, reply, history, handled, crashes>>

Upload == [number : 1..MaxRequests, storage : Storages, path : Paths,
           body : {r.body : r \in Requests}]
UserData == [id : UserIds, password : Passwords]

NoTree == [p \in Paths |-> Free]
EmptyTree == [NoTree EXCEPT ![<< >>] = Dir]
NoUsers == [u \in Users |-> Nothing]

TypeOK ==
    /\ tree \in [Storages -> [Paths -> Contents \cup {Torn, Dir, Free}]]
    /\ users \in [Users -> UserData \cup {Nothing}]
    /\ usersFile \in {"whole", "empty"}
    /\ usersFile = "empty" => users = NoUsers
    /\ mode \in {"up", "killed", "raised", "garbled"}
    /\ uploads \subseteq Upload
    /\ accepted \subseteq Upload
    /\ mode # "up" => uploads = {}
    /\ handled \in 0..MaxRequests /\ crashes \in 0..MaxCrashes

\* init_strorage has made what there is to make.
Init ==
    /\ tree = [s \in Storages |-> IF s = Public THEN EmptyTree ELSE NoTree]
    /\ users = NoUsers
    /\ usersFile = "whole"
    /\ mode = "up"
    /\ uploads = {}
    /\ reply = Nothing
    /\ accepted = {}
    /\ registered = {}
    /\ handled = 0
    /\ crashes = 0

-----------------------------------------------------------------------------
(***************************************************************************)
(* The tree t of a storage as the functions of os, shutil and zipfile see  *)
(* and change it.                                                          *)
(***************************************************************************)
IsFile(t, p) == p \in Paths /\ t[p] \in Contents \cup {Torn}
IsDir(t, p) == p \in Paths /\ t[p] = Dir
FilesUnder(t, p) == {q \in Paths : IsPrefix(p, q) /\ IsFile(t, q)}
Children(p) == {q \in Paths : IsStrictPrefix(p, q) /\ Len(q) = Len(p) + 1}

\* A bug for ImplementsFileStore: what is below a directory is left.
RemovedAlone(t, p) == [t EXCEPT ![p] = Free]

\* os.remove or shutil.rmtree
Removed(t, p) == [q \in Paths |-> IF IsPrefix(p, q) THEN Free ELSE t[q]]

\* A kill in shutil.rmtree has left a part: what is in a directory is removed
\* before the directory.
Occupied(t, p) == {q \in Paths : IsPrefix(p, q) /\ t[q] # Free}
Removals(t, p) == {S \in SUBSET Occupied(t, p) : \A q \in S : Occupied(t, q) \subseteq S}
Without(t, S) == [q \in Paths |-> IF q \in S THEN Free ELSE t[q]]

\* os.makedirs of the directory of p
Made(t, p) == [q \in Paths |-> IF IsStrictPrefix(q, p) THEN Dir ELSE t[q]]

\* A bug for EndsOnlyByConflict: makedirs without a test and without exist_ok.
MayMakeNew(t, p) == p = << >> \/ t[Front(p)] = Free

\* Nothing above p is a file, and makedirs does not raise.
MayMake(t, p) == ~\E q \in Paths : IsStrictPrefix(q, p) /\ IsFile(t, q)

\* Neither makedirs nor open or extractall meets a name that no file can have.
MayName(p, body) ==
    \A i \in DOMAIN p : p[i] \in Unnameable => i = Len(p) /\ DOMAIN body = {}

\* A bug for TreeSound: makedirs is left out.
StoredAlone(t, p, body) ==
    [q \in Paths |->
        IF IsPrefix(p, q) /\ SubSeq(q, Len(p) + 1, Len(q)) \in DOMAIN body
            THEN body[SubSeq(q, Len(p) + 1, Len(q))]
        ELSE IF \E r \in DOMAIN body : IsPrefix(p, q) /\ IsStrictPrefix(q, p \o r) THEN Dir
        ELSE t[q]]

\* A bug for FilesWereUploaded: the body is written to the root.
StoredAtRoot(t, p, body) ==
    [q \in Paths |-> IF q \in DOMAIN body THEN body[q]
                      ELSE IF \E r \in DOMAIN body : IsStrictPrefix(q, r) THEN Dir
                      ELSE t[q]]

\* The directories above p exist, and at p and below it there is the body.
Stored(t, p, body) ==
    [q \in Paths |->
        IF IsPrefix(p, q) /\ SubSeq(q, Len(p) + 1, Len(q)) \in DOMAIN body
            THEN body[SubSeq(q, Len(p) + 1, Len(q))]
        ELSE IF IsStrictPrefix(q, p) \/ \E r \in DOMAIN body : IsStrictPrefix(q, p \o r)
            THEN Dir
        ELSE t[q]]

\* DownloadFileRequestHandler.route: the names in the archive are relative to
\* the root of the storage, not to the directory that is asked for.
Archive(t, p) == [q \in FilesUnder(t, p) |-> t[q]]

\* A bug for ListIsTree: "parent +" is left out.
BlockUnplaced(t, p, q) == [dir |-> IsDir(t, q), name |-> <<Last(q)>>]

Block(t, p, q) == [dir |-> IsDir(t, q), name |-> SubSeq(q, Len(p) + 1, Len(q))]

\* sort(): the entries of one directory in the order of their names.
Sorted(S) ==
    CHOOSE s \in [1..Cardinality(S) -> S] :
        \A i, j \in DOMAIN s : i < j => Last(s[i]) < Last(s[j])

\* What load_directory returns for d, when load has what it returns for the
\* directories in d: the directories in their order, each followed by what it
\* holds, and then the files.
Loaded(t, p, recursive, load, d) ==
    LET dirs == Sorted({q \in Children(d) : IsDir(t, q)})
        files == Sorted({q \in Children(d) : IsFile(t, q)})
    IN  FlattenSeq([i \in DOMAIN dirs |->
            <<Block(t, p, dirs[i])>> \o (IF recursive THEN load[dirs[i]] ELSE << >>)])
        \o [i \in DOMAIN files |-> Block(t, p, files[i])]

LoadDirectory(t, p, recursive) ==
    LET load[d \in Paths] == Loaded(t, p, recursive, load, d)
    IN  load[p]

-----------------------------------------------------------------------------
(***************************************************************************)
(* create_handler: which storage a request is let into, and what data.json *)
(* and the trees are then.  A user name that is not recorded is recorded.  *)
(* No uuid4 is that of a user; that it is not that of a directory is       *)
(* looked up.                                                              *)
(***************************************************************************)
FreshIds == {id \in UserIds : ~IsDir(tree[id], << >>)
                              /\ \A u \in Users : users[u] # Nothing => users[u].id # id}

\* A bug for RegisteredStays: data.json is written with the new user alone.
RecordedAlone(user, data) == [NoUsers EXCEPT ![user] = data]

Recorded(user, data) == [users EXCEPT ![user] = data]

Entrances(r) ==
    IF r.user = Anonymous
        THEN {[storage |-> Public, tree |-> tree, users |-> users]}
    ELSE IF users[r.user] = Nothing
        THEN {[storage |-> id,
               tree |-> [tree EXCEPT ![id] = EmptyTree],
               users |-> Recorded(r.user, [id |-> id, password |-> r.password])]
              : id \in FreshIds}
    ELSE IF users[r.user].password = r.password
        THEN {[storage |-> users[r.user].id, tree |-> tree, users |-> users]}
    ELSE {}

Registers(r, e) ==
    registered' = registered \cup
        (IF r.user = Anonymous THEN {} ELSE {[user |-> r.user, data |-> e.users[r.user]]})

UsersReadable(r) == r.user = Anonymous \/ usersFile = "whole"

\* The Request is received, and Pocket.from_bytes can read it.
Receives(r) ==
    /\ mode = "up"
    /\ handled < MaxRequests
    /\ handled' = handled + 1
    /\ r.path # Garbled

\* create_handler lets it in, and the handler has the tree t of its storage.
Enters(r, e) ==
    /\ Receives(r)
    /\ UsersReadable(r)
    /\ e \in Entrances(r)
    /\ Registers(r, e)
    /\ users' = e.users

\* A bug for TypeOK: the handlers outlive the process.
EndsWithHandlers(how) ==
    /\ mode' = how
    /\ reply' = Nothing
    /\ UNCHANGED uploads

\* The process ends; the handlers are gone, what is on the disk stays.
Ends(how) ==
    /\ mode' = how
    /\ uploads' = {}
    /\ reply' = Nothing

Killed ==
    /\ crashes < MaxCrashes
    /\ crashes' = crashes + 1
    /\ Ends("killed")

HandleGarbled(r) ==
    /\ mode = "up"
    /\ handled < MaxRequests
    /\ handled' = handled + 1
    /\ r.path = Garbled
    /\ Ends("garbled")
    /\ UNCHANGED <<disk, history, crashes>>

\* json.load raises on an empty data.json.
HandleUnknowable(r) ==
    /\ Receives(r)
    /\ ~UsersReadable(r)
    /\ Ends("raised")
    /\ UNCHANGED <<disk, history, crashes>>

HandleWrongPassword(r) ==
    /\ Receives(r)
    /\ UsersReadable(r)
    /\ r.user # Anonymous /\ users[r.user] # Nothing
    /\ users[r.user].password # r.password
    /\ reply' = Nothing
    /\ UNCHANGED <<disk, mode, uploads, history, crashes>>

\* The process is killed after the mkdir of the new user, before data.json is
\* opened, or after that and before it is written.
DieRegistering(r) ==
    /\ Receives(r)
    /\ UsersReadable(r)
    /\ r.user # Anonymous /\ users[r.user] = Nothing
    /\ Killed
    /\ \E e \in Entrances(r) : tree' = e.tree
    /\ \/ UNCHANGED <<users, usersFile>>
       \/ usersFile' = "empty" /\ users' = NoUsers
    /\ UNCHANGED history

-----------------------------------------------------------------------------
(***************************************************************************)
(* The handlers.                                                           *)
(***************************************************************************)
Refuse ==
    /\ reply' = Nothing
    /\ UNCHANGED <<usersFile, mode, uploads, accepted, crashes>>

\* The path is echoed in the message, whose length has to fit in one byte; not
\* that of an upload which is longer than FILE_PATH_MAX_LENGTH.
MessageTooLong(r) ==
    IF r.kind = "upload" THEN r.path = FarOutside
                         ELSE r.path \in {FarOutside, Long} \cup Unechoed

Missing(r, t) ==
    CASE r.kind = "upload" -> r.path \notin Paths
      [] r.kind = "list" -> ~IsDir(t, r.path)
      [] OTHER -> ~IsDir(t, r.path) /\ ~IsFile(t, r.path)

HandleRefused(r) ==
    \E e \in Entrances(r) :
        /\ Enters(r, e)
        /\ tree' = e.tree
        /\ Missing(r, e.tree[e.storage])
        /\ IF MessageTooLong(r)
              THEN Ends("garbled") /\ UNCHANGED <<usersFile, accepted, crashes>>
              ELSE Refuse

HandleUpload(r) ==
    \E e \in Entrances(r) :
        LET upload == [number |-> handled + 1, storage |-> e.storage,
                       path |-> r.path, body |-> r.body]
        IN  /\ Enters(r, e)
            /\ r.kind = "upload" /\ r.path \in Paths
            /\ tree' = e.tree
            /\ uploads' = uploads \cup {upload}
            /\ accepted' = accepted \cup {upload}
            /\ reply' = Nothing
            /\ UNCHANGED <<usersFile, mode, crashes>>

\* The data is taken when the request is handled, whenever it is sent.
HandleDownload(r) ==
    \E e \in Entrances(r) :
        LET t == e.tree[e.storage]
        IN  /\ Enters(r, e)
            /\ r.kind = "download" /\ ~Missing(r, t)
            /\ tree' = e.tree
            /\ reply' = [kind |-> "download", storage |-> e.storage, path |-> r.path,
                         data |-> Archive(t, r.path)]
            /\ UNCHANGED <<usersFile, mode, uploads, accepted, crashes>>

HandleList(r) ==
    \E e \in Entrances(r) :
        LET t == e.tree[e.storage]
        IN  /\ Enters(r, e)
            /\ r.kind = "list" /\ ~Missing(r, t)
            /\ tree' = e.tree
            /\ reply' = [kind |-> "list", storage |-> e.storage, path |-> r.path,
                         recursive |-> r.recursive,
                         data |-> LoadDirectory(t, r.path, r.recursive)]
            /\ UNCHANGED <<usersFile, mode, uploads, accepted, crashes>>

\* The root of a storage is emptied, but stays a directory.
Deleted(t, p) ==
    IF p = << >> /\ IsDir(t, p) THEN EmptyTree ELSE Removed(t, p)

HandleDelete(r) ==
    \E e \in Entrances(r) :
        LET t == e.tree[e.storage]
        IN  /\ Enters(r, e)
            /\ r.kind = "delete" /\ ~Missing(r, t)
            /\ tree' = [e.tree EXCEPT ![e.storage] = Deleted(t, r.path)]
            /\ reply' = Nothing
            /\ UNCHANGED <<usersFile, mode, uploads, accepted, crashes>>

\* The process is killed in shutil.rmtree, or in the loop that empties a root.
DieDeleting(r) ==
    \E e \in Entrances(r) :
        LET t == e.tree[e.storage]
        IN  /\ Enters(r, e)
            /\ r.kind = "delete" /\ ~Missing(r, t)
            /\ Killed
            /\ \E S \in Removals(t, r.path) :
                /\ r.path = << >> /\ IsDir(t, r.path) => r.path \notin S
                /\ tree' = [e.tree EXCEPT ![e.storage] = Without(t, S)]
            /\ UNCHANGED <<usersFile, accepted>>

-----------------------------------------------------------------------------
(***************************************************************************)
(* post_upload, when the last segment is there: what is at the target is   *)
(* removed, the directories above it are made, and the body is written.    *)
(***************************************************************************)
Finishes(u) == mode = "up" /\ u \in uploads

PostUpload(u) ==
    /\ Finishes(u)
    /\ MayMake(tree[u.storage], u.path)
    /\ MayName(u.path, u.body)
    /\ tree' = [tree EXCEPT ![u.storage] = Stored(Removed(@, u.path), u.path, u.body)]
    /\ uploads' = uploads \ {u}
    /\ reply' = Nothing
    /\ UNCHANGED <<users, usersFile, mode, history, handled, crashes>>

\* Down to q the directories above p are made.
MadeDownTo(p) == {q \in Paths : IsPrefix(q, p) /\ (q = << >> \/ Nameable(Front(q)))}

\* makedirs, open or extractall raises, in main_loop: at a file, or at the
\* first name that no file can have.  There is nothing at the target then.
PostUploadRaises(u) ==
    LET t == tree[u.storage]
    IN  /\ Finishes(u)
        /\ Ends("raised")
        /\ \/ ~MayMake(t, u.path) /\ UNCHANGED tree
           \/ /\ MayMake(t, u.path)
              /\ ~MayName(u.path, u.body)
              /\ \E q \in MadeDownTo(u.path) :
                    ~Nameable(q) /\ tree' = [tree EXCEPT ![u.storage] = Made(@, q)]
        /\ UNCHANGED <<users, usersFile, history, handled, crashes>>

\* Of the body only a part is there.
Parts(body) ==
    {[q \in S |-> IF q \in T THEN Torn ELSE body[q]] :
        S \in SUBSET DOMAIN body, T \in {{}} \cup {{q} : q \in DOMAIN body}}

\* The process is killed while the old content is removed, while the
\* directories are made, or while the body is written.
DieUploading(u) ==
    LET t == tree[u.storage]
        To(new) == tree' = [tree EXCEPT ![u.storage] = new]
    IN  /\ Finishes(u)
        /\ Killed
        /\ \/ \E S \in Removals(t, u.path) : To(Without(t, S))
           \/ /\ MayMake(t, u.path)
              /\ \E q \in MadeDownTo(u.path) : To(Made(Removed(t, u.path), q))
           \/ /\ MayMake(t, u.path)
              /\ MayName(u.path, u.body)
              /\ \E part \in Parts(u.body) : To(Stored(Removed(t, u.path), u.path, part))
        /\ UNCHANGED <<users, usersFile, history, handled>>

-----------------------------------------------------------------------------
Kill ==
    /\ mode = "up"
    /\ Killed
    /\ UNCHANGED <<disk, history, handled>>

\* init_strorage: mkdir raises when the root of the anonymous storage is a file.
Restart ==
    /\ mode # "up"
    /\ ~IsFile(tree[Public], << >>)
    /\ tree' = [tree EXCEPT ![Public][<< >>] = Dir]
    /\ mode' = "up"
    /\ reply' = Nothing
    /\ UNCHANGED <<users, usersFile, uploads, history, handled, crashes>>

Next ==
    \/ Kill
    \/ Restart
    \/ \E r \in Requests :
        \/ HandleGarbled(r)
        \/ HandleUnknowable(r)
        \/ HandleWrongPassword(r)
        \/ DieRegistering(r)
        \/ HandleRefused(r)
        \/ HandleUpload(r)
        \/ HandleDownload(r)
        \/ HandleList(r)
        \/ HandleDelete(r)
        \/ DieDeleting(r)
    \/ \E u \in uploads :
        \/ PostUpload(u)
        \/ PostUploadRaises(u)
        \/ DieUploading(u)

Spec == Init /\ [][Next]_vars

-----------------------------------------------------------------------------
\* What is in a storage is in a directory of it, whatever was uploaded,
\* deleted or cut in between: post_upload makes the directories that others
\* have removed since the upload was accepted.
TreeSound ==
    \A s \in Storages : \A p \in Paths \ {<< >>} :
        tree[s][p] # Free => IsDir(tree[s], Front(p))

\* Every file comes from an upload that was let into this very storage, and
\* is where that upload put it (create_handler, post_upload).
FilesWereUploaded ==
    \A s \in Storages : \A p \in FilesUnder(tree[s], << >>) :
        \E u \in accepted : \E q \in DOMAIN u.body :
            u.storage = s /\ u.path \o q = p /\ tree[s][p] \in {u.body[q], Torn}

\* A listing has every file and directory below the path, or with the
\* recursive option at any depth below it, once and as what it is, and a
\* directory before what it holds (load_directory).
ListIsTree ==
    reply # Nothing /\ reply.kind = "list" =>
        LET t == tree[reply.storage]
            blocks == reply.data
            Place(i) == reply.path \o blocks[i].name
        IN  /\ {Place(i) : i \in DOMAIN blocks} =
                    {q \in Paths : /\ IsStrictPrefix(reply.path, q) /\ t[q] # Free
                                   /\ reply.recursive \/ Len(q) = Len(reply.path) + 1}
            /\ \A i, j \in DOMAIN blocks :
                    /\ Place(i) = Place(j) => i = j
                    /\ IsStrictPrefix(Place(i), Place(j)) => i < j
            /\ \A i \in DOMAIN blocks : blocks[i].dir = IsDir(t, Place(i))

\* Apart from a path that cannot be decoded or echoed (mode "garbled"), an
\* exception of a handler ends the server only when data.json was cut, when an
\* upload was accepted for a name that no file can have, or when one upload
\* puts a file where another needs a directory: the order in which they are
\* accepted and stored, a delete in between, or a kill in any of this, does not
\* matter (post_upload: open and makedirs are not tried on acceptance).
EndsOnlyByConflict ==
    mode = "raised" =>
        \/ usersFile = "empty"
        \/ \E a \in accepted : ~Nameable(a.path)
        \/ \E a, b \in accepted : \E q \in DOMAIN a.body :
                a.storage = b.storage /\ IsStrictPrefix(a.path \o q, b.path)

\* A user who was let in once has the same storage and password for as long
\* as data.json is whole, over kills and restarts, and shares the storage
\* with nobody (create_handler).
RegisteredStays ==
    usersFile = "whole" =>
        /\ \A g \in registered : users[g.user] = g.data
        /\ \A g, h \in registered : g.data.id = h.data.id => g.user = h.user

Store == INSTANCE FileStore WITH
    Bodies <- {r.body : r \in Requests},
    Cut <- Parts,
    files <- [s \in Storages |-> Archive(tree[s], << >>)],
    answer <- IF reply # Nothing /\ reply.kind = "download" THEN reply.data ELSE Nothing,
    running <- mode = "up"

\* The trees implement FileStore, downloads included: directories, archives,
\* the special cases of the root of a storage, and uploads and deletes that
\* are cut by a kill never touch a file that is not at the target or below it,
\* and what is not cut is all there or all gone.
ImplementsFileStore == Store!StoreSpec
=============================================================================
