---------------------------- MODULE UploadService ----------------------------
(***************************************************************************)
(* What the upload command promises its user, without segments, windows,   *)
(* packets or a network: a client asks for its file to be put in the       *)
(* storage; the server gets hold of the whole body, replaces what stood at *)
(* the destination by it, and the client may report success only from the  *)
(* moment the server holds the whole body.  RudpUpload implements it.      *)
(***************************************************************************)
CONSTANT Clients

VARIABLES
    outcome,    \* what the client process has told its user
    body        \* how far the server is with the file of the client

serviceVars == <<outcome, body>>

Outcomes == {"idle", "busy", "success", "failure"}
BodyStates == {"missing", "held", "removed", "stored"}

ServiceTypeOK ==
    /\ outcome \in [Clients -> Outcomes]
    /\ body \in [Clients -> BodyStates]

ServiceInit ==
    /\ outcome = [c \in Clients |-> "idle"]
    /\ body = [c \in Clients |-> "missing"]

\* The user runs "client upload".
Ask(c) ==
    /\ outcome[c] = "idle"
    /\ outcome' = [outcome EXCEPT ![c] = "busy"]
    /\ UNCHANGED body

\* The server has every byte of the body: from here on success may be told.
\* The client may have broken down meanwhile, with its last bytes under way.
Hold(c) ==
    /\ outcome[c] # "idle"
    /\ body[c] = "missing"
    /\ body' = [body EXCEPT ![c] = "held"]
    /\ UNCHANGED outcome

\* The old file goes first, the new one is written after it.
RemoveOld(c) ==
    /\ body[c] = "held"
    /\ body' = [body EXCEPT ![c] = "removed"]
    /\ UNCHANGED outcome

WriteNew(c) ==
    /\ body[c] = "removed"
    /\ body' = [body EXCEPT ![c] = "stored"]
    /\ UNCHANGED outcome

Succeed(c) ==
    /\ outcome[c] = "busy"
    /\ body[c] # "missing"
    /\ outcome' = [outcome EXCEPT ![c] = "success"]
    /\ UNCHANGED body

\* The request is refused or unanswered, or the client process breaks down.
Fail(c) ==
    /\ outcome[c] = "busy"
    /\ outcome' = [outcome EXCEPT ![c] = "failure"]
    /\ UNCHANGED body

ServiceNext ==
    \E c \in Clients :
        Ask(c) \/ Hold(c) \/ RemoveOld(c) \/ WriteNew(c) \/ Succeed(c) \/ Fail(c)

ServiceSpec == ServiceInit /\ [][ServiceNext]_serviceVars
=============================================================================
