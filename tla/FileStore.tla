------------------------------- MODULE FileStore -------------------------------
(***************************************************************************)
(* What the storage of the app promises: each storage holds files under    *)
(* paths.  An upload replaces whatever is at its path or below it, by one  *)
(* file or by the files of an archive; a delete removes what is at a path  *)
(* or below it; a download gives the files at a path or below it.  There   *)
(* are no directories: one is there because a file is below it.  Only when *)
(* the server ends in it may an upload or a delete be done in part.        *)
(***************************************************************************)
EXTENDS SequencesExt

CONSTANTS
    Storages,
    Paths,      \* sequences of names
    Bodies,     \* functions from paths below the target to contents
    Cut(_),     \* what may be there of a body that is not all there
    Nothing     \* the answer of a step that is not a download

VARIABLES files, answer, running

storeVars == <<files, answer, running>>

Below(s, p) == {q \in DOMAIN files[s] : IsPrefix(p, q)}

Kept(s, p) == DOMAIN files[s] \ Below(s, p)

StoreInit ==
    /\ files = [s \in Storages |-> << >>]
    /\ answer = Nothing
    /\ running = TRUE

Replace(s, p, body) ==
    LET placed == {p \o r : r \in DOMAIN body}
        File(q) == IF q \in placed THEN body[SubSeq(q, Len(p) + 1, Len(q))] ELSE files[s][q]
    IN  files' = [files EXCEPT ![s] = [q \in placed \cup Kept(s, p) |-> File(q)]]

Discard(s, gone) ==
    files' = [files EXCEPT ![s] = Restrict(files[s], DOMAIN files[s] \ gone)]

Put(s, p, body) ==
    /\ running /\ UNCHANGED running
    /\ Replace(s, p, body)
    /\ answer' = Nothing

Erase(s, p) ==
    /\ running /\ UNCHANGED running
    /\ Discard(s, Below(s, p))
    /\ answer' = Nothing

Fetch(s, p) ==
    /\ running /\ UNCHANGED running
    /\ answer' = Restrict(files[s], Below(s, p))
    /\ UNCHANGED files

\* The server ends while it puts or erases.
End(s, p) ==
    /\ running /\ running' = FALSE
    /\ \/ \E gone \in SUBSET Below(s, p) : Discard(s, gone)
       \/ \E body \in Bodies : \E part \in Cut(body) : Replace(s, p, part)
    /\ answer' = Nothing

\* Whatever else it does, it ends or starts.
Forget ==
    /\ answer' = Nothing
    /\ running' \in BOOLEAN
    /\ UNCHANGED files

StoreNext ==
    \/ Forget
    \/ \E s \in Storages, p \in Paths :
        \/ \E body \in Bodies : Put(s, p, body)
        \/ Erase(s, p)
        \/ Fetch(s, p)
        \/ End(s, p)

StoreSpec == StoreInit /\ [][StoreNext]_storeVars
=============================================================================
