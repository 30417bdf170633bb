--------------------------- MODULE MessageArchive ---------------------------
(***************************************************************************)
(* What the chat store promises to those who use it: a set of messages,    *)
(* some of which say that their file is on disk, and the files.  No chat   *)
(* header, ObjectId, check for duplicates or query is visible here, only   *)
(* what a request may do to messages and files: a message is kept once,    *)
(* with a path only if the same request has written its file; a file goes  *)
(* by a discard of that very file, and messages and files by a purge of    *)
(* their own number that reaches them by time or by name, be it after the  *)
(* purge has failed.                                                       *)
(*                                                                         *)
(* ChatStore implements this specification (its PROPERTY Archive!Spec),    *)
(* however its handlers overlap, calls reject and the process restarts.    *)
(***************************************************************************)
EXTENDS Naturals

CONSTANTS
    Messages,       \* wamids
    WaIdOf,         \* the number each message is exchanged with
    TimeOf,         \* the timestamp of each message
    Numbers,        \* waId values
    Sinces,         \* values of `since' of a purge
    Handlers        \* requests in flight

VARIABLES
    kept,           \* the messages
    linked,         \* those that say where their file is
    files,          \* the messages that have a file on disk
    task,           \* what each request was asked to do
    doomed          \* files that a failed purge is still deleting

vars == <<kept, linked, files, task, doomed>>

Nothing == [does |-> "nothing"]

\* written: this request has written the file.
KeepTask(m, written) == [does |-> "keep", msg |-> m, written |-> written]

DropTask(m) == [does |-> "drop", msg |-> m]

PurgeTask(number, since, ids) ==
    [does |-> "purge", number |-> number, since |-> since, ids |-> ids]

Turns(h, t) == task' = [task EXCEPT ![h] = t]

Asked(h, what) == task[h].does = what

Init ==
    /\ kept = {} /\ linked = {} /\ files = {}
    /\ task = [h \in Handlers |-> Nothing]
    /\ doomed = {}

-----------------------------------------------------------------------------

\* A request arrives: a message was received or sent, the file that a message
\* points to is rejected, or the CRM removes a candidate.
Begin(h) ==
    /\ Asked(h, "nothing")
    /\ \/ \E m \in Messages : Turns(h, KeepTask(m, FALSE))
       \/ \E m \in linked : Turns(h, DropTask(m))
       \/ \E number \in Numbers, since \in Sinces, ids \in SUBSET Messages :
             Turns(h, PurgeTask(number, since, ids))
    /\ UNCHANGED <<kept, linked, files, doomed>>

\* What a purge is allowed to delete.
Covers(t, m) ==
    /\ WaIdOf[m] = t.number
    /\ TimeOf[m] >= t.since \/ m \in t.ids

\* A request ends: it is done, or fails.  A purge that fails may go on to
\* delete files it was asked to delete.
End(h) ==
    /\ ~Asked(h, "nothing")
    /\ Turns(h, Nothing)
    /\ \E left \in SUBSET {m \in Messages : Asked(h, "purge")
                                              /\ Covers(task[h], m)} :
          doomed' = doomed \cup left
    /\ UNCHANGED <<kept, linked, files>>

DeleteDoomed ==
    /\ \E m \in doomed : files' = files \ {m} /\ doomed' = doomed \ {m}
    /\ UNCHANGED <<kept, linked, task>>

\* The folder of the message is there; the file may be incomplete.
WriteFile(h) ==
    /\ Asked(h, "keep")
    /\ files' = files \cup {task[h].msg}
    /\ \/ Turns(h, KeepTask(task[h].msg, TRUE))
       \/ UNCHANGED task
    /\ UNCHANGED <<kept, linked, doomed>>

\* A message is kept once, and left alone from then on.
KeepMessage(h) ==
    /\ Asked(h, "keep") /\ task[h].msg \notin kept
    /\ kept' = kept \cup {task[h].msg}
    /\ linked' = IF task[h].written THEN linked \cup {task[h].msg} ELSE linked
    /\ Turns(h, Nothing)
    /\ UNCHANGED <<files, doomed>>

DropFile(h) ==
    /\ Asked(h, "drop")
    /\ files' = files \ {task[h].msg}
    /\ UNCHANGED <<kept, linked, task, doomed>>

UnlinkMessage(h) ==
    /\ Asked(h, "drop")
    /\ linked' = linked \ {task[h].msg}
    /\ Turns(h, Nothing)
    /\ UNCHANGED <<kept, files, doomed>>

PurgeFile(h) ==
    /\ Asked(h, "purge")
    /\ \E m \in files : Covers(task[h], m) /\ files' = files \ {m}
    /\ UNCHANGED <<kept, linked, task, doomed>>

PurgeMessages(h) ==
    /\ Asked(h, "purge")
    /\ \E gone \in SUBSET {m \in kept : Covers(task[h], m)} :
          kept' = kept \ gone /\ linked' = linked \ gone
    /\ UNCHANGED <<files, task, doomed>>

Restart ==
    /\ task' = [h \in Handlers |-> Nothing]
    /\ doomed' = {}
    /\ UNCHANGED <<kept, linked, files>>

Next ==
    \/ \E h \in Handlers :
          \/ Begin(h) \/ End(h)
          \/ WriteFile(h) \/ KeepMessage(h)
          \/ DropFile(h) \/ UnlinkMessage(h)
          \/ PurgeFile(h) \/ PurgeMessages(h)
    \/ DeleteDoomed
    \/ Restart

Spec == Init /\ [][Next]_vars
=============================================================================
