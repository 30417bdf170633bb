-------------------------- MODULE MCCandidateFiles --------------------------
(***************************************************************************)
(* A small instance of CandidateFiles for TLC.                             *)
(***************************************************************************)
EXTENDS CandidateFiles, FiniteSets, TLC

CONSTANTS ana, cv, clip, reply, line1, line2, phone1

PhoneOfAna == [c \in {ana} |-> phone1]

KindByName == [m \in WithMedia |-> IF m = cv THEN "pdf" ELSE "video"]

\* One number on two lines: what is sent is on the second.
LineOfMessage == [m \in Wamids |-> IF m = reply THEN line2 ELSE line1]
NumberOfLine == [k \in Lines |-> phone1]

\* What is sent, then the CV, then the video.
TimeOfMessage == [m \in Wamids |-> CASE m = cv -> 2 [] m = clip -> 3
                                     [] OTHER -> 1]

\* No guard and no property of the run reads texts, heard, removed or purged.
WithoutHistory == <<store, handler, loose, faulty, sessionState, capture,
                    events, rejected, slot, past>>

\* Ids are interchangeable: a new header gets the first that is free.
FirstNewId ==
    \A k \in Lines : chats[k] = None /\ chats'[k] # None
        => chats'[k].id = CHOOSE id \in NewIds : TRUE

\* Bound: the first call of all that rejects leaves one branch running, later
\* ones none; until it has ended no call of the capture rejects, and no
\* capture starts.
OneLeftover ==
    \/ loose' = NothingLoose
    \/ /\ ~rejected'
       /\ \A h \in Handlers :
              slot[h].at = "free" => capture'[h].pc # "opening"
       /\ \/ UNCHANGED handler
          \/ UNCHANGED loose
          \/ /\ ~faulty
             /\ Cardinality(loose'.upsert) + Cardinality(loose'.rm)
                    + Cardinality(loose'.unread)
                    + Cardinality(loose'.latest) = 1
=============================================================================
