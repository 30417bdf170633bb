--------------------------- MODULE CandidateFiles ---------------------------
(***************************************************************************)
(* The files of recruiting candidates: the chat store and the recruiting   *)
(* capture, as the webhook and the commands of the CRM put them to work.   *)
(* A message is stored with its file, then routed to the capture, which    *)
(* looks the file up, has it discarded or tells the CRM of it; the CRM     *)
(* has a removed candidate's session ended and the messages purged.        *)
(*                                                                         *)
(* Every step is one of ChatStore or of RecruitingCapture, or of both.  A  *)
(* slot is one request or command, with its handler in either.  What the   *)
(* webhook does besides, with several messages in one payload, is in       *)
(* Webhook; the copy of a text that the capture sends is stored by a slot  *)
(* of its own, as any message that is sent.                                *)
(***************************************************************************)
EXTENDS ChatStore

CONSTANTS
    Candidates, PhoneOf, KindOf, Fields,        \* as in RecruitingCapture
    ToolRoundsMax, ToolCallsMax, ToolsCalled

VARIABLES
    sessions, newer,    \* the sessions of RecruitingCapture,
    capture,            \* its handlers,
    events, texts, heard,   \* what it told the CRM and the candidates,
    rejected,           \* and whether a call of it has failed
    slot,               \* what each request is doing
    forgotten,          \* history: messages whose folder a purge removed
    earlier             \* history: reported before the number's last capture

Capture == INSTANCE RecruitingCapture WITH
    Phones   <- Numbers,
    Media    <- WithMedia,
    SenderOf <- [m \in WithMedia |-> NumberOf[LineOf[m]]],
    handler  <- capture,
    faulty   <- rejected

\* What RecruitingCapture assumes of its constants.
ASSUME CandidatesAssumption ==
    /\ PhoneOf \in [Candidates -> Numbers]
    /\ KindOf \in [WithMedia -> {"pdf", "video", "other"}]
    /\ ToolsCalled \subseteq Capture!Tools
    /\ ToolRoundsMax \in Nat \ {0}
    /\ ToolCallsMax \in Nat \ {0}

ASSUME NoCandidateAssumption ==
    /\ None \notin Capture!Session
    /\ None \notin Candidates
    /\ None \notin Capture!Texts

\* What the capture has told the CRM, and the rest of its state.
sessionState == <<sessions, newer>>
captureVars == <<sessionState, capture, events, texts, heard, rejected>>
past == <<forgotten, earlier>>
fileVars == <<vars, captureVars, slot, past>>

SlotPoints == {"free", "persist", "route", "capture", "discard", "send",
               "ended", "purge"}

Slot == [at : SlotPoints, msg : Wamids \cup {None},
         cand : Candidates \cup {None},
         since : Nat, ids : SUBSET WithMedia]     \* of a purge's payload

Message(point, m) ==
    [at |-> point, msg |-> m, cand |-> None, since |-> 0, ids |-> {}]

Free == Message("free", None)

FilesInit ==
    /\ Init /\ Capture!Init
    /\ slot = [h \in Handlers |-> Free]
    /\ forgotten = {} /\ earlier = {}

Takes(h, s) == slot' = [slot EXCEPT ![h] = s]

Moves(h, point) ==
    Takes(h, IF point = "free" THEN Free ELSE [slot[h] EXCEPT !.at = point])

\* Event e tells the CRM of file m.
TellsOf(e, m) ==
    /\ e.action \in {"recruiting.cv_received", "recruiting.video_received"}
    /\ e.item = m

\* The files of c that the CRM was told of.
Reported(c) ==
    {m \in WithMedia : \E e \in events : e.cand = c /\ TellsOf(e, m)}

-----------------------------------------------------------------------------
(* The webhook: a message is stored, then routed.                          *)

\* webhookPost begins with persistInboundWebhookPayload.
Deliver(h, m) ==
    /\ slot[h].at = "free"
    /\ ReceiveInbound(h, m)
    /\ Takes(h, Message("persist", m))
    /\ UNCHANGED <<captureVars, past>>

\* A message sent by anybody is stored.
Sent(h, m) ==
    /\ slot[h].at = "free"
    /\ SendAccepted(h, m)
    /\ Takes(h, Message("send", m))
    /\ UNCHANGED <<captureVars, past>>

\* What comes after the store's part.
AfterStore(point) ==
    CASE point = "persist" -> "route"
      [] point = "discard" -> "discard"
      [] OTHER -> "free"

\* A purge deletes the folder of m in this step.
Deletes(h, m) == At(h, "rm") /\ m \in handler[h].rm /\ m \notin handler'[h].rm

StoreRuns(h) ==
    /\ slot[h].at \in {"persist", "discard", "send", "purge"}
    /\ Progress(h)
    /\ IF handler'[h].pc = "idle"
       THEN Moves(h, AfterStore(slot[h].at)) ELSE UNCHANGED slot
    /\ forgotten' = {m \in WithMedia : m \in forgotten \/ Deletes(h, m)}
    /\ UNCHANGED <<captureVars, earlier>>

\* A rejection of persistInboundWebhookPayload is logged, and the message is
\* routed all the same; a command or a send answers an error.  What the call
\* leaves running goes on next to whatever comes.
StoreRejects(h) ==
    /\ slot[h].at \in {"persist", "send", "purge"}
    /\ CutOff(h)
    /\ Moves(h, AfterStore(slot[h].at))
    /\ UNCHANGED <<captureVars, past>>

\* A branch left running by a call that has rejected.
LooseRuns ==
    /\ GoesOnLoose
    /\ forgotten' = {m \in WithMedia :
                        \/ m \in forgotten
                        \/ m \in loose.rm /\ m \notin loose'.rm}
    /\ UNCHANGED <<captureVars, slot, earlier>>

\* The CRM is told of the message, which may reject and end the request;
\* then findSessionByPhone, and the webhook's other handlers without one.
Route(h) ==
    LET m     == slot[h].msg
        phone == NumberOf[LineOf[m]]
    IN  /\ slot[h].at = "route"
        /\ \/ /\ IF m \in WithMedia THEN Capture!ReceiveMedia(h, m)
                                    ELSE Capture!ReceiveText(h, phone)
              /\ Moves(h, "capture")
           \/ Moves(h, "free") /\ UNCHANGED captureVars
        /\ UNCHANGED <<vars, past>>

-----------------------------------------------------------------------------
(* The capture.                                                            *)

\* findInboundMediaByWhatsappMessageId: the path, which says nothing of disk.
HasPath(m) == rows[m] # None /\ rows[m].linked

\* Mutant: a video that is not awaited is left alone.
RejectsOther(h) ==
    /\ HasPath(capture[h].media)
    /\ ~Capture!WantsCv(capture[h].sess)

\* rejectNonPdfCv.
Rejects(h) ==
    /\ HasPath(capture[h].media)
    /\ Capture!WantsCv(capture[h].sess)
    /\ KindOf[capture[h].media] # "pdf"

Listens(h) == slot[h].at = "capture" /\ Capture!At(h, "media")

\* The lookup, and what the stage makes of the file.
LookUpFile(h) ==
    /\ Listens(h) /\ ~Rejects(h)
    /\ Capture!TakeMedia(h, HasPath(capture[h].media))
    /\ UNCHANGED <<vars, sessionState, events, texts, heard, rejected>>
    /\ UNCHANGED <<slot, past>>

\* The file is no CV: discardInboundMedia is called.
RejectFile(h) ==
    /\ Listens(h) /\ Rejects(h)
    /\ StartDiscard(h, capture[h].media)
    /\ Moves(h, "discard")
    /\ UNCHANGED <<captureVars, past>>

\* The discard has ended; the candidate is told.
FileRejected(h) ==
    /\ slot[h].at = "discard" /\ At(h, "idle") /\ Capture!At(h, "media")
    /\ Capture!TakeMedia(h, TRUE)
    /\ Moves(h, "capture")
    /\ UNCHANGED <<vars, sessionState, events, texts, heard, rejected, past>>

\* A call of the discard rejects, and the capture with it.
DiscardRejects(h) ==
    /\ slot[h].at = "discard"
    /\ CutOff(h) /\ Capture!CallRejects(h)
    /\ Moves(h, "capture")
    /\ UNCHANGED past

\* The capture's other steps; its lookup may reject.
CaptureRuns(h) ==
    /\ slot[h].at = "capture"
    /\ Capture!Progress(h)
    /\ Capture!At(h, "media") => Capture!CallRejects(h)
    /\ IF capture'[h].pc = "idle" THEN Moves(h, "free") ELSE UNCHANGED slot
    /\ UNCHANGED <<vars, past>>

-----------------------------------------------------------------------------
(* Commands of the CRM.                                                    *)

\* send.recruiting_capture_start, once its template is sent.
Start(h, c, prefilled) ==
    /\ slot[h].at = "free"
    /\ Capture!StartCapture(h, c, prefilled)
    /\ Moves(h, "capture")
    /\ earlier' = {m \in WithMedia : \/ m \in earlier
                                     \/ /\ NumberOf[LineOf[m]] = PhoneOf[c]
                                        /\ \E e \in events : TellsOf(e, m)}
    /\ UNCHANGED <<vars, forgotten>>

\* Mutant: the messages are purged and the session stays.
SessionStays(h, c) == UNCHANGED captureVars

EndSession(h, c) == Capture!EndSessionForCandidate(h, c)

\* recruiting.purge_candidate: the CRM names the files it was told of.
PurgeCandidate(h, c, since) ==
    /\ slot[h].at = "free"
    /\ EndSession(h, c)
    /\ Takes(h, [at |-> "ended", msg |-> None, cand |-> c, since |-> since,
                 ids |-> Reported(c)])
    /\ UNCHANGED <<vars, past>>

\* purgeRecruitingMessages, if the number has chats.
PurgeMessages(h) ==
    LET s == slot[h] IN
    /\ s.at = "ended"
    /\ StartPurge(h, PhoneOf[s.cand], s.since, s.ids)
    /\ Moves(h, "purge")
    /\ UNCHANGED <<captureVars, past>>

NothingToPurge(h) ==
    /\ slot[h].at = "ended"
    /\ \A k \in Lines : NumberOf[k] = PhoneOf[slot[h].cand] => chats[k] = None
    /\ Moves(h, "free")
    /\ UNCHANGED <<vars, captureVars, past>>

-----------------------------------------------------------------------------

\* The process restarts.
Crash ==
    /\ loose # NothingLoose \/ \E h \in Handlers : slot[h].at # "free"
    /\ IF loose = NothingLoose /\ \A h \in Handlers : At(h, "idle")
       THEN UNCHANGED vars ELSE Restart
    /\ IF \A h \in Handlers : Capture!At(h, "idle")
       THEN UNCHANGED captureVars ELSE Capture!Crash
    /\ slot' = [h \in Handlers |-> Free]
    /\ UNCHANGED past

Arrives(h) ==
    \/ \E m \in Inbound : Deliver(h, m)
    \/ \E m \in Outbound : Sent(h, m)
    \/ \E c \in Candidates :
          \/ \E prefilled \in SUBSET Fields : Start(h, c, prefilled)
          \/ \E since \in Sinces : PurgeCandidate(h, c, since)

Proceeds(h) ==
    \/ StoreRuns(h) \/ StoreRejects(h) \/ Route(h)
    \/ LookUpFile(h) \/ RejectFile(h) \/ FileRejected(h) \/ DiscardRejects(h)
    \/ CaptureRuns(h)
    \/ PurgeMessages(h) \/ NothingToPurge(h)

FilesNext ==
    \/ \E h \in Handlers : Arrives(h) \/ Proceeds(h)
    \/ LooseRuns
    \/ Crash

FilesSpec == FilesInit /\ [][FilesNext]_fileVars

-----------------------------------------------------------------------------

\* The CRM was told of file m with this event.
ToldOf(action, m) == \E e \in events : e.action = action /\ e.item = m

\* A CV that the CRM was told of is on disk until a purge deletes it, whatever
\* calls overlap, fail, or repeat: the capture discards no file that it, or
\* another reply, may have reported.
CvFilesAreKept ==
    \A m \in WithMedia :
        ToldOf("recruiting.cv_received", m) => m \in files \cup forgotten

\* So is the video until the number's next capture, with one request at a time
\* and until something fails, though the same video may have come before the
\* CV and been discarded.  (A new capture awaits a CV again, and a video that
\* is delivered again is no CV.)
VideoFilesAreKept ==
    ~faulty => \A m \in WithMedia :
        ToldOf("recruiting.video_received", m)
            => m \in files \cup forgotten \cup earlier

\* Message m hangs from a header that is gone: no purge finds it.  What a purge
\* that failed has left running may delete the header of a message stored
\* since.
Headless(m) ==
    rows[m] # None /\ \A k \in Lines : chats[k] # None =>
                          chats[k].id # rows[m].chat

\* "End the capture session and delete its WhatsApp messages and media files":
\* with one request at a time, when the purge command ends, without a
\* rejection, the candidate has no session, of the number's messages none is
\* left that is recent or whose file the CRM was told of, and, unless a call
\* failed before, no such file is.  A message without a header stays, unless
\* the purge has itself deleted the header.
PurgedIsForgotten ==
    [][\A h \in Handlers :
          (slot[h].at = "purge" /\ PurgeDone(h)) \/ NothingToPurge(h) =>
              LET s == slot[h]
                  Recent(m) == TimeOf[m] >= s.since
                                  /\ NumberOf[LineOf[m]] = PhoneOf[s.cand]
              IN  /\ sessions'[s.cand] = None
                  /\ \A m \in Wamids : Recent(m) \/ m \in s.ids =>
                        /\ \/ rows'[m] = None
                           \/ /\ Headless(m)
                              /\ s.at = "purge" =>
                                    rows[m].chat \notin
                                        handler[h].filter.chats
                        /\ ~faulty => m \notin files'
      ]_fileVars
=============================================================================
