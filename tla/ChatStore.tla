------------------------------ MODULE ChatStore ------------------------------
(***************************************************************************)
(* The chat store: chat headers and messages in MongoDB, media files on    *)
(* disk (ws-chat-msg-handler.service.ts and                                *)
(* whatsapp-local-media-storage.service.ts).                               *)
(*                                                                         *)
(* A handler is one call in flight: the persistence of an inbound message  *)
(* (by the webhook) or of an outbound one (after a send), the discard of a *)
(* rejected file (by the recruiting capture) or the purge of a candidate   *)
(* (by the CRM).  Each database or file call is one action; handlers       *)
(* interleave between them, and a call that rejects, or a restart, cuts    *)
(* its handler off.  A rejection inside a Promise.all answers the request  *)
(* and stops none of the other branches: they go on in the background,     *)
(* while the next requests come in.                                        *)
(*                                                                         *)
(* Data left out: texts, captions, names, payloads, file contents.         *)
(***************************************************************************)
EXTENDS Naturals

CONSTANTS
    Inbound,        \* wamids of messages received
    Outbound,       \* wamids of messages sent
    WithMedia,      \* inbound messages whose type is in MEDIA_TYPES
    Lines,          \* <<waId, phoneNumberId>> pairs: one chat header each
    Numbers,        \* waId values
    LineOf,         \* the line of each message
    NumberOf,       \* the waId of each line
    TimeOf,         \* the timestamp of each message
    Sinces,         \* values of `since' of a purge
    ChatIds,        \* ObjectIds of chat headers
    Handlers,       \* slots for calls in flight: bounds the concurrency
    None            \* no value

Wamids == Inbound \cup Outbound

ASSUME MessagesAssumption ==
    /\ WithMedia \subseteq Inbound
    /\ Inbound \cap Outbound = {}
    /\ LineOf \in [Wamids -> Lines]
    /\ NumberOf \in [Lines -> Numbers]
    /\ TimeOf \in [Wamids -> Nat]
    /\ Sinces \subseteq Nat

VARIABLES
    chats,      \* collection whatsapp_chats, by line
    rows,       \* collection whatsapp_messages, by its unique wamid
    files,      \* messages with a folder under the upload directory
    removed,    \* history: messages whose folder a discard or purge removed
    purged,     \* history: some purge has begun
    handler,    \* what each handler is doing
    loose,      \* the branches that calls already answered have left running
    faulty      \* some call has rejected, or the process has restarted

store   == <<chats, rows, files>>
history == <<removed, purged>>
vars    == <<store, history, handler, loose, faulty>>

Chat == [id : ChatIds, lastMessageAt : Nat]

\* linked: media.storedRelativePath is set.
Row == [chat : ChatIds, linked : BOOLEAN]

ASSUME NoneAssumption ==
    None \notin Chat \cup Row \cup ChatIds \cup Wamids \cup Nat

\* A purge: its number, the chat headers it found, oldest message, wamids.
Filter == [number : Numbers \cup {None}, chats : SUBSET ChatIds, since : Nat,
           ids : SUBSET Wamids]

NoFilter == [number |-> None, chats |-> {}, since |-> 0, ids |-> {}]

Points == {"idle", "lookup", "download", "sent", "upsert", "create",
           "discard", "unlink", "find", "rm", "deleteMany", "refresh"}

HandlerState ==
    [pc     : Points,
     msg    : Wamids \cup {None},
     dup    : {"unread", "yes", "no"},      \* what exists() said
     chat   : ChatIds \cup {None},          \* what the upsert returned
     linked : BOOLEAN,                      \* the download succeeded
     filter : Filter,
     rm     : SUBSET Wamids,                \* folders still to be deleted
     unread : SUBSET ChatIds,               \* refreshOrDeleteChat: not begun
     latest : SUBSET (ChatIds \X (Nat \cup {None}))]  \* ... its findOne done

\* Branches of a Promise.all that has rejected: the messages whose header is
\* still to be upserted, and as in HandlerState.  The same branch left twice
\* counts once.
Loose ==
    [upsert : SUBSET Wamids, rm : SUBSET WithMedia, unread : SUBSET ChatIds,
     latest : SUBSET (ChatIds \X (Nat \cup {None}))]

NothingLoose == [upsert |-> {}, rm |-> {}, unread |-> {}, latest |-> {}]

Entering(point, m) ==
    [pc |-> point, msg |-> m, dup |-> "unread", chat |-> None,
     linked |-> FALSE, filter |-> NoFilter, rm |-> {}, unread |-> {},
     latest |-> {}]

Idle == Entering("idle", None)

Becomes(h, r) == handler' = [handler EXCEPT ![h] = r]

Goes(h, point) == Becomes(h, [handler[h] EXCEPT !.pc = point])

At(h, point) == handler[h].pc = point

Init ==
    /\ chats = [k \in Lines |-> None]
    /\ rows = [m \in Wamids |-> None]
    /\ files = {} /\ removed = {} /\ purged = FALSE
    /\ handler = [h \in Handlers |-> Idle]
    /\ loose = NothingLoose
    /\ faulty = FALSE

-----------------------------------------------------------------------------
(* Chat headers.                                                           *)

\* An ObjectId is used once; one nothing refers to any more may come again.
InUse(id) ==
    \/ \E k \in Lines : chats[k] # None /\ chats[k].id = id
    \/ \E m \in Wamids : rows[m] # None /\ rows[m].chat = id
    \/ \E h \in Handlers :
          \/ handler[h].chat = id
          \/ id \in handler[h].filter.chats \cup handler[h].unread
          \/ \E found \in handler[h].latest : found[1] = id
    \/ id \in loose.unread \/ \E found \in loose.latest : found[1] = id

NewIds == {id \in ChatIds : ~InUse(id)}

\* Mutant: a new header is made whenever a message arrives.
HeadersAlwaysNew(k) == NewIds

\* The headers that findOneAndUpdate with upsert may update or make for line k.
HeadersFor(k) == IF chats[k] # None THEN {chats[k].id} ELSE NewIds

\* The header of m's line is updated, or made with this id.
SetHeader(m, id) ==
    chats' = [chats EXCEPT ![LineOf[m]] =
                 [id |-> id, lastMessageAt |-> TimeOf[m]]]

\* findOneAndUpdate({waId, phoneNumberId}, ..., {upsert}) by handler h, who
\* goes on as r with the header's id.
UpsertChat(h, r) ==
    /\ \E id \in HeadersFor(LineOf[handler[h].msg]) :
          /\ SetHeader(handler[h].msg, id)
          /\ Becomes(h, [r EXCEPT !.chat = id])
    /\ UNCHANGED <<rows, files, history, faulty, loose>>

-----------------------------------------------------------------------------
(* Inbound messages: persistSingleInboundUnified.                          *)

\* Meta delivers a message at least once, and late ones after newer ones.
ReceiveInbound(h, m) ==
    /\ At(h, "idle")
    /\ Becomes(h, Entering("lookup", m))
    /\ UNCHANGED <<store, history, faulty, loose>>

\* exists({whatsappMessageId}): half of the Promise.all.
ReadDuplicate(h) ==
    /\ At(h, "lookup") \/ At(h, "sent")
    /\ handler[h].dup = "unread"
    /\ Becomes(h, [handler[h] EXCEPT
           !.dup = IF rows[handler[h].msg] # None THEN "yes" ELSE "no"])
    /\ UNCHANGED <<store, history, faulty, loose>>

\* The header is updated: the other half, whether or not the message is new.
UpsertInboundChat(h) ==
    /\ At(h, "lookup") /\ handler[h].chat = None
    /\ UpsertChat(h, handler[h])

LookedUp(r) == r.dup # "unread" /\ r.chat # None

\* pickInboundMedia finds the media of the types downloaded.
HasMedia(m) == m \in WithMedia

\* A duplicate is left alone; media is downloaded before the row is made.
AfterLookup(h) ==
    /\ At(h, "lookup") /\ LookedUp(handler[h])
    /\ \/ handler[h].dup = "yes" /\ Becomes(h, Idle)
       \/ /\ handler[h].dup = "no"
          /\ Goes(h, IF HasMedia(handler[h].msg)
                     THEN "download" ELSE "create")
    /\ UNCHANGED <<store, history, faulty, loose>>

\* Mutant: a message whose media cannot be downloaded is dropped.
AfterFailedDownload(h) == Becomes(h, Idle)

\* Mutant: the path is stored even if the folder could not be written.
LinkedEvenUnwritten(h) ==
    Becomes(h, [handler[h] EXCEPT !.pc = "create", !.linked = TRUE])

\* The row is made without the file; nothing downloads it later.
FailedDownload(h) == Goes(h, "create")

\* saveInboundMedia: the folder of m, under its own name, holds its file.
SaveInboundMedia(m) ==
    files' = files \cup {m} /\ removed' = removed \ {m}

\* downloadInboundMediaIfNeeded: the folder of the message is written, or the
\* download fails, or the folder is made and writing the file fails; both
\* failures are caught.
DownloadMedia(h) ==
    /\ At(h, "download")
    /\ \/ /\ SaveInboundMedia(handler[h].msg)
          /\ Becomes(h, [handler[h] EXCEPT !.pc = "create", !.linked = TRUE])
          /\ UNCHANGED faulty
       \/ /\ FailedDownload(h)
          /\ UNCHANGED <<files, removed, faulty>>
       \/ /\ FailedDownload(h)
          /\ files' = files \cup {handler[h].msg}
          /\ faulty' = TRUE
          /\ UNCHANGED removed
    /\ UNCHANGED <<chats, rows, purged, loose>>

\* Mutant: an existing row is replaced.
CreateOrReplace(m, row) == rows' = [rows EXCEPT ![m] = row]

\* The unique index refuses a second row for a wamid: the call rejects.
CreateRow(m, row) ==
    rows' = IF rows[m] = None THEN [rows EXCEPT ![m] = row] ELSE rows

CreateMessage(h) ==
    /\ At(h, "create")
    /\ CreateRow(handler[h].msg, [chat |-> handler[h].chat,
                                  linked |-> handler[h].linked])
    /\ Becomes(h, Idle)
    /\ UNCHANGED <<chats, files, history, faulty, loose>>

-----------------------------------------------------------------------------
(* Outbound messages: persistOutboundAfterSend.                            *)

\* Each send has a wamid of its own; a webhook echo may come with the same.
SendAccepted(h, m) ==
    /\ At(h, "idle")
    /\ Becomes(h, Entering("sent", m))
    /\ UNCHANGED <<store, history, faulty, loose>>

AfterSentLookup(h) ==
    /\ At(h, "sent") /\ handler[h].dup # "unread"
    /\ \/ handler[h].dup = "yes" /\ Becomes(h, Idle)
       \/ handler[h].dup = "no" /\ Goes(h, "upsert")
    /\ UNCHANGED <<store, history, faulty, loose>>

UpsertOutboundChat(h) ==
    /\ At(h, "upsert")
    /\ UpsertChat(h, [handler[h] EXCEPT !.pc = "create"])

-----------------------------------------------------------------------------
(* Discard of a file the recruiting capture rejects: discardInboundMedia.  *)

\* The capture found the message's file (findInboundMediaByWhatsappMessageId).
StartDiscard(h, m) ==
    /\ At(h, "idle")
    /\ rows[m] # None /\ rows[m].linked
    /\ Becomes(h, Entering("discard", m))
    /\ UNCHANGED <<store, history, faulty, loose>>

\* deleteStoredMedia: the folder of m goes, if it is there.
DeleteStoredMedia(m) ==
    files' = files \ {m} /\ removed' = removed \cup {m}

DiscardFile(h) ==
    /\ At(h, "discard")
    /\ DeleteStoredMedia(handler[h].msg)
    /\ Goes(h, "unlink")
    /\ UNCHANGED <<chats, rows, purged, faulty, loose>>

\* $unset of the path, if the message is still there.
UnlinkFile(h) ==
    /\ At(h, "unlink")
    /\ LET m == handler[h].msg IN
       rows' = IF rows[m] = None THEN rows
               ELSE [rows EXCEPT ![m].linked = FALSE]
    /\ Becomes(h, Idle)
    /\ UNCHANGED <<chats, files, history, faulty, loose>>

-----------------------------------------------------------------------------
(* Purge of a removed candidate: purgeRecruitingMessages.                  *)

\* Mutant: the filter forgets the chats.
MatchesAnyChat(f, m) ==
    /\ rows[m] # None
    /\ TimeOf[m] >= f.since \/ m \in f.ids

\* The messages a purge's filter selects.
Matches(f, m) ==
    /\ rows[m] # None
    /\ rows[m].chat \in f.chats
    /\ TimeOf[m] >= f.since \/ m \in f.ids

\* The number's chat headers; without one there is nothing to purge.
StartPurge(h, number, since, ids) ==
    /\ At(h, "idle")
    /\ LET mine  == {k \in Lines : NumberOf[k] = number /\ chats[k] # None}
           found == {chats[k].id : k \in mine}
       IN  /\ found # {}
           /\ Becomes(h, [Entering("find", None) EXCEPT
                  !.filter = [number |-> number, chats |-> found,
                              since |-> since, ids |-> ids]])
    /\ purged' = TRUE
    /\ UNCHANGED <<store, removed, faulty, loose>>

\* Mutant: the folders are looked for by time only.
FindMessagesByTime(h) ==
    /\ At(h, "find")
    /\ Becomes(h, [handler[h] EXCEPT
           !.pc = "rm",
           !.rm = {m \in Wamids :
                     /\ Matches([handler[h].filter EXCEPT !.ids = {}], m)
                     /\ rows[m].linked}])
    /\ UNCHANGED <<store, history, faulty, loose>>

\* The messages found: deleteMessagesMedia deletes the folders of the linked.
FindMessages(h) ==
    /\ At(h, "find")
    /\ Becomes(h, [handler[h] EXCEPT
           !.pc = "rm",
           !.rm = {m \in Wamids : /\ Matches(handler[h].filter, m)
                                  /\ rows[m].linked}])
    /\ UNCHANGED <<store, history, faulty, loose>>

\* The deletions run in parallel: they end in any order.
RemoveFile(h) ==
    /\ At(h, "rm")
    /\ \E m \in handler[h].rm :
          /\ DeleteStoredMedia(m)
          /\ Becomes(h, [handler[h] EXCEPT !.rm = @ \ {m}])
    /\ UNCHANGED <<chats, rows, purged, faulty, loose>>

FilesRemoved(h) ==
    /\ At(h, "rm") /\ handler[h].rm = {}
    /\ Goes(h, "deleteMany")
    /\ UNCHANGED <<store, history, faulty, loose>>

\* deleteMany evaluates the filter again.
DeleteMessages(h) ==
    /\ At(h, "deleteMany")
    /\ rows' = [m \in Wamids |-> IF Matches(handler[h].filter, m)
                                 THEN None ELSE rows[m]]
    /\ Becomes(h, [handler[h] EXCEPT !.pc = "refresh",
                                     !.unread = handler[h].filter.chats])
    /\ UNCHANGED <<chats, files, history, faulty, loose>>

RowsOf(id) == {m \in Wamids : rows[m] # None /\ rows[m].chat = id}

\* The timestamps that sort({timestamp: -1}) may put first among ms: one, or
\* none at all.
FirstOf(ms) ==
    IF ms = {} THEN {None}
    ELSE {TimeOf[m] : m \in {n \in ms : \A o \in ms : TimeOf[o] <= TimeOf[n]}}

\* Mutant: only what the candidate wrote counts.
LatestReceived(id) == FirstOf(RowsOf(id) \cap Inbound)

\* What refreshOrDeleteChat finds for header id.
Latest(id) == FirstOf(RowsOf(id))

\* refreshOrDeleteChat, its findOne: one for each header, in parallel.
ReadLatest(h) ==
    /\ At(h, "refresh")
    /\ \E id \in handler[h].unread : \E time \in Latest(id) :
          Becomes(h, [handler[h] EXCEPT
              !.unread = @ \ {id}, !.latest = @ \cup {<<id, time>>}])
    /\ UNCHANGED <<store, history, faulty, loose>>

\* Mutant: an emptied header stays, without a time.
HeaderKept(chat, time) ==
    IF time = None THEN chat ELSE [chat EXCEPT !.lastMessageAt = time]

\* What is left of a header whose latest message has this time.
Refreshed(chat, time) ==
    IF time = None THEN None ELSE [chat EXCEPT !.lastMessageAt = time]

\* refreshOrDeleteChat, its deleteOne or updateOne, for the header and the
\* time found.
UseLatest(found) ==
    chats' = [k \in Lines |->
        IF chats[k] # None /\ chats[k].id = found[1]
        THEN Refreshed(chats[k], found[2]) ELSE chats[k]]

RefreshChat(h) ==
    /\ At(h, "refresh")
    /\ \E found \in handler[h].latest :
          /\ UseLatest(found)
          /\ Becomes(h, [handler[h] EXCEPT !.latest = @ \ {found}])
    /\ UNCHANGED <<rows, files, history, faulty, loose>>

PurgeDone(h) ==
    /\ At(h, "refresh")
    /\ handler[h].unread = {} /\ handler[h].latest = {}
    /\ Becomes(h, Idle)
    /\ UNCHANGED <<store, history, faulty, loose>>

-----------------------------------------------------------------------------
(* Calls that reject, and what they leave running.                         *)

\* The branches of the Promise.all that handler state r awaits: its duplicate
\* check, which changes nothing, is left out.
Branches(r) ==
    [upsert |-> IF r.pc = "lookup" /\ r.dup = "unread" /\ r.chat = None
                THEN {r.msg} ELSE {},
     rm |-> r.rm, unread |-> r.unread, latest |-> r.latest]

\* Parts of what the branches in all have to do.
PartsOf(all) ==
    [upsert : SUBSET all.upsert, rm : SUBSET all.rm,
     unread : SUBSET all.unread, latest : SUBSET all.latest]

\* What may go on once one of them has rejected: not all of them, unless it
\* was the duplicate check that rejected.  (A branch that rejects later is as
\* one that does not go on.)
LeftBy(r) ==
    {left \in PartsOf(Branches(r)) :
        left # Branches(r) \/ left.upsert # {} \/ left = NothingLoose}

Loosen(left) ==
    loose' = [upsert |-> loose.upsert \cup left.upsert,
              rm     |-> loose.rm \cup left.rm,
              unread |-> loose.unread \cup left.unread,
              latest |-> loose.latest \cup left.latest]

\* An awaited call rejects: the handler is cut off.  The caller logs it
\* (persistInboundWebhookPayload) or answers an error.
CutOff(h) ==
    /\ ~At(h, "idle")
    /\ \E left \in LeftBy(handler[h]) : Loosen(left)
    /\ Becomes(h, Idle)
    /\ faulty' = TRUE
    /\ UNCHANGED <<store, history>>

LooseUpsert ==
    /\ \E m \in loose.upsert : \E id \in HeadersFor(LineOf[m]) :
          /\ SetHeader(m, id)
          /\ loose' = [loose EXCEPT !.upsert = @ \ {m}]
    /\ UNCHANGED <<rows, files, history, handler, faulty>>

LooseRemove ==
    /\ \E m \in loose.rm :
          /\ DeleteStoredMedia(m)
          /\ loose' = [loose EXCEPT !.rm = @ \ {m}]
    /\ UNCHANGED <<chats, rows, purged, handler, faulty>>

LooseRead ==
    /\ \E id \in loose.unread : \E time \in Latest(id) :
          loose' = [loose EXCEPT !.unread = @ \ {id},
                                 !.latest = @ \cup {<<id, time>>}]
    /\ UNCHANGED <<store, history, handler, faulty>>

LooseRefresh ==
    /\ \E found \in loose.latest :
          /\ UseLatest(found)
          /\ loose' = [loose EXCEPT !.latest = @ \ {found}]
    /\ UNCHANGED <<rows, files, history, handler, faulty>>

\* A branch goes on, though its request was answered long ago.
GoesOnLoose == LooseUpsert \/ LooseRemove \/ LooseRead \/ LooseRefresh

\* The process restarts: no handler goes on, and nothing is left running.
Restart ==
    /\ loose # NothingLoose \/ \E h \in Handlers : ~At(h, "idle")
    /\ handler' = [h \in Handlers |-> Idle]
    /\ loose' = NothingLoose
    /\ faulty' = TRUE
    /\ UNCHANGED <<store, history>>

Arrival(h) ==
    \/ \E m \in Inbound : ReceiveInbound(h, m)
    \/ \E m \in Outbound : SendAccepted(h, m)
    \/ \E m \in WithMedia : StartDiscard(h, m)
    \/ \E number \in Numbers, since \in Sinces, ids \in SUBSET WithMedia :
          StartPurge(h, number, since, ids)

Progress(h) ==
    \/ ReadDuplicate(h) \/ UpsertInboundChat(h) \/ AfterLookup(h)
    \/ DownloadMedia(h) \/ CreateMessage(h)
    \/ AfterSentLookup(h) \/ UpsertOutboundChat(h)
    \/ DiscardFile(h) \/ UnlinkFile(h)
    \/ FindMessages(h) \/ RemoveFile(h) \/ FilesRemoved(h)
    \/ DeleteMessages(h) \/ ReadLatest(h) \/ RefreshChat(h) \/ PurgeDone(h)

Next ==
    \/ \E h \in Handlers : Arrival(h) \/ Progress(h) \/ CutOff(h)
    \/ GoesOnLoose
    \/ Restart

Spec == Init /\ [][Next]_vars

\* The event loop goes on with every call in flight, and every call settles.
FairSpec == Spec /\ \A h \in Handlers : WF_vars(Progress(h))

-----------------------------------------------------------------------------
(* What the store implements: MessageArchive.                              *)

\* What handler state r was asked to do.
TaskOf(r) ==
    CASE r.pc = "idle" -> [does |-> "nothing"]
      [] r.pc \in {"lookup", "download", "sent", "upsert", "create"} ->
            [does |-> "keep", msg |-> r.msg, written |-> r.linked]
      [] r.pc \in {"discard", "unlink"} ->
            [does |-> "drop", msg |-> r.msg]
      [] OTHER ->
            [does |-> "purge", number |-> r.filter.number,
             since |-> r.filter.since, ids |-> r.filter.ids]

Stored == {m \in Wamids : rows[m] # None}

Linked == {m \in Stored : rows[m].linked}

Tasks == [h \in Handlers |-> TaskOf(handler[h])]

Archive == INSTANCE MessageArchive WITH
    Messages <- Wamids,
    WaIdOf   <- [m \in Wamids |-> NumberOf[LineOf[m]]],
    kept     <- Stored,
    linked   <- Linked,
    task     <- Tasks,
    doomed   <- loose.rm

\* Nobody's message is kept twice or lost: chat headers, their upserts and
\* deletions, and a filter that is evaluated twice, are a way to do what the
\* archive promises, under any overlap, rejection or restart.
ImplementsArchive == Archive!Spec

-----------------------------------------------------------------------------
(* What must hold under any overlap, rejection or restart.                 *)

\* The type of every variable.
TypeOK ==
    /\ chats \in [Lines -> Chat \cup {None}]
    /\ rows \in [Wamids -> Row \cup {None}]
    /\ files \subseteq WithMedia /\ removed \subseteq WithMedia
    /\ purged \in BOOLEAN
    /\ handler \in [Handlers -> HandlerState]
    /\ loose \in Loose
    /\ faulty \in BOOLEAN

\* A message that says where its file is has that file on disk, unless a
\* discard or a purge removed it: the folder is written before the row.
LinkedFilesExist ==
    \A m \in WithMedia :
        rows[m] # None /\ rows[m].linked => m \in files \cup removed

\* Until a candidate is purged, every message hangs from the header of its
\* line, whoever made the header first.
RowsHangFromTheirLine ==
    ~purged => \A m \in Wamids : rows[m] # None =>
        /\ chats[LineOf[m]] # None
        /\ chats[LineOf[m]].id = rows[m].chat

\* A message delivered again leaves the stored one as it is: a row is made,
\* loses its file, or goes, and nothing else.
RowsAreNotReplaced ==
    [][\A m \in Wamids : rows[m] # None /\ rows'[m] # None =>
          rows'[m] \in {rows[m], [rows[m] EXCEPT !.linked = FALSE]}]_vars

\* A message taken from a webhook is stored, with or without its file, unless
\* a call rejects.
ReceivedIsStored ==
    \A m \in Inbound :
        (\E h \in Handlers : /\ At(h, "lookup") /\ handler[h].msg = m
                             /\ handler[h].dup = "unread")
            ~> faulty \/ rows[m] # None

-----------------------------------------------------------------------------
(* What holds as long as handlers do not overlap: one call at a time, with *)
(* whatever the calls before have left running.                            *)

\* Once every call has ended well, headers, messages and files belong
\* together: no empty header, no message without its header, no folder that
\* no message points to.
StoreConsistent ==
    ~faulty /\ (\A h \in Handlers : At(h, "idle")) =>
        /\ \A k \in Lines : chats[k] # None =>
              RowsOf(chats[k].id) # {}
        /\ \A m \in Wamids : rows[m] # None =>
              /\ chats[LineOf[m]] # None
              /\ chats[LineOf[m]].id = rows[m].chat
        /\ \A m \in files : rows[m] # None

\* "Deletes a removed recruiting candidate's messages ... and their stored
\* media": a message deleted by a purge leaves no file behind.
PurgeLeavesNoFile ==
    [][\A m \in WithMedia :
          rows[m] # None /\ rows[m].linked /\ rows'[m] = None
              => m \notin files']_vars

\* "Chats left empty are deleted": only those, unless a purge has rejected
\* between refreshOrDeleteChat's read of the chat and its deletion, and left
\* the latter running: by then the next request may have filled the chat.
OnlyEmptyChatsDeleted ==
    [][loose.latest = {} =>
          \A k \in Lines : chats[k] # None /\ chats'[k] = None =>
              RowsOf(chats[k].id) = {}]_vars

=============================================================================
