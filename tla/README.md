# Formal model of crm_omega_ws_cloud_ms

TLA+ modules, TLC runs and machine-checked proofs for the WhatsApp Cloud
microservice: a NestJS process that receives Meta's webhooks over HTTP and the
CRM's commands over RabbitMQ, keeps conversations in MongoDB and files on disk,
leads recruiting candidates through a capture dialogue, and reports to the CRM
with events on the queue `ws_ms_event`.

Paths below are relative to the repository's `src/whatsapp-cloud/` unless they
say otherwise (`src/src/whatsapp-cloud/` in `PROJECT.json`).

- [1. The system](#1-the-system)
- [2. Modules and code](#2-modules-and-code)
- [3. Runs: what each shows, and its bounds](#3-runs)
- [4. Fairness](#4-fairness)
- [5. Proofs](#5-proofs)
- [6. Where the code does not do what the repository says](#6-disagreements)
- [7. What is not modelled](#7-not-modelled)
- [8. Plan](#8-plan)

## 1. The system

Everything runs in one Node.js process: handlers (an HTTP request, a RabbitMQ
message) interleave at every `await`. No handler takes a lock, no database
transaction is used, and no handler waits for another. A `Promise.all` that rejects
answers its request and stops none of its other branches: they go on in the
background.

| Component | State | Operations | What makes it hard | What makes it correct |
|---|---|---|---|---|
| Recruiting capture (`recruiting-whatsapp-capture.service.ts`) | one session per candidate (`recruitingcapturesessions`): stage, captured fields, CV and interview flags | start (CRM), text reply (DeepSeek agent with tools), media reply (CV, video), end of session (CRM purge) | each call reads the session, awaits many calls, and saves its whole copy at the end, also when one of them rejected | the stage agrees with the flags; the CRM and the candidate are told things in order and before the session claims it; every call ends; accepted videos are reported |
| Chat store (`ws-chat-msg-handler.service.ts`) | chat headers, messages (MongoDB) | persist inbound (with media download), persist outbound, discard a rejected file, purge a candidate, list | redelivered and late webhooks, the duplicate check and the upsert run in parallel, a purge reads and writes in four rounds; what a call that rejected has left running | a message is stored once and not replaced, hangs from its line's header, its path is of a file that exists; a purge leaves nothing behind and removes nothing else, also when it has failed |
| Local media storage (`whatsapp-local-media-storage.service.ts`) | one folder per message on disk | save, delete, resolve a path | written before the row that points to it, deleted before the row goes | see the chat store |
| Webhook (`whatsapp-cloud.controller.ts`) | none | persist the payload, emit each message to the CRM, route it: recruiting, CTAs, DeepSeek; statuses | one rejected call ends the request after part of its messages; Meta delivers again; the person's session begins or ends between two checks | one outcome per handling of a message; candidates are left to the capture; 200 only when the CRM knows the whole payload; every request ends |
| CRM commands (`whatsapp-onboarding-events.controller.ts`) | none | a dozen `send.*` commands, `recruiting.purge_candidate` | two or three awaited calls in one command; the answer to the CRM when one of them fails, or when Meta's answer has no message id | what is answered agrees with what was sent; nothing is sent that lacks a parameter; the CRM is told of a message only once the history has it |
| Meet template tracking (`recruiting-meet-message.service.ts`) | wamid to candidate, 14 days | report sent, failed, delivery status | the status may come before the row; Meta may name no message; the failure of the bookkeeping reaches the catch of the send | a status reaches the CRM with its candidate; at most one result per command; only a call that rejected makes a sent template look failed |
| Outbound sending (`whatsapp-cloud.service.ts`) | none | one method per kind of message: post to Graph, persist | Meta may have accepted what rejects; persistence fails after Meta accepted; the caller asks again | accepted messages are in the history; an answer means what its caller takes it to mean |
| DeepSeek chat (`deep-seek.service.ts`) | none | completion with tools | bounded tool loop; repeats are recognised by what is stored | it ends; only repeats are skipped |
| Chat HTTP API (`whatsapp-chat.controller.ts`) | none | list chats, messages, attachments, byte ranges, send into a chat | cursor and sort use different keys, and activity changes between pages; files are streamed while they are purged; boundary arithmetic | a scan ends and misses nothing as long as the two keys agree; ranges are exact; every reader is answered |
| Customers, marketing and lead commands (`potential-customers/`, `marketing-campaign/`, `lead-conversation/`) | none | one handler per queue, five actions in all | checks of the payload, two sends in one action, answers of two styles | as for the CRM commands |
| CV text extraction, gateway events, shell, DTOs | none | see `PROJECT.json` | | |

How they interact: the webhook calls the chat store first (a rejection is
logged and swallowed), then the capture, then its own replies. The capture
sends texts through the outbound sending, which persists them in the chat
store; it looks up and discards files in the chat store; it emits events to the
CRM. The CRM starts captures, and purges a candidate by ending the session and
then purging the chat store.

The hazards of this code, each at its line and with the properties that watch
it, are listed in `PROJECT.json` under `hazards`.

## 2. Modules and code

| Module | Role |
|---|---|
| `CandidateReports` | abstract specification: which events the CRM may see and which texts the candidate may read, and what must have come before |
| `RecruitingCapture` | the recruiting capture: sessions, handlers, events, texts |
| `MCRecruitingCapture`, `capture_*.cfg` | instances for TLC |
| `RecruitingCaptureProofs` | types, session coherence, the CV claim, the refinement of `CandidateReports`; what holds as long as nothing fails, or as long as handlers do not overlap |
| `MessageArchive` | abstract specification of the chat store: what a request may do to messages and files, and what must have come before |
| `ChatStore` | chat headers, messages, media files: persistence, discard, purge |
| `MCChatStore`, `store_overlap.cfg` | an instance for TLC |
| `ChatStoreProofs` | types, stored paths, headers, redelivery, the refinement of `MessageArchive`; with one call at a time, consistency and purges |
| `CandidateFiles` | the capture and the store together: persistence before the reply, the lookup and the discard of files, the purge command |
| `MCCandidateFiles`, `candidate_files.cfg` | an instance for TLC |
| `CandidateFilesProofs` | the composition is a run of the capture and a run of the store; the files of reported CVs |
| `MeetTracking` | the recruiting Meet template: command, row, status webhooks |
| `MCMeetTracking`, `meet_*.cfg` | instances for TLC |
| `MeetTrackingProofs` | types, results, failures, tracking, attribution of statuses |
| `InboundReports` | abstract specification of the webhook: what the CRM hears of a payload, and when it may be accepted |
| `Webhook` | `webhookPost`: requests in flight, the routing of messages, the statuses |
| `MCWebhook`, `webhook_*.cfg` | instances for TLC |
| `WebhookProofs` | types, one outcome, candidates, and the refinement of `InboundReports` |
| `SendPromises` | abstract specification of every request to send: what a caller may conclude from the answer |
| `SendHandlers` | what each request asks for: the checks of its payload and the calls of its handler, in order. Pure operators |
| `Outbound` | requests in flight: the handlers of `SendHandlers`, the sending methods, the copy in the history, the answers |
| `MCOutbound`, `outbound.cfg` | an instance for TLC |
| `SendPromisesProofs`, `OutboundProofs` | what the promises amount to; types, history, parameters, and the refinement of `SendPromises` |
| `ChatPages` | the lists of the chat API, page by page, while the store changes |
| `MediaReader` | the routes that stream a file, while it is downloaded and purged |
| `ChatApi`, `chat_api.cfg`, `pages_skip.cfg` | the two together, with instances for TLC |
| `ChatApiProofs` | types, the cursor, complete scans, exact ranges |

### RecruitingCapture

`sessions[c]` is the stored session of candidate `c` (`None`: no document) and
`newer` the order of `updatedAt`, which `findSessionByPhone` sorts by when two
candidates share a number. `handler[h]` is one call in flight: its point
(`pc`, the code that runs when its awaited call settles), its candidate, and
its local copy of the session. `events` and `texts` are what was emitted to the
CRM and delivered to the candidate; both are sets that only grow. `heard`, a
history, are the candidates whose CV the CRM was told of since their last capture
started. `faulty` records that some call has rejected or the process has restarted.

One action is the code between two awaits. The points follow the source:
`ReceiveText` / `ReceiveMedia` (the lookup that makes the copy),
`ProcessInboundText`, `AgentReplies` / `AgentCallsTools` and the tools
(`SaveCapturedField`, `MarkDataComplete`, `MarkInterviewAccepted`), `StoreCv`,
`AcceptVideo`, `SendAssistantText`, `ReportVideo`, `StartCapture`,
`SendSessionOpening`, and `SaveSession` for the `finally` that ends every
handler. `CallRejects` is the rejection of any awaited call inside the `try`:
the copy is saved as it is by then, and the text may or may not have been
delivered (its persistence comes after the post). An emission has three
outcomes (`Emit`): it is in the queue, it is not and rejects, it is and rejects. `Crash` drops every handler and keeps the store.

Abstracted: the texts themselves (only the three stage requests and thanks are
told apart, everything else is `notice`), the values of captured fields, what
the model answers (any tool call of `ToolsCalled`, up to `ToolCallsMax` in an
answer, or a text), and the CV's content (`KindOf`). The opening of a capture is
the one with a template, the only one the CRM's command uses.

### ChatStore

`chats[k]` is the header of line `k` (a waId and phoneNumberId), `rows[m]` the
message with wamid `m`, `files` the messages with a folder on disk, `handler[h]`
one call in flight, `loose` what calls already answered have left running.
`removed` and `purged` are histories for the properties.
Points follow the source: `lookup` is the `Promise.all` of the duplicate check
and the header's upsert (`ReadDuplicate`, `UpsertInboundChat`, in either order;
`AfterLookup` when both are in), then `download` and `create`; `sent`, `upsert`
and `create` for a message that was sent; `discard`, `unlink`; and
`find`, `rm`, `deleteMany`, `refresh` for a purge, whose deletions and refreshes
run in parallel and end in any order. `CutOff` is a rejected call, or the unique
index of `whatsapp_chats` refusing the loser of two upserts; `Restart` ends every
call in flight and what is left running.

The code awaits three `Promise.all`: the duplicate check beside the upsert of the
header, the deletions of the files a purge has found, and its refreshes of the
chats. When one branch rejects, `CutOff` ends the handler and `Loosen` puts into
`loose` the branches that go on (any part of `Branches` but all of it, see
`LeftBy`). `LooseUpsert`, `LooseRemove`, `LooseRead` and `LooseRefresh` are their
steps, which may come at any time later. Nothing depends on how often the same
branch was left, so it counts once. A deletion of a chat left running may find the
chat filled by the next request, and deletes it all the same.

Abstracted: contents, names and payloads. The message's timestamp is a constant
of the message. An ObjectId is a member of `ChatIds`; one that nothing refers to
any more may be used again, which keeps the instance finite.

`MessageArchive` is what the store amounts to for its callers: `kept` messages,
those that are `linked` to a file, the `files`, and the `task` of each request:
keep a message, drop a file, purge a number; `doomed` are the files that a failed
purge goes on deleting. Chat headers, ObjectIds, the duplicate
check and queries are not in it. `Archive` in `ChatStore` is the mapping: the rows
are what is kept, and the point and locals of a handler its task (`TaskOf`).

### CandidateFiles

The two modules above, with the calls between them. It extends `ChatStore` and
instantiates `RecruitingCapture` as `Capture`; `capture[h]` is the capture's
handler of slot `h`, `handler[h]` the store's. A slot is one webhook request, one
send or one command, and `slot[h]` what it is doing: `persist`, then `route` and
`capture` for an inbound message, with `discard` while the capture waits for
`discardInboundMedia`; `send`; `ended` and `purge` for
`recruiting.purge_candidate`. Every step is one of the store (`StoreRuns`,
`StoreRejects`, `Deliver`, `Sent`, `PurgeMessages`), one of the capture (`Route`,
`LookUpFile`, `FileRejected`, `CaptureRuns`, `Start`, `PurgeCandidate`), or moves
the slot from one to the other; `DiscardRejects` and `Crash` are both at once. `LooseRuns` is
a branch that a failed call of the store has left running, next to any slot.

What either module leaves open is settled here: whether the capture finds the file
(`HasPath`: the row and its path, not the disk), which files are discarded
(`Rejects`, that is `rejectNonPdfCv`), that a message is stored before it is
routed even if storing it was rejected, and that a purge first ends the session,
then deletes by the number's chats, `since`, and the media ids, which are those
the CRM was told of (`Reported`). A message whose header is gone (`Headless`: a
deletion left running came after the message was stored) is found by no purge.
`forgotten` (folders a purge has deleted) and
`earlier` (files reported before the number's last capture) are histories.

Abstracted: the webhook's other handlers and the rest of its payload (`Webhook`
has them); the copy of a text that the capture sends is a slot of its own.

### MeetTracking

`command[k]` is one `send.recruiting_meet_template` command on its way through
`handleRecruitingMeetTemplate` and `msgTemplate` (`TakeCommand`, `SendTemplate`,
`PersistTemplate`, `TrackTemplate`, `TellSent`, and `TellFailed` for the catch);
`webhook[w]` one status on its way through `reportWebhookStatusIfTracked`.
`rows` is the collection, `senderOf` what Meta knows: the command behind each
wamid. `results` and `statuses` are the events. The queue is consumed without
acknowledgements (`main.ts` sets no `noAck` option and the framework's default
is to expect none), so `Crash` ends the commands in flight. An emission has
three outcomes: it is in the queue, it is not and rejects, it is and rejects.
Rows expire at any time after they were stored: the model has no clock.

A command may also name no candidate (nothing is reported), or be accepted by
Meta without a wamid: the handler returns (line 726), the template is on its way and
nothing is stored or reported of it. `unnamed` records such commands, `faulty` a
rejected call or a restart; `ResultReported` excepts both, each by its name.

Abstracted: the template and its parameters; error codes but for whether they
are one of `SPAM_ERROR_CODES`.

### Webhook

`request[r]` is one webhook request in flight: its point, its payload, the index
of the item at hand (messages first, then statuses) and the rounds of DeepSeek's
tool loop. `stored` are the messages in the chat store, `active` tells whether
the person has a session that is not done; both change at any time, as
`RecruitingCapture` and other requests would change them (`SessionBegins`,
`SessionEnds`). `crm` are the events on `ws_ms_event`, `answered` the messages
that were answered to the person, `accepted` the payloads answered with 200.
`taken` and `free` are histories of the item, which no guard reads.

The points of a message are the awaits of its handling, in the code's order:
`mirror` (`whatsapp.user_message_received`), then by type `media`, `slot`, or
`campaign`, `active` (`hasActiveSessionForPhone`), `reply` (the capture), `cta`
(the three calls to action), `replyAgain` (texts are offered to the capture a
second time), `duplicate`, `conversation`, `complete`, `send`, `tell` (the
DeepSeek reply), and `click`. `AfterMirror`, `AfterCampaign`, `AfterActive` and
`AfterRecruiting` are the synchronous code between them. A status goes through
`tracked`, `marketing` and `due`. Only the persistence is in a `try`: everything
else that rejects ends the request (`Fails`), and the later items are not seen.

Abstracted: a call of the capture is one action (its steps are
`RecruitingCapture`'s); texts are told apart by equality and by the call to
action they match; the three calls to action are one event, `cta_clicked`
(the video's carries the action `user.clicked_call_button` in the code). Left
out: payloads without ids or senders, messages of several people in one payload,
two messages of one timestamp (MongoDB's `_id` would order them), and the purge
of stored messages.

`ReceivePayload` may take any payload at any time, so redelivery, also while the
first delivery is being handled, is part of every run and of every theorem.

### Outbound

A request is an action, the fields of its payload that are not empty, and the
variant where the action has several (`SendHandlers!Request`). `Plan(r)` is what
its handler decides before it first waits: refuse, succeed with nothing to do, or
a sequence of steps, each one awaited call (a send, an emission to the CRM, the
start or end of a capture, a purge). A step says which fields its message is made
of, which of them the sending method itself checks, whether its copy is stored (it is not
for a recipient without digits, `Numbered`),
what a rejection is answered with, and what becomes of the handler when Meta's
answer has no id. There is one operator for each entry: the CRM's commands
(`handleMs1Event`), potential customers, marketing campaigns, lead conversations,
the single-message routes of the webhook's controller, and the routes of the chat
API, whose first await resolves the chat.

`Outbound` carries plans out. `call[c]` is the point of request `c` and the step
at hand: `queued`, `resolve` (the chat), `post`, `persist`, `perform` (any
step that is not a send), `end`. `log[c]` are the calls that took effect, `stored`
the messages that were put in the history (what a purge takes out of it later is in
`ChatStore`, and not seen here), `answer[c]` what the caller was told of this attempt.
`attempts`, `completed` and `slipped` are histories; a call *slips* when it took
effect and rejected, or when the process restarts. Meta accepts or refuses
whatever a message contains, with or without an id, or accepts it and its answer
is lost. `AskAgain` is a caller who was told of a failure, or of nothing; `Crash`
drops what is in flight. Two requests meet in the history only, to which each adds
messages of its own, so `Calls` may be any set.

What a start, a purge or the end of a session does is in `RecruitingCapture`,
`ChatStore` and `CandidateFiles`, and the Meet template in `MeetTracking`; here they
are one step.

### ChatPages, MediaReader, ChatApi

`rows` are the documents of a list by their `_id`, `activity` the key they are
sorted by, and `cursor`, `listed`, `twice` what a client has that follows
`nextCursor`. `AskPage(limit)` is `listChats` and `listMessagesByChat`: filter by
`_id` below the cursor, sort by activity, cut, and return the last row's `_id`.
Equal activities are sorted by `_id`, newest first (`Precedes`). Rows are created, touched and removed between
pages. `expected`, `orderly` and `quiet` are histories of the scan.

`MediaReader` is one file and the requests for it: `query` (the row), `stat`,
`open`, with a download and a purge at any time in between. `RangeStart` and
`RangeEnd` are `parseByteRange`; a header is two numbers, either of which may be
missing, or does not match. The bytes of a file that is open stay readable.

## 3. Runs

"Overlap" runs put two calls in flight, "serial" runs one.
Two is enough to show every read-modify-write race of this code, because a
handler's interference is one atomic save, row, or delete; a third handler adds
no new kind of step. The theorems of section 5 hold for any number.

| Run | Shows | Bounds |
|---|---|---|
| `capture_overlap` | `SessionsCoherent`, `CvKnownToCrm`, `NothingLostWithoutFault`, `RequestsWereSent`, refinement of `CandidateReports` | one candidate, a CV and a video, two handlers, one tool round with `markDataComplete`; about 1 633 000 states |
| `capture_serial` | `OneSessionPerPhone`, `ProgressKept`: what overlap breaks holds without it; `CvReportedOnce`, until something fails; `HandlersFinish` (no handler waits for another, so one shows it) | two candidates on one number, three files, three rounds of two calls of all three tools; rejections and crashes included; about 16 000 states. `VIEW` drops `events` and `texts`, which no guard and no property of this run reads; every step changes what is left, so fairness is not affected either |
| `store_overlap` | `LinkedFilesExist`, `RowsHangFromTheirLine`, `RowsAreNotReplaced`, `ReceivedIsStored`, refinement of `MessageArchive` | a document received any number of times, also twice at once, a reply sent to another number, discards, purges of the document's number that name it (`DocumentPurged`, an action constraint as the next ones: the other number is no candidate's); the reply is taken before a purge begins and may be on its way all through one (`ReplyFirst`). An upsert left running by the first call to reject runs next to repeats of the document and a purge; no other call begins then (`ApartFromLoose`: it touches the header of the document's line only, which neither a discard nor the reply reads). What a purge of two chats and two files leaves running is explored with a picture from the document's number on a second line, which comes to a quiet store (`PictureApart`): from then on one call at a time, next to one branch. Four header ids, and a fifth reaches no further state; about 375 000 states. `FirstNewId` (an action constraint) gives a new header the first id that is free: ids are only compared, so any other free one leads to the same states under other names. All but `ReceivedIsStored` are proved for any number of messages, lines and calls |
| `candidate_files` | `CvFilesAreKept`, `VideoFilesAreKept`, `PurgedIsForgotten`: what needs the capture and the store together; `StoreConsistent`, `PurgeLeavesNoFile`, `OnlyEmptyChatsDeleted` of the store, whose discards and purges now come from the capture and the CRM | one request at a time; a candidate whose number is on two lines, a CV, a video and a message sent, at three times, each any number of times; purges by time (the video) and by media id alone; rejections and restarts. `OneLeftover` (an action constraint): of what calls that reject leave running, one branch, of the first such call, goes on; until it has ended no call of the capture rejects and no capture starts. More of it is left to the proofs, which have no such bound. About 4 293 000 states. `VIEW` drops `texts`, `heard`, `removed` and `purged`, which no guard and no property of this run reads; `FirstNewId` as above |
| `meet_results` | `OneResult`, `SentIsTracked`, `StatusesAreOwn`, `FailedMeansUnsent`, `ResultReported`, `StatusReported` | two commands for one candidate and one that names nobody, two wamids, one webhook at a time (it overlaps with the commands), the status failed, which is the one that may be spam or not; about 143 500 states |
| `webhook_routes` | `OneOutcomePerHandling`, `CandidatesAreLeftToCapture`, `RequestsEnd`, refinement of `InboundReports` | one payload with a quoted greeting button, an unquoted "agendar" text, a file, a quoted button, a list reply and the statuses delivered, read and failed with 131049, delivered again at any time; one request at a time; about 514 000 states. Requests share nothing that one of them could undo (`crm` and `stored` only grow), and the theorems hold for any number of them |
| `outbound` | `ReportedIsStored`, `SentIsInHistory`, `ParametersArePresent`, `EveryRequestEnds`, refinement of `SendPromises` | one request, and each request there is: every action and variant of every entry, with all its fields and with each one missing, its recipient with digits and without, asked up to three times; about 19 800 states. Requests only add to the history, each its own messages, so a second one adds only interleavings, and the theorems hold for any number |
| `chat_api` | `OrderlyScanIsComplete`, `RangeAsAsked`, `ScanEnds`, `ReaderAnswered` | four ids, two activities, limits 1 and 2: pages of one row and of two, rows before, between and behind the cursor; files of 0, 2 and 3 bytes with range numbers up to 3, which is one beyond the last byte; about 194 000 states |
| `capture_resurrected`, `capture_video_lost`, `webhook_skipped`, `pages_skip` | the counterexamples of section 6 | the smallest instance that has them |

Deadlock is checked in every run but `outbound`, whose requests may all have been
answered as often as the bound allows. Elsewhere the system can always receive
something.

Bounds on data: `ToolRoundsMax` is 6 in the code (`RECRUITING_TOOL_ROUNDS_MAX`)
and 1 to 3 here; in `Webhook` it is `LOTES_CHAT_TOOL_ROUNDS_MAX`, also 6, and
2 here. Nothing depends on its value but the length of the loop.
`ToolCallsMax` has no counterpart in the code: it bounds the calls in one answer
of the model.

The type invariants are proved (section 5), for every value of the constants, and
not run.

Every property of a passing run has a mutant in `PROJECT.json`: an operator in
the module that changes one definition as a plausible bug would, with which TLC
finds the property violated.

## 4. Fairness

`FairSpec` asks weak fairness of `Progress(h)` for each handler (`Obey(k)` and
`Report(w)` in `MeetTracking`, `Progress(r)` of each request in `Webhook`,
`Handle(c)` in `Outbound`, `Serve(x)` of each reader in `ChatApi`): a handler whose
awaited call has settled is eventually run by the event loop, and every awaited
call settles (an HTTP client, the MongoDB driver and the broker client answer or
time out). In `Outbound` this includes that a request in the queue is taken. A
client of the lists asks for its next page (`Page`), else no scan could end. Nothing
is assumed of candidates, of the CRM, of Meta's redelivery,
or of the model: it may call tools as long as the loop lets it. Rejections,
crashes and cut-offs are never required, and a liveness property that they
defeat says so (`faulty`).

## 5. Proofs

All theorems hold for every value of the constants that satisfies the modules'
named assumptions (functions on the right sets, `None` distinct from values,
positive bounds). No set is assumed finite.

**`RecruitingCaptureProofs`**: `TypeCorrect`, `SessionsAreCoherent`,
`CvIsKnownToCrm`, `CaptureImplementsReports`, `ReportsAreInOrder`. None of the
three invariants is inductive: a stored session is the copy a handler made long before. `IInv`
therefore says of every handler's copy what the invariants say of stored
sessions, and for each point what the handler knows there: at `cv` that the file
is a PDF from the candidate's own number, at `reportVideo` that the candidate was
thanked and the CV reported. What a copy claims only needs elements of `events`
and `texts`, which only grow, so a step of one handler keeps the claims of all
others (`ClaimsGrow`, `Frame`). The refinement is then one step per action:
each emission maps to the abstract action whose conditions `IInv` provides,
every other step to a stutter. `ReportsAreInOrder` is proved of `CandidateReports`
alone, where each event has its conditions, and holds of the code through the
refinement.

`RequestsAreBounded`: no request goes on for ever. `Left` counts the steps a
handler may still take, at most `ToolRoundsMax * (ToolCallsMax + 2) + 5`; each step
of its own lowers it and no other step raises it, whatever the model answers, the
tools do or other handlers write. This is the measure behind `HandlersFinish`:
only the fairness, that a handler which can go on does, is left to TLC.

Until something fails: `NothingIsLostWithoutFault`, `RequestsAreSent`. A handler sets a claim in its copy before it awaits the event
or text that backs it; `QInv` lists, per claim, the points at which it may be
ahead. A handler at its save is never ahead, unless something failed.

With `ASSUME OneHandler` (any two handlers are the same one):
`SessionsAreUnique`, `CvsAreReportedOnce`, `ProgressIsKept`. With two
handlers each of them is false, so the assumption is needed: the code has no lock
that justifies it, and the theorems say what is lost without one. That a reply never
writes a deleted session back is not among them, since a purge during the reply is
the only case in which it could (`capture_resurrected`). `SInv` says of a handler at work that the
session it replies for is still stored, that its copy has whatever the stored one
has (`Above`), and that no other candidate of the number has a session. `CvsAreReportedOnce` also
needs that nothing has failed: `HeardOK` says that a candidate whose CV the CRM was
told of since the capture started has it in the session, or in the copy of the one
handler at work. A save that rejects, or a restart, after the emission breaks just
that, and the CV is reported again when Meta delivers it again.

**`ChatStoreProofs`**: `StoreTypeCorrect`, `StoredPathsExist`,
`MessagesHangFromTheirChat`, `RedeliveryKeepsRows`, `StoreImplementsArchive`,
`PurgesReachTheirOwn`. A row is made from what its
handler carries, so `IInv` says of handlers what the invariants say of rows. Two
facts make it stable: `files` and `removed` together never lose a folder, and
until a purge begins a header keeps its id once it is made. `LooseOK` says of what is
left running that there is none before the first failure, and no refresh before the
first purge.

`StoreImplementsArchive` needs one fact that also holds once purges have begun.
A purge selects messages by the ids of its number's headers, and evaluates that
selection twice, while headers are deleted and made again under it. `Owned` says
that each id is one number's: some function `owner` from ids to numbers agrees with
every header, every row, the header a handler has upserted, every list of
headers a purge has made, and the refreshes left running. It is kept because an upsert takes the line's own header
or an id that nothing refers to (for which `owner` is changed), and it is what puts
everything a purge deletes, files and rows, within the reach (`Covers`) of the
abstract one. The files that a failed purge goes on deleting (`loose.rm`) are the
abstract `doomed`, which were within its reach when it failed. The rest is one step per action, to an abstract action or a stutter.
`PurgesReachTheirOwn` says the same of the code's own state: whatever is deleted is
of the purge's number, and recent or named, or was left to be deleted by a purge of
which that holds.

With one call at a time (`ASSUME OneHandler`): `StoreStaysConsistent`,
`PurgesLeaveNoFile`, `PurgesKeepFullChats`. `SInv` says of each point of the one
call how far headers, rows and files are out of step: a file without its row
only while its message is being persisted, a header without rows only until its
message is created or while a purge is at its refreshes, and a purge's list of
what it found is still what its filter matches. What earlier calls have left running
is next to the one call, so `StoreStaysConsistent` ends with the first failure, and
`PurgesKeepFullChats` excepts the time while a deletion of a chat is left running;
`PurgesLeaveNoFile` needs no exception, since a branch left running makes no file.

**`CandidateFilesProofs`**: `FilesImplementCapture`, `FilesImplementStore`: hide
what the composition adds, and each of its behaviours is one of `RecruitingCapture`
and one of `ChatStore`, so every theorem about either holds of the two together.
For the store this needs the capture's invariant (it asks only for discards of
media messages) and that a slot has the payload its point needs (`SlotOK`).
`CvFilesKept` is then about both: `StoreKeeps(K)` says that a stored path, and the
one a call in flight will store, of a file of `K` is of one that is there (or that a
purge deleted), and that no file of `K` is being discarded; here `K` are the PDFs.
`CaptureKeeps` says that a handler which discards has no PDF, and one about to report
a CV has one that is there. The second
needs the first, since the capture learns of a file from the row, and the first
needs the guard of `rejectNonPdfCv`, the only caller of the discard.

`FilesGoForTheirOwn` is the counterpart, for any number of overlapping requests,
failures and restarts: a message is deleted only by a purge of the candidate whose
number it is of, and a file by one, or by what one has left running, or when that
candidate sent it where a CV is awaited and it is no PDF; what a purge deletes is recent or was reported to the CRM.
`AllWarranted` ties the three parts of a request together, its slot, its handler in
the store and its handler in the capture: a purge that runs has the number, time and
names of its command, and a discard the file that the capture refused and waits for.
The rest is `PurgesReachTheirOwn`, which the composition inherits.
`FilesKeepBothPromises` puts the refinements together: the composed system implements
`MessageArchive` and `CandidateReports` at once.

With `ASSUME OneHandler`: `PurgesForget`. A row is either of a header that is there,
which `Owned` says is its own number's, or it is `Headless`, and stays so: an upsert
takes an id that nothing refers to (`HeadlessStays`). `Own` says that a file the CRM was told of is of the
candidate's own number; `PurgeKnows` what the command relies on at each point: the
session is gone, its list of chats has the header of every message of the number
that is not headless, so that the filter reaches every recent and every reported one,
and after the `deleteMany` nothing the filter selects is left.

Also with `ASSUME OneHandler`: `VideoFilesKept`. A video is no PDF, so the guard of
the discard does not protect it; the session does. `VideoInv` has four parts:
`DiscardOK`, that only what was rejected as a CV is being discarded, for a session
that has none; `Intact`, `StoreKeeps` of all files but the one being discarded;
`HandOK`, that a handler which accepts a video has a stored session with a CV and a
file that is there; and `LateOK`, that once the CRM was told of a video, no session
of its number awaits a CV until the number's next capture, which is what a late
delivery of the video would need to be discarded.

**`MeetTrackingProofs`**: `MeetTypeCorrect`, `ResultsDoNotContradict`,
`SentTemplatesAreTracked`, `StatusesReachTheirCandidate`, `FailuresAreTrue`. `IInv` adds what a
command knows at each point (from `persist` on that Meta gave it its wamid, at
`tell` that its row is there or has expired, before `end` that nothing was told)
and that rows, and webhooks that have read one, name the candidate of the
command that sent the message.

**`WebhookProofs`**: `WebhookTypeCorrect`, `OneOutcome`,
`CandidatesStayWithCapture`, `WebhookImplementsReports`, `CrmHearsFirst`,
`WebhookIsBounded`. The invariants say
something of a request at a few points only; `IInv` says of a request at any
point that the CRM knows every item before the one at hand, and the one at hand
once it is mirrored; that a message which may reach a call to action or DeepSeek
has seen a time without a session; and that whoever has taken a message is the
last to get it. `crm` only grows, so the steps of other requests keep this
(`HearingMore`). That is what makes the refinement go through with any number of
requests: at `ok` the conditions of the abstract `Accept` hold. `CrmHearsFirst` is proved of
`InboundReports` and holds of the webhook through the refinement: at any time the CRM
had every message that anything came of, and all of every payload answered with 200.

`WebhookIsBounded`: a request in flight has at most `MostSteps(payload)` steps of its
own before it is answered, `ToolRoundsMax + 9` for each item, one for each row it
stores and two more. Each point of an item leads to `Lower` ones only, or to
another round of DeepSeek, which are counted; that the persistence goes once
through the payload (`PersistInOrder`) is the one fact `IInv` lacks.

**`SendPromisesProofs`**: `PromisesKept`: what `SendPromises` allows is enough
for what a caller wants, that a request repeated only after a failure is carried
out once unless something slipped, and that success is complete.

**`OutboundProofs`**: `TypeCorrect`, `ReportsAreStored`, `SentIsStored`,
`MessagesAreWhole`, `CarriedOutOnce`, `KeepsPromises`. `IInv` relates the point of
a request to its log: which steps have taken effect, that all before the one at
hand have, and which of them are stored. That every plan is well formed (what is
told to the CRM follows the message, what a message needs has been checked) is
shown once, case by case over the entries, and the steps only need the result.
`KeepsPromises` maps the plan to the abstract promise and the log to the
number of effects; `CarriedOutOnce` is `PromisesKept` through that refinement.

**`ChatApiProofs`**: `PagesTypeCorrect`, `CursorGoesDown`, `OrderlyScans`,
`MediaTypeCorrect`, `RangesAreExact`. A scan that has been orderly so far has
listed exactly what it should have above its cursor, and nothing below it; the
last row of an orderly page has its smallest `_id`. `CursorGoesDown` is the measure
behind `ScanEnds`.

The type invariants, `CursorDescends`, `DoneAtMostOnce` and the step bounds `Left`
are proved and not run.

Only model-checked: liveness (`HandlersFinish`, `RequestsEnd`,
`ReceivedIsStored`, `ResultReported`, `StatusReported`, `EveryRequestEnds`,
`ScanEnds`, `ReaderAnswered`), since the prover handles neither `ENABLED` nor
fairness. The measures behind `HandlersFinish` and `ScanEnds` are proved
(`RequestsAreBounded`, `CursorGoesDown`), and so is the one behind the webhook's
`RequestsEnd` (`WebhookIsBounded`). Every invariant and every action property of
a passing run is proved. Induction over data is out of the prover's reach as
well, and nothing here needs it. No module uses a `RECURSIVE` operator.

## 6. Disagreements

The first four are runs with `expect: violation` and findings in `PROJECT.json`.

1. `capture_resurrected`: a reply in flight while the CRM removes the candidate
   saves its copy with `upsert`, and the deleted session is back.
2. `capture_video_lost`: `processVideoMedia` makes the session `done` before it
   thanks the candidate and reports the video; if either fails, the session is
   saved as done, no later message finds it, and the CRM, which sends the Meet
   link on that event, never hears of the video.
3. `webhook_skipped`: two equal texts of one person that are stored before the
   first of them is checked are each taken for the repeat of the other, and
   nobody answers. The check looks at the two newest stored messages, not at the
   one being answered.
4. `pages_skip`: chats are sorted by last activity and the next page is cut by
   `_id`. An old chat that was active last comes first, its `_id` becomes the
   cursor, and the chats created after it are never listed.

Finding 1 is also why `ProgressKept` and `OneSessionPerPhone` are claimed for one
handler at a time only.

The models have these as well, without a run of their own; each is why a property
is stated no more strongly than it is:

- A purge deletes the files of the messages it found, then every message that its
  filter matches by then (`ws-chat-msg-handler.service.ts:453`, against the comment
  at 429): a file downloaded in between stays. `PurgeLeavesNoFile` is claimed for
  one call at a time.
- `refreshOrDeleteChat` deletes a chat that a message has entered after its
  `findOne`, so `OnlyEmptyChatsDeleted` is claimed for one call at a time. Even then
  a purge that fails at one chat (`ws-chat-msg-handler.service.ts:454`) leaves the
  deletion of another running, which the next request may have filled: its message
  has lost its chat, and no later purge finds it. `OnlyEmptyChatsDeleted` and
  `PurgedIsForgotten` except just that.
- When the save after the emission of `recruiting.cv_received` rejects, or the process
  restarts in between, the session does not know of the CV
  (`recruiting-whatsapp-capture.service.ts:438`, 260), and the CV that Meta delivers
  again is reported again. `CvReportedOnce` is claimed until something fails.
- Every delivery, also a late or repeated one, sets `lastMessageAt`, so nothing is
  claimed of it, and `OrderlyScanIsComplete` asks for pages on which it agrees with
  the `_id`.
- A video that was reported and is delivered again once the number has a new
  capture, which awaits a CV, is taken for a CV that is no PDF, and its file is
  discarded (`recruiting-whatsapp-capture.service.ts:420`). `VideoFilesAreKept`
  holds until the number's next capture.
- When the discard deletes the folder and its `$unset` rejects, the row keeps the
  path of a deleted file, and once videos are awaited a redelivery is accepted
  with it. `VideoFilesAreKept` is claimed until something fails; a CV cannot meet
  with this, since no PDF is discarded.
- A reply in flight may write back the session that a purge has just deleted, and a
  download may bring a file after the purge looked for it. `PurgedIsForgotten` is
  claimed for one request at a time.
- A Meet template that Meta accepted is reported as failed when its persistence or
  the storing of its wamid rejects (`whatsapp-onboarding-events.controller.ts:728`,
  `whatsapp-cloud.service.ts:387`). `FailedMeansUnsent` excepts rejected calls.
- So is any message: the copy in the history is awaited inside the `try` of the
  sending (`whatsapp-cloud.service.ts:174`), and the caller who then asks again
  sends it twice. `SendPromises` calls this a slip.
- A status webhook that is handled before the wamid is stored is dropped, so
  `StatusReported` speaks of those that come after the CRM was told.
- The routes of the webhook's controller take their bodies as they are
  (`whatsapp-cloud.controller.ts:57-69`, `744-773`): a missing parameter goes to
  Meta. `ParametersArePresent` leaves them out.
- `sent.training_message` without a link announces the training with `-` in its place
  (`whatsapp-cloud.service.ts:588-592`): the one parameter `ParametersArePresent` lets
  be missing.
- A Meet template that Meta accepts without naming a message gets no result
  (`whatsapp-onboarding-events.controller.ts:726`). `ResultReported` excepts it.
- A message to a recipient without digits is sent and not stored
  (`ws-chat-msg-handler.service.ts:174-177`). `SentIsInHistory` and `ReportedIsStored`
  except it.
- An import sequence command whose step is empty is step 0, and one with a fraction
  is the reminder (`whatsapp-onboarding-events.controller.ts:120-152`).
- Some commands succeed with nothing sent when their payload lacks a field
  (`whatsapp-onboarding-events.controller.ts:163`). `SendPromises` vouches for the
  steps of a plan, which is empty there.
- The comment at `whatsapp-cloud.service.ts:431` gives the template's language as
  `es`; the code sends `en` (456). Data, which no model tells apart.

## 7. Not modelled

- Wording, prompts, the JSON of templates, logging, file names: data.
- The answers of DeepSeek and of its tools: any tool call the code accepts, or a
  text, at any time.
- The openings of a capture without a template (no caller asks for them), and
  `sendInitialVideoTemplate`, `sendTemplateCapacitacion12HoraViaMetaGraph` and
  `uploadMediaFile` (nothing calls them).
- Whether `markDataComplete` is called with data: the code takes the model's word
  (`recruiting-whatsapp-capture.service.ts:605`), so there is no promise to state.
- A number, a token or a queue that is not configured: the process answers every
  request alike.
- The 404 of a message list whose chat does not exist, and read errors in the
  middle of a stream.
- CV text extraction: two parsers behind one call that yields an empty text when
  they fail. `RecruitingCapture` has its `isPdfFile` as `KindOf`.
- Gateway events are logged and nothing else; the shell is wiring; the DTOs are
  validation rules, which `SendHandlers` has where a route applies them.
- MongoDB, RabbitMQ, Meta and DeepSeek are modelled by how the code uses them: a
  call succeeds, rejects, or rejects after it took effect.

## 8. Plan

Done: the capture, the chat store and the two together, the Meet tracking, the
webhook, every request to send, the chat API; each with its proofs, and four of
them with an abstract specification they are shown to implement.

What would come next:

1. The whole webhook in `CandidateFiles` in place of `Route`: several messages in a
   payload, and the capture's call in `Webhook` replaced by its steps.
2. One abstract specification of `CandidateFiles`, over `MessageArchive` and
   `CandidateReports`: that it makes both promises is proved, what relates them
   (`CvFilesKept`, `FilesGoForTheirOwn`) is stated of the code's state only.

The runs are kept to twelve, so that all of them can be repeated on every
change: a new question joins a run whose instance can ask it, or replaces a run
whose properties are proved.
