-------------------------- MODULE RecruitingCapture --------------------------
(***************************************************************************)
(* The WhatsApp recruiting capture (recruiting-whatsapp-capture.service.ts)*)
(* with its two callers: the webhook (whatsapp-cloud.controller.ts) and    *)
(* the commands of the CRM (whatsapp-onboarding-events.controller.ts).     *)
(*                                                                         *)
(* A handler is one call in flight.  It reads the candidate's session from *)
(* MongoDB into a local copy, works on the copy across awaited calls (the  *)
(* CRM queue, WhatsApp, the model, the disk), and its `finally' writes the *)
(* whole copy back.  Handlers of one Node process interleave at every      *)
(* await; an action below is the code between two awaits, and awaits that  *)
(* neither read nor write shared state are merged with the next one.       *)
(*                                                                         *)
(* Data left out: the prompt, the model's messages, the texts' wording.    *)
(* The event recruiting.conversation_turn mirrors texts and is kept only   *)
(* as one more awaited call that can reject.                               *)
(***************************************************************************)
EXTENDS Naturals

CONSTANTS
    Candidates,     \* candidateId values
    Phones,         \* WhatsApp numbers
    PhoneOf,        \* the number of each candidate (one number may serve two)
    Media,          \* inbound media messages, by wamid
    SenderOf,       \* the number each media message came from
    KindOf,         \* "pdf" (isPdfFile), "video" (isVideo) or "other"
    Fields,         \* keys of the required capture fields
    Handlers,       \* slots for calls in flight: bounds the concurrency
    ToolRoundsMax,  \* RECRUITING_TOOL_ROUNDS_MAX
    ToolCallsMax,   \* bound: tool calls in one answer of the model
    ToolsCalled,    \* bound: the tools of buildTools the model calls
    None            \* no value

Stages == {"collecting_data", "awaiting_cv", "awaiting_video", "done"}

\* The texts of the stages; "notice" stands for every other one (reminders,
\* rejections, the agent's own replies), which is not recorded.
Texts == {"notice", "cvRequest", "videoRequest", "videoReceived"}

\* The events emitted to the CRM that are recorded.
Actions == {"recruiting.field_captured", "recruiting.data_complete",
            "recruiting.interview_accepted", "recruiting.cv_received",
            "recruiting.video_received"}

\* The fields of a session that control depends on or that are reported.
Session ==
    [stage             : Stages,
     captured          : SUBSET Fields,
     dataComplete      : BOOLEAN,
     interviewAccepted : BOOLEAN,
     cvReceived        : BOOLEAN,
     cvRequested       : BOOLEAN]

ASSUME PhoneOfAssumption == PhoneOf \in [Candidates -> Phones]

ASSUME MediaAssumption ==
    /\ SenderOf \in [Media -> Phones]
    /\ KindOf \in [Media -> {"pdf", "video", "other"}]

Tools == {"saveCapturedField", "markDataComplete", "markInterviewAccepted"}

ASSUME BoundsAssumption ==
    /\ ToolsCalled \subseteq Tools
    /\ ToolRoundsMax \in Nat \ {0}
    /\ ToolCallsMax \in Nat \ {0}

ASSUME NoneAssumption ==
    /\ None \notin Session
    /\ None \notin Candidates
    /\ None \notin Media
    /\ None \notin Texts

VARIABLES
    sessions,   \* collection recruitingcapturesessions, by candidateId
    newer,      \* <<c, d>>: c's session has the later updatedAt
    handler,    \* what each handler is doing, with its local copy
    events,     \* events emitted to the CRM so far
    texts,      \* <<candidate, text>>: stage texts delivered so far
    heard,      \* history: candidates whose CV the CRM was told of since their
                \* last capture started
    faulty      \* some call has rejected, or the process has crashed

sessionVars == <<sessions, newer>>
crmVars     == <<events, texts, heard>>
vars == <<sessionVars, handler, crmVars, faulty>>

-----------------------------------------------------------------------------
(* Handlers.                                                               *)

Points ==
    {"idle", "text", "agent", "tools", "media", "cv", "video",
     "send", "reportVideo", "opening", "save"}

HandlerState ==
    [pc     : Points,
     job    : {"none", "reply", "start"},
     cand   : Candidates \cup {None},
     sess   : Session \cup {None},       \* the local copy
     media  : Media \cup {None},         \* the message of handleInboundMedia
     out    : Texts \cup {None},         \* the text about to be sent
     round  : 0 .. ToolRoundsMax,        \* rounds of runAgentTurn done
     calls  : 0 .. ToolCallsMax]         \* tool calls left in this answer

\* A handler about to run from point, with the copy s of c's session.
Entering(point, job, c, s, m) ==
    [pc |-> point, job |-> job, cand |-> c, sess |-> s, media |-> m,
     out |-> None, round |-> 0, calls |-> 0]

Idle == Entering("idle", "none", None, None, None)

\* The points at which handleInboundText, handleInboundMedia and
\* startCapture await, inside the try of their try/finally, a call other
\* than the emissions of Emit.
Awaiting ==
    {"text", "agent", "media", "video", "send", "opening"}

\* Handler h goes on as r.
Becomes(h, r) == handler' = [handler EXCEPT ![h] = r]

\* The queue takes an event.
Tells(h, action, item) ==
    /\ events' = events \cup
          {[action |-> action, cand |-> handler[h].cand, item |-> item]}
    /\ heard' = IF action = "recruiting.cv_received"
                THEN heard \cup {handler[h].cand} ELSE heard

\* Mutant: the emission is not awaited, so its rejection goes unnoticed.
EmitNotAwaited(h, action, item, ok, bad) ==
    \/ /\ Tells(h, action, item)
       /\ Becomes(h, ok)
       /\ UNCHANGED faulty
    \/ /\ Tells(h, action, item) \/ UNCHANGED <<events, heard>>
       /\ Becomes(h, ok)
       /\ faulty' = TRUE

\* h awaits the emission of an event: it goes on as ok, or as bad if the
\* emission rejects, which it may do once the queue has the event.
Emit(h, action, item, ok, bad) ==
    \/ /\ Tells(h, action, item)
       /\ Becomes(h, ok)
       /\ UNCHANGED faulty
    \/ /\ Tells(h, action, item) \/ UNCHANGED <<events, heard>>
       /\ Becomes(h, bad)
       /\ faulty' = TRUE

\* WhatsApp delivers the text of h.
Deliver(h) ==
    texts' = IF handler[h].out = "notice" THEN texts
             ELSE texts \cup {<<handler[h].cand, handler[h].out>>}

-----------------------------------------------------------------------------
(* The session collection.                                                 *)

\* The sessions findSessionByPhone may return, and the one it returns: the
\* latest updatedAt first.
IsActive(c, phone) ==
    PhoneOf[c] = phone /\ sessions[c] # None /\ sessions[c].stage # "done"

\* Mutant: the filter on the stage is dropped.
IsSessionOfPhoneEvenDone(c, phone) ==
    LET found(d) == PhoneOf[d] = phone /\ sessions[d] # None
    IN  found(c) /\ \A d \in Candidates \ {c} : found(d) => <<c, d>> \in newer

IsSessionOfPhone(c, phone) ==
    /\ IsActive(c, phone)
    /\ \A d \in Candidates \ {c} : IsActive(d, phone) => <<c, d>> \in newer

\* updatedAt is set to now.
Touch(c) ==
    newer' = {r \in newer : r[2] # c} \cup ({c} \X (Candidates \ {c}))

\* Mutant: cvReceived is missing from the fields that are set.
UpsertWithoutCvReceived(c, s) ==
    /\ sessions' = [sessions EXCEPT ![c] =
                       [s EXCEPT !.cvReceived = /\ sessions[c] # None
                                                /\ sessions[c].cvReceived]]
    /\ Touch(c)

\* $set of the whole copy with upsert: a deleted session comes back.
Upsert(c, s) ==
    /\ sessions' = [sessions EXCEPT ![c] = s]
    /\ Touch(c)

Init ==
    /\ sessions = [c \in Candidates |-> None]
    /\ newer = {}
    /\ handler = [h \in Handlers |-> Idle]
    /\ events = {} /\ texts = {} /\ heard = {}
    /\ faulty = FALSE

\* The handler has a call to make: its code from the point pc runs.
At(h, point) == handler[h].pc = point

\* Mutant: the CV request is recorded and another text is sent.
StageRequestNotSent(s) ==
    IF s.stage = "awaiting_cv"
    THEN [text |-> "notice", sess |-> [s EXCEPT !.cvRequested = TRUE]]
    ELSE [text |-> "videoRequest", sess |-> s]

\* The local copy's next stage request, as replyWithAgentTurn and
\* processCvMedia make it: the text and the copy that goes with it.
StageRequest(s) ==
    IF s.stage = "awaiting_cv"
    THEN [text |-> "cvRequest", sess |-> [s EXCEPT !.cvRequested = TRUE]]
    ELSE [text |-> "videoRequest", sess |-> s]

-----------------------------------------------------------------------------
(* The end of every handler: finally { await this.saveSession(session) }.  *)

SaveSession(h) ==
    /\ At(h, "save")
    /\ \/ /\ Upsert(handler[h].cand, handler[h].sess)
          /\ UNCHANGED faulty
       \/ /\ faulty' = TRUE
          /\ UNCHANGED sessionVars
    /\ Becomes(h, Idle)
    /\ UNCHANGED crmVars

\* The events once sendSessionOpening has reported complete data, the first
\* call it makes.
OpeningEvents(h) ==
    IF handler[h].sess.dataComplete
    THEN events \cup {[action |-> "recruiting.data_complete",
                       cand |-> handler[h].cand, item |-> None]}
    ELSE events

\* An awaited call rejects: the session is saved as it is by then.  The text
\* of sendAssistantText may have been delivered before (its persistence or
\* the emission of its turn rejected), and complete data reported before the
\* turn of the opening template.
CallRejects(h) ==
    /\ handler[h].pc \in Awaiting
    /\ faulty' = TRUE
    /\ UNCHANGED texts \/ (At(h, "send") /\ Deliver(h))
    /\ \/ UNCHANGED events
       \/ At(h, "opening") /\ events' = OpeningEvents(h)
    /\ Becomes(h, [handler[h] EXCEPT !.pc = "save"])
    /\ UNCHANGED <<sessionVars, heard>>

\* Mutant: the handler ends after every text.
EndAfterSending(out) == "save"

AfterSending(out) == IF out = "videoReceived" THEN "reportVideo" ELSE "save"

\* sendAssistantText; after the thanks for the video its report is due.
SendAssistantText(h) ==
    /\ At(h, "send")
    /\ Deliver(h)
    /\ Becomes(h, [handler[h] EXCEPT !.pc = AfterSending(handler[h].out)])
    /\ UNCHANGED <<sessionVars, events, heard, faulty>>

-----------------------------------------------------------------------------
(* Texts: handleInboundText.                                               *)

\* The session is read; without one the webhook's other handlers answer.
ReceiveText(h, phone) ==
    /\ At(h, "idle")
    /\ \E c \in Candidates :
          /\ IsSessionOfPhone(c, phone)
          /\ Becomes(h, Entering("text", "reply", c, sessions[c], None))
    /\ UNCHANGED <<sessionVars, crmVars, faulty>>

\* processInboundText: the user's turn is mirrored, then the stage decides.
\* (The webhook passes no empty text.)
ProcessInboundText(h) ==
    /\ At(h, "text")
    /\ LET s == handler[h].sess IN
       \/ /\ s.stage = "awaiting_cv" /\ s.cvRequested
          /\ Becomes(h, [handler[h] EXCEPT !.pc = "send", !.out = "notice"])
       \/ /\ s.stage = "awaiting_cv" /\ ~s.cvRequested
          /\ Becomes(h, [handler[h] EXCEPT !.pc = "send",
                            !.out = "cvRequest", !.sess.cvRequested = TRUE])
       \/ /\ s.stage = "awaiting_video"
          /\ Becomes(h, [handler[h] EXCEPT !.pc = "send", !.out = "notice"])
       \/ /\ s.stage \notin {"awaiting_cv", "awaiting_video"}
          /\ Becomes(h, [handler[h] EXCEPT !.pc = "agent"])
    /\ UNCHANGED <<sessionVars, crmVars, faulty>>

\* A completion without tool calls: its text, if any, is the reply.
AgentReplies(h) ==
    /\ At(h, "agent")
    /\ \/ Becomes(h, [handler[h] EXCEPT !.pc = "send", !.out = "notice"])
       \/ Becomes(h, [handler[h] EXCEPT !.pc = "save"])
    /\ UNCHANGED <<sessionVars, crmVars, faulty>>

\* A completion that asks for n tools.
AgentCallsTools(h) ==
    /\ At(h, "agent")
    /\ \E n \in 1 .. ToolCallsMax :
          Becomes(h, [handler[h] EXCEPT !.pc = "tools", !.calls = n])
    /\ UNCHANGED <<sessionVars, crmVars, faulty>>

\* One tool call of executeTool: the copy becomes s, then the emission.
ToolCall(h, name, action, item, s) ==
    /\ name \in ToolsCalled
    /\ At(h, "tools") /\ handler[h].calls > 0
    /\ Emit(h, action, item,
            [handler[h] EXCEPT !.sess = s, !.calls = @ - 1],
            [handler[h] EXCEPT !.sess = s, !.pc = "save"])
    /\ UNCHANGED <<sessionVars, texts>>

SaveCapturedField(h) ==
    \E f \in Fields :
        ToolCall(h, "saveCapturedField", "recruiting.field_captured", f,
                 [handler[h].sess EXCEPT !.captured = @ \cup {f}])

\* Mutant: complete data always leads to the video.
MarkDataCompleteSkipsCv(h) ==
    ToolCall(h, "markDataComplete", "recruiting.data_complete", None,
             [handler[h].sess EXCEPT !.dataComplete = TRUE,
                                     !.stage = "awaiting_video"])

MarkDataComplete(h) ==
    ToolCall(h, "markDataComplete", "recruiting.data_complete", None,
             [handler[h].sess EXCEPT
                 !.dataComplete = TRUE,
                 !.stage = IF handler[h].sess.cvReceived
                           THEN "awaiting_video" ELSE "awaiting_cv"])

MarkInterviewAccepted(h) ==
    ToolCall(h, "markInterviewAccepted", "recruiting.interview_accepted",
             None,
             [handler[h].sess EXCEPT !.interviewAccepted = TRUE])

\* An unknown tool, or one with missing arguments, only answers the model.
UselessToolCall(h) ==
    /\ At(h, "tools") /\ handler[h].calls > 0
    /\ Becomes(h, [handler[h] EXCEPT !.calls = @ - 1])
    /\ UNCHANGED <<sessionVars, crmVars, faulty>>

\* The rounds are counted up to the last one; mutant: no count.
SameRound(round) == round
RoundDone(round) == round + 1

AnotherRound(round) == round < ToolRoundsMax

\* The round is over: the next stage's request once the data is complete,
\* otherwise another round, or no reply after the last one.
EndRound(h) ==
    /\ At(h, "tools") /\ handler[h].calls = 0
    /\ LET s     == handler[h].sess
           round == RoundDone(handler[h].round)
       IN  \/ /\ s.stage # "collecting_data"
              /\ Becomes(h, [handler[h] EXCEPT
                     !.pc = "send", !.out = StageRequest(s).text,
                     !.sess = StageRequest(s).sess])
           \/ /\ s.stage = "collecting_data" /\ AnotherRound(round)
              /\ Becomes(h, [handler[h] EXCEPT !.pc = "agent",
                                               !.round = round])
           \/ /\ s.stage = "collecting_data" /\ ~AnotherRound(round)
              /\ Becomes(h, [handler[h] EXCEPT !.pc = "save"])
    /\ UNCHANGED <<sessionVars, crmVars, faulty>>

-----------------------------------------------------------------------------
(* Media: handleInboundMedia, after the webhook has persisted the message. *)

\* Webhooks are retried: a message may be handled again at any time.
ReceiveMedia(h, m) ==
    /\ At(h, "idle")
    /\ \E c \in Candidates :
          /\ IsSessionOfPhone(c, SenderOf[m])
          /\ Becomes(h, Entering("media", "reply", c, sessions[c], m))
    /\ UNCHANGED <<sessionVars, crmVars, faulty>>

\* Mutant: a CV recorded during the data step does not count.
WantsCvAgain(s) == s.stage \in {"awaiting_cv", "collecting_data"}

\* A file counts as the CV: awaited, or sent early and the first one.
WantsCv(s) ==
    \/ s.stage = "awaiting_cv"
    \/ s.stage = "collecting_data" /\ ~s.cvReceived

\* What is done with a media message whose file was found, or not: the stage
\* decides what it is taken for.
TakeMedia(h, found) ==
    LET s      == handler[h].sess
        kind   == KindOf[handler[h].media]
        early  == s.stage = "collecting_data"
        wantCv == WantsCv(s)
        To(point) == Becomes(h, [handler[h] EXCEPT !.pc = point])
        Notice == Becomes(h, [handler[h] EXCEPT !.pc = "send",
                                                !.out = "notice"])
    IN  \/ early /\ (s.cvReceived \/ ~found) /\ To("save")
        \/ ~early /\ ~found /\ Notice
        \/ found /\ wantCv /\ kind = "pdf" /\ To("cv")
        \/ found /\ wantCv /\ kind # "pdf" /\ Notice
        \/ found /\ ~early /\ ~wantCv /\ kind = "video" /\ To("video")
        \/ found /\ ~early /\ ~wantCv /\ kind # "video" /\ Notice

\* processInboundMedia: findInboundMediaByWhatsappMessageId finds the stored
\* file or not (the download failed, the file was rejected or purged).  A file
\* rejected as a CV is discarded on the way (rejectNonPdfCv).
ProcessInboundMedia(h) ==
    /\ At(h, "media")
    /\ \E found \in BOOLEAN : TakeMedia(h, found)
    /\ UNCHANGED <<sessionVars, crmVars, faulty>>

\* storeCvMedia, then the rest of processCvMedia or processEarlyCvMedia.
StoreCv(h) ==
    /\ At(h, "cv")
    /\ LET s  == [handler[h].sess EXCEPT !.cvReceived = TRUE]
           ok == IF s.stage = "awaiting_cv"
                 THEN [handler[h] EXCEPT
                          !.pc = "send", !.out = "videoRequest",
                          !.sess = [s EXCEPT !.stage = "awaiting_video"]]
                 ELSE [handler[h] EXCEPT !.pc = "agent", !.sess = s]
       IN  Emit(h, "recruiting.cv_received", handler[h].media, ok,
                [handler[h] EXCEPT !.pc = "save"])
    /\ UNCHANGED <<sessionVars, texts>>

\* processVideoMedia: done in the copy, then the thanks, then the report.
AcceptVideo(h) ==
    /\ At(h, "video")
    /\ Becomes(h, [handler[h] EXCEPT !.pc = "send", !.out = "videoReceived",
                                     !.sess.stage = "done"])
    /\ UNCHANGED <<sessionVars, crmVars, faulty>>

ReportVideo(h) ==
    /\ At(h, "reportVideo")
    /\ Emit(h, "recruiting.video_received", handler[h].media,
            [handler[h] EXCEPT !.pc = "save"],
            [handler[h] EXCEPT !.pc = "save"])
    /\ UNCHANGED <<sessionVars, texts>>

-----------------------------------------------------------------------------
(* Commands of the CRM.                                                    *)

\* Mutant: the number's other sessions stay.
DeleteNone(c) == UNCHANGED sessions

\* deleteMany of the number's sessions of other candidates.
DeleteOthersOfPhone(c) ==
    sessions' = [d \in Candidates |->
        IF d # c /\ PhoneOf[d] = PhoneOf[c] THEN None ELSE sessions[d]]

\* send.recruiting_capture_start, once the opening template is sent: startCapture
\* deletes the number's other sessions and builds the new one locally.
StartCapture(h, c, prefilled) ==
    /\ At(h, "idle")
    /\ DeleteOthersOfPhone(c)
    /\ LET complete == prefilled = Fields
           s == [stage |-> IF complete THEN "awaiting_cv"
                                       ELSE "collecting_data",
                 captured |-> prefilled,
                 dataComplete |-> complete,
                 interviewAccepted |-> FALSE,
                 cvReceived |-> FALSE,
                 cvRequested |-> FALSE]
       IN  Becomes(h, Entering("opening", "start", c, s, None))
    /\ heard' = heard \ {c}
    /\ UNCHANGED <<newer, events, texts, faulty>>

\* sendSessionOpening after a template: complete data is reported, and the
\* CV is not requested before the candidate writes.
SendSessionOpening(h) ==
    /\ At(h, "opening")
    /\ events' = OpeningEvents(h)
    /\ Becomes(h, [handler[h] EXCEPT !.pc = "save"])
    /\ UNCHANGED <<sessionVars, texts, heard, faulty>>

\* recruiting.purge_candidate deletes the session before the messages, in
\* one call; h is the slot it takes.
EndSessionForCandidate(h, c) ==
    /\ At(h, "idle")
    /\ sessions' = [sessions EXCEPT ![c] = None]
    /\ UNCHANGED <<newer, handler, crmVars, faulty>>

\* The process restarts: what is in MongoDB and on disk is what is left.
Crash ==
    /\ \E h \in Handlers : ~At(h, "idle")
    /\ handler' = [h \in Handlers |-> Idle]
    /\ faulty' = TRUE
    /\ UNCHANGED <<sessionVars, crmVars>>

-----------------------------------------------------------------------------

\* What arrives from outside.
Arrival(h) ==
    \/ \E phone \in Phones : ReceiveText(h, phone)
    \/ \E m \in Media : ReceiveMedia(h, m)
    \/ \E c \in Candidates :
          \/ \E prefilled \in SUBSET Fields : StartCapture(h, c, prefilled)
          \/ EndSessionForCandidate(h, c)

\* What a handler in flight does next.
Progress(h) ==
    \/ SaveSession(h) \/ CallRejects(h) \/ SendAssistantText(h)
    \/ ProcessInboundText(h) \/ AgentReplies(h) \/ AgentCallsTools(h)
    \/ SaveCapturedField(h) \/ MarkDataComplete(h)
    \/ MarkInterviewAccepted(h) \/ UselessToolCall(h) \/ EndRound(h)
    \/ ProcessInboundMedia(h)
    \/ StoreCv(h) \/ AcceptVideo(h) \/ ReportVideo(h)
    \/ SendSessionOpening(h)

Next ==
    \/ \E h \in Handlers : Arrival(h) \/ Progress(h)
    \/ Crash

Spec == Init /\ [][Next]_vars

\* The event loop goes on with every handler whose awaited call settles, and
\* every call settles; nothing is assumed of candidates, the CRM or crashes.
FairSpec == Spec /\ \A h \in Handlers : WF_vars(Progress(h))

-----------------------------------------------------------------------------
(* What must hold.  Reports!Spec is the promise to the CRM and to the      *)
(* candidate.                                                              *)

Reports == INSTANCE CandidateReports

\* The CRM and the candidate see the events and texts that the abstract
\* specification allows, in its order, under any overlap and failure.
ImplementsReports == Reports!Spec

\* The type of every variable.
TypeOK ==
    /\ sessions \in [Candidates -> Session \cup {None}]
    /\ newer \subseteq Candidates \X Candidates
    /\ handler \in [Handlers -> HandlerState]
    /\ events \subseteq [action : Actions, cand : Candidates,
                         item : Media \cup Fields \cup {None}]
    /\ texts \subseteq Candidates \X Texts
    /\ heard \subseteq Candidates
    /\ faulty \in BOOLEAN

\* The stage of a session says exactly which data the candidate has given.
Coherent(s) ==
    /\ s.dataComplete <=> s.stage # "collecting_data"
    /\ s.stage = "awaiting_cv" => ~s.cvReceived
    /\ s.stage \in {"awaiting_video", "done"} => s.cvReceived

\* Whatever handlers overlap, fail or are cut off, the stage of a stored
\* session agrees with its flags: executeTool and processCvMedia derive it
\* from them, and saveSession never mixes two copies.
SessionsCoherent == \A c \in Candidates : sessions[c] # None => Coherent(sessions[c])

\* A session never claims a CV the CRM was not told of: storeCvMedia emits
\* recruiting.cv_received before it sets cvReceived.
CvKnownToCrm ==
    \A c \in Candidates :
        sessions[c] # None /\ sessions[c].cvReceived => Reports!CvReported(c)

\* As long as no call rejects and the process stays up, a stored session
\* claims nothing the CRM was not told of, whatever handlers overlap.
NothingLostWithoutFault ==
    ~faulty => \A c \in Candidates : sessions[c] # None =>
        /\ sessions[c].stage = "done" => Reports!VideoReported(c)
        /\ sessions[c].dataComplete =>
              Reports!Event("recruiting.data_complete", c, None) \in events
        /\ sessions[c].interviewAccepted =>
              Reports!Event("recruiting.interview_accepted", c, None) \in events

\* As long as nothing fails, no stored session waits for a file, or is done,
\* without the candidate having been told so.
RequestsWereSent ==
    ~faulty => \A c \in Candidates : sessions[c] # None =>
        /\ sessions[c].cvRequested => <<c, "cvRequest">> \in texts
        /\ sessions[c].stage = "awaiting_video" =>
              <<c, "videoRequest">> \in texts
        /\ sessions[c].stage = "done" => <<c, "videoReceived">> \in texts

-----------------------------------------------------------------------------
(* What holds as long as handlers do not overlap (one handler at a time).  *)

\* A number has at most one session: startCapture replaces the others.
OneSessionPerPhone ==
    \A c, d \in Candidates :
        sessions[c] # None /\ sessions[d] # None /\ PhoneOf[c] = PhoneOf[d]
            => c = d

StageRank == [collecting_data |-> 0, awaiting_cv |-> 1,
              awaiting_video |-> 2, done |-> 3]

\* Only a new capture takes a stored session back: no reply lowers its stage
\* or forgets captured data, the CV or the acceptance of the interview.
ProgressKept ==
    [][\A c \in Candidates :
          \/ sessions[c] = None \/ sessions'[c] = None
          \/ \E h \in Handlers : At(h, "save") /\ handler[h].job = "start"
          \/ /\ StageRank[sessions'[c].stage] >= StageRank[sessions[c].stage]
             /\ sessions[c].captured \subseteq sessions'[c].captured
             /\ sessions[c].cvReceived => sessions'[c].cvReceived
             /\ sessions[c].cvRequested => sessions'[c].cvRequested
             /\ sessions[c].interviewAccepted
                    => sessions'[c].interviewAccepted]_vars

\* Until a call rejects or the process restarts, the CRM is told of one CV per
\* capture, however often Meta delivers it: nobody is about to report a CV for
\* a candidate whose CV has been reported since the capture started.  (A save
\* that rejects, or a restart, after the report forgets it: the CV is reported
\* again when it comes again.)
CvReportedOnce ==
    ~faulty => \A h \in Handlers : At(h, "cv") => handler[h].cand \notin heard

-----------------------------------------------------------------------------
(* Liveness, under FairSpec.                                               *)

\* Every handler ends: the agent's rounds are bounded.
HandlersFinish == \A h \in Handlers : ~At(h, "idle") ~> At(h, "idle")

-----------------------------------------------------------------------------
(* What the repository says and the code does not do.                      *)

\* endSessionForCandidate: "later replies use the normal handlers", so only a
\* capture gives a candidate without a session one.
OnlyCapturesCreate ==
    [][\A c \in Candidates :
          sessions[c] = None /\ sessions'[c] # None =>
              \E h \in Handlers :
                  /\ At(h, "save")
                  /\ handler[h].job = "start" /\ handler[h].cand = c]_vars

\* The prompt of startCapture: the CV, then a video, "después enviará el
\* link de Meet".  The CRM sends the link on recruiting.video_received, so a
\* session that is done must have been reported.
DoneIsReported ==
    \A c \in Candidates :
        sessions[c] # None /\ sessions[c].stage = "done"
            => Reports!VideoReported(c)
=============================================================================
