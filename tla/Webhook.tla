------------------------------ MODULE Webhook ------------------------------
(***************************************************************************)
(* webhookPost of whatsapp-cloud.controller.ts: a payload is stored, then  *)
(* each of its messages is told to the CRM and routed to the first handler *)
(* that takes it, then each of its statuses is reported.  All messages are *)
(* of one person, who may be a recruiting candidate for a while.           *)
(*                                                                         *)
(* One action is the code that runs when an awaited call has settled, up   *)
(* to the next await.  An error that nobody catches ends the request, and  *)
(* Meta may deliver any payload again, also while it is being handled.     *)
(***************************************************************************)
EXTENDS Integers, Sequences

CONSTANTS
    Messages,       \* inbound messages, by wamid
    Statuses,       \* delivery statuses of messages that were sent
    Payloads,       \* sequences of messages, then statuses
    Requests,       \* webhook requests in flight
    TypeOf,         \* "text", "button", "list" (an interactive list reply),
                    \* "media" (RECRUITING_MEDIA_TYPES) or "other"
    TextOf,         \* text of a message (its button's, its caption), or None
    CtaOf,          \* the call to action the text matches, or None
    Quoting,        \* messages with a context id
    TimeOf,         \* timestamps
    LongTexts,      \* texts of minTextLength or more
    Window,         \* windowSeconds of the duplicate suppression
    StatusOf,       \* "delivered", "ecosystem" (failed, 131049) or "other"
    ToolRoundsMax,  \* LOTES_CHAT_TOOL_ROUNDS_MAX
    None            \* no value

Items == Messages \cup Statuses

ASSUME PayloadsAssumption ==
    /\ Payloads \subseteq Seq(Items)
    /\ None \notin Payloads
    /\ Messages \cap Statuses = {}
    /\ \A p \in Payloads : \A i, j \in 1 .. Len(p) :
          i < j /\ p[j] \in Messages => p[i] \in Messages

\* Two rows of one timestamp, which MongoDB orders by _id, are left out.
ASSUME ShapesAssumption ==
    /\ TypeOf \in [Messages -> {"text", "button", "list", "media", "other"}]
    /\ \A m \in Messages : TextOf[m] = None => CtaOf[m] = None
    /\ CtaOf \in [Messages -> {"greeting", "video", "agendar", None}]
    /\ Quoting \subseteq Messages
    /\ TimeOf \in [Messages -> Nat]
    /\ \A m, n \in Messages : TimeOf[m] = TimeOf[n] => m = n
    /\ StatusOf \in [Statuses -> {"delivered", "ecosystem", "other"}]
    /\ Window \in Nat /\ ToolRoundsMax \in Nat \ {0}

ASSUME NoneAssumption ==
    None \notin {"message_delivered", "message_not_delivered_ecosystem"}

VARIABLES
    request,        \* what each request in flight is doing
    active,         \* the person has a recruiting session that is not done
    stored,         \* messages in the chat store
    crm, answered, accepted,    \* see InboundReports
    skipped         \* messages the duplicate suppression took for repeats

routeVars == <<active, stored, skipped>>
outVars == <<crm, answered, accepted>>
vars == <<request, active, stored, crm, answered, accepted, skipped>>

\* What the CRM must hear of a status.
DueOf == [s \in Statuses |->
    CASE StatusOf[s] = "delivered" -> "message_delivered"
      [] StatusOf[s] = "ecosystem" -> "message_not_delivered_ecosystem"
      [] OTHER -> None]

Reports == INSTANCE InboundReports

MessagePoints ==
    {"mirror", "media", "slot", "campaign", "active", "reply", "cta",
     "replyAgain", "duplicate", "conversation", "complete", "send", "tell",
     "click"}

ItemPoints == MessagePoints \cup {"tracked", "marketing", "due"}

RequestState ==
    [pc      : {"idle", "persist", "ok"} \cup ItemPoints,
     payload : Payloads \cup {None},
     item    : Nat,                  \* index of the item at hand
     round   : 0 .. ToolRoundsMax - 1,   \* completions that asked for tools
     \* Histories of the item, which no guard reads:
     taken   : BOOLEAN,              \* the capture or DeepSeek has taken it
     free    : BOOLEAN]              \* no session at some time since it began

Idle == [pc |-> "idle", payload |-> None, item |-> 0, round |-> 0,
         taken |-> FALSE, free |-> FALSE]

At(r, point) == request[r].pc = point
Item(r) == request[r].payload[request[r].item]

\* The messages come first; after the last item the answer is 200.
FirstPoint(p, i) ==
    IF i > Len(p) THEN "ok"
    ELSE IF p[i] \in Messages THEN "mirror" ELSE "tracked"

\* Item i of payload p is next.
Handling(p, i) ==
    [pc |-> FirstPoint(p, i), payload |-> p, item |-> i, round |-> 0,
     taken |-> FALSE, free |-> ~active]

Becomes(r, state) == request' = [request EXCEPT ![r] = state]

\* The state after q: at another point of its item, or at the next item.
Step(q, point) ==
    IF point = "next" THEN Handling(q.payload, q.item + 1)
                      ELSE [q EXCEPT !.pc = point]

Goes(r, point) == Becomes(r, Step(request[r], point))

Takes(r, point) == Becomes(r, Step([request[r] EXCEPT !.taken = TRUE], point))

\* An error nobody catches: the answer is 500, the later items are not seen.
Fails(r) == Becomes(r, Idle)

Init ==
    /\ request = [r \in Requests |-> Idle]
    /\ active = FALSE /\ stored = {} /\ skipped = {}
    /\ Reports!Init

\* Mutant: a rejected emission is logged, as on the customers' queue.
Swallowed(r, point) == Goes(r, point)

NotEmitted(r, point) == Fails(r)

\* emit on the queue ws_ms_event; a rejected one may have taken effect.
Emit(r, action, point) ==
    LET told == crm \cup {Reports!Event(action, Item(r))} IN
    /\ \/ crm' = told /\ Goes(r, point)
       \/ crm' \in {crm, told} /\ NotEmitted(r, point)
    /\ UNCHANGED <<answered, accepted, routeVars>>

-----------------------------------------------------------------------------
(* The payload: persistence first.                                         *)

ReceivePayload(r) ==
    /\ At(r, "idle")
    /\ \E p \in Payloads :
          Becomes(r, [Idle EXCEPT !.pc = "persist", !.payload = p,
                                  !.item = 1])
    /\ UNCHANGED <<routeVars, outVars>>

\* persistInboundWebhookPayload stores one message after the other.
PersistMessage(r) ==
    /\ At(r, "persist")
    /\ request[r].item <= Len(request[r].payload)
    /\ Item(r) \in Messages
    /\ stored' = stored \cup {Item(r)}
    /\ Becomes(r, [request[r] EXCEPT !.item = @ + 1])
    /\ UNCHANGED <<active, skipped, outVars>>

\* All are stored, or one rejected, which is only logged.
PersistenceEnds(r) ==
    /\ At(r, "persist")
    /\ Becomes(r, Handling(request[r].payload, 1))
    /\ UNCHANGED <<routeVars, outVars>>

-----------------------------------------------------------------------------
(* One message: told to the CRM, then routed.                              *)

\* Without a recruiting session: the calls to action, then the agents.
AfterRecruiting(m) ==
    CASE CtaOf[m] = "greeting" /\ m \notin Quoting -> "next"
      [] \/ CtaOf[m] \in {"greeting", "video"}
         \/ CtaOf[m] = "agendar" /\ m \in Quoting -> "cta"
      [] OTHER ->
            IF TypeOf[m] = "text"
            THEN IF TextOf[m] # None THEN "replyAgain" ELSE "next"
            ELSE IF m \in Quoting THEN "click"
            ELSE IF TextOf[m] # None THEN "duplicate" ELSE "next"

AfterCampaign(m) ==
    IF TextOf[m] # None THEN "active" ELSE AfterRecruiting(m)

AfterMirror(m) ==
    CASE TypeOf[m] = "media" -> "media"
      [] TypeOf[m] = "list" /\ m \in Quoting -> "slot"
      [] TypeOf[m] \in {"text", "button"} ->
            IF m \in Quoting THEN "campaign" ELSE AfterCampaign(m)
      [] OTHER -> "next"

\* emitInboundUserMessageToCrmBack.
MirrorMessage(r) ==
    /\ At(r, "mirror")
    /\ Emit(r, "user_message_received", AfterMirror(Item(r)))

\* routeRecruitingMedia: taken by the capture or by nobody; errors are logged.
RouteMedia(r) ==
    /\ At(r, "media")
    /\ \/ active /\ answered' = answered \cup {Item(r)}
       \/ UNCHANGED answered
    /\ Goes(r, "next")
    /\ UNCHANGED <<crm, accepted, routeVars>>

SelectSlot(r) ==
    At(r, "slot") /\ Emit(r, "training_slot_selected", "next")

\* emitMarketingCampaignReply; errors are logged.
TellCampaign(r) ==
    /\ At(r, "campaign")
    /\ Goes(r, AfterCampaign(Item(r)))
    /\ UNCHANGED <<routeVars, outVars>>

\* Mutant: only texts are the capture's.
TextsOnly(m) ==
    IF active /\ TypeOf[m] = "text" THEN "reply" ELSE AfterRecruiting(m)

AfterActive(m) == IF active THEN "reply" ELSE AfterRecruiting(m)

\* hasActiveSessionForPhone.
CheckActive(r) ==
    /\ At(r, "active")
    /\ Goes(r, AfterActive(Item(r))) \/ Fails(r)
    /\ UNCHANGED <<routeVars, outVars>>

\* Mutant: a message the capture has taken goes on.
TakenGoesOn(m) == AfterRecruiting(m)

\* What follows when the capture has taken the message: continue.
Taken(m) == "next"

\* handleInboundText takes the message if it finds a session, and mostly
\* answers it; it may reject at any time.
AskCapture(r, else) ==
    /\ \/ /\ active
          /\ answered' \in {answered, answered \cup {Item(r)}}
          /\ Takes(r, Taken(Item(r))) \/ Fails(r)
       \/ /\ ~active
          /\ UNCHANGED answered
          /\ Goes(r, else) \/ Fails(r)
    /\ UNCHANGED <<crm, accepted, routeVars>>

ReplyByCapture(r) ==
    At(r, "reply") /\ AskCapture(r, AfterRecruiting(Item(r)))

\* handleGreetingMessageReply, handleVideoMessageReply and
\* handleTrainingConfirmarAgendarReply.
ReportCta(r) == At(r, "cta") /\ Emit(r, "cta_clicked", "next")

\* A session may have begun since the first time.
ReplyAgainByCapture(r) == At(r, "replyAgain") /\ AskCapture(r, "duplicate")

ClickCallButton(r) ==
    At(r, "click") /\ Emit(r, "clicked_call_button", "next")

-----------------------------------------------------------------------------
(* maybeSendDeepSeekLotesReply: any error is logged and ends the attempt.  *)

IsNewest(m, rows) == m \in rows /\ \A n \in rows : TimeOf[n] <= TimeOf[m]

\* resolveMessageTextForLlm, normalized for the comparison.
SameText(m, n) == TextOf[m] = TextOf[n]

\* shouldSkipLlmReplyForDuplicateInbound: the two newest messages in the
\* store both have this text.
IsDuplicate(m) ==
    /\ TextOf[m] \in LongTexts
    /\ \E newest, previous \in stored :
          /\ IsNewest(newest, stored)
          /\ IsNewest(previous, stored \ {newest})
          /\ SameText(newest, m) /\ SameText(previous, m)
          /\ TimeOf[newest] - TimeOf[previous] <= Window

CheckDuplicate(r) ==
    /\ At(r, "duplicate")
    /\ \/ /\ IsDuplicate(Item(r))
          /\ skipped' = skipped \cup {Item(r)}
          /\ Goes(r, "next")
       \/ /\ ~IsDuplicate(Item(r))
          /\ Goes(r, "conversation")
          /\ UNCHANGED skipped
       \/ /\ Goes(r, "next")
          /\ UNCHANGED skipped
    /\ UNCHANGED <<active, stored, outVars>>

\* buildRecentLlmConversation.
ReadConversation(r) ==
    /\ At(r, "conversation")
    /\ Goes(r, "complete") \/ Goes(r, "next")
    /\ UNCHANGED <<routeVars, outVars>>

\* Mutant: the count starts again before it is at its bound.
RoundsStartAgain(round) == (round + 1) % ToolRoundsMax

\* Completions are counted.
RoundDone(round) == round + 1

AnotherRound(round) == round < ToolRoundsMax

\* replyLotesChat: the model asks for tools, answers, or answers nothing.
Complete(r) ==
    LET round == RoundDone(request[r].round) IN
    /\ At(r, "complete")
    /\ \/ /\ AnotherRound(round)
          /\ Becomes(r, [request[r] EXCEPT !.round = round])
       \/ Goes(r, "send")
       \/ Goes(r, "next")
    /\ UNCHANGED <<routeVars, outVars>>

\* sendTextMessage; its persistence may fail after it was sent.
SendReply(r) ==
    /\ At(r, "send")
    /\ \/ /\ answered' = answered \cup {Item(r)}
          /\ Takes(r, "tell") \/ Goes(r, "next")
       \/ /\ Goes(r, "next")
          /\ UNCHANGED answered
    /\ UNCHANGED <<crm, accepted, routeVars>>

TellTurn(r) ==
    /\ At(r, "tell")
    /\ crm' \in {crm, crm \cup
                 {Reports!Event("deepseek_lotes_chat_turn", Item(r))}}
    /\ Goes(r, "next")
    /\ UNCHANGED <<answered, accepted, routeVars>>

-----------------------------------------------------------------------------
(* One status.                                                             *)

\* reportWebhookStatusIfTracked (see MeetTracking): its lookup may reject.
TrackStatus(r) ==
    /\ At(r, "tracked")
    /\ \/ Goes(r, IF StatusOf[Item(r)] = "ecosystem" THEN "due"
                                                     ELSE "marketing")
       \/ Fails(r)
    /\ UNCHANGED <<routeVars, outVars>>

AfterMarketing(s) == IF StatusOf[s] = "delivered" THEN "due" ELSE "next"

\* emitMarketingMessageStatus; errors are logged.
TellMarketing(r) ==
    /\ At(r, "marketing")
    /\ Goes(r, AfterMarketing(Item(r)))
    /\ UNCHANGED <<routeVars, outVars>>

ReportStatus(r) == At(r, "due") /\ Emit(r, DueOf[Item(r)], "next")

-----------------------------------------------------------------------------

AnswerOk(r) ==
    /\ At(r, "ok")
    /\ accepted' = accepted \cup {request[r].payload}
    /\ Becomes(r, Idle)
    /\ UNCHANGED <<crm, answered, routeVars>>

\* A restart ends every request.
Crash ==
    /\ request' = [r \in Requests |-> Idle]
    /\ UNCHANGED <<routeVars, outVars>>

\* RecruitingCapture saves a session of this person.
SessionBegins ==
    /\ active' = TRUE
    /\ UNCHANGED <<request, stored, skipped, outVars>>

\* The session is done, or its candidate is purged.
SessionEnds ==
    /\ active' = FALSE
    /\ request' = [r \in Requests |->
          [request[r] EXCEPT !.free = @ \/ request[r].pc \in ItemPoints]]
    /\ UNCHANGED <<stored, skipped, outVars>>

Progress(r) ==
    \/ PersistMessage(r) \/ PersistenceEnds(r)
    \/ MirrorMessage(r) \/ RouteMedia(r) \/ SelectSlot(r) \/ TellCampaign(r)
    \/ CheckActive(r) \/ ReplyByCapture(r) \/ ReportCta(r)
    \/ ReplyAgainByCapture(r) \/ ClickCallButton(r)
    \/ CheckDuplicate(r) \/ ReadConversation(r) \/ Complete(r)
    \/ SendReply(r) \/ TellTurn(r)
    \/ TrackStatus(r) \/ TellMarketing(r) \/ ReportStatus(r)
    \/ AnswerOk(r)

Next ==
    \/ \E r \in Requests : ReceivePayload(r) \/ Progress(r)
    \/ Crash \/ SessionBegins \/ SessionEnds

Spec == Init /\ [][Next]_vars

\* The event loop runs every request whose awaited call has settled.
FairSpec == Spec /\ \A r \in Requests : WF_vars(Progress(r))

-----------------------------------------------------------------------------
(* What must hold.                                                         *)

\* The types of the variables (all of the controller's state is local).
TypeOK ==
    /\ request \in [Requests -> RequestState]
    /\ active \in BOOLEAN
    /\ stored \subseteq Messages /\ skipped \subseteq Messages
    /\ answered \subseteq Messages /\ accepted \subseteq Payloads

\* One handling of a message has one outcome: once the capture or DeepSeek
\* has taken it, none of the capture, the calls to action, the call button
\* and DeepSeek gets it.
OneOutcomePerHandling ==
    \A r \in Requests :
        request[r].pc \in {"reply", "replyAgain", "cta", "click", "duplicate",
                          "conversation", "complete", "send"}
            => ~request[r].taken

\* While the person is a candidate, the texts and buttons are the capture's:
\* a message whose handling saw a session all the time leads to no call to
\* action, no call button and no turn of DeepSeek.
CandidatesAreLeftToCapture ==
    \A r \in Requests :
        /\ request[r].pc \in {"cta", "click", "duplicate", "conversation",
                              "complete", "send", "tell"}
        /\ TextOf[Item(r)] # None
        => request[r].free

\* The CRM hears of a message before anybody acts on it, and 200 is answered
\* only when it knows all of the payload.
ImplementsReports == Reports!Spec

\* Every request ends: DeepSeek's rounds are bounded.
RequestsEnd == \A r \in Requests : ~At(r, "idle") ~> At(r, "idle")

-----------------------------------------------------------------------------
(* What the repository says and the code does not do.                      *)

\* The suppression is for "the same text again": what it skips has the text
\* of an earlier message.
OnlyRepeatsAreSkipped ==
    \A m \in skipped : \E n \in Messages :
        TimeOf[n] < TimeOf[m] /\ TextOf[n] = TextOf[m]
=============================================================================
