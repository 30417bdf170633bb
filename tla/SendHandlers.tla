---------------------------- MODULE SendHandlers ----------------------------
(***************************************************************************)
(* What each request to send something asks for, and what its handler      *)
(* decides before it first waits: the checks of the payload and the calls  *)
(* it will make, in order.  Pure operators; Outbound carries plans out.    *)
(*                                                                         *)
(* A request is an action, the fields of its payload that are not empty,   *)
(* and, where the action has several, its variant (the import step, the    *)
(* template, the kind).  Field contents, the JSON of the messages, and the *)
(* settings (a number or a token that is not configured) are left out.     *)
(***************************************************************************)
EXTENDS Sequences

\* "ids": flowId and userId; "candidate": candidateId (and campaignId for a
\* start); "digits": the recipient has some; "isDate": the date parses;
\* "media": an id or a link.
Fields ==
    {"ids", "to", "digits", "name", "video", "interactive", "body",
     "template", "link", "date", "time", "code", "isDate", "candidate",
     "prompt", "customer", "phone", "media", "buttons", "contact"}

-----------------------------------------------------------------------------
(* Steps: the calls a handler awaits.                                      *)

\* does       what the call does
\* needs      the fields a message is made of
\* checks     the fields whose absence makes the sending method throw
\* stored     the message is then stored by persistOutboundAfterSend
\* onError    the answer when the call rejects
\* withoutId  what follows when Meta accepts and answers no message id
Step == [does : {"send", "emit", "start", "end", "purge"},
         needs : SUBSET Fields, checks : SUBSET Fields, stored : BOOLEAN,
         onError : {"failure", "success"},
         withoutId : {"goes on", "failure", "success"}]

Message(needs, checks, stored) ==
    [does |-> "send", needs |-> needs, checks |-> checks, stored |-> stored,
     onError |-> "failure", withoutId |-> "goes on"]

Call(effect) ==
    [does |-> effect, needs |-> {}, checks |-> {}, stored |-> FALSE,
     onError |-> "failure", withoutId |-> "goes on"]

\* Without an id the handler returns there.
WantsId(step, outcome) == [step EXCEPT !.withoutId = outcome]

\* The handler catches the rejection and returns.
Caught(step) == [step EXCEPT !.onError = "success"]

-----------------------------------------------------------------------------
(* The messages of WhatsappCloudService.                                   *)

\* msgTemplate, sendTextMessage: stored in the line's chat.
Template(needs, checks) == Message(needs \cup {"to"}, checks, TRUE)

Text                == Template({"body"}, {})
HelloWorld          == Template({}, {})
Greeting            == Template({"name"}, {})
Video               == Template({"video"}, {"video"})
CallNotification    == Template({"name"}, {})
ConfirmCapacitacion == Template({"name"}, {})
TrainingSlots       == Template({"interactive"}, {})
InfoTraining        == Template({"name", "code", "isDate"}, {"isDate"})
TrainingNotice      == Template({"name", "date", "time", "link"}, {})
Reminder12          == Template({"name", "date", "time", "link"}, {})
Reminder3           == Template({"name", "time", "link"}, {})
Reminder45          == Template({"name", "link"}, {})
Reminder5           == Template({"name", "link"}, {})
OpeningTemplate     == Template({"name"}, {"name"})

\* sendImageMessage, and the other kinds of media.
Image    == Template({"media"}, {})
Document == Template({"media"}, {})
VideoClip == Template({"media"}, {})
Audio    == Template({"media"}, {})
Sticker  == Template({"media"}, {})

\* msgTemplateForCustomers and the customers' line.
CustomersTemplate(needs, checks) == Message(needs \cup {"to"}, checks, TRUE)

PotentialCustomer == CustomersTemplate({"customer"}, {"customer"})
MarketingTemplate == CustomersTemplate({"template"}, {})
CustomersText     == CustomersTemplate({"body"}, {"to", "body"})
CustomersContacts == CustomersTemplate({"phone"}, {"to", "phone"})

\* buildLeadConversationGraphPayload throws on a field that is missing, and
\* the message is not stored.  Recipients are not checked.
LeadMessage(needs) == Message(needs \cup {"to"}, needs, FALSE)

LeadKinds == {"text", "image", "document", "buttons", "list", "contacts",
              "template"}

LeadNeeds(kind) ==
    CASE kind = "text" -> {"body"}
      [] kind \in {"image", "document"} -> {"media"}
      [] kind \in {"buttons", "list"} -> {"body", "buttons"}
      [] kind = "contacts" -> {"contact", "phone"}
      [] kind = "template" -> {"template"}

Emission   == Call("emit")      \* an event for the CRM
Start      == Call("start")     \* startCapture
EndSession == Call("end")       \* endSessionForCandidate
Purge      == Call("purge")     \* purgeRecruitingMessages

-----------------------------------------------------------------------------
(* Plans.                                                                  *)

\* kind   whether the handler refuses at once, returns at once without a
\*        word, or goes on
\* chat   the recipient is looked up first, by the id of the chat
PlanRecord == [kind : {"refused", "ignored", "runs"}, chat : BOOLEAN,
               steps : Seq(Step)]

Refused == [kind |-> "refused", chat |-> FALSE, steps |-> <<>>]
Ignored == [kind |-> "ignored", chat |-> FALSE, steps |-> <<>>]

Runs(steps)   == [kind |-> "runs", chat |-> FALSE, steps |-> steps]
InChat(steps) == [kind |-> "runs", chat |-> TRUE, steps |-> steps]

\* Success means that every step was carried out.
Vouches(plan) ==
    /\ plan.kind = "runs"
    /\ \A i \in DOMAIN plan.steps :
          /\ plan.steps[i].onError = "failure"
          /\ plan.steps[i].withoutId # "success"

\* The plan, or what the handler does when one of these fields is missing.
Given(has, fields, plan, otherwise) ==
    IF fields \subseteq has THEN plan ELSE otherwise

-----------------------------------------------------------------------------
(* ms_ws_cloud: the commands of the CRM.                                   *)

SendInitialMsg(has) ==
    Given(has, {"ids", "name", "to"}, Runs(<<Greeting, Emission>>), Ignored)

SendVideoAfterGreeting(has) ==
    Given(has, {"ids", "to", "video"}, Runs(<<Video, Emission>>), Ignored)

SendCallNotification(has) ==
    Given(has, {"ids", "to", "name"}, Runs(<<CallNotification, Emission>>),
          Refused)

SendImportSequenceReminder(has) ==
    Given(has, {"ids", "name", "to"},
          Runs(<<WantsId(Greeting, "failure"), Emission>>), Refused)

\* Steps 0 to 4; a number between them is a reminder.
ImportSteps == {"0", "0.5", "1", "2", "3", "4"}

SendImportSequenceStep(has, step) ==
    CASE step = "0" -> SendInitialMsg(has)
      [] step = "1" -> Given(has, {"video"}, SendVideoAfterGreeting(has), Refused)
      [] step = "2" -> SendCallNotification(has)
      [] step \in ImportSteps \ {"0", "1", "2"} -> SendImportSequenceReminder(has)
      [] OTHER -> Refused

\* Mutant: the name is not looked at.
ConfirmWithoutName(has) ==
    Given(has, {"ids", "to"},
          Runs(<<WantsId(ConfirmCapacitacion, "success"), Emission>>), Ignored)

SendConfirmarCapacitacion(has) ==
    Given(has, {"ids", "to", "name"},
          Runs(<<WantsId(ConfirmCapacitacion, "success"), Emission>>), Ignored)

SendInteractiveTrainingSlots(has) ==
    Given(has, {"ids", "to", "interactive"},
          Runs(<<WantsId(TrainingSlots, "success"), Emission>>), Ignored)

SendWhatsappText(has) == Given(has, {"to", "body"}, Runs(<<Text>>), Ignored)

\* Every reminder carries the link, and each its own parameters.
ReminderOf(has, template) ==
    CASE template = "capacitacion_12_hora" ->
            Given(has, {"date", "time"}, Runs(<<Reminder12>>), Refused)
      [] template = "capacitacion_3_hora" ->
            Given(has, {"time"}, Runs(<<Reminder3>>), Refused)
      [] template = "capacitacion_45_minutos" -> Runs(<<Reminder45>>)
      [] template = "capacitacion_5_minutos" -> Runs(<<Reminder5>>)
      [] OTHER -> Refused

SendTrainingReminder(has, template) ==
    Given(has, {"to", "name", "link"}, ReminderOf(has, template), Refused)

\* The slot was chosen again: its link; or the training's date and time, and
\* its link or else '-'.
TrainingOf(has, variant) ==
    IF variant = "reselection"
    THEN Given(has, {"code", "date"},
               Runs(<<WantsId(InfoTraining, "success"), Emission>>), Ignored)
    ELSE Given(has, {"date", "time"},
               Runs(<<WantsId(TrainingNotice, "success"), Emission>>), Ignored)

SentTrainingMessage(has, variant) ==
    Given(has, {"ids", "name", "to"}, TrainingOf(has, variant), Ignored)

\* A refused opening is logged, and no capture starts.
RecruitingCaptureStart(has) ==
    Given(has, {"candidate", "to", "prompt", "name"},
          Runs(<<Caught(OpeningTemplate), Start>>), Ignored)

RecruitingPurgeCandidate(has) ==
    Given(has, {"candidate", "phone"}, Runs(<<EndSession, Purge>>), Refused)

\* sendMeetLink: the text, and its turn of the conversation.
RecruitingMeetLink(has) ==
    Given(has, {"candidate", "to", "body"}, Runs(<<Text, Emission>>), Ignored)

CrmActions ==
    {"send.initial_msg", "send.video_after_greeting", "send.call_notification",
     "send.import_sequence_step", "send.confirmar_capacitacion",
     "send.interactive_training_slots", "send.whatsapp_text",
     "send.training_reminder", "sent.training_message",
     "send.recruiting_capture_start", "recruiting.purge_candidate",
     "send.recruiting_meet_link"}

\* handleMs1Event.  send.recruiting_meet_template is in MeetTracking.
CrmPlan(action, variant, has) ==
    CASE action = "send.initial_msg" -> SendInitialMsg(has)
      [] action = "send.video_after_greeting" -> SendVideoAfterGreeting(has)
      [] action = "send.call_notification" -> SendCallNotification(has)
      [] action = "send.import_sequence_step" ->
            SendImportSequenceStep(has, variant)
      [] action = "send.confirmar_capacitacion" -> SendConfirmarCapacitacion(has)
      [] action = "send.interactive_training_slots" ->
            SendInteractiveTrainingSlots(has)
      [] action = "send.whatsapp_text" -> SendWhatsappText(has)
      [] action = "send.training_reminder" -> SendTrainingReminder(has, variant)
      [] action = "sent.training_message" -> SentTrainingMessage(has, variant)
      [] action = "send.recruiting_capture_start" -> RecruitingCaptureStart(has)
      [] action = "recruiting.purge_candidate" -> RecruitingPurgeCandidate(has)
      [] action = "send.recruiting_meet_link" -> RecruitingMeetLink(has)
      [] OTHER -> Refused

-----------------------------------------------------------------------------
(* The other queues and the HTTP routes.                                   *)

\* The intro goes first, if there is one.
PotentialCustomerContacts(has) ==
    Given(has, {"to", "phone"},
          Runs(IF "body" \in has THEN <<CustomersText, CustomersContacts>>
               ELSE <<CustomersContacts>>), Refused)

\* potential_customers.ms_ws.
CustomersPlan(action, has) ==
    CASE action = "send.potential_customer_template" ->
            Given(has, {"to", "customer"}, Runs(<<PotentialCustomer>>), Refused)
      [] action = "send.potential_customer_text" ->
            Given(has, {"to", "body"}, Runs(<<CustomersText>>), Refused)
      [] action = "send.potential_customer_contacts" ->
            PotentialCustomerContacts(has)
      [] OTHER -> Refused

\* marketing_campaign: success whether or not there is an id.
MarketingPlan(action, has) ==
    IF action = "send.marketing_template"
    THEN Given(has, {"to", "template"}, Runs(<<MarketingTemplate>>), Refused)
    ELSE Refused

\* lead_conversation.send.v1.
LeadPlan(kind) ==
    IF kind \in LeadKinds THEN Runs(<<LeadMessage(LeadNeeds(kind))>>)
    ELSE Refused

\* whatsapp-cloud/messages: nothing validates the bodies.
RouteMessage ==
    [route \in {"text", "hello-world", "info-capacitacion", "greeting",
                "video", "call-notification"} |->
        CASE route = "text" -> Text
          [] route = "hello-world" -> HelloWorld
          [] route = "info-capacitacion" -> InfoTraining
          [] route = "greeting" -> Greeting
          [] route = "video" -> Video
          [] route = "call-notification" -> CallNotification]

RoutePlan(route) ==
    IF route \in DOMAIN RouteMessage THEN Runs(<<RouteMessage[route]>>)
    ELSE Refused

\* whatsapp-cloud/chats/:chatId/messages: validated, media by assertIdOrLink.
ChatMessage ==
    [kind \in {"text", "image", "document", "video", "audio", "sticker"} |->
        CASE kind = "text" -> Text
          [] kind = "image" -> Image
          [] kind = "document" -> Document
          [] kind = "video" -> VideoClip
          [] kind = "audio" -> Audio
          [] kind = "sticker" -> Sticker]

ChatPlan(kind, has) ==
    IF kind \in DOMAIN ChatMessage
    THEN Given(has, IF kind = "text" THEN {"body"} ELSE {"media"},
               InChat(<<ChatMessage[kind]>>), Refused)
    ELSE Refused

-----------------------------------------------------------------------------

Entries == {"crm", "customers", "marketing", "leads", "routes", "chats"}

\* The handler of a request.
Plan(r) ==
    CASE r.entry = "crm" -> CrmPlan(r.action, r.variant, r.has)
      [] r.entry = "customers" -> CustomersPlan(r.action, r.has)
      [] r.entry = "marketing" -> MarketingPlan(r.action, r.has)
      [] r.entry = "leads" -> LeadPlan(r.action)
      [] r.entry = "routes" -> RoutePlan(r.action)
      [] r.entry = "chats" -> ChatPlan(r.action, r.has)

\* The requests there can be.
Request == [entry : Entries, action : STRING, variant : STRING,
            has : SUBSET Fields]
=============================================================================
