--------------------------- MODULE OutboundProofs ---------------------------
(***************************************************************************)
(* Theorems about Outbound, for every set of requests and of callers and   *)
(* every number of attempts: the history, the parameters, and that every   *)
(* handler implements SendPromises.                                        *)
(***************************************************************************)
EXTENDS Outbound, TLAPS

-----------------------------------------------------------------------------
(* Plans: what the handlers ask for is well formed.                        *)

\* A step of a message that asks for no field it does not have, with those in
\* waived, once its own checks have passed.
Fits(s, has, waived) ==
    /\ s \in Step
    /\ s.needs \subseteq has \cup waived \cup s.checks
    /\ s.does # "send" => s.needs = {} /\ s.checks = {}

\* And that may be the last one.
SoundStep(s, has, waived) ==
    Fits(s, has, waived) /\ s.withoutId # "failure"

\* What the rest of the proofs knows of a plan.
Sound(p, has, waived) ==
    /\ p \in PlanRecord
    /\ p.kind = "runs" <=> p.steps # <<>>
    /\ \A i \in DOMAIN p.steps :
          /\ Fits(p.steps[i], has, waived)
          /\ p.steps[i].withoutId = "failure" => i + 1 \in DOMAIN p.steps
          /\ i + 1 \in DOMAIN p.steps /\ p.steps[i].does = "send" =>
                p.steps[i].stored

LEMMA NoSteps ==
    ASSUME NEW has, NEW waived
    PROVE  Sound(Refused, has, waived) /\ Sound(Ignored, has, waived)
BY DEF Sound, Refused, Ignored, PlanRecord

LEMMA OneStep ==
    ASSUME NEW has, NEW waived, NEW s, SoundStep(s, has, waived)
    PROVE  Sound(Runs(<<s>>), has, waived) /\ Sound(InChat(<<s>>), has, waived)
<1>1. s \in Step
  BY DEF SoundStep, Fits
<1>2. <<s>> \in Seq(Step) /\ <<s>> # <<>> /\ DOMAIN <<s>> = {1} /\ <<s>>[1] = s
  BY <1>1
<1> QED  BY <1>2 DEF Sound, SoundStep, Runs, InChat, PlanRecord

LEMMA TwoSteps ==
    ASSUME NEW has, NEW waived, NEW s, Fits(s, has, waived),
           NEW t, SoundStep(t, has, waived), s.does = "send" => s.stored
    PROVE  Sound(Runs(<<s, t>>), has, waived)
<1>1. s \in Step /\ t \in Step
  BY DEF SoundStep, Fits
<1>2. /\ <<s, t>> \in Seq(Step) /\ <<s, t>> # <<>> /\ DOMAIN <<s, t>> = {1, 2}
      /\ <<s, t>>[1] = s /\ <<s, t>>[2] = t
  BY <1>1
<1> QED  BY <1>2 DEF Sound, SoundStep, Runs, PlanRecord

LEMMA GivenSound ==
    ASSUME NEW has, NEW waived, NEW fields, NEW p, NEW q,
           fields \subseteq has => Sound(p, has, waived),
           Sound(q, has, waived)
    PROVE  Sound(Given(has, fields, p, q), has, waived)
BY DEF Given

LEMMA MessageStep ==
    ASSUME NEW needs \in SUBSET Fields, NEW checks \in SUBSET Fields,
           NEW kept \in BOOLEAN, NEW has, NEW waived,
           needs \subseteq has \cup waived \cup checks
    PROVE  /\ SoundStep(Message(needs, checks, kept), has, waived)
           /\ Message(needs, checks, kept).stored = kept
           /\ Message(needs, checks, kept).does = "send"
BY DEF Message, Step, SoundStep, Fits

LEMMA CallStep ==
    ASSUME NEW effect \in {"emit", "start", "end", "purge"}, NEW has, NEW waived
    PROVE  SoundStep(Call(effect), has, waived) /\ Call(effect).does # "send"
BY DEF Call, Step, SoundStep, Fits

\* The variations keep a step sound.
LEMMA VariedStep ==
    ASSUME NEW has, NEW waived, NEW s, SoundStep(s, has, waived),
           NEW outcome \in {"failure", "success"}
    PROVE  /\ Fits(WantsId(s, outcome), has, waived)
           /\ SoundStep(Caught(s), has, waived)
           /\ WantsId(s, outcome).stored = s.stored
           /\ Caught(s).stored = s.stored
BY DEF WantsId, Caught, Step, SoundStep, Fits

\* A template whose parameters are there.
LEMMA TemplateStep ==
    ASSUME NEW has, NEW waived,
           NEW needs \in SUBSET Fields, NEW checks \in SUBSET Fields,
           needs \cup {"to"} \subseteq has \cup waived \cup checks
    PROVE  /\ SoundStep(Template(needs, checks), has, waived)
           /\ Template(needs, checks).stored
           /\ SoundStep(CustomersTemplate(needs, checks), has, waived)
           /\ CustomersTemplate(needs, checks).stored
<1>1. needs \cup {"to"} \in SUBSET Fields
  BY DEF Fields
<1> QED  BY <1>1, MessageStep DEF Template, CustomersTemplate

\* A message and then a call.
LEMMA SendThenCall ==
    ASSUME NEW has, NEW waived, NEW s, SoundStep(s, has, waived), s.stored
    PROVE  /\ Sound(Runs(<<s, Emission>>), has, waived)
           /\ Sound(Runs(<<s, Start>>), has, waived)
           /\ \A outcome \in {"failure", "success"} :
                 Sound(Runs(<<WantsId(s, outcome), Emission>>), has, waived)
           /\ Sound(Runs(<<Caught(s), Start>>), has, waived)
<1>1. SoundStep(Emission, has, waived) /\ SoundStep(Start, has, waived)
  BY CallStep DEF Emission, Start
<1> QED  BY <1>1, VariedStep, TwoSteps DEF SoundStep

-----------------------------------------------------------------------------
(* The handlers, one by one.                                               *)

LEMMA CrmSends ==
    ASSUME NEW has \in SUBSET Fields
    PROVE  /\ Sound(SendInitialMsg(has), has, {})
           /\ Sound(SendVideoAfterGreeting(has), has, {})
           /\ Sound(SendCallNotification(has), has, {})
           /\ Sound(SendImportSequenceReminder(has), has, {})
           /\ Sound(SendConfirmarCapacitacion(has), has, {})
           /\ Sound(SendInteractiveTrainingSlots(has), has, {})
           /\ Sound(SendWhatsappText(has), has, {})
           /\ Sound(RecruitingCaptureStart(has), has, {})
           /\ Sound(RecruitingPurgeCandidate(has), has, {})
           /\ Sound(RecruitingMeetLink(has), has, {})
<1>1. Sound(SendInitialMsg(has), has, {})
  <2>1. {"ids", "name", "to"} \subseteq has =>
           SoundStep(Greeting, has, {}) /\ Greeting.stored
    BY TemplateStep DEF Greeting, Fields
  <2> QED  BY <2>1, SendThenCall, GivenSound, NoSteps DEF SendInitialMsg
<1>2. Sound(SendVideoAfterGreeting(has), has, {})
  <2>1. {"ids", "to", "video"} \subseteq has =>
           SoundStep(Video, has, {}) /\ Video.stored
    BY TemplateStep DEF Video, Fields
  <2> QED  BY <2>1, SendThenCall, GivenSound, NoSteps DEF SendVideoAfterGreeting
<1>3. Sound(SendCallNotification(has), has, {})
  <2>1. {"ids", "to", "name"} \subseteq has =>
           SoundStep(CallNotification, has, {}) /\ CallNotification.stored
    BY TemplateStep DEF CallNotification, Fields
  <2> QED  BY <2>1, SendThenCall, GivenSound, NoSteps DEF SendCallNotification
<1>4. Sound(SendImportSequenceReminder(has), has, {})
  <2>1. {"ids", "name", "to"} \subseteq has =>
           SoundStep(Greeting, has, {}) /\ Greeting.stored
    BY TemplateStep DEF Greeting, Fields
  <2> QED  BY <2>1, SendThenCall, GivenSound, NoSteps
             DEF SendImportSequenceReminder
<1>5. Sound(SendConfirmarCapacitacion(has), has, {})
  <2>1. {"ids", "to", "name"} \subseteq has =>
           SoundStep(ConfirmCapacitacion, has, {}) /\ ConfirmCapacitacion.stored
    BY TemplateStep DEF ConfirmCapacitacion, Fields
  <2> QED  BY <2>1, SendThenCall, GivenSound, NoSteps
             DEF SendConfirmarCapacitacion
<1>6. Sound(SendInteractiveTrainingSlots(has), has, {})
  <2>1. {"ids", "to", "interactive"} \subseteq has =>
           SoundStep(TrainingSlots, has, {}) /\ TrainingSlots.stored
    BY TemplateStep DEF TrainingSlots, Fields
  <2> QED  BY <2>1, SendThenCall, GivenSound, NoSteps
             DEF SendInteractiveTrainingSlots
<1>7. Sound(SendWhatsappText(has), has, {})
  <2>1. {"to", "body"} \subseteq has => SoundStep(Text, has, {})
    BY TemplateStep DEF Text, Fields
  <2> QED  BY <2>1, OneStep, GivenSound, NoSteps DEF SendWhatsappText
<1>8. Sound(RecruitingCaptureStart(has), has, {})
  <2>1. {"candidate", "to", "prompt", "name"} \subseteq has =>
           SoundStep(OpeningTemplate, has, {}) /\ OpeningTemplate.stored
    BY TemplateStep DEF OpeningTemplate, Fields
  <2> QED  BY <2>1, SendThenCall, GivenSound, NoSteps DEF RecruitingCaptureStart
<1>9. Sound(RecruitingPurgeCandidate(has), has, {})
  <2>1. /\ SoundStep(EndSession, has, {}) /\ EndSession.does # "send"
        /\ SoundStep(Purge, has, {})
    BY CallStep DEF EndSession, Purge
  <2> QED  BY <2>1, TwoSteps, GivenSound, NoSteps
             DEF RecruitingPurgeCandidate, SoundStep
<1>10. Sound(RecruitingMeetLink(has), has, {})
  <2>1. {"candidate", "to", "body"} \subseteq has =>
           SoundStep(Text, has, {}) /\ Text.stored
    BY TemplateStep DEF Text, Fields
  <2> QED  BY <2>1, SendThenCall, GivenSound, NoSteps DEF RecruitingMeetLink
<1> QED  BY <1>1, <1>2, <1>3, <1>4, <1>5, <1>6, <1>7, <1>8, <1>9, <1>10

LEMMA CrmVariants ==
    ASSUME NEW has \in SUBSET Fields, NEW variant
    PROVE  /\ Sound(SendImportSequenceStep(has, variant), has, {})
           /\ Sound(SendTrainingReminder(has, variant), has, {})
           /\ Sound(SentTrainingMessage(has, variant), has, {"link"})
<1>1. Sound(SendImportSequenceStep(has, variant), has, {})
  <2>1. Sound(Given(has, {"video"}, SendVideoAfterGreeting(has), Refused), has, {})
    BY CrmSends, GivenSound, NoSteps
  <2>2. SendImportSequenceStep(has, variant) \in
           {SendInitialMsg(has), SendCallNotification(has),
            Given(has, {"video"}, SendVideoAfterGreeting(has), Refused),
            SendImportSequenceReminder(has), Refused}
    BY DEF SendImportSequenceStep
  <2> QED  BY <2>1, <2>2, CrmSends, NoSteps
<1>2. Sound(SendTrainingReminder(has, variant), has, {})
  <2> DEFINE Named == {"to", "name", "link"} \subseteq has
  <2>1. Named /\ {"date", "time"} \subseteq has => SoundStep(Reminder12, has, {})
    BY TemplateStep DEF Reminder12, Fields
  <2>2. Named /\ {"time"} \subseteq has => SoundStep(Reminder3, has, {})
    BY TemplateStep DEF Reminder3, Fields
  <2>3. Named => SoundStep(Reminder45, has, {}) /\ SoundStep(Reminder5, has, {})
    BY TemplateStep DEF Reminder45, Reminder5, Fields
  <2>4. Named => Sound(Given(has, {"date", "time"}, Runs(<<Reminder12>>), Refused),
                       has, {})
    BY <2>1, OneStep, GivenSound, NoSteps
  <2>5. Named => Sound(Given(has, {"time"}, Runs(<<Reminder3>>), Refused), has, {})
    BY <2>2, OneStep, GivenSound, NoSteps
  <2>6. Named => Sound(Runs(<<Reminder45>>), has, {})
                 /\ Sound(Runs(<<Reminder5>>), has, {})
    BY <2>3, OneStep
  <2>7. ReminderOf(has, variant) \in
           {Given(has, {"date", "time"}, Runs(<<Reminder12>>), Refused),
            Given(has, {"time"}, Runs(<<Reminder3>>), Refused),
            Runs(<<Reminder45>>), Runs(<<Reminder5>>), Refused}
    BY DEF ReminderOf
  <2>8. Named => Sound(ReminderOf(has, variant), has, {})
    BY <2>4, <2>5, <2>6, <2>7, NoSteps
  <2> QED  BY <2>8, GivenSound, NoSteps DEF SendTrainingReminder
<1>3. Sound(SentTrainingMessage(has, variant), has, {"link"})
  <2> DEFINE Named == {"ids", "name", "to"} \subseteq has
  <2>1. Named /\ {"code", "date"} \subseteq has =>
           SoundStep(InfoTraining, has, {"link"}) /\ InfoTraining.stored
    BY TemplateStep DEF InfoTraining, Fields
  <2>2. Named /\ {"date", "time"} \subseteq has =>
           SoundStep(TrainingNotice, has, {"link"}) /\ TrainingNotice.stored
    BY TemplateStep DEF TrainingNotice, Fields
  <2>3. Named => Sound(TrainingOf(has, variant), has, {"link"})
    BY <2>1, <2>2, SendThenCall, GivenSound, NoSteps DEF TrainingOf
  <2> QED  BY <2>3, GivenSound, NoSteps DEF SentTrainingMessage
<1> QED  BY <1>1, <1>2, <1>3

\* sent.training_message may lack the link.
LEMMA CrmPlanSound ==
    ASSUME NEW has \in SUBSET Fields, NEW variant, NEW action
    PROVE  Sound(CrmPlan(action, variant, has), has,
                 IF action = "sent.training_message" THEN {"link"} ELSE {})
<1>1. CASE action = "sent.training_message"
  <2>1. CrmPlan(action, variant, has) = SentTrainingMessage(has, variant)
    BY <1>1 DEF CrmPlan
  <2> QED  BY <1>1, <2>1, CrmVariants
<1>2. CASE action # "sent.training_message"
  <2>1. CrmPlan(action, variant, has) \in
           {SendInitialMsg(has), SendVideoAfterGreeting(has),
            SendCallNotification(has), SendImportSequenceStep(has, variant),
            SendConfirmarCapacitacion(has), SendInteractiveTrainingSlots(has),
            SendWhatsappText(has), SendTrainingReminder(has, variant),
            RecruitingCaptureStart(has), RecruitingPurgeCandidate(has),
            RecruitingMeetLink(has), Refused}
    BY <1>2 DEF CrmPlan
  <2> QED  BY <1>2, <2>1, CrmSends, CrmVariants, NoSteps
<1> QED  BY <1>1, <1>2

LEMMA CustomersPlanSound ==
    ASSUME NEW has \in SUBSET Fields, NEW action
    PROVE  Sound(CustomersPlan(action, has), has, {})
<1>1. {"to", "customer"} \subseteq has => SoundStep(PotentialCustomer, has, {})
  BY TemplateStep DEF PotentialCustomer, Fields
<1>2. /\ SoundStep(CustomersText, has, {}) /\ CustomersText.stored
      /\ SoundStep(CustomersContacts, has, {})
  BY TemplateStep DEF CustomersText, CustomersContacts, Fields
<1>3. Sound(PotentialCustomerContacts(has), has, {})
  BY <1>2, OneStep, TwoSteps, GivenSound, NoSteps
     DEF PotentialCustomerContacts, SoundStep
<1>4. /\ Sound(Given(has, {"to", "customer"}, Runs(<<PotentialCustomer>>),
                     Refused), has, {})
      /\ Sound(Given(has, {"to", "body"}, Runs(<<CustomersText>>), Refused),
               has, {})
  BY <1>1, <1>2, OneStep, GivenSound, NoSteps
<1>5. CustomersPlan(action, has) \in
         {Given(has, {"to", "customer"}, Runs(<<PotentialCustomer>>), Refused),
          Given(has, {"to", "body"}, Runs(<<CustomersText>>), Refused),
          PotentialCustomerContacts(has), Refused}
  BY DEF CustomersPlan
<1> QED  BY <1>3, <1>4, <1>5, NoSteps

LEMMA OtherPlansSound ==
    ASSUME NEW has \in SUBSET Fields, NEW action
    PROVE  /\ Sound(MarketingPlan(action, has), has, {})
           /\ Sound(LeadPlan(action), has, {"to"})
           /\ Sound(RoutePlan(action), has, Fields)
           /\ Sound(ChatPlan(action, has), has, {"to"})
<1>1. Sound(MarketingPlan(action, has), has, {})
  <2>1. {"to", "template"} \subseteq has => SoundStep(MarketingTemplate, has, {})
    BY TemplateStep DEF MarketingTemplate, Fields
  <2> QED  BY <2>1, OneStep, GivenSound, NoSteps DEF MarketingPlan
<1>2. Sound(LeadPlan(action), has, {"to"})
  <2>1. ASSUME action \in LeadKinds
        PROVE  SoundStep(LeadMessage(LeadNeeds(action)), has, {"to"})
    <3>1. LeadNeeds(action) \in SUBSET Fields
      BY <2>1 DEF LeadNeeds, LeadKinds, Fields
    <3>2. LeadNeeds(action) \cup {"to"} \in SUBSET Fields
      BY <3>1 DEF Fields
    <3> QED  BY <3>1, <3>2, MessageStep DEF LeadMessage
  <2> QED  BY <2>1, OneStep, NoSteps DEF LeadPlan
<1>3. Sound(RoutePlan(action), has, Fields)
  <2>1. /\ SoundStep(Text, has, Fields) /\ SoundStep(HelloWorld, has, Fields)
        /\ SoundStep(InfoTraining, has, Fields) /\ SoundStep(Greeting, has, Fields)
        /\ SoundStep(Video, has, Fields)
        /\ SoundStep(CallNotification, has, Fields)
    BY TemplateStep
       DEF Text, HelloWorld, InfoTraining, Greeting, Video, CallNotification, Fields
  <2>2. ASSUME action \in DOMAIN RouteMessage
        PROVE  RouteMessage[action] \in {Text, HelloWorld, InfoTraining, Greeting,
                                         Video, CallNotification}
    BY <2>2 DEF RouteMessage
  <2> QED  BY <2>1, <2>2, OneStep, NoSteps DEF RoutePlan
<1>4. Sound(ChatPlan(action, has), has, {"to"})
  <2> DEFINE fields == IF action = "text" THEN {"body"} ELSE {"media"}
  <2>1. /\ "body" \in has => SoundStep(Text, has, {"to"})
        /\ "media" \in has =>
              /\ SoundStep(Image, has, {"to"}) /\ SoundStep(Document, has, {"to"})
              /\ SoundStep(VideoClip, has, {"to"}) /\ SoundStep(Audio, has, {"to"})
              /\ SoundStep(Sticker, has, {"to"})
    BY TemplateStep DEF Text, Image, Document, VideoClip, Audio, Sticker, Fields
  <2>2. ASSUME action \in DOMAIN ChatMessage
        PROVE  IF action = "text" THEN ChatMessage[action] = Text
               ELSE ChatMessage[action] \in
                       {Image, Document, VideoClip, Audio, Sticker}
    BY <2>2 DEF ChatMessage
  <2>3. ASSUME action \in DOMAIN ChatMessage, fields \subseteq has
        PROVE  SoundStep(ChatMessage[action], has, {"to"})
    BY <2>1, <2>2, <2>3
  <2>4. ASSUME action \in DOMAIN ChatMessage
        PROVE  Sound(Given(has, fields, InChat(<<ChatMessage[action]>>), Refused),
                     has, {"to"})
    BY <2>3, <2>4, OneStep, GivenSound, NoSteps
  <2> QED  BY <2>4, NoSteps DEF ChatPlan
<1> QED  BY <1>1, <1>2, <1>3, <1>4

LEMMA PlanSound ==
    ASSUME NEW r \in Request
    PROVE  Sound(Plan(r), r.has, Unchecked(r))
<1>1. r.has \in SUBSET Fields /\ r.entry \in Entries
  BY DEF Request
<1>2. /\ r.entry = "crm" => Plan(r) = CrmPlan(r.action, r.variant, r.has)
      /\ r.entry = "customers" => Plan(r) = CustomersPlan(r.action, r.has)
      /\ r.entry = "marketing" => Plan(r) = MarketingPlan(r.action, r.has)
      /\ r.entry = "leads" => Plan(r) = LeadPlan(r.action)
      /\ r.entry = "routes" => Plan(r) = RoutePlan(r.action)
      /\ r.entry = "chats" => Plan(r) = ChatPlan(r.action, r.has)
  BY DEF Plan
<1>3. /\ r.entry = "crm" => Unchecked(r) =
            IF r.action = "sent.training_message" THEN {"link"} ELSE {}
      /\ r.entry \in {"customers", "marketing"} => Unchecked(r) = {}
      /\ r.entry \in {"leads", "chats"} => Unchecked(r) = {"to"}
      /\ r.entry = "routes" => Unchecked(r) = Fields
  BY DEF Unchecked
<1> QED  BY <1>1, <1>2, <1>3, CrmPlanSound, CustomersPlanSound, OtherPlansSound
           DEF Entries

-----------------------------------------------------------------------------
(* The inductive invariant.                                                *)

\* Where the handler of c is, what has taken effect and what is answered.
Place(c) ==
    LET n == Len(Steps(c))
    IN  /\ answer[c] = "none" <=> call[c].pc # "end"
        /\ call[c].pc = "queued" => log[c] = <<>>
        /\ call[c].pc = "resolve" => log[c] = <<>> /\ n > 0
        /\ call[c].pc \in {"post", "perform"} =>
              call[c].at \in 1..n /\ Len(log[c]) + 1 = call[c].at
        /\ call[c].pc = "post" => Current(c).does = "send"
        /\ call[c].pc = "perform" => Current(c).does # "send"
        /\ call[c].pc = "persist" =>
              /\ call[c].at \in 1..n /\ Len(log[c]) = call[c].at
              /\ Current(c).does = "send"
        /\ Len(log[c]) <= n

\* What the answers and the count of complete attempts say of the effects.
Told(c) ==
    LET n == Len(Steps(c))
    IN  /\ ~slipped[c] => completed[c] =
              IF n > 0 /\ Len(log[c]) = n THEN 1 ELSE 0
        /\ answer[c] = "failure" => slipped[c] \/ Len(log[c]) < n
        /\ answer[c] = "lost" => slipped[c]

\* The effects are those of the plan, and of the messages to a number only the
\* last one may be missing in the history: being stored, or never.
Kept(c) ==
    \A i \in 1..Len(log[c]) :
        /\ log[c][i].does = Steps(c)[i].does
        /\ Steps(c)[i].checks \subseteq request[c].has
        /\ (/\ Steps(c)[i].stored /\ log[c][i].id
            /\ Numbered(request[c]) /\ <<c, i>> \notin stored) =>
              /\ i = Len(log[c])
              /\ call[c].pc = "persist" \/ (call[c].pc = "end" /\ slipped[c])

Inv == TypeOK /\ \A c \in Calls : Place(c) /\ Told(c) /\ Kept(c)

\* What is known of the plan of a request.
PlanFacts(c) ==
    /\ Steps(c) \in Seq(Step)
    /\ PlanOf(c).kind = "runs" <=> Steps(c) # <<>>
    /\ Sound(PlanOf(c), request[c].has, Unchecked(request[c]))

LEMMA PlanFactsHold ==
    ASSUME TypeOK, NEW c \in Calls
    PROVE  PlanFacts(c)
<1>1. request[c] \in Request
  BY OutboundAssumption DEF TypeOK
<1>2. Sound(PlanOf(c), request[c].has, Unchecked(request[c]))
  BY <1>1, PlanSound DEF PlanOf
<1> QED  BY <1>2 DEF PlanFacts, Steps, Sound, PlanRecord

LEMMA InitInv == Init => Inv
<1> SUFFICES ASSUME Init PROVE Inv
  OBVIOUS
<1>1. TypeOK
  BY DEF Init, TypeOK, Queued, CallState, Points, Answers
<1>2. ASSUME NEW c \in Calls
      PROVE  Place(c) /\ Told(c) /\ Kept(c)
  <2>1. Steps(c) \in Seq(Step)
    BY <1>1, PlanFactsHold DEF PlanFacts
  <2> QED  BY <2>1 DEF Init, Queued, Place, Told, Kept
<1> QED  BY <1>1, <1>2 DEF Inv

\* A step of one handler leaves the others alone.
OthersKept(c) ==
    \A d \in Calls \ {c} :
        /\ call'[d] = call[d] /\ log'[d] = log[d] /\ answer'[d] = answer[d]
        /\ completed'[d] = completed[d] /\ slipped'[d] = slipped[d]
        /\ \A i \in Nat : <<d, i>> \in stored' <=> <<d, i>> \in stored

LEMMA OthersInv ==
    ASSUME Inv, TypeOK', NEW c \in Calls, OthersKept(c), request' = request,
           Place(c)', Told(c)', Kept(c)'
    PROVE  Inv'
<1>1. ASSUME NEW d \in Calls, d # c
      PROVE  Place(d)' /\ Told(d)' /\ Kept(d)'
  <2>1. /\ call'[d] = call[d] /\ log'[d] = log[d] /\ answer'[d] = answer[d]
        /\ completed'[d] = completed[d] /\ slipped'[d] = slipped[d]
        /\ \A i \in Nat : <<d, i>> \in stored' <=> <<d, i>> \in stored
    BY <1>1 DEF OthersKept
  <2>2. Place(d) /\ Told(d) /\ Kept(d) /\ log[d] \in Seq(Entry)
    BY DEF Inv, TypeOK
  <2>3. Steps(d)' = Steps(d)
    BY DEF Steps, PlanOf
  <2>4. Place(d)'
    BY <2>1, <2>2, <2>3 DEF Place, Current
  <2>5. Told(d)'
    BY <2>1, <2>2, <2>3 DEF Told
  <2>6. Kept(d)'
    BY <2>1, <2>2, <2>3 DEF Kept
  <2> QED  BY <2>4, <2>5, <2>6
<1> QED  BY <1>1 DEF Inv

-----------------------------------------------------------------------------
(* Moves.                                                                  *)

LEMMA EndsMove ==
    ASSUME TypeOK, NEW c \in Calls, NEW a \in Answers, Ends(c, a)
    PROVE  /\ call' \in [Calls -> CallState] /\ answer' \in [Calls -> Answers]
           /\ \A d \in Calls \ {c} : call'[d] = call[d] /\ answer'[d] = answer[d]
           /\ call'[c].pc = "end" /\ answer'[c] = a
BY DEF Ends, TypeOK, CallState, Points

LEMMA ReachesMove ==
    ASSUME TypeOK, NEW c \in Calls, NEW i \in Nat, Reaches(c, i)
    PROVE  /\ call' \in [Calls -> CallState] /\ answer' \in [Calls -> Answers]
           /\ \A d \in Calls \ {c} : call'[d] = call[d] /\ answer'[d] = answer[d]
           /\ i > Len(Steps(c)) => call'[c].pc = "end" /\ answer'[c] = "success"
           /\ i <= Len(Steps(c)) =>
                 /\ call'[c].at = i /\ answer' = answer
                 /\ call'[c].pc = IF Steps(c)[i].does = "send" THEN "post"
                                  ELSE "perform"
<1>1. Len(Steps(c)) \in Nat
  BY PlanFactsHold DEF PlanFacts
<1>2. CASE i > Len(Steps(c))
  <2>1. Ends(c, "success") /\ ~(i <= Len(Steps(c)))
    BY <1>1, <1>2 DEF Reaches
  <2> QED  BY <1>2, <2>1, EndsMove DEF Answers
<1>3. CASE ~(i > Len(Steps(c)))
  <2> DEFINE point == IF Steps(c)[i].does = "send" THEN "post" ELSE "perform"
  <2>1. Goes(c, point, i)
    BY <1>3 DEF Reaches
  <2>2. [pc |-> point, at |-> i] \in CallState
    BY DEF CallState, Points
  <2> HIDE DEF point
  <2>3. /\ call' = [call EXCEPT ![c] = [pc |-> point, at |-> i]]
        /\ answer' = answer
    BY <2>1 DEF Goes
  <2>4. /\ call' \in [Calls -> CallState]
        /\ call'[c] = [pc |-> point, at |-> i]
        /\ \A d \in Calls \ {c} : call'[d] = call[d]
    BY <2>2, <2>3 DEF TypeOK
  <2> QED  BY <1>3, <2>3, <2>4 DEF TypeOK, point
<1> QED  BY <1>1, <1>2, <1>3

\* A rejection ends the handler.
LEMMA RejectsMove ==
    ASSUME TypeOK, NEW c \in Calls, Rejects(c), call[c].at \in 1..Len(Steps(c))
    PROVE  /\ call' \in [Calls -> CallState] /\ answer' \in [Calls -> Answers]
           /\ \A d \in Calls \ {c} : call'[d] = call[d] /\ answer'[d] = answer[d]
           /\ call'[c].pc = "end" /\ answer'[c] \in {"failure", "success"}
           /\ answer'[c] = "success" => ~Vouches(PlanOf(c))
<1>1. Current(c) \in Step /\ call[c].at \in DOMAIN Steps(c)
  BY PlanFactsHold DEF PlanFacts, Current
<1>2. Current(c).onError \in {"failure", "success"}
  BY <1>1 DEF Step
<1>3. Current(c).onError = "success" => ~Vouches(PlanOf(c))
  BY <1>1 DEF Vouches, Current, Steps
<1> QED  BY <1>2, <1>3, EndsMove DEF Rejects, Answers

\* After a message the handler goes on, or returns for want of an id.
LEMMA AfterSendingMove ==
    ASSUME TypeOK, NEW c \in Calls, NEW id \in BOOLEAN, AfterSending(c, id),
           call[c].at \in 1..Len(Steps(c))
    PROVE  /\ call' \in [Calls -> CallState] /\ answer' \in [Calls -> Answers]
           /\ \A d \in Calls \ {c} : call'[d] = call[d] /\ answer'[d] = answer[d]
           /\ \/ Reaches(c, call[c].at + 1)
              \/ /\ call'[c].pc = "end" /\ answer'[c] \in {"failure", "success"}
                 /\ answer'[c] = "success" => ~Vouches(PlanOf(c))
                 /\ ~id
                 /\ Current(c).withoutId = answer'[c]
<1>1. Current(c) \in Step /\ call[c].at \in DOMAIN Steps(c)
  BY PlanFactsHold DEF PlanFacts, Current
<1>2. Current(c).withoutId \in {"goes on", "failure", "success"}
  BY <1>1 DEF Step
<1>3. Current(c).withoutId = "success" => ~Vouches(PlanOf(c))
  BY <1>1 DEF Vouches, Current, Steps
<1>4. CASE Reaches(c, call[c].at + 1)
  BY <1>4, ReachesMove
<1>5. CASE ~(id \/ Current(c).withoutId = "goes on")
  <2>1. Ends(c, Current(c).withoutId) /\ Current(c).withoutId \in Answers
    BY <1>2, <1>5 DEF AfterSending, Answers
  <2> QED  BY <1>2, <1>3, <1>5, <2>1, EndsMove
<1> QED  BY <1>4, <1>5 DEF AfterSending

\* The effect of the current step is the next one of the log.
LEMMA TakesEffectMove ==
    ASSUME TypeOK, NEW c \in Calls, NEW id \in BOOLEAN, TakesEffect(c, id),
           call[c].at \in 1..Len(Steps(c)), Len(log[c]) + 1 = call[c].at
    PROVE  /\ log' \in [Calls -> Seq(Entry)] /\ completed' \in [Calls -> Nat]
           /\ \A d \in Calls \ {c} :
                 log'[d] = log[d] /\ completed'[d] = completed[d]
           /\ stored' = stored
           /\ Len(log'[c]) = call[c].at
           /\ \A i \in 1..Len(log[c]) : log'[c][i] = log[c][i]
           /\ log'[c][call[c].at] = [does |-> Current(c).does, id |-> id]
           /\ completed'[c] = IF call[c].at = Len(Steps(c))
                              THEN completed[c] + 1 ELSE completed[c]
<1>1. Current(c).does \in {"send", "emit", "start", "end", "purge"}
  <2>1. Current(c) \in Step
    BY PlanFactsHold DEF PlanFacts, Current
  <2> QED  BY <2>1 DEF Step
<1>2. [does |-> Current(c).does, id |-> id] \in Entry
  BY <1>1 DEF Entry
<1>3. log[c] \in Seq(Entry)
  BY DEF TypeOK
<1> QED  BY <1>2, <1>3 DEF TakesEffect, TypeOK


-----------------------------------------------------------------------------
(* What a step of a handler comes to, for the invariant and for the        *)
(* refinement.                                                             *)

\* The next effect, or none.
Effected(c) ==
    \/ log'[c] = log[c] /\ completed'[c] = completed[c]
    \/ /\ Len(log'[c]) = Len(log[c]) + 1
       /\ Len(log'[c]) <= Len(Steps(c))
       /\ completed'[c] = IF Len(log'[c]) = Len(Steps(c))
                          THEN completed[c] + 1 ELSE completed[c]

\* An answer that is justified, or none.
Answered(c) ==
    \/ answer'[c] = "none"
    \/ /\ answer'[c] = "success"
       /\ Vouches(PlanOf(c)) => Len(log'[c]) = Len(Steps(c))
    \/ /\ answer'[c] = "failure"
       /\ slipped'[c] \/ Len(log'[c]) < Len(Steps(c))
    \/ answer'[c] = "refused" /\ Len(log'[c]) = 0

Moved(c) ==
    /\ call[c].pc # "end"
    /\ request' = request
    /\ TypeOK'
    /\ OthersKept(c)
    /\ Effected(c)
    /\ slipped' \in {slipped, [slipped EXCEPT ![c] = TRUE]}
    /\ Answered(c)
    /\ Place(c)' /\ Kept(c)'

\* The state of a handler that has reached the step after its last effect.
LEMMA ReachesPlace ==
    ASSUME Inv, TypeOK', NEW c \in Calls, request' = request,
           call[c].pc # "end", NEW i \in Nat, Reaches(c, i),
           i = Len(log'[c]) + 1, Len(log'[c]) <= Len(Steps(c))
    PROVE  Place(c)' /\ Answered(c)
<1>1. Len(Steps(c)) \in Nat /\ Steps(c)' = Steps(c)
  BY PlanFactsHold DEF PlanFacts, Inv, Steps, PlanOf
<1>2. answer[c] = "none" /\ Len(log'[c]) \in Nat /\ log'[c] \in Seq(Entry)
  BY DEF Inv, Place, TypeOK
<1>3. TypeOK
  BY DEF Inv
<1>4. CASE i > Len(Steps(c))
  <2>1. call'[c].pc = "end" /\ answer'[c] = "success"
    BY <1>3, <1>4, ReachesMove
  <2> QED  BY <1>1, <1>2, <1>4, <2>1 DEF Place, Answered
<1>5. CASE i <= Len(Steps(c))
  <2>1. /\ call'[c].at = i /\ answer' = answer
        /\ call'[c].pc = IF Steps(c)[i].does = "send" THEN "post" ELSE "perform"
    BY <1>3, <1>5, ReachesMove
  <2>2. Current(c)' = Steps(c)[i]
    BY <1>1, <2>1 DEF Current
  <2>3. i \in 1..Len(Steps(c))
    BY <1>1, <1>2, <1>5
  <2> QED  BY <1>1, <1>2, <1>5, <2>1, <2>2, <2>3 DEF Place, Answered
<1> QED  BY <1>1, <1>4, <1>5

LEMMA EndsPlace ==
    ASSUME Inv, TypeOK', NEW c \in Calls, request' = request,
           call'[c].pc = "end", answer'[c] # "none",
           Len(log'[c]) <= Len(Steps(c))
    PROVE  Place(c)'
<1>1. Len(Steps(c)) \in Nat /\ Steps(c)' = Steps(c)
  BY PlanFactsHold DEF PlanFacts, Inv, Steps, PlanOf
<1> QED  BY <1>1 DEF Place

\* With no effect, a handler that is not waiting for the history keeps it.
LEMMA UnchangedKept ==
    ASSUME Inv, NEW c \in Calls, request' = request,
           call[c].pc \notin {"persist", "end"},
           log'[c] = log[c], stored' = stored
    PROVE  Kept(c)'
<1>1. Steps(c)' = Steps(c)
  BY DEF Steps, PlanOf
<1> QED  BY <1>1 DEF Inv, Kept

\* Nor does an effect, if the message with an id is about to be stored.
LEMMA AddedKept ==
    ASSUME Inv, NEW c \in Calls, request' = request,
           call[c].pc \in {"post", "perform"},
           NEW id \in BOOLEAN, TakesEffect(c, id),
           Current(c).checks \subseteq request[c].has,
           id /\ Current(c).stored => call'[c].pc = "persist"
    PROVE  Kept(c)'
<1>1. Steps(c)' = Steps(c) /\ Len(Steps(c)) \in Nat
  BY PlanFactsHold DEF PlanFacts, Inv, Steps, PlanOf
<1>2. call[c].at \in 1..Len(Steps(c)) /\ Len(log[c]) + 1 = call[c].at
  BY DEF Inv, Place
<1>3. /\ stored' = stored
      /\ Len(log'[c]) = call[c].at
      /\ \A i \in 1..Len(log[c]) : log'[c][i] = log[c][i]
      /\ log'[c][call[c].at] = [does |-> Current(c).does, id |-> id]
  BY <1>2, TakesEffectMove DEF Inv
<1>4. log[c] \in Seq(Entry)
  BY DEF Inv, TypeOK
<1>5. ASSUME NEW i \in 1..Len(log'[c])
      PROVE  /\ log'[c][i].does = Steps(c)[i].does
             /\ Steps(c)[i].checks \subseteq request[c].has
             /\ (/\ Steps(c)[i].stored /\ log'[c][i].id
                 /\ Numbered(request[c]) /\ <<c, i>> \notin stored') =>
                   i = Len(log'[c]) /\ call'[c].pc = "persist"
  <2>1. CASE i = call[c].at
    BY <1>3, <2>1 DEF Current
  <2>2. CASE i # call[c].at
    <3>1. i \in 1..Len(log[c])
      BY <1>2, <1>3, <1>4, <2>2
    <3> QED  BY <1>3, <3>1 DEF Inv, Kept
  <2> QED  BY <2>1, <2>2
<1> QED  BY <1>1, <1>5 DEF Kept


-----------------------------------------------------------------------------
(* The handlers' actions.                                                  *)

\* What every action starts from.
LEMMA HandlerFacts ==
    ASSUME Inv, NEW c \in Calls
    PROVE  /\ TypeOK /\ Len(Steps(c)) \in Nat /\ PlanFacts(c)
           /\ log[c] \in Seq(Entry) /\ call[c] \in CallState
           /\ call[c].pc # "end" => answer[c] = "none"
           /\ Len(log[c]) <= Len(Steps(c))
<1>1. TypeOK /\ Place(c)
  BY DEF Inv
<1>2. PlanFacts(c)
  BY <1>1, PlanFactsHold
<1>3. Len(Steps(c)) \in Nat
  BY <1>2 DEF PlanFacts
<1>4. log[c] \in Seq(Entry) /\ call[c] \in CallState
  BY <1>1 DEF TypeOK
<1> QED  BY <1>1, <1>2, <1>3, <1>4 DEF Place

LEMMA TakeRequestMoved ==
    ASSUME Inv, NEW c \in Calls, TakeRequest(c)
    PROVE  Moved(c)
<1>1. /\ TypeOK /\ Len(Steps(c)) \in Nat /\ PlanFacts(c)
      /\ answer[c] = "none" /\ log[c] = <<>> /\ call[c].pc = "queued"
  BY HandlerFacts DEF TakeRequest, At, Inv, Place
<1>2. /\ request' = request /\ log' = log /\ stored' = stored
      /\ completed' = completed /\ attempts' = attempts /\ slipped' = slipped
  BY DEF TakeRequest, progress
<1>3. Kept(c)'
  BY <1>1, <1>2, UnchangedKept
<1>4. ASSUME NEW a \in {"refused", "success"}, Ends(c, a),
             a = "success" => ~Vouches(PlanOf(c))
      PROVE  Moved(c)
  <2>1. /\ call' \in [Calls -> CallState] /\ answer' \in [Calls -> Answers]
        /\ \A d \in Calls \ {c} : call'[d] = call[d] /\ answer'[d] = answer[d]
        /\ call'[c].pc = "end" /\ answer'[c] = a
    BY <1>1, <1>4, EndsMove DEF Answers
  <2>2. TypeOK'
    BY <1>1, <1>2, <2>1 DEF TypeOK
  <2>3. Place(c)'
    BY <1>1, <1>2, <2>1, <2>2, EndsPlace
  <2>4. Answered(c) /\ Effected(c)
    BY <1>1, <1>2, <1>4, <2>1 DEF Answered, Effected
  <2> QED  BY <1>1, <1>2, <1>3, <2>1, <2>2, <2>3, <2>4 DEF Moved, OthersKept
<1>5. CASE PlanOf(c).kind = "refused" /\ RefusedAtOnce(c)
  BY <1>4, <1>5 DEF RefusedAtOnce
<1>6. CASE PlanOf(c).kind = "ignored" /\ Ends(c, "success")
  BY <1>4, <1>6 DEF Vouches
<1>7. CASE PlanOf(c).kind = "runs" /\ Goes(c, "resolve", 0)
  <2>1. Len(Steps(c)) > 0
    BY <1>1, <1>7 DEF PlanFacts
  <2>2. [pc |-> "resolve", at |-> 0] \in CallState
    BY DEF CallState, Points
  <2>3. /\ call' \in [Calls -> CallState] /\ answer' = answer
        /\ \A d \in Calls \ {c} : call'[d] = call[d]
        /\ call'[c].pc = "resolve"
    BY <1>1, <1>7, <2>2 DEF Goes, TypeOK
  <2>4. TypeOK'
    BY <1>1, <1>2, <2>3 DEF TypeOK
  <2>5. Steps(c)' = Steps(c)
    BY <1>2 DEF Steps, PlanOf
  <2>6. Place(c)'
    BY <1>1, <1>2, <2>1, <2>3, <2>5 DEF Place
  <2>7. Answered(c) /\ Effected(c)
    BY <1>1, <1>2, <2>3 DEF Answered, Effected
  <2> QED  BY <1>1, <1>2, <1>3, <2>3, <2>4, <2>6, <2>7 DEF Moved, OthersKept
<1>8. CASE PlanOf(c).kind = "runs" /\ Reaches(c, 1)
  <2>1. /\ call' \in [Calls -> CallState] /\ answer' \in [Calls -> Answers]
        /\ \A d \in Calls \ {c} : call'[d] = call[d] /\ answer'[d] = answer[d]
    BY <1>1, <1>8, ReachesMove
  <2>2. TypeOK'
    BY <1>1, <1>2, <2>1 DEF TypeOK
  <2>3. Place(c)' /\ Answered(c)
    BY <1>1, <1>2, <1>8, <2>2, ReachesPlace
  <2>4. Effected(c)
    BY <1>2 DEF Effected
  <2> QED  BY <1>1, <1>2, <1>3, <2>1, <2>2, <2>3, <2>4 DEF Moved, OthersKept
<1> QED  BY <1>5, <1>6, <1>7, <1>8 DEF TakeRequest

LEMMA ResolveChatMoved ==
    ASSUME Inv, NEW c \in Calls, ResolveChat(c)
    PROVE  Moved(c)
<1>1. /\ TypeOK /\ Len(Steps(c)) \in Nat /\ Len(Steps(c)) > 0
      /\ answer[c] = "none" /\ log[c] = <<>> /\ call[c].pc = "resolve"
  BY HandlerFacts DEF ResolveChat, At, Inv, Place
<1>2. /\ request' = request /\ log' = log /\ stored' = stored
      /\ completed' = completed /\ attempts' = attempts /\ slipped' = slipped
  BY DEF ResolveChat, progress
<1>3. Kept(c)' /\ Effected(c)
  BY <1>1, <1>2, UnchangedKept DEF Effected
<1>4. CASE Reaches(c, 1)
  <2>1. /\ call' \in [Calls -> CallState] /\ answer' \in [Calls -> Answers]
        /\ \A d \in Calls \ {c} : call'[d] = call[d] /\ answer'[d] = answer[d]
    BY <1>1, <1>4, ReachesMove
  <2>2. TypeOK'
    BY <1>1, <1>2, <2>1 DEF TypeOK
  <2>3. Place(c)' /\ Answered(c)
    BY <1>1, <1>2, <1>4, <2>2, ReachesPlace
  <2> QED  BY <1>1, <1>2, <1>3, <2>1, <2>2, <2>3 DEF Moved, OthersKept
<1>5. ASSUME NEW a \in {"refused", "failure"}, Ends(c, a)
      PROVE  Moved(c)
  <2>1. /\ call' \in [Calls -> CallState] /\ answer' \in [Calls -> Answers]
        /\ \A d \in Calls \ {c} : call'[d] = call[d] /\ answer'[d] = answer[d]
        /\ call'[c].pc = "end" /\ answer'[c] = a
    BY <1>1, <1>5, EndsMove DEF Answers
  <2>2. TypeOK'
    BY <1>1, <1>2, <2>1 DEF TypeOK
  <2>3. Place(c)'
    BY <1>1, <1>2, <2>1, <2>2, EndsPlace
  <2>4. Answered(c)
    BY <1>1, <1>2, <1>5, <2>1 DEF Answered
  <2> QED  BY <1>1, <1>2, <1>3, <2>1, <2>2, <2>3, <2>4 DEF Moved, OthersKept
<1> QED  BY <1>4, <1>5 DEF ResolveChat

\* A call that had no effect rejects.
LEMMA RefusalMoved ==
    ASSUME Inv, NEW c \in Calls, call[c].pc \in {"post", "perform"},
           Rejects(c), UNCHANGED <<request, progress, attempts, slipped>>
    PROVE  Moved(c)
<1>1. /\ TypeOK /\ Len(Steps(c)) \in Nat /\ log[c] \in Seq(Entry)
      /\ answer[c] = "none" /\ call[c].at \in 1..Len(Steps(c))
      /\ Len(log[c]) < Len(Steps(c))
  <2>1. call[c].at \in 1..Len(Steps(c)) /\ Len(log[c]) + 1 = call[c].at
    BY DEF Inv, Place
  <2> QED  BY <2>1, HandlerFacts
<1>2. /\ request' = request /\ log' = log /\ stored' = stored
      /\ completed' = completed /\ attempts' = attempts /\ slipped' = slipped
  BY DEF progress
<1>3. Kept(c)' /\ Effected(c)
  BY <1>1, <1>2, UnchangedKept DEF Effected
<1>4. /\ call' \in [Calls -> CallState] /\ answer' \in [Calls -> Answers]
      /\ \A d \in Calls \ {c} : call'[d] = call[d] /\ answer'[d] = answer[d]
      /\ call'[c].pc = "end" /\ answer'[c] \in {"failure", "success"}
      /\ answer'[c] = "success" => ~Vouches(PlanOf(c))
  BY <1>1, RejectsMove
<1>5. TypeOK'
  BY <1>1, <1>2, <1>4 DEF TypeOK
<1>6. Place(c)'
  BY <1>1, <1>2, <1>4, <1>5, EndsPlace
<1>7. Answered(c)
  BY <1>1, <1>2, <1>4 DEF Answered
<1> QED  BY <1>1, <1>2, <1>3, <1>4, <1>5, <1>6, <1>7 DEF Moved, OthersKept

\* A call took effect, and rejects.
LEMMA SlipMoved ==
    ASSUME Inv, NEW c \in Calls, call[c].pc \in {"post", "perform"},
           TakesEffect(c, FALSE), Current(c).checks \subseteq request[c].has,
           Slips(c), Rejects(c), UNCHANGED <<request, attempts>>
    PROVE  Moved(c)
<1>1. /\ TypeOK /\ Len(Steps(c)) \in Nat
      /\ call[c].at \in 1..Len(Steps(c)) /\ Len(log[c]) + 1 = call[c].at
  BY HandlerFacts DEF Inv, Place
<1>2. /\ log' \in [Calls -> Seq(Entry)] /\ completed' \in [Calls -> Nat]
      /\ \A d \in Calls \ {c} :
            log'[d] = log[d] /\ completed'[d] = completed[d]
      /\ stored' = stored
      /\ Len(log'[c]) = call[c].at
      /\ completed'[c] = IF call[c].at = Len(Steps(c))
                         THEN completed[c] + 1 ELSE completed[c]
  BY <1>1, TakesEffectMove
<1>3. /\ call' \in [Calls -> CallState] /\ answer' \in [Calls -> Answers]
      /\ \A d \in Calls \ {c} : call'[d] = call[d] /\ answer'[d] = answer[d]
      /\ call'[c].pc = "end" /\ answer'[c] \in {"failure", "success"}
      /\ answer'[c] = "success" => ~Vouches(PlanOf(c))
  BY <1>1, RejectsMove
<1>4. /\ slipped' = [slipped EXCEPT ![c] = TRUE] /\ slipped' \in [Calls -> BOOLEAN]
      /\ slipped'[c] /\ \A d \in Calls \ {c} : slipped'[d] = slipped[d]
  BY <1>1 DEF Slips, TypeOK
<1>5. TypeOK'
  BY <1>1, <1>2, <1>3, <1>4 DEF TypeOK
<1>6. Place(c)'
  BY <1>1, <1>2, <1>3, <1>5, EndsPlace
<1>7. Answered(c) /\ Effected(c)
  BY <1>1, <1>2, <1>3, <1>4 DEF Answered, Effected
<1>8. Kept(c)'
  BY AddedKept
<1> QED  BY <1>2, <1>3, <1>4, <1>5, <1>6, <1>7, <1>8 DEF Moved, OthersKept


LEMMA PostMessageMoved ==
    ASSUME Inv, NEW c \in Calls, PostMessage(c)
    PROVE  Moved(c)
<1>1. /\ TypeOK /\ Len(Steps(c)) \in Nat /\ PlanFacts(c)
      /\ call[c].pc = "post" /\ Current(c).does = "send"
      /\ call[c].at \in 1..Len(Steps(c)) /\ Len(log[c]) + 1 = call[c].at
  BY HandlerFacts DEF PostMessage, At, Inv, Place
<1>2. ASSUME Current(c).checks \subseteq request[c].has, NEW id \in BOOLEAN,
             TakesEffect(c, id), Accepted(c, id),
             UNCHANGED <<request, attempts, slipped>>
      PROVE  Moved(c)
  <2>1. /\ log' \in [Calls -> Seq(Entry)] /\ completed' \in [Calls -> Nat]
        /\ \A d \in Calls \ {c} :
              log'[d] = log[d] /\ completed'[d] = completed[d]
        /\ stored' = stored /\ Len(log'[c]) = call[c].at
        /\ completed'[c] = IF call[c].at = Len(Steps(c))
                           THEN completed[c] + 1 ELSE completed[c]
    BY <1>1, <1>2, TakesEffectMove
  <2>2. request' = request /\ attempts' = attempts /\ slipped' = slipped
        /\ Steps(c)' = Steps(c)
    BY <1>2 DEF Steps, PlanOf
  <2>3. Effected(c)
    BY <1>1, <2>1 DEF Effected
  <2>4. ASSUME id /\ Current(c).stored, Goes(c, "persist", call[c].at)
        PROVE  Moved(c)
    <3>1. [pc |-> "persist", at |-> call[c].at] \in CallState
      BY <1>1 DEF CallState, Points
    <3>2. /\ call' \in [Calls -> CallState] /\ answer' = answer
          /\ \A d \in Calls \ {c} : call'[d] = call[d]
          /\ call'[c].pc = "persist" /\ call'[c].at = call[c].at
      BY <1>1, <2>4, <3>1 DEF Goes, TypeOK
    <3>3. TypeOK'
      BY <1>1, <2>1, <2>2, <3>2 DEF TypeOK
    <3>4. Kept(c)'
      BY <1>1, <1>2, <2>2, <3>2, AddedKept
    <3>5. Current(c)' = Current(c) /\ answer[c] = "none"
      BY <1>1, <2>2, <3>2, HandlerFacts DEF Current
    <3>6. Place(c)' /\ Answered(c)
      BY <1>1, <2>1, <2>2, <3>2, <3>5 DEF Place, Answered
    <3> QED  BY <1>1, <2>1, <2>2, <2>3, <3>2, <3>3, <3>4, <3>6
             DEF Moved, OthersKept
  <2>5. ASSUME ~(id /\ Current(c).stored), AfterSending(c, id)
        PROVE  Moved(c)
    <3>1. /\ call' \in [Calls -> CallState] /\ answer' \in [Calls -> Answers]
          /\ \A d \in Calls \ {c} : call'[d] = call[d] /\ answer'[d] = answer[d]
          /\ \/ Reaches(c, call[c].at + 1)
             \/ /\ call'[c].pc = "end" /\ answer'[c] \in {"failure", "success"}
                /\ answer'[c] = "success" => ~Vouches(PlanOf(c))
                /\ Current(c).withoutId = answer'[c]
      BY <1>1, <2>5, AfterSendingMove
    <3>2. TypeOK'
      BY <1>1, <2>1, <2>2, <3>1 DEF TypeOK
    <3>3. Kept(c)'
      BY <1>1, <1>2, <2>2, <2>5, AddedKept
    <3>4. CASE Reaches(c, call[c].at + 1)
      <4>1. Place(c)' /\ Answered(c)
        BY <1>1, <2>1, <2>2, <3>2, <3>4, ReachesPlace
      <4> QED  BY <1>1, <2>1, <2>2, <2>3, <3>1, <3>2, <3>3, <4>1
               DEF Moved, OthersKept
    <3>5. CASE /\ call'[c].pc = "end" /\ answer'[c] \in {"failure", "success"}
               /\ answer'[c] = "success" => ~Vouches(PlanOf(c))
               /\ Current(c).withoutId = answer'[c]
      <4>1. Place(c)'
        BY <1>1, <2>1, <2>2, <3>2, <3>5, EndsPlace
      <4>2. answer'[c] = "failure" => call[c].at < Len(Steps(c))
        <5>1. Steps(c) = PlanOf(c).steps /\ call[c].at \in DOMAIN Steps(c)
              /\ DOMAIN Steps(c) = 1..Len(Steps(c))
          BY <1>1 DEF PlanFacts, Steps
        <5>2. Current(c).withoutId = "failure" => call[c].at + 1 \in DOMAIN Steps(c)
          BY <1>1, <5>1 DEF PlanFacts, Sound, Current
        <5> QED  BY <1>1, <3>5, <5>1, <5>2
      <4>3. Answered(c)
        BY <2>1, <3>5, <4>2 DEF Answered
      <4> QED  BY <1>1, <2>1, <2>2, <2>3, <3>1, <3>2, <3>3, <4>1, <4>3
               DEF Moved, OthersKept
    <3> QED  BY <3>1, <3>4, <3>5
  <2> QED  BY <1>2, <2>4, <2>5 DEF Accepted
<1> QED  BY <1>1, <1>2, RefusalMoved, SlipMoved DEF PostMessage

LEMMA PerformMoved ==
    ASSUME Inv, NEW c \in Calls, Perform(c)
    PROVE  Moved(c)
<1>1. /\ TypeOK /\ Len(Steps(c)) \in Nat /\ PlanFacts(c)
      /\ call[c].pc = "perform" /\ Current(c).does # "send"
      /\ call[c].at \in 1..Len(Steps(c)) /\ Len(log[c]) + 1 = call[c].at
  BY HandlerFacts DEF Perform, At, Inv, Place
<1>2. Current(c).checks = {}
  <2>1. Steps(c) = PlanOf(c).steps /\ call[c].at \in DOMAIN Steps(c)
    BY <1>1 DEF PlanFacts, Steps
  <2> QED  BY <1>1, <2>1 DEF PlanFacts, Sound, Fits, Current
<1>3. ASSUME TakesEffect(c, FALSE), Reaches(c, call[c].at + 1),
             UNCHANGED <<request, attempts, slipped>>
      PROVE  Moved(c)
  <2>1. /\ log' \in [Calls -> Seq(Entry)] /\ completed' \in [Calls -> Nat]
        /\ \A d \in Calls \ {c} :
              log'[d] = log[d] /\ completed'[d] = completed[d]
        /\ stored' = stored /\ Len(log'[c]) = call[c].at
        /\ completed'[c] = IF call[c].at = Len(Steps(c))
                           THEN completed[c] + 1 ELSE completed[c]
    BY <1>1, <1>3, TakesEffectMove
  <2>2. request' = request /\ attempts' = attempts /\ slipped' = slipped
    BY <1>3
  <2>3. /\ call' \in [Calls -> CallState] /\ answer' \in [Calls -> Answers]
        /\ \A d \in Calls \ {c} : call'[d] = call[d] /\ answer'[d] = answer[d]
    BY <1>1, <1>3, ReachesMove
  <2>4. TypeOK'
    BY <1>1, <2>1, <2>2, <2>3 DEF TypeOK
  <2>5. Place(c)' /\ Answered(c)
    BY <1>1, <1>3, <2>1, <2>2, <2>4, ReachesPlace
  <2>6. Kept(c)'
    <3>1. /\ Current(c).checks \subseteq request[c].has
          /\ call[c].pc \in {"post", "perform"}
      BY <1>1, <1>2
    <3> QED  BY <1>3, <2>2, <3>1, AddedKept
  <2>7. Effected(c)
    BY <1>1, <2>1 DEF Effected
  <2> QED  BY <1>1, <2>1, <2>2, <2>3, <2>4, <2>5, <2>6, <2>7
           DEF Moved, OthersKept
<1> QED  BY <1>1, <1>2, <1>3, RefusalMoved, SlipMoved DEF Perform


LEMMA PersistMessageMoved ==
    ASSUME Inv, NEW c \in Calls, PersistMessage(c)
    PROVE  Moved(c)
<1>1. /\ TypeOK /\ Len(Steps(c)) \in Nat /\ call[c].pc = "persist"
      /\ call[c].at \in 1..Len(Steps(c)) /\ Len(log[c]) = call[c].at
      /\ log[c] \in Seq(Entry)
  BY HandlerFacts DEF PersistMessage, At, Inv, Place
<1>2. /\ request' = request /\ log' = log /\ completed' = completed
      /\ attempts' = attempts /\ Steps(c)' = Steps(c)
  BY DEF PersistMessage, Steps, PlanOf
<1>3. Effected(c)
  BY <1>2 DEF Effected
<1>4. ASSUME stored' \in {stored, stored \cup {<<c, call[c].at>>}}
      PROVE  /\ stored' \subseteq Calls \X Nat
             /\ \A d \in Calls \ {c} : \A i \in Nat :
                   <<d, i>> \in stored' <=> <<d, i>> \in stored
  BY <1>1, <1>4 DEF TypeOK
<1>5. ASSUME NEW i \in 1..Len(log[c])
      PROVE  /\ log[c][i].does = Steps(c)[i].does
             /\ Steps(c)[i].checks \subseteq request[c].has
             /\ (/\ Steps(c)[i].stored /\ log[c][i].id
                 /\ Numbered(request[c]) /\ <<c, i>> \notin stored) =>
                   i = call[c].at
  BY <1>1 DEF Inv, Kept
<1>6. ASSUME \/ ~Numbered(request[c]) /\ stored' = stored
             \/ stored' = stored \cup {<<c, call[c].at>>},
             AfterSending(c, TRUE), slipped' = slipped
      PROVE  Moved(c)
  <2>1. /\ call' \in [Calls -> CallState] /\ answer' \in [Calls -> Answers]
        /\ \A d \in Calls \ {c} : call'[d] = call[d] /\ answer'[d] = answer[d]
        /\ Reaches(c, call[c].at + 1)
    BY <1>1, <1>6, AfterSendingMove
  <2>2. TypeOK'
    BY <1>1, <1>2, <1>4, <1>6, <2>1 DEF TypeOK
  <2>3. Place(c)' /\ Answered(c)
    BY <1>1, <1>2, <2>1, <2>2, ReachesPlace
  <2>4. Kept(c)'
    BY <1>2, <1>5, <1>6 DEF Kept
  <2> QED  BY <1>1, <1>2, <1>3, <1>4, <1>6, <2>1, <2>2, <2>3, <2>4
           DEF Moved, OthersKept
<1>7. ASSUME stored' \in {stored, stored \cup {<<c, call[c].at>>}}, Slips(c),
             Rejects(c)
      PROVE  Moved(c)
  <2>1. /\ call' \in [Calls -> CallState] /\ answer' \in [Calls -> Answers]
        /\ \A d \in Calls \ {c} : call'[d] = call[d] /\ answer'[d] = answer[d]
        /\ call'[c].pc = "end" /\ answer'[c] \in {"failure", "success"}
        /\ answer'[c] = "success" => ~Vouches(PlanOf(c))
    BY <1>1, <1>7, RejectsMove
  <2>2. /\ slipped' = [slipped EXCEPT ![c] = TRUE]
        /\ slipped' \in [Calls -> BOOLEAN] /\ slipped'[c]
        /\ \A d \in Calls \ {c} : slipped'[d] = slipped[d]
    BY <1>1, <1>7 DEF Slips, TypeOK
  <2>3. TypeOK'
    BY <1>1, <1>2, <1>4, <1>7, <2>1, <2>2 DEF TypeOK
  <2>4. Place(c)'
    BY <1>1, <1>2, <2>1, <2>3, EndsPlace
  <2>5. Answered(c)
    BY <2>1, <2>2 DEF Answered
  <2>6. Kept(c)'
    BY <1>1, <1>2, <1>5, <1>7, <2>1, <2>2 DEF Kept
  <2> QED  BY <1>1, <1>2, <1>3, <1>4, <1>7, <2>1, <2>2, <2>3, <2>4, <2>5, <2>6
           DEF Moved, OthersKept
<1> QED  BY <1>6, <1>7 DEF PersistMessage, PersistenceRejects

LEMMA HandleMoved ==
    ASSUME Inv, NEW c \in Calls, Handle(c)
    PROVE  Moved(c)
BY TakeRequestMoved, ResolveChatMoved, PostMessageMoved, PersistMessageMoved,
   PerformMoved DEF Handle

\* Whatever moves so keeps the invariant.
LEMMA MovedInv ==
    ASSUME Inv, NEW c \in Calls, Moved(c)
    PROVE  Inv'
<1>1. /\ TypeOK /\ Told(c) /\ Len(Steps(c)) \in Nat /\ log[c] \in Seq(Entry)
      /\ Len(log[c]) <= Len(Steps(c)) /\ completed[c] \in Nat
  BY HandlerFacts DEF Inv, TypeOK
<1>2. /\ Effected(c) /\ Answered(c) /\ Place(c)' /\ TypeOK' /\ OthersKept(c)
      /\ request' = request /\ Kept(c)'
      /\ slipped' \in {slipped, [slipped EXCEPT ![c] = TRUE]}
  BY DEF Moved
<1>3. Steps(c)' = Steps(c)
  BY <1>2 DEF Steps, PlanOf
<1>4. ~slipped'[c] => ~slipped[c]
  BY <1>1, <1>2 DEF TypeOK
<1>5. ~slipped'[c] => completed'[c] =
         IF Len(Steps(c)) > 0 /\ Len(log'[c]) = Len(Steps(c)) THEN 1 ELSE 0
  BY <1>1, <1>2, <1>4 DEF Effected, Told
<1>6. Told(c)'
  BY <1>2, <1>3, <1>5 DEF Answered, Told
<1> QED  BY <1>2, <1>6, OthersInv


-----------------------------------------------------------------------------
(* Restarts, and callers who ask again.                                    *)

LEMMA AskAgainInv ==
    ASSUME Inv, NEW c \in Calls, AskAgain(c)
    PROVE  Inv'
<1>1. TypeOK /\ Len(Steps(c)) \in Nat /\ Told(c) /\ Place(c)
  BY HandlerFacts DEF Inv
<1>2. /\ request' = request /\ completed' = completed /\ slipped' = slipped
      /\ call' = [call EXCEPT ![c] = Queued] /\ log' = [log EXCEPT ![c] = <<>>]
      /\ stored' = {s \in stored : s[1] # c}
      /\ answer' = [answer EXCEPT ![c] = "none"]
      /\ attempts' = [attempts EXCEPT ![c] = @ + 1]
      /\ answer[c] \in {"failure", "lost"}
  BY DEF AskAgain
<1>3. TypeOK'
  <2>1. Queued \in CallState /\ "none" \in Answers /\ <<>> \in Seq(Entry)
    BY DEF Queued, CallState, Points, Answers
  <2> QED  BY <1>1, <1>2, <2>1 DEF TypeOK
<1>4. /\ call'[c] = Queued /\ log'[c] = <<>> /\ answer'[c] = "none"
      /\ Steps(c)' = Steps(c)
  BY <1>1, <1>2 DEF TypeOK, Steps, PlanOf
<1>5. OthersKept(c)
  BY <1>1, <1>2 DEF TypeOK, OthersKept
<1>6. Place(c)' /\ Kept(c)'
  BY <1>1, <1>4 DEF Place, Kept, Queued
<1>7. ~slipped[c] => completed[c] = 0
  <2>1. ~slipped[c] => Len(log[c]) # Len(Steps(c))
    BY <1>1, <1>2 DEF Told, TypeOK
  <2> QED  BY <1>1, <2>1 DEF Told
<1>8. Told(c)'
  BY <1>1, <1>2, <1>4, <1>7 DEF Told
<1> QED  BY <1>2, <1>3, <1>5, <1>6, <1>8, OthersInv

LEMMA CrashInv ==
    ASSUME Inv, Crash
    PROVE  Inv'
<1>1. TypeOK
  BY DEF Inv
<1>2. /\ request' = request /\ log' = log /\ stored' = stored
      /\ completed' = completed /\ attempts' = attempts
  BY DEF Crash, progress
<1>3. TypeOK'
  BY <1>1, <1>2 DEF Crash, TypeOK, Running, CallState, Points, Answers
<1>4. ASSUME NEW d \in Calls
      PROVE  Place(d)' /\ Told(d)' /\ Kept(d)'
  <2>1. Place(d) /\ Told(d) /\ Kept(d) /\ Len(Steps(d)) \in Nat
        /\ Steps(d)' = Steps(d) /\ call[d] \in CallState
    BY <1>2, HandlerFacts DEF Inv, Steps, PlanOf
  <2>2. CASE d \in Running
    <3>1. call'[d].pc = "end" /\ answer'[d] = "lost" /\ slipped'[d]
      BY <2>1, <2>2 DEF Crash, CallState
    <3> QED  BY <1>2, <2>1, <3>1 DEF Place, Told, Kept
  <2>3. CASE d \notin Running
    <3>1. /\ call'[d] = call[d] /\ answer'[d] = answer[d]
          /\ slipped'[d] <=> slipped[d]
      BY <2>3 DEF Crash
    <3>2. call'[d] = call[d] /\ answer'[d] = answer[d] /\ Current(d)' = Current(d)
      BY <2>1, <3>1 DEF Current
    <3>3. Place(d)'
      BY <1>2, <2>1, <3>2 DEF Place
    <3>4. Told(d)'
      BY <1>2, <2>1, <3>1 DEF Told
    <3>5. Kept(d)'
      BY <1>2, <2>1, <3>1 DEF Kept
    <3> QED  BY <3>3, <3>4, <3>5
  <2> QED  BY <2>2, <2>3
<1> QED  BY <1>3, <1>4 DEF Inv

LEMMA NextInv == Inv /\ [Next]_vars => Inv'
<1> SUFFICES ASSUME Inv, [Next]_vars PROVE Inv'
  OBVIOUS
<1>1. ASSUME NEW c \in Calls, Handle(c)
      PROVE  Inv'
  BY <1>1, HandleMoved, MovedInv
<1>2. ASSUME NEW c \in Calls, AskAgain(c)
      PROVE  Inv'
  BY <1>2, AskAgainInv
<1>3. CASE Crash
  BY <1>3, CrashInv
<1>4. CASE UNCHANGED vars
  BY <1>4 DEF vars, progress, Inv, TypeOK, Place, Told, Kept, Steps, PlanOf,
              Current
<1> QED  BY <1>1, <1>2, <1>3, <1>4 DEF Next

LEMMA Invariance == Spec => []Inv
BY InitInv, NextInv, PTL DEF Spec


-----------------------------------------------------------------------------
(* The theorems.                                                           *)

\* The type of every variable.
THEOREM TypeCorrect == Spec => []TypeOK
<1>1. Inv => TypeOK
  BY DEF Inv
<1> QED  BY <1>1, Invariance, PTL

\* The CRM is told of a message to a number that Meta gave an id, and a
\* capture starts after its opening, only once the message was put in the chat
\* history: whatever requests there are and however their calls reject.
THEOREM ReportsAreStored == Spec => []ReportedIsStored
<1>1. ASSUME Inv, NEW c \in Calls, NEW i \in DOMAIN log[c], Reported(c, i),
             log[c][i].id, Numbered(request[c])
      PROVE  <<c, i>> \in stored
  <2>1. /\ PlanFacts(c) /\ Kept(c) /\ log[c] \in Seq(Entry)
        /\ Len(log[c]) <= Len(Steps(c)) /\ Len(Steps(c)) \in Nat
    BY <1>1, HandlerFacts DEF Inv
  <2>2. /\ i \in 1..Len(log[c]) /\ i + 1 \in 1..Len(log[c]) /\ i + 1 \in 1..Len(Steps(c))
        /\ i \in 1..Len(Steps(c)) /\ log[c][i].does = "send"
    BY <1>1, <2>1 DEF Reported
  <2>3. Steps(c)[i].does = "send"
    BY <2>1, <2>2 DEF Kept
  <2>4. DOMAIN Steps(c) = 1..Len(Steps(c)) /\ Steps(c) = PlanOf(c).steps
    BY <2>1 DEF PlanFacts, Steps
  <2>5. Steps(c)[i].stored
    BY <2>1, <2>2, <2>3, <2>4 DEF PlanFacts, Sound
  <2>6. i # Len(log[c])
    BY <2>1, <2>2
  <2> QED  BY <1>1, <2>1, <2>2, <2>5, <2>6 DEF Kept
<1>2. Inv => ReportedIsStored
  BY <1>1 DEF ReportedIsStored
<1> QED  BY <1>2, Invariance, PTL

\* Every message to a number that Meta accepted with an id for a request that
\* is answered was put in the history, unless something slipped.
THEOREM SentIsStored == Spec => []SentIsInHistory
<1>1. ASSUME Inv, NEW c \in Calls, NEW i \in DOMAIN log[c], answer[c] # "none",
             Steps(c)[i].stored, log[c][i].id, ~slipped[c],
             Numbered(request[c])
      PROVE  <<c, i>> \in stored
  <2>1. Kept(c) /\ call[c].pc = "end" /\ i \in 1..Len(log[c])
    BY <1>1, HandlerFacts DEF Inv, Place
  <2> QED  BY <1>1, <2>1 DEF Kept
<1>2. Inv => SentIsInHistory
  BY <1>1 DEF SentIsInHistory
<1> QED  BY <1>2, Invariance, PTL

\* No command sends a message one of whose parameters it lacks; the link of
\* sent.training_message may be missing ('-' is sent), and no other.
THEOREM MessagesAreWhole == Spec => []ParametersArePresent
<1>1. ASSUME Inv, NEW c \in Calls, NEW i \in DOMAIN log[c]
      PROVE  Steps(c)[i].needs \subseteq request[c].has \cup Unchecked(request[c])
  <2>1. /\ PlanFacts(c) /\ Kept(c) /\ log[c] \in Seq(Entry)
        /\ Len(log[c]) <= Len(Steps(c)) /\ Len(Steps(c)) \in Nat
    BY <1>1, HandlerFacts DEF Inv
  <2>2. i \in 1..Len(log[c]) /\ i \in 1..Len(Steps(c))
    BY <2>1
  <2>3. DOMAIN Steps(c) = 1..Len(Steps(c)) /\ Steps(c) = PlanOf(c).steps
    BY <2>1 DEF PlanFacts, Steps
  <2>4. Fits(Steps(c)[i], request[c].has, Unchecked(request[c]))
    BY <2>1, <2>2, <2>3 DEF PlanFacts, Sound
  <2>5. Steps(c)[i].checks \subseteq request[c].has
    BY <2>1, <2>2 DEF Kept
  <2> QED  BY <2>4, <2>5 DEF Fits
<1>2. Inv => ParametersArePresent
  BY <1>1 DEF ParametersArePresent
<1> QED  BY <1>2, Invariance, PTL

\* A caller who asks again only after a failure, or no answer, has its
\* request carried out at most once, unless something slipped.
THEOREM CarriedOutOnce == Spec => []DoneAtMostOnce
<1>1. ASSUME Inv, NEW c \in Calls, completed[c] > 1
      PROVE  slipped[c]
  <2>1. Told(c) /\ completed[c] \in Nat
    BY <1>1 DEF Inv, TypeOK
  <2> QED  BY <1>1, <2>1 DEF Told
<1>2. Inv => DoneAtMostOnce
  BY <1>1 DEF DoneAtMostOnce, Promises!AtMostOnce
<1> QED  BY <1>2, Invariance, PTL

-----------------------------------------------------------------------------
(* The refinement of SendPromises.                                         *)

LEMMA InitPromises == Init => Promises!Init
<1> SUFFICES ASSUME Init PROVE Promises!Init
  OBVIOUS
<1>1. Inv
  BY InitInv
<1>2. ASSUME NEW c \in Calls
      PROVE  [steps |-> Len(Steps(c)), vouches |-> Vouches(PlanOf(c))]
                \in [steps : Nat, vouches : BOOLEAN]
  <2>1. Len(Steps(c)) \in Nat
    BY <1>1, HandlerFacts
  <2>2. Vouches(PlanOf(c)) \in BOOLEAN
    BY DEF Vouches
  <2> QED  BY <2>1, <2>2
<1>3. \A c \in Calls : Len(log[c]) = 0
  BY DEF Init
<1> QED  BY <1>2, <1>3 DEF Init, Promises!Init, Promises!Promise

\* What a request stands for does not change.
LEMMA PromiseKept ==
    ASSUME request' = request
    PROVE  [c \in Calls |-> [steps   |-> Len(Steps(c)),
                             vouches |-> Vouches(PlanOf(c))]]'
           = [c \in Calls |-> [steps   |-> Len(Steps(c)),
                               vouches |-> Vouches(PlanOf(c))]]
BY DEF Steps, PlanOf

LEMMA HandlePromises ==
    ASSUME Inv, NEW c \in Calls, Moved(c)
    PROVE  Promises!Act(c)
<1>1. /\ TypeOK /\ Len(Steps(c)) \in Nat /\ log[c] \in Seq(Entry)
      /\ answer[c] = "none"
  BY HandlerFacts DEF Moved
<1>2. /\ Effected(c) /\ Answered(c) /\ TypeOK' /\ OthersKept(c)
      /\ request' = request /\ Steps(c)' = Steps(c) /\ PlanOf(c)' = PlanOf(c)
      /\ slipped' \in {slipped, [slipped EXCEPT ![c] = TRUE]}
  BY DEF Moved, Steps, PlanOf
<1>3. \A d \in Calls \ {c} : /\ log'[d] = log[d] /\ answer'[d] = answer[d]
                             /\ completed'[d] = completed[d]
  BY <1>2 DEF OthersKept
<1>4. Promises!Open(c)
  BY <1>1 DEF Promises!Open
<1>5. Promises!Effect(c) \/
         /\ [d \in Calls |-> Len(log[d])]' = [d \in Calls |-> Len(log[d])]
         /\ completed' = completed
  <2>1. CASE log'[c] = log[c] /\ completed'[c] = completed[c]
    <3>1. \A d \in Calls : log'[d] = log[d] /\ completed'[d] = completed[d]
      BY <1>3, <2>1
    <3>2. completed' = completed
      BY <1>1, <1>2, <3>1 DEF TypeOK
    <3> QED  BY <3>1, <3>2
  <2>2. CASE /\ Len(log'[c]) = Len(log[c]) + 1
             /\ Len(log'[c]) <= Len(Steps(c))
             /\ completed'[c] = IF Len(log'[c]) = Len(Steps(c))
                                THEN completed[c] + 1 ELSE completed[c]
    <3>1. Len(log[c]) < Len(Steps(c))
      BY <1>1, <2>2
    <3>2. [d \in Calls |-> Len(log'[d])] =
             [[d \in Calls |-> Len(log[d])] EXCEPT ![c] = @ + 1]
      BY <1>3, <2>2
    <3>3. completed' = [completed EXCEPT ![c] =
             IF Len(log[c]) + 1 = Len(Steps(c)) THEN @ + 1 ELSE @]
      BY <1>1, <1>2, <1>3, <2>2 DEF TypeOK
    <3> QED  BY <3>1, <3>2, <3>3 DEF Promises!Effect
  <2> QED  BY <1>2, <2>1, <2>2 DEF Effected
<1>6. \/ answer' = answer
      \/ \E a \in {"success", "failure", "refused"} :
            /\ answer' = [answer EXCEPT ![c] = a]
            /\ Promises!Justified(c, a)'
  <2>1. ASSUME NEW a, answer'[c] = a
        PROVE  answer' = [answer EXCEPT ![c] = a]
    BY <1>1, <1>2, <1>3, <2>1 DEF TypeOK
  <2>2. CASE answer'[c] = "none"
    BY <1>1, <1>2, <1>3, <2>2 DEF TypeOK
  <2>3. CASE /\ answer'[c] = "success"
             /\ Vouches(PlanOf(c)) => Len(log'[c]) = Len(Steps(c))
    <3>1. Promises!Justified(c, "success")'
      BY <1>2, <2>3 DEF Promises!Justified
    <3> QED  BY <2>1, <2>3, <3>1
  <2>4. CASE /\ answer'[c] = "failure"
             /\ slipped'[c] \/ Len(log'[c]) < Len(Steps(c))
    <3>1. Promises!Justified(c, "failure")'
      BY <1>2, <2>4 DEF Promises!Justified
    <3> QED  BY <2>1, <2>4, <3>1
  <2>5. CASE answer'[c] = "refused" /\ Len(log'[c]) = 0
    <3>1. Promises!Justified(c, "refused")'
      BY <1>2, <2>5 DEF Promises!Justified
    <3> QED  BY <2>1, <2>5, <3>1
  <2> QED  BY <1>2, <2>2, <2>3, <2>4, <2>5 DEF Answered
<1> QED  BY <1>2, <1>4, <1>5, <1>6, PromiseKept DEF Promises!Act


LEMMA AskAgainPromises ==
    ASSUME Inv, NEW c \in Calls, AskAgain(c)
    PROVE  Promises!Again(c)
<1>1. TypeOK /\ request' = request
  BY DEF Inv, AskAgain
<1>2. [d \in Calls |-> Len(log'[d])] =
         [[d \in Calls |-> Len(log[d])] EXCEPT ![c] = 0]
  BY <1>1 DEF AskAgain, TypeOK
<1>3. answer[c] \in {"failure", "lost"}
      /\ answer' = [answer EXCEPT ![c] = "none"]
      /\ completed' = completed /\ slipped' = slipped
  BY DEF AskAgain
<1> QED  BY <1>1, <1>2, <1>3, PromiseKept DEF Promises!Again

LEMMA CrashPromises ==
    ASSUME Inv, Crash
    PROVE  \E lost \in SUBSET Calls : Promises!Crash(lost)
<1>1. /\ request' = request /\ log' = log /\ completed' = completed
      /\ answer' = [c \in Calls |-> IF c \in Running THEN "lost" ELSE answer[c]]
      /\ slipped' = [c \in Calls |-> slipped[c] \/ c \in Running]
  BY DEF Crash, progress
<1>2. \A c \in Running : answer[c] = "none"
  BY HandlerFacts DEF Running
<1>3. Promises!Crash(Running)
  BY <1>1, <1>2, PromiseKept DEF Promises!Crash, Promises!Open, Running
<1> QED  BY <1>3 DEF Running

LEMMA StepPromises == Inv /\ [Next]_vars => [Promises!Next]_(Promises!vars)
<1> SUFFICES ASSUME Inv, [Next]_vars PROVE [Promises!Next]_(Promises!vars)
  OBVIOUS
<1>1. ASSUME NEW c \in Calls, Handle(c)
      PROVE  Promises!Next
  BY <1>1, HandleMoved, HandlePromises DEF Promises!Next
<1>2. ASSUME NEW c \in Calls, AskAgain(c)
      PROVE  Promises!Next
  BY <1>2, AskAgainPromises DEF Promises!Next
<1>3. CASE Crash
  BY <1>3, CrashPromises DEF Promises!Next
<1>4. CASE UNCHANGED vars
  BY <1>4, PromiseKept DEF vars, progress, Promises!vars
<1> QED  BY <1>1, <1>2, <1>3, <1>4 DEF Next

\* Every handler, for every request, keeps what its caller relies on.
THEOREM KeepsPromises == Spec => ImplementsPromises
<1>1. Init => Promises!Init
  BY InitPromises
<1> QED  BY <1>1, StepPromises, Invariance, PTL
         DEF Spec, ImplementsPromises, Promises!Spec
=============================================================================
