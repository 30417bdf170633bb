--------------------------- MODULE WebhookProofs ---------------------------
(***************************************************************************)
(* Theorems about Webhook, for any number of payloads, items and requests  *)
(* in flight.                                                              *)
(*                                                                         *)
(* The inductive invariant says of the request that handles an item: the   *)
(* CRM knows all items before it, and the item itself once it is mirrored; *)
(* unless the person has a session, there was a time without one; and what *)
(* leads to a call to action or to DeepSeek has seen such a time.  Since   *)
(* crm only grows, no other request disturbs this.                         *)
(***************************************************************************)
EXTENDS Webhook, TLAPS

ReceivedIn(ev, m) == Reports!Event("user_message_received", m) \in ev

KnownIn(ev, x) ==
    /\ x \in Messages => ReceivedIn(ev, x)
    /\ x \in Statuses /\ DueOf[x] # None => Reports!Event(DueOf[x], x) \in ev

AnswerPoints ==
    {"cta", "click", "duplicate", "conversation", "complete", "send", "tell"}

\* What a request in state q knows when the CRM has heard ev and act tells
\* whether the person has a session.
StateOK(q, ev, act) ==
    /\ q.pc # "idle" => q.payload \in Payloads
    /\ q.pc = "ok" => \A j \in 1 .. Len(q.payload) : KnownIn(ev, q.payload[j])
    /\ q.pc \in ItemPoints =>
          /\ q.item \in 1 .. Len(q.payload)
          /\ \A j \in 1 .. (q.item - 1) : KnownIn(ev, q.payload[j])
          /\ ~act => q.free
          /\ q.taken => q.pc = "tell"
    /\ q.pc \in MessagePoints => q.payload[q.item] \in Messages
    /\ q.pc \in MessagePoints /\ q.pc # "mirror" =>
          ReceivedIn(ev, q.payload[q.item])
    /\ q.pc \in {"tracked", "marketing", "due"} =>
          q.payload[q.item] \in Statuses
    /\ q.pc = "marketing" => StatusOf[q.payload[q.item]] # "ecosystem"
    /\ q.pc = "due" => DueOf[q.payload[q.item]] # None
    /\ q.pc \in AnswerPoints /\ TextOf[q.payload[q.item]] # None => q.free

IInv ==
    /\ TypeOK
    /\ \A r \in Requests : StateOK(request[r], crm, active)

\* Handling and Step with the session as a parameter.
HandlingIf(p, i, act) ==
    [pc |-> FirstPoint(p, i), payload |-> p, item |-> i, round |-> 0,
     taken |-> FALSE, free |-> ~act]

StepIf(q, point, act) ==
    IF point = "next" THEN HandlingIf(q.payload, q.item + 1, act)
                      ELSE [q EXCEPT !.pc = point]

-----------------------------------------------------------------------------
(* States of one request.                                                  *)

LEMMA IdleOK ==
    ASSUME NEW ev, NEW act
    PROVE  Idle \in RequestState /\ StateOK(Idle, ev, act)
<1>1. 0 \in 0 .. ToolRoundsMax - 1
  BY ShapesAssumption
<1>2. QED
  BY <1>1 DEF Idle, RequestState, StateOK, MessagePoints, ItemPoints,
              AnswerPoints

LEMMA StepIsStepIf ==
    ASSUME NEW q, NEW point
    PROVE  Step(q, point) = StepIf(q, point, active)
  BY DEF Step, StepIf, Handling, HandlingIf

\* What a request knows stays true when the CRM hears more.
LEMMA HearingMore ==
    ASSUME NEW q, NEW ev, NEW more, NEW act, ev \subseteq more,
           StateOK(q, ev, act)
    PROVE  StateOK(q, more, act)
  BY DEF StateOK, KnownIn, ReceivedIn

LEMMA PayloadItems ==
    ASSUME NEW p \in Payloads, NEW i \in 1 .. Len(p)
    PROVE  p[i] \in Messages \/ p[i] \in Statuses
  BY PayloadsAssumption DEF Items

\* An item may be taken up when the CRM knows those before it.
LEMMA HandlingOK ==
    ASSUME NEW p \in Payloads, NEW i \in Nat \ {0}, NEW ev,
           NEW act \in BOOLEAN, i <= Len(p) + 1,
           \A j \in 1 .. (i - 1) : KnownIn(ev, p[j])
    PROVE  /\ HandlingIf(p, i, act) \in RequestState
           /\ StateOK(HandlingIf(p, i, act), ev, act)
<1> DEFINE q == HandlingIf(p, i, act)
<1>1. /\ q.pc = FirstPoint(p, i) /\ q.payload = p /\ q.item = i
      /\ q.round = 0 /\ q.taken = FALSE /\ q.free = ~act
  BY DEF HandlingIf
<1>2. Len(p) \in Nat /\ 0 \in 0 .. ToolRoundsMax - 1
  BY PayloadsAssumption, ShapesAssumption
<1>3. FirstPoint(p, i) \in {"ok", "mirror", "tracked"}
  BY DEF FirstPoint
<1>4. q \in RequestState
  BY <1>2, <1>3 DEF HandlingIf, RequestState, MessagePoints, ItemPoints
<1>5. CASE i > Len(p)
  <2>1. FirstPoint(p, i) = "ok" /\ i - 1 = Len(p)
    BY <1>2, <1>5 DEF FirstPoint
  <2>2. QED
    BY <1>1, <1>4, <2>1 DEF StateOK, MessagePoints, ItemPoints, AnswerPoints
<1>6. CASE i <= Len(p)
  <2>1. i \in 1 .. Len(p) /\ ~(i > Len(p))
    BY <1>2, <1>6
  <2>2. CASE p[i] \in Messages
    <3>1. FirstPoint(p, i) = "mirror"
      BY <2>1, <2>2 DEF FirstPoint
    <3>2. QED
      BY <1>1, <1>4, <2>1, <2>2, <3>1
         DEF StateOK, MessagePoints, ItemPoints, AnswerPoints
  <2>3. CASE p[i] \notin Messages
    <3>1. FirstPoint(p, i) = "tracked" /\ p[i] \in Statuses
      BY <2>1, <2>3, PayloadItems DEF FirstPoint
    <3>2. QED
      BY <1>1, <1>4, <2>1, <3>1
         DEF StateOK, MessagePoints, ItemPoints, AnswerPoints
  <2>4. QED
    BY <2>2, <2>3
<1>7. QED
  BY <1>2, <1>5, <1>6

\* A request goes on to a point of its item that it may be at, or to the next
\* item if the CRM knows this one.
LEMMA StepOK ==
    ASSUME NEW q \in RequestState, NEW ev, NEW act \in BOOLEAN, NEW point,
           q.pc \in ItemPoints, StateOK(q, ev, act),
           point = "next" => KnownIn(ev, q.payload[q.item]),
           point # "next" => /\ point \in ItemPoints
                             /\ StateOK([q EXCEPT !.pc = point], ev, act)
    PROVE  /\ StepIf(q, point, act) \in RequestState
           /\ StateOK(StepIf(q, point, act), ev, act)
<1>1. CASE point = "next"
  <2> DEFINE p == q.payload
  <2>1. /\ p \in Payloads /\ q.item \in 1 .. Len(p)
        /\ \A j \in 1 .. (q.item - 1) : KnownIn(ev, p[j])
    BY DEF StateOK, ItemPoints, MessagePoints
  <2>2. Len(p) \in Nat
    BY <2>1, PayloadsAssumption
  <2> DEFINE i == q.item + 1
  <2>3. /\ i \in Nat \ {0} /\ i <= Len(p) + 1
        /\ \A j \in 1 .. (i - 1) : j \in 1 .. (q.item - 1) \/ j = q.item
    BY <2>1, <2>2
  <2>4. \A j \in 1 .. (i - 1) : KnownIn(ev, p[j])
    BY <1>1, <2>1, <2>3
  <2> HIDE DEF i
  <2>5. /\ HandlingIf(p, i, act) \in RequestState
        /\ StateOK(HandlingIf(p, i, act), ev, act)
    BY <2>1, <2>3, <2>4, HandlingOK
  <2>6. QED
    BY <1>1, <2>5 DEF StepIf, i
<1>2. CASE point # "next"
  <2>1. [q EXCEPT !.pc = point] \in RequestState
    BY <1>2 DEF RequestState
  <2>2. QED
    BY <1>2, <2>1 DEF StepIf
<1>3. QED
  BY <1>1, <1>2

\* The same for a message, which the CRM has heard of; s is q, or q once
\* somebody has taken the message.
LEMMA MessageStepOK ==
    ASSUME NEW q \in RequestState, NEW s \in RequestState, NEW ev, NEW more,
           NEW act \in BOOLEAN, NEW point \in (MessagePoints \cup {"next"}),
           ev \subseteq more, StateOK(q, ev, act), q.pc \in MessagePoints,
           s.payload = q.payload, s.item = q.item, s.free = q.free,
           ReceivedIn(more, q.payload[q.item]), point # "mirror",
           s.taken => point \in {"next", "tell"},
           point \in AnswerPoints /\ TextOf[q.payload[q.item]] # None
               => q.free
    PROVE  /\ StepIf(s, point, act) \in RequestState
           /\ StateOK(StepIf(s, point, act), more, act)
<1>1. StateOK(q, more, act)
  BY HearingMore
<1>2. CASE point = "next"
  <2>1. q.payload[q.item] \in Messages /\ q.pc \in ItemPoints
    BY <1>1 DEF StateOK, ItemPoints
  <2>2. KnownIn(more, q.payload[q.item])
    BY <2>1, PayloadsAssumption DEF KnownIn
  <2>3. /\ StepIf(q, point, act) \in RequestState
        /\ StateOK(StepIf(q, point, act), more, act)
    BY <1>1, <1>2, <2>1, <2>2, StepOK
  <2>4. StepIf(s, point, act) = StepIf(q, point, act)
    BY <1>2 DEF StepIf
  <2>5. QED
    BY <2>3, <2>4
<1>3. CASE point # "next"
  <2> DEFINE n == [s EXCEPT !.pc = point]
  <2>1. point \in MessagePoints
    BY <1>3
  <2>2. n \in RequestState
    BY <2>1 DEF RequestState, ItemPoints
  <2>3. /\ n.pc = point /\ n.payload = q.payload /\ n.item = q.item
        /\ n.free = q.free /\ n.taken = s.taken
    BY DEF RequestState
  <2>4. /\ q.payload \in Payloads /\ q.item \in 1 .. Len(q.payload)
        /\ \A j \in 1 .. (q.item - 1) : KnownIn(more, q.payload[j])
        /\ ~act => q.free
        /\ q.payload[q.item] \in Messages
    BY <1>1 DEF StateOK, ItemPoints, MessagePoints
  <2> HIDE DEF n
  <2>5. StateOK(n, more, act)
    BY <2>1, <2>3, <2>4 DEF StateOK, ItemPoints, MessagePoints, AnswerPoints
  <2>6. QED
    BY <1>3, <2>2, <2>5 DEF StepIf, n
<1>4. QED
  BY <1>2, <1>3

-----------------------------------------------------------------------------
(* Where a message may go.                                                 *)

LEMMA RoutesOfMessages ==
    ASSUME NEW m \in Messages
    PROVE  /\ AfterRecruiting(m) \in
                 {"next", "cta", "replyAgain", "click", "duplicate"}
           /\ AfterCampaign(m) \in
                 {"next", "cta", "replyAgain", "click", "duplicate", "active"}
           /\ AfterMirror(m) \in
                 {"next", "cta", "replyAgain", "click", "duplicate", "active",
                  "media", "slot", "campaign"}
           /\ AfterCampaign(m) \in AnswerPoints => TextOf[m] = None
           /\ AfterMirror(m) \in AnswerPoints => TextOf[m] = None
<1>1. AfterRecruiting(m) \in
          {"next", "cta", "replyAgain", "click", "duplicate"}
  BY DEF AfterRecruiting
<1>2. /\ AfterCampaign(m) = "active" \/ AfterCampaign(m) = AfterRecruiting(m)
      /\ AfterCampaign(m) # "active" => TextOf[m] = None
  BY <1>1 DEF AfterCampaign
<1>3. AfterMirror(m) \in {"media", "slot", "campaign", "next"}
          \/ AfterMirror(m) = AfterCampaign(m)
  BY DEF AfterMirror
<1>4. QED
  BY <1>1, <1>2, <1>3 DEF AnswerPoints

-----------------------------------------------------------------------------
(* Steps.                                                                  *)

\* One request changes its state, and the CRM may hear more.
LEMMA BecomesOK ==
    ASSUME IInv, NEW r \in Requests, NEW q \in RequestState, Becomes(r, q),
           StateOK(q, crm', active), crm \subseteq crm', active' = active,
           stored' \subseteq Messages, skipped' \subseteq Messages,
           answered' \subseteq Messages, accepted' \subseteq Payloads
    PROVE  IInv'
<1>1. TypeOK'
  BY DEF IInv, TypeOK, Becomes
<1>2. ASSUME NEW s \in Requests
      PROVE  StateOK(request'[s], crm', active')
  <2>1. CASE s = r
    BY <2>1 DEF IInv, TypeOK, Becomes
  <2>2. CASE s # r
    <3>1. request'[s] = request[s] /\ StateOK(request[s], crm, active)
      BY <2>2 DEF IInv, TypeOK, Becomes
    <3>2. QED
      BY <3>1, HearingMore
  <2>3. QED
    BY <2>1, <2>2
<1>3. QED
  BY <1>1, <1>2 DEF IInv

LEMMA FailsOK ==
    ASSUME IInv, NEW r \in Requests, Fails(r),
           crm \subseteq crm', active' = active,
           stored' \subseteq Messages, skipped' \subseteq Messages,
           answered' \subseteq Messages, accepted' \subseteq Payloads
    PROVE  IInv'
<1>1. Idle \in RequestState /\ StateOK(Idle, crm', active)
  BY IdleOK
<1>2. QED
  BY <1>1, BecomesOK DEF Fails

\* A request that has told the CRM of its message goes on with it.
LEMMA GoesOK ==
    ASSUME IInv, NEW r \in Requests, NEW s \in RequestState,
           NEW point \in (MessagePoints \cup {"next"}),
           Becomes(r, Step(s, point)), request[r].pc \in MessagePoints,
           s.payload = request[r].payload, s.item = request[r].item,
           s.free = request[r].free,
           ReceivedIn(crm', Item(r)), point # "mirror",
           s.taken => point \in {"next", "tell"},
           point \in AnswerPoints /\ TextOf[Item(r)] # None
               => request[r].free,
           crm \subseteq crm', active' = active,
           stored' \subseteq Messages, skipped' \subseteq Messages,
           answered' \subseteq Messages, accepted' \subseteq Payloads
    PROVE  IInv'
<1> DEFINE n == StepIf(s, point, active)
<1>1. /\ request[r] \in RequestState /\ active \in BOOLEAN
      /\ StateOK(request[r], crm, active)
  BY DEF IInv, TypeOK
<1>2. n \in RequestState /\ StateOK(n, crm', active)
  BY <1>1, MessageStepOK DEF Item
<1>3. Becomes(r, n)
  BY StepIsStepIf
<1> HIDE DEF n
<1>4. QED
  BY <1>2, <1>3, BecomesOK

\* What is known of request r at one of a message's points.
LEMMA AtMessage ==
    ASSUME IInv, NEW r \in Requests, request[r].pc \in MessagePoints
    PROVE  /\ request[r] \in RequestState /\ Item(r) \in Messages
           /\ request[r].pc # "mirror" => ReceivedIn(crm, Item(r))
           /\ request[r].pc # "tell" => ~request[r].taken
           /\ ~active => request[r].free
           /\ request[r].pc \in AnswerPoints /\ TextOf[Item(r)] # None
                  => request[r].free
           /\ stored \subseteq Messages /\ skipped \subseteq Messages
           /\ answered \subseteq Messages /\ accepted \subseteq Payloads
  BY DEF IInv, TypeOK, StateOK, Item, ItemPoints

\* The request goes on with its message and the CRM hears nothing new.
LEMMA QuietOK ==
    ASSUME IInv, NEW r \in Requests,
           NEW point \in (MessagePoints \cup {"next"}),
           Goes(r, point), request[r].pc \in MessagePoints,
           request[r].pc # "mirror", point # "mirror",
           request[r].taken => point = "next",
           point \in AnswerPoints /\ TextOf[Item(r)] # None
               => request[r].free,
           crm \subseteq crm', active' = active,
           stored' \subseteq Messages, skipped' \subseteq Messages,
           answered' \subseteq Messages, accepted' \subseteq Payloads
    PROVE  IInv'
<1>1. request[r] \in RequestState /\ ReceivedIn(crm', Item(r))
  BY AtMessage DEF ReceivedIn
<1>2. QED
  BY <1>1, GoesOK DEF Goes

\* An emission about a message, the mirrored one or a later one.
LEMMA EmitOK ==
    ASSUME IInv, NEW r \in Requests, NEW action,
           NEW point \in (MessagePoints \cup {"next"}),
           Emit(r, action, point), request[r].pc \in MessagePoints,
           request[r].pc # "tell", point # "mirror",
           action = "user_message_received" \/ request[r].pc # "mirror",
           point \in AnswerPoints => TextOf[Item(r)] = None
    PROVE  IInv'
<1> DEFINE told == crm \cup {Reports!Event(action, Item(r))}
<1>1. /\ request[r] \in RequestState /\ ~request[r].taken
      /\ request[r].pc # "mirror" => ReceivedIn(crm, Item(r))
      /\ stored' \subseteq Messages /\ skipped' \subseteq Messages
      /\ answered' \subseteq Messages /\ accepted' \subseteq Payloads
      /\ active' = active
  BY AtMessage DEF Emit, routeVars
<1>2. CASE crm' = told /\ Goes(r, point)
  <2>1. crm \subseteq crm' /\ ReceivedIn(crm', Item(r))
    BY <1>1, <1>2 DEF ReceivedIn
  <2>2. QED
    BY <1>1, <1>2, <2>1, GoesOK DEF Goes
<1>3. CASE crm' \in {crm, told} /\ Fails(r)
  <2>1. crm \subseteq crm'
    BY <1>3
  <2>2. QED
    BY <1>1, <1>3, <2>1, FailsOK
<1>4. QED
  BY <1>2, <1>3 DEF Emit, NotEmitted

LEMMA AskCaptureOK ==
    ASSUME IInv, NEW r \in Requests,
           NEW else \in (MessagePoints \cup {"next"}), AskCapture(r, else),
           request[r].pc \in {"reply", "replyAgain"}, else # "mirror"
    PROVE  IInv'
<1>1. /\ request[r].pc \in MessagePoints /\ request[r].pc # "mirror"
      /\ request[r].pc # "tell"
  BY DEF MessagePoints
<1>2. /\ request[r] \in RequestState /\ Item(r) \in Messages
      /\ ReceivedIn(crm, Item(r)) /\ ~request[r].taken
      /\ ~active => request[r].free
      /\ stored' \subseteq Messages /\ skipped' \subseteq Messages
      /\ answered' \subseteq Messages /\ accepted' \subseteq Payloads
      /\ active' = active /\ crm' = crm
  BY <1>1, AtMessage DEF AskCapture, routeVars
<1>3. CASE Fails(r)
  BY <1>2, <1>3, FailsOK
<1>4. CASE Takes(r, Taken(Item(r)))
  <2> DEFINE s == [request[r] EXCEPT !.taken = TRUE]
  <2>1. /\ s \in RequestState /\ s.payload = request[r].payload
        /\ s.item = request[r].item /\ s.free = request[r].free
    BY <1>2 DEF RequestState
  <2>2. Becomes(r, Step(s, "next"))
    BY <1>4 DEF Takes, Taken
  <2>3. "next" \notin AnswerPoints
    BY DEF AnswerPoints
  <2> HIDE DEF s
  <2>4. QED
    BY <1>1, <1>2, <2>1, <2>2, <2>3, GoesOK
<1>5. CASE ~active /\ Goes(r, else)
  BY <1>1, <1>2, <1>5, QuietOK
<1>6. QED
  BY <1>3, <1>4, <1>5 DEF AskCapture

\* A request at a status goes on, or to the next item.
LEMMA StatusGoesOK ==
    ASSUME IInv, NEW r \in Requests, NEW point \in {"marketing", "due", "next"},
           Goes(r, point), request[r].pc \in {"tracked", "marketing", "due"},
           point = "marketing" => StatusOf[Item(r)] # "ecosystem",
           point = "due" => DueOf[Item(r)] # None,
           point = "next" => KnownIn(crm', Item(r)),
           crm \subseteq crm', active' = active,
           stored' \subseteq Messages, skipped' \subseteq Messages,
           answered' \subseteq Messages, accepted' \subseteq Payloads
    PROVE  IInv'
<1> DEFINE q == request[r]
           n == [q EXCEPT !.pc = point]
<1>1. /\ q \in RequestState /\ active \in BOOLEAN
      /\ StateOK(q, crm, active) /\ StateOK(q, crm', active)
  BY HearingMore DEF IInv, TypeOK
<1>2. /\ q.pc \in ItemPoints /\ q.pc # "tell" /\ q.pc \notin MessagePoints
      /\ point \in ItemPoints \cup {"next"} /\ point \notin MessagePoints
      /\ point \notin AnswerPoints /\ point \notin {"ok", "tracked", "idle"}
  BY DEF ItemPoints, MessagePoints, AnswerPoints
<1>3. /\ n.pc = point /\ n.payload = q.payload /\ n.item = q.item
      /\ n.free = q.free /\ n.taken = q.taken
  BY <1>1 DEF RequestState
<1>4. /\ q.payload \in Payloads /\ q.item \in 1 .. Len(q.payload)
      /\ \A j \in 1 .. (q.item - 1) : KnownIn(crm', q.payload[j])
      /\ ~active => q.free
      /\ ~q.taken /\ q.payload[q.item] \in Statuses
  BY <1>1, <1>2 DEF StateOK
<1>5. Becomes(r, StepIf(q, point, active))
  BY StepIsStepIf DEF Goes
<1> HIDE DEF q, n
<1>6. point # "next" => StateOK(n, crm', active)
  BY <1>2, <1>3, <1>4 DEF StateOK, Item, q
<1>7. point = "next" => KnownIn(crm', q.payload[q.item])
  BY DEF Item, q
<1>8. /\ StepIf(q, point, active) \in RequestState
      /\ StateOK(StepIf(q, point, active), crm', active)
  BY <1>1, <1>2, <1>6, <1>7, StepOK DEF n
<1>9. QED
  BY <1>5, <1>8, BecomesOK

-----------------------------------------------------------------------------
(* Every step keeps the invariant.                                         *)

LEMMA InitOK == Init => IInv
  BY IdleOK DEF Init, Reports!Init, IInv, TypeOK

\* The payload's persistence, and its answer.
LEMMA PayloadStepsOK ==
    ASSUME IInv, NEW r \in Requests,
           ReceivePayload(r) \/ PersistMessage(r) \/ PersistenceEnds(r)
               \/ AnswerOk(r)
    PROVE  IInv'
<1> DEFINE q == request[r]
<1> USE DEF routeVars, outVars
<1>1. /\ q \in RequestState /\ active \in BOOLEAN /\ StateOK(q, crm, active)
      /\ stored \subseteq Messages /\ skipped \subseteq Messages
      /\ answered \subseteq Messages /\ accepted \subseteq Payloads
  BY DEF IInv, TypeOK
<1>2. CASE ReceivePayload(r)
  <2>1. PICK p \in Payloads :
            Becomes(r, [Idle EXCEPT !.pc = "persist", !.payload = p,
                                    !.item = 1])
    BY <1>2 DEF ReceivePayload
  <2> DEFINE n == [Idle EXCEPT !.pc = "persist", !.payload = p, !.item = 1]
  <2>2. n.pc = "persist" /\ n.payload = p
    BY DEF Idle
  <2>3. n \in RequestState
    <3>1. Idle \in RequestState
      BY IdleOK
    <3>2. QED
      BY <3>1 DEF RequestState
  <2> HIDE DEF n
  <2>4. StateOK(n, crm, active)
    BY <2>2 DEF StateOK, MessagePoints, ItemPoints, AnswerPoints
  <2>5. QED
    BY <1>1, <1>2, <2>1, <2>3, <2>4, BecomesOK DEF ReceivePayload, n
<1>3. CASE PersistMessage(r)
  <2> DEFINE n == [q EXCEPT !.item = @ + 1]
  <2>1. q.pc = "persist" /\ Item(r) \in Messages /\ q.payload \in Payloads
    BY <1>1, <1>3 DEF PersistMessage, At, StateOK
  <2>2. n \in RequestState /\ n.pc = "persist" /\ n.payload = q.payload
    BY <1>1, <2>1 DEF RequestState
  <2> HIDE DEF n
  <2>3. StateOK(n, crm, active)
    BY <2>1, <2>2 DEF StateOK, MessagePoints, ItemPoints, AnswerPoints
  <2>4. QED
    BY <1>1, <1>3, <2>1, <2>2, <2>3, BecomesOK DEF PersistMessage, n
<1>4. CASE PersistenceEnds(r)
  <2> DEFINE n == HandlingIf(q.payload, 1, active)
  <2>1. q.pc = "persist" /\ q.payload \in Payloads
    BY <1>1, <1>4 DEF PersistenceEnds, At, StateOK
  <2>2. Len(q.payload) \in Nat
    BY <2>1, PayloadsAssumption
  <2>3. /\ 1 \in Nat \ {0} /\ 1 <= Len(q.payload) + 1
        /\ \A j \in 1 .. (1 - 1) : KnownIn(crm, q.payload[j])
    BY <2>2
  <2>4. n \in RequestState /\ StateOK(n, crm, active)
    BY <1>1, <2>1, <2>3, HandlingOK
  <2>5. Becomes(r, n)
    BY <1>4 DEF PersistenceEnds, Handling, HandlingIf
  <2> HIDE DEF n
  <2>6. QED
    BY <1>1, <1>4, <2>4, <2>5, BecomesOK DEF PersistenceEnds
<1>5. CASE AnswerOk(r)
  <2>1. q.payload \in Payloads
    BY <1>1, <1>5 DEF AnswerOk, At, StateOK
  <2>2. Idle \in RequestState /\ StateOK(Idle, crm, active)
    BY IdleOK
  <2>3. QED
    BY <1>1, <1>5, <2>1, <2>2, BecomesOK DEF AnswerOk
<1>6. QED
  BY <1>2, <1>3, <1>4, <1>5

LEMMA MessageStepsOK ==
    ASSUME IInv, NEW r \in Requests,
           \/ MirrorMessage(r) \/ RouteMedia(r) \/ SelectSlot(r)
           \/ TellCampaign(r) \/ CheckActive(r) \/ ReplyByCapture(r)
           \/ ReportCta(r) \/ ReplyAgainByCapture(r) \/ ClickCallButton(r)
    PROVE  IInv'
<1> USE DEF At, routeVars, outVars, MessagePoints
<1>1. /\ request[r].pc \in MessagePoints
      /\ request[r].pc \notin {"tell", "idle"}
  BY DEF MirrorMessage, RouteMedia, SelectSlot, TellCampaign, CheckActive,
         ReplyByCapture, ReportCta, ReplyAgainByCapture, ClickCallButton
<1>2. /\ Item(r) \in Messages /\ ~request[r].taken
      /\ ~active => request[r].free
      /\ stored \subseteq Messages /\ skipped \subseteq Messages
      /\ answered \subseteq Messages /\ accepted \subseteq Payloads
  BY <1>1, AtMessage
<1>3. "next" \notin AnswerPoints
  BY DEF AnswerPoints
<1>4. CASE MirrorMessage(r)
  BY <1>1, <1>2, <1>4, RoutesOfMessages, EmitOK DEF MirrorMessage
<1>5. CASE RouteMedia(r)
  BY <1>1, <1>2, <1>3, <1>5, QuietOK DEF RouteMedia
<1>6. CASE SelectSlot(r)
  BY <1>1, <1>3, <1>6, EmitOK DEF SelectSlot
<1>7. CASE TellCampaign(r)
  BY <1>1, <1>2, <1>7, RoutesOfMessages, QuietOK DEF TellCampaign
<1>8. CASE CheckActive(r)
  <2>1. CASE Fails(r)
    BY <1>2, <1>8, <2>1, FailsOK DEF CheckActive
  <2>2. CASE Goes(r, AfterActive(Item(r)))
    <3>1. /\ AfterActive(Item(r)) \in MessagePoints \cup {"next"}
          /\ AfterActive(Item(r)) # "mirror"
          /\ AfterActive(Item(r)) \in AnswerPoints => request[r].free
      BY <1>2, RoutesOfMessages DEF AfterActive, AnswerPoints
    <3>2. QED
      BY <1>1, <1>2, <1>8, <2>2, <3>1, QuietOK DEF CheckActive
  <2>3. QED
    BY <1>8, <2>1, <2>2 DEF CheckActive
<1>9. CASE ReplyByCapture(r)
  BY <1>2, <1>9, RoutesOfMessages, AskCaptureOK DEF ReplyByCapture
<1>10. CASE ReportCta(r)
  BY <1>1, <1>3, <1>10, EmitOK DEF ReportCta
<1>11. CASE ReplyAgainByCapture(r)
  BY <1>11, AskCaptureOK DEF ReplyAgainByCapture
<1>12. CASE ClickCallButton(r)
  BY <1>1, <1>3, <1>12, EmitOK DEF ClickCallButton
<1>13. QED
  BY <1>4, <1>5, <1>6, <1>7, <1>8, <1>9, <1>10, <1>11, <1>12

LEMMA DeepSeekStepsOK ==
    ASSUME IInv, NEW r \in Requests,
           \/ CheckDuplicate(r) \/ ReadConversation(r) \/ Complete(r)
           \/ SendReply(r) \/ TellTurn(r)
    PROVE  IInv'
<1> USE DEF At, routeVars, outVars
<1>1. /\ request[r].pc \in {"duplicate", "conversation", "complete", "send",
                           "tell"}
      /\ request[r].pc \in MessagePoints /\ request[r].pc \in AnswerPoints
      /\ request[r].pc # "mirror"
  BY DEF CheckDuplicate, ReadConversation, Complete, SendReply, TellTurn,
         MessagePoints, AnswerPoints
<1>2. /\ request[r] \in RequestState /\ Item(r) \in Messages
      /\ ReceivedIn(crm, Item(r))
      /\ request[r].pc # "tell" => ~request[r].taken
      /\ TextOf[Item(r)] # None => request[r].free
      /\ stored \subseteq Messages /\ skipped \subseteq Messages
      /\ answered \subseteq Messages /\ accepted \subseteq Payloads
      /\ active \in BOOLEAN /\ StateOK(request[r], crm, active)
  BY <1>1, AtMessage DEF IInv, TypeOK
<1>3. {"next", "conversation", "complete", "send", "tell"}
          \subseteq MessagePoints \cup {"next"}
  BY DEF MessagePoints
<1>4. CASE CheckDuplicate(r)
  BY <1>1, <1>2, <1>3, <1>4, QuietOK DEF CheckDuplicate
<1>5. CASE ReadConversation(r)
  BY <1>1, <1>2, <1>3, <1>5, QuietOK DEF ReadConversation
<1>6. CASE Complete(r)
  <2> DEFINE round == RoundDone(request[r].round)
             n == [request[r] EXCEPT !.round = round]
  <2>1. UNCHANGED <<routeVars, outVars>>
    BY <1>6 DEF Complete
  <2>2. CASE AnotherRound(round) /\ Becomes(r, n)
    <3>1. /\ n \in RequestState
          /\ n.pc = request[r].pc /\ n.payload = request[r].payload
          /\ n.item = request[r].item /\ n.free = request[r].free
          /\ n.taken = request[r].taken
      BY <1>2, <2>2, ShapesAssumption DEF RequestState, RoundDone, AnotherRound
    <3> HIDE DEF n
    <3>2. StateOK(n, crm, active)
      BY <1>2, <3>1 DEF StateOK
    <3>3. QED
      BY <1>2, <2>1, <2>2, <3>1, <3>2, BecomesOK
  <2>3. CASE Goes(r, "send") \/ Goes(r, "next")
    <3>1. request[r].pc = "complete"
      BY <1>6 DEF Complete
    <3>2. QED
      BY <1>1, <1>2, <1>3, <2>1, <2>3, <3>1, QuietOK
  <2>4. QED
    BY <1>6, <2>2, <2>3 DEF Complete
<1>7. CASE SendReply(r)
  <2>1. /\ request[r].pc = "send" /\ crm' = crm /\ active' = active
        /\ stored' = stored /\ skipped' = skipped /\ accepted' = accepted
        /\ answered' \subseteq Messages
    BY <1>2, <1>7 DEF SendReply
  <2>2. CASE Takes(r, "tell")
    <3> DEFINE s == [request[r] EXCEPT !.taken = TRUE]
    <3>1. /\ s \in RequestState /\ s.payload = request[r].payload
          /\ s.item = request[r].item /\ s.free = request[r].free
      BY <1>2 DEF RequestState
    <3>2. Becomes(r, Step(s, "tell"))
      BY <2>2 DEF Takes
    <3> HIDE DEF s
    <3>3. QED
      BY <1>1, <1>2, <1>3, <2>1, <3>1, <3>2, GoesOK
  <2>3. CASE Goes(r, "next")
    BY <1>1, <1>2, <1>3, <2>1, <2>3, QuietOK
  <2>4. QED
    BY <1>7, <2>2, <2>3 DEF SendReply
<1>8. CASE TellTurn(r)
  <2>1. /\ crm \subseteq crm' /\ active' = active /\ Goes(r, "next")
        /\ UNCHANGED <<answered, accepted, stored, skipped>>
    BY <1>8 DEF TellTurn
  <2>2. QED
    BY <1>1, <1>2, <1>3, <2>1, QuietOK
<1>9. QED
  BY <1>4, <1>5, <1>6, <1>7, <1>8

LEMMA StatusStepsOK ==
    ASSUME IInv, NEW r \in Requests,
           TrackStatus(r) \/ TellMarketing(r) \/ ReportStatus(r)
    PROVE  IInv'
<1> USE DEF At, routeVars, outVars
<1>1. request[r].pc \in {"tracked", "marketing", "due"}
  BY DEF TrackStatus, TellMarketing, ReportStatus
<1>2. /\ Item(r) \in Statuses /\ Item(r) \notin Messages
      /\ request[r].pc = "marketing" => StatusOf[Item(r)] # "ecosystem"
      /\ request[r].pc = "due" => DueOf[Item(r)] # None
      /\ stored \subseteq Messages /\ skipped \subseteq Messages
      /\ answered \subseteq Messages /\ accepted \subseteq Payloads
  BY <1>1, PayloadsAssumption DEF IInv, TypeOK, StateOK, Item
<1>3. /\ StatusOf[Item(r)] \in {"delivered", "ecosystem", "other"}
      /\ StatusOf[Item(r)] = "ecosystem" => DueOf[Item(r)] # None
      /\ StatusOf[Item(r)] = "delivered" => DueOf[Item(r)] # None
      /\ StatusOf[Item(r)] = "other" => DueOf[Item(r)] = None
  BY <1>2, ShapesAssumption, NoneAssumption DEF DueOf
<1>4. CASE TrackStatus(r)
  BY <1>1, <1>2, <1>3, <1>4, StatusGoesOK, FailsOK DEF TrackStatus
<1>5. CASE TellMarketing(r)
  <2>1. /\ AfterMarketing(Item(r)) \in {"due", "next"}
        /\ AfterMarketing(Item(r)) = "due" => DueOf[Item(r)] # None
        /\ AfterMarketing(Item(r)) = "next" => DueOf[Item(r)] = None
    BY <1>2, <1>3, <1>5 DEF AfterMarketing, TellMarketing
  <2>2. AfterMarketing(Item(r)) = "next" => KnownIn(crm', Item(r))
    BY <1>2, <2>1 DEF KnownIn
  <2>3. QED
    BY <1>1, <1>2, <1>5, <2>1, <2>2, StatusGoesOK DEF TellMarketing
<1>6. CASE ReportStatus(r)
  <2> DEFINE told == crm \cup {Reports!Event(DueOf[Item(r)], Item(r))}
  <2>1. /\ \/ crm' = told /\ Goes(r, "next")
           \/ crm' \in {crm, told} /\ Fails(r)
        /\ UNCHANGED <<answered, accepted, active, stored, skipped>>
    BY <1>6 DEF ReportStatus, Emit, NotEmitted
  <2>2. crm \subseteq crm'
    BY <2>1
  <2>3. crm' = told => KnownIn(crm', Item(r))
    BY <1>2 DEF KnownIn
  <2>4. CASE crm' = told /\ Goes(r, "next")
    BY <1>1, <1>2, <2>1, <2>2, <2>3, <2>4, StatusGoesOK
  <2>5. CASE Fails(r)
    BY <1>2, <2>1, <2>2, <2>5, FailsOK
  <2>6. QED
    BY <2>1, <2>4, <2>5
<1>7. QED
  BY <1>4, <1>5, <1>6

\* Restarts, and the sessions of the capture.
LEMMA EnvironmentOK ==
    ASSUME IInv, Crash \/ SessionBegins \/ SessionEnds
    PROVE  IInv'
<1> USE DEF routeVars, outVars
<1>1. CASE Crash
  BY <1>1, IdleOK DEF Crash, IInv, TypeOK
<1>2. CASE SessionBegins
  BY <1>2 DEF SessionBegins, IInv, TypeOK, StateOK
<1>3. CASE SessionEnds
  <2>1. ASSUME NEW r \in Requests
        PROVE  /\ request'[r] \in RequestState
               /\ StateOK(request'[r], crm', active')
    <3> DEFINE q == request[r]
               n == [q EXCEPT !.free = @ \/ q.pc \in ItemPoints]
    <3>1. q \in RequestState /\ StateOK(q, crm, active)
      BY DEF IInv, TypeOK
    <3>2. /\ n \in RequestState /\ n.pc = q.pc /\ n.payload = q.payload
          /\ n.item = q.item /\ n.taken = q.taken
          /\ q.free => n.free
          /\ q.pc \in ItemPoints => n.free
      BY <3>1 DEF RequestState
    <3>3. request'[r] = n /\ crm' = crm
      BY <1>3 DEF SessionEnds
    <3> HIDE DEF n
    <3>4. StateOK(n, crm, active')
      BY <3>1, <3>2 DEF StateOK
    <3>5. QED
      BY <3>2, <3>3, <3>4
  <2>2. request' \in [Requests -> RequestState]
    BY <1>3, <2>1 DEF SessionEnds
  <2>3. TypeOK'
    BY <1>3, <2>2 DEF SessionEnds, IInv, TypeOK
  <2>4. QED
    BY <2>1, <2>3 DEF IInv
<1>4. QED
  BY <1>1, <1>2, <1>3

LEMMA NextOK == IInv /\ [Next]_vars => IInv'
<1> SUFFICES ASSUME IInv, [Next]_vars
             PROVE  IInv'
  OBVIOUS
<1>1. CASE UNCHANGED vars
  BY <1>1 DEF vars, IInv, TypeOK
<1>2. CASE Crash \/ SessionBegins \/ SessionEnds
  BY <1>2, EnvironmentOK
<1>3. ASSUME NEW r \in Requests, ReceivePayload(r) \/ Progress(r)
      PROVE  IInv'
  BY <1>3, PayloadStepsOK, MessageStepsOK, DeepSeekStepsOK, StatusStepsOK
     DEF Progress
<1>4. QED
  BY <1>1, <1>2, <1>3 DEF Next

LEMMA Invariant == Spec => []IInv
<1>1. QED
  BY InitOK, NextOK, PTL DEF Spec

-----------------------------------------------------------------------------
(* Webhook implements InboundReports.                                      *)

reportVars == <<crm, answered, accepted>>

\* An emission that is about the request's item is a step of the abstract
\* specification if the event may be emitted there.
LEMMA EmissionImplements ==
    ASSUME NEW r \in Requests, NEW action, NEW point,
           Emit(r, action, point)
    PROVE  Reports!Emit(action, Item(r)) \/ UNCHANGED reportVars
  BY DEF Emit, Reports!Emit, reportVars

LEMMA RequestStepImplements ==
    ASSUME IInv, NEW r \in Requests, ReceivePayload(r) \/ Progress(r)
    PROVE  [Reports!Next]_reportVars
<1> USE DEF At, outVars
<1>1. ASSUME request[r].pc \in MessagePoints
      PROVE  /\ Item(r) \in Messages
             /\ request[r].pc # "mirror" => Reports!Received(Item(r))
  BY <1>1, AtMessage DEF ReceivedIn, Reports!Received
<1>2. CASE MirrorMessage(r)
  <2>1. Item(r) \in Messages
    BY <1>1, <1>2 DEF MirrorMessage, MessagePoints
  <2>2. Reports!Receive(Item(r)) \/ UNCHANGED reportVars
    BY <1>2, EmissionImplements DEF MirrorMessage, Reports!Receive
  <2>3. QED
    BY <2>1, <2>2 DEF Reports!Next
<1>3. ASSUME NEW action \in {"training_slot_selected", "cta_clicked",
                             "clicked_call_button",
                             "deepseek_lotes_chat_turn"},
             request[r].pc \in MessagePoints, request[r].pc # "mirror",
             Reports!Emit(action, Item(r)) \/ UNCHANGED reportVars
      PROVE  [Reports!Next]_reportVars
  <2>1. Item(r) \in Messages /\ Reports!Received(Item(r))
    BY <1>1, <1>3
  <2>2. Reports!Follow(action, Item(r)) \/ UNCHANGED reportVars
    BY <1>3, <2>1 DEF Reports!Follow
  <2>3. QED
    BY <2>1, <2>2 DEF Reports!Next
<1>4. CASE SelectSlot(r)
  BY <1>3, <1>4, EmissionImplements DEF SelectSlot, MessagePoints
<1>5. CASE ReportCta(r)
  BY <1>3, <1>5, EmissionImplements DEF ReportCta, MessagePoints
<1>6. CASE ClickCallButton(r)
  BY <1>3, <1>6, EmissionImplements DEF ClickCallButton, MessagePoints
<1>7. CASE TellTurn(r)
  <2>1. \/ Reports!Emit("deepseek_lotes_chat_turn", Item(r))
        \/ UNCHANGED reportVars
    BY <1>7 DEF TellTurn, Reports!Emit, reportVars
  <2>2. QED
    BY <1>3, <1>7, <2>1 DEF TellTurn, MessagePoints
<1>8. ASSUME request[r].pc \in MessagePoints, request[r].pc # "mirror",
             answered' \in {answered, answered \cup {Item(r)}},
             UNCHANGED <<crm, accepted>>
      PROVE  [Reports!Next]_reportVars
  <2>1. Item(r) \in Messages /\ Reports!Received(Item(r))
    BY <1>1, <1>8
  <2>2. Reports!Answer(Item(r)) \/ UNCHANGED reportVars
    BY <1>8, <2>1 DEF Reports!Answer, reportVars
  <2>3. QED
    BY <2>1, <2>2 DEF Reports!Next
<1>9. CASE RouteMedia(r)
  BY <1>8, <1>9 DEF RouteMedia, MessagePoints
<1>10. CASE ReplyByCapture(r)
  BY <1>8, <1>10 DEF ReplyByCapture, AskCapture, MessagePoints
<1>11. CASE ReplyAgainByCapture(r)
  BY <1>8, <1>11 DEF ReplyAgainByCapture, AskCapture, MessagePoints
<1>12. CASE SendReply(r)
  BY <1>8, <1>12 DEF SendReply, MessagePoints
<1>13. CASE ReportStatus(r)
  <2>1. Item(r) \in Statuses /\ DueOf[Item(r)] # None
    BY <1>13 DEF ReportStatus, IInv, StateOK, Item
  <2>2. Reports!ReportStatus(Item(r)) \/ UNCHANGED reportVars
    BY <1>13, <2>1, EmissionImplements
       DEF ReportStatus, Reports!ReportStatus
  <2>3. QED
    BY <2>1, <2>2 DEF Reports!Next
<1>14. CASE AnswerOk(r)
  <2> DEFINE p == request[r].payload
  <2>1. p \in Payloads /\ \A i \in 1 .. Len(p) : KnownIn(crm, p[i])
    BY <1>14 DEF AnswerOk, IInv, StateOK
  <2>2. DOMAIN p = 1 .. Len(p)
    BY <2>1, PayloadsAssumption
  <2>3. \A x : KnownIn(crm, x) = Reports!Known(x)
    BY DEF KnownIn, ReceivedIn, Reports!Known, Reports!Received
  <2>4. Reports!Accept(p)
    BY <1>14, <2>1, <2>2, <2>3 DEF AnswerOk, Reports!Accept
  <2>5. QED
    BY <2>1, <2>4 DEF Reports!Next
<1>15. CASE \/ ReceivePayload(r) \/ PersistMessage(r) \/ PersistenceEnds(r)
            \/ TellCampaign(r) \/ CheckActive(r) \/ CheckDuplicate(r)
            \/ ReadConversation(r) \/ Complete(r) \/ TrackStatus(r)
            \/ TellMarketing(r)
  <2>1. UNCHANGED reportVars
    BY <1>15
       DEF ReceivePayload, PersistMessage, PersistenceEnds, TellCampaign,
           CheckActive, CheckDuplicate, ReadConversation, Complete,
           TrackStatus, TellMarketing, reportVars
  <2>2. QED
    BY <2>1
<1>16. QED
  BY <1>2, <1>4, <1>5, <1>6, <1>7, <1>9, <1>10, <1>11, <1>12, <1>13, <1>14,
     <1>15 DEF Progress

LEMMA NextImplements == IInv /\ [Next]_vars => [Reports!Next]_reportVars
<1> SUFFICES ASSUME IInv, [Next]_vars
             PROVE  [Reports!Next]_reportVars
  OBVIOUS
<1>1. CASE UNCHANGED vars \/ Crash \/ SessionBegins \/ SessionEnds
  BY <1>1 DEF vars, Crash, SessionBegins, SessionEnds, outVars, reportVars
<1>2. ASSUME NEW r \in Requests, ReceivePayload(r) \/ Progress(r)
      PROVE  [Reports!Next]_reportVars
  BY <1>2, RequestStepImplements
<1>3. QED
  BY <1>1, <1>2 DEF Next

-----------------------------------------------------------------------------
(* The theorems.                                                           *)

\* Requests and histories keep their types.
THEOREM WebhookTypeCorrect == Spec => []TypeOK
<1>1. IInv => TypeOK
  BY DEF IInv
<1>2. QED
  BY <1>1, Invariant, PTL

\* One handling of a message by webhookPost has one outcome.
THEOREM OneOutcome == Spec => []OneOutcomePerHandling
<1>1. IInv => OneOutcomePerHandling
  BY DEF IInv, StateOK, OneOutcomePerHandling, ItemPoints, MessagePoints
<1>2. QED
  BY <1>1, Invariant, PTL

\* The texts and buttons of a candidate go to the capture, whatever begins or
\* ends at the same time in other requests.
THEOREM CandidatesStayWithCapture == Spec => []CandidatesAreLeftToCapture
<1>1. IInv => CandidatesAreLeftToCapture
  BY DEF IInv, StateOK, CandidatesAreLeftToCapture, AnswerPoints, Item
<1>2. QED
  BY <1>1, Invariant, PTL

\* The CRM hears of a message before anybody acts on it, and a payload is
\* answered with 200 only when the CRM knows all it should know of it.
THEOREM WebhookImplementsReports == Spec => ImplementsReports
<1>1. Init => Reports!Init
  BY DEF Init
<1>2. QED
  BY <1>1, Invariant, NextImplements, PTL
     DEF Spec, ImplementsReports, Reports!Spec, reportVars

\* What a message leads to, other than an answer.
FollowUps == {"training_slot_selected", "cta_clicked", "clicked_call_button",
              "deepseek_lotes_chat_turn"}

\* The CRM knows every item of an accepted payload, and it had a message before
\* anything came of it, an event or an answer.
CrmHeardFirst ==
    /\ \A p \in accepted : \A i \in DOMAIN p : Reports!Known(p[i])
    /\ \A m \in answered : Reports!Received(m)
    /\ \A m \in Messages, action \in FollowUps :
          Reports!Event(action, m) \in crm => Reports!Received(m)

\* The webhook may answer 200, for which Meta delivers a payload no more, only
\* when the CRM has all it should have of it: the emissions are awaited, in
\* order, and one that rejects ends the request (webhookPost).
THEOREM CrmHearsFirst == Spec => []CrmHeardFirst
<1>1. Reports!Init => CrmHeardFirst
  BY DEF Reports!Init, CrmHeardFirst
<1>2. CrmHeardFirst /\ [Reports!Next]_<<crm, answered, accepted>>
          => CrmHeardFirst'
  <2> SUFFICES ASSUME CrmHeardFirst,
                      [Reports!Next]_<<crm, answered, accepted>>
               PROVE  CrmHeardFirst'
    OBVIOUS
  <2>1. CASE UNCHANGED <<crm, answered, accepted>>
    BY <2>1 DEF CrmHeardFirst, Reports!Known, Reports!Received
  <2>2. ASSUME NEW action, NEW x, Reports!Emit(action, x),
               x \in Messages /\ action \in FollowUps => Reports!Received(x)
        PROVE  CrmHeardFirst'
    <3>1. crm \subseteq crm' /\ UNCHANGED <<answered, accepted>>
      BY <2>2 DEF Reports!Emit
    <3>2. \A y : /\ Reports!Received(y) => Reports!Received(y)'
                 /\ Reports!Known(y) => Reports!Known(y)'
      BY <3>1 DEF Reports!Received, Reports!Known
    <3>3. ASSUME NEW m \in Messages, NEW a \in FollowUps,
                 Reports!Event(a, m) \in crm'
          PROVE  Reports!Received(m)'
      BY <2>2, <3>2, <3>3 DEF Reports!Emit, Reports!Event, CrmHeardFirst
    <3>4. QED
      BY <3>1, <3>2, <3>3 DEF CrmHeardFirst
  <2>3. ASSUME NEW m \in Messages, Reports!Answer(m)
        PROVE  CrmHeardFirst'
    BY <2>3 DEF Reports!Answer, CrmHeardFirst, Reports!Known, Reports!Received
  <2>4. ASSUME NEW p \in Payloads, Reports!Accept(p)
        PROVE  CrmHeardFirst'
    BY <2>4 DEF Reports!Accept, CrmHeardFirst, Reports!Known, Reports!Received
  <2>5. QED
    <3>1. ASSUME NEW m \in Messages, Reports!Receive(m)
          PROVE  CrmHeardFirst'
      <4>1. "user_message_received" \notin FollowUps
        BY DEF FollowUps
      <4>2. QED
        BY <2>2, <3>1, <4>1 DEF Reports!Receive
    <3>2. ASSUME NEW m \in Messages, NEW action, Reports!Follow(action, m)
          PROVE  CrmHeardFirst'
      BY <2>2, <3>2 DEF Reports!Follow
    <3>3. ASSUME NEW s \in Statuses, Reports!ReportStatus(s)
          PROVE  CrmHeardFirst'
      BY <2>2, <3>3, PayloadsAssumption DEF Reports!ReportStatus
    <3>4. QED
      BY <2>1, <2>3, <2>4, <3>1, <3>2, <3>3 DEF Reports!Next
<1>3. QED
  BY <1>1, <1>2, WebhookImplementsReports, PTL
     DEF ImplementsReports, Reports!Spec

-----------------------------------------------------------------------------
(* No request goes on for ever.                                            *)

\* The most steps of one item: a text that is asked of the capture twice and
\* answered by DeepSeek after all its rounds.
MostPerItem == ToolRoundsMax + 9

\* The most steps of n items.
Rest(n) == n * MostPerItem

\* The most steps that a request in state q may still take for its item.
Rank(q) ==
    CASE q.pc \in {"due", "tell", "cta", "click", "slot", "media"} -> 1
      [] q.pc \in {"marketing", "send"} -> 2
      [] q.pc = "tracked" -> 3
      [] q.pc = "complete" -> ToolRoundsMax - q.round + 2
      [] q.pc = "conversation" -> ToolRoundsMax + 3
      [] q.pc = "duplicate" -> ToolRoundsMax + 4
      [] q.pc = "replyAgain" -> ToolRoundsMax + 5
      [] q.pc = "reply" -> ToolRoundsMax + 6
      [] q.pc = "active" -> ToolRoundsMax + 7
      [] q.pc = "campaign" -> ToolRoundsMax + 8
      [] q.pc = "mirror" -> MostPerItem

\* The most steps that it may still take in all.
Left(q) ==
    CASE q.pc = "idle" -> 0
      [] q.pc = "ok" -> 1
      [] q.pc = "persist" ->
            Rest(Len(q.payload)) + (Len(q.payload) - q.item) + 3
      [] OTHER -> Rest(Len(q.payload) - q.item) + Rank(q) + 1

\* The most of any request with payload p.
MostSteps(p) == Rest(Len(p)) + Len(p) + 2

\* The store goes through the payload once.
PersistOK(q) == q.pc = "persist" => q.item \in 1 .. Len(q.payload) + 1

PersistInOrder == \A r \in Requests : PersistOK(request[r])

LEMMA RestIs ==
    /\ MostPerItem \in Nat /\ MostPerItem > 9
    /\ MostPerItem = ToolRoundsMax + 9
    /\ Rest(0) = 0
    /\ \A n \in Nat : Rest(n) \in Nat /\ Rest(n + 1) = Rest(n) + MostPerItem
    /\ \A m, n \in Nat : m <= n => Rest(m) <= Rest(n)
<1>1. ToolRoundsMax \in Nat /\ ToolRoundsMax > 0
  BY ShapesAssumption
<1>2. MostPerItem \in Nat /\ MostPerItem > 9 /\ MostPerItem = ToolRoundsMax + 9
  BY <1>1 DEF MostPerItem
<1>3. \A n \in Nat : Rest(n) \in Nat /\ Rest(n + 1) = Rest(n) + MostPerItem
  BY <1>2 DEF Rest
<1>4. ASSUME NEW m \in Nat, NEW n \in Nat, m <= n
      PROVE  Rest(m) <= Rest(n)
  <2>1. n - m \in Nat /\ Rest(n - m) \in Nat
    BY <1>3, <1>4
  <2>2. Rest(n) = Rest(m) + Rest(n - m)
    BY <1>2, <1>4, <2>1 DEF Rest
  <2>3. QED
    BY <1>3, <2>1, <2>2
<1>5. Rest(0) = 0
  BY <1>2 DEF Rest
<1>6. QED
  BY <1>2, <1>3, <1>4, <1>5

LEMMA RankIs ==
    ASSUME NEW q \in RequestState, q.pc \in ItemPoints
    PROVE  Rank(q) \in 1 .. MostPerItem
<1>1. /\ q.round \in 0 .. ToolRoundsMax - 1
      /\ ToolRoundsMax \in Nat /\ MostPerItem \in Nat
      /\ MostPerItem = ToolRoundsMax + 9
  BY ShapesAssumption, RestIs DEF RequestState
<1>2. CASE q.pc = "complete"
  <2>1. Rank(q) = ToolRoundsMax - q.round + 2
    BY <1>2 DEF Rank
  <2>2. QED
    BY <1>1, <2>1
<1>3. CASE q.pc # "complete"
  <2>1. Rank(q) \in {1, 2, 3, ToolRoundsMax + 3, ToolRoundsMax + 4,
                     ToolRoundsMax + 5, ToolRoundsMax + 6, ToolRoundsMax + 7,
                     ToolRoundsMax + 8, MostPerItem}
    BY <1>3 DEF Rank, ItemPoints, MessagePoints
  <2>2. QED
    BY <1>1, <2>1
<1>4. QED
  BY <1>2, <1>3

\* A request in a state that occurs.
Sound(q) ==
    /\ q \in RequestState
    /\ q.pc # "idle" => q.payload \in Payloads /\ Len(q.payload) \in Nat
    /\ q.pc \in ItemPoints => q.item \in 1 .. Len(q.payload)
    /\ PersistOK(q)

LEMMA LeftIs ==
    ASSUME NEW q, Sound(q)
    PROVE  /\ Left(q) \in Nat
           /\ q.pc # "idle" => Left(q) <= MostSteps(q.payload)
<1> DEFINE n == Len(q.payload)
<1>1. q.pc \in {"idle", "persist", "ok"} \cup ItemPoints
  BY DEF Sound, RequestState
<1>2. CASE q.pc = "idle"
  <2>1. Left(q) = 0
    BY <1>2 DEF Left
  <2>2. QED
    BY <1>2, <2>1
<1>3. CASE q.pc = "ok"
  <2>1. n \in Nat /\ Rest(n) \in Nat /\ Left(q) = 1
    BY <1>3, RestIs DEF Sound, Left
  <2>2. QED
    BY <2>1 DEF MostSteps
<1>4. CASE q.pc = "persist"
  <2>1. /\ n \in Nat /\ Rest(n) \in Nat /\ q.item \in 1 .. n + 1
        /\ Left(q) = Rest(n) + (n - q.item) + 3
    BY <1>4, RestIs DEF Sound, PersistOK, Left
  <2>2. MostSteps(q.payload) = Rest(n) + n + 2
    BY DEF MostSteps
  <2> HIDE DEF n
  <2>3. QED
    BY <2>1, <2>2
<1>5. CASE q.pc \in ItemPoints
  <2>1. q.pc \notin {"idle", "persist", "ok"}
    BY <1>5 DEF ItemPoints, MessagePoints
  <2>2. n \in Nat /\ q.item \in 1 .. n /\ Rank(q) \in 1 .. MostPerItem
    BY <1>5, <2>1, RankIs DEF Sound
  <2>3. Left(q) = Rest(n - q.item) + Rank(q) + 1
    BY <1>5, <2>1 DEF Left
  <2>4. MostSteps(q.payload) = Rest(n) + n + 2
    BY DEF MostSteps
  <2> DEFINE m == n - q.item
  <2>5. m \in Nat /\ m + 1 \in Nat /\ m + 1 <= n
    BY <2>2
  <2>6. Rest(m) \in Nat /\ Rest(m) + MostPerItem <= Rest(n) /\ Rest(n) \in Nat
        /\ MostPerItem \in Nat
    BY <2>2, <2>5, RestIs
  <2>7. Left(q) = Rest(m) + Rank(q) + 1
    BY <2>3
  <2> HIDE DEF n, m
  <2>8. QED
    BY <2>2, <2>4, <2>6, <2>7
<1>6. QED
  BY <1>1, <1>2, <1>3, <1>4, <1>5

\* The invariants say that every request is in such a state.
LEMMA StateIsSound ==
    ASSUME NEW q \in RequestState, NEW ev, NEW act, StateOK(q, ev, act),
           PersistOK(q)
    PROVE  Sound(q)
<1>1. \A p \in Payloads : Len(p) \in Nat
  BY PayloadsAssumption
<1>2. QED
  BY <1>1 DEF StateOK, Sound

LEMMA SoundAlways ==
    ASSUME IInv, PersistInOrder, NEW r \in Requests
    PROVE  Sound(request[r])
  BY StateIsSound DEF IInv, TypeOK, PersistInOrder

-----------------------------------------------------------------------------

\* Request r goes on as q, with less to do.
Nears(r, q) == Becomes(r, q) /\ PersistOK(q) /\ Left(q) < Left(request[r])

LEMMA FailsNears ==
    ASSUME NEW r \in Requests, Sound(request[r]), ~At(r, "idle"), Fails(r)
    PROVE  \E q : Nears(r, q)
<1>1. Left(Idle) = 0 /\ PersistOK(Idle)
  BY DEF Left, Idle, PersistOK
<1>2. Left(request[r]) > 0
  <2> DEFINE q == request[r]
  <2>1. q.pc \in {"ok", "persist"} \cup ItemPoints
    BY DEF Sound, RequestState, At
  <2>2. CASE q.pc = "ok"
    BY <2>2 DEF Left
  <2>3. CASE q.pc = "persist"
    <3>1. /\ Len(q.payload) \in Nat /\ Rest(Len(q.payload)) \in Nat
          /\ q.item \in 1 .. Len(q.payload) + 1
          /\ Left(q) = Rest(Len(q.payload)) + (Len(q.payload) - q.item) + 3
      BY <2>3, RestIs DEF Sound, PersistOK, Left
    <3>2. QED
      BY <3>1
  <2>4. CASE q.pc \in ItemPoints
    <3>1. q.pc \notin {"idle", "persist", "ok"}
      BY <2>4 DEF ItemPoints, MessagePoints
    <3>2. /\ Len(q.payload) \in Nat /\ q.item \in 1 .. Len(q.payload)
          /\ Rank(q) \in 1 .. MostPerItem
      BY <2>4, <3>1, RankIs DEF Sound
    <3>3. Len(q.payload) - q.item \in Nat
      BY <3>2
    <3>4. Rest(Len(q.payload) - q.item) \in Nat /\ MostPerItem \in Nat
      BY <3>3, RestIs
    <3>5. Left(q) = Rest(Len(q.payload) - q.item) + Rank(q) + 1
      BY <2>4, <3>1 DEF Left
    <3>6. QED
      BY <3>2, <3>4, <3>5
  <2>5. QED
    BY <2>1, <2>2, <2>3, <2>4
<1>3. QED
  BY <1>1, <1>2 DEF Nears, Fails

\* The next item, or the answer, is nearer than anything of this item.
LEMMA NextItemLeft ==
    ASSUME NEW p \in Payloads, Len(p) \in Nat, NEW i \in 1 .. Len(p) + 1
    PROVE  /\ Left(Handling(p, i)) <= Rest(Len(p) - i + 1) + 1
           /\ PersistOK(Handling(p, i))
<1> DEFINE q == Handling(p, i)
<1>1. /\ q.pc = FirstPoint(p, i) /\ q.payload = p /\ q.item = i
      /\ FirstPoint(p, i) \in {"ok", "mirror", "tracked"}
  BY DEF Handling, FirstPoint
<1> HIDE DEF q
<1>2. PersistOK(q)
  BY <1>1 DEF PersistOK
<1>3. CASE FirstPoint(p, i) = "ok"
  <2>1. Left(q) = 1 /\ Len(p) - i + 1 \in Nat
    BY <1>1, <1>3 DEF Left
  <2>2. Rest(Len(p) - i + 1) \in Nat
    BY <2>1, RestIs
  <2>3. QED
    BY <1>2, <2>1, <2>2 DEF q
<1>4. CASE FirstPoint(p, i) # "ok"
  <2>1. i \in 1 .. Len(p) /\ q.pc \in {"mirror", "tracked"}
    BY <1>1, <1>4 DEF FirstPoint
  <2> DEFINE m == Len(p) - i
  <2>2. m \in Nat /\ Len(p) - i + 1 = m + 1
    BY <2>1
  <2>3. Left(q) = Rest(m) + Rank(q) + 1
    BY <1>1, <2>1 DEF Left, ItemPoints, MessagePoints
  <2>4. Rank(q) \in {MostPerItem, 3}
    BY <2>1 DEF Rank
  <2> HIDE DEF m
  <2>5. /\ Rest(m) \in Nat /\ Rest(m + 1) = Rest(m) + MostPerItem
        /\ MostPerItem \in Nat /\ MostPerItem > 9
    BY <2>2, RestIs
  <2>6. Left(q) <= Rest(m + 1) + 1
    BY <2>3, <2>4, <2>5
  <2>7. QED
    BY <1>2, <2>2, <2>6 DEF q
<1>5. QED
  BY <1>3, <1>4

LEMMA HandlingLeft ==
    ASSUME NEW p \in Payloads, Len(p) \in Nat, NEW i \in 1 .. Len(p) + 1
    PROVE  Left(Handling(p, i)) \in Nat
<1> DEFINE next == Handling(p, i)
<1>1. /\ next.pc \in {"ok", "mirror", "tracked"} /\ next.payload = p
      /\ next.item = i /\ next.pc = FirstPoint(p, i)
  BY DEF Handling, FirstPoint
<1> HIDE DEF next
<1>2. CASE next.pc = "ok"
  <2>1. Left(next) = 1
    BY <1>2 DEF Left
  <2>2. QED
    BY <2>1 DEF next
<1>3. CASE next.pc \in {"mirror", "tracked"}
  <2>1. i \in 1 .. Len(p)
    BY <1>1, <1>3 DEF FirstPoint
  <2>2. Len(p) - i \in Nat /\ Rank(next) \in {MostPerItem, 3}
    BY <1>3, <2>1 DEF Rank
  <2>3. Left(next) = Rest(Len(p) - i) + Rank(next) + 1
    BY <1>1, <1>3 DEF Left
  <2>4. Rest(Len(p) - i) \in Nat /\ MostPerItem \in Nat
    BY <2>2, RestIs
  <2>5. QED
    BY <2>2, <2>3, <2>4 DEF next
<1>4. QED
  BY <1>1, <1>2, <1>3

\* A step to a lower point of the item, or to the next item.
LEMMA StepNears ==
    ASSUME NEW r \in Requests, Sound(request[r]),
           request[r].pc \in ItemPoints,
           NEW q \in RequestState, q.payload = request[r].payload,
           q.item = request[r].item, NEW point,
           \/ point = "next"
           \/ /\ point \in ItemPoints
              /\ Rank([q EXCEPT !.pc = point]) < Rank(request[r]),
           Becomes(r, Step(q, point))
    PROVE  \E next : Nears(r, next)
<1> DEFINE p == request[r].payload
           m == Len(p) - q.item
           now == Rank(request[r])
<1>1. request[r].pc \notin {"idle", "persist", "ok"}
  BY DEF ItemPoints, MessagePoints
<1>2. /\ p \in Payloads /\ Len(p) \in Nat /\ q.item \in 1 .. Len(p)
      /\ m \in Nat /\ now \in 1 .. MostPerItem
  BY <1>1, RankIs DEF Sound
<1>3. Left(request[r]) = Rest(m) + now + 1
  BY <1>1 DEF Left
<1>4. Rest(m) \in Nat /\ MostPerItem \in Nat
  BY <1>2, RestIs
<1>5. CASE point = "next"
  <2> DEFINE next == Handling(p, q.item + 1)
  <2>1. Step(q, point) = next
    BY <1>5 DEF Step
  <2>2. q.item + 1 \in 1 .. Len(p) + 1 /\ Len(p) - (q.item + 1) + 1 = m
    BY <1>2
  <2>3. Left(next) <= Rest(m) + 1 /\ PersistOK(next)
    BY <1>2, <2>2, NextItemLeft
  <2>4. Left(next) \in Nat
    BY <1>2, <2>2, HandlingLeft
  <2> HIDE DEF next, m, now
  <2>5. Left(next) < Left(request[r])
    BY <1>2, <1>3, <1>4, <2>3, <2>4
  <2>6. QED
    BY <2>1, <2>3, <2>5 DEF Nears
<1>6. CASE point \in ItemPoints
  <2> DEFINE next == [q EXCEPT !.pc = point]
  <2>1. point # "next" /\ point \notin {"idle", "persist", "ok"}
    BY <1>6 DEF ItemPoints, MessagePoints
  <2>2. /\ Step(q, point) = next /\ next.pc = point /\ next.payload = p
        /\ next.item = q.item /\ next \in RequestState
    BY <1>6, <2>1 DEF Step, RequestState
  <2>3. Rank(next) < now /\ Rank(next) \in 1 .. MostPerItem
    BY <1>6, <2>1, <2>2, RankIs
  <2>4. PersistOK(next)
    BY <2>1, <2>2 DEF PersistOK
  <2>5. Left(next) = Rest(m) + Rank(next) + 1
    BY <1>6, <2>1, <2>2 DEF Left
  <2> HIDE DEF next, m, now
  <2>6. Left(next) < Left(request[r])
    BY <1>2, <1>3, <1>4, <2>3, <2>5
  <2>7. QED
    BY <2>2, <2>4, <2>6 DEF Nears
<1>7. QED
  BY <1>5, <1>6

\* The points of a message, and what they are worth.
LEMMA RankOfPoints ==
    ASSUME NEW q \in RequestState
    PROVE  /\ ToolRoundsMax \in Nat /\ ToolRoundsMax > 0
           /\ q.round \in 0 .. ToolRoundsMax - 1
           /\ \A point \in ItemPoints :
                 LET next == [q EXCEPT !.pc = point] IN
                 /\ next.pc = point /\ next.round = q.round
                 /\ next \in RequestState
           /\ MostPerItem = ToolRoundsMax + 9
<1>1. /\ ToolRoundsMax \in Nat /\ ToolRoundsMax > 0
      /\ MostPerItem = ToolRoundsMax + 9
  BY ShapesAssumption, RestIs
<1>2. q.round \in 0 .. ToolRoundsMax - 1
  BY DEF RequestState
<1>3. ASSUME NEW point \in ItemPoints
      PROVE  /\ [q EXCEPT !.pc = point].pc = point
             /\ [q EXCEPT !.pc = point].round = q.round
             /\ [q EXCEPT !.pc = point] \in RequestState
  BY DEF RequestState
<1>4. QED
  BY <1>1, <1>2, <1>3

\* Request r goes to one of these points, which are all nearer.
LEMMA GoesNears ==
    ASSUME NEW r \in Requests, Sound(request[r]),
           request[r].pc \in ItemPoints, NEW points,
           NEW point \in points,
           \A x \in points \ {"next"} :
              /\ x \in ItemPoints
              /\ Rank([request[r] EXCEPT !.pc = x]) < Rank(request[r])
    PROVE  /\ Goes(r, point) => \E next : Nears(r, next)
           /\ point # "complete" /\ Takes(r, point) =>
                 \E next : Nears(r, next)
<1>1. request[r] \in RequestState
  BY DEF Sound
<1>2. ASSUME Goes(r, point)
      PROVE  \E next : Nears(r, next)
  BY <1>1, <1>2, StepNears DEF Goes
<1>3. ASSUME Takes(r, point), point # "complete"
      PROVE  \E next : Nears(r, next)
  <2> DEFINE q == [request[r] EXCEPT !.taken = TRUE]
  <2>1. /\ q \in RequestState /\ q.payload = request[r].payload
        /\ q.item = request[r].item
    BY <1>1 DEF RequestState
  <2>2. ASSUME point # "next"
        PROVE  Rank([q EXCEPT !.pc = point])
                  = Rank([request[r] EXCEPT !.pc = point])
    <3>1. /\ [q EXCEPT !.pc = point].pc = point
          /\ [request[r] EXCEPT !.pc = point].pc = point
          /\ [q EXCEPT !.pc = point].round = request[r].round
          /\ [request[r] EXCEPT !.pc = point].round = request[r].round
      BY <1>1, <2>1 DEF RequestState
    <3>2. QED
      BY <3>1 DEF Rank
  <2>3. Becomes(r, Step(q, point))
    BY <1>3 DEF Takes
  <2> HIDE DEF q
  <2>4. QED
    BY <2>1, <2>2, <2>3, StepNears
<1>4. QED
  BY <1>2, <1>3

\* Each point goes to lower ones only.
Lower(point) ==
    CASE point = "mirror" -> {"media", "slot", "campaign", "active", "cta",
                              "replyAgain", "click", "duplicate", "next"}
      [] point = "campaign" -> {"active", "cta", "replyAgain", "click",
                                "duplicate", "next"}
      [] point = "active" -> {"reply", "cta", "replyAgain", "click",
                              "duplicate", "next"}
      [] point = "reply" -> {"cta", "replyAgain", "click", "duplicate", "next"}
      [] point = "replyAgain" -> {"duplicate", "next"}
      [] point = "duplicate" -> {"conversation", "next"}
      [] point = "conversation" -> {"complete", "next"}
      [] point = "complete" -> {"send", "next"}
      [] point = "send" -> {"tell", "next"}
      [] point = "tracked" -> {"marketing", "due"}
      [] point = "marketing" -> {"due", "next"}
      [] OTHER -> {"next"}

LEMMA LowerIsLower ==
    ASSUME NEW q \in RequestState, q.pc \in ItemPoints,
           NEW x \in Lower(q.pc) \ {"next"}
    PROVE  /\ x \in ItemPoints
           /\ Rank([q EXCEPT !.pc = x]) < Rank(q)
<1> DEFINE next == [q EXCEPT !.pc = x]
           R == ToolRoundsMax
<1>1. x \in ItemPoints /\ q.pc \in ItemPoints
  BY DEF Lower, ItemPoints, MessagePoints
<1>2. /\ R \in Nat /\ R > 0 /\ q.round \in 0 .. R - 1
      /\ next.pc = x /\ next.round = q.round /\ MostPerItem = R + 9
  BY <1>1, RankOfPoints
<1> HIDE DEF next, R
<1>3. CASE q.pc \in {"mirror", "campaign", "active"}
  <2>1. Rank(q) = IF q.pc = "mirror" THEN R + 9
                  ELSE IF q.pc = "campaign" THEN R + 8 ELSE R + 7
    BY <1>2, <1>3 DEF Rank, R
  <2>2. x \in {"media", "slot", "campaign", "active", "cta", "replyAgain",
               "click", "duplicate", "reply"}
        /\ (x = "campaign" => q.pc = "mirror")
        /\ (x = "active" => q.pc # "active")
    BY <1>3 DEF Lower
  <2>3. Rank(next) = CASE x = "campaign" -> R + 8
                       [] x = "active" -> R + 7
                       [] x = "reply" -> R + 6
                       [] x = "replyAgain" -> R + 5
                       [] x = "duplicate" -> R + 4
                       [] OTHER -> 1
    BY <1>2, <2>2 DEF Rank, R
  <2>4. QED
    BY <1>1, <1>2, <1>3, <2>1, <2>2, <2>3 DEF next
<1>4. CASE q.pc \in {"reply", "replyAgain", "duplicate", "conversation"}
  <2>1. Rank(q) = CASE q.pc = "reply" -> R + 6
                    [] q.pc = "replyAgain" -> R + 5
                    [] q.pc = "duplicate" -> R + 4
                    [] OTHER -> R + 3
    BY <1>2, <1>4 DEF Rank, R
  <2>2. /\ x \in {"cta", "replyAgain", "click", "duplicate", "conversation",
                  "complete"}
        /\ x = "replyAgain" => q.pc = "reply"
        /\ x = "duplicate" => q.pc \in {"reply", "replyAgain"}
        /\ x = "conversation" => q.pc = "duplicate"
    BY <1>4 DEF Lower
  <2>3. Rank(next) = CASE x = "replyAgain" -> R + 5
                       [] x = "duplicate" -> R + 4
                       [] x = "conversation" -> R + 3
                       [] x = "complete" -> R - q.round + 2
                       [] OTHER -> 1
    BY <1>2, <2>2 DEF Rank, R
  <2>4. QED
    BY <1>1, <1>2, <1>4, <2>1, <2>2, <2>3 DEF next
<1>5. CASE q.pc \in {"complete", "send", "tracked", "marketing"}
  <2>1. Rank(q) = CASE q.pc = "complete" -> R - q.round + 2
                    [] q.pc = "tracked" -> 3
                    [] OTHER -> 2
    BY <1>2, <1>5 DEF Rank, R
  <2>2. /\ x \in {"send", "tell", "marketing", "due"}
        /\ x = "send" => q.pc = "complete"
        /\ x = "marketing" => q.pc = "tracked"
    BY <1>5 DEF Lower
  <2>3. Rank(next) = IF x \in {"send", "marketing"} THEN 2 ELSE 1
    BY <1>2, <2>2 DEF Rank
  <2>4. QED
    BY <1>1, <1>2, <1>5, <2>1, <2>2, <2>3 DEF next
<1>6. QED
  BY <1>3, <1>4, <1>5 DEF Lower

\* Request r goes on within its item, to a lower point of it, or fails.
GoesLower(r) ==
    \/ Fails(r)
    \/ \E point \in Lower(request[r].pc) : Goes(r, point)
    \/ \E point \in Lower(request[r].pc) \ {"complete"} : Takes(r, point)

LEMMA GoesLowerNears ==
    ASSUME NEW r \in Requests, Sound(request[r]),
           request[r].pc \in ItemPoints, GoesLower(r)
    PROVE  \E next : Nears(r, next)
<1>1. /\ request[r] \in RequestState
      /\ ~At(r, "idle")
  BY DEF Sound, At, ItemPoints, MessagePoints
<1>2. \A x \in Lower(request[r].pc) \ {"next"} :
         /\ x \in ItemPoints
         /\ Rank([request[r] EXCEPT !.pc = x]) < Rank(request[r])
  BY <1>1, LowerIsLower
<1>3. QED
  BY <1>1, <1>2, FailsNears, GoesNears DEF GoesLower

\* Every step within an item is of this kind, or is another round of DeepSeek.
LEMMA ItemStepsGoLower ==
    ASSUME IInv, NEW r \in Requests, request[r].pc \in ItemPoints, Progress(r)
    PROVE  \/ GoesLower(r)
           \/ /\ At(r, "complete")
              /\ request[r].round + 1 < ToolRoundsMax
              /\ Becomes(r, [request[r] EXCEPT !.round = @ + 1])
<1> DEFINE m == Item(r)
           point == request[r].pc
<1>1. point \in MessagePoints => m \in Messages
  BY DEF IInv, StateOK, Item
<1>2. point # "ok" /\ point # "persist"
  BY DEF ItemPoints, MessagePoints
<1>3. ASSUME point \in MessagePoints
      PROVE  /\ AfterRecruiting(m) \in
                   {"next", "cta", "replyAgain", "click", "duplicate"}
             /\ AfterCampaign(m) \in
                   {"next", "cta", "replyAgain", "click", "duplicate",
                    "active"}
             /\ AfterMirror(m) \in
                   {"next", "cta", "replyAgain", "click", "duplicate",
                    "active", "media", "slot", "campaign"}
  BY <1>1, <1>3, RoutesOfMessages
<1>4. \A action, next : Emit(r, action, next) => Goes(r, next) \/ Fails(r)
  BY DEF Emit, NotEmitted
<1>5. CASE MirrorMessage(r)
  <2>1. point = "mirror" /\ (Goes(r, AfterMirror(m)) \/ Fails(r))
    BY <1>4, <1>5 DEF MirrorMessage, At
  <2>2. AfterMirror(m) \in Lower(point)
    BY <1>3, <2>1 DEF Lower, MessagePoints
  <2>3. QED
    BY <2>1, <2>2 DEF GoesLower
<1>6. CASE TellCampaign(r) \/ CheckActive(r)
  <2>1. \/ point = "campaign" /\ Goes(r, AfterCampaign(m))
        \/ point = "active" /\ (Goes(r, AfterActive(m)) \/ Fails(r))
    BY <1>6 DEF TellCampaign, CheckActive, At
  <2>2. /\ point = "campaign" => AfterCampaign(m) \in Lower(point)
        /\ point = "active" => AfterActive(m) \in Lower(point)
    BY <1>3 DEF Lower, MessagePoints, AfterActive
  <2>3. QED
    BY <2>1, <2>2 DEF GoesLower
<1>7. CASE ReplyByCapture(r) \/ ReplyAgainByCapture(r)
  <2>1. \/ /\ point = "reply"
           /\ Takes(r, "next") \/ Goes(r, AfterRecruiting(m)) \/ Fails(r)
        \/ /\ point = "replyAgain"
           /\ Takes(r, "next") \/ Goes(r, "duplicate") \/ Fails(r)
    BY <1>7 DEF ReplyByCapture, ReplyAgainByCapture, AskCapture, Taken, At
  <2>2. /\ point = "reply" =>
              {AfterRecruiting(m), "next"} \subseteq Lower(point)
        /\ point = "replyAgain" => {"duplicate", "next"} \subseteq Lower(point)
    BY <1>3 DEF Lower, MessagePoints
  <2>3. QED
    BY <2>1, <2>2 DEF GoesLower
<1>8. CASE \/ RouteMedia(r) \/ SelectSlot(r) \/ ReportCta(r)
           \/ ClickCallButton(r) \/ TellTurn(r) \/ ReportStatus(r)
  <2>1. /\ point \in {"media", "slot", "cta", "click", "tell", "due"}
        /\ Goes(r, "next") \/ Fails(r)
    BY <1>4, <1>8 DEF RouteMedia, SelectSlot, ReportCta, ClickCallButton,
       TellTurn, ReportStatus, At
  <2>2. "next" \in Lower(point)
    BY <2>1 DEF Lower
  <2>3. QED
    BY <2>1, <2>2 DEF GoesLower
<1>9. CASE CheckDuplicate(r) \/ ReadConversation(r) \/ SendReply(r)
  <2>1. \/ point = "duplicate" /\ (Goes(r, "next") \/ Goes(r, "conversation"))
        \/ point = "conversation" /\ (Goes(r, "next") \/ Goes(r, "complete"))
        \/ point = "send" /\ (Goes(r, "next") \/ Takes(r, "tell"))
    BY <1>9 DEF CheckDuplicate, ReadConversation, SendReply, At
  <2>2. /\ point = "duplicate" =>
              {"next", "conversation"} \subseteq Lower(point)
        /\ point = "conversation" => {"next", "complete"} \subseteq Lower(point)
        /\ point = "send" => {"next", "tell"} \subseteq Lower(point)
    BY DEF Lower
  <2>3. QED
    BY <2>1, <2>2 DEF GoesLower
<1>10. CASE Complete(r)
  <2>1. /\ point = "complete"
        /\ \/ Goes(r, "send") \/ Goes(r, "next")
           \/ /\ request[r].round + 1 < ToolRoundsMax
              /\ Becomes(r, [request[r] EXCEPT !.round = @ + 1])
    BY <1>10 DEF Complete, RoundDone, AnotherRound, At
  <2>2. {"next", "send"} \subseteq Lower(point)
    BY <2>1 DEF Lower
  <2>3. QED
    BY <2>1, <2>2 DEF GoesLower, At
<1>11. CASE TrackStatus(r) \/ TellMarketing(r)
  <2>1. \/ /\ point = "tracked"
           /\ Goes(r, "due") \/ Goes(r, "marketing") \/ Fails(r)
        \/ point = "marketing" /\ (Goes(r, "due") \/ Goes(r, "next"))
    BY <1>11 DEF TrackStatus, TellMarketing, AfterMarketing, At
  <2>2. /\ point = "tracked" => {"due", "marketing"} \subseteq Lower(point)
        /\ point = "marketing" => {"due", "next"} \subseteq Lower(point)
    BY DEF Lower
  <2>3. QED
    BY <2>1, <2>2 DEF GoesLower
<1>12. QED
  BY <1>2, <1>5, <1>6, <1>7, <1>8, <1>9, <1>10, <1>11
     DEF Progress, PersistMessage, PersistenceEnds, AnswerOk, At

LEMMA ProgressNears ==
    ASSUME IInv, PersistInOrder, NEW r \in Requests, Progress(r)
    PROVE  \E q : Nears(r, q)
<1> DEFINE q == request[r]
           n == Len(q.payload)
<1>1. Sound(q) /\ q \in RequestState
  BY SoundAlways DEF Sound
<1>2. q.pc \in {"idle", "persist", "ok"} \cup ItemPoints
  BY <1>1 DEF RequestState
<1>3. CASE q.pc \in ItemPoints
  <2>1. CASE GoesLower(r)
    BY <1>1, <1>3, <2>1, GoesLowerNears
  <2>2. CASE /\ At(r, "complete")
             /\ q.round + 1 < ToolRoundsMax
             /\ Becomes(r, [q EXCEPT !.round = @ + 1])
    <3> DEFINE next == [q EXCEPT !.round = @ + 1]
               m == n - q.item
    <3>1. /\ next.pc = "complete" /\ q.pc = "complete"
          /\ next.payload = q.payload /\ next.item = q.item
          /\ next.round = q.round + 1
          /\ ToolRoundsMax \in Nat /\ q.round \in 0 .. ToolRoundsMax - 1
      BY <1>1, <2>2, ShapesAssumption DEF RequestState, At
    <3>2. /\ Rank(next) = ToolRoundsMax - (q.round + 1) + 2
          /\ Rank(q) = ToolRoundsMax - q.round + 2
      BY <3>1 DEF Rank
    <3>3. /\ Left(next) = Rest(m) + Rank(next) + 1
          /\ Left(q) = Rest(m) + Rank(q) + 1
      BY <3>1 DEF Left
    <3>4. m \in Nat
      BY <1>1, <1>3, <3>1 DEF Sound
    <3>5. Rest(m) \in Nat
      BY <3>4, RestIs
    <3>6. PersistOK(next) /\ Becomes(r, next)
      BY <2>2, <3>1 DEF PersistOK
    <3> HIDE DEF next, m
    <3>7. Left(next) < Left(q)
      BY <3>1, <3>2, <3>3, <3>5
    <3>8. QED
      BY <3>6, <3>7 DEF Nears
  <2>3. QED
    BY <1>3, <2>1, <2>2, ItemStepsGoLower
<1>4. CASE q.pc = "persist"
  <2>1. /\ n \in Nat /\ q.item \in 1 .. n + 1 /\ q.payload \in Payloads
        /\ Rest(n) \in Nat /\ MostPerItem \in Nat
    BY <1>1, <1>4, RestIs DEF Sound, PersistOK
  <2>2. Left(q) = Rest(n) + (n - q.item) + 3
    BY <1>4 DEF Left
  <2>3. CASE PersistMessage(r)
    <3> DEFINE next == [q EXCEPT !.item = @ + 1]
    <3>1. /\ next.pc = "persist" /\ next.item = q.item + 1
          /\ next.payload = q.payload /\ Becomes(r, next) /\ q.item <= n
      BY <1>1, <1>4, <2>3 DEF PersistMessage, RequestState
    <3>2. Left(next) = Rest(n) + (n - (q.item + 1)) + 3
      BY <3>1 DEF Left
    <3>3. PersistOK(next)
      BY <2>1, <3>1 DEF PersistOK
    <3> HIDE DEF next, n
    <3>4. Left(next) < Left(q)
      BY <2>1, <2>2, <3>2
    <3>5. QED
      BY <3>1, <3>3, <3>4 DEF Nears
  <2>4. CASE PersistenceEnds(r)
    <3> DEFINE next == Handling(q.payload, 1)
    <3>1. 1 \in 1 .. n + 1 /\ n - 1 + 1 = n
      BY <2>1
    <3>2. Left(next) <= Rest(n) + 1 /\ PersistOK(next) /\ Becomes(r, next)
      BY <2>1, <2>4, <3>1, NextItemLeft DEF PersistenceEnds
    <3>3. Left(next) \in Int
      BY <2>1, HandlingLeft
    <3> HIDE DEF next, n
    <3>4. Left(next) < Left(q)
      BY <2>1, <2>2, <3>2, <3>3
    <3>5. QED
      BY <3>2, <3>4 DEF Nears
  <2>5. QED
    BY <1>4, <2>3, <2>4 DEF Progress, PersistMessage, PersistenceEnds,
       MirrorMessage, RouteMedia, SelectSlot, TellCampaign, CheckActive,
       ReplyByCapture, ReportCta, ReplyAgainByCapture, ClickCallButton,
       CheckDuplicate, ReadConversation, Complete, SendReply, TellTurn,
       TrackStatus, TellMarketing, ReportStatus, AnswerOk, At
<1>5. CASE q.pc = "ok"
  <2>1. Fails(r)
    BY <1>5 DEF Fails, Progress, PersistMessage, PersistenceEnds,
       MirrorMessage, RouteMedia, SelectSlot, TellCampaign, CheckActive,
       ReplyByCapture, ReportCta, ReplyAgainByCapture, ClickCallButton,
       CheckDuplicate, ReadConversation, Complete, SendReply, TellTurn,
       TrackStatus, TellMarketing, ReportStatus, AnswerOk, At
  <2>2. QED
    BY <1>1, <1>5, <2>1, FailsNears DEF At
<1>6. q.pc # "idle"
  BY DEF Progress, PersistMessage, PersistenceEnds,
     MirrorMessage, RouteMedia, SelectSlot, TellCampaign, CheckActive,
     ReplyByCapture, ReportCta, ReplyAgainByCapture, ClickCallButton,
     CheckDuplicate, ReadConversation, Complete, SendReply, TellTurn,
     TrackStatus, TellMarketing, ReportStatus, AnswerOk, At
<1>7. QED
  BY <1>2, <1>3, <1>4, <1>5, <1>6

\* The store goes through each payload once, whatever else happens.
LEMMA PersistsInOrder == Spec => [](IInv /\ PersistInOrder)
<1>1. Init => PersistInOrder
  BY DEF Init, Idle, PersistInOrder, PersistOK
<1>2. IInv /\ PersistInOrder /\ [Next]_vars => PersistInOrder'
  <2> SUFFICES ASSUME IInv, PersistInOrder, [Next]_vars, NEW r \in Requests
               PROVE  PersistOK(request'[r])
    BY DEF PersistInOrder
  <2>1. ASSUME NEW s \in Requests, NEW q, Becomes(s, q), PersistOK(q)
        PROVE  PersistOK(request'[r])
    BY <2>1 DEF IInv, TypeOK, Becomes, PersistInOrder
  <2>2. ASSUME NEW s \in Requests, ReceivePayload(s)
        PROVE  PersistOK(request'[r])
    <3>1. PICK p \in Payloads :
             Becomes(s, [Idle EXCEPT !.pc = "persist", !.payload = p,
                                     !.item = 1])
      BY <2>2 DEF ReceivePayload
    <3>2. PersistOK([Idle EXCEPT !.pc = "persist", !.payload = p, !.item = 1])
      BY PayloadsAssumption DEF PersistOK, Idle
    <3>3. QED
      BY <2>1, <3>1, <3>2
  <2>3. ASSUME NEW s \in Requests, Progress(s)
        PROVE  PersistOK(request'[r])
    BY <2>1, <2>3, ProgressNears DEF Nears
  <2>4. CASE Crash
    BY <2>4 DEF Crash, Idle, PersistOK
  <2>5. CASE SessionEnds
    <3>1. /\ request'[r].pc = request[r].pc
          /\ request'[r].payload = request[r].payload
          /\ request'[r].item = request[r].item
      BY <2>5 DEF SessionEnds, IInv, TypeOK, RequestState
    <3>2. QED
      BY <3>1 DEF PersistInOrder, PersistOK
  <2>6. CASE SessionBegins \/ UNCHANGED vars
    BY <2>6 DEF SessionBegins, vars, PersistInOrder
  <2>7. QED
    BY <2>2, <2>3, <2>4, <2>5, <2>6 DEF Next
<1>3. QED
  BY <1>1, <1>2, Invariant, PTL DEF Spec

\* Each step of request r lowers what it has left, and no other step raises it
\* while r is at work.
OnlyNears(r) ==
    /\ Progress(r) => Left(request'[r]) < Left(request[r])
    /\ ~At(r, "idle") => Left(request'[r]) <= Left(request[r])

\* No request goes on for ever: it has been answered after at most
\* MostSteps(payload) steps of its own, whatever the calls that webhookPost
\* awaits do, DeepSeek asks for, and other requests or the sessions do
\* meanwhile (the rounds of replyLotesChat are counted, and the rest of the
\* handler goes one way).
THEOREM WebhookIsBounded ==
    Spec => /\ [](\A r \in Requests :
                     /\ Left(request[r]) \in Nat
                     /\ ~At(r, "idle") =>
                           Left(request[r]) <= MostSteps(request[r].payload))
            /\ [][\A r \in Requests : OnlyNears(r)]_vars
<1>1. IInv /\ PersistInOrder =>
         \A r \in Requests :
            /\ Left(request[r]) \in Nat
            /\ ~At(r, "idle") =>
                  Left(request[r]) <= MostSteps(request[r].payload)
  BY SoundAlways, LeftIs DEF At
<1>2. (IInv /\ PersistInOrder) /\ (IInv /\ PersistInOrder)' /\ [Next]_vars
         => [\A r \in Requests : OnlyNears(r)]_vars
  <2> SUFFICES ASSUME IInv, PersistInOrder, IInv', PersistInOrder',
                      [Next]_vars, NEW r \in Requests
               PROVE  OnlyNears(r)
    OBVIOUS
  <2>1. Left(request[r]) \in Nat
    BY <1>1
  <2>2. ASSUME NEW s \in Requests, NEW q, Becomes(s, q)
        PROVE  /\ s = r => request'[r] = q
               /\ s # r => request'[r] = request[r]
    BY <2>2 DEF IInv, TypeOK, Becomes
  <2>3. Progress(r) => Left(request'[r]) < Left(request[r])
    BY <2>2, ProgressNears DEF Nears
  <2>4. ASSUME ~At(r, "idle")
        PROVE  Left(request'[r]) <= Left(request[r])
    <3>1. CASE request'[r] = request[r]
      BY <2>1, <3>1
    <3>2. CASE Crash
      <4>1. Left(request'[r]) = 0
        BY <3>2 DEF Crash, Idle, Left
      <4>2. QED
        BY <2>1, <4>1
    <3>3. ASSUME NEW s \in Requests, ReceivePayload(s)
          PROVE  request'[r] = request[r]
      BY <2>2, <2>4, <3>3 DEF ReceivePayload, At
    <3>4. ASSUME NEW s \in Requests, Progress(s)
          PROVE  Left(request'[r]) <= Left(request[r])
      <4>1. CASE s = r
        <5>1. Left(request'[r]) \in Nat
          <6>1. /\ request'[r] \in RequestState /\ PersistOK(request'[r])
                /\ StateOK(request'[r], crm', active')
            BY DEF IInv, TypeOK, PersistInOrder
          <6>2. QED
            BY <6>1, StateIsSound, LeftIs
        <5>2. QED
          BY <2>1, <2>3, <3>4, <4>1, <5>1
      <4>2. CASE s # r
        BY <2>1, <2>2, <3>4, <4>2, ProgressNears DEF Nears
      <4>3. QED
        BY <4>1, <4>2
    <3>5. CASE SessionEnds
      <4>1. /\ request'[r].pc = request[r].pc
            /\ request'[r].payload = request[r].payload
            /\ request'[r].item = request[r].item
            /\ request'[r].round = request[r].round
        BY <3>5 DEF SessionEnds, IInv, TypeOK, RequestState
      <4>2. Left(request'[r]) = Left(request[r])
        BY <4>1 DEF Left, Rank
      <4>3. QED
        BY <2>1, <4>2
    <3>6. QED
      BY <3>1, <3>2, <3>3, <3>4, <3>5 DEF Next, SessionBegins, vars
  <2>5. QED
    BY <2>3, <2>4 DEF OnlyNears
<1>3. QED
  BY <1>1, <1>2, PersistsInOrder, PTL DEF Spec
=============================================================================
