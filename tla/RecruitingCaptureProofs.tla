----------------------- MODULE RecruitingCaptureProofs -----------------------
(***************************************************************************)
(* Theorems about RecruitingCapture, for any number of candidates, media,  *)
(* handlers in flight and tool rounds.                                     *)
(*                                                                         *)
(* The safety invariants speak of stored sessions.  A handler's local copy *)
(* becomes the stored session at its save, so the inductive invariant says *)
(* the same of every local copy (HandlerOK), and what each point of a      *)
(* handler knows.  What a copy claims only needs events and texts that     *)
(* exist; both sets only grow, so a step of one handler leaves the claims  *)
(* of the others alone (ClaimsGrow, Frame).                                *)
(*                                                                         *)
(* As long as no call rejects and the process stays up, what a stored      *)
(* session claims has been told to the CRM and to the candidate, for any   *)
(* number of overlapping handlers.  A handler sets a claim in its local    *)
(* copy before it awaits the event or the text behind it.  QuietOK says of *)
(* each claim at which points it may still be ahead; a copy that reaches   *)
(* its save is never ahead.                                                *)
(*                                                                         *)
(* As long as handlers do not overlap, whatever fails, sessions are unique *)
(* and only grow: the copy of the one handler in flight is never behind    *)
(* the session it was read from (LocalOK); and while nothing fails either, *)
(* a CV that the CRM was told of is recorded (HeardOK).                    *)
(***************************************************************************)
EXTENDS RecruitingCapture, TLAPS

EventSet == [action : Actions, cand : Candidates,
             item : Media \cup Fields \cup {None}]

\* A session of c that the events ev support.
SessionOK(c, s, ev) ==
    /\ s \in Session
    /\ Coherent(s)
    /\ s.cvReceived =>
          \E m \in Media :
              [action |-> "recruiting.cv_received", cand |-> c, item |-> m]
                  \in ev

\* The media message of a handler came from its candidate's number.
OwnMedia(r) == r.media \in Media /\ SenderOf[r.media] = PhoneOf[r.cand]

OwnVideo(r) == OwnMedia(r) /\ KindOf[r.media] = "video"

\* What a handler's local state r knows, given the events ev and texts tx.
HandlerOK(r, ev, tx) ==
    /\ r \in HandlerState
    /\ r.pc # "idle" => r.cand \in Candidates /\ SessionOK(r.cand, r.sess, ev)
    /\ r.pc = "media" => OwnMedia(r)
    /\ r.pc = "cv" => OwnMedia(r) /\ KindOf[r.media] = "pdf"
    /\ r.pc = "video" => /\ OwnVideo(r)
                         /\ r.sess.stage \in {"awaiting_video", "done"}
    /\ r.pc = "send" =>
          /\ r.out \in Texts
          /\ r.out \in {"videoRequest", "videoReceived"} => r.sess.cvReceived
          /\ r.out = "videoReceived" => OwnVideo(r)
    /\ r.pc = "reportVideo" => /\ OwnVideo(r)
                               /\ r.sess.cvReceived
                               /\ <<r.cand, "videoReceived">> \in tx

IInv ==
    /\ TypeOK
    /\ \A c \in Candidates :
          sessions[c] # None => SessionOK(c, sessions[c], events)
    /\ \A h \in Handlers : HandlerOK(handler[h], events, texts)

-----------------------------------------------------------------------------

\* More events and texts support at least as much.
LEMMA ClaimsGrow ==
    ASSUME NEW ev1, NEW ev2, ev1 \subseteq ev2,
           NEW tx1, NEW tx2, tx1 \subseteq tx2
    PROVE  /\ \A c, s : SessionOK(c, s, ev1) => SessionOK(c, s, ev2)
           /\ \A r : HandlerOK(r, ev1, tx1) => HandlerOK(r, ev2, tx2)
<1>1. \A c, s : SessionOK(c, s, ev1) => SessionOK(c, s, ev2)
  BY DEF SessionOK
<1>2. \A r : HandlerOK(r, ev1, tx1) => HandlerOK(r, ev2, tx2)
  BY <1>1 DEF HandlerOK
<1>3. QED
  BY <1>1, <1>2

\* A step of handler h to the state r keeps the invariant if r knows what it
\* must, events and texts grow by well-typed ones, and the store is untouched.
LEMMA Frame ==
    ASSUME IInv, NEW h \in Handlers, NEW r,
           Becomes(h, r), HandlerOK(r, events', texts'),
           events \subseteq events', events' \subseteq EventSet,
           texts \subseteq texts', texts' \subseteq Candidates \X Texts,
           heard' \subseteq Candidates,
           UNCHANGED sessionVars, faulty' \in BOOLEAN
    PROVE  IInv'
<1>1. handler' \in [Handlers -> HandlerState]
  BY DEF IInv, TypeOK, Becomes, HandlerOK
<1>2. TypeOK'
  BY <1>1 DEF IInv, TypeOK, sessionVars, EventSet
<1>3. \A c \in Candidates :
          sessions'[c] # None => SessionOK(c, sessions'[c], events')
  BY ClaimsGrow DEF IInv, sessionVars
<1>4. ASSUME NEW g \in Handlers
      PROVE  HandlerOK(handler'[g], events', texts')
  <2>1. CASE g = h
    BY <2>1 DEF IInv, TypeOK, Becomes
  <2>2. CASE g # h
    <3>1. handler'[g] = handler[g]
      BY <2>2 DEF IInv, TypeOK, Becomes
    <3>2. HandlerOK(handler[g], events, texts)
      BY DEF IInv
    <3>3. QED
      BY <3>1, <3>2, ClaimsGrow
  <2>3. QED
    BY <2>1, <2>2
<1>5. QED
  BY <1>2, <1>3, <1>4 DEF IInv

\* A step that emits an event, or fails to.
LEMMA EmitFrame ==
    ASSUME IInv, NEW h \in Handlers,
           NEW action \in Actions, NEW item \in Media \cup Fields \cup {None},
           NEW ok, NEW bad,
           Emit(h, action, item, ok, bad),
           handler[h].cand \in Candidates,
           HandlerOK(ok, events \cup {[action |-> action,
                                       cand |-> handler[h].cand,
                                       item |-> item]}, texts),
           HandlerOK(bad, events, texts),
           UNCHANGED <<sessionVars, texts>>
    PROVE  IInv'
<1> DEFINE e == [action |-> action, cand |-> handler[h].cand, item |-> item]
<1>1. e \in EventSet /\ events \subseteq EventSet
      /\ texts \subseteq Candidates \X Texts /\ faulty \in BOOLEAN
  BY DEF EventSet, IInv, TypeOK
<1>2. heard' \subseteq Candidates
  BY DEF Emit, Tells, IInv, TypeOK
<1>3. CASE /\ events' = events \cup {e} /\ Becomes(h, ok) /\ UNCHANGED faulty
  <2>1. HandlerOK(ok, events', texts')
    BY <1>3
  <2> HIDE DEF e
  <2>2. QED
    BY <1>1, <1>2, <1>3, <2>1, Frame
<1>4. CASE faulty' = TRUE /\ Becomes(h, bad)
           /\ events' \in {events, events \cup {e}}
  <2>1. events \subseteq events' /\ events' \subseteq EventSet
    BY <1>1, <1>4
  <2>2. HandlerOK(bad, events', texts')
    BY <2>1, ClaimsGrow
  <2> HIDE DEF e
  <2>3. QED
    BY <1>1, <1>2, <1>4, <2>1, <2>2, Frame
<1>5. QED
  BY <1>3, <1>4 DEF Emit, Tells

\* A step that changes nothing but the state of its handler.
LEMMA LocalFrame ==
    ASSUME IInv, NEW h \in Handlers, NEW r, Becomes(h, r),
           HandlerOK(r, events, texts),
           UNCHANGED <<sessionVars, crmVars>>, faulty' \in BOOLEAN
    PROVE  IInv'
<1>1. /\ events' \subseteq EventSet /\ texts' \subseteq Candidates \X Texts
      /\ heard' \subseteq Candidates
  BY DEF IInv, TypeOK, crmVars, EventSet
<1>2. HandlerOK(r, events', texts')
  BY DEF crmVars
<1>3. QED
  BY <1>1, <1>2, Frame DEF crmVars

LEMMA IdleOK == \A ev, tx : HandlerOK(Idle, ev, tx)
BY BoundsAssumption DEF HandlerOK, Idle, Entering, HandlerState, Points

\* What a handler in flight knows survives a move to its save.
LEMMA SaveOK ==
    ASSUME NEW r, NEW ev, NEW tx, HandlerOK(r, ev, tx), r.pc # "idle"
    PROVE  HandlerOK([r EXCEPT !.pc = "save"], ev, tx)
BY DEF HandlerOK, HandlerState, Points

\* The same for a move to a reminder or a rejection.
LEMMA NoticeOK ==
    ASSUME NEW r, NEW ev, NEW tx, HandlerOK(r, ev, tx), r.pc # "idle"
    PROVE  HandlerOK([r EXCEPT !.pc = "send", !.out = "notice"], ev, tx)
BY DEF HandlerOK, HandlerState, Points, Texts

-----------------------------------------------------------------------------

LEMMA InitOK == Init => IInv
BY IdleOK DEF Init, IInv, TypeOK, HandlerOK

LEMMA SaveSessionKeeps ==
    ASSUME IInv, NEW h \in Handlers, SaveSession(h)
    PROVE  IInv'
<1> DEFINE c == handler[h].cand
           s == handler[h].sess
<1>1. c \in Candidates /\ SessionOK(c, s, events) /\ s \in Session
  BY DEF IInv, HandlerOK, SaveSession, At, SessionOK
<1>2. CASE faulty' = TRUE /\ UNCHANGED sessionVars
  BY <1>2, IdleOK, LocalFrame DEF SaveSession
<1>3. CASE Upsert(c, s) /\ UNCHANGED faulty
  <2>1. TypeOK'
    BY <1>1, <1>3, IdleOK
       DEF IInv, TypeOK, Upsert, Touch, SaveSession, Becomes, HandlerOK,
           crmVars
  <2>2. \A d \in Candidates :
            sessions'[d] # None => SessionOK(d, sessions'[d], events')
    BY <1>1, <1>3 DEF IInv, TypeOK, Upsert, SaveSession, crmVars
  <2>3. \A g \in Handlers : HandlerOK(handler'[g], events', texts')
    BY IdleOK DEF IInv, TypeOK, SaveSession, Becomes, crmVars
  <2>4. QED
    BY <2>1, <2>2, <2>3 DEF IInv
<1>4. QED
  BY <1>2, <1>3 DEF SaveSession

LEMMA CallRejectsKeeps ==
    ASSUME IInv, NEW h \in Handlers, CallRejects(h)
    PROVE  IInv'
<1> DEFINE r == [handler[h] EXCEPT !.pc = "save"]
<1>1. HandlerOK(handler[h], events, texts) /\ handler[h].pc # "idle"
  BY DEF IInv, CallRejects, Awaiting
<1>2. HandlerOK(r, events, texts)
  BY <1>1, SaveOK
<1>3. events \subseteq events' /\ events' \subseteq EventSet
  <2>1. OpeningEvents(h) \subseteq EventSet /\ events \subseteq OpeningEvents(h)
    BY <1>1 DEF OpeningEvents, IInv, TypeOK, EventSet, HandlerOK, Actions
  <2>2. QED
    BY <2>1 DEF IInv, TypeOK, CallRejects, EventSet
<1>4. texts \subseteq texts' /\ texts' \subseteq Candidates \X Texts
  BY <1>1 DEF IInv, TypeOK, CallRejects, Deliver, At, HandlerOK
<1>5. HandlerOK(r, events', texts')
  BY <1>2, <1>3, <1>4, ClaimsGrow
<1> HIDE DEF r
<1>6. /\ Becomes(h, r) /\ UNCHANGED sessionVars /\ faulty' \in BOOLEAN
      /\ heard' \subseteq Candidates
  BY DEF CallRejects, r, IInv, TypeOK
<1>7. QED
  BY <1>3, <1>4, <1>5, <1>6, Frame

LEMMA SendAssistantTextKeeps ==
    ASSUME IInv, NEW h \in Handlers, SendAssistantText(h)
    PROVE  IInv'
<1> DEFINE r == [handler[h] EXCEPT !.pc = AfterSending(handler[h].out)]
<1>1. HandlerOK(handler[h], events, texts) /\ handler[h].pc = "send"
  BY DEF IInv, SendAssistantText, At
<1>2. events' = events /\ events \subseteq EventSet
  BY DEF IInv, TypeOK, SendAssistantText, EventSet
<1>3. /\ texts \subseteq texts' /\ texts' \subseteq Candidates \X Texts
      /\ handler[h].out = "videoReceived"
            => <<handler[h].cand, "videoReceived">> \in texts'
  BY <1>1 DEF IInv, TypeOK, SendAssistantText, Deliver, HandlerOK
<1>4. HandlerOK(handler[h], events', texts')
  BY <1>1, <1>2, <1>3, ClaimsGrow
<1>5. HandlerOK(r, events', texts')
  BY <1>1, <1>3, <1>4
     DEF HandlerOK, HandlerState, Points, AfterSending, OwnVideo, OwnMedia
<1> HIDE DEF r
<1>6. /\ Becomes(h, r) /\ UNCHANGED sessionVars /\ faulty' \in BOOLEAN
      /\ heard' \subseteq Candidates
  BY DEF SendAssistantText, r, IInv, TypeOK
<1>7. QED
  BY <1>2, <1>3, <1>5, <1>6, Frame

\* A handler that starts from point with a session it may work on.
LEMMA EnteringOK ==
    ASSUME NEW point \in {"text", "media", "opening"},
           NEW job \in {"reply", "start"}, NEW c \in Candidates, NEW s,
           NEW m \in Media \cup {None}, NEW ev, NEW tx, SessionOK(c, s, ev),
           point = "media" => m \in Media /\ SenderOf[m] = PhoneOf[c]
    PROVE  HandlerOK(Entering(point, job, c, s, m), ev, tx)
<1>1. 0 \in 0 .. ToolRoundsMax /\ 0 \in 0 .. ToolCallsMax
  BY BoundsAssumption
<1>2. Entering(point, job, c, s, m) \in HandlerState
  BY <1>1 DEF Entering, HandlerState, Points, SessionOK
<1>3. QED
  BY <1>2 DEF HandlerOK, Entering, OwnMedia

LEMMA ReceiveTextKeeps ==
    ASSUME IInv, NEW h \in Handlers, NEW phone \in Phones,
           ReceiveText(h, phone)
    PROVE  IInv'
<1>1. PICK c \in Candidates :
          /\ IsSessionOfPhone(c, phone)
          /\ Becomes(h, Entering("text", "reply", c, sessions[c], None))
  BY DEF ReceiveText
<1>2. SessionOK(c, sessions[c], events)
  BY <1>1 DEF IInv, IsSessionOfPhone, IsActive
<1>3. HandlerOK(Entering("text", "reply", c, sessions[c], None), events, texts)
  BY <1>1, <1>2, EnteringOK
<1>4. UNCHANGED <<sessionVars, crmVars>> /\ faulty' \in BOOLEAN
  BY DEF ReceiveText, IInv, TypeOK
<1>5. QED
  BY <1>1, <1>3, <1>4, LocalFrame

LEMMA ProcessInboundTextKeeps ==
    ASSUME IInv, NEW h \in Handlers, ProcessInboundText(h)
    PROVE  IInv'
<1> DEFINE s == handler[h].sess
           notice == [handler[h] EXCEPT !.pc = "send", !.out = "notice"]
           request == [handler[h] EXCEPT !.pc = "send",
                          !.out = "cvRequest", !.sess.cvRequested = TRUE]
           agent == [handler[h] EXCEPT !.pc = "agent"]
<1>1. HandlerOK(handler[h], events, texts) /\ handler[h].pc = "text"
  BY DEF IInv, ProcessInboundText, At
<1>2. HandlerOK(notice, events, texts)
  BY <1>1, NoticeOK
<1>3. HandlerOK(agent, events, texts)
  BY <1>1 DEF HandlerOK, HandlerState, Points
<1>4. HandlerOK(request, events, texts)
  BY <1>1
     DEF HandlerOK, HandlerState, Points, Texts, SessionOK, Session, Coherent
<1>5. UNCHANGED <<sessionVars, crmVars>> /\ faulty' \in BOOLEAN
  BY DEF ProcessInboundText, IInv, TypeOK
<1>6. Becomes(h, notice) \/ Becomes(h, request) \/ Becomes(h, agent)
  BY DEF ProcessInboundText
<1> HIDE DEF notice, request, agent
<1>7. QED
  BY <1>2, <1>3, <1>4, <1>5, <1>6, LocalFrame

LEMMA AgentRepliesKeeps ==
    ASSUME IInv, NEW h \in Handlers, AgentReplies(h)
    PROVE  IInv'
<1> DEFINE notice == [handler[h] EXCEPT !.pc = "send", !.out = "notice"]
           save == [handler[h] EXCEPT !.pc = "save"]
<1>1. HandlerOK(handler[h], events, texts) /\ handler[h].pc # "idle"
  BY DEF IInv, AgentReplies, At
<1>2. HandlerOK(notice, events, texts) /\ HandlerOK(save, events, texts)
  BY <1>1, NoticeOK, SaveOK
<1>3. /\ Becomes(h, notice) \/ Becomes(h, save)
      /\ UNCHANGED <<sessionVars, crmVars>> /\ faulty' \in BOOLEAN
  BY DEF AgentReplies, IInv, TypeOK
<1> HIDE DEF notice, save
<1>4. QED
  BY <1>2, <1>3, LocalFrame

LEMMA AgentCallsToolsKeeps ==
    ASSUME IInv, NEW h \in Handlers, AgentCallsTools(h)
    PROVE  IInv'
<1>1. PICK n \in 1 .. ToolCallsMax :
          Becomes(h, [handler[h] EXCEPT !.pc = "tools", !.calls = n])
  BY DEF AgentCallsTools
<1> DEFINE r == [handler[h] EXCEPT !.pc = "tools", !.calls = n]
<1>2. HandlerOK(r, events, texts)
  <2>1. n \in 0 .. ToolCallsMax
    BY BoundsAssumption
  <2>2. HandlerOK(handler[h], events, texts) /\ handler[h].pc = "agent"
    BY DEF IInv, AgentCallsTools, At
  <2>3. QED
    BY <2>1, <2>2 DEF HandlerOK, HandlerState, Points
<1>3. Becomes(h, r) /\ UNCHANGED <<sessionVars, crmVars>> /\ faulty' \in BOOLEAN
  BY <1>1 DEF AgentCallsTools, IInv, TypeOK
<1> HIDE DEF r
<1>4. QED
  BY <1>2, <1>3, LocalFrame

\* A tool call that leaves a coherent copy with the same CV keeps the invariant.
LEMMA ToolCallKeeps ==
    ASSUME IInv, NEW h \in Handlers, NEW name,
           NEW action \in Actions, NEW item \in Media \cup Fields \cup {None},
           NEW s \in Session, ToolCall(h, name, action, item, s),
           Coherent(s), s.cvReceived = handler[h].sess.cvReceived
    PROVE  IInv'
<1> DEFINE e == [action |-> action, cand |-> handler[h].cand, item |-> item]
           ok == [handler[h] EXCEPT !.sess = s, !.calls = @ - 1]
           bad == [handler[h] EXCEPT !.sess = s, !.pc = "save"]
<1>1. /\ HandlerOK(handler[h], events, texts)
      /\ handler[h].pc = "tools" /\ handler[h].calls > 0
  BY DEF IInv, ToolCall, At
<1>2. HandlerOK(bad, events, texts)
  BY <1>1 DEF HandlerOK, HandlerState, Points, SessionOK
<1>3. HandlerOK(ok, events, texts)
  <2>1. handler[h].calls - 1 \in 0 .. ToolCallsMax
    BY <1>1, BoundsAssumption DEF HandlerOK, HandlerState
  <2>2. QED
    BY <1>1, <2>1 DEF HandlerOK, HandlerState, SessionOK
<1>4. HandlerOK(ok, events \cup {e}, texts)
  BY <1>3, ClaimsGrow
<1>5. Emit(h, action, item, ok, bad) /\ UNCHANGED <<sessionVars, texts>>
  BY DEF ToolCall
<1>6. handler[h].cand \in Candidates
  BY <1>1 DEF HandlerOK
<1> HIDE DEF ok, bad
<1>7. QED
  BY <1>2, <1>4, <1>5, <1>6, EmitFrame

LEMMA SaveCapturedFieldKeeps ==
    ASSUME IInv, NEW h \in Handlers, SaveCapturedField(h)
    PROVE  IInv'
<1>1. PICK f \in Fields :
          ToolCall(h, "saveCapturedField", "recruiting.field_captured", f,
                   [handler[h].sess EXCEPT !.captured = @ \cup {f}])
  BY DEF SaveCapturedField
<1> DEFINE s == [handler[h].sess EXCEPT !.captured = @ \cup {f}]
<1>2. SessionOK(handler[h].cand, handler[h].sess, events)
  BY <1>1 DEF IInv, HandlerOK, ToolCall, At
<1>3. s \in Session /\ Coherent(s) /\ s.cvReceived = handler[h].sess.cvReceived
  BY <1>2 DEF SessionOK, Session, Coherent
<1>4. ToolCall(h, "saveCapturedField", "recruiting.field_captured", f, s)
  BY <1>1
<1>5. "recruiting.field_captured" \in Actions
  BY DEF Actions
<1> HIDE DEF s
<1>6. QED
  BY <1>3, <1>4, <1>5, ToolCallKeeps

LEMMA MarkDataCompleteKeeps ==
    ASSUME IInv, NEW h \in Handlers, MarkDataComplete(h)
    PROVE  IInv'
<1> DEFINE s == [handler[h].sess EXCEPT
                    !.dataComplete = TRUE,
                    !.stage = IF handler[h].sess.cvReceived
                              THEN "awaiting_video" ELSE "awaiting_cv"]
<1>1. SessionOK(handler[h].cand, handler[h].sess, events)
  BY DEF IInv, HandlerOK, MarkDataComplete, ToolCall, At
<1>2. s \in Session /\ Coherent(s) /\ s.cvReceived = handler[h].sess.cvReceived
  BY <1>1 DEF SessionOK, Session, Stages, Coherent
<1>3. ToolCall(h, "markDataComplete", "recruiting.data_complete", None, s)
  BY DEF MarkDataComplete
<1>4. "recruiting.data_complete" \in Actions
  BY DEF Actions
<1> HIDE DEF s
<1>5. QED
  BY <1>2, <1>3, <1>4, ToolCallKeeps

LEMMA MarkInterviewAcceptedKeeps ==
    ASSUME IInv, NEW h \in Handlers, MarkInterviewAccepted(h)
    PROVE  IInv'
<1> DEFINE s == [handler[h].sess EXCEPT !.interviewAccepted = TRUE]
<1>1. SessionOK(handler[h].cand, handler[h].sess, events)
  BY DEF IInv, HandlerOK, MarkInterviewAccepted, ToolCall, At
<1>2. s \in Session /\ Coherent(s) /\ s.cvReceived = handler[h].sess.cvReceived
  BY <1>1 DEF SessionOK, Session, Coherent
<1>3. ToolCall(h, "markInterviewAccepted", "recruiting.interview_accepted",
               None, s)
  BY DEF MarkInterviewAccepted
<1>4. "recruiting.interview_accepted" \in Actions
  BY DEF Actions
<1> HIDE DEF s
<1>5. QED
  BY <1>2, <1>3, <1>4, ToolCallKeeps

LEMMA UselessToolCallKeeps ==
    ASSUME IInv, NEW h \in Handlers, UselessToolCall(h)
    PROVE  IInv'
<1> DEFINE r == [handler[h] EXCEPT !.calls = @ - 1]
<1>1. HandlerOK(r, events, texts)
  <2>1. /\ HandlerOK(handler[h], events, texts)
        /\ handler[h].pc = "tools" /\ handler[h].calls > 0
    BY DEF IInv, UselessToolCall, At
  <2>2. handler[h].calls - 1 \in 0 .. ToolCallsMax
    BY <2>1, BoundsAssumption DEF HandlerOK, HandlerState
  <2>3. QED
    BY <2>1, <2>2 DEF HandlerOK, HandlerState
<1>2. Becomes(h, r) /\ UNCHANGED <<sessionVars, crmVars>> /\ faulty' \in BOOLEAN
  BY DEF UselessToolCall, IInv, TypeOK
<1> HIDE DEF r
<1>3. QED
  BY <1>1, <1>2, LocalFrame

LEMMA EndRoundKeeps ==
    ASSUME IInv, NEW h \in Handlers, EndRound(h)
    PROVE  IInv'
<1> DEFINE s == handler[h].sess
           round == handler[h].round + 1
           request == [handler[h] EXCEPT
                          !.pc = "send", !.out = StageRequest(s).text,
                          !.sess = StageRequest(s).sess]
           agent == [handler[h] EXCEPT !.pc = "agent", !.round = round]
           save == [handler[h] EXCEPT !.pc = "save"]
<1>1. HandlerOK(handler[h], events, texts) /\ handler[h].pc = "tools"
  BY DEF IInv, EndRound, At
<1>2. ASSUME s.stage # "collecting_data"
      PROVE  HandlerOK(request, events, texts)
  <2>1. SessionOK(handler[h].cand, s, events)
    BY <1>1 DEF HandlerOK
  <2>2. CASE s.stage = "awaiting_cv"
    BY <1>1, <2>1, <2>2
       DEF HandlerOK, HandlerState, Points, Texts, SessionOK, Session,
           Coherent, StageRequest
  <2>3. CASE s.stage # "awaiting_cv"
    <3>1. s.cvReceived
      BY <1>2, <2>1, <2>3 DEF SessionOK, Session, Stages, Coherent
    <3>2. QED
      BY <1>1, <2>1, <2>3, <3>1
         DEF HandlerOK, HandlerState, Points, Texts, StageRequest
  <2>4. QED
    BY <2>2, <2>3
<1>3. ASSUME round < ToolRoundsMax
      PROVE  HandlerOK(agent, events, texts)
  <2>1. round \in 0 .. ToolRoundsMax
    BY <1>1, <1>3, BoundsAssumption DEF HandlerOK, HandlerState
  <2> HIDE DEF round
  <2>2. QED
    BY <1>1, <2>1 DEF HandlerOK, HandlerState, Points
<1>4. HandlerOK(save, events, texts)
  BY <1>1, SaveOK
<1>5. \/ s.stage # "collecting_data" /\ Becomes(h, request)
      \/ round < ToolRoundsMax /\ Becomes(h, agent)
      \/ Becomes(h, save)
  BY DEF EndRound, RoundDone, AnotherRound
<1>6. UNCHANGED <<sessionVars, crmVars>> /\ faulty' \in BOOLEAN
  BY DEF EndRound, IInv, TypeOK
<1> HIDE DEF request, agent, save
<1>7. QED
  BY <1>2, <1>3, <1>4, <1>5, <1>6, LocalFrame

LEMMA ReceiveMediaKeeps ==
    ASSUME IInv, NEW h \in Handlers, NEW m \in Media, ReceiveMedia(h, m)
    PROVE  IInv'
<1>1. PICK c \in Candidates :
          /\ IsSessionOfPhone(c, SenderOf[m])
          /\ Becomes(h, Entering("media", "reply", c, sessions[c], m))
  BY DEF ReceiveMedia
<1>2. SessionOK(c, sessions[c], events) /\ SenderOf[m] = PhoneOf[c]
  BY <1>1 DEF IInv, IsSessionOfPhone, IsActive
<1>3. HandlerOK(Entering("media", "reply", c, sessions[c], m), events, texts)
  BY <1>1, <1>2, EnteringOK
<1>4. UNCHANGED <<sessionVars, crmVars>> /\ faulty' \in BOOLEAN
  BY DEF ReceiveMedia, IInv, TypeOK
<1>5. QED
  BY <1>1, <1>3, <1>4, LocalFrame

LEMMA ProcessInboundMediaKeeps ==
    ASSUME IInv, NEW h \in Handlers, ProcessInboundMedia(h)
    PROVE  IInv'
<1> DEFINE s == handler[h].sess
           kind == KindOf[handler[h].media]
           save == [handler[h] EXCEPT !.pc = "save"]
           notice == [handler[h] EXCEPT !.pc = "send", !.out = "notice"]
           cv == [handler[h] EXCEPT !.pc = "cv"]
           video == [handler[h] EXCEPT !.pc = "video"]
<1>1. HandlerOK(handler[h], events, texts) /\ handler[h].pc = "media"
  BY DEF IInv, ProcessInboundMedia, At
<1>2. HandlerOK(save, events, texts) /\ HandlerOK(notice, events, texts)
  BY <1>1, SaveOK, NoticeOK
<1>3. ASSUME kind = "pdf"
      PROVE  HandlerOK(cv, events, texts)
  BY <1>1, <1>3 DEF HandlerOK, HandlerState, Points, OwnMedia
<1>4. ASSUME kind = "video", s.stage \in {"awaiting_video", "done"}
      PROVE  HandlerOK(video, events, texts)
  BY <1>1, <1>4 DEF HandlerOK, HandlerState, Points, OwnMedia, OwnVideo
<1>5. s.stage \in Stages
  BY <1>1 DEF HandlerOK, SessionOK, Session
<1>6. \/ Becomes(h, save) \/ Becomes(h, notice)
      \/ kind = "pdf" /\ Becomes(h, cv)
      \/ /\ kind = "video" /\ s.stage \in {"awaiting_video", "done"}
         /\ Becomes(h, video)
  BY <1>5 DEF ProcessInboundMedia, TakeMedia, WantsCv, Stages
<1>7. UNCHANGED <<sessionVars, crmVars>> /\ faulty' \in BOOLEAN
  BY DEF ProcessInboundMedia, IInv, TypeOK
<1> HIDE DEF save, notice, cv, video
<1>8. QED
  BY <1>2, <1>3, <1>4, <1>6, <1>7, LocalFrame

LEMMA StoreCvKeeps ==
    ASSUME IInv, NEW h \in Handlers, StoreCv(h)
    PROVE  IInv'
<1> DEFINE old == handler[h].sess
           m == handler[h].media
           e == [action |-> "recruiting.cv_received",
                 cand |-> handler[h].cand, item |-> m]
           s == [old EXCEPT !.cvReceived = TRUE]
           next == [s EXCEPT !.stage = "awaiting_video"]
           request == [handler[h] EXCEPT !.pc = "send",
                          !.out = "videoRequest", !.sess = next]
           agent == [handler[h] EXCEPT !.pc = "agent", !.sess = s]
           ok == IF s.stage = "awaiting_cv" THEN request ELSE agent
           bad == [handler[h] EXCEPT !.pc = "save"]
<1>1. /\ HandlerOK(handler[h], events, texts)
      /\ handler[h].pc = "cv"
  BY DEF IInv, StoreCv, At
<1>2. m \in Media /\ handler[h].cand \in Candidates
  BY <1>1 DEF HandlerOK, OwnMedia
<1>3. SessionOK(handler[h].cand, old, events)
  BY <1>1 DEF HandlerOK
<1>4. ASSUME old.stage = "awaiting_cv"
      PROVE  SessionOK(handler[h].cand, next, events \cup {e})
  BY <1>2, <1>3, <1>4 DEF SessionOK, Session, Stages, Coherent
<1>5. ASSUME old.stage # "awaiting_cv"
      PROVE  SessionOK(handler[h].cand, s, events \cup {e})
  BY <1>2, <1>3, <1>5 DEF SessionOK, Session, Coherent
<1>6. old \in Session /\ s.stage = old.stage /\ next.cvReceived
  BY <1>3 DEF SessionOK, Session
<1>7. HandlerOK(ok, events \cup {e}, texts)
  <2>1. CASE old.stage = "awaiting_cv"
    <3>1. next \in Session
      BY <1>4, <2>1 DEF SessionOK
    <3> HIDE DEF next, s
    <3>2. request \in HandlerState /\ request.cand = handler[h].cand
          /\ request.sess = next /\ request.pc = "send"
          /\ request.out = "videoRequest"
      BY <1>1, <3>1 DEF HandlerOK, HandlerState, Points, Texts
    <3> HIDE DEF request
    <3>3. HandlerOK(request, events \cup {e}, texts)
      BY <1>2, <1>4, <1>6, <2>1, <3>2 DEF HandlerOK, Texts
    <3>4. QED
      BY <1>6, <2>1, <3>3
  <2>2. CASE old.stage # "awaiting_cv"
    <3>1. s \in Session
      BY <1>5, <2>2 DEF SessionOK
    <3> HIDE DEF next, s
    <3>2. agent \in HandlerState /\ agent.cand = handler[h].cand
          /\ agent.sess = s /\ agent.pc = "agent"
      BY <1>1, <3>1 DEF HandlerOK, HandlerState, Points
    <3> HIDE DEF agent
    <3>3. HandlerOK(agent, events \cup {e}, texts)
      BY <1>2, <1>5, <2>2, <3>2 DEF HandlerOK
    <3>4. QED
      BY <1>6, <2>2, <3>3
  <2>3. QED
    BY <2>1, <2>2
<1>8. HandlerOK(bad, events, texts)
  BY <1>1, SaveOK
<1>9. /\ Emit(h, "recruiting.cv_received", m, ok, bad)
      /\ UNCHANGED <<sessionVars, texts>>
  BY DEF StoreCv
<1>10. "recruiting.cv_received" \in Actions
  BY DEF Actions
<1> HIDE DEF ok, bad
<1>11. QED
  BY <1>2, <1>7, <1>8, <1>9, <1>10, EmitFrame

LEMMA AcceptVideoKeeps ==
    ASSUME IInv, NEW h \in Handlers, AcceptVideo(h)
    PROVE  IInv'
<1> DEFINE old == handler[h].sess
           s == [old EXCEPT !.stage = "done"]
           r == [handler[h] EXCEPT !.pc = "send", !.out = "videoReceived",
                                   !.sess = s]
<1>1. HandlerOK(handler[h], events, texts) /\ handler[h].pc = "video"
  BY DEF IInv, AcceptVideo, At
<1>2. /\ SessionOK(handler[h].cand, old, events)
      /\ old.stage \in {"awaiting_video", "done"}
      /\ handler[h].cand \in Candidates
  BY <1>1 DEF HandlerOK
<1>3. SessionOK(handler[h].cand, s, events) /\ s.cvReceived /\ s \in Session
  BY <1>2 DEF SessionOK, Session, Stages, Coherent
<1> HIDE DEF s
<1>4. HandlerOK(r, events, texts)
  BY <1>1, <1>2, <1>3
     DEF HandlerOK, HandlerState, Points, Texts, OwnVideo, OwnMedia
<1>5. Becomes(h, r)
  BY DEF AcceptVideo, s
<1>6. UNCHANGED <<sessionVars, crmVars>> /\ faulty' \in BOOLEAN
  BY DEF AcceptVideo, IInv, TypeOK
<1> HIDE DEF r
<1>7. QED
  BY <1>4, <1>5, <1>6, LocalFrame

LEMMA ReportVideoKeeps ==
    ASSUME IInv, NEW h \in Handlers, ReportVideo(h)
    PROVE  IInv'
<1> DEFINE r == [handler[h] EXCEPT !.pc = "save"]
           e == [action |-> "recruiting.video_received",
                 cand |-> handler[h].cand, item |-> handler[h].media]
<1>1. HandlerOK(handler[h], events, texts) /\ handler[h].pc = "reportVideo"
  BY DEF IInv, ReportVideo, At
<1>2. HandlerOK(r, events, texts)
  BY <1>1, SaveOK
<1>3. HandlerOK(r, events \cup {e}, texts)
  BY <1>2, ClaimsGrow
<1>4. handler[h].media \in Media /\ handler[h].cand \in Candidates
  BY <1>1 DEF HandlerOK, OwnVideo, OwnMedia
<1>5. /\ Emit(h, "recruiting.video_received", handler[h].media, r, r)
      /\ UNCHANGED <<sessionVars, texts>>
  BY DEF ReportVideo
<1>6. "recruiting.video_received" \in Actions
  BY DEF Actions
<1> HIDE DEF r
<1>7. QED
  BY <1>2, <1>3, <1>4, <1>5, <1>6, EmitFrame

LEMMA StartCaptureKeeps ==
    ASSUME IInv, NEW h \in Handlers, NEW c \in Candidates,
           NEW prefilled \in SUBSET Fields, StartCapture(h, c, prefilled)
    PROVE  IInv'
<1> DEFINE complete == prefilled = Fields
           s == [stage |-> IF complete THEN "awaiting_cv"
                                       ELSE "collecting_data",
                 captured |-> prefilled,
                 dataComplete |-> complete,
                 interviewAccepted |-> FALSE,
                 cvReceived |-> FALSE,
                 cvRequested |-> FALSE]
           r == Entering("opening", "start", c, s, None)
<1>1. SessionOK(c, s, events)
  BY DEF SessionOK, Session, Stages, Coherent
<1> HIDE DEF s
<1>2. HandlerOK(r, events, texts)
  BY <1>1, EnteringOK
<1>3. Becomes(h, r) /\ UNCHANGED <<newer, events, texts, faulty>>
  BY DEF StartCapture, s
<1> HIDE DEF r
<1>4. \A d \in Candidates : sessions'[d] = sessions[d] \/ sessions'[d] = None
  BY DEF StartCapture, DeleteOthersOfPhone
<1>5. TypeOK'
  BY <1>2, <1>3
     DEF IInv, TypeOK, StartCapture, DeleteOthersOfPhone, Becomes, HandlerOK
<1>6. \A d \in Candidates :
          sessions'[d] # None => SessionOK(d, sessions'[d], events')
  BY <1>3, <1>4 DEF IInv
<1>7. \A g \in Handlers : HandlerOK(handler'[g], events', texts')
  BY <1>2, <1>3 DEF IInv, TypeOK, Becomes
<1>8. QED
  BY <1>5, <1>6, <1>7 DEF IInv

LEMMA SendSessionOpeningKeeps ==
    ASSUME IInv, NEW h \in Handlers, SendSessionOpening(h)
    PROVE  IInv'
<1> DEFINE r == [handler[h] EXCEPT !.pc = "save"]
<1>1. HandlerOK(handler[h], events, texts) /\ handler[h].pc = "opening"
  BY DEF IInv, SendSessionOpening, At
<1>2. events \subseteq events' /\ events' \subseteq EventSet
  BY <1>1 DEF SendSessionOpening, OpeningEvents, IInv, TypeOK, EventSet,
            HandlerOK, Actions
<1>3. texts' = texts /\ texts \subseteq Candidates \X Texts
  BY DEF SendSessionOpening, IInv, TypeOK
<1>4. HandlerOK(r, events', texts')
  BY <1>1, <1>2, <1>3, SaveOK, ClaimsGrow
<1>5. /\ Becomes(h, r) /\ UNCHANGED sessionVars /\ faulty' \in BOOLEAN
      /\ heard' \subseteq Candidates
  BY DEF SendSessionOpening, IInv, TypeOK
<1> HIDE DEF r
<1>6. QED
  BY <1>2, <1>3, <1>4, <1>5, Frame

LEMMA EndSessionForCandidateKeeps ==
    ASSUME IInv, NEW h \in Handlers, NEW c \in Candidates,
           EndSessionForCandidate(h, c)
    PROVE  IInv'
<1>1. \A d \in Candidates : sessions'[d] = sessions[d] \/ sessions'[d] = None
  BY DEF EndSessionForCandidate, IInv, TypeOK
<1>2. UNCHANGED <<newer, handler, events, texts, heard, faulty>>
  BY DEF EndSessionForCandidate, crmVars
<1>3. TypeOK'
  BY <1>2 DEF EndSessionForCandidate, IInv, TypeOK
<1>4. QED
  BY <1>1, <1>2, <1>3 DEF IInv

LEMMA CrashKeeps ==
    ASSUME IInv, Crash
    PROVE  IInv'
<1>1. UNCHANGED <<sessions, newer, events, texts, heard>> /\ faulty' = TRUE
  BY DEF Crash, sessionVars, crmVars
<1>2. TypeOK'
  BY <1>1, IdleOK DEF Crash, IInv, TypeOK, HandlerOK
<1>3. QED
  BY <1>1, <1>2, IdleOK DEF Crash, IInv

LEMMA NextKeeps == IInv /\ [Next]_vars => IInv'
<1> SUFFICES ASSUME IInv, [Next]_vars
             PROVE  IInv'
  OBVIOUS
<1>1. ASSUME NEW h \in Handlers, Arrival(h)
      PROVE  IInv'
  BY <1>1, ReceiveTextKeeps, ReceiveMediaKeeps, StartCaptureKeeps,
     EndSessionForCandidateKeeps
     DEF Arrival
<1>2. ASSUME NEW h \in Handlers, Progress(h)
      PROVE  IInv'
  BY <1>2, SaveSessionKeeps, CallRejectsKeeps, SendAssistantTextKeeps,
     ProcessInboundTextKeeps, AgentRepliesKeeps, AgentCallsToolsKeeps,
     SaveCapturedFieldKeeps, MarkDataCompleteKeeps,
     MarkInterviewAcceptedKeeps, UselessToolCallKeeps, EndRoundKeeps,
     ProcessInboundMediaKeeps, StoreCvKeeps, AcceptVideoKeeps,
     ReportVideoKeeps, SendSessionOpeningKeeps
     DEF Progress
<1>3. CASE Crash
  BY <1>3, CrashKeeps
<1>4. CASE UNCHANGED vars
  BY <1>4 DEF IInv, TypeOK, vars, sessionVars, crmVars
<1>5. QED
  BY <1>1, <1>2, <1>3, <1>4 DEF Next

\* The strengthening of the safety invariants holds in every behaviour.
THEOREM Invariance == Spec => []IInv
BY InitOK, NextKeeps, PTL DEF Spec

\* Every variable keeps its type: what is stored and what each handler holds.
THEOREM TypeCorrect == Spec => []TypeOK
<1>1. IInv => TypeOK
  BY DEF IInv
<1>2. QED
  BY Invariance, <1>1, PTL

\* The stage of every stored session agrees with its flags, for any number of
\* overlapping handlers and any failures (saveSession, executeTool).
THEOREM SessionsAreCoherent == Spec => []SessionsCoherent
<1>1. IInv => SessionsCoherent
  BY DEF IInv, SessionsCoherent, SessionOK
<1>2. QED
  BY Invariance, <1>1, PTL

\* A session that has its CV has been reported to the CRM (storeCvMedia).
THEOREM CvIsKnownToCrm == Spec => []CvKnownToCrm
<1>1. IInv => CvKnownToCrm
  BY DEF IInv, CvKnownToCrm, SessionOK, Reports!CvReported, Reports!Event
<1>2. QED
  BY Invariance, <1>1, PTL

-----------------------------------------------------------------------------
(* The refinement: every step of the capture is a step of CandidateReports *)
(* or leaves events and texts alone.                                       *)

AbstractStep == [Reports!Next]_<<events, texts>>

LEMMA InitRefines == Init => Reports!Init
BY DEF Init, Reports!Init

\* Delivering the text of a handler is a step of the abstract specification.
LEMMA DeliverRefines ==
    ASSUME IInv, NEW h \in Handlers, At(h, "send"), Deliver(h),
           UNCHANGED events
    PROVE  AbstractStep
<1> DEFINE c == handler[h].cand
           t == handler[h].out
<1>1. HandlerOK(handler[h], events, texts) /\ handler[h].pc = "send"
  BY DEF IInv, At
<1>2. CASE t = "notice"
  BY <1>2 DEF Deliver, AbstractStep
<1>3. CASE t # "notice"
  <2>1. c \in Candidates /\ t \in {"cvRequest", "videoRequest", "videoReceived"}
    BY <1>1, <1>3 DEF HandlerOK, Texts
  <2>2. t \in {"videoRequest", "videoReceived"} => Reports!CvReported(c)
    BY <1>1 DEF HandlerOK, SessionOK, Reports!CvReported, Reports!Event
  <2>3. Reports!SendText(c, t)
    BY <1>3, <2>2 DEF Deliver, Reports!SendText
  <2>4. QED
    BY <2>1, <2>3 DEF Reports!Next, AbstractStep
<1>4. QED
  BY <1>2, <1>3

\* So is an emission, if the abstract specification allows its event now.
LEMMA EmitRefines ==
    ASSUME NEW h \in Handlers, NEW action, NEW item, NEW ok, NEW bad,
           Emit(h, action, item, ok, bad), UNCHANGED texts,
           Reports!Emit(action, handler[h].cand, item) => AbstractStep
    PROVE  AbstractStep
<1>1. CASE UNCHANGED events
  BY <1>1 DEF AbstractStep
<1>2. CASE events' = events \cup
             {[action |-> action, cand |-> handler[h].cand, item |-> item]}
  BY <1>2 DEF Reports!Emit, Reports!Event
<1>3. QED
  BY <1>1, <1>2 DEF Emit, Tells

LEMMA ToolsRefine ==
    ASSUME IInv, NEW h \in Handlers,
           \/ SaveCapturedField(h)
           \/ MarkDataComplete(h)
           \/ MarkInterviewAccepted(h)
    PROVE  AbstractStep
<1> DEFINE c == handler[h].cand
<1>1. c \in Candidates
  BY DEF IInv, HandlerOK, SaveCapturedField, MarkDataComplete,
         MarkInterviewAccepted, ToolCall, At
<1>2. CASE SaveCapturedField(h)
  <2>1. PICK f \in Fields :
          ToolCall(h, "saveCapturedField", "recruiting.field_captured", f,
                   [handler[h].sess EXCEPT !.captured = @ \cup {f}])
    BY <1>2 DEF SaveCapturedField
  <2>2. Reports!Emit("recruiting.field_captured", c, f) => AbstractStep
    BY <1>1 DEF Reports!FieldCaptured, Reports!Next, AbstractStep
  <2>3. QED
    BY <2>1, <2>2, EmitRefines DEF ToolCall
<1>3. CASE MarkDataComplete(h)
  <2>1. Reports!Emit("recruiting.data_complete", c, None) => AbstractStep
    BY <1>1 DEF Reports!DataComplete, Reports!Next, AbstractStep
  <2>2. QED
    BY <1>3, <2>1, EmitRefines DEF MarkDataComplete, ToolCall
<1>4. CASE MarkInterviewAccepted(h)
  <2>1. Reports!Emit("recruiting.interview_accepted", c, None) => AbstractStep
    BY <1>1 DEF Reports!InterviewAccepted, Reports!Next, AbstractStep
  <2>2. QED
    BY <1>4, <2>1, EmitRefines DEF MarkInterviewAccepted, ToolCall
<1>5. QED
  BY <1>2, <1>3, <1>4

LEMMA StoreCvRefines ==
    ASSUME IInv, NEW h \in Handlers, StoreCv(h)
    PROVE  AbstractStep
<1> DEFINE c == handler[h].cand
           m == handler[h].media
<1>1. /\ c \in Candidates /\ m \in Media
      /\ KindOf[m] = "pdf" /\ SenderOf[m] = PhoneOf[c]
  BY DEF IInv, HandlerOK, OwnMedia, StoreCv, At
<1>2. Reports!Emit("recruiting.cv_received", c, m) => AbstractStep
  BY <1>1 DEF Reports!CvReceived, Reports!Next, AbstractStep
<1>3. QED
  BY <1>2, EmitRefines DEF StoreCv

LEMMA ReportVideoRefines ==
    ASSUME IInv, NEW h \in Handlers, ReportVideo(h)
    PROVE  AbstractStep
<1> DEFINE c == handler[h].cand
           m == handler[h].media
<1>1. HandlerOK(handler[h], events, texts) /\ handler[h].pc = "reportVideo"
  BY DEF IInv, ReportVideo, At
<1>2. /\ c \in Candidates /\ m \in Media
      /\ KindOf[m] = "video" /\ SenderOf[m] = PhoneOf[c]
      /\ <<c, "videoReceived">> \in texts
  BY <1>1 DEF HandlerOK, OwnVideo, OwnMedia
<1>3. Reports!CvReported(c)
  BY <1>1 DEF HandlerOK, SessionOK, Reports!CvReported, Reports!Event
<1>4. Reports!Emit("recruiting.video_received", c, m) => AbstractStep
  BY <1>2, <1>3 DEF Reports!VideoReceived, Reports!Next, AbstractStep
<1>5. QED
  BY <1>4, EmitRefines DEF ReportVideo

\* Only the report of prefilled data goes through sendSessionOpening.
LEMMA OpeningRefines ==
    ASSUME IInv, NEW h \in Handlers, At(h, "opening"),
           events' = OpeningEvents(h), UNCHANGED texts
    PROVE  AbstractStep
<1>1. handler[h].cand \in Candidates
  BY DEF IInv, HandlerOK, At
<1>2. CASE UNCHANGED events
  BY <1>2 DEF AbstractStep
<1>3. CASE Reports!DataComplete(handler[h].cand)
  BY <1>1, <1>3 DEF Reports!Next, AbstractStep
<1>4. QED
  BY <1>2, <1>3
     DEF OpeningEvents, Reports!DataComplete, Reports!Emit, Reports!Event

LEMMA CallRejectsRefines ==
    ASSUME IInv, NEW h \in Handlers, CallRejects(h)
    PROVE  AbstractStep
<1>1. CASE UNCHANGED <<events, texts>>
  BY <1>1 DEF AbstractStep
<1>2. CASE At(h, "send") /\ Deliver(h)
  <2>1. UNCHANGED events
    BY <1>2 DEF CallRejects, At
  <2>2. QED
    BY <1>2, <2>1, DeliverRefines
<1>3. CASE At(h, "opening") /\ events' = OpeningEvents(h)
  <2>1. UNCHANGED texts
    BY <1>3 DEF CallRejects, At
  <2>2. QED
    BY <1>3, <2>1, OpeningRefines
<1>4. QED
  BY <1>1, <1>2, <1>3 DEF CallRejects

LEMMA NextRefines == IInv /\ [Next]_vars => AbstractStep
<1> SUFFICES ASSUME IInv, [Next]_vars
             PROVE  AbstractStep
  OBVIOUS
<1>1. ASSUME NEW h \in Handlers, Arrival(h)
      PROVE  AbstractStep
  BY <1>1 DEF Arrival, ReceiveText, ReceiveMedia, StartCapture,
              EndSessionForCandidate, crmVars, AbstractStep
<1>2. ASSUME NEW h \in Handlers, Progress(h)
      PROVE  AbstractStep
  <2>1. CASE \/ SaveSession(h) \/ ProcessInboundText(h) \/ AgentReplies(h)
             \/ AgentCallsTools(h) \/ UselessToolCall(h) \/ EndRound(h)
             \/ ProcessInboundMedia(h) \/ AcceptVideo(h)
    <3>1. UNCHANGED crmVars
      BY <2>1 DEF SaveSession, ProcessInboundText, AgentReplies,
                  AgentCallsTools, UselessToolCall, EndRound,
                  ProcessInboundMedia, AcceptVideo
    <3>2. QED
      BY <3>1 DEF crmVars, AbstractStep
  <2>2. CASE CallRejects(h)
    BY <2>2, CallRejectsRefines
  <2>3. CASE SendAssistantText(h)
    BY <2>3, DeliverRefines DEF SendAssistantText
  <2>4. CASE \/ SaveCapturedField(h)
             \/ MarkDataComplete(h)
             \/ MarkInterviewAccepted(h)
    BY <2>4, ToolsRefine
  <2>5. CASE StoreCv(h)
    BY <2>5, StoreCvRefines
  <2>6. CASE ReportVideo(h)
    BY <2>6, ReportVideoRefines
  <2>7. CASE SendSessionOpening(h)
    BY <2>7, OpeningRefines DEF SendSessionOpening
  <2>8. QED
    BY <1>2, <2>1, <2>2, <2>3, <2>4, <2>5, <2>6, <2>7 DEF Progress
<1>3. CASE Crash
  BY <1>3 DEF Crash, crmVars, AbstractStep
<1>4. CASE UNCHANGED vars
  BY <1>4 DEF vars, crmVars, AbstractStep
<1>5. QED
  BY <1>1, <1>2, <1>3, <1>4 DEF Next

\* The capture implements CandidateReports: whatever overlaps, rejects or is
\* cut off, the CRM gets a CV only from a PDF of the candidate's number and a
\* video only after the CV and the thanks (storeCvMedia, processVideoMedia).
THEOREM CaptureImplementsReports == Spec => ImplementsReports
<1>1. IInv /\ [Next]_vars => [Reports!Next]_<<events, texts>>
  BY NextRefines DEF AbstractStep
<1>2. QED
  BY Invariance, InitRefines, <1>1, PTL DEF Spec, ImplementsReports, Reports!Spec

\* What the CRM and the candidate were told is in order: a CV is a PDF of the
\* candidate's number; a video is one too, and comes after the CV and the
\* thanks; nothing about videos is written before the CV was reported.
ToldInOrder ==
    \A c \in Candidates :
        /\ \A m \in Media :
              /\ Reports!Event("recruiting.cv_received", c, m) \in events
                    => KindOf[m] = "pdf" /\ SenderOf[m] = PhoneOf[c]
              /\ Reports!Event("recruiting.video_received", c, m) \in events
                    => /\ KindOf[m] = "video" /\ SenderOf[m] = PhoneOf[c]
                       /\ Reports!CvReported(c)
                       /\ <<c, "videoReceived">> \in texts
        /\ \A t \in {"videoRequest", "videoReceived"} :
              <<c, t>> \in texts => Reports!CvReported(c)

\* A CRM that acts on recruiting.video_received, which is when it sends the link
\* to the interview, acts for a candidate whose CV it has, whatever overlapped,
\* failed or was cut off (storeCvMedia, processVideoMedia).
THEOREM ReportsAreInOrder == Spec => []ToldInOrder
<1>1. Reports!Init => ToldInOrder
  BY DEF Reports!Init, ToldInOrder
<1>2. ToldInOrder /\ [Reports!Next]_<<events, texts>> => ToldInOrder'
  <2> SUFFICES ASSUME ToldInOrder, [Reports!Next]_<<events, texts>>
               PROVE  ToldInOrder'
    OBVIOUS
  <2>1. CASE UNCHANGED <<events, texts>>
    BY <2>1 DEF ToldInOrder, Reports!CvReported
  <2>2. ASSUME NEW action, NEW c, NEW item, Reports!Emit(action, c, item),
               action = "recruiting.cv_received"
                   => KindOf[item] = "pdf" /\ SenderOf[item] = PhoneOf[c],
               action = "recruiting.video_received"
                   => /\ KindOf[item] = "video" /\ SenderOf[item] = PhoneOf[c]
                      /\ Reports!CvReported(c)
                      /\ <<c, "videoReceived">> \in texts
        PROVE  ToldInOrder'
    <3>1. events' = events \cup {Reports!Event(action, c, item)}
          /\ UNCHANGED texts
      BY <2>2 DEF Reports!Emit
    <3>2. \A d : Reports!CvReported(d) => Reports!CvReported(d)'
      BY <3>1 DEF Reports!CvReported
    <3>3. \A a, d, m : Reports!Event(a, d, m) \in events'
              => \/ Reports!Event(a, d, m) \in events
                 \/ a = action /\ d = c /\ m = item
      BY <3>1 DEF Reports!Event
    <3>4. ASSUME NEW d \in Candidates, NEW m \in Media,
                 Reports!Event("recruiting.cv_received", d, m) \in events'
          PROVE  KindOf[m] = "pdf" /\ SenderOf[m] = PhoneOf[d]
      <4>1. CASE Reports!Event("recruiting.cv_received", d, m) \in events
        BY <4>1 DEF ToldInOrder
      <4>2. CASE action = "recruiting.cv_received" /\ d = c /\ m = item
        BY <2>2, <4>2
      <4>3. QED
        BY <3>3, <3>4, <4>1, <4>2
    <3>5. ASSUME NEW d \in Candidates, NEW m \in Media,
                 Reports!Event("recruiting.video_received", d, m) \in events'
          PROVE  /\ KindOf[m] = "video" /\ SenderOf[m] = PhoneOf[d]
                 /\ Reports!CvReported(d) /\ <<d, "videoReceived">> \in texts
      <4>1. CASE Reports!Event("recruiting.video_received", d, m) \in events
        BY <4>1 DEF ToldInOrder
      <4>2. CASE action = "recruiting.video_received" /\ d = c /\ m = item
        BY <2>2, <4>2
      <4>3. QED
        BY <3>3, <3>5, <4>1, <4>2
    <3>6. QED
      BY <3>1, <3>2, <3>4, <3>5 DEF ToldInOrder
  <2>3. ASSUME NEW c \in Candidates, NEW t, Reports!SendText(c, t)
        PROVE  ToldInOrder'
    BY <2>3 DEF Reports!SendText, ToldInOrder, Reports!CvReported
  <2>4. ASSUME NEW c \in Candidates, NEW m \in Media,
               Reports!CvReceived(c, m) \/ Reports!VideoReceived(c, m)
        PROVE  ToldInOrder'
    <3>1. CASE Reports!CvReceived(c, m)
      <4>1. Reports!Emit("recruiting.cv_received", c, m)
            /\ KindOf[m] = "pdf" /\ SenderOf[m] = PhoneOf[c]
        BY <3>1 DEF Reports!CvReceived
      <4>2. QED
        BY <2>2, <4>1
    <3>2. CASE Reports!VideoReceived(c, m)
      <4>1. /\ Reports!Emit("recruiting.video_received", c, m)
            /\ KindOf[m] = "video" /\ SenderOf[m] = PhoneOf[c]
            /\ Reports!CvReported(c) /\ <<c, "videoReceived">> \in texts
        BY <3>2 DEF Reports!VideoReceived
      <4>2. QED
        BY <2>2, <4>1
    <3>3. QED
      BY <2>4, <3>1, <3>2
  <2>5. ASSUME NEW c \in Candidates,
               \/ \E f \in Fields : Reports!FieldCaptured(c, f)
               \/ Reports!DataComplete(c) \/ Reports!InterviewAccepted(c)
        PROVE  ToldInOrder'
    BY <2>2, <2>5
       DEF Reports!FieldCaptured, Reports!DataComplete, Reports!InterviewAccepted
  <2>6. QED
    BY <2>1, <2>3, <2>4, <2>5 DEF Reports!Next
<1>3. QED
  BY <1>1, <1>2, CaptureImplementsReports, PTL
     DEF ImplementsReports, Reports!Spec

-----------------------------------------------------------------------------
(* As long as nothing fails.                                               *)

VideoIn(c, ev) ==
    \E m \in Media :
        [action |-> "recruiting.video_received", cand |-> c, item |-> m] \in ev

Sending(r, text) == r.pc = "send" /\ r.out = text

\* What the local state r claims without the event or text that backs it yet.
QuietOK(r, ev, tx) ==
    LET c == r.cand
        s == r.sess
        In(action) == [action |-> action, cand |-> c, item |-> None] \in ev
    IN  r.pc # "idle" =>
        /\ s.stage = "done" => \/ VideoIn(c, ev)
                               \/ Sending(r, "videoReceived")
                               \/ r.pc = "reportVideo"
        /\ s.dataComplete => In("recruiting.data_complete") \/ r.pc = "opening"
        /\ s.interviewAccepted => In("recruiting.interview_accepted")
        /\ s.cvRequested => <<c, "cvRequest">> \in tx \/ Sending(r, "cvRequest")
        /\ s.stage = "awaiting_video" => \/ <<c, "videoRequest">> \in tx
                                         \/ Sending(r, "videoRequest")
                                         \/ r.pc = "tools"
        /\ s.stage = "done" => \/ <<c, "videoReceived">> \in tx
                               \/ Sending(r, "videoReceived")

\* The claims of a session at rest: those of a handler about to save it.
StoredOK(c, s, ev, tx) ==
    QuietOK(Entering("save", "none", c, s, None), ev, tx)

QInv ==
    ~faulty =>
        /\ \A c \in Candidates :
              sessions[c] # None => StoredOK(c, sessions[c], events, texts)
        /\ \A h \in Handlers : QuietOK(handler[h], events, texts)

-----------------------------------------------------------------------------

LEMMA QuietGrows ==
    ASSUME NEW ev1, NEW ev2, ev1 \subseteq ev2,
           NEW tx1, NEW tx2, tx1 \subseteq tx2,
           NEW r, QuietOK(r, ev1, tx1)
    PROVE  QuietOK(r, ev2, tx2)
<1>1. \A c : VideoIn(c, ev1) => VideoIn(c, ev2)
  BY DEF VideoIn
<1>2. QED
  BY <1>1 DEF QuietOK

\* StoredOK, spelled out.
LEMMA StoredMeans ==
    ASSUME NEW c, NEW s, NEW ev, NEW tx
    PROVE  StoredOK(c, s, ev, tx) <=>
             /\ s.stage = "done" =>
                   VideoIn(c, ev) /\ <<c, "videoReceived">> \in tx
             /\ s.dataComplete =>
                   [action |-> "recruiting.data_complete", cand |-> c,
                    item |-> None] \in ev
             /\ s.interviewAccepted =>
                   [action |-> "recruiting.interview_accepted", cand |-> c,
                    item |-> None] \in ev
             /\ s.cvRequested => <<c, "cvRequest">> \in tx
             /\ s.stage = "awaiting_video" => <<c, "videoRequest">> \in tx
BY DEF StoredOK, QuietOK, Entering, Sending

\* A handler that is not in the middle of a claim claims what is stored, and
\* one that enters with a stored session is not ahead.
LEMMA SettledMeans ==
    ASSUME NEW r, NEW ev, NEW tx,
           r.pc \in {"text", "agent", "media", "cv", "video", "save"}
    PROVE  QuietOK(r, ev, tx) <=> StoredOK(r.cand, r.sess, ev, tx)
BY StoredMeans DEF QuietOK, Sending

\* A step of h to r keeps the invariant if r claims no more than it may.
LEMMA QuietFrame ==
    ASSUME IInv, QInv, ~faulty, NEW h \in Handlers, NEW r, Becomes(h, r),
           QuietOK(r, events', texts'),
           events \subseteq events', texts \subseteq texts',
           UNCHANGED sessionVars
    PROVE  QInv'
<1>1. \A c \in Candidates :
          sessions'[c] # None => StoredOK(c, sessions'[c], events', texts')
  BY QuietGrows DEF QInv, StoredOK, sessionVars
<1>2. ASSUME NEW g \in Handlers
      PROVE  QuietOK(handler'[g], events', texts')
  <2>1. CASE g = h
    BY <2>1 DEF IInv, TypeOK, Becomes
  <2>2. CASE g # h
    <3>1. handler'[g] = handler[g]
      BY <2>2 DEF IInv, TypeOK, Becomes
    <3>2. QuietOK(handler[g], events, texts)
      BY DEF QInv
    <3>3. QED
      BY <3>1, <3>2, QuietGrows
  <2>3. QED
    BY <2>1, <2>2
<1>3. QED
  BY <1>1, <1>2 DEF QInv

LEMMA QuietInit == Init => QInv
BY DEF Init, QInv, QuietOK, Idle, Entering

LEMMA FaultStays ==
    ASSUME [Next]_vars, faulty
    PROVE  faulty'
BY DEF Next, Arrival, Progress, vars, sessionVars, crmVars,
       SaveSession, CallRejects, SendAssistantText, ReceiveText,
       ProcessInboundText, AgentReplies, AgentCallsTools,
       SaveCapturedField, MarkDataComplete, MarkInterviewAccepted,
       UselessToolCall, EndRound, ReceiveMedia, ProcessInboundMedia, StoreCv,
       AcceptVideo, ReportVideo, StartCapture, SendSessionOpening,
       EndSessionForCandidate, Crash, ToolCall, Emit

-----------------------------------------------------------------------------
(* One lemma per action that does not set faulty.                          *)

LEMMA QuietSave ==
    ASSUME IInv, QInv, ~faulty, ~faulty', NEW h \in Handlers, SaveSession(h)
    PROVE  QInv'
<1> DEFINE c == handler[h].cand
           s == handler[h].sess
<1>1. StoredOK(c, s, events, texts) /\ c \in Candidates
  <2>1. handler[h].pc = "save" /\ c \in Candidates
    BY DEF SaveSession, At, IInv, HandlerOK
  <2>2. QuietOK(handler[h], events, texts)
    BY DEF QInv
  <2>3. QED
    BY <2>1, <2>2, SettledMeans
<1>2. sessions' = [sessions EXCEPT ![c] = s] /\ UNCHANGED <<events, texts>>
  BY DEF SaveSession, Upsert, crmVars
<1>3. \A d \in Candidates :
          sessions'[d] # None => StoredOK(d, sessions'[d], events', texts')
  <2> HIDE DEF c, s
  <2>1. QED
    BY <1>1, <1>2 DEF QInv, IInv, TypeOK
<1>4. \A g \in Handlers : QuietOK(handler'[g], events', texts')
  <2>1. ASSUME NEW g \in Handlers
        PROVE  handler'[g] = handler[g] \/ handler'[g] = Idle
    BY DEF SaveSession, Becomes, IInv, TypeOK
  <2>2. QuietOK(Idle, events, texts)
    BY DEF QuietOK, Idle, Entering
  <2>3. QED
    BY <1>2, <2>1, <2>2 DEF QInv
<1>5. QED
  BY <1>3, <1>4 DEF QInv

LEMMA QuietSend ==
    ASSUME IInv, QInv, ~faulty, NEW h \in Handlers, SendAssistantText(h)
    PROVE  QInv'
<1> DEFINE r == [handler[h] EXCEPT !.pc = AfterSending(handler[h].out)]
<1>1. /\ handler[h] \in HandlerState /\ handler[h].pc = "send"
      /\ QuietOK(handler[h], events, texts)
  BY DEF IInv, HandlerOK, QInv, SendAssistantText, At
<1>2. /\ texts \subseteq texts'
      /\ handler[h].out # "notice" =>
            <<handler[h].cand, handler[h].out>> \in texts'
      /\ events' = events /\ UNCHANGED sessionVars /\ Becomes(h, r)
  BY DEF SendAssistantText, Deliver
<1>3. QuietOK(handler[h], events', texts')
  BY <1>1, <1>2, QuietGrows
<1>4. QuietOK(r, events', texts')
  BY <1>1, <1>2, <1>3
     DEF QuietOK, Sending, AfterSending, HandlerState
<1> HIDE DEF r
<1>5. QED
  BY <1>2, <1>4, QuietFrame

LEMMA QuietReceive ==
    ASSUME IInv, QInv, ~faulty, NEW h \in Handlers,
           \/ \E phone \in Phones : ReceiveText(h, phone)
           \/ \E m \in Media : ReceiveMedia(h, m)
    PROVE  QInv'
<1>1. PICK c \in Candidates, point \in {"text", "media"},
           m \in Media \cup {None} :
             /\ sessions[c] # None
             /\ Becomes(h, Entering(point, "reply", c, sessions[c], m))
  BY DEF ReceiveText, ReceiveMedia, IsSessionOfPhone, IsActive
<1>2. UNCHANGED <<sessionVars, events, texts>>
  BY DEF ReceiveText, ReceiveMedia, crmVars
<1>3. StoredOK(c, sessions[c], events, texts)
  BY <1>1 DEF QInv
<1> DEFINE r == Entering(point, "reply", c, sessions[c], m)
<1>4. QuietOK(r, events, texts)
  BY <1>1, <1>3, SettledMeans DEF Entering
<1> HIDE DEF r
<1>5. QED
  BY <1>1, <1>2, <1>4, QuietFrame DEF r

LEMMA QuietProcessText ==
    ASSUME IInv, QInv, ~faulty, NEW h \in Handlers, ProcessInboundText(h)
    PROVE  QInv'
<1>1. /\ handler[h] \in HandlerState /\ handler[h].pc = "text"
      /\ handler[h].sess \in Session
      /\ QuietOK(handler[h], events, texts)
  BY DEF IInv, HandlerOK, SessionOK, QInv, ProcessInboundText, At
<1>2. PICK r : Becomes(h, r) /\ QuietOK(r, events, texts)
  <2> DEFINE Notice  == [handler[h] EXCEPT !.pc = "send", !.out = "notice"]
             Request == [handler[h] EXCEPT !.pc = "send", !.out = "cvRequest",
                                           !.sess.cvRequested = TRUE]
             Agent   == [handler[h] EXCEPT !.pc = "agent"]
  <2>1. QuietOK(Notice, events, texts) /\ QuietOK(Agent, events, texts)
    BY <1>1 DEF QuietOK, Sending, HandlerState
  <2>2. QuietOK(Request, events, texts)
    BY <1>1 DEF QuietOK, Sending, HandlerState, Session
  <2>3. Becomes(h, Notice) \/ Becomes(h, Request) \/ Becomes(h, Agent)
    BY DEF ProcessInboundText
  <2> HIDE DEF Notice, Request, Agent
  <2>4. QED
    BY <2>1, <2>2, <2>3
<1>3. UNCHANGED <<sessionVars, events, texts>>
  BY DEF ProcessInboundText, crmVars
<1>4. QED
  BY <1>2, <1>3, QuietFrame

LEMMA QuietAgent ==
    ASSUME IInv, QInv, ~faulty, NEW h \in Handlers,
           AgentReplies(h) \/ AgentCallsTools(h)
    PROVE  QInv'
<1>1. /\ handler[h] \in HandlerState /\ handler[h].pc = "agent"
      /\ QuietOK(handler[h], events, texts)
  BY DEF IInv, HandlerOK, QInv, AgentReplies, AgentCallsTools, At
<1>2. PICK r : Becomes(h, r) /\ QuietOK(r, events, texts)
  <2> DEFINE Notice == [handler[h] EXCEPT !.pc = "send", !.out = "notice"]
             Save   == [handler[h] EXCEPT !.pc = "save"]
             Calls(n) == [handler[h] EXCEPT !.pc = "tools", !.calls = n]
  <2>1. /\ QuietOK(Notice, events, texts) /\ QuietOK(Save, events, texts)
        /\ \A n : QuietOK(Calls(n), events, texts)
    BY <1>1 DEF QuietOK, Sending, HandlerState
  <2>2. Becomes(h, Notice) \/ Becomes(h, Save) \/ \E n : Becomes(h, Calls(n))
    BY DEF AgentReplies, AgentCallsTools
  <2> HIDE DEF Notice, Save, Calls
  <2>3. QED
    BY <2>1, <2>2
<1>3. UNCHANGED <<sessionVars, events, texts>>
  BY DEF AgentReplies, AgentCallsTools, crmVars
<1>4. QED
  BY <1>2, <1>3, QuietFrame

\* A tool call that is not rejected: its claim is backed by its event.
LEMMA QuietToolCall ==
    ASSUME IInv, QInv, ~faulty, ~faulty', NEW h \in Handlers,
           NEW name, NEW action, NEW item, NEW s \in Session,
           ToolCall(h, name, action, item, s),
           QuietOK([handler[h] EXCEPT !.sess = s, !.calls = @ - 1],
                   events', texts)
    PROVE  QInv'
<1> DEFINE r == [handler[h] EXCEPT !.sess = s, !.calls = @ - 1]
<1>1. /\ Becomes(h, r) /\ events \subseteq events'
      /\ UNCHANGED <<sessionVars, texts>>
  BY DEF ToolCall, Emit, Tells
<1> HIDE DEF r
<1>2. QED
  BY <1>1, QuietFrame DEF r

LEMMA QuietTools ==
    ASSUME IInv, QInv, ~faulty, ~faulty', NEW h \in Handlers,
           \/ SaveCapturedField(h)
           \/ MarkDataComplete(h)
           \/ MarkInterviewAccepted(h)
    PROVE  QInv'
<1> DEFINE c == handler[h].cand
           s == handler[h].sess
           After(x) == [handler[h] EXCEPT !.sess = x, !.calls = @ - 1]
<1>1. /\ handler[h] \in HandlerState /\ handler[h].pc = "tools"
      /\ s \in Session /\ QuietOK(handler[h], events, texts)
  BY DEF IInv, HandlerOK, SessionOK, QInv, SaveCapturedField,
         MarkDataComplete, MarkInterviewAccepted, ToolCall, At
<1>2. CASE SaveCapturedField(h)
  <2>1. PICK f \in Fields :
          ToolCall(h, "saveCapturedField", "recruiting.field_captured", f,
                   [s EXCEPT !.captured = @ \cup {f}])
    BY <1>2 DEF SaveCapturedField
  <2> DEFINE t == [s EXCEPT !.captured = @ \cup {f}]
  <2>2. t \in Session
    BY <1>1 DEF Session
  <2>3. events \subseteq events'
    BY <2>1 DEF ToolCall, Emit, Tells
  <2>4. QuietOK(handler[h], events', texts)
    BY <1>1, <2>3, QuietGrows
  <2>5. QuietOK(After(t), events', texts)
    BY <1>1, <2>4 DEF QuietOK, Sending, HandlerState, Session
  <2>6. QED
    BY <2>1, <2>2, <2>5, QuietToolCall
<1>3. CASE MarkDataComplete(h)
  <2> DEFINE t == [s EXCEPT
                     !.dataComplete = TRUE,
                     !.stage = IF s.cvReceived
                               THEN "awaiting_video" ELSE "awaiting_cv"]
  <2>1. ToolCall(h, "markDataComplete", "recruiting.data_complete", None, t)
    BY <1>3 DEF MarkDataComplete
  <2>2. t \in Session
    BY <1>1 DEF Session, Stages
  <2>3. events' = events \cup {[action |-> "recruiting.data_complete",
                                cand |-> c, item |-> None]}
    BY <2>1 DEF ToolCall, Emit, Tells
  <2>4. QuietOK(handler[h], events', texts)
    BY <1>1, <2>3, QuietGrows
  <2>5. QuietOK(After(t), events', texts)
    BY <1>1, <2>3, <2>4 DEF QuietOK, Sending, HandlerState, Session
  <2>6. QED
    BY <2>1, <2>2, <2>5, QuietToolCall
<1>4. CASE MarkInterviewAccepted(h)
  <2> DEFINE t == [s EXCEPT !.interviewAccepted = TRUE]
  <2>1. ToolCall(h, "markInterviewAccepted",
                 "recruiting.interview_accepted", None, t)
    BY <1>4 DEF MarkInterviewAccepted
  <2>2. t \in Session
    BY <1>1 DEF Session
  <2>3. events' = events \cup {[action |-> "recruiting.interview_accepted",
                                cand |-> c, item |-> None]}
    BY <2>1 DEF ToolCall, Emit, Tells
  <2>4. QuietOK(handler[h], events', texts)
    BY <1>1, <2>3, QuietGrows
  <2>5. QuietOK(After(t), events', texts)
    BY <1>1, <2>3, <2>4 DEF QuietOK, Sending, HandlerState, Session
  <2>6. QED
    BY <2>1, <2>2, <2>5, QuietToolCall
<1>5. QED
  BY <1>2, <1>3, <1>4

LEMMA QuietUseless ==
    ASSUME IInv, QInv, ~faulty, NEW h \in Handlers, UselessToolCall(h)
    PROVE  QInv'
<1> DEFINE r == [handler[h] EXCEPT !.calls = @ - 1]
<1>1. handler[h] \in HandlerState /\ QuietOK(handler[h], events, texts)
  BY DEF IInv, HandlerOK, QInv
<1>2. QuietOK(r, events, texts)
  BY <1>1 DEF QuietOK, Sending, HandlerState
<1>3. Becomes(h, r) /\ UNCHANGED <<sessionVars, events, texts>>
  BY DEF UselessToolCall, crmVars
<1> HIDE DEF r
<1>4. QED
  BY <1>2, <1>3, QuietFrame

LEMMA QuietEndRound ==
    ASSUME IInv, QInv, ~faulty, NEW h \in Handlers, EndRound(h)
    PROVE  QInv'
<1> DEFINE s == handler[h].sess
           Request == [handler[h] EXCEPT !.pc = "send",
                                         !.out = StageRequest(s).text,
                                         !.sess = StageRequest(s).sess]
           Again(n) == [handler[h] EXCEPT !.pc = "agent", !.round = n]
           Save == [handler[h] EXCEPT !.pc = "save"]
<1>1. /\ handler[h] \in HandlerState /\ handler[h].pc = "tools"
      /\ s \in Session /\ QuietOK(handler[h], events, texts)
  BY DEF IInv, HandlerOK, SessionOK, QInv, EndRound, At
<1>2. QuietOK(Request, events, texts)
  <2>1. CASE s.stage = "awaiting_cv"
    <3>1. /\ StageRequest(s).text = "cvRequest"
          /\ StageRequest(s).sess = [s EXCEPT !.cvRequested = TRUE]
      BY <2>1 DEF StageRequest
    <3>2. QED
      BY <1>1, <2>1, <3>1 DEF QuietOK, Sending, HandlerState, Session
  <2>2. CASE s.stage # "awaiting_cv"
    <3>1. /\ StageRequest(s).text = "videoRequest"
          /\ StageRequest(s).sess = s
      BY <2>2 DEF StageRequest
    <3>2. QED
      BY <1>1, <2>2, <3>1 DEF QuietOK, Sending, HandlerState, Session
  <2>3. QED
    BY <2>1, <2>2
<1>3. s.stage = "collecting_data" =>
        QuietOK(Save, events, texts) /\ \A n : QuietOK(Again(n), events, texts)
  BY <1>1 DEF QuietOK, Sending, HandlerState
<1>4. \/ Becomes(h, Request)
      \/ /\ s.stage = "collecting_data"
         /\ Becomes(h, Save) \/ \E n : Becomes(h, Again(n))
  BY DEF EndRound
<1>5. UNCHANGED <<sessionVars, events, texts>>
  BY DEF EndRound, crmVars
<1> HIDE DEF Request, Again, Save
<1>6. QED
  BY <1>2, <1>3, <1>4, <1>5, QuietFrame

LEMMA QuietMedia ==
    ASSUME IInv, QInv, ~faulty, NEW h \in Handlers, ProcessInboundMedia(h)
    PROVE  QInv'
<1> DEFINE Notice == [handler[h] EXCEPT !.pc = "send", !.out = "notice"]
           To(p) == [handler[h] EXCEPT !.pc = p]
<1>1. /\ handler[h] \in HandlerState /\ handler[h].pc = "media"
      /\ QuietOK(handler[h], events, texts)
  BY DEF IInv, HandlerOK, QInv, ProcessInboundMedia, At
<1>2. /\ QuietOK(Notice, events, texts)
      /\ \A p \in {"save", "cv", "video"} : QuietOK(To(p), events, texts)
  BY <1>1 DEF QuietOK, Sending, HandlerState
<1>3. \/ Becomes(h, Notice)
      \/ \E p \in {"save", "cv", "video"} : Becomes(h, To(p))
  BY DEF ProcessInboundMedia, TakeMedia
<1>4. UNCHANGED <<sessionVars, events, texts>>
  BY DEF ProcessInboundMedia, crmVars
<1> HIDE DEF Notice, To
<1>5. QED
  BY <1>2, <1>3, <1>4, QuietFrame

LEMMA QuietStoreCv ==
    ASSUME IInv, QInv, ~faulty, ~faulty', NEW h \in Handlers, StoreCv(h)
    PROVE  QInv'
<1> DEFINE s == [handler[h].sess EXCEPT !.cvReceived = TRUE]
           Asked == [handler[h] EXCEPT
                        !.pc = "send", !.out = "videoRequest",
                        !.sess = [s EXCEPT !.stage = "awaiting_video"]]
           Agent == [handler[h] EXCEPT !.pc = "agent", !.sess = s]
<1>1. /\ handler[h] \in HandlerState /\ handler[h].pc = "cv"
      /\ handler[h].sess \in Session
      /\ QuietOK(handler[h], events, texts)
  BY DEF IInv, HandlerOK, SessionOK, QInv, StoreCv, At
<1>2. events \subseteq events' /\ UNCHANGED <<sessionVars, texts>>
  BY DEF StoreCv, Emit, Tells
<1>3. QuietOK(handler[h], events', texts)
  BY <1>1, <1>2, QuietGrows
<1>4. QuietOK(Asked, events', texts) /\ QuietOK(Agent, events', texts)
  <2>1. /\ s \in Session
        /\ \A f \in {"stage", "dataComplete", "interviewAccepted",
                     "cvRequested"} : s[f] = handler[h].sess[f]
    BY <1>1 DEF Session
  <2> HIDE DEF s
  <2>2. QED
    BY <1>1, <1>3, <2>1 DEF QuietOK, Sending, HandlerState, Session
<1>5. Becomes(h, Asked) \/ Becomes(h, Agent)
  BY DEF StoreCv, Emit
<1> HIDE DEF Asked, Agent
<1>6. QED
  BY <1>2, <1>4, <1>5, QuietFrame

LEMMA QuietAcceptVideo ==
    ASSUME IInv, QInv, ~faulty, NEW h \in Handlers, AcceptVideo(h)
    PROVE  QInv'
<1> DEFINE r == [handler[h] EXCEPT !.pc = "send", !.out = "videoReceived",
                                   !.sess.stage = "done"]
<1>1. /\ handler[h] \in HandlerState /\ handler[h].pc = "video"
      /\ handler[h].sess \in Session
      /\ QuietOK(handler[h], events, texts)
  BY DEF IInv, HandlerOK, SessionOK, QInv, AcceptVideo, At
<1>2. QuietOK(r, events, texts)
  BY <1>1 DEF QuietOK, Sending, HandlerState, Session
<1>3. Becomes(h, r) /\ UNCHANGED <<sessionVars, events, texts>>
  BY DEF AcceptVideo, crmVars
<1> HIDE DEF r
<1>4. QED
  BY <1>2, <1>3, QuietFrame

LEMMA QuietReportVideo ==
    ASSUME IInv, QInv, ~faulty, ~faulty', NEW h \in Handlers, ReportVideo(h)
    PROVE  QInv'
<1> DEFINE r == [handler[h] EXCEPT !.pc = "save"]
           e == [action |-> "recruiting.video_received",
                 cand |-> handler[h].cand, item |-> handler[h].media]
<1>1. /\ handler[h] \in HandlerState /\ handler[h].pc = "reportVideo"
      /\ handler[h].media \in Media
      /\ QuietOK(handler[h], events, texts)
  BY DEF IInv, HandlerOK, OwnVideo, OwnMedia, QInv, ReportVideo, At
<1>2. events' = events \cup {e} /\ Becomes(h, r)
      /\ UNCHANGED <<sessionVars, texts>>
  BY DEF ReportVideo, Emit, Tells
<1>3. VideoIn(handler[h].cand, events')
  BY <1>1, <1>2 DEF VideoIn
<1>4. QuietOK(handler[h], events', texts)
  BY <1>1, <1>2, QuietGrows
<1>5. QuietOK(r, events', texts)
  BY <1>1, <1>3, <1>4 DEF QuietOK, Sending, HandlerState
<1> HIDE DEF r, e
<1>6. QED
  BY <1>2, <1>5, QuietFrame

\* A new session claims nothing but data that the opening reports first.
LEMMA QuietStart ==
    ASSUME IInv, QInv, ~faulty, NEW h \in Handlers, NEW c \in Candidates,
           NEW prefilled, StartCapture(h, c, prefilled)
    PROVE  QInv'
<1> DEFINE complete == prefilled = Fields
           s == [stage |-> IF complete THEN "awaiting_cv"
                                       ELSE "collecting_data",
                 captured |-> prefilled,
                 dataComplete |-> complete,
                 interviewAccepted |-> FALSE,
                 cvReceived |-> FALSE,
                 cvRequested |-> FALSE]
           r == Entering("opening", "start", c, s, None)
<1>1. QuietOK(r, events', texts')
  BY DEF QuietOK, Sending, Entering
<1>2. \A d \in Candidates :
          sessions'[d] # None => StoredOK(d, sessions'[d], events', texts')
  BY DEF StartCapture, DeleteOthersOfPhone, QInv, crmVars
<1>3. Becomes(h, r) /\ UNCHANGED <<events, texts>>
  BY DEF StartCapture, crmVars
<1> HIDE DEF r
<1>4. \A g \in Handlers : QuietOK(handler'[g], events', texts')
  BY <1>1, <1>3 DEF Becomes, QInv, IInv, TypeOK
<1>5. QED
  BY <1>2, <1>4 DEF QInv

LEMMA QuietOpening ==
    ASSUME IInv, QInv, ~faulty, NEW h \in Handlers, SendSessionOpening(h)
    PROVE  QInv'
<1> DEFINE r == [handler[h] EXCEPT !.pc = "save"]
<1>1. /\ handler[h] \in HandlerState /\ handler[h].pc = "opening"
      /\ QuietOK(handler[h], events, texts)
  BY DEF IInv, HandlerOK, QInv, SendSessionOpening, At
<1>2. /\ events \subseteq events'
      /\ handler[h].sess.dataComplete =>
            [action |-> "recruiting.data_complete",
             cand |-> handler[h].cand, item |-> None] \in events'
      /\ Becomes(h, r) /\ UNCHANGED <<sessionVars, texts>>
  BY DEF SendSessionOpening, OpeningEvents
<1>3. QuietOK(handler[h], events', texts)
  BY <1>1, <1>2, QuietGrows
<1>4. QuietOK(r, events', texts)
  BY <1>1, <1>2, <1>3 DEF QuietOK, Sending, HandlerState
<1> HIDE DEF r
<1>5. QED
  BY <1>2, <1>4, QuietFrame

LEMMA QuietEndSession ==
    ASSUME IInv, QInv, ~faulty, NEW h \in Handlers, NEW c \in Candidates,
           EndSessionForCandidate(h, c)
    PROVE  QInv'
BY DEF EndSessionForCandidate, QInv, IInv, TypeOK, crmVars

LEMMA QuietNext == IInv /\ QInv /\ [Next]_vars => QInv'
<1> SUFFICES ASSUME IInv, QInv, [Next]_vars, ~faulty'
             PROVE  QInv'
  BY DEF QInv
<1>1. ~faulty
  BY FaultStays
<1>2. ASSUME NEW h \in Handlers, Arrival(h)
      PROVE  QInv'
  BY <1>1, <1>2, QuietReceive, QuietStart, QuietEndSession DEF Arrival
<1>3. ASSUME NEW h \in Handlers, Progress(h)
      PROVE  QInv'
  <2>1. ~CallRejects(h)
    BY DEF CallRejects
  <2>2. QED
    BY <1>1, <1>3, <2>1, QuietSave, QuietSend, QuietProcessText, QuietAgent,
       QuietTools, QuietUseless, QuietEndRound, QuietMedia, QuietStoreCv,
       QuietAcceptVideo, QuietReportVideo, QuietOpening
       DEF Progress
<1>4. CASE Crash
  BY <1>4 DEF Crash
<1>5. CASE UNCHANGED vars
  BY <1>5 DEF QInv, StoredOK, QuietOK, vars, sessionVars, crmVars
<1>6. QED
  BY <1>2, <1>3, <1>4, <1>5 DEF Next

LEMMA QuietInvariance == Spec => []QInv
<1>1. Init /\ [][Next]_vars /\ []IInv => []QInv
  BY QuietInit, QuietNext, PTL
<1>2. QED
  BY Invariance, <1>1, PTL DEF Spec

\* Without a rejected call or a crash, a stored session is never ahead of the
\* CRM: complete data, an accepted interview and a finished capture have been
\* reported (executeTool, processVideoMedia, sendSessionOpening).
THEOREM NothingIsLostWithoutFault == Spec => []NothingLostWithoutFault
<1>1. QInv => NothingLostWithoutFault
  BY StoredMeans DEF QInv, NothingLostWithoutFault, VideoIn,
                     Reports!VideoReported, Reports!Event
<1>2. QED
  BY QuietInvariance, <1>1, PTL

\* Nor is it ahead of the candidate: every file it waits for was asked for,
\* and a finished capture was acknowledged (sendCvRequest, sendAssistantText).
THEOREM RequestsAreSent == Spec => []RequestsWereSent
<1>1. QInv => RequestsWereSent
  BY StoredMeans DEF QInv, RequestsWereSent
<1>2. QED
  BY QuietInvariance, <1>1, PTL

-----------------------------------------------------------------------------
(* One handler at a time.                                                  *)

OneHandler == \A g, h \in Handlers : g = h

\* The copy s has everything that the stored session t has.
Above(s, t) ==
    /\ StageRank[s.stage] >= StageRank[t.stage]
    /\ t.captured \subseteq s.captured
    /\ t.cvReceived => s.cvReceived
    /\ t.cvRequested => s.cvRequested
    /\ t.interviewAccepted => s.interviewAccepted

\* What the local state r of the only handler knows of the stored sessions.
LocalOK(r, stored) ==
    r.pc # "idle" =>
        /\ \A d \in Candidates \ {r.cand} :
              PhoneOf[d] = PhoneOf[r.cand] => stored[d] = None
        /\ \/ r.job = "start" /\ r.pc \in {"opening", "save"}
           \/ r.job = "reply" /\ r.pc # "opening"
        /\ r.job = "reply" => /\ stored[r.cand] # None
                              /\ Above(r.sess, stored[r.cand])
        /\ r.pc = "media" => r.sess = stored[r.cand]
        /\ r.pc = "cv" => ~r.sess.cvReceived
        /\ r.pc \in {"text", "media", "cv", "agent", "tools"}
              => r.sess.stage # "done"

SInv ==
    /\ OneSessionPerPhone
    /\ \A h \in Handlers : LocalOK(handler[h], sessions)

LEMMA Ranks ==
    /\ StageRank["collecting_data"] = 0 /\ StageRank["awaiting_cv"] = 1
    /\ StageRank["awaiting_video"] = 2 /\ StageRank["done"] = 3
BY DEF StageRank

LEMMA AboveSelf == \A s \in Session : Above(s, s)
BY DEF Above, StageRank, Session, Stages

\* A step of the handler to r that leaves the store alone.
LEMMA LocalStep ==
    ASSUME OneHandler, IInv, SInv, NEW h \in Handlers, NEW r,
           Becomes(h, r), LocalOK(r, sessions), UNCHANGED sessionVars
    PROVE  SInv'
<1>1. \A g \in Handlers : handler'[g] = r
  BY DEF OneHandler, IInv, TypeOK, Becomes
<1>2. QED
  BY <1>1 DEF SInv, OneSessionPerPhone, sessionVars

\* A handler that replies may go on to another point with a larger copy.
LEMMA GoesOn ==
    ASSUME IInv, SInv, NEW h \in Handlers, NEW r, NEW s,
           handler[h].pc \notin {"idle", "opening"}, handler[h].job = "reply",
           r.cand = handler[h].cand, r.job = "reply", r.sess = s,
           Above(s, handler[h].sess), s \in Session,
           r.pc \in {"agent", "tools"} => s.stage # "done",
           r.pc \notin {"text", "media", "cv", "opening"}
    PROVE  LocalOK(r, sessions)
<1> DEFINE c == handler[h].cand
           t == handler[h].sess
<1>1. c \in Candidates /\ t \in Session
  BY DEF IInv, HandlerOK, SessionOK
<1>2. /\ LocalOK(handler[h], sessions)
      /\ sessions[c] # None /\ Above(t, sessions[c])
  BY DEF SInv, LocalOK
<1>3. sessions[c] \in Session
  BY <1>1, <1>2 DEF IInv, TypeOK
<1>4. Above(s, sessions[c])
  BY <1>1, <1>2, <1>3 DEF Above, StageRank, Session, Stages
<1>5. QED
  BY <1>2, <1>4 DEF LocalOK

\* The same with the copy it has.
LEMMA GoesOnAsIs ==
    ASSUME IInv, SInv, NEW h \in Handlers, NEW r,
           handler[h].pc \notin {"idle", "opening"}, handler[h].job = "reply",
           r.cand = handler[h].cand, r.job = "reply", r.sess = handler[h].sess,
           r.pc \in {"agent", "tools"} => r.sess.stage # "done",
           r.pc \notin {"text", "media", "cv", "opening"}
    PROVE  LocalOK(r, sessions)
<1>1. handler[h].sess \in Session
  BY DEF IInv, HandlerOK, SessionOK
<1>2. QED
  BY <1>1, AboveSelf, GoesOn

\* Away from the opening and the save a handler is replying.
LEMMA Replying ==
    ASSUME IInv, SInv, NEW h \in Handlers,
           handler[h].pc \notin {"idle", "opening", "save"}
    PROVE  /\ handler[h] \in HandlerState /\ handler[h].job = "reply"
           /\ handler[h].cand \in Candidates /\ handler[h].sess \in Session
           /\ Coherent(handler[h].sess)
           /\ LocalOK(handler[h], sessions)
BY DEF IInv, HandlerOK, SessionOK, SInv, LocalOK

\* It may end at any point: the copy is saved as it is.
LEMMA MaySave ==
    ASSUME IInv, SInv, NEW h \in Handlers, handler[h].pc # "idle"
    PROVE  LocalOK([handler[h] EXCEPT !.pc = "save"], sessions)
BY DEF IInv, HandlerOK, HandlerState, SInv, LocalOK

LEMMA SerialInit == Init => SInv
BY DEF Init, SInv, OneSessionPerPhone, LocalOK, Idle, Entering

-----------------------------------------------------------------------------
(* One lemma per action.                                                   *)

LEMMA SerialSave ==
    ASSUME OneHandler, IInv, SInv, NEW h \in Handlers, SaveSession(h)
    PROVE  SInv'
<1> DEFINE c == handler[h].cand
           s == handler[h].sess
<1>1. c \in Candidates /\ LocalOK(handler[h], sessions) /\ At(h, "save")
  BY DEF IInv, HandlerOK, SInv, SaveSession, At
<1>2. \A g \in Handlers : LocalOK(handler'[g], sessions')
  BY DEF OneHandler, IInv, TypeOK, SaveSession, Becomes, LocalOK, Idle, Entering
<1>3. CASE UNCHANGED sessionVars
  BY <1>2, <1>3 DEF SInv, OneSessionPerPhone, sessionVars
<1>4. CASE Upsert(c, s)
  <2>1. \A d \in Candidates \ {c} :
            /\ sessions'[d] = sessions[d]
            /\ PhoneOf[d] = PhoneOf[c] => sessions'[d] = None
    BY <1>1, <1>4 DEF Upsert, LocalOK, At, IInv, TypeOK
  <2>2. OneSessionPerPhone'
    BY <1>1, <2>1 DEF OneSessionPerPhone, SInv
  <2>3. QED
    BY <1>2, <2>2 DEF SInv
<1>5. QED
  BY <1>3, <1>4 DEF SaveSession

LEMMA SerialReject ==
    ASSUME OneHandler, IInv, SInv, NEW h \in Handlers, CallRejects(h)
    PROVE  SInv'
<1> DEFINE r == [handler[h] EXCEPT !.pc = "save"]
<1>1. LocalOK(r, sessions)
  BY MaySave DEF CallRejects, Awaiting
<1>2. Becomes(h, r) /\ UNCHANGED sessionVars
  BY DEF CallRejects
<1> HIDE DEF r
<1>3. QED
  BY <1>1, <1>2, LocalStep

LEMMA SerialReceive ==
    ASSUME OneHandler, IInv, SInv, NEW h \in Handlers,
           \/ \E phone \in Phones : ReceiveText(h, phone)
           \/ \E m \in Media : ReceiveMedia(h, m)
    PROVE  SInv'
<1>1. PICK c \in Candidates, p \in {"text", "media"}, m \in Media \cup {None} :
          /\ Becomes(h, Entering(p, "reply", c, sessions[c], m))
          /\ sessions[c] # None /\ sessions[c].stage # "done"
  BY DEF ReceiveText, ReceiveMedia, IsSessionOfPhone, IsActive
<1> DEFINE r == Entering(p, "reply", c, sessions[c], m)
<1>2. sessions[c] \in Session
  BY <1>1 DEF IInv, TypeOK
<1>3. \A d \in Candidates \ {c} : PhoneOf[d] = PhoneOf[c] => sessions[d] = None
  BY <1>1 DEF SInv, OneSessionPerPhone
<1>4. LocalOK(r, sessions)
  BY <1>1, <1>2, <1>3, AboveSelf DEF LocalOK, Entering
<1>5. UNCHANGED sessionVars
  BY DEF ReceiveText, ReceiveMedia
<1> HIDE DEF r
<1>6. QED
  BY <1>1, <1>4, <1>5, LocalStep DEF r

LEMMA SerialText ==
    ASSUME OneHandler, IInv, SInv, NEW h \in Handlers, ProcessInboundText(h)
    PROVE  SInv'
<1> DEFINE s == handler[h].sess
           Notice  == [handler[h] EXCEPT !.pc = "send", !.out = "notice"]
           Request == [handler[h] EXCEPT !.pc = "send", !.out = "cvRequest",
                                         !.sess.cvRequested = TRUE]
           Agent   == [handler[h] EXCEPT !.pc = "agent"]
<1>1. handler[h].pc = "text"
  BY DEF ProcessInboundText, At
<1>2. /\ handler[h] \in HandlerState /\ handler[h].job = "reply"
      /\ s \in Session /\ s.stage # "done"
  BY <1>1, Replying DEF LocalOK
<1>3. LocalOK(Notice, sessions) /\ LocalOK(Agent, sessions)
  BY <1>1, <1>2, GoesOnAsIs DEF HandlerState
<1>4. LocalOK(Request, sessions)
  <2> DEFINE t == [s EXCEPT !.cvRequested = TRUE]
  <2>1. t \in Session /\ Above(t, s)
    BY <1>2, AboveSelf DEF Session, Above
  <2>2. /\ Request.cand = handler[h].cand /\ Request.job = "reply"
        /\ Request.sess = t /\ Request.pc = "send"
    BY <1>2 DEF HandlerState
  <2> HIDE DEF t, Request
  <2>3. QED
    BY <1>1, <1>2, <2>1, <2>2, GoesOn
<1>5. Becomes(h, Notice) \/ Becomes(h, Request) \/ Becomes(h, Agent)
  BY DEF ProcessInboundText
<1>6. UNCHANGED sessionVars
  BY DEF ProcessInboundText
<1> HIDE DEF Notice, Request, Agent
<1>7. QED
  BY <1>3, <1>4, <1>5, <1>6, LocalStep

\* The steps that only move the handler to another point.
LEMMA SerialMoves ==
    ASSUME OneHandler, IInv, SInv, NEW h \in Handlers,
           \/ AgentReplies(h) \/ AgentCallsTools(h) \/ UselessToolCall(h)
           \/ SendAssistantText(h) \/ ReportVideo(h)
    PROVE  SInv'
<1>1. handler[h].pc \in {"agent", "tools", "send", "reportVideo"}
  BY DEF AgentReplies, AgentCallsTools, UselessToolCall, SendAssistantText,
         ReportVideo, At
<1>2. /\ handler[h] \in HandlerState /\ handler[h].job = "reply"
      /\ LocalOK(handler[h], sessions)
  BY <1>1, Replying
<1>3. PICK r :
          /\ Becomes(h, r) /\ r.cand = handler[h].cand /\ r.job = "reply"
          /\ r.sess = handler[h].sess
          /\ \/ r.pc \in {"send", "save", "reportVideo"}
             \/ r.pc = "tools" /\ handler[h].pc \in {"agent", "tools"}
  <2>1. CASE AgentReplies(h)
    <3> DEFINE Notice == [handler[h] EXCEPT !.pc = "send", !.out = "notice"]
               Save   == [handler[h] EXCEPT !.pc = "save"]
    <3>1. \A r \in {Notice, Save} :
              /\ r.cand = handler[h].cand /\ r.job = "reply"
              /\ r.sess = handler[h].sess /\ r.pc \in {"send", "save"}
      BY <1>2 DEF HandlerState
    <3>2. Becomes(h, Notice) \/ Becomes(h, Save)
      BY <2>1 DEF AgentReplies
    <3> HIDE DEF Notice, Save
    <3>3. QED
      BY <3>1, <3>2
  <2>2. CASE AgentCallsTools(h)
    <3>1. PICK n \in 1 .. ToolCallsMax :
              Becomes(h, [handler[h] EXCEPT !.pc = "tools", !.calls = n])
      BY <2>2 DEF AgentCallsTools
    <3> DEFINE r == [handler[h] EXCEPT !.pc = "tools", !.calls = n]
    <3>2. /\ r.cand = handler[h].cand /\ r.job = "reply"
          /\ r.sess = handler[h].sess /\ r.pc = "tools"
      BY <1>2 DEF HandlerState
    <3>3. handler[h].pc = "agent"
      BY <2>2 DEF AgentCallsTools, At
    <3> HIDE DEF r
    <3>4. QED
      BY <3>1, <3>2, <3>3 DEF r
  <2>3. CASE UselessToolCall(h)
    BY <1>2, <2>3 DEF UselessToolCall, HandlerState, At
  <2>4. CASE SendAssistantText(h)
    BY <1>2, <2>4 DEF SendAssistantText, AfterSending, HandlerState
  <2>5. CASE ReportVideo(h)
    BY <1>2, <2>5 DEF ReportVideo, Emit, HandlerState
  <2>6. QED
    BY <2>1, <2>2, <2>3, <2>4, <2>5
<1>4. r.pc = "tools" => r.sess.stage # "done"
  BY <1>2, <1>3 DEF LocalOK
<1>5. LocalOK(r, sessions)
  BY <1>1, <1>2, <1>3, <1>4, GoesOnAsIs
<1>6. UNCHANGED sessionVars
  BY DEF AgentReplies, AgentCallsTools, UselessToolCall, SendAssistantText,
         ReportVideo
<1>7. QED
  BY <1>3, <1>5, <1>6, LocalStep

LEMMA SerialTools ==
    ASSUME OneHandler, IInv, SInv, NEW h \in Handlers,
           \/ SaveCapturedField(h)
           \/ MarkDataComplete(h)
           \/ MarkInterviewAccepted(h)
    PROVE  SInv'
<1> DEFINE s == handler[h].sess
           ok(t) == [handler[h] EXCEPT !.sess = t, !.calls = @ - 1]
           bad(t) == [handler[h] EXCEPT !.sess = t, !.pc = "save"]
<1>1. handler[h].pc = "tools"
  BY DEF SaveCapturedField, MarkDataComplete, MarkInterviewAccepted,
         ToolCall, At
<1>2. /\ handler[h] \in HandlerState /\ handler[h].job = "reply"
      /\ s \in Session /\ Coherent(s) /\ s.stage # "done"
  BY <1>1, Replying DEF LocalOK
<1>3. PICK t \in Session :
          /\ Above(t, s) /\ t.stage # "done"
          /\ Becomes(h, ok(t)) \/ Becomes(h, bad(t))
  <2>1. CASE SaveCapturedField(h)
    <3>1. PICK f \in Fields :
            ToolCall(h, "saveCapturedField", "recruiting.field_captured", f,
                     [s EXCEPT !.captured = @ \cup {f}])
      BY <2>1 DEF SaveCapturedField
    <3> DEFINE t == [s EXCEPT !.captured = @ \cup {f}]
    <3>2. t \in Session /\ Above(t, s) /\ t.stage # "done"
      BY <1>2, AboveSelf DEF Session, Above
    <3>3. Becomes(h, ok(t)) \/ Becomes(h, bad(t))
      BY <3>1 DEF ToolCall, Emit
    <3> HIDE DEF t, ok, bad
    <3>4. QED
      BY <3>2, <3>3
  <2>2. CASE MarkDataComplete(h)
    <3> DEFINE t == [s EXCEPT
                       !.dataComplete = TRUE,
                       !.stage = IF s.cvReceived
                                 THEN "awaiting_video" ELSE "awaiting_cv"]
    <3>1. t \in Session /\ Above(t, s) /\ t.stage # "done"
      <4>1. /\ t \in Session /\ t.captured = s.captured
            /\ t.cvReceived = s.cvReceived /\ t.cvRequested = s.cvRequested
            /\ t.interviewAccepted = s.interviewAccepted
            /\ s.cvReceived => t.stage = "awaiting_video"
            /\ ~s.cvReceived => t.stage = "awaiting_cv"
        BY <1>2 DEF Session, Stages
      <4> HIDE DEF t
      <4>2. /\ s.stage \in Stages \ {"done"}
            /\ ~s.cvReceived => s.stage # "awaiting_video"
        BY <1>2 DEF Session, Coherent
      <4>3. t.stage # "done" /\ StageRank[t.stage] >= StageRank[s.stage]
        BY <4>1, <4>2, Ranks DEF Stages, Session
      <4>4. QED
        BY <4>1, <4>3 DEF Above
    <3>2. Becomes(h, ok(t)) \/ Becomes(h, bad(t))
      BY <2>2 DEF MarkDataComplete, ToolCall, Emit
    <3> HIDE DEF t, ok, bad
    <3>3. QED
      BY <3>1, <3>2
  <2>3. CASE MarkInterviewAccepted(h)
    <3> DEFINE t == [s EXCEPT !.interviewAccepted = TRUE]
    <3>1. t \in Session /\ Above(t, s) /\ t.stage # "done"
      BY <1>2, AboveSelf DEF Session, Above
    <3>2. Becomes(h, ok(t)) \/ Becomes(h, bad(t))
      BY <2>3 DEF MarkInterviewAccepted, ToolCall, Emit
    <3> HIDE DEF t, ok, bad
    <3>3. QED
      BY <3>1, <3>2
  <2>4. QED
    BY <2>1, <2>2, <2>3
<1>4. \A r \in {ok(t), bad(t)} :
          /\ r.cand = handler[h].cand /\ r.job = "reply" /\ r.sess = t
          /\ r.pc \in {"tools", "save"}
  BY <1>1, <1>2 DEF HandlerState
<1>5. UNCHANGED sessionVars
  BY DEF SaveCapturedField, MarkDataComplete, MarkInterviewAccepted, ToolCall
<1> HIDE DEF ok, bad
<1>6. LocalOK(ok(t), sessions) /\ LocalOK(bad(t), sessions)
  BY <1>1, <1>2, <1>3, <1>4, GoesOn
<1>7. QED
  BY <1>3, <1>5, <1>6, LocalStep

LEMMA SerialEndRound ==
    ASSUME OneHandler, IInv, SInv, NEW h \in Handlers, EndRound(h)
    PROVE  SInv'
<1> DEFINE s == handler[h].sess
           Request == [handler[h] EXCEPT !.pc = "send",
                                         !.out = StageRequest(s).text,
                                         !.sess = StageRequest(s).sess]
           Again(n) == [handler[h] EXCEPT !.pc = "agent", !.round = n]
           Save == [handler[h] EXCEPT !.pc = "save"]
<1>1. handler[h].pc = "tools"
  BY DEF EndRound, At
<1>2. /\ handler[h] \in HandlerState /\ handler[h].job = "reply"
      /\ s \in Session /\ s.stage # "done"
  BY <1>1, Replying DEF LocalOK
<1>3. StageRequest(s).sess \in Session /\ Above(StageRequest(s).sess, s)
  <2>1. CASE s.stage = "awaiting_cv"
    BY <1>2, <2>1, AboveSelf DEF StageRequest, Session, Above
  <2>2. CASE s.stage # "awaiting_cv"
    BY <1>2, <2>2, AboveSelf DEF StageRequest
  <2>3. QED
    BY <2>1, <2>2
<1>4. LocalOK(Request, sessions)
  <2>1. /\ Request.cand = handler[h].cand /\ Request.job = "reply"
        /\ Request.sess = StageRequest(s).sess /\ Request.pc = "send"
    BY <1>2 DEF HandlerState
  <2> HIDE DEF Request
  <2>2. QED
    BY <1>1, <1>2, <1>3, <2>1, GoesOn
<1>5. LocalOK(Save, sessions)
  BY <1>1, MaySave
<1>6. ASSUME NEW n
      PROVE  LocalOK(Again(n), sessions)
  <2>1. /\ Again(n).cand = handler[h].cand /\ Again(n).job = "reply"
        /\ Again(n).sess = s /\ Again(n).pc = "agent"
    BY <1>2 DEF HandlerState
  <2> HIDE DEF Again
  <2>2. QED
    BY <1>1, <1>2, <2>1, GoesOnAsIs
<1>7. Becomes(h, Request) \/ Becomes(h, Save) \/ \E n : Becomes(h, Again(n))
  BY DEF EndRound
<1>8. UNCHANGED sessionVars
  BY DEF EndRound
<1> HIDE DEF Request, Again, Save
<1>9. QED
  BY <1>4, <1>5, <1>6, <1>7, <1>8, LocalStep

\* A file goes on to the CV only if the copy has none.
LEMMA SerialMedia ==
    ASSUME OneHandler, IInv, SInv, NEW h \in Handlers, ProcessInboundMedia(h)
    PROVE  SInv'
<1> DEFINE s == handler[h].sess
           Notice == [handler[h] EXCEPT !.pc = "send", !.out = "notice"]
           To(p) == [handler[h] EXCEPT !.pc = p]
<1>1. handler[h].pc = "media"
  BY DEF ProcessInboundMedia, At
<1>2. /\ handler[h] \in HandlerState /\ handler[h].job = "reply"
      /\ s \in Session /\ Coherent(s) /\ s.stage # "done"
      /\ LocalOK(handler[h], sessions)
      /\ s = sessions[handler[h].cand]
  BY <1>1, Replying DEF LocalOK
<1>3. /\ LocalOK(Notice, sessions)
      /\ LocalOK(To("save"), sessions) /\ LocalOK(To("video"), sessions)
  BY <1>1, <1>2, GoesOnAsIs DEF HandlerState
<1>4. WantsCv(s) => LocalOK(To("cv"), sessions)
  <2>1. WantsCv(s) => ~s.cvReceived
    BY <1>2 DEF WantsCv, Coherent
  <2>2. /\ To("cv").cand = handler[h].cand /\ To("cv").job = "reply"
        /\ To("cv").sess = s /\ To("cv").pc = "cv"
    BY <1>2 DEF HandlerState
  <2> HIDE DEF To
  <2>3. QED
    BY <1>1, <1>2, <2>1, <2>2 DEF LocalOK
<1>5. \/ Becomes(h, Notice) \/ Becomes(h, To("save"))
      \/ Becomes(h, To("video"))
      \/ (WantsCv(s) /\ Becomes(h, To("cv")))
  BY DEF ProcessInboundMedia, TakeMedia
<1>6. UNCHANGED sessionVars
  BY DEF ProcessInboundMedia
<1> HIDE DEF Notice, To
<1>7. QED
  BY <1>3, <1>4, <1>5, <1>6, LocalStep

LEMMA SerialStoreCv ==
    ASSUME OneHandler, IInv, SInv, NEW h \in Handlers, StoreCv(h)
    PROVE  SInv'
<1> DEFINE old == handler[h].sess
           s == [old EXCEPT !.cvReceived = TRUE]
           t == [s EXCEPT !.stage = "awaiting_video"]
           Asked == [handler[h] EXCEPT !.pc = "send", !.out = "videoRequest",
                                       !.sess = t]
           Agent == [handler[h] EXCEPT !.pc = "agent", !.sess = s]
           Save == [handler[h] EXCEPT !.pc = "save"]
<1>1. handler[h].pc = "cv"
  BY DEF StoreCv, At
<1>2. /\ handler[h] \in HandlerState /\ handler[h].job = "reply"
      /\ old \in Session /\ old.stage # "done"
  BY <1>1, Replying DEF LocalOK
<1>3. s \in Session /\ Above(s, old) /\ s.stage # "done"
  BY <1>2, AboveSelf DEF Session, Above
<1>4. old.stage = "awaiting_cv" => t \in Session /\ Above(t, old)
  <2>1. /\ t \in Session /\ t.captured = old.captured /\ t.cvReceived
        /\ t.cvRequested = old.cvRequested /\ t.stage = "awaiting_video"
        /\ t.interviewAccepted = old.interviewAccepted
    BY <1>2 DEF Session, Stages
  <2> HIDE DEF t
  <2>2. QED
    BY <2>1, Ranks DEF Above
<1>5. LocalOK(Save, sessions)
  BY <1>1, MaySave
<1>6. LocalOK(Agent, sessions)
  <2>1. /\ Agent.cand = handler[h].cand /\ Agent.job = "reply"
        /\ Agent.sess = s /\ Agent.pc = "agent"
    BY <1>2 DEF HandlerState
  <2> HIDE DEF s, Agent
  <2>2. QED
    BY <1>1, <1>2, <1>3, <2>1, GoesOn
<1>7. old.stage = "awaiting_cv" => LocalOK(Asked, sessions)
  <2>1. /\ Asked.cand = handler[h].cand /\ Asked.job = "reply"
        /\ Asked.sess = t /\ Asked.pc = "send"
    BY <1>2 DEF HandlerState
  <2> HIDE DEF t, Asked
  <2>2. QED
    BY <1>1, <1>2, <1>4, <2>1, GoesOn
<1>8. \/ Becomes(h, Save) \/ Becomes(h, Agent)
      \/ (old.stage = "awaiting_cv" /\ Becomes(h, Asked))
  BY DEF StoreCv, Emit
<1>9. UNCHANGED sessionVars
  BY DEF StoreCv
<1> HIDE DEF Asked, Agent, Save
<1>10. QED
  BY <1>5, <1>6, <1>7, <1>8, <1>9, LocalStep

LEMMA SerialAcceptVideo ==
    ASSUME OneHandler, IInv, SInv, NEW h \in Handlers, AcceptVideo(h)
    PROVE  SInv'
<1> DEFINE old == handler[h].sess
           s == [old EXCEPT !.stage = "done"]
           r == [handler[h] EXCEPT !.pc = "send", !.out = "videoReceived",
                                   !.sess = s]
<1>1. handler[h].pc = "video"
  BY DEF AcceptVideo, At
<1>2. /\ handler[h] \in HandlerState /\ handler[h].job = "reply"
      /\ old \in Session
  BY <1>1, Replying
<1>3. s \in Session /\ Above(s, old)
  BY <1>2 DEF Session, Stages, Above, StageRank
<1>4. LocalOK(r, sessions)
  <2>1. /\ r.cand = handler[h].cand /\ r.job = "reply"
        /\ r.sess = s /\ r.pc = "send"
    BY <1>2 DEF HandlerState
  <2> HIDE DEF s, r
  <2>2. QED
    BY <1>1, <1>2, <1>3, <2>1, GoesOn
<1>5. Becomes(h, r) /\ UNCHANGED sessionVars
  BY DEF AcceptVideo
<1> HIDE DEF r
<1>6. QED
  BY <1>4, <1>5, LocalStep

\* A capture starts once the number's other sessions are gone.
LEMMA SerialStart ==
    ASSUME OneHandler, IInv, SInv, NEW h \in Handlers, NEW c \in Candidates,
           NEW prefilled \in SUBSET Fields, StartCapture(h, c, prefilled)
    PROVE  SInv'
<1>1. PICK s : Becomes(h, Entering("opening", "start", c, s, None))
  BY DEF StartCapture
<1>2. \A d \in Candidates :
          /\ sessions'[d] \in {sessions[d], None}
          /\ d # c /\ PhoneOf[d] = PhoneOf[c] => sessions'[d] = None
  BY DEF StartCapture, DeleteOthersOfPhone
<1>3. OneSessionPerPhone'
  BY <1>2 DEF SInv, OneSessionPerPhone
<1>4. \A g \in Handlers : LocalOK(handler'[g], sessions')
  BY <1>1, <1>2 DEF OneHandler, IInv, TypeOK, Becomes, LocalOK, Entering
<1>5. QED
  BY <1>3, <1>4 DEF SInv

LEMMA SerialOpening ==
    ASSUME OneHandler, IInv, SInv, NEW h \in Handlers, SendSessionOpening(h)
    PROVE  SInv'
<1>1. LocalOK([handler[h] EXCEPT !.pc = "save"], sessions)
  BY MaySave DEF SendSessionOpening, At
<1>2. QED
  BY <1>1, LocalStep DEF SendSessionOpening

LEMMA SerialEnd ==
    ASSUME OneHandler, IInv, SInv, NEW h \in Handlers, NEW c \in Candidates,
           EndSessionForCandidate(h, c)
    PROVE  SInv'
<1>1. \A d \in Candidates : sessions'[d] \in {sessions[d], None}
  BY DEF EndSessionForCandidate, IInv, TypeOK
<1>2. \A g \in Handlers : handler'[g].pc = "idle"
  BY DEF OneHandler, EndSessionForCandidate, At
<1>3. QED
  BY <1>1, <1>2 DEF SInv, OneSessionPerPhone, LocalOK

LEMMA SerialNext == OneHandler /\ IInv /\ SInv /\ [Next]_vars => SInv'
<1> SUFFICES ASSUME OneHandler, IInv, SInv, [Next]_vars
             PROVE  SInv'
  OBVIOUS
<1>1. ASSUME NEW h \in Handlers, Arrival(h)
      PROVE  SInv'
  BY <1>1, SerialReceive, SerialStart, SerialEnd DEF Arrival
<1>2. ASSUME NEW h \in Handlers, Progress(h)
      PROVE  SInv'
  BY <1>2, SerialSave, SerialReject, SerialText, SerialMoves, SerialTools,
     SerialEndRound, SerialMedia, SerialStoreCv, SerialAcceptVideo,
     SerialOpening
     DEF Progress
<1>3. CASE Crash
  BY <1>3 DEF Crash, SInv, OneSessionPerPhone, LocalOK, Idle, Entering,
              sessionVars
<1>4. CASE UNCHANGED vars
  BY <1>4 DEF SInv, OneSessionPerPhone, vars, sessionVars
<1>5. QED
  BY <1>1, <1>2, <1>3, <1>4 DEF Next

LEMMA SerialInvariance == ASSUME OneHandler PROVE Spec => []SInv
<1>1. Init /\ [][Next]_vars /\ []IInv => []SInv
  BY SerialInit, SerialNext, PTL
<1>2. QED
  BY Invariance, <1>1, PTL DEF Spec

\* Handled one at a time, the calls leave a number at most one session,
\* whatever is rejected or cut off (startCapture, findSessionByPhone).
THEOREM SessionsAreUnique == ASSUME OneHandler PROVE Spec => []OneSessionPerPhone
<1>1. SInv => OneSessionPerPhone
  BY DEF SInv
<1>2. QED
  BY SerialInvariance, <1>1, PTL

\* While nothing has failed, a candidate whose CV the CRM was told of has it
\* recorded: in the copy of the handler at work for that candidate, or, when
\* there is none, in the stored session.
HeardOK ==
    ~faulty => \A c \in heard :
        /\ \A h \in Handlers :
              handler[h].pc # "idle" /\ handler[h].cand = c
                  => handler[h].sess.cvReceived
        /\ sessions[c] # None =>
              \/ sessions[c].cvReceived
              \/ \E h \in Handlers :
                    handler[h].pc # "idle" /\ handler[h].cand = c

\* What a step of handler h to r leaves: the copy keeps its CV, and has one if
\* the CRM has just been told of it.
Carries(h, r) ==
    /\ Becomes(h, r) /\ UNCHANGED sessionVars
    /\ handler[h].pc # "idle" /\ r.pc # "idle" /\ r.cand = handler[h].cand
    /\ handler[h].sess.cvReceived => r.sess.cvReceived
    /\ heard' \subseteq heard \cup {r.cand}
    /\ heard' # heard => r.sess.cvReceived

LEMMA CarriesKeeps ==
    ASSUME OneHandler, IInv, HeardOK, ~faulty, NEW h \in Handlers, NEW r,
           Carries(h, r)
    PROVE  HeardOK'
<1>1. ASSUME NEW c \in heard', NEW g \in Handlers,
             handler'[g].pc # "idle", handler'[g].cand = c
      PROVE  handler'[g].sess.cvReceived
  <2>1. g = h /\ handler'[g] = r
    BY DEF OneHandler, Carries, Becomes, IInv, TypeOK
  <2>2. c \in heard => r.sess.cvReceived
    BY <1>1, <2>1 DEF HeardOK, Carries
  <2>3. QED
    BY <1>1, <2>1, <2>2 DEF Carries
<1>2. ASSUME NEW c \in heard', sessions'[c] # None, ~sessions'[c].cvReceived
      PROVE  \E g \in Handlers : handler'[g].pc # "idle" /\ handler'[g].cand = c
  <2>1. CASE c = r.cand
    BY <2>1 DEF Carries, Becomes, IInv, TypeOK
  <2>2. CASE c # r.cand
    <3>1. PICK g \in Handlers : handler[g].pc # "idle" /\ handler[g].cand = c
      BY <1>2, <2>2 DEF HeardOK, Carries, sessionVars
    <3>2. handler'[g] = handler[g]
      BY <2>2, <3>1 DEF Carries, Becomes, IInv, TypeOK
    <3>3. QED
      BY <3>1, <3>2
  <2>3. QED
    BY <2>1, <2>2
<1>3. QED
  BY <1>1, <1>2 DEF HeardOK

\* Every step of a handler but its save does so.
LEMMA ProgressCarries ==
    ASSUME IInv, ~faulty', NEW h \in Handlers, Progress(h), ~SaveSession(h)
    PROVE  \E r : Carries(h, r)
<1> DEFINE v == handler[h]
           s == handler[h].sess
<1>1. v.pc # "idle" /\ v \in HandlerState /\ s \in Session
  BY DEF IInv, HandlerOK, SessionOK, Progress, At, CallRejects, Awaiting,
         SaveSession, SendAssistantText, ProcessInboundText, AgentReplies,
         AgentCallsTools, SaveCapturedField, MarkDataComplete,
         MarkInterviewAccepted, ToolCall, UselessToolCall, EndRound,
         ProcessInboundMedia, StoreCv, AcceptVideo, ReportVideo,
         SendSessionOpening
<1>2. \A r : /\ Becomes(h, r) /\ UNCHANGED <<sessionVars, heard>>
             /\ r.pc # "idle" /\ r.cand = v.cand
             /\ s.cvReceived => r.sess.cvReceived
             => Carries(h, r)
  BY <1>1 DEF Carries
<1>3. CASE \/ AgentReplies(h) \/ AgentCallsTools(h) \/ UselessToolCall(h)
           \/ SendAssistantText(h) \/ SendSessionOpening(h)
  <2>1. UNCHANGED <<sessionVars, heard>>
    BY <1>3 DEF AgentReplies, AgentCallsTools, UselessToolCall, crmVars,
                SendAssistantText, SendSessionOpening
  <2>2. \E r : /\ Becomes(h, r) /\ r.pc # "idle" /\ r.cand = v.cand
               /\ r.sess = s
    <3>1. CASE AgentReplies(h)
      <4> DEFINE Notice == [v EXCEPT !.pc = "send", !.out = "notice"]
                 Save == [v EXCEPT !.pc = "save"]
      <4>1. \A r \in {Notice, Save} :
                r.pc # "idle" /\ r.cand = v.cand /\ r.sess = s
        BY <1>1 DEF HandlerState
      <4>2. Becomes(h, Notice) \/ Becomes(h, Save)
        BY <3>1 DEF AgentReplies
      <4> HIDE DEF Notice, Save
      <4>3. QED
        BY <4>1, <4>2
    <3>2. CASE AgentCallsTools(h)
      <4>1. PICK n \in 1 .. ToolCallsMax :
                Becomes(h, [v EXCEPT !.pc = "tools", !.calls = n])
        BY <3>2 DEF AgentCallsTools
      <4> DEFINE r == [v EXCEPT !.pc = "tools", !.calls = n]
      <4>2. r.pc # "idle" /\ r.cand = v.cand /\ r.sess = s
        BY <1>1 DEF HandlerState
      <4> HIDE DEF r
      <4>3. QED
        BY <4>1, <4>2 DEF r
    <3>3. CASE UselessToolCall(h)
      BY <1>1, <3>3 DEF UselessToolCall, HandlerState
    <3>4. CASE SendAssistantText(h)
      BY <1>1, <3>4 DEF SendAssistantText, AfterSending, HandlerState
    <3>5. CASE SendSessionOpening(h)
      BY <1>1, <3>5 DEF SendSessionOpening, HandlerState
    <3>6. QED
      BY <1>3, <3>1, <3>2, <3>3, <3>4, <3>5
  <2>3. QED
    BY <1>2, <2>1, <2>2
<1>4. CASE ProcessInboundText(h)
  <2> DEFINE Notice  == [v EXCEPT !.pc = "send", !.out = "notice"]
             Request == [v EXCEPT !.pc = "send", !.out = "cvRequest",
                                  !.sess.cvRequested = TRUE]
             Agent   == [v EXCEPT !.pc = "agent"]
  <2>1. /\ Notice.pc # "idle" /\ Notice.cand = v.cand /\ Notice.sess = s
        /\ Agent.pc # "idle" /\ Agent.cand = v.cand /\ Agent.sess = s
    BY <1>1 DEF HandlerState
  <2>2. /\ Request.pc # "idle" /\ Request.cand = v.cand
        /\ s.cvReceived => Request.sess.cvReceived
    BY <1>1 DEF HandlerState, Session
  <2>3. /\ Becomes(h, Notice) \/ Becomes(h, Request) \/ Becomes(h, Agent)
        /\ UNCHANGED <<sessionVars, heard>>
    BY <1>4 DEF ProcessInboundText, crmVars
  <2> HIDE DEF Notice, Request, Agent
  <2>4. QED
    BY <1>2, <2>1, <2>2, <2>3
<1>5. CASE SaveCapturedField(h) \/ MarkDataComplete(h) \/ MarkInterviewAccepted(h)
  <2>1. PICK action, item, t :
            /\ action \in Actions \ {"recruiting.cv_received"}
            /\ Emit(h, action, item, [v EXCEPT !.sess = t, !.calls = @ - 1],
                    [v EXCEPT !.sess = t, !.pc = "save"])
            /\ t.cvReceived = s.cvReceived
            /\ UNCHANGED sessionVars
    <3>1. CASE SaveCapturedField(h)
      <4>1. PICK f \in Fields :
              ToolCall(h, "saveCapturedField", "recruiting.field_captured", f,
                       [s EXCEPT !.captured = @ \cup {f}])
        BY <3>1 DEF SaveCapturedField
      <4> DEFINE t == [s EXCEPT !.captured = @ \cup {f}]
      <4>2. t.cvReceived = s.cvReceived
        BY <1>1 DEF Session
      <4> HIDE DEF t
      <4>3. /\ "recruiting.field_captured" \in Actions \ {"recruiting.cv_received"}
            /\ Emit(h, "recruiting.field_captured", f,
                    [v EXCEPT !.sess = t, !.calls = @ - 1],
                    [v EXCEPT !.sess = t, !.pc = "save"])
            /\ UNCHANGED sessionVars
        BY <4>1 DEF ToolCall, Actions, t
      <4>4. QED
        BY <4>2, <4>3, Zenon
    <3>2. CASE MarkDataComplete(h)
      <4> DEFINE t == [s EXCEPT !.dataComplete = TRUE,
                                !.stage = IF s.cvReceived
                                          THEN "awaiting_video"
                                          ELSE "awaiting_cv"]
      <4>1. t.cvReceived = s.cvReceived
        BY <1>1 DEF Session
      <4>2. ToolCall(h, "markDataComplete", "recruiting.data_complete", None, t)
        BY <3>2 DEF MarkDataComplete
      <4> HIDE DEF t
      <4>3. /\ "recruiting.data_complete" \in Actions \ {"recruiting.cv_received"}
            /\ Emit(h, "recruiting.data_complete", None,
                    [v EXCEPT !.sess = t, !.calls = @ - 1],
                    [v EXCEPT !.sess = t, !.pc = "save"])
            /\ UNCHANGED sessionVars
        BY <4>2 DEF ToolCall, Actions
      <4>4. QED
        BY <4>1, <4>3, Zenon
    <3>3. CASE MarkInterviewAccepted(h)
      <4> DEFINE t == [s EXCEPT !.interviewAccepted = TRUE]
      <4>1. t.cvReceived = s.cvReceived
        BY <1>1 DEF Session
      <4>2. ToolCall(h, "markInterviewAccepted",
                     "recruiting.interview_accepted", None, t)
        BY <3>3 DEF MarkInterviewAccepted
      <4> HIDE DEF t
      <4>3. /\ "recruiting.interview_accepted" \in Actions \ {"recruiting.cv_received"}
            /\ Emit(h, "recruiting.interview_accepted", None,
                    [v EXCEPT !.sess = t, !.calls = @ - 1],
                    [v EXCEPT !.sess = t, !.pc = "save"])
            /\ UNCHANGED sessionVars
        BY <4>2 DEF ToolCall, Actions
      <4>4. QED
        BY <4>1, <4>3, Zenon
    <3>4. QED
      BY <1>5, <3>1, <3>2, <3>3
  <2> DEFINE r == [v EXCEPT !.sess = t, !.calls = @ - 1]
  <2>2. Becomes(h, r) /\ UNCHANGED <<sessionVars, heard>>
    BY <2>1 DEF Emit, Tells
  <2>3. /\ r.pc # "idle" /\ r.cand = v.cand
        /\ s.cvReceived => r.sess.cvReceived
    BY <1>1, <2>1 DEF HandlerState
  <2> HIDE DEF r
  <2>4. QED
    BY <1>2, <2>2, <2>3
<1>6. CASE EndRound(h)
  <2> DEFINE Request == [v EXCEPT !.pc = "send",
                                  !.out = StageRequest(s).text,
                                  !.sess = StageRequest(s).sess]
             Again(n) == [v EXCEPT !.pc = "agent", !.round = n]
             Save == [v EXCEPT !.pc = "save"]
  <2>1. /\ Request.pc # "idle" /\ Request.cand = v.cand
        /\ s.cvReceived => Request.sess.cvReceived
    <3>1. s.cvReceived => StageRequest(s).sess.cvReceived
      BY <1>1 DEF StageRequest, Session
    <3>2. QED
      BY <1>1, <3>1 DEF HandlerState
  <2>2. Save.pc # "idle" /\ Save.cand = v.cand /\ Save.sess = s
    BY <1>1 DEF HandlerState
  <2>3. \A n : Again(n).pc # "idle" /\ Again(n).cand = v.cand /\ Again(n).sess = s
    BY <1>1 DEF HandlerState
  <2>4. /\ Becomes(h, Request) \/ Becomes(h, Save) \/ \E n : Becomes(h, Again(n))
        /\ UNCHANGED <<sessionVars, heard>>
    BY <1>6 DEF EndRound, crmVars
  <2> HIDE DEF Request, Again, Save
  <2>5. QED
    BY <1>2, <2>1, <2>2, <2>3, <2>4
<1>7. CASE ProcessInboundMedia(h)
  <2> DEFINE Notice == [v EXCEPT !.pc = "send", !.out = "notice"]
             To(p) == [v EXCEPT !.pc = p]
  <2>1. /\ Notice.pc # "idle" /\ Notice.cand = v.cand /\ Notice.sess = s
        /\ \A p \in {"save", "cv", "video"} :
              To(p).pc # "idle" /\ To(p).cand = v.cand /\ To(p).sess = s
    BY <1>1 DEF HandlerState
  <2>2. /\ \/ Becomes(h, Notice)
           \/ \E p \in {"save", "cv", "video"} : Becomes(h, To(p))
        /\ UNCHANGED <<sessionVars, heard>>
    BY <1>7 DEF ProcessInboundMedia, TakeMedia, crmVars
  <2> HIDE DEF Notice, To
  <2>3. QED
    BY <1>2, <2>1, <2>2
<1>8. CASE StoreCv(h)
  <2> DEFINE t == [s EXCEPT !.cvReceived = TRUE]
             Asked == [v EXCEPT !.pc = "send", !.out = "videoRequest",
                                !.sess = [t EXCEPT !.stage = "awaiting_video"]]
             Agent == [v EXCEPT !.pc = "agent", !.sess = t]
  <2>1. /\ Asked.pc # "idle" /\ Asked.cand = v.cand /\ Asked.sess.cvReceived
        /\ Agent.pc # "idle" /\ Agent.cand = v.cand /\ Agent.sess.cvReceived
    BY <1>1 DEF HandlerState, Session
  <2>2. /\ Becomes(h, Asked) \/ Becomes(h, Agent)
        /\ UNCHANGED sessionVars /\ heard' = heard \cup {v.cand}
    BY <1>8 DEF StoreCv, Emit, Tells
  <2> HIDE DEF Asked, Agent
  <2>3. QED
    BY <1>1, <2>1, <2>2 DEF Carries
<1>9. CASE AcceptVideo(h)
  <2> DEFINE r == [v EXCEPT !.pc = "send", !.out = "videoReceived",
                            !.sess.stage = "done"]
  <2>1. /\ r.pc # "idle" /\ r.cand = v.cand
        /\ s.cvReceived => r.sess.cvReceived
    BY <1>1 DEF HandlerState, Session
  <2>2. Becomes(h, r) /\ UNCHANGED <<sessionVars, heard>>
    BY <1>9 DEF AcceptVideo, crmVars
  <2> HIDE DEF r
  <2>3. QED
    BY <1>2, <2>1, <2>2
<1>10. CASE ReportVideo(h)
  <2> DEFINE r == [v EXCEPT !.pc = "save"]
  <2>1. r.pc # "idle" /\ r.cand = v.cand /\ r.sess = s
    BY <1>1 DEF HandlerState
  <2>2. Becomes(h, r) /\ UNCHANGED <<sessionVars, heard>>
    BY <1>10 DEF ReportVideo, Emit, Tells
  <2> HIDE DEF r
  <2>3. QED
    BY <1>2, <2>1, <2>2
<1>11. ~CallRejects(h)
  BY DEF CallRejects
<1>12. QED
  BY <1>3, <1>4, <1>5, <1>6, <1>7, <1>8, <1>9, <1>10, <1>11 DEF Progress

LEMMA HeardNext ==
    OneHandler /\ IInv /\ HeardOK /\ [Next]_vars => HeardOK'
<1> SUFFICES ASSUME OneHandler, IInv, HeardOK, [Next]_vars, ~faulty'
             PROVE  HeardOK'
  BY DEF HeardOK
<1>1. ~faulty
  BY FaultStays
<1>2. ASSUME NEW h \in Handlers,
             \/ \E phone \in Phones : ReceiveText(h, phone)
             \/ \E m \in Media : ReceiveMedia(h, m)
      PROVE  HeardOK'
  <2>1. PICK c \in Candidates, p \in {"text", "media"}, m \in Media \cup {None} :
          /\ Becomes(h, Entering(p, "reply", c, sessions[c], m))
          /\ sessions[c] # None
    BY <1>2 DEF ReceiveText, ReceiveMedia, IsSessionOfPhone, IsActive
  <2>2. \A g \in Handlers :
            /\ handler[g].pc = "idle"
            /\ handler'[g] = Entering(p, "reply", c, sessions[c], m)
    BY <1>2, <2>1 DEF OneHandler, Becomes, IInv, TypeOK, ReceiveText,
                      ReceiveMedia, At
  <2>3. UNCHANGED <<sessions, heard>>
    BY <1>2 DEF ReceiveText, ReceiveMedia, sessionVars, crmVars
  <2>4. QED
    BY <1>1, <2>1, <2>2, <2>3 DEF HeardOK, Entering
<1>3. ASSUME NEW h \in Handlers, NEW c \in Candidates,
             NEW prefilled \in SUBSET Fields, StartCapture(h, c, prefilled)
      PROVE  HeardOK'
  <2>1. PICK s : Becomes(h, Entering("opening", "start", c, s, None))
    BY <1>3 DEF StartCapture
  <2>2. \A g \in Handlers : handler[g].pc = "idle" /\ handler'[g].cand = c
    BY <1>3, <2>1 DEF OneHandler, Becomes, IInv, TypeOK, StartCapture, At,
                      Entering
  <2>3. /\ heard' = heard \ {c}
        /\ \A d \in Candidates : sessions'[d] \in {sessions[d], None}
    BY <1>3 DEF StartCapture, DeleteOthersOfPhone
  <2>4. QED
    BY <1>1, <2>2, <2>3 DEF HeardOK, IInv, TypeOK
<1>4. ASSUME NEW h \in Handlers, NEW c \in Candidates,
             EndSessionForCandidate(h, c)
      PROVE  HeardOK'
  BY <1>1, <1>4 DEF HeardOK, EndSessionForCandidate, IInv, TypeOK, crmVars
<1>5. ASSUME NEW h \in Handlers, Progress(h), ~SaveSession(h)
      PROVE  HeardOK'
  BY <1>1, <1>5, ProgressCarries, CarriesKeeps
<1>6. ASSUME NEW h \in Handlers, SaveSession(h)
      PROVE  HeardOK'
  <2>1. /\ sessions' = [sessions EXCEPT ![handler[h].cand] = handler[h].sess]
        /\ UNCHANGED heard /\ At(h, "save")
    BY <1>6 DEF SaveSession, Upsert, crmVars
  <2>2. \A g \in Handlers : g = h /\ handler'[g].pc = "idle"
    BY <1>6 DEF OneHandler, SaveSession, Becomes, Idle, Entering, IInv, TypeOK
  <2>3. QED
    BY <1>1, <2>1, <2>2 DEF HeardOK, At, IInv, TypeOK
<1>7. CASE UNCHANGED vars
  BY <1>7 DEF HeardOK, vars, sessionVars, crmVars
<1>8. ~Crash
  BY DEF Crash
<1>9. QED
  BY <1>2, <1>3, <1>4, <1>5, <1>6, <1>7, <1>8 DEF Next, Arrival

\* Handled one at a time and without a failure, a capture tells the CRM of one
\* CV, however often files come: what was told is in the stored session by
\* the time the next file is taken (storeCvMedia, saveSession, WantsCv).
THEOREM CvsAreReportedOnce == ASSUME OneHandler PROVE Spec => []CvReportedOnce
<1>1. Init => HeardOK
  BY DEF Init, HeardOK
<1>2. Init /\ [][Next]_vars /\ []IInv => []HeardOK
  BY <1>1, HeardNext, PTL
<1>3. SInv /\ HeardOK => CvReportedOnce
  BY DEF SInv, LocalOK, HeardOK, CvReportedOnce, At
<1>4. QED
  BY Invariance, SerialInvariance, <1>2, <1>3, PTL DEF Spec

\* The step that changes a stored session, if it is not deleted.
LEMMA OnlySavesWrite ==
    ASSUME IInv, [Next]_vars, NEW c \in Candidates,
           sessions'[c] # sessions[c], sessions'[c] # None
    PROVE  \E h \in Handlers : /\ SaveSession(h) /\ handler[h].cand = c
                               /\ sessions'[c] = handler[h].sess
<1>1. PICK h \in Handlers : Arrival(h) \/ Progress(h)
  BY DEF Next, Crash, vars, sessionVars
<1>2. ~Arrival(h)
  BY DEF Arrival, ReceiveText, ReceiveMedia, StartCapture,
         DeleteOthersOfPhone, EndSessionForCandidate, IInv, TypeOK, sessionVars
<1>3. SaveSession(h)
  BY <1>1, <1>2 DEF Progress, CallRejects, SendAssistantText,
       ProcessInboundText, AgentReplies, AgentCallsTools, SaveCapturedField,
       MarkDataComplete, MarkInterviewAccepted, ToolCall, UselessToolCall,
       EndRound, ProcessInboundMedia, StoreCv, AcceptVideo, ReportVideo,
       SendSessionOpening, sessionVars
<1>4. QED
  BY <1>3 DEF SaveSession, Upsert, IInv, TypeOK, sessionVars

\* No reply takes a stored session back: the copy it saves has all that was
\* there when it was read (saveSession).
THEOREM ProgressIsKept == ASSUME OneHandler PROVE Spec => ProgressKept
<1> DEFINE Kept(c) ==
        \/ sessions[c] = None \/ sessions'[c] = None
        \/ \E h \in Handlers : At(h, "save") /\ handler[h].job = "start"
        \/ Above(sessions'[c], sessions[c])
<1>1. IInv /\ SInv /\ [Next]_vars => \A c \in Candidates : Kept(c)
  <2> SUFFICES ASSUME IInv, SInv, [Next]_vars, NEW c \in Candidates,
                      sessions[c] # None, sessions'[c] # None,
                      ~\E h \in Handlers :
                           At(h, "save") /\ handler[h].job = "start"
               PROVE  Above(sessions'[c], sessions[c])
    OBVIOUS
  <2>1. CASE sessions'[c] = sessions[c]
    BY <2>1, AboveSelf DEF IInv, TypeOK
  <2>2. CASE sessions'[c] # sessions[c]
    <3>1. PICK h \in Handlers : /\ SaveSession(h) /\ handler[h].cand = c
                               /\ sessions'[c] = handler[h].sess
      BY <2>2, OnlySavesWrite
    <3>2. At(h, "save") /\ LocalOK(handler[h], sessions)
      BY <3>1 DEF SaveSession, SInv
    <3>3. QED
      BY <3>1, <3>2 DEF LocalOK, At
  <2>3. QED
    BY <2>1, <2>2
<1>2. QED
  BY Invariance, SerialInvariance, <1>1, PTL
     DEF Spec, ProgressKept, Above

-----------------------------------------------------------------------------
(* No request goes on for ever.                                            *)

\* The calls that n rounds of the agent may take: its completion, the tools it
\* asks for, and the end of the round.
Turns(n) == n * (ToolCallsMax + 2)

\* The steps that handler r may still take.
Left(r) ==
    CASE r.pc = "idle" -> 0
      [] r.pc = "save" -> 1
      [] r.pc = "reportVideo" -> 2
      [] r.pc = "send" -> 3
      [] r.pc \in {"video", "opening"} -> 4
      [] r.pc = "agent" -> Turns(ToolRoundsMax - r.round) + 3
      [] r.pc = "tools" -> Turns(ToolRoundsMax - r.round - 1) + r.calls + 4
      [] r.pc \in {"text", "cv"} -> Turns(ToolRoundsMax) + 4
      [] r.pc = "media" -> Turns(ToolRoundsMax) + 5

\* The most of any request: a file sent early, that the agent then answers.
MostSteps == Turns(ToolRoundsMax) + 5

\* The rounds that are left when the agent is at work.
RoundsOK(r) ==
    /\ r.pc \in {"text", "media", "cv", "video", "opening"} => r.round = 0
    /\ r.pc \in {"agent", "tools"} => r.round < ToolRoundsMax

LEMMA TurnsAre ==
    /\ Turns(0) = 0
    /\ \A n \in Nat :
          Turns(n) \in Nat /\ Turns(n + 1) = Turns(n) + ToolCallsMax + 2
    /\ \A m, n \in Nat : m <= n => Turns(m) <= Turns(n)
<1>1. ToolCallsMax \in Nat
  BY BoundsAssumption
<1>2. \A n \in Nat :
         Turns(n) \in Nat /\ Turns(n + 1) = Turns(n) + ToolCallsMax + 2
  BY <1>1 DEF Turns
<1>3. ASSUME NEW m \in Nat, NEW n \in Nat, m <= n
      PROVE  Turns(m) <= Turns(n)
  <2>1. n - m \in Nat /\ Turns(n - m) \in Nat
    BY <1>2, <1>3
  <2>2. Turns(n) = Turns(m) + Turns(n - m)
    BY <1>1, <1>3, <2>1 DEF Turns
  <2>3. QED
    BY <1>2, <2>1, <2>2
<1>4. QED
  BY <1>1, <1>2, <1>3 DEF Turns

\* The rounds left after the one at hand.
After(r) == ToolRoundsMax - r.round - 1

\* What is left, with the round at hand taken apart.
LEMMA LeftIs ==
    ASSUME NEW r \in HandlerState, RoundsOK(r)
    PROVE  /\ r.pc \in {"agent", "tools"} =>
                 /\ After(r) \in 0 .. ToolRoundsMax - 1
                 /\ Turns(After(r)) \in Nat
                 /\ Left(r) = Turns(After(r)) + 4
                               + (IF r.pc = "tools" THEN r.calls
                                  ELSE ToolCallsMax + 1)
           /\ Left(r) \in 0 .. MostSteps
<1> DEFINE n == ToolRoundsMax - r.round - 1
<1>1. /\ r.round \in Nat /\ r.calls \in 0 .. ToolCallsMax /\ r.pc \in Points
      /\ ToolRoundsMax \in Nat /\ ToolCallsMax \in Nat
  BY BoundsAssumption DEF HandlerState
<1>2. Turns(ToolRoundsMax) \in Nat
  BY <1>1, TurnsAre
<1>3. CASE r.pc \in {"agent", "tools"}
  <2>1. n \in 0 .. ToolRoundsMax - 1 /\ ToolRoundsMax - r.round = n + 1
    BY <1>1, <1>3 DEF RoundsOK
  <2>2. Left(r) = IF r.pc = "agent" THEN Turns(n + 1) + 3
                                    ELSE Turns(n) + r.calls + 4
    BY <1>3, <2>1 DEF Left
  <2> HIDE DEF n
  <2>3. n \in Nat /\ n + 1 \in Nat /\ n + 1 <= ToolRoundsMax
    BY <1>1, <2>1
  <2>4. /\ Turns(n) \in Nat /\ Turns(n + 1) = Turns(n) + ToolCallsMax + 2
        /\ Turns(n + 1) <= Turns(ToolRoundsMax)
    BY <1>1, <2>3, TurnsAre
  <2>5. /\ n \in 0 .. ToolRoundsMax - 1 /\ Turns(n) \in Nat
        /\ Left(r) = Turns(n) + 4 + (IF r.pc = "tools" THEN r.calls
                                     ELSE ToolCallsMax + 1)
        /\ Left(r) \in 0 .. MostSteps
    BY <1>1, <1>2, <1>3, <2>1, <2>2, <2>4 DEF MostSteps
  <2>6. QED
    BY <1>3, <2>5 DEF n, After
<1>4. CASE r.pc \notin {"agent", "tools"}
  <2>1. Left(r) \in {0, 1, 2, 3, 4, Turns(ToolRoundsMax) + 4,
                     Turns(ToolRoundsMax) + 5}
    BY <1>1, <1>4 DEF Left, Points
  <2>2. QED
    BY <1>2, <1>4, <2>1 DEF MostSteps
<1>5. QED
  BY <1>3, <1>4

\* Handler h goes on as next, with less to do.
Nears(h, next) ==
    Becomes(h, next) /\ RoundsOK(next) /\ Left(next) < Left(handler[h])

LEMMA ProgressNears ==
    ASSUME IInv, NEW h \in Handlers, RoundsOK(handler[h]), Progress(h)
    PROVE  \E next : Nears(h, next)
<1> DEFINE r == handler[h]
           n == After(r)
<1>1. /\ r \in HandlerState /\ r.round \in Nat /\ r.calls \in 0 .. ToolCallsMax
      /\ ToolRoundsMax \in Nat /\ ToolCallsMax \in Nat /\ ToolRoundsMax > 0
      /\ r.pc \in Points
  BY BoundsAssumption DEF IInv, TypeOK, HandlerState
<1>2. r = [pc |-> r.pc, job |-> r.job, cand |-> r.cand, sess |-> r.sess,
           media |-> r.media, out |-> r.out, round |-> r.round,
           calls |-> r.calls]
  BY <1>1 DEF HandlerState
<1>3. /\ r.pc \in {"agent", "tools"} =>
            /\ n \in Nat /\ Turns(n) \in Nat
            /\ Left(r) = Turns(n) + 4
                         + (IF r.pc = "tools" THEN r.calls
                            ELSE ToolCallsMax + 1)
      /\ Turns(ToolRoundsMax) \in Nat
      /\ Left(r) \in Nat
      /\ RoundsOK(r)
  <2>1. RoundsOK(r) /\ Left(r) \in 0 .. MostSteps
    BY <1>1, LeftIs
  <2>2. Turns(ToolRoundsMax) \in Nat
    BY <1>1, TurnsAre
  <2>3. Left(r) \in Nat
    BY <2>1, <2>2 DEF MostSteps
  <2>4. n \in 0 .. ToolRoundsMax - 1 => n \in Nat
    BY <1>1
  <2>5. QED
    BY <1>1, <2>1, <2>2, <2>3, <2>4, LeftIs
<1>4. /\ r.pc \notin {"idle", "save", "reportVideo", "send"} => Left(r) > 3
      /\ r.pc = "send" => Left(r) = 3
      /\ r.pc = "reportVideo" => Left(r) = 2
      /\ r.pc = "save" => Left(r) = 1
  <2> HIDE DEF n
  <2>1. CASE r.pc \in {"agent", "tools"}
    BY <1>1, <1>3, <2>1
  <2>2. CASE r.pc \in {"text", "media", "cv", "video", "opening"}
    <3>1. Left(r) \in {4, Turns(ToolRoundsMax) + 4, Turns(ToolRoundsMax) + 5}
      BY <2>2 DEF Left
    <3>2. QED
      BY <1>3, <2>2, <3>1
  <2>3. CASE r.pc \in {"idle", "save", "reportVideo", "send"}
    BY <2>3 DEF Left
  <2>4. QED
    BY <1>1, <2>1, <2>2, <2>3 DEF Points
<1> HIDE DEF r, n
\* To one of the points after the agent.
<1>5. ASSUME NEW next, Becomes(h, next),
             \/ next.pc = "save" /\ r.pc \notin {"idle", "save"}
             \/ next.pc = "reportVideo" /\ r.pc = "send"
             \/ next.pc = "send"
                   /\ r.pc \notin {"idle", "save", "reportVideo", "send"}
      PROVE  \E to : Nears(h, to)
  <2>1. /\ next.pc = "save" => Left(next) = 1
        /\ next.pc = "reportVideo" => Left(next) = 2
        /\ next.pc = "send" => Left(next) = 3
    BY DEF Left
  <2>2. RoundsOK(next)
    BY <1>5 DEF RoundsOK
  <2>3. Left(next) < Left(r)
    BY <1>3, <1>4, <1>5, <2>1
  <2>4. QED
    BY <1>5, <2>2, <2>3 DEF Nears, r
<1>6. CASE SaveSession(h)
  <2>1. Becomes(h, Idle) /\ r.pc = "save"
    BY <1>6 DEF SaveSession, At, r
  <2>2. Left(Idle) = 0 /\ RoundsOK(Idle)
    BY DEF Left, RoundsOK, Idle, Entering
  <2>3. QED
    BY <1>4, <2>1, <2>2 DEF Nears, r
<1>7. CASE CallRejects(h) \/ SendSessionOpening(h) \/ ReportVideo(h)
  <2>1. Becomes(h, [r EXCEPT !.pc = "save"]) /\ r.pc \notin {"idle", "save"}
    BY <1>7 DEF CallRejects, SendSessionOpening, ReportVideo, Emit, Awaiting,
       At, r
  <2>2. [r EXCEPT !.pc = "save"].pc = "save"
    BY <1>2
  <2>3. QED
    BY <1>5, <2>1, <2>2
<1>8. CASE SendAssistantText(h)
  <2>1. Becomes(h, [r EXCEPT !.pc = AfterSending(r.out)]) /\ r.pc = "send"
    BY <1>8 DEF SendAssistantText, At, r
  <2>2. [r EXCEPT !.pc = AfterSending(r.out)].pc \in {"save", "reportVideo"}
    BY <1>2 DEF AfterSending
  <2>3. QED
    BY <1>5, <2>1, <2>2
\* To the agent's first round.
<1>9. ASSUME NEW next, Becomes(h, next), next.pc = "agent", next.round = r.round,
             r.pc \in {"text", "cv"}
      PROVE  \E to : Nears(h, to)
  <2>1. r.round = 0 /\ Left(r) = Turns(ToolRoundsMax) + 4
    BY <1>3, <1>9 DEF RoundsOK, Left
  <2>2. RoundsOK(next) /\ Left(next) = Turns(ToolRoundsMax) + 3
    BY <1>1, <1>9, <2>1 DEF RoundsOK, Left
  <2>3. QED
    BY <1>3, <1>9, <2>1, <2>2 DEF Nears, r
<1>10. CASE ProcessInboundText(h)
  <2>1. r.pc = "text" /\ RoundsOK(r)
    BY <1>3, <1>10 DEF ProcessInboundText, At, r
  <2>2. \E next : /\ Becomes(h, next)
                  /\ \/ next.pc = "send"
                     \/ next.pc = "agent" /\ next.round = r.round
    <3>1. \/ Becomes(h, [r EXCEPT !.pc = "send", !.out = "notice"])
          \/ Becomes(h, [r EXCEPT !.pc = "send", !.out = "cvRequest",
                                  !.sess.cvRequested = TRUE])
          \/ Becomes(h, [r EXCEPT !.pc = "agent"])
      BY <1>10 DEF ProcessInboundText, r
    <3>2. /\ [r EXCEPT !.pc = "send", !.out = "notice"].pc = "send"
          /\ [r EXCEPT !.pc = "send", !.out = "cvRequest",
                       !.sess.cvRequested = TRUE].pc = "send"
          /\ [r EXCEPT !.pc = "agent"].pc = "agent"
          /\ [r EXCEPT !.pc = "agent"].round = r.round
      BY <1>2
    <3>3. QED
      BY <3>1, <3>2
  <2>3. QED
    BY <1>5, <1>9, <2>1, <2>2
<1>11. CASE AgentReplies(h)
  <2>1. /\ \/ Becomes(h, [r EXCEPT !.pc = "send", !.out = "notice"])
           \/ Becomes(h, [r EXCEPT !.pc = "save"])
        /\ r.pc = "agent"
    BY <1>11 DEF AgentReplies, At, r
  <2>2. /\ [r EXCEPT !.pc = "send", !.out = "notice"].pc = "send"
        /\ [r EXCEPT !.pc = "save"].pc = "save"
    BY <1>2
  <2>3. QED
    BY <1>5, <2>1, <2>2
\* Within a round.
<1>12. ASSUME NEW next, Becomes(h, next), next.pc = "tools",
              next.round = r.round, next.calls \in 0 .. ToolCallsMax,
              \/ r.pc = "agent"
              \/ r.pc = "tools" /\ next.calls < r.calls
       PROVE  \E to : Nears(h, to)
  <2>1. n \in Nat /\ Turns(n) \in Nat /\ RoundsOK(next)
    BY <1>3, <1>12 DEF RoundsOK
  <2>2. Left(next) = Turns(n) + next.calls + 4
    BY <1>12 DEF Left, After, n
  <2>3. Left(next) < Left(r)
    BY <1>1, <1>3, <1>12, <2>1, <2>2
  <2>4. QED
    BY <1>12, <2>1, <2>3 DEF Nears, r
<1>13. CASE AgentCallsTools(h)
  <2>1. PICK k \in 1 .. ToolCallsMax :
            Becomes(h, [r EXCEPT !.pc = "tools", !.calls = k])
    BY <1>13 DEF AgentCallsTools, r
  <2> DEFINE next == [r EXCEPT !.pc = "tools", !.calls = k]
  <2>2. next.pc = "tools" /\ next.round = r.round /\ next.calls = k
    BY <1>2
  <2>3. r.pc = "agent" /\ Becomes(h, next)
    BY <1>13, <2>1 DEF AgentCallsTools, At, r
  <2> HIDE DEF next
  <2>4. QED
    BY <1>1, <1>12, <2>2, <2>3
<1>14. ASSUME NEW name, NEW action, NEW item, NEW s,
              ToolCall(h, name, action, item, s)
       PROVE  \E to : Nears(h, to)
  <2> DEFINE ok == [r EXCEPT !.sess = s, !.calls = @ - 1]
             bad == [r EXCEPT !.sess = s, !.pc = "save"]
  <2>1. r.pc = "tools" /\ r.calls > 0 /\ (Becomes(h, ok) \/ Becomes(h, bad))
    BY <1>14 DEF ToolCall, Emit, At, r
  <2>2. /\ ok.pc = "tools" /\ ok.round = r.round /\ ok.calls = r.calls - 1
        /\ bad.pc = "save"
    BY <1>2, <2>1
  <2> HIDE DEF ok, bad
  <2>3. ok.calls \in 0 .. ToolCallsMax /\ ok.calls < r.calls
    BY <1>1, <2>1, <2>2
  <2>4. QED
    BY <1>5, <1>12, <2>1, <2>2, <2>3
<1>15. CASE SaveCapturedField(h) \/ MarkDataComplete(h)
               \/ MarkInterviewAccepted(h)
  BY <1>14, <1>15
     DEF SaveCapturedField, MarkDataComplete, MarkInterviewAccepted
<1>16. CASE UselessToolCall(h)
  <2> DEFINE next == [r EXCEPT !.calls = @ - 1]
  <2>1. r.pc = "tools" /\ r.calls > 0 /\ Becomes(h, next)
    BY <1>16 DEF UselessToolCall, At, r
  <2>2. next.pc = "tools" /\ next.round = r.round /\ next.calls = r.calls - 1
    BY <1>2, <2>1
  <2> HIDE DEF next
  <2>3. QED
    BY <1>1, <1>12, <2>1, <2>2
<1>17. CASE EndRound(h)
  <2> DEFINE req == StageRequest(r.sess)
             send == [r EXCEPT !.pc = "send", !.out = req.text, !.sess = req.sess]
             agent == [r EXCEPT !.pc = "agent", !.round = r.round + 1]
             save == [r EXCEPT !.pc = "save"]
  <2>1. /\ r.pc = "tools" /\ r.calls = 0
        /\ \/ Becomes(h, send)
           \/ Becomes(h, agent) /\ r.round + 1 < ToolRoundsMax
           \/ Becomes(h, save)
    BY <1>17 DEF EndRound, RoundDone, AnotherRound, At, r
  <2>2. /\ send.pc = "send" /\ save.pc = "save"
        /\ agent.pc = "agent" /\ agent.round = r.round + 1
    BY <1>2
  <2> HIDE DEF send, agent, save
  <2>3. ASSUME Becomes(h, agent), r.round + 1 < ToolRoundsMax
        PROVE  \E to : Nears(h, to)
    <3>1. RoundsOK(agent) /\ ToolRoundsMax - agent.round = n
      BY <1>1, <2>2, <2>3 DEF RoundsOK, After, n
    <3>2. Left(agent) = Turns(n) + 3
      BY <2>2, <3>1 DEF Left
    <3>3. QED
      BY <1>3, <2>1, <2>3, <3>1, <3>2 DEF Nears, r
  <2>4. QED
    BY <1>5, <2>1, <2>2, <2>3
<1>18. CASE ProcessInboundMedia(h)
  <2>1. /\ r.pc = "media"
        /\ \/ Becomes(h, [r EXCEPT !.pc = "save"])
           \/ Becomes(h, [r EXCEPT !.pc = "cv"])
           \/ Becomes(h, [r EXCEPT !.pc = "video"])
           \/ Becomes(h, [r EXCEPT !.pc = "send", !.out = "notice"])
    BY <1>18 DEF ProcessInboundMedia, TakeMedia, At, r
  <2>2. ASSUME NEW point \in {"cv", "video"},
               Becomes(h, [r EXCEPT !.pc = point])
        PROVE  \E to : Nears(h, to)
    <3> DEFINE next == [r EXCEPT !.pc = point]
    <3>1. next.pc = point /\ next.round = r.round /\ Becomes(h, next)
      BY <1>2, <2>2
    <3>2. r.round = 0 /\ Left(r) = Turns(ToolRoundsMax) + 5
      BY <1>3, <2>1 DEF RoundsOK, Left
    <3> HIDE DEF next
    <3>3. RoundsOK(next) /\ Left(next) \in {4, Turns(ToolRoundsMax) + 4}
      BY <3>1, <3>2 DEF RoundsOK, Left
    <3>4. QED
      BY <1>3, <3>1, <3>2, <3>3 DEF Nears, r
  <2>3. /\ [r EXCEPT !.pc = "save"].pc = "save"
        /\ [r EXCEPT !.pc = "send", !.out = "notice"].pc = "send"
    BY <1>2
  <2>4. QED
    BY <1>5, <2>1, <2>2, <2>3
<1>19. CASE StoreCv(h)
  <2> DEFINE s == [r.sess EXCEPT !.cvReceived = TRUE]
             send == [r EXCEPT !.pc = "send", !.out = "videoRequest",
                               !.sess = [s EXCEPT !.stage = "awaiting_video"]]
             agent == [r EXCEPT !.pc = "agent", !.sess = s]
             save == [r EXCEPT !.pc = "save"]
  <2>1. /\ r.pc = "cv"
        /\ Becomes(h, send) \/ Becomes(h, agent) \/ Becomes(h, save)
    BY <1>19 DEF StoreCv, Emit, At, r
  <2>2. /\ send.pc = "send" /\ save.pc = "save"
        /\ agent.pc = "agent" /\ agent.round = r.round
    BY <1>2
  <2> HIDE DEF send, agent, save
  <2>3. QED
    BY <1>5, <1>9, <2>1, <2>2
<1>20. CASE AcceptVideo(h)
  <2> DEFINE next == [r EXCEPT !.pc = "send", !.out = "videoReceived",
                               !.sess.stage = "done"]
  <2>1. r.pc = "video" /\ Becomes(h, next)
    BY <1>20 DEF AcceptVideo, At, r
  <2>2. next.pc = "send"
    BY <1>2
  <2> HIDE DEF next
  <2>3. QED
    BY <1>5, <2>1, <2>2
<1>21. QED
  BY <1>6, <1>7, <1>8, <1>10, <1>11, <1>13, <1>15, <1>16, <1>17, <1>18,
     <1>19, <1>20 DEF Progress

InRounds == \A h \in Handlers : RoundsOK(handler[h])

LEMMA InRoundsNext == IInv /\ InRounds /\ [Next]_vars => InRounds'
<1> SUFFICES ASSUME IInv, InRounds, [Next]_vars
             PROVE  InRounds'
  OBVIOUS
<1>1. ASSUME NEW h \in Handlers, NEW next, Becomes(h, next), RoundsOK(next)
      PROVE  InRounds'
  <2>1. ASSUME NEW g \in Handlers
        PROVE  handler'[g] \in {next, handler[g]}
    BY <1>1 DEF IInv, TypeOK, Becomes
  <2>2. QED
    BY <1>1, <2>1 DEF InRounds
<1>2. CASE UNCHANGED handler
  BY <1>2 DEF InRounds
<1>3. CASE Crash
  <2>1. \A h \in Handlers : handler'[h].pc = "idle"
    BY <1>3 DEF Crash, Idle, Entering
  <2>2. QED
    BY <2>1 DEF InRounds, RoundsOK
<1>4. ASSUME NEW h \in Handlers, Arrival(h)
      PROVE  InRounds'
  <2>1. \A point \in {"text", "media", "opening"} :
            \A job, c, s, m : RoundsOK(Entering(point, job, c, s, m))
    BY DEF RoundsOK, Entering
  <2>2. \/ UNCHANGED handler
        \/ \E point \in {"text", "media", "opening"} :
               \E job, c, s, m : Becomes(h, Entering(point, job, c, s, m))
    BY <1>4 DEF Arrival, ReceiveText, ReceiveMedia, StartCapture,
       EndSessionForCandidate
  <2>3. QED
    BY <1>1, <1>2, <2>1, <2>2
<1>5. ASSUME NEW h \in Handlers, Progress(h)
      PROVE  InRounds'
  BY <1>1, <1>5, ProgressNears DEF Nears, InRounds
<1>6. QED
  BY <1>2, <1>3, <1>4, <1>5 DEF Next, vars

LEMMA InRoundsAlways == Spec => []InRounds
<1>1. Init => InRounds
  BY DEF Init, Idle, Entering, InRounds, RoundsOK
<1>2. QED
  BY <1>1, InRoundsNext, Invariance, PTL DEF Spec

\* Whatever a request does leaves it less to do, and nothing that others do
\* leaves it more, until it has ended.
OnlyNears(h) ==
    /\ Progress(h) => Left(handler'[h]) < Left(handler[h])
    /\ ~At(h, "idle") => Left(handler'[h]) <= Left(handler[h])

\* No reply and no start of a capture goes on for ever: it has ended after at
\* most MostSteps steps of its own, whatever the model answers, the calls do and
\* other requests write meanwhile (runAgentTurn counts its rounds, and the rest
\* of handleInboundText, handleInboundMedia and startCapture goes one way).
THEOREM RequestsAreBounded ==
    Spec => /\ [](\A h \in Handlers : Left(handler[h]) \in 0 .. MostSteps)
            /\ [][\A h \in Handlers : OnlyNears(h)]_vars
<1>1. IInv /\ InRounds => \A h \in Handlers : Left(handler[h]) \in 0 .. MostSteps
  BY LeftIs DEF IInv, TypeOK, InRounds
<1>2. IInv /\ InRounds /\ [Next]_vars => \A h \in Handlers : OnlyNears(h)
  <2> SUFFICES ASSUME IInv, InRounds, [Next]_vars, NEW h \in Handlers
               PROVE  OnlyNears(h)
    OBVIOUS
  <2>1. Left(handler[h]) \in Nat
    <3>1. MostSteps \in Nat
      BY BoundsAssumption, TurnsAre DEF MostSteps
    <3>2. QED
      BY <1>1, <3>1
  <2>2. ASSUME NEW g \in Handlers, NEW next, Becomes(g, next)
        PROVE  /\ g = h => handler'[h] = next
               /\ g # h => handler'[h] = handler[h]
    BY <2>2 DEF IInv, TypeOK, Becomes
  <2>3. Progress(h) => Left(handler'[h]) < Left(handler[h])
    BY <2>2, ProgressNears DEF Nears, InRounds
  <2>4. ASSUME ~At(h, "idle")
        PROVE  Left(handler'[h]) <= Left(handler[h])
    <3>1. CASE handler'[h] = handler[h]
      BY <2>1, <3>1
    <3>2. CASE Crash
      <4>1. Left(handler'[h]) = 0
        BY <3>2 DEF Crash, Idle, Entering, Left
      <4>2. QED
        BY <2>1, <4>1
    <3>3. ASSUME NEW g \in Handlers, Arrival(g)
          PROVE  handler'[h] = handler[h]
      <4>1. At(g, "idle") /\ (UNCHANGED handler \/ \E next : Becomes(g, next))
        BY <3>3 DEF Arrival, ReceiveText, ReceiveMedia, StartCapture,
           EndSessionForCandidate
      <4>2. QED
        BY <2>2, <2>4, <4>1 DEF At
    <3>4. ASSUME NEW g \in Handlers, Progress(g)
          PROVE  Left(handler'[h]) <= Left(handler[h])
      <4>1. PICK next : Nears(g, next)
        BY <3>4, ProgressNears DEF InRounds
      <4>2. CASE g = h
        <5>1. RoundsOK(next) /\ Left(next) < Left(handler[h])
                 /\ handler'[h] = next
          BY <2>2, <4>1, <4>2 DEF Nears
        <5>2. handler'[h] \in HandlerState
          <6>1. IInv'
            BY NextKeeps
          <6>2. QED
            BY <6>1 DEF IInv, TypeOK
        <5>3. Left(next) \in 0 .. MostSteps
          BY <5>1, <5>2, LeftIs
        <5>4. MostSteps \in Nat
          BY BoundsAssumption, TurnsAre DEF MostSteps
        <5>5. QED
          BY <2>1, <5>1, <5>3, <5>4
      <4>3. CASE g # h
        BY <2>1, <2>2, <4>1, <4>3 DEF Nears
      <4>4. QED
        BY <4>2, <4>3
    <3>5. QED
      BY <3>1, <3>2, <3>3, <3>4 DEF Next, vars
  <2>5. QED
    BY <2>3, <2>4 DEF OnlyNears
<1>3. QED
  BY <1>1, <1>2, Invariance, InRoundsAlways, PTL DEF Spec
=============================================================================
