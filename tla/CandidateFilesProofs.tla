------------------------ MODULE CandidateFilesProofs ------------------------
(***************************************************************************)
(* Proofs about CandidateFiles, for any number of candidates, messages and *)
(* overlapping requests, and any failures.  The composed system is one of  *)
(* the runs of ChatStore and one of RecruitingCapture, so that whatever    *)
(* is proved of either holds of it; what neither could say alone is        *)
(* proved here: the files of reported CVs are kept, and nothing is deleted *)
(* but for its own candidate.                                              *)
(***************************************************************************)
EXTENDS CandidateFiles, ChatStoreProofs, TLAPS

\* The theorems about RecruitingCapture, for the capture composed here.
CP == INSTANCE RecruitingCaptureProofs WITH
    Phones   <- Numbers,
    Media    <- WithMedia,
    SenderOf <- [m \in WithMedia |-> NumberOf[LineOf[m]]],
    handler  <- capture,
    faulty   <- rejected

\* The assumptions of RecruitingCapture.
LEMMA CaptureGiven ==
    /\ PhoneOf \in [Candidates -> Numbers]
    /\ [m \in WithMedia |-> NumberOf[LineOf[m]]] \in [WithMedia -> Numbers]
    /\ KindOf \in [WithMedia -> {"pdf", "video", "other"}]
    /\ ToolsCalled \subseteq CP!Tools
    /\ ToolRoundsMax \in Nat \ {0}
    /\ ToolCallsMax \in Nat \ {0}
    /\ None \notin CP!Session
    /\ None \notin Candidates
    /\ None \notin WithMedia
    /\ None \notin CP!Texts
<1>1. [m \in WithMedia |-> NumberOf[LineOf[m]]] \in [WithMedia -> Numbers]
  BY MessagesAssumption DEF Wamids
<1>2. None \notin WithMedia
  BY MessagesAssumption, NoneAssumption DEF Wamids
<1>3. CP!Tools = Capture!Tools /\ CP!Texts = Capture!Texts
  BY DEF CP!Tools, Capture!Tools, CP!Texts, Capture!Texts
<1>4. CP!Session = Capture!Session
  BY DEF CP!Session, Capture!Session, CP!Stages, Capture!Stages
<1>5. QED
  BY <1>1, <1>2, <1>3, <1>4, CandidatesAssumption, NoCandidateAssumption

LEMMA CaptureInvariance == CP!Spec => []CP!IInv
BY CaptureGiven, CP!Invariance DEF CP!Tools, CP!Session, CP!Texts

-----------------------------------------------------------------------------
(* The capture composed here and the one of CP are the same.               *)

LEMMA SameInit == Capture!Init => CP!Init
BY DEF Capture!Init, CP!Init, Capture!Idle, CP!Idle, Capture!Entering,
       CP!Entering

LEMMA SameNext == Capture!Next => CP!Next
<1>1. \A h :
          Capture!SaveSession(h) => CP!SaveSession(h)
  BY DEF Capture!SaveSession, CP!SaveSession, Capture!At, CP!At,
         Capture!Upsert, CP!Upsert, Capture!Touch, CP!Touch,
         Capture!sessionVars, CP!sessionVars, Capture!Becomes, CP!Becomes,
         Capture!Idle, CP!Idle, Capture!Entering, CP!Entering,
         Capture!crmVars, CP!crmVars
<1>2. \A h :
          Capture!CallRejects(h) => CP!CallRejects(h)
  BY DEF Capture!CallRejects, CP!CallRejects, Capture!Awaiting, CP!Awaiting,
         Capture!At, CP!At, Capture!Deliver, CP!Deliver,
         Capture!OpeningEvents, CP!OpeningEvents, Capture!Becomes, CP!Becomes,
         Capture!sessionVars, CP!sessionVars
<1>3. \A h :
          Capture!SendAssistantText(h) => CP!SendAssistantText(h)
  BY DEF Capture!SendAssistantText, CP!SendAssistantText, Capture!At, CP!At,
         Capture!Deliver, CP!Deliver, Capture!Becomes, CP!Becomes,
         Capture!AfterSending, CP!AfterSending, Capture!sessionVars,
         CP!sessionVars
<1>4. \A h, phone :
          Capture!ReceiveText(h, phone) => CP!ReceiveText(h, phone)
  BY DEF Capture!ReceiveText, CP!ReceiveText, Capture!At, CP!At,
         Capture!IsSessionOfPhone, CP!IsSessionOfPhone, Capture!IsActive,
         CP!IsActive, Capture!Becomes, CP!Becomes, Capture!Entering,
         CP!Entering, Capture!sessionVars, CP!sessionVars, Capture!crmVars,
         CP!crmVars
<1>5. \A h :
          Capture!ProcessInboundText(h) => CP!ProcessInboundText(h)
  BY DEF Capture!ProcessInboundText, CP!ProcessInboundText, Capture!At, CP!At,
         Capture!Becomes, CP!Becomes, Capture!sessionVars, CP!sessionVars,
         Capture!crmVars, CP!crmVars
<1>6. \A h :
          Capture!AgentReplies(h) => CP!AgentReplies(h)
  BY DEF Capture!AgentReplies, CP!AgentReplies, Capture!At, CP!At,
         Capture!Becomes, CP!Becomes, Capture!sessionVars, CP!sessionVars,
         Capture!crmVars, CP!crmVars
<1>7. \A h :
          Capture!AgentCallsTools(h) => CP!AgentCallsTools(h)
  BY DEF Capture!AgentCallsTools, CP!AgentCallsTools, Capture!At, CP!At,
         Capture!Becomes, CP!Becomes, Capture!sessionVars, CP!sessionVars,
         Capture!crmVars, CP!crmVars
<1>8. \A h :
          Capture!SaveCapturedField(h) => CP!SaveCapturedField(h)
  BY DEF Capture!SaveCapturedField, CP!SaveCapturedField, Capture!ToolCall,
         CP!ToolCall, Capture!At, CP!At, Capture!Emit, CP!Emit,
         Capture!Tells, CP!Tells, Capture!Becomes, CP!Becomes,
         Capture!sessionVars, CP!sessionVars
<1>9. \A h :
          Capture!MarkDataComplete(h) => CP!MarkDataComplete(h)
  BY DEF Capture!MarkDataComplete, CP!MarkDataComplete, Capture!ToolCall,
         CP!ToolCall, Capture!At, CP!At, Capture!Emit, CP!Emit,
         Capture!Tells, CP!Tells, Capture!Becomes, CP!Becomes,
         Capture!sessionVars, CP!sessionVars
<1>10. \A h :
          Capture!MarkInterviewAccepted(h) => CP!MarkInterviewAccepted(h)
  BY DEF Capture!MarkInterviewAccepted, CP!MarkInterviewAccepted,
         Capture!ToolCall, CP!ToolCall, Capture!At, CP!At, Capture!Emit,
         CP!Emit, Capture!Tells, CP!Tells, Capture!Becomes, CP!Becomes, Capture!sessionVars,
         CP!sessionVars
<1>11. \A h :
          Capture!UselessToolCall(h) => CP!UselessToolCall(h)
  BY DEF Capture!UselessToolCall, CP!UselessToolCall, Capture!At, CP!At,
         Capture!Becomes, CP!Becomes, Capture!sessionVars, CP!sessionVars,
         Capture!crmVars, CP!crmVars
<1>12. \A h :
          Capture!EndRound(h) => CP!EndRound(h)
  BY DEF Capture!EndRound, CP!EndRound, Capture!At, CP!At, Capture!RoundDone,
         CP!RoundDone, Capture!Becomes, CP!Becomes, Capture!StageRequest,
         CP!StageRequest, Capture!AnotherRound, CP!AnotherRound,
         Capture!sessionVars, CP!sessionVars, Capture!crmVars, CP!crmVars
<1>13. \A h, m :
          Capture!ReceiveMedia(h, m) => CP!ReceiveMedia(h, m)
  BY DEF Capture!ReceiveMedia, CP!ReceiveMedia, Capture!At, CP!At,
         Capture!IsSessionOfPhone, CP!IsSessionOfPhone, Capture!IsActive,
         CP!IsActive, Capture!Becomes, CP!Becomes, Capture!Entering,
         CP!Entering, Capture!sessionVars, CP!sessionVars, Capture!crmVars,
         CP!crmVars
<1>14. \A h :
          Capture!ProcessInboundMedia(h) => CP!ProcessInboundMedia(h)
  BY DEF Capture!ProcessInboundMedia, CP!ProcessInboundMedia, Capture!At,
         CP!At, Capture!TakeMedia, CP!TakeMedia, Capture!WantsCv, CP!WantsCv,
         Capture!Becomes, CP!Becomes, Capture!sessionVars, CP!sessionVars,
         Capture!crmVars, CP!crmVars
<1>15. \A h :
          Capture!StoreCv(h) => CP!StoreCv(h)
  BY DEF Capture!StoreCv, CP!StoreCv, Capture!At, CP!At, Capture!Emit,
         CP!Emit, Capture!Tells, CP!Tells, Capture!Becomes, CP!Becomes, Capture!sessionVars,
         CP!sessionVars
<1>16. \A h :
          Capture!AcceptVideo(h) => CP!AcceptVideo(h)
  BY DEF Capture!AcceptVideo, CP!AcceptVideo, Capture!At, CP!At,
         Capture!Becomes, CP!Becomes, Capture!sessionVars, CP!sessionVars,
         Capture!crmVars, CP!crmVars
<1>17. \A h :
          Capture!ReportVideo(h) => CP!ReportVideo(h)
  BY DEF Capture!ReportVideo, CP!ReportVideo, Capture!At, CP!At, Capture!Emit,
         CP!Emit, Capture!Tells, CP!Tells, Capture!Becomes, CP!Becomes, Capture!sessionVars,
         CP!sessionVars
<1>18. \A h, c, prefilled :
          Capture!StartCapture(h, c, prefilled)
              => CP!StartCapture(h, c, prefilled)
  BY DEF Capture!StartCapture, CP!StartCapture, Capture!At, CP!At,
         Capture!DeleteOthersOfPhone, CP!DeleteOthersOfPhone, Capture!Becomes,
         CP!Becomes, Capture!Entering, CP!Entering, Capture!crmVars,
         CP!crmVars
<1>19. \A h :
          Capture!SendSessionOpening(h) => CP!SendSessionOpening(h)
  BY DEF Capture!SendSessionOpening, CP!SendSessionOpening, Capture!At, CP!At,
         Capture!OpeningEvents, CP!OpeningEvents, Capture!Becomes, CP!Becomes,
         Capture!sessionVars, CP!sessionVars
<1>20. \A h, c :
          Capture!EndSessionForCandidate(h, c)
              => CP!EndSessionForCandidate(h, c)
  BY DEF Capture!EndSessionForCandidate, CP!EndSessionForCandidate,
         Capture!At, CP!At, Capture!crmVars, CP!crmVars
<1>21. Capture!Crash => CP!Crash
  BY DEF Capture!Crash, CP!Crash, Capture!At, CP!At, Capture!Idle, CP!Idle,
         Capture!Entering, CP!Entering, Capture!sessionVars, CP!sessionVars,
         Capture!crmVars, CP!crmVars
<1>22. QED
  BY <1>1, <1>2, <1>3, <1>4, <1>5, <1>6, <1>7, <1>8, <1>9, <1>10, <1>11,
     <1>12, <1>13, <1>14, <1>15, <1>16, <1>17, <1>18, <1>19, <1>20, <1>21
     DEF Capture!Next, CP!Next, Capture!Arrival, CP!Arrival,
         Capture!Progress, CP!Progress

LEMMA SameSpec == Capture!Spec => CP!Spec
<1>1. [Capture!Next]_(Capture!vars) => [CP!Next]_(CP!vars)
  BY SameNext DEF Capture!vars, CP!vars, Capture!sessionVars,
     CP!sessionVars, Capture!crmVars, CP!crmVars
<1>2. QED
  BY <1>1, SameInit, PTL DEF Capture!Spec, CP!Spec

-----------------------------------------------------------------------------
(* What a request knows of its payload.                                    *)

SlotOK ==
    /\ slot \in [Handlers -> Slot]
    /\ \A h \in Handlers :
          /\ slot[h].at \in {"persist", "route"} => slot[h].msg \in Wamids
          /\ slot[h].at = "ended" => /\ slot[h].cand \in Candidates
                                     /\ slot[h].since \in Sinces

LEMMA SlotFrame ==
    ASSUME SlotOK, NEW h \in Handlers, NEW s \in Slot, Takes(h, s),
           s.at \in {"persist", "route"} => s.msg \in Wamids,
           s.at = "ended" => s.cand \in Candidates /\ s.since \in Sinces
    PROVE  SlotOK'
BY DEF SlotOK, Takes

LEMMA FreeIsSlot ==
    /\ Free \in Slot /\ Free.at = "free"
    /\ \A m \in Wamids, point \in SlotPoints :
          Message(point, m) \in Slot /\ Message(point, m).msg = m
BY DEF Free, Message, Slot, SlotPoints

LEMMA MovesOK ==
    ASSUME SlotOK, NEW h \in Handlers, NEW point \in SlotPoints,
           Moves(h, point), point \notin {"persist", "ended"},
           point = "route" => slot[h].at = "persist"
    PROVE  SlotOK'
<1>1. CASE point = "free"
  BY <1>1, FreeIsSlot, SlotFrame DEF Moves
<1>2. CASE point # "free"
  <2> DEFINE s == [slot[h] EXCEPT !.at = point]
  <2>1. slot[h] \in Slot
    BY DEF SlotOK
  <2>2. s \in Slot /\ s.at = point /\ s.msg = slot[h].msg
    BY <2>1 DEF Slot
  <2>3. Takes(h, s)
    BY <1>2 DEF Moves
  <2>4. s.at = "route" => s.msg \in Wamids
    BY <2>2 DEF SlotOK
  <2> HIDE DEF s
  <2>5. QED
    BY <2>2, <2>3, <2>4, SlotFrame
<1>3. QED
  BY <1>1, <1>2

LEMMA ArrivesKeepsSlots ==
    ASSUME SlotOK, NEW h \in Handlers, Arrives(h)
    PROVE  SlotOK'
<1>1. ASSUME NEW m \in Inbound, Deliver(h, m)
      PROVE  SlotOK'
  BY <1>1, FreeIsSlot, SlotFrame DEF Deliver, Wamids, SlotPoints, Message
<1>2. ASSUME NEW m \in Outbound, Sent(h, m)
      PROVE  SlotOK'
  BY <1>2, FreeIsSlot, SlotFrame DEF Sent, Wamids, SlotPoints, Message
<1>3. ASSUME NEW c, NEW prefilled, Start(h, c, prefilled)
      PROVE  SlotOK'
  BY <1>3, MovesOK DEF Start, SlotPoints
<1>4. ASSUME NEW c \in Candidates, NEW since \in Sinces,
             PurgeCandidate(h, c, since)
      PROVE  SlotOK'
  <2> DEFINE s == [at |-> "ended", msg |-> None, cand |-> c,
                   since |-> since, ids |-> Reported(c)]
  <2>1. Reported(c) \in SUBSET WithMedia
    BY DEF Reported
  <2>2. since \in Nat
    BY MessagesAssumption
  <2>3. s \in Slot
    BY <2>1, <2>2 DEF Slot, SlotPoints
  <2>4. Takes(h, s) /\ s.at = "ended" /\ s.cand = c /\ s.since = since
    BY <1>4 DEF PurgeCandidate
  <2> HIDE DEF s
  <2>5. QED
    BY <2>3, <2>4, SlotFrame
<1>5. QED
  BY <1>1, <1>2, <1>3, <1>4 DEF Arrives

LEMMA ProceedsKeepsSlots ==
    ASSUME SlotOK, NEW h \in Handlers, Proceeds(h)
    PROVE  SlotOK'
<1>1. CASE UNCHANGED slot
  BY <1>1 DEF SlotOK
<1>2. CASE /\ slot[h].at \in {"persist", "discard", "send", "purge"}
           /\ Moves(h, AfterStore(slot[h].at))
  BY <1>2, MovesOK DEF AfterStore, SlotPoints
<1>3. ASSUME NEW point \in {"free", "capture", "discard", "purge"},
             Moves(h, point)
      PROVE  SlotOK'
  BY <1>3, MovesOK DEF SlotPoints
<1>4. QED
  BY <1>1, <1>2, <1>3
     DEF Proceeds, StoreRuns, StoreRejects, Route, LookUpFile, RejectFile,
         FileRejected, DiscardRejects, CaptureRuns, PurgeMessages,
         NothingToPurge

LEMMA SlotsOK == FilesSpec => []SlotOK
<1>1. FilesInit => SlotOK
  BY FreeIsSlot DEF FilesInit, SlotOK
<1>2. SlotOK /\ [FilesNext]_fileVars => SlotOK'
  <2> SUFFICES ASSUME SlotOK, [FilesNext]_fileVars
               PROVE  SlotOK'
    OBVIOUS
  <2>1. CASE Crash
    BY <2>1, FreeIsSlot DEF Crash, SlotOK
  <2>2. CASE UNCHANGED fileVars
    BY <2>2 DEF fileVars, SlotOK
  <2>3. CASE LooseRuns
    BY <2>3 DEF LooseRuns, SlotOK
  <2>4. QED
    BY <2>1, <2>2, <2>3, ArrivesKeepsSlots, ProceedsKeepsSlots DEF FilesNext
<1>3. QED
  BY <1>1, <1>2, PTL DEF FilesSpec

-----------------------------------------------------------------------------
(* The composed system is a run of the capture, and one of the store.      *)

CaptureUnchanged ==
    UNCHANGED <<sessions, newer, capture, events, texts, heard, rejected>>

LEMMA CaptureSteps ==
    ASSUME SlotOK, FilesNext
    PROVE  Capture!Next \/ CaptureUnchanged
<1> USE DEF captureVars, sessionState, CaptureUnchanged
<1>1. CASE Crash
  BY <1>1 DEF Crash, Capture!Next
<1>2. ASSUME NEW h \in Handlers, Arrives(h)
      PROVE  Capture!Next \/ CaptureUnchanged
  BY <1>2 DEF Arrives, Deliver, Sent, Start, PurgeCandidate, EndSession,
     Capture!Next, Capture!Arrival
<1>3. ASSUME NEW h \in Handlers, Proceeds(h)
      PROVE  Capture!Next \/ CaptureUnchanged
  <2>1. CASE Route(h)
    <3>1. slot[h].msg \in Wamids
      BY <2>1 DEF Route, SlotOK
    <3>2. NumberOf[LineOf[slot[h].msg]] \in Numbers
      BY <3>1, MessagesAssumption
    <3>3. QED
      BY <2>1, <3>2 DEF Route, Capture!Next, Capture!Arrival
  <2>2. CASE LookUpFile(h)
    <3>1. Capture!TakeMedia(h, TRUE) \/ Capture!TakeMedia(h, FALSE)
      BY <2>2 DEF LookUpFile, Capture!TakeMedia
    <3>2. QED
      BY <2>2, <3>1
         DEF LookUpFile, Listens, Capture!ProcessInboundMedia, Capture!Next,
             Capture!Progress, Capture!sessionVars, Capture!crmVars
  <2>3. CASE FileRejected(h)
    BY <2>3 DEF FileRejected, Capture!ProcessInboundMedia, Capture!Next,
       Capture!Progress, Capture!sessionVars, Capture!crmVars
  <2>4. CASE DiscardRejects(h)
    BY <2>4 DEF DiscardRejects, Capture!Next, Capture!Progress
  <2>5. CASE CaptureRuns(h)
    BY <2>5 DEF CaptureRuns, Capture!Next
  <2>6. CASE StoreRuns(h) \/ StoreRejects(h) \/ RejectFile(h)
                \/ PurgeMessages(h) \/ NothingToPurge(h)
    BY <2>6 DEF StoreRuns, StoreRejects, RejectFile, PurgeMessages,
       NothingToPurge
  <2>7. QED
    BY <1>3, <2>1, <2>2, <2>3, <2>4, <2>5, <2>6 DEF Proceeds
<1>4. CASE LooseRuns
  BY <1>4 DEF LooseRuns
<1>5. QED
  BY <1>1, <1>2, <1>3, <1>4 DEF FilesNext

\* Whatever is proved of RecruitingCapture holds of the composed system: the
\* store's answers, the discards and the purge command make no step that the
\* capture alone could not make.
THEOREM FilesImplementCapture == FilesSpec => Capture!Spec
<1>1. FilesInit => Capture!Init
  BY DEF FilesInit
<1>2. SlotOK /\ [FilesNext]_fileVars => [Capture!Next]_(Capture!vars)
  <2>1. UNCHANGED fileVars => CaptureUnchanged
    BY DEF fileVars, captureVars, sessionState, CaptureUnchanged
  <2>2. CaptureUnchanged => UNCHANGED Capture!vars
    BY DEF CaptureUnchanged, Capture!vars, Capture!sessionVars,
       Capture!crmVars
  <2>3. QED
    BY <2>1, <2>2, CaptureSteps
<1>3. QED
  BY <1>1, <1>2, SlotsOK, PTL DEF FilesSpec, Capture!Spec

\* What the capture's own invariant says of a handler that holds a file.
LEMMA CaptureKnows ==
    ASSUME CP!IInv
    PROVE  /\ capture \in [Handlers -> CP!HandlerState]
           /\ \A h \in Handlers :
                 /\ capture[h].pc = "media" => capture[h].media \in WithMedia
                 /\ capture[h].pc = "cv" => /\ capture[h].media \in WithMedia
                                            /\ KindOf[capture[h].media] = "pdf"
BY DEF CP!IInv, CP!TypeOK, CP!HandlerOK, CP!OwnMedia

LEMMA CaptureKnowsAlways == FilesSpec => []CP!IInv
BY FilesImplementCapture, SameSpec, CaptureInvariance, PTL

LEMMA StoreSteps ==
    ASSUME SlotOK, CP!IInv, FilesNext
    PROVE  [Next]_vars
<1>1. CASE Crash
  BY <1>1 DEF Crash, Next
<1>2. ASSUME NEW h \in Handlers, Arrives(h)
      PROVE  [Next]_vars
  BY <1>2 DEF Arrives, Deliver, Sent, Start, PurgeCandidate, Next, Arrival
<1>3. ASSUME NEW h \in Handlers, Proceeds(h)
      PROVE  [Next]_vars
  <2>1. CASE StoreRuns(h) \/ StoreRejects(h) \/ DiscardRejects(h)
    BY <2>1 DEF StoreRuns, StoreRejects, DiscardRejects, Next
  <2>2. CASE RejectFile(h)
    <3>1. capture[h].media \in WithMedia
      BY <2>2, CaptureKnows DEF RejectFile, Listens, Capture!At
    <3>2. QED
      BY <2>2, <3>1 DEF RejectFile, Next, Arrival
  <2>3. CASE PurgeMessages(h)
    <3>1. slot[h] \in Slot /\ slot[h].cand \in Candidates
             /\ slot[h].since \in Sinces
      BY <2>3 DEF PurgeMessages, SlotOK
    <3>2. PhoneOf[slot[h].cand] \in Numbers /\ slot[h].ids \in SUBSET WithMedia
      BY <3>1, CandidatesAssumption DEF Slot
    <3>3. QED
      BY <2>3, <3>1, <3>2 DEF PurgeMessages, Next, Arrival
  <2>4. CASE Route(h) \/ LookUpFile(h) \/ FileRejected(h) \/ CaptureRuns(h)
                \/ NothingToPurge(h)
    BY <2>4 DEF Route, LookUpFile, FileRejected, CaptureRuns, NothingToPurge
  <2>5. QED
    BY <1>3, <2>1, <2>2, <2>3, <2>4 DEF Proceeds
<1>4. CASE LooseRuns
  BY <1>4 DEF LooseRuns, Next
<1>5. QED
  BY <1>1, <1>2, <1>3, <1>4 DEF FilesNext

\* Whatever is proved of ChatStore holds of the composed system: the webhook,
\* the capture and the CRM ask for nothing that the store does not allow.
THEOREM FilesImplementStore == FilesSpec => Spec
<1>1. FilesInit => Init
  BY DEF FilesInit
<1>2. SlotOK /\ CP!IInv /\ [FilesNext]_fileVars => [Next]_vars
  <2>1. UNCHANGED fileVars => UNCHANGED vars
    BY DEF fileVars
  <2>2. QED
    BY <2>1, StoreSteps
<1>3. QED
  BY <1>1, <1>2, SlotsOK, CaptureKnowsAlways, PTL DEF FilesSpec, Spec

-----------------------------------------------------------------------------
(* The files of reported CVs.                                              *)

Pdfs == {m \in WithMedia : KindOf[m] = "pdf"}

LEMMA PdfsAreMedia == Pdfs \in SUBSET WithMedia
BY DEF Pdfs

\* On disk, or deleted by a purge.
Present == files \cup forgotten

\* The store keeps the files of K that it has a path of.
StoreKeeps(K) ==
    /\ \A m \in Wamids :
          m \in K /\ rows[m] # None /\ rows[m].linked => m \in Present
    /\ \A h \in Handlers :
          /\ handler[h].linked /\ handler[h].msg \in K
                => handler[h].msg \in Present
          /\ handler[h].pc \in {"discard", "unlink"} => handler[h].msg \notin K

\* The capture rejects no PDF, and reports none that is gone.
CaptureKeeps ==
    /\ \A h \in Handlers :
          /\ slot[h].at = "discard" => capture[h].media \notin Pdfs
          /\ capture[h].pc = "cv" => capture[h].media \in Present
    /\ \A m \in WithMedia :
          ToldOf("recruiting.cv_received", m) => m \in Pdfs /\ m \in Present

PresentGrows(K) == \A m \in K : m \in Present => m \in Present'

\* A step of handler h of the store, to its state r.
LEMMA StoreFrame ==
    ASSUME IInv, NEW K \in SUBSET WithMedia, StoreKeeps(K), PresentGrows(K),
           NEW h \in Handlers, NEW r, Becomes(h, r),
           r.linked /\ r.msg \in K => r.msg \in Present',
           r.pc \in {"discard", "unlink"} => r.msg \notin K,
           \A m \in Wamids : m \in K /\ rows'[m] # None /\ rows'[m].linked
               => m \in Present'
    PROVE  StoreKeeps(K)'
<1>1. ASSUME NEW g \in Handlers
      PROVE  /\ handler'[g].linked /\ handler'[g].msg \in K
                   => handler'[g].msg \in Present'
             /\ handler'[g].pc \in {"discard", "unlink"}
                   => handler'[g].msg \notin K
  <2>1. CASE g = h
    BY <2>1 DEF IInv, TypeOK, Becomes
  <2>2. CASE g # h
    <3>1. handler'[g] = handler[g]
      BY <2>2 DEF IInv, TypeOK, Becomes
    <3>2. QED
      BY <3>1 DEF StoreKeeps, PresentGrows
  <2>3. QED
    BY <2>1, <2>2
<1>2. QED
  BY <1>1 DEF StoreKeeps

\* One that leaves rows and files alone and reads no path.
LEMMA StoreLocal ==
    ASSUME IInv, NEW K \in SUBSET WithMedia, StoreKeeps(K),
           NEW h \in Handlers, NEW r, Becomes(h, r),
           UNCHANGED <<rows, files>>,
           forgotten \cap WithMedia \subseteq forgotten',
           r.linked => handler[h].linked /\ r.msg = handler[h].msg,
           r.pc \notin {"discard", "unlink"}
    PROVE  StoreKeeps(K)' /\ PresentGrows(K)
<1>1. PresentGrows(K)
  BY DEF PresentGrows, Present
<1>2. r.linked /\ r.msg \in K => r.msg \in Present'
  BY <1>1 DEF StoreKeeps, PresentGrows
<1>3. \A m \in Wamids : m \in K /\ rows'[m] # None /\ rows'[m].linked
          => m \in Present'
  BY <1>1 DEF StoreKeeps, PresentGrows
<1>4. QED
  BY <1>1, <1>2, <1>3, StoreFrame

\* The steps of the store's handlers, at which a purge may delete folders.
LEMMA ProgressKeeps ==
    ASSUME IInv, NEW K \in SUBSET WithMedia, StoreKeeps(K),
           NEW h \in Handlers, Progress(h),
           forgotten' = {m \in WithMedia : m \in forgotten \/ Deletes(h, m)}
    PROVE  StoreKeeps(K)' /\ PresentGrows(K)
<1> DEFINE r == handler[h]
<1>1. r \in HandlerState /\ handler \in [Handlers -> HandlerState]
  BY DEF IInv, TypeOK
<1>2. forgotten \cap WithMedia \subseteq forgotten'
  OBVIOUS
<1>3. CASE ReadDuplicate(h)
  <2> DEFINE next == [r EXCEPT
                        !.dup = IF rows[r.msg] # None THEN "yes" ELSE "no"]
  <2>1. Becomes(h, next) /\ UNCHANGED <<rows, files>>
    BY <1>3 DEF ReadDuplicate, store
  <2>2. next.linked = r.linked /\ next.msg = r.msg /\ next.pc = r.pc
           /\ r.pc \in {"lookup", "sent"}
    BY <1>1, <1>3 DEF ReadDuplicate, HandlerState, At
  <2> HIDE DEF next
  <2>3. QED
    BY <1>2, <2>1, <2>2, StoreLocal
<1>4. CASE UpsertInboundChat(h)
  <2>1. PICK id : Becomes(h, [r EXCEPT !.chat = id])
    BY <1>4 DEF UpsertInboundChat, UpsertChat
  <2> DEFINE next == [r EXCEPT !.chat = id]
  <2>2. next.linked = r.linked /\ next.msg = r.msg /\ next.pc = "lookup"
    BY <1>1, <1>4 DEF UpsertInboundChat, HandlerState, At
  <2>3. UNCHANGED <<rows, files>>
    BY <1>4 DEF UpsertInboundChat, UpsertChat
  <2>4. Becomes(h, next)
    BY <2>1
  <2> HIDE DEF next
  <2>5. QED
    BY <1>2, <2>2, <2>3, <2>4, StoreLocal
<1>5. CASE UpsertOutboundChat(h)
  <2> DEFINE sent == [r EXCEPT !.pc = "create"]
  <2>1. PICK id : Becomes(h, [sent EXCEPT !.chat = id])
    BY <1>5 DEF UpsertOutboundChat, UpsertChat
  <2> DEFINE next == [sent EXCEPT !.chat = id]
  <2>2. next.linked = r.linked /\ next.msg = r.msg /\ next.pc = "create"
    BY <1>1 DEF HandlerState
  <2>3. UNCHANGED <<rows, files>>
    BY <1>5 DEF UpsertOutboundChat, UpsertChat
  <2>4. Becomes(h, next)
    BY <2>1
  <2> HIDE DEF next
  <2>5. QED
    BY <1>2, <2>2, <2>3, <2>4, StoreLocal
<1>6. ASSUME NEW point, Goes(h, point), UNCHANGED <<rows, files>>,
             point \notin {"discard", "unlink"}
      PROVE  StoreKeeps(K)' /\ PresentGrows(K)
  <2> DEFINE next == [r EXCEPT !.pc = point]
  <2>1. next.linked = r.linked /\ next.msg = r.msg /\ next.pc = point
    BY <1>1 DEF HandlerState
  <2>2. Becomes(h, next)
    BY <1>6 DEF Goes
  <2> HIDE DEF next
  <2>3. QED
    BY <1>2, <1>6, <2>1, <2>2, StoreLocal
<1>7. ASSUME Becomes(h, Idle), UNCHANGED <<rows, files>>
      PROVE  StoreKeeps(K)' /\ PresentGrows(K)
  <2>1. ~Idle.linked /\ Idle.pc = "idle"
    BY DEF Idle, Entering
  <2>2. QED
    BY <1>2, <1>7, <2>1, StoreLocal
<1>8. CASE AfterLookup(h) \/ AfterSentLookup(h) \/ FilesRemoved(h)
              \/ PurgeDone(h)
  BY <1>6, <1>7, <1>8
     DEF AfterLookup, AfterSentLookup, FilesRemoved, PurgeDone, store
<1>9. CASE FindMessages(h)
  <2> DEFINE next == [r EXCEPT
                        !.pc = "rm",
                        !.rm = {m \in Wamids : /\ Matches(r.filter, m)
                                               /\ rows[m].linked}]
  <2>1. Becomes(h, next) /\ UNCHANGED <<rows, files>>
    BY <1>9 DEF FindMessages, store
  <2>2. next.linked = r.linked /\ next.msg = r.msg /\ next.pc = "rm"
    BY <1>1 DEF HandlerState
  <2> HIDE DEF next
  <2>3. QED
    BY <1>2, <2>1, <2>2, StoreLocal
<1>10. CASE ReadLatest(h)
  <2>1. PICK id, time : Becomes(h, [r EXCEPT !.unread = @ \ {id},
                                             !.latest = @ \cup {<<id, time>>}])
    BY <1>10 DEF ReadLatest
  <2> DEFINE next == [r EXCEPT !.unread = @ \ {id},
                               !.latest = @ \cup {<<id, time>>}]
  <2>2. next.linked = r.linked /\ next.msg = r.msg /\ next.pc = "refresh"
    BY <1>1, <1>10 DEF HandlerState, ReadLatest, At
  <2>3. UNCHANGED <<rows, files>>
    BY <1>10 DEF ReadLatest, store
  <2>4. Becomes(h, next)
    BY <2>1
  <2> HIDE DEF next
  <2>5. QED
    BY <1>2, <2>2, <2>3, <2>4, StoreLocal
<1>11. CASE RefreshChat(h)
  <2>1. PICK found : Becomes(h, [r EXCEPT !.latest = @ \ {found}])
    BY <1>11 DEF RefreshChat
  <2> DEFINE next == [r EXCEPT !.latest = @ \ {found}]
  <2>2. next.linked = r.linked /\ next.msg = r.msg /\ next.pc = "refresh"
    BY <1>1, <1>11 DEF HandlerState, RefreshChat, At
  <2>3. UNCHANGED <<rows, files>>
    BY <1>11 DEF RefreshChat
  <2>4. Becomes(h, next)
    BY <2>1
  <2> HIDE DEF next
  <2>5. QED
    BY <1>2, <2>2, <2>3, <2>4, StoreLocal
<1>12. CASE DownloadMedia(h)
  <2>1. \/ /\ files' = files \cup {r.msg}
           /\ Becomes(h, [r EXCEPT !.pc = "create", !.linked = TRUE])
        \/ /\ files \subseteq files'
           /\ Goes(h, "create")
    BY <1>12 DEF DownloadMedia, SaveInboundMedia, FailedDownload
  <2>2. UNCHANGED rows
    BY <1>12 DEF DownloadMedia
  <2>3. PresentGrows(K)
    BY <2>1 DEF PresentGrows, Present
  <2>4. PICK linked \in BOOLEAN :
           /\ Becomes(h, [r EXCEPT !.pc = "create", !.linked = linked])
           /\ linked => r.msg \in files' \/ r.linked
    <3>1. [r EXCEPT !.pc = "create"]
             = [r EXCEPT !.pc = "create", !.linked = r.linked]
      BY <1>1 DEF HandlerState
    <3>2. r.linked \in BOOLEAN
      BY <1>1 DEF HandlerState
    <3>3. QED
      BY <2>1, <3>1, <3>2 DEF Goes
  <2> DEFINE next == [r EXCEPT !.pc = "create", !.linked = linked]
  <2>5. next.linked = linked /\ next.msg = r.msg /\ next.pc = "create"
    BY <1>1 DEF HandlerState
  <2>6. Becomes(h, next)
    BY <2>4
  <2> HIDE DEF next
  <2>7. next.linked /\ next.msg \in K => next.msg \in Present'
    BY <2>3, <2>4, <2>5 DEF StoreKeeps, PresentGrows, Present
  <2>8. \A m \in Wamids : m \in K /\ rows'[m] # None /\ rows'[m].linked
            => m \in Present'
    BY <2>2, <2>3 DEF StoreKeeps, PresentGrows
  <2>9. QED
    BY <2>3, <2>5, <2>6, <2>7, <2>8, StoreFrame
<1>13. ASSUME Becomes(h, Idle), UNCHANGED files,
              \A m \in Wamids :
                  m \in K /\ rows'[m] # None /\ rows'[m].linked =>
                      \/ rows[m] # None /\ rows[m].linked
                      \/ r.linked /\ m = r.msg
       PROVE  StoreKeeps(K)' /\ PresentGrows(K)
  <2>1. PresentGrows(K)
    BY <1>2, <1>13 DEF PresentGrows, Present
  <2>2. ~Idle.linked /\ Idle.pc = "idle"
    BY DEF Idle, Entering
  <2>3. \A m \in Wamids : m \in K /\ rows'[m] # None /\ rows'[m].linked
            => m \in Present'
    BY <1>13, <2>1 DEF StoreKeeps, PresentGrows
  <2>4. QED
    BY <1>13, <2>1, <2>2, <2>3, StoreFrame
<1>14. CASE CreateMessage(h)
  <2>1. rows' = IF rows[r.msg] = None
                THEN [rows EXCEPT ![r.msg] = [chat |-> r.chat,
                                              linked |-> r.linked]]
                ELSE rows
    BY <1>14 DEF CreateMessage, CreateRow
  <2>2. rows \in [Wamids -> Row \cup {None}]
    BY DEF IInv, TypeOK
  <2>3. \A m \in Wamids :
            m \in K /\ rows'[m] # None /\ rows'[m].linked =>
                \/ rows[m] # None /\ rows[m].linked
                \/ r.linked /\ m = r.msg
    BY <2>1, <2>2
  <2>4. QED
    BY <1>13, <1>14, <2>3 DEF CreateMessage
<1>15. CASE UnlinkFile(h)
  <2>1. rows' = IF rows[r.msg] = None THEN rows
                ELSE [rows EXCEPT ![r.msg].linked = FALSE]
    BY <1>15 DEF UnlinkFile
  <2>2. rows \in [Wamids -> Row \cup {None}]
    BY DEF IInv, TypeOK
  <2>3. \A m \in Wamids : rows'[m] # None /\ rows'[m].linked
            => rows[m] # None /\ rows[m].linked
    BY <2>1, <2>2 DEF Row
  <2>4. QED
    BY <1>13, <1>15, <2>3 DEF UnlinkFile
<1>16. CASE DiscardFile(h)
  <2>1. r.pc = "discard" /\ r.msg \notin K
    BY <1>16 DEF DiscardFile, At, StoreKeeps
  <2>2. PresentGrows(K)
    BY <1>2, <1>16, <2>1
       DEF DiscardFile, DeleteStoredMedia, PresentGrows, Present
  <2> DEFINE next == [r EXCEPT !.pc = "unlink"]
  <2>3. next.linked = r.linked /\ next.msg = r.msg
    BY <1>1 DEF HandlerState
  <2>4. Becomes(h, next) /\ UNCHANGED rows
    BY <1>16 DEF DiscardFile, Goes
  <2> HIDE DEF next
  <2>5. \A m \in Wamids : m \in K /\ rows'[m] # None /\ rows'[m].linked
            => m \in Present'
    BY <2>2, <2>4 DEF StoreKeeps, PresentGrows
  <2>6. QED
    BY <2>1, <2>2, <2>3, <2>4, <2>5, StoreFrame
<1>17. CASE RemoveFile(h)
  <2>1. PICK m \in r.rm : /\ files' = files \ {m}
                          /\ Becomes(h, [r EXCEPT !.rm = @ \ {m}])
    BY <1>17 DEF RemoveFile, DeleteStoredMedia
  <2> DEFINE next == [r EXCEPT !.rm = @ \ {m}]
  <2>2. next.linked = r.linked /\ next.msg = r.msg /\ next.pc = "rm"
           /\ next.rm = r.rm \ {m}
    BY <1>1, <1>17 DEF HandlerState, RemoveFile, At
  <2>3. Becomes(h, next) /\ UNCHANGED rows
    BY <1>17, <2>1 DEF RemoveFile
  <2> HIDE DEF next
  <2>4. handler'[h] = next
    BY <1>1, <2>3 DEF Becomes
  <2>5. Deletes(h, m)
    BY <1>17, <2>1, <2>2, <2>4 DEF Deletes, RemoveFile
  <2>6. PresentGrows(K)
    BY <2>1, <2>5 DEF PresentGrows, Present
  <2>7. next.linked /\ next.msg \in K => next.msg \in Present'
    BY <2>2, <2>6 DEF StoreKeeps, PresentGrows
  <2>8. \A n \in Wamids : n \in K /\ rows'[n] # None /\ rows'[n].linked
            => n \in Present'
    BY <2>3, <2>6 DEF StoreKeeps, PresentGrows
  <2>9. QED
    BY <2>2, <2>3, <2>6, <2>7, <2>8, StoreFrame
<1>18. CASE DeleteMessages(h)
  <2> DEFINE next == [r EXCEPT !.pc = "refresh", !.unread = r.filter.chats]
  <2>1. next.linked = r.linked /\ next.msg = r.msg /\ next.pc = "refresh"
    BY <1>1 DEF HandlerState
  <2>2. Becomes(h, next) /\ UNCHANGED files
    BY <1>18 DEF DeleteMessages
  <2> HIDE DEF next
  <2>3. PresentGrows(K)
    BY <1>2, <2>2 DEF PresentGrows, Present
  <2>4. \A m \in Wamids : rows'[m] # None => rows'[m] = rows[m]
    BY <1>18 DEF DeleteMessages
  <2>5. next.linked /\ next.msg \in K => next.msg \in Present'
    BY <2>1, <2>3 DEF StoreKeeps, PresentGrows
  <2>6. \A m \in Wamids : m \in K /\ rows'[m] # None /\ rows'[m].linked
            => m \in Present'
    BY <2>3, <2>4 DEF StoreKeeps, PresentGrows
  <2>7. QED
    BY <2>1, <2>2, <2>3, <2>5, <2>6, StoreFrame
<1>19. QED
  BY <1>3, <1>4, <1>5, <1>8, <1>9, <1>10, <1>11, <1>12, <1>14, <1>15,
     <1>16, <1>17, <1>18 DEF Progress

-----------------------------------------------------------------------------

CvEvent(e) == e.action = "recruiting.cv_received"

\* A step of the capture tells the CRM of no CV that is gone.
TellsOfPresent ==
    \A e \in events' : e \in events \/ ~CvEvent(e)
                          \/ (e.item \in Pdfs /\ e.item \in Present)

\* Handler h goes on to a point other than cv.
Leaves(h) ==
    /\ \A g \in Handlers \ {h} : capture'[g] = capture[g]
    /\ capture'[h].pc # "cv"

\* The capture's handlers reach cv only by the lookup of a file.
LEMMA CaptureStepKeeps ==
    ASSUME CP!IInv, CaptureKeeps, NEW h \in Handlers, Capture!Progress(h),
           Capture!At(h, "media") => Capture!CallRejects(h)
    PROVE  Leaves(h) /\ TellsOfPresent
<1> DEFINE r == capture[h]
<1>1. r \in CP!HandlerState /\ capture \in [Handlers -> CP!HandlerState]
  BY CaptureKnows
<1>2. r = [pc |-> r.pc, job |-> r.job, cand |-> r.cand, sess |-> r.sess,
           media |-> r.media, out |-> r.out, round |-> r.round,
           calls |-> r.calls]
  BY <1>1 DEF CP!HandlerState
<1> HIDE DEF r
<1>3. ASSUME NEW next, Capture!Becomes(h, next), next.pc # "cv"
      PROVE  Leaves(h)
  BY <1>1, <1>3 DEF Capture!Becomes, Leaves
<1>4. ASSUME events' = events
      PROVE  TellsOfPresent
  BY <1>4 DEF TellsOfPresent
<1>5. ASSUME NEW e, events' = events \cup {e}, ~CvEvent(e)
      PROVE  TellsOfPresent
  BY <1>5 DEF TellsOfPresent
<1> USE <1>3, <1>4, <1>5 DEF r
<1>6. CASE Capture!SaveSession(h)
  BY <1>6 DEF Capture!SaveSession, Capture!Idle, Capture!Entering,
     Capture!crmVars
<1>7. CASE Capture!CallRejects(h)
  <2>1. Leaves(h)
    BY <1>2, <1>7 DEF Capture!CallRejects
  <2>2. TellsOfPresent
    BY <1>7 DEF Capture!CallRejects, Capture!OpeningEvents, CvEvent
  <2>3. QED
    BY <2>1, <2>2
<1>8. CASE Capture!SendAssistantText(h)
  BY <1>2, <1>8 DEF Capture!SendAssistantText, Capture!AfterSending
<1>9. CASE Capture!ProcessInboundText(h)
  BY <1>2, <1>9 DEF Capture!ProcessInboundText, Capture!crmVars
<1>10. CASE Capture!AgentReplies(h) \/ Capture!AgentCallsTools(h)
  BY <1>2, <1>10 DEF Capture!AgentReplies, Capture!AgentCallsTools,
     Capture!crmVars
<1>11. ASSUME NEW name, NEW action, NEW item, NEW s,
              Capture!ToolCall(h, name, action, item, s),
              action # "recruiting.cv_received"
       PROVE  Leaves(h) /\ TellsOfPresent
  <2>1. \/ Capture!Becomes(h, [r EXCEPT !.sess = s, !.calls = @ - 1])
        \/ Capture!Becomes(h, [r EXCEPT !.sess = s, !.pc = "save"])
    BY <1>11 DEF Capture!ToolCall, Capture!Emit, Capture!Tells
  <2>2. r.pc = "tools"
    BY <1>11 DEF Capture!ToolCall, Capture!At
  <2>3. /\ [r EXCEPT !.sess = s, !.calls = @ - 1].pc = "tools"
        /\ [r EXCEPT !.sess = s, !.pc = "save"].pc = "save"
    BY <1>2, <2>2
  <2>4. Leaves(h)
    BY <1>3, <2>1, <2>3
  <2>5. \/ events' = events
        \/ events' = events \cup {[action |-> action, cand |-> r.cand,
                                   item |-> item]}
    BY <1>11 DEF Capture!ToolCall, Capture!Emit, Capture!Tells
  <2>6. TellsOfPresent
    BY <1>11, <2>5 DEF CvEvent
  <2>7. QED
    BY <2>4, <2>6
<1>12. CASE \/ Capture!SaveCapturedField(h) \/ Capture!MarkDataComplete(h)
            \/ Capture!MarkInterviewAccepted(h)
  <2>1. CASE Capture!SaveCapturedField(h)
    <3>1. PICK f \in Fields :
             Capture!ToolCall(h, "saveCapturedField",
                              "recruiting.field_captured", f,
                              [r.sess EXCEPT !.captured = @ \cup {f}])
      BY <2>1 DEF Capture!SaveCapturedField
    <3>2. QED
      BY <1>11, <3>1
  <2>2. CASE Capture!MarkDataComplete(h)
    <3>1. PICK s : Capture!ToolCall(h, "markDataComplete",
                                    "recruiting.data_complete", None, s)
      BY <2>2 DEF Capture!MarkDataComplete
    <3>2. QED
      BY <1>11, <3>1
  <2>3. CASE Capture!MarkInterviewAccepted(h)
    <3>1. PICK s : Capture!ToolCall(h, "markInterviewAccepted",
                                    "recruiting.interview_accepted", None, s)
      BY <2>3 DEF Capture!MarkInterviewAccepted
    <3>2. QED
      BY <1>11, <3>1
  <2>4. QED
    BY <1>12, <2>1, <2>2, <2>3
<1>13. CASE Capture!UselessToolCall(h)
  BY <1>2, <1>13 DEF Capture!UselessToolCall, Capture!At, Capture!crmVars
<1>14. CASE Capture!EndRound(h)
  BY <1>2, <1>14 DEF Capture!EndRound, Capture!crmVars
<1>15. CASE Capture!StoreCv(h)
  <2>1. r.pc = "cv" /\ r.media \in Pdfs /\ r.media \in Present
    BY <1>15, CaptureKnows DEF Capture!StoreCv, Capture!At, CaptureKeeps, Pdfs
  <2>2. \/ events' = events
        \/ events' = events \cup {[action |-> "recruiting.cv_received",
                                   cand |-> r.cand, item |-> r.media]}
    BY <1>15 DEF Capture!StoreCv, Capture!Emit, Capture!Tells
  <2>3. TellsOfPresent
    BY <2>1, <2>2 DEF TellsOfPresent
  <2>4. Leaves(h)
    BY <1>2, <1>15 DEF Capture!StoreCv, Capture!Emit, Capture!Tells
  <2>5. QED
    BY <2>3, <2>4
<1>16. CASE Capture!AcceptVideo(h)
  BY <1>2, <1>16 DEF Capture!AcceptVideo, Capture!crmVars
<1>17. CASE Capture!ReportVideo(h)
  BY <1>2, <1>17 DEF Capture!ReportVideo, Capture!Emit, Capture!Tells,
     CvEvent
<1>18. CASE Capture!SendSessionOpening(h)
  BY <1>2, <1>18 DEF Capture!SendSessionOpening, Capture!OpeningEvents, CvEvent
<1>19. CASE Capture!ProcessInboundMedia(h)
  BY <1>7, <1>19 DEF Capture!ProcessInboundMedia
<1>20. QED
  BY <1>6, <1>7, <1>8, <1>9, <1>10, <1>12, <1>13, <1>14, <1>15, <1>16,
     <1>17, <1>18, <1>19 DEF Capture!Progress

\* A step for slot h, of the capture or not.
LEMMA CaptureFrame ==
    ASSUME CP!IInv, CaptureKeeps, PresentGrows(Pdfs), NEW h \in Handlers,
           \A g \in Handlers \ {h} : capture'[g] = capture[g]
                                        /\ slot'[g] = slot[g],
           slot'[h].at = "discard" => capture'[h].media \notin Pdfs,
           capture'[h].pc = "cv" => capture'[h].media \in Present',
           TellsOfPresent
    PROVE  CaptureKeeps'
<1>1. ASSUME NEW g \in Handlers
      PROVE  /\ slot'[g].at = "discard" => capture'[g].media \notin Pdfs
             /\ capture'[g].pc = "cv" => capture'[g].media \in Present'
  <2>1. CASE g = h
    BY <2>1
  <2>2. CASE g # h
    BY <2>2, CaptureKnows DEF CaptureKeeps, PresentGrows, Pdfs
  <2>3. QED
    BY <2>1, <2>2
<1>2. ASSUME NEW m \in WithMedia, NEW e \in events', CvEvent(e), e.item = m
      PROVE  m \in Pdfs /\ m \in Present'
  <2>1. m \in Pdfs /\ m \in Present
    BY <1>2 DEF TellsOfPresent, CaptureKeeps, ToldOf, CvEvent
  <2>2. QED
    BY <2>1 DEF PresentGrows
<1>3. QED
  BY <1>1, <1>2 DEF CaptureKeeps, ToldOf, CvEvent, Pdfs

\* A step of slot h that the capture has no part in.
LEMMA CaptureStays ==
    ASSUME SlotOK, CP!IInv, CaptureKeeps, PresentGrows(Pdfs),
           NEW h \in Handlers,
           UNCHANGED <<capture, events>>, NEW s, Takes(h, s),
           s.at = "discard" => capture[h].media \notin Pdfs
    PROVE  CaptureKeeps'
BY CaptureFrame, CaptureKnows
   DEF SlotOK, Takes, CaptureKeeps, PresentGrows, Pdfs, TellsOfPresent

-----------------------------------------------------------------------------
(* Each step keeps the CVs.                                                *)

Keeps == StoreKeeps(Pdfs) /\ CaptureKeeps

\* A handler of the capture that goes on to another point, with another text.
LEMMA CaptureGoesTo ==
    ASSUME CP!IInv, NEW h \in Handlers, NEW point, NEW out,
           Capture!Becomes(h, [capture[h] EXCEPT !.pc = point, !.out = out])
    PROVE  /\ \A g \in Handlers \ {h} : capture'[g] = capture[g]
           /\ capture'[h].pc = point
           /\ capture'[h].media = capture[h].media
<1> DEFINE r == capture[h]
           next == [r EXCEPT !.pc = point, !.out = out]
<1>1. r \in CP!HandlerState /\ capture \in [Handlers -> CP!HandlerState]
  BY CaptureKnows
<1>2. r = [pc |-> r.pc, job |-> r.job, cand |-> r.cand, sess |-> r.sess,
           media |-> r.media, out |-> r.out, round |-> r.round,
           calls |-> r.calls]
  BY <1>1 DEF CP!HandlerState
<1>3. next.pc = point /\ next.media = r.media
  BY <1>2
<1>4. capture' = [capture EXCEPT ![h] = next]
  BY DEF Capture!Becomes
<1> HIDE DEF next, r
<1>5. capture'[h] = next /\ \A g \in Handlers \ {h} : capture'[g] = capture[g]
  BY <1>1, <1>4
<1>6. QED
  BY <1>3, <1>5 DEF r

\* What becomes of a file that was looked up.
LEMMA TakenMedia ==
    ASSUME CP!IInv, NEW h \in Handlers, NEW found,
           Capture!TakeMedia(h, found)
    PROVE  /\ \A g \in Handlers \ {h} : capture'[g] = capture[g]
           /\ capture'[h].media = capture[h].media
           /\ capture'[h].pc = "cv" => found /\ KindOf[capture[h].media] = "pdf"
<1>1. \/ Capture!Becomes(h, [capture[h] EXCEPT !.pc = "save"])
      \/ Capture!Becomes(h, [capture[h] EXCEPT !.pc = "video"])
      \/ Capture!Becomes(h, [capture[h] EXCEPT !.pc = "send",
                                               !.out = "notice"])
      \/ /\ found /\ KindOf[capture[h].media] = "pdf"
         /\ Capture!Becomes(h, [capture[h] EXCEPT !.pc = "cv"])
  BY DEF Capture!TakeMedia
<1>2. ASSUME NEW point
      PROVE  [capture[h] EXCEPT !.pc = point]
                = [capture[h] EXCEPT !.pc = point, !.out = capture[h].out]
  BY CaptureKnows DEF CP!HandlerState
<1>3. CASE Capture!Becomes(h, [capture[h] EXCEPT !.pc = "send",
                                                !.out = "notice"])
  <2>1. /\ \A g \in Handlers \ {h} : capture'[g] = capture[g]
        /\ capture'[h].pc = "send"
        /\ capture'[h].media = capture[h].media
    BY <1>3, CaptureGoesTo, Zenon
  <2>2. QED
    BY <2>1
<1>4. ASSUME NEW point, Capture!Becomes(h, [capture[h] EXCEPT !.pc = point])
      PROVE  /\ \A g \in Handlers \ {h} : capture'[g] = capture[g]
             /\ capture'[h].pc = point
             /\ capture'[h].media = capture[h].media
  <2>1. Capture!Becomes(h, [capture[h] EXCEPT !.pc = point,
                                             !.out = capture[h].out])
    BY <1>2, <1>4
  <2>2. QED
    BY <2>1, CaptureGoesTo
<1>5. QED
  BY <1>1, <1>3, <1>4

LEMMA MovedTo ==
    ASSUME SlotOK, NEW h \in Handlers, NEW point, Moves(h, point)
    PROVE  \E s : Takes(h, s) /\ s.at = point
<1>1. CASE point = "free"
  BY <1>1, FreeIsSlot DEF Moves
<1>2. CASE point # "free"
  <2> DEFINE s == [slot[h] EXCEPT !.at = point]
  <2>1. s.at = point
    BY DEF SlotOK, Slot
  <2>2. Takes(h, s)
    BY <1>2 DEF Moves
  <2>3. QED
    BY <2>1, <2>2
<1>3. QED
  BY <1>1, <1>2

\* A step of the store's handler to the beginning of a call, or to its end.
LEMMA StoreEnters ==
    ASSUME IInv, NEW K \in SUBSET WithMedia, StoreKeeps(K),
           NEW h \in Handlers, NEW point, NEW m,
           Becomes(h, Entering(point, m)), UNCHANGED <<rows, files, past>>,
           point = "discard" => m \notin K, point # "unlink"
    PROVE  StoreKeeps(K)' /\ PresentGrows(K)
<1> DEFINE r == Entering(point, m)
<1>1. ~r.linked /\ r.pc = point /\ r.msg = m
  BY DEF Entering
<1>2. PresentGrows(K)
  BY DEF PresentGrows, Present, past
<1>3. \A n \in Wamids : n \in K /\ rows'[n] # None /\ rows'[n].linked
          => n \in Present'
  BY <1>2 DEF StoreKeeps, PresentGrows
<1> HIDE DEF r
<1>4. Becomes(h, r)
  BY DEF r
<1>5. QED
  BY <1>1, <1>2, <1>3, <1>4, StoreFrame

LEMMA StoreStays ==
    ASSUME NEW K \in SUBSET WithMedia, StoreKeeps(K), UNCHANGED <<vars, past>>
    PROVE  StoreKeeps(K)' /\ PresentGrows(K)
BY DEF StoreKeeps, PresentGrows, Present, vars, store, past

\* The store has no part in a step of slot h, nor has another slot.
LEMMA CaptureGoesOn ==
    ASSUME SlotOK, CP!IInv, CaptureKeeps, StoreKeeps(Pdfs),
           UNCHANGED <<vars, past>>,
           NEW h \in Handlers, Leaves(h), TellsOfPresent,
           \/ UNCHANGED slot /\ slot[h].at # "discard"
           \/ \E s : Takes(h, s) /\ s.at # "discard"
    PROVE  Keeps'
BY StoreStays, PdfsAreMedia, CaptureFrame DEF SlotOK, Takes, Leaves, Keeps

LEMMA ArrivesKeeps ==
    ASSUME SlotOK, IInv, CP!IInv, Keeps, NEW h \in Handlers, Arrives(h)
    PROVE  Keeps'
<1> USE DEF Keeps
<1>1. ASSUME NEW m, NEW point, NEW to, Becomes(h, Entering(point, m)),
             point \notin {"discard", "unlink"},
             UNCHANGED <<rows, files, captureVars, past>>,
             Takes(h, Message(to, m)), to # "discard"
      PROVE  Keeps'
  <2>1. StoreKeeps(Pdfs)' /\ PresentGrows(Pdfs)
    BY <1>1, StoreEnters, PdfsAreMedia
  <2>2. Message(to, m).at # "discard"
    BY <1>1 DEF Message
  <2>3. UNCHANGED <<capture, events>>
    BY <1>1 DEF captureVars
  <2>4. QED
    BY <1>1, <2>1, <2>2, <2>3, CaptureStays
<1>2. ASSUME NEW m \in Inbound, Deliver(h, m)
      PROVE  Keeps'
  BY <1>1, <1>2 DEF Deliver, ReceiveInbound, store
<1>3. ASSUME NEW m \in Outbound, Sent(h, m)
      PROVE  Keeps'
  BY <1>1, <1>3 DEF Sent, SendAccepted, store
<1>4. ASSUME NEW c \in Candidates, NEW prefilled, Start(h, c, prefilled)
      PROVE  Keeps'
  <2>1. UNCHANGED <<vars, forgotten, events>>
    BY <1>4 DEF Start, Capture!StartCapture, Capture!crmVars
  <2>2. StoreKeeps(Pdfs)' /\ PresentGrows(Pdfs)
    BY <2>1 DEF StoreKeeps, PresentGrows, Present, Pdfs, vars, store
  <2>3. Leaves(h)
    BY <1>4, CaptureKnows
       DEF Start, Capture!StartCapture, Capture!Becomes, Capture!Entering,
           Leaves
  <2>4. TellsOfPresent
    BY <2>1 DEF TellsOfPresent
  <2>5. PICK s : Takes(h, s) /\ s.at = "capture"
    BY <1>4, MovedTo DEF Start
  <2>6. QED
    BY <2>2, <2>3, <2>4, <2>5, CaptureFrame DEF SlotOK, Takes, Leaves
<1>5. ASSUME NEW c \in Candidates, NEW since \in Sinces,
             PurgeCandidate(h, c, since)
      PROVE  Keeps'
  <2>1. UNCHANGED <<vars, past, capture, events>>
    BY <1>5 DEF PurgeCandidate, EndSession, Capture!EndSessionForCandidate,
       Capture!crmVars
  <2>2. StoreKeeps(Pdfs)' /\ PresentGrows(Pdfs)
    BY <2>1, StoreStays, PdfsAreMedia
  <2>3. PICK s : Takes(h, s) /\ s.at = "ended"
    BY <1>5 DEF PurgeCandidate
  <2>4. QED
    BY <2>1, <2>2, <2>3, CaptureStays
<1>6. QED
  BY <1>2, <1>3, <1>4, <1>5 DEF Arrives

LEMMA ProceedsKeeps ==
    ASSUME SlotOK, IInv, CP!IInv, Keeps, NEW h \in Handlers, Proceeds(h)
    PROVE  Keeps'
<1> USE DEF Keeps
<1>1. CASE StoreRuns(h)
  <2>1. StoreKeeps(Pdfs)' /\ PresentGrows(Pdfs)
    BY <1>1, ProgressKeeps, PdfsAreMedia DEF StoreRuns
  <2>2. UNCHANGED <<capture, events>>
    BY <1>1 DEF StoreRuns, captureVars
  <2>3. \E s : Takes(h, s)
               /\ (s.at = "discard" => slot[h].at = "discard")
    <3>1. CASE UNCHANGED slot
      <4>1. Takes(h, slot[h])
        BY <3>1 DEF Takes, SlotOK
      <4>2. QED
        BY <4>1
    <3>2. CASE Moves(h, AfterStore(slot[h].at))
      BY <3>2, MovedTo DEF AfterStore
    <3>3. QED
      BY <1>1, <3>1, <3>2 DEF StoreRuns
  <2>4. QED
    BY <2>1, <2>2, <2>3, CaptureStays DEF CaptureKeeps
<1>2. ASSUME CutOff(h), UNCHANGED past
      PROVE  StoreKeeps(Pdfs)' /\ PresentGrows(Pdfs)
  BY <1>2, StoreEnters, PdfsAreMedia DEF CutOff, Idle, store
<1>3. CASE StoreRejects(h)
  <2>1. UNCHANGED <<capture, events>>
    BY <1>3 DEF StoreRejects, captureVars
  <2>2. PICK s : Takes(h, s) /\ s.at # "discard"
    BY <1>3, MovedTo DEF StoreRejects, AfterStore
  <2>3. QED
    BY <1>2, <1>3, <2>1, <2>2, CaptureStays DEF StoreRejects
<1>4. CASE Route(h)
  <2>1. UNCHANGED <<vars, past, events>>
    BY <1>4 DEF Route, Capture!ReceiveMedia, Capture!ReceiveText,
       Capture!crmVars, captureVars
  <2>2. TellsOfPresent
    BY <2>1 DEF TellsOfPresent
  <2>3. \E s : Takes(h, s) /\ s.at # "discard"
    BY <1>4, MovedTo DEF Route
  <2>4. \/ UNCHANGED capture
        \/ Leaves(h)
    <3>1. ASSUME NEW point, NEW c, NEW m, point # "cv",
                 Capture!Becomes(h, Capture!Entering(point, "reply", c,
                                                     sessions[c], m))
          PROVE  Leaves(h)
      BY <3>1, CaptureKnows DEF Capture!Becomes, Capture!Entering, Leaves
    <3>2. ASSUME NEW m, Capture!ReceiveMedia(h, m)
          PROVE  Leaves(h)
      <4>1. PICK c : Capture!Becomes(h, Capture!Entering("media", "reply", c,
                                                         sessions[c], m))
        BY <3>2 DEF Capture!ReceiveMedia
      <4>2. QED
        BY <3>1, <4>1
    <3>3. ASSUME NEW phone, Capture!ReceiveText(h, phone)
          PROVE  Leaves(h)
      <4>1. PICK c : Capture!Becomes(h, Capture!Entering("text", "reply", c,
                                                         sessions[c], None))
        BY <3>3 DEF Capture!ReceiveText
      <4>2. QED
        BY <3>1, <4>1
    <3>4. QED
      BY <1>4, <3>2, <3>3 DEF Route, captureVars
  <2>5. QED
    BY <2>1, <2>2, <2>3, <2>4, CaptureGoesOn, CaptureStays, StoreStays,
       PdfsAreMedia
<1>5. CASE LookUpFile(h)
  <2> DEFINE m == capture[h].media
  <2>1. UNCHANGED <<vars, past, events, slot>> /\ slot[h].at = "capture"
    BY <1>5 DEF LookUpFile, Listens
  <2>2. m \in WithMedia /\ m \in Wamids
    BY <1>5, CaptureKnows, MessagesAssumption
       DEF LookUpFile, Listens, Capture!At, Wamids
  <2>3. Capture!TakeMedia(h, HasPath(m))
    BY <1>5 DEF LookUpFile
  <2>4. /\ \A g \in Handlers \ {h} : capture'[g] = capture[g]
        /\ capture'[h].media = m
        /\ capture'[h].pc = "cv" => HasPath(m) /\ KindOf[m] = "pdf"
    BY <2>3, TakenMedia
  <2>5. StoreKeeps(Pdfs)' /\ PresentGrows(Pdfs)
    BY <2>1, StoreStays, PdfsAreMedia
  <2>6. capture'[h].pc = "cv" => m \in Present'
    BY <2>2, <2>4, <2>5 DEF HasPath, StoreKeeps, PresentGrows, Pdfs
  <2>7. TellsOfPresent
    BY <2>1 DEF TellsOfPresent
  <2> HIDE DEF m
  <2>8. QED
    BY <2>1, <2>4, <2>5, <2>6, <2>7, CaptureFrame
<1>6. CASE RejectFile(h)
  <2>1. capture[h].media \notin Pdfs
    BY <1>6 DEF RejectFile, Rejects, Pdfs
  <2>2. StoreKeeps(Pdfs)' /\ PresentGrows(Pdfs)
    BY <1>6, <2>1, StoreEnters, PdfsAreMedia DEF RejectFile, StartDiscard, store
  <2>3. UNCHANGED <<capture, events>>
    BY <1>6 DEF RejectFile, captureVars
  <2>4. PICK s : Takes(h, s)
    BY <1>6, MovedTo DEF RejectFile
  <2>5. QED
    BY <2>1, <2>2, <2>3, <2>4, CaptureStays
<1>7. CASE FileRejected(h)
  <2>1. UNCHANGED <<vars, past, events>>
    BY <1>7 DEF FileRejected
  <2>2. capture[h].media \in WithMedia /\ KindOf[capture[h].media] # "pdf"
    BY <1>7, CaptureKnows
       DEF FileRejected, Capture!At, CaptureKeeps, Pdfs
  <2>3. Capture!TakeMedia(h, TRUE)
    BY <1>7 DEF FileRejected
  <2>4. Leaves(h)
    BY <2>2, <2>3, TakenMedia DEF Leaves
  <2>5. TellsOfPresent
    BY <2>1 DEF TellsOfPresent
  <2>6. PICK s : Takes(h, s) /\ s.at = "capture"
    BY <1>7, MovedTo DEF FileRejected
  <2>7. QED
    BY <2>1, <2>4, <2>5, <2>6, CaptureGoesOn
<1>8. CASE DiscardRejects(h)
  <2>1. StoreKeeps(Pdfs)' /\ PresentGrows(Pdfs)
    BY <1>2, <1>8 DEF DiscardRejects
  <2>2. Capture!Progress(h) /\ Capture!CallRejects(h)
    BY <1>8 DEF DiscardRejects, Capture!Progress
  <2>3. Leaves(h) /\ TellsOfPresent
    BY <2>2, CaptureStepKeeps
  <2>4. PICK s : Takes(h, s) /\ s.at = "capture"
    BY <1>8, MovedTo DEF DiscardRejects
  <2>5. QED
    BY <2>1, <2>3, <2>4, CaptureFrame DEF SlotOK, Takes, Leaves
<1>9. CASE CaptureRuns(h)
  <2>1. Leaves(h) /\ TellsOfPresent
    BY <1>9, CaptureStepKeeps DEF CaptureRuns
  <2>2. \/ UNCHANGED slot /\ slot[h].at # "discard"
        \/ \E s : Takes(h, s) /\ s.at # "discard"
    BY <1>9, MovedTo DEF CaptureRuns
  <2>3. UNCHANGED <<vars, past>>
    BY <1>9 DEF CaptureRuns
  <2>4. QED
    BY <2>1, <2>2, <2>3, CaptureGoesOn
<1>10. CASE PurgeMessages(h)
  <2>1. PICK number, since, ids : StartPurge(h, number, since, ids)
    BY <1>10 DEF PurgeMessages
  <2>2. PICK filter : Becomes(h, [Entering("find", None) EXCEPT
                                      !.filter = filter])
    BY <2>1 DEF StartPurge
  <2> DEFINE r == [Entering("find", None) EXCEPT !.filter = filter]
  <2>3. ~r.linked /\ r.pc = "find"
    BY DEF Entering
  <2>4. UNCHANGED <<rows, files, forgotten, capture, events>>
    BY <1>10, <2>1 DEF PurgeMessages, StartPurge, store, past, captureVars
  <2>5. Becomes(h, r)
    BY <2>2
  <2> HIDE DEF r
  <2>6. StoreKeeps(Pdfs)' /\ PresentGrows(Pdfs)
    BY <2>3, <2>4, <2>5, StoreLocal, PdfsAreMedia
  <2>7. PICK s : Takes(h, s) /\ s.at = "purge"
    BY <1>10, MovedTo DEF PurgeMessages
  <2>8. QED
    BY <2>4, <2>6, <2>7, CaptureStays
<1>11. CASE NothingToPurge(h)
  <2>1. UNCHANGED <<vars, past, capture, events>>
    BY <1>11 DEF NothingToPurge, captureVars
  <2>2. PICK s : Takes(h, s) /\ s.at = "free"
    BY <1>11, MovedTo DEF NothingToPurge
  <2>3. QED
    BY <2>1, <2>2, StoreStays, PdfsAreMedia, CaptureStays
<1>12. QED
  BY <1>1, <1>3, <1>4, <1>5, <1>6, <1>7, <1>8, <1>9, <1>10, <1>11
     DEF Proceeds

LEMMA CrashKeeps ==
    ASSUME Keeps, Crash
    PROVE  Keeps'
<1>1. UNCHANGED <<rows, files, forgotten, events>>
  BY DEF Crash, Restart, vars, store, past, captureVars, Capture!Crash,
     Capture!crmVars
<1>2. \A h \in Handlers : handler'[h].pc = "idle"
                             /\ (handler'[h].linked => handler[h].linked
                                    /\ handler'[h].msg = handler[h].msg)
  BY DEF Crash, Restart, At, vars, Idle, Entering
<1>3. \A h \in Handlers : capture'[h].pc = "idle"
  BY DEF Crash, Capture!Crash, Capture!At, captureVars, Capture!Idle,
     Capture!Entering
<1>4. \A h \in Handlers : slot'[h].at = "free"
  BY FreeIsSlot DEF Crash
<1>5. StoreKeeps(Pdfs)'
  BY <1>1, <1>2 DEF Keeps, StoreKeeps, Present, Pdfs
<1>6. CaptureKeeps'
  BY <1>1, <1>3, <1>4 DEF Keeps, CaptureKeeps, Present, Pdfs, ToldOf
<1>7. QED
  BY <1>5, <1>6 DEF Keeps

\* A folder that a branch left running deletes goes with a purge too.
LEMMA LooseKeeps ==
    ASSUME IInv, NEW K \in SUBSET WithMedia, StoreKeeps(K), LooseRuns
    PROVE  StoreKeeps(K)' /\ PresentGrows(K)
<1>1. UNCHANGED <<rows, handler>> /\ loose \in Loose
  BY LooseOnlyRemoves DEF LooseRuns, IInv, TypeOK
<1>2. \A m \in files \ files' : m \in loose.rm /\ m \notin loose'.rm
  <2>1. CASE LooseRemove
    <3>1. PICK m \in loose.rm : /\ files' = files \ {m}
                                /\ loose' = [loose EXCEPT !.rm = @ \ {m}]
      BY <2>1 DEF LooseRemove, DeleteStoredMedia
    <3>2. loose'.rm = loose.rm \ {m}
      BY <1>1, <3>1 DEF Loose
    <3>3. QED
      BY <3>1, <3>2
  <2>2. CASE UNCHANGED files
    BY <2>2
  <2>3. QED
    BY <2>1, <2>2
       DEF LooseRuns, GoesOnLoose, LooseUpsert, LooseRead, LooseRefresh, store
<1>3. PresentGrows(K)
  BY <1>2 DEF PresentGrows, Present, LooseRuns
<1>4. QED
  BY <1>1, <1>3 DEF StoreKeeps, PresentGrows

LEMMA KeepsAlways == FilesSpec => []Keeps
<1>1. FilesInit => Keeps
  <2> SUFFICES ASSUME FilesInit
               PROVE  Keeps
    OBVIOUS
  <2>1. StoreKeeps(Pdfs)
    BY DEF FilesInit, Init, StoreKeeps, Idle, Entering
  <2>2. \A h \in Handlers : capture[h].pc = "idle" /\ slot[h].at = "free"
    BY FreeIsSlot DEF FilesInit, Capture!Init, Capture!Idle, Capture!Entering
  <2>3. events = {}
    BY DEF FilesInit, Capture!Init
  <2>4. QED
    BY <2>1, <2>2, <2>3 DEF Keeps, CaptureKeeps, ToldOf
<1>2. /\ SlotOK /\ IInv /\ CP!IInv /\ Keeps /\ [FilesNext]_fileVars
      => Keeps'
  <2> SUFFICES ASSUME SlotOK, IInv, CP!IInv, Keeps, [FilesNext]_fileVars
               PROVE  Keeps'
    OBVIOUS
  <2>1. CASE UNCHANGED fileVars
    BY <2>1 DEF fileVars, vars, store, captureVars, past, Keeps, StoreKeeps,
       CaptureKeeps, Present, Pdfs, ToldOf
  <2>2. CASE LooseRuns
    <3>1. StoreKeeps(Pdfs)' /\ PresentGrows(Pdfs)
      BY <2>2, LooseKeeps, PdfsAreMedia DEF Keeps
    <3>2. UNCHANGED <<capture, events, slot>>
      BY <2>2 DEF LooseRuns, captureVars
    <3>3. QED
      BY <3>1, <3>2, CaptureKnows
         DEF Keeps, CaptureKeeps, PresentGrows, ToldOf, Pdfs
  <2>3. QED
    BY <2>1, <2>2, CrashKeeps, ArrivesKeeps, ProceedsKeeps DEF FilesNext
<1>3. FilesSpec => []IInv
  BY FilesImplementStore, Invariance, PTL
<1>4. QED
  BY <1>1, <1>2, <1>3, SlotsOK, CaptureKnowsAlways, PTL DEF FilesSpec

\* A CV that the CRM was told of is on disk until a purge deletes it, though
\* the rejected files of other messages are discarded meanwhile, deliveries
\* are repeated, calls fail and the process restarts: the capture has only
\* non-PDFs discarded, and the store names no file that is not there.
THEOREM CvFilesKept == FilesSpec => []CvFilesAreKept
<1>1. Keeps => CvFilesAreKept
  BY DEF Keeps, CaptureKeeps, CvFilesAreKept, Present
<1>2. QED
  BY <1>1, KeepsAlways, PTL

-----------------------------------------------------------------------------
(* Messages whose header is gone.                                          *)

\* No step makes a header with an id that a message refers to: once its header
\* is gone, a message stays without.
LEMMA HeadlessStays ==
    ASSUME IInv, NEW m \in Wamids, rows[m] # None, Headless(m),
           UNCHANGED rows,
           \/ UNCHANGED chats
           \/ \E found : UseLatest(found)
           \/ \E n \in Wamids : \E id \in HeadersFor(LineOf[n]) :
                 SetHeader(n, id)
    PROVE  Headless(m)'
<1>1. CASE UNCHANGED chats
  BY <1>1 DEF Headless
<1>2. CASE \E found : UseLatest(found)
  BY <1>2, IdsAreKept DEF Headless
<1>3. CASE \E n \in Wamids : \E id \in HeadersFor(LineOf[n]) :
               SetHeader(n, id)
  <2>1. PICK n \in Wamids : \E id \in HeadersFor(LineOf[n]) : SetHeader(n, id)
    BY <1>3
  <2>2. PICK id \in HeadersFor(LineOf[n]) : SetHeader(n, id)
    BY <2>1
  <2>3. chats' = [chats EXCEPT ![LineOf[n]] =
                     [id |-> id, lastMessageAt |-> TimeOf[n]]]
    BY <2>2 DEF SetHeader
  <2>4. LineOf[n] \in Lines /\ chats \in [Lines -> Chat \cup {None}]
    BY MessagesAssumption DEF IInv, TypeOK
  <2>5. id # rows[m].chat
    BY <2>2, <2>4 DEF HeadersFor, NewIds, InUse, Headless
  <2>6. \A k \in Lines : chats'[k] # None => chats'[k].id # rows[m].chat
    BY <2>3, <2>4, <2>5 DEF Headless
  <2>7. QED
    BY <2>6 DEF Headless
<1>4. QED
  BY <1>1, <1>2, <1>3

\* A message whose header is none of its number's is without one.
LEMMA HeadlessUnlessOwned ==
    ASSUME Owned, NEW m \in Wamids, rows[m] # None,
           \A k \in Lines :
               NumberOf[k] = NumberOf[LineOf[m]] /\ chats[k] # None
                   => chats[k].id # rows[m].chat
    PROVE  Headless(m)
BY DEF Owned, Owns, Headless

-----------------------------------------------------------------------------
(* The files that the CRM was told of are of the candidate's number.       *)

OwnEvent(e) ==
    \A m \in WithMedia : TellsOf(e, m) => NumberOf[LineOf[m]] = PhoneOf[e.cand]

Own == \A e \in events : OwnEvent(e)

LEMMA OwnProgress ==
    ASSUME CP!IInv, Own, NEW h \in Handlers, Capture!Progress(h)
    PROVE  Own'
<1> DEFINE r == capture[h]
<1>1. \/ r.pc \notin {"cv", "reportVideo"}
      \/ NumberOf[LineOf[r.media]] = PhoneOf[r.cand]
  BY DEF CP!IInv, CP!HandlerOK, CP!OwnMedia, CP!OwnVideo
<1>2. ASSUME events' = events
      PROVE  Own'
  BY <1>2 DEF Own, OwnEvent
<1>3. ASSUME NEW action, NEW item,
             \/ action \notin {"recruiting.cv_received",
                               "recruiting.video_received"}
             \/ item = r.media /\ r.pc \in {"cv", "reportVideo"},
             \/ events' = events
             \/ events' = events \cup {[action |-> action, cand |-> r.cand,
                                        item |-> item]}
      PROVE  Own'
  <2> DEFINE e == [action |-> action, cand |-> r.cand, item |-> item]
  <2>1. e.action = action /\ e.cand = r.cand /\ e.item = item
    OBVIOUS
  <2>2. events' = events \/ events' = events \cup {e}
    BY <1>3
  <2> HIDE DEF e
  <2>3. OwnEvent(e)
    BY <1>1, <1>3, <2>1 DEF OwnEvent, TellsOf
  <2>4. QED
    BY <2>2, <2>3 DEF Own, OwnEvent
<1>4. CASE \/ Capture!SaveSession(h) \/ Capture!SendAssistantText(h)
           \/ Capture!ProcessInboundText(h) \/ Capture!AgentReplies(h)
           \/ Capture!AgentCallsTools(h) \/ Capture!UselessToolCall(h)
           \/ Capture!EndRound(h) \/ Capture!ProcessInboundMedia(h)
           \/ Capture!AcceptVideo(h)
  BY <1>2, <1>4
     DEF Capture!SaveSession, Capture!SendAssistantText,
         Capture!ProcessInboundText, Capture!AgentReplies,
         Capture!AgentCallsTools, Capture!UselessToolCall, Capture!EndRound,
         Capture!ProcessInboundMedia, Capture!AcceptVideo, Capture!crmVars
<1>5. CASE Capture!CallRejects(h) \/ Capture!SendSessionOpening(h)
  <2>1. \/ events' = events
        \/ events' = events \cup {[action |-> "recruiting.data_complete",
                                   cand |-> r.cand, item |-> None]}
    BY <1>5 DEF Capture!CallRejects, Capture!SendSessionOpening,
       Capture!OpeningEvents
  <2>2. QED
    BY <1>3, <2>1
<1>6. ASSUME NEW name, NEW action, NEW item, NEW s,
             Capture!ToolCall(h, name, action, item, s),
             action \notin {"recruiting.cv_received",
                            "recruiting.video_received"}
      PROVE  Own'
  <2>1. \/ events' = events
        \/ events' = events \cup {[action |-> action, cand |-> r.cand,
                                   item |-> item]}
    BY <1>6 DEF Capture!ToolCall, Capture!Emit, Capture!Tells
  <2>2. QED
    BY <1>3, <1>6, <2>1
<1>7. CASE Capture!SaveCapturedField(h)
  <2>1. PICK f \in Fields :
           Capture!ToolCall(h, "saveCapturedField",
                            "recruiting.field_captured", f,
                            [r.sess EXCEPT !.captured = @ \cup {f}])
    BY <1>7 DEF Capture!SaveCapturedField
  <2>2. QED
    BY <1>6, <2>1
<1>8. CASE Capture!MarkDataComplete(h)
  <2>1. PICK s : Capture!ToolCall(h, "markDataComplete",
                                  "recruiting.data_complete", None, s)
    BY <1>8 DEF Capture!MarkDataComplete
  <2>2. QED
    BY <1>6, <2>1
<1>9. CASE Capture!MarkInterviewAccepted(h)
  <2>1. PICK s : Capture!ToolCall(h, "markInterviewAccepted",
                                  "recruiting.interview_accepted", None, s)
    BY <1>9 DEF Capture!MarkInterviewAccepted
  <2>2. QED
    BY <1>6, <2>1
<1>10. CASE Capture!StoreCv(h)
  <2>1. r.pc = "cv"
    BY <1>10 DEF Capture!StoreCv, Capture!At
  <2>2. \/ events' = events
        \/ events' = events \cup {[action |-> "recruiting.cv_received",
                                   cand |-> r.cand, item |-> r.media]}
    BY <1>10 DEF Capture!StoreCv, Capture!Emit, Capture!Tells
  <2>3. QED
    BY <1>3, <2>1, <2>2
<1>11. CASE Capture!ReportVideo(h)
  <2>1. r.pc = "reportVideo"
    BY <1>11 DEF Capture!ReportVideo, Capture!At
  <2>2. \/ events' = events
        \/ events' = events \cup {[action |-> "recruiting.video_received",
                                   cand |-> r.cand, item |-> r.media]}
    BY <1>11 DEF Capture!ReportVideo, Capture!Emit, Capture!Tells
  <2>3. QED
    BY <1>3, <2>1, <2>2
<1>12. QED
  BY <1>4, <1>5, <1>7, <1>8, <1>9, <1>10, <1>11 DEF Capture!Progress

LEMMA OwnAlways == FilesSpec => []Own
<1>1. Capture!Init => Own
  BY DEF Capture!Init, Own
<1>2. CP!IInv /\ Own /\ [Capture!Next]_(Capture!vars) => Own'
  <2> SUFFICES ASSUME CP!IInv, Own, [Capture!Next]_(Capture!vars)
               PROVE  Own'
    OBVIOUS
  <2>1. CASE events' = events
    BY <2>1 DEF Own, OwnEvent
  <2>2. ASSUME NEW h \in Handlers, Capture!Arrival(h)
        PROVE  events' = events
    BY <2>2 DEF Capture!Arrival, Capture!ReceiveText, Capture!ReceiveMedia,
       Capture!StartCapture, Capture!EndSessionForCandidate, Capture!crmVars
  <2>3. Capture!Crash => events' = events
    BY DEF Capture!Crash, Capture!crmVars
  <2>4. UNCHANGED Capture!vars => events' = events
    BY DEF Capture!vars, Capture!crmVars
  <2>5. QED
    BY <2>1, <2>2, <2>3, <2>4, OwnProgress DEF Capture!Next
<1>3. QED
  BY <1>1, <1>2, FilesImplementCapture, CaptureKnowsAlways, PTL
     DEF Capture!Spec

-----------------------------------------------------------------------------
(* What a purge knows at each point.                                       *)

\* The candidate of a purge has no session, and the files are the number's.
Ended(s) ==
    /\ s.cand \in Candidates /\ sessions[s.cand] = None
    /\ \A m \in s.ids : NumberOf[LineOf[m]] = PhoneOf[s.cand]

\* The store purges what slot s asks for: it has the chats that the number's
\* messages hang from, and after deleteMany none of the messages is left.
Purging(s, r) ==
    /\ r.pc \in PurgePoints
    /\ r.filter.since = s.since /\ r.filter.ids = s.ids
    /\ \A m \in Wamids :
          rows[m] # None /\ NumberOf[LineOf[m]] = PhoneOf[s.cand]
              => rows[m].chat \in r.filter.chats \/ Headless(m)
    /\ r.pc = "refresh" => \A m \in Wamids : ~Selected(r.filter, m, rows)

PurgeKnows ==
    \A h \in Handlers :
        /\ slot[h].at \in {"ended", "purge"} => Ended(slot[h])
        /\ slot[h].at = "purge" => Purging(slot[h], handler[h])

\* A step of a purge in the store.
LEMMA PurgeProgress ==
    ASSUME IInv, NEW h \in Handlers, Progress(h),
           handler[h].pc \in PurgePoints, handler'[h].pc # "idle"
    PROVE  /\ handler'[h].pc \in PurgePoints
           /\ handler'[h].filter = handler[h].filter
           /\ \A m \in Wamids : rows'[m] # None => rows'[m] = rows[m]
           /\ \A k \in Lines : chats'[k] # None =>
                 chats[k] # None /\ chats'[k].id = chats[k].id
           /\ handler'[h].pc = "refresh" =>
                 \/ handler[h].pc = "refresh"
                 \/ \A m \in Wamids : ~Selected(handler[h].filter, m, rows')
<1> DEFINE old == handler[h]
<1>1. old \in HandlerState /\ handler \in [Handlers -> HandlerState]
  BY DEF IInv, TypeOK
<1>2. ASSUME NEW r, Becomes(h, r)
      PROVE  handler'[h] = r
  BY <1>1, <1>2 DEF Becomes
<1>3. CASE FindMessages(h)
  <2> DEFINE r == [old EXCEPT
                     !.pc = "rm",
                     !.rm = {m \in Wamids : /\ Matches(old.filter, m)
                                            /\ rows[m].linked}]
  <2>1. Becomes(h, r) /\ UNCHANGED <<chats, rows>>
    BY <1>3 DEF FindMessages, store
  <2>2. r.pc = "rm" /\ r.filter = old.filter
    BY <1>1 DEF HandlerState
  <2> HIDE DEF r
  <2>3. QED
    BY <1>2, <2>1, <2>2 DEF PurgePoints
<1>4. CASE RemoveFile(h)
  <2>1. PICK m : Becomes(h, [old EXCEPT !.rm = @ \ {m}])
    BY <1>4 DEF RemoveFile
  <2> DEFINE r == [old EXCEPT !.rm = @ \ {m}]
  <2>2. r.pc = "rm" /\ r.filter = old.filter
    BY <1>1, <1>4 DEF RemoveFile, At, HandlerState
  <2>3. Becomes(h, r) /\ UNCHANGED <<chats, rows>>
    BY <1>4, <2>1 DEF RemoveFile
  <2> HIDE DEF r
  <2>4. QED
    BY <1>2, <2>2, <2>3 DEF PurgePoints
<1>5. CASE FilesRemoved(h)
  <2> DEFINE r == [old EXCEPT !.pc = "deleteMany"]
  <2>1. Becomes(h, r) /\ UNCHANGED <<chats, rows>>
    BY <1>5 DEF FilesRemoved, Goes, store
  <2>2. r.pc = "deleteMany" /\ r.filter = old.filter
    BY <1>1 DEF HandlerState
  <2> HIDE DEF r
  <2>3. QED
    BY <1>2, <2>1, <2>2 DEF PurgePoints
<1>6. CASE DeleteMessages(h)
  <2> DEFINE r == [old EXCEPT !.pc = "refresh", !.unread = old.filter.chats]
  <2>1. Becomes(h, r) /\ UNCHANGED chats
    BY <1>6 DEF DeleteMessages
  <2>2. r.pc = "refresh" /\ r.filter = old.filter
    BY <1>1 DEF HandlerState
  <2>3. \A m \in Wamids : rows'[m] = IF Selected(old.filter, m, rows)
                                     THEN None ELSE rows[m]
    BY <1>6, MatchesIsSelected DEF DeleteMessages
  <2> HIDE DEF r
  <2>4. \A m \in Wamids : ~Selected(old.filter, m, rows')
    BY <2>3 DEF Selected
  <2>5. QED
    BY <1>2, <2>1, <2>2, <2>3, <2>4 DEF PurgePoints
<1>7. CASE ReadLatest(h)
  <2>1. PICK id, time : Becomes(h, [old EXCEPT !.unread = @ \ {id},
                                              !.latest = @ \cup {<<id, time>>}])
    BY <1>7 DEF ReadLatest
  <2> DEFINE r == [old EXCEPT !.unread = @ \ {id},
                              !.latest = @ \cup {<<id, time>>}]
  <2>2. r.pc = "refresh" /\ old.pc = "refresh" /\ r.filter = old.filter
    BY <1>1, <1>7 DEF ReadLatest, At, HandlerState
  <2>3. Becomes(h, r) /\ UNCHANGED <<chats, rows>>
    BY <1>7, <2>1 DEF ReadLatest, store
  <2> HIDE DEF r
  <2>4. QED
    BY <1>2, <2>2, <2>3 DEF PurgePoints
<1>8. CASE RefreshChat(h)
  <2>1. PICK found : /\ UseLatest(found)
                     /\ Becomes(h, [old EXCEPT !.latest = @ \ {found}])
    BY <1>8 DEF RefreshChat
  <2> DEFINE r == [old EXCEPT !.latest = @ \ {found}]
  <2>2. r.pc = "refresh" /\ old.pc = "refresh" /\ r.filter = old.filter
    BY <1>1, <1>8 DEF RefreshChat, At, HandlerState
  <2>3. Becomes(h, r) /\ UNCHANGED rows
    BY <1>8, <2>1 DEF RefreshChat
  <2> HIDE DEF r
  <2>4. QED
    BY <1>2, <2>1, <2>2, <2>3, IdsAreKept DEF PurgePoints
<1>9. ~PurgeDone(h)
  BY <1>2 DEF PurgeDone, Idle, Entering
<1>10. QED
  BY <1>3, <1>4, <1>5, <1>6, <1>7, <1>8, <1>9
     DEF Progress, PurgePoints, At, ReadDuplicate, UpsertInboundChat,
         AfterLookup, DownloadMedia, CreateMessage, AfterSentLookup,
         UpsertOutboundChat, DiscardFile, UnlinkFile

\* Another point of the only slot, where nothing is purged.
LEMMA NotPurgingSlot ==
    ASSUME OneHandler, SlotOK, NEW h \in Handlers,
           \/ UNCHANGED slot /\ slot[h].at \notin {"ended", "purge"}
           \/ \E s : Takes(h, s) /\ s.at \notin {"ended", "purge"}
    PROVE  PurgeKnows'
BY DEF OneHandler, SlotOK, Takes, PurgeKnows

LEMMA PurgeArrives ==
    ASSUME OneHandler, SlotOK, CP!IInv, Own, NEW h \in Handlers, Arrives(h)
    PROVE  PurgeKnows'
<1>1. ASSUME NEW m, Deliver(h, m) \/ Sent(h, m)
      PROVE  PurgeKnows'
  <2>1. Message("persist", m).at = "persist" /\ Message("send", m).at = "send"
    BY DEF Message
  <2>2. QED
    BY <1>1, <2>1, NotPurgingSlot DEF Deliver, Sent
<1>2. ASSUME NEW c, NEW prefilled, Start(h, c, prefilled)
      PROVE  PurgeKnows'
  BY <1>2, MovedTo, NotPurgingSlot DEF Start
<1>3. ASSUME NEW c \in Candidates, NEW since, PurgeCandidate(h, c, since)
      PROVE  PurgeKnows'
  <2> DEFINE s == [at |-> "ended", msg |-> None, cand |-> c,
                   since |-> since, ids |-> Reported(c)]
  <2>1. s.at = "ended" /\ s.cand = c /\ s.ids = Reported(c)
    OBVIOUS
  <2>2. Takes(h, s)
    BY <1>3 DEF PurgeCandidate
  <2> HIDE DEF s
  <2>3. /\ slot'[h].at = "ended" /\ slot'[h].cand = c
        /\ slot'[h].ids = Reported(c) /\ Handlers = {h}
    BY <2>1, <2>2 DEF OneHandler, SlotOK, Takes
  <2>4. sessions'[c] = None
    BY <1>3 DEF PurgeCandidate, EndSession, Capture!EndSessionForCandidate,
       CP!IInv, CP!TypeOK
  <2>5. \A m \in Reported(c) : NumberOf[LineOf[m]] = PhoneOf[c]
    BY DEF Reported, Own, OwnEvent
  <2>6. Ended(slot[h])'
    BY <2>3, <2>4, <2>5 DEF Ended
  <2>7. QED
    BY <2>3, <2>6 DEF PurgeKnows
<1>4. QED
  BY <1>1, <1>2, <1>3 DEF Arrives

LEMMA PurgeProceeds ==
    ASSUME OneHandler, SlotOK, IInv, Owned, PurgeKnows, NEW h \in Handlers,
           Proceeds(h)
    PROVE  PurgeKnows'
<1>1. CASE StoreRuns(h)
  <2>1. CASE slot[h].at # "purge"
    BY <1>1, <2>1, MovedTo, NotPurgingSlot DEF StoreRuns, AfterStore
  <2>2. CASE slot[h].at = "purge" /\ handler'[h].pc = "idle"
    BY <1>1, <2>2, MovedTo, NotPurgingSlot DEF StoreRuns, AfterStore
  <2>3. CASE slot[h].at = "purge" /\ handler'[h].pc # "idle"
    <3>1. Progress(h) /\ UNCHANGED <<slot, sessions>> /\ Handlers = {h}
      BY <1>1, <2>3 DEF StoreRuns, captureVars, sessionState, OneHandler
    <3>2. Ended(slot[h]) /\ Purging(slot[h], handler[h])
      BY <2>3 DEF PurgeKnows
    <3>3. Ended(slot[h])'
      BY <3>1, <3>2 DEF Ended
    <3>4. /\ handler'[h].pc \in PurgePoints
          /\ handler'[h].filter = handler[h].filter
          /\ \A m \in Wamids : rows'[m] # None => rows'[m] = rows[m]
          /\ \A k \in Lines : chats'[k] # None =>
                chats[k] # None /\ chats'[k].id = chats[k].id
          /\ handler'[h].pc = "refresh" =>
                \/ handler[h].pc = "refresh"
                \/ \A m \in Wamids : ~Selected(handler[h].filter, m, rows')
      BY <2>3, <3>1, <3>2, PurgeProgress DEF Purging
    <3>5. Purging(slot[h], handler[h])'
      BY <3>1, <3>2, <3>4 DEF Purging, Selected, Headless
    <3>6. QED
      BY <3>1, <3>3, <3>5 DEF PurgeKnows
  <2>4. QED
    BY <2>1, <2>2, <2>3
<1>2. CASE StoreRejects(h)
  BY <1>2, MovedTo, NotPurgingSlot DEF StoreRejects, AfterStore
<1>3. CASE Route(h) \/ RejectFile(h) \/ FileRejected(h) \/ DiscardRejects(h)
              \/ NothingToPurge(h)
  <2>1. PICK point \in {"capture", "free", "discard"} : Moves(h, point)
    BY <1>3
       DEF Route, RejectFile, FileRejected, DiscardRejects, NothingToPurge
  <2>2. QED
    BY <2>1, MovedTo, NotPurgingSlot
<1>4. CASE LookUpFile(h) \/ CaptureRuns(h)
  BY <1>4, MovedTo, NotPurgingSlot DEF LookUpFile, Listens, CaptureRuns
<1>5. CASE PurgeMessages(h)
  <2> DEFINE s == slot[h]
             mine == {k \in Lines : /\ NumberOf[k] = PhoneOf[s.cand]
                                    /\ chats[k] # None}
             filter == [number |-> PhoneOf[s.cand],
                        chats |-> {chats[k].id : k \in mine},
                        since |-> s.since, ids |-> s.ids]
             r == [Entering("find", None) EXCEPT !.filter = filter]
             next == [s EXCEPT !.at = "purge"]
  <2>1. /\ Becomes(h, r) /\ UNCHANGED <<chats, rows, sessions>>
        /\ Takes(h, next) /\ Handlers = {h} /\ Ended(s)
    BY <1>5 DEF PurgeMessages, StartPurge, store, Moves, captureVars,
       sessionState, OneHandler, PurgeKnows
  <2>2. /\ next.at = "purge" /\ next.cand = s.cand /\ next.since = s.since
        /\ next.ids = s.ids
    BY DEF SlotOK, Slot
  <2>3. r.pc = "find" /\ r.filter = filter
    BY DEF Entering
  <2>4. /\ filter.since = s.since /\ filter.ids = s.ids
        /\ filter.chats = {chats[k].id : k \in mine}
    OBVIOUS
  <2> HIDE DEF r, next, filter
  <2>5. slot'[h] = next /\ handler'[h] = r
    BY <2>1 DEF SlotOK, Takes, IInv, TypeOK, Becomes
  <2>6. Ended(slot[h])'
    BY <2>1, <2>2, <2>5 DEF Ended
  <2>7. ASSUME NEW m \in Wamids, rows[m] # None,
               NumberOf[LineOf[m]] = PhoneOf[s.cand]
        PROVE  rows[m].chat \in filter.chats \/ Headless(m)
    BY <2>4, <2>7, HeadlessUnlessOwned
  <2>8. Purging(slot[h], handler[h])'
    BY <2>1, <2>2, <2>3, <2>4, <2>5, <2>7
       DEF Purging, PurgePoints, Headless
  <2>9. QED
    BY <2>1, <2>6, <2>8 DEF PurgeKnows
<1>6. QED
  BY <1>1, <1>2, <1>3, <1>4, <1>5 DEF Proceeds

\* What earlier calls have left running does not disturb a purge.
LEMMA PurgeUndisturbed ==
    ASSUME IInv, PurgeKnows, LooseRuns
    PROVE  PurgeKnows'
<1>1. UNCHANGED <<rows, handler, slot, sessions>> /\ loose \in Loose
  BY LooseOnlyRemoves DEF LooseRuns, captureVars, sessionState, IInv, TypeOK
<1>2. \/ UNCHANGED chats
      \/ \E found : UseLatest(found)
      \/ \E n \in Wamids : \E id \in HeadersFor(LineOf[n]) : SetHeader(n, id)
  BY <1>1 DEF LooseRuns, GoesOnLoose, LooseUpsert, LooseRemove, LooseRead,
              LooseRefresh, store, Loose
<1>3. \A m \in Wamids : rows[m] # None /\ Headless(m) => Headless(m)'
  BY <1>1, <1>2, HeadlessStays
<1>4. QED
  BY <1>1, <1>3 DEF PurgeKnows, Ended, Purging, Selected

LEMMA PurgeKnowsAlways == ASSUME OneHandler PROVE FilesSpec => []PurgeKnows
<1>1. FilesInit => PurgeKnows
  BY FreeIsSlot DEF FilesInit, PurgeKnows
<1>2. /\ SlotOK /\ IInv /\ CP!IInv /\ Own /\ Owned /\ PurgeKnows
      /\ [FilesNext]_fileVars
      => PurgeKnows'
  <2> SUFFICES ASSUME SlotOK, IInv, CP!IInv, Own, Owned, PurgeKnows,
                      [FilesNext]_fileVars
               PROVE  PurgeKnows'
    OBVIOUS
  <2>1. CASE Crash
    BY <2>1, FreeIsSlot DEF Crash, PurgeKnows
  <2>2. CASE UNCHANGED fileVars
    BY <2>2 DEF fileVars, vars, store, captureVars, sessionState, PurgeKnows,
       Ended, Purging, Selected, Headless
  <2>3. QED
    BY <2>1, <2>2, PurgeUndisturbed, PurgeArrives, PurgeProceeds DEF FilesNext
<1>3. FilesInit /\ [][FilesNext]_fileVars /\ []SlotOK /\ []IInv /\ []CP!IInv
          /\ []Own /\ []Owned => []PurgeKnows
  BY <1>1, <1>2, PTL
<1>4. FilesSpec => []IInv /\ []Owned
  BY FilesImplementStore, Invariance, OwnedAlways, PTL
<1>5. QED
  BY <1>3, <1>4, SlotsOK, CaptureKnowsAlways, OwnAlways, PTL DEF FilesSpec

\* With one request at a time, the session of a removed candidate is gone when
\* its purge is, and so are the recent messages of the number, the reported
\* ones, and, unless a call failed before, their files: purgeRecruitingMessages
\* deletes by the headers it found, and what it does not find by them had lost
\* its header to a branch that an earlier call left running.
THEOREM PurgesForget == ASSUME OneHandler PROVE FilesSpec => PurgedIsForgotten
<1> DEFINE Done(h) == \/ slot[h].at = "purge" /\ PurgeDone(h)
                      \/ NothingToPurge(h)
           Recent(h, m) ==
               /\ TimeOf[m] >= slot[h].since
               /\ NumberOf[LineOf[m]] = PhoneOf[slot[h].cand]
           Unfound(h, m) ==
               /\ Headless(m)
               /\ slot[h].at = "purge" =>
                     rows[m].chat \notin handler[h].filter.chats
           Gone(h) ==
               /\ sessions'[slot[h].cand] = None
               /\ \A m \in Wamids : Recent(h, m) \/ m \in slot[h].ids =>
                     /\ rows'[m] = None \/ Unfound(h, m)
                     /\ ~faulty => m \notin files'
<1>1. /\ SlotOK /\ IInv /\ SInv /\ Owned /\ PurgeKnows
      /\ [FilesNext]_fileVars
      => \A h \in Handlers : Done(h) => Gone(h)
  <2> SUFFICES ASSUME SlotOK, IInv, SInv, Owned, PurgeKnows,
                      [FilesNext]_fileVars, NEW h \in Handlers, Done(h)
               PROVE  Gone(h)
    OBVIOUS
  <2> DEFINE s == slot[h]
  <2>1. Ended(s) /\ (s.at = "purge" => Purging(s, handler[h]))
    BY DEF PurgeKnows, NothingToPurge
  <2>2. WholeOK(handler[h], chats, rows, files) \/ faulty
    BY DEF SInv
  <2>3. ASSUME NEW m \in Wamids, Recent(h, m) \/ m \in s.ids
        PROVE  NumberOf[LineOf[m]] = PhoneOf[s.cand]
    BY <2>1, <2>3 DEF Ended
  <2>4. ~faulty => \A m \in Wamids : rows[m] # None =>
                       chats[LineOf[m]] # None /\ ~Headless(m)
    BY <2>2, MessagesAssumption DEF WholeOK, Hangs, Headless
  <2>5. CASE s.at = "purge" /\ PurgeDone(h)
    <3>1. UNCHANGED sessions
      <4>1. CASE Crash
        BY <4>1 DEF Crash, captureVars, sessionState, Capture!Crash,
           Capture!sessionVars
      <4>2. CASE UNCHANGED fileVars
        BY <4>2 DEF fileVars, captureVars, sessionState
      <4>3. CASE LooseRuns
        BY <4>3 DEF LooseRuns, captureVars, sessionState
      <4>4. ASSUME NEW g \in Handlers, Arrives(g) \/ Proceeds(g)
            PROVE  UNCHANGED sessions
        <5>1. slot[g].at = "purge"
          BY <2>5 DEF OneHandler
        <5>2. ~Arrives(g)
          BY <5>1 DEF Arrives, Deliver, Sent, Start, PurgeCandidate
        <5>3. StoreRuns(g) \/ StoreRejects(g)
          BY <4>4, <5>1, <5>2
             DEF Proceeds, Route, LookUpFile, Listens, RejectFile,
                 FileRejected, DiscardRejects, CaptureRuns, PurgeMessages,
                 NothingToPurge
        <5>4. QED
          BY <5>3 DEF StoreRuns, StoreRejects, captureVars, sessionState
      <4>5. QED
        BY <4>1, <4>2, <4>3, <4>4 DEF FilesNext
    <3>2. handler[h].pc = "refresh" /\ UNCHANGED <<rows, files>>
      BY <2>5 DEF PurgeDone, At, store
    <3>3. ASSUME NEW m \in Wamids, Recent(h, m) \/ m \in s.ids
          PROVE  rows[m] = None \/ Unfound(h, m)
      BY <2>1, <2>3, <2>5, <3>2, <3>3 DEF Purging, Selected
    <3>4. ~faulty => \A m \in files : rows[m] # None
      BY <2>2, <3>2 DEF WholeOK
    <3>5. QED
      BY <2>1, <2>4, <3>1, <3>2, <3>3, <3>4 DEF Ended
  <2>6. CASE NothingToPurge(h)
    <3>1. UNCHANGED <<sessions, rows, files>> /\ s.at = "ended"
      BY <2>6 DEF NothingToPurge, vars, store, captureVars, sessionState
    <3>2. ASSUME NEW m \in Wamids, Recent(h, m) \/ m \in s.ids
          PROVE  /\ rows[m] = None \/ Headless(m)
                 /\ chats[LineOf[m]] = None
      <4>1. NumberOf[LineOf[m]] = PhoneOf[s.cand] /\ LineOf[m] \in Lines
        BY <2>3, <3>2, MessagesAssumption
      <4>2. QED
        BY <2>6, <4>1, HeadlessUnlessOwned DEF NothingToPurge
    <3>3. ASSUME NEW m \in Wamids, Recent(h, m) \/ m \in s.ids, ~faulty
          PROVE  m \notin files
      <4>1. handler[h].pc = "create" /\ handler[h].msg = m =>
                chats[LineOf[m]] # None
        BY <2>2, <3>3, SerialState DEF HandlerOK, WholeOK, Hangs
      <4>2. QED
        BY <2>2, <2>4, <3>2, <3>3, <4>1 DEF WholeOK
    <3>4. QED
      BY <2>1, <3>1, <3>2, <3>3 DEF Ended
  <2>7. QED
    BY <2>5, <2>6
<1>2. FilesInit /\ [][FilesNext]_fileVars /\ []SlotOK /\ []IInv /\ []SInv
          /\ []Owned /\ []PurgeKnows
      => [][\A h \in Handlers : Done(h) => Gone(h)]_fileVars
  BY <1>1, PTL
<1>3. FilesSpec => []IInv /\ []SInv /\ []Owned
  BY FilesImplementStore, Invariance, SerialInvariance, OwnedAlways, PTL
<1>4. FilesSpec => [][\A h \in Handlers : Done(h) => Gone(h)]_fileVars
  BY <1>2, <1>3, SlotsOK, PurgeKnowsAlways, PTL DEF FilesSpec
<1>5. (\A h \in Handlers : Done(h) => Gone(h))
      <=> \A h \in Handlers :
            (slot[h].at = "purge" /\ PurgeDone(h)) \/ NothingToPurge(h) =>
              LET s == slot[h]
                  Now(m) == TimeOf[m] >= s.since
                                  /\ NumberOf[LineOf[m]] = PhoneOf[s.cand]
              IN  /\ sessions'[s.cand] = None
                  /\ \A m \in Wamids : Now(m) \/ m \in s.ids =>
                        /\ \/ rows'[m] = None
                           \/ /\ Headless(m)
                              /\ s.at = "purge" =>
                                    rows[m].chat \notin
                                        handler[h].filter.chats
                        /\ ~faulty => m \notin files'
  OBVIOUS
<1>6. QED
  BY <1>4, <1>5, PTL DEF PurgedIsForgotten

-----------------------------------------------------------------------------
(* One request at a time: the files of reported videos are kept.           *)

Discarding(h) == handler[h].pc \in {"discard", "unlink"}

Discarded(m) == \E h \in Handlers : Discarding(h) /\ handler[h].msg = m

\* The store discards only what the capture rejected as a CV.
DiscardOK ==
    \A h \in Handlers :
        /\ slot[h].at = "discard" => /\ capture[h].pc = "media"
                                     /\ ~capture[h].sess.cvReceived
        /\ Discarding(h) => /\ slot[h].at = "discard"
                            /\ handler[h].msg = capture[h].media

\* The files that are not being discarded are where their paths say.
Intact == ~faulty => StoreKeeps({m \in WithMedia : ~Discarded(m)})

\* A handler that is accepting a video.
AtHand(r) == \/ r.pc \in {"video", "reportVideo"}
             \/ r.pc = "send" /\ r.out = "videoReceived"

HandOK ==
    \A h \in Handlers : AtHand(capture[h]) =>
        /\ sessions[capture[h].cand] # None
        /\ sessions[capture[h].cand].cvReceived
        /\ ~faulty => capture[h].media \in Present

\* The CRM was told of video m, and the number had no capture since.
Told(m) == ToldOf("recruiting.video_received", m) /\ m \notin earlier

\* From then on no session of the number, stored or copied, awaits a CV.
LateOK ==
    \A m \in WithMedia : Told(m) =>
        /\ \A c \in Candidates :
              PhoneOf[c] = NumberOf[LineOf[m]] /\ sessions[c] # None
                  => sessions[c].cvReceived
        /\ \A h \in Handlers :
              capture[h].pc # "idle"
                 /\ PhoneOf[capture[h].cand] = NumberOf[LineOf[m]]
                  => capture[h].sess.cvReceived
        /\ ~faulty => m \in Present

VideoInv == DiscardOK /\ Intact /\ HandOK /\ LateOK

\* What the invariants of the capture say of the only handler.
LEMMA HandlerKnows ==
    ASSUME CP!IInv, CP!SInv, NEW h \in Handlers
    PROVE  /\ capture \in [Handlers -> CP!HandlerState]
           /\ sessions \in [Candidates -> CP!Session \cup {None}]
           /\ capture[h].pc # "idle" =>
                 /\ capture[h].cand \in Candidates
                 /\ capture[h].sess \in CP!Session
                 /\ CP!Coherent(capture[h].sess)
                 /\ CP!LocalOK(capture[h], sessions)
           /\ capture[h].pc = "media" =>
                 /\ capture[h].media \in WithMedia
                 /\ sessions[capture[h].cand] = capture[h].sess
           /\ AtHand(capture[h]) \/ capture[h].pc = "media" =>
                 /\ capture[h].media \in WithMedia
                 /\ NumberOf[LineOf[capture[h].media]]
                        = PhoneOf[capture[h].cand]
           /\ capture[h].pc = "reportVideo" => capture[h].sess.cvReceived
BY DEF CP!IInv, CP!TypeOK, CP!HandlerOK, CP!SessionOK, CP!OwnMedia,
       CP!OwnVideo, CP!SInv, CP!LocalOK, AtHand

\* A file counts as the CV exactly if none was received.
LEMMA WantsCvMeans ==
    ASSUME NEW s \in CP!Session, CP!Coherent(s)
    PROVE  Capture!WantsCv(s) <=> ~s.cvReceived
BY DEF CP!Session, CP!Stages, CP!Coherent, Capture!WantsCv

\* Neither a video reported since the last capture nor one being accepted is
\* being discarded.
LEMMA KeptFromDiscard ==
    ASSUME OneHandler, CP!IInv, CP!SInv, VideoInv, NEW m \in WithMedia,
           Told(m) \/ \E h \in Handlers : /\ AtHand(capture[h])
                                          /\ capture[h].media = m
    PROVE  ~Discarded(m)
<1> SUFFICES ASSUME NEW h \in Handlers, Discarding(h), handler[h].msg = m
             PROVE  FALSE
  BY DEF Discarded
<1>1. /\ capture[h].pc = "media" /\ capture[h].media = m
      /\ ~capture[h].sess.cvReceived
  BY DEF VideoInv, DiscardOK
<1>2. NumberOf[LineOf[m]] = PhoneOf[capture[h].cand]
  BY <1>1, HandlerKnows
<1>3. CASE Told(m)
  BY <1>1, <1>2, <1>3 DEF VideoInv, LateOK
<1>4. CASE \E g \in Handlers : AtHand(capture[g])
  BY <1>1, <1>4 DEF OneHandler, AtHand
<1>5. QED
  BY <1>3, <1>4

\* A step the capture has no part in keeps what the CRM was told of, if it
\* keeps every file that is not being discarded.
LEMMA CaptureAsIs ==
    ASSUME OneHandler, CP!IInv, CP!SInv, VideoInv,
           UNCHANGED <<capture, sessions, events, earlier>>,
           faulty => faulty',
           ~faulty' => \A m \in WithMedia :
                           m \in Present /\ ~Discarded(m) => m \in Present'
    PROVE  HandOK' /\ LateOK'
<1>1. ASSUME NEW m \in WithMedia, m \in Present, ~faulty',
             Told(m) \/ \E h \in Handlers : /\ AtHand(capture[h])
                                            /\ capture[h].media = m
      PROVE  m \in Present'
  BY <1>1, KeptFromDiscard
<1>2. HandOK'
  <2>1. ASSUME NEW h \in Handlers, AtHand(capture[h])
        PROVE  capture[h].media \in WithMedia
    BY <2>1, HandlerKnows
  <2>2. QED
    BY <1>1, <2>1 DEF VideoInv, HandOK, AtHand
<1>3. LateOK'
  BY <1>1 DEF VideoInv, LateOK, Told, ToldOf
<1>4. QED
  BY <1>2, <1>3

\* A step the store has no part in, with nothing to be discarded after it.
LEMMA StoreAsIs ==
    ASSUME OneHandler, VideoInv, NEW h \in Handlers,
           UNCHANGED <<vars, forgotten>>, ~Discarding(h),
           slot'[h].at = "discard" => /\ capture'[h].pc = "media"
                                      /\ ~capture'[h].sess.cvReceived
    PROVE  DiscardOK' /\ Intact'
<1>1. \A g \in Handlers : g = h /\ ~Discarding(g)'
  BY DEF OneHandler, Discarding, vars
<1>2. DiscardOK'
  BY <1>1 DEF DiscardOK
<1>3. Intact'
  BY DEF VideoInv, Intact, Discarded, Discarding, StoreKeeps, Present,
         vars, store
<1>4. QED
  BY <1>2, <1>3

\* The events after a step of handler r of the capture: no video but the one
\* at hand.
NoOtherVideo(r) ==
    \A e \in events' :
        \/ e \in events \/ e.action # "recruiting.video_received"
        \/ r.pc = "reportVideo" /\ e.item = r.media

\* Handler h, at r, goes on as next.
GoesOnAs(r, next) ==
    /\ next.cand = r.cand /\ next.media = r.media
    /\ r.sess.cvReceived => next.sess.cvReceived
    /\ AtHand(next) => AtHand(r)

\* What a step of the capture's handler r leaves to be known.
CopyKnows(h, r) ==
    /\ capture'[h].pc # "idle" => GoesOnAs(r, capture'[h])
    /\ \/ UNCHANGED sessions
       \/ /\ sessions' = [sessions EXCEPT ![r.cand] = r.sess]
          /\ capture'[h].pc = "idle"
    /\ NoOtherVideo(r)

LEMMA CopyProgress ==
    ASSUME CP!IInv, CP!SInv, NEW h \in Handlers, Capture!Progress(h),
           Capture!At(h, "media") => Capture!CallRejects(h)
    PROVE  capture[h].pc # "idle" /\ CopyKnows(h, capture[h])
<1> DEFINE r == capture[h]
           s == r.sess
<1>1. r \in CP!HandlerState /\ capture \in [Handlers -> CP!HandlerState]
  BY HandlerKnows
<1>2. r.pc # "idle"
  BY DEF Capture!Progress, Capture!SaveSession, Capture!CallRejects,
     Capture!Awaiting, Capture!SendAssistantText, Capture!ProcessInboundText,
     Capture!AgentReplies, Capture!AgentCallsTools,
     Capture!SaveCapturedField, Capture!MarkDataComplete,
     Capture!MarkInterviewAccepted, Capture!ToolCall, Capture!EndRound,
     Capture!UselessToolCall, Capture!ProcessInboundMedia, Capture!StoreCv,
     Capture!AcceptVideo, Capture!ReportVideo, Capture!SendSessionOpening,
     Capture!At
<1>3. r = [pc |-> r.pc, job |-> r.job, cand |-> r.cand, sess |-> r.sess,
           media |-> r.media, out |-> r.out, round |-> r.round,
           calls |-> r.calls]
  BY <1>1 DEF CP!HandlerState
<1>4. s \in CP!Session /\ CP!Coherent(s)
  BY <1>2, HandlerKnows
<1>5. s = [stage |-> s.stage, captured |-> s.captured,
           dataComplete |-> s.dataComplete,
           interviewAccepted |-> s.interviewAccepted,
           cvReceived |-> s.cvReceived, cvRequested |-> s.cvRequested]
  BY <1>4 DEF CP!Session
<1> SUFFICES CopyKnows(h, r)
  BY <1>2
<1> HIDE DEF r, s
<1>6. ASSUME NEW next, Capture!Becomes(h, next), GoesOnAs(r, next),
             UNCHANGED sessions, NoOtherVideo(r)
      PROVE  CopyKnows(h, r)
  BY <1>1, <1>6 DEF Capture!Becomes, CopyKnows
<1>7. events' = events => NoOtherVideo(r)
  BY DEF NoOtherVideo
<1>8. ASSUME NEW e, events' = events \cup {e},
             e.action # "recruiting.video_received"
      PROVE  NoOtherVideo(r)
  BY <1>8 DEF NoOtherVideo
<1>9. ASSUME NEW point, point \notin {"video", "reportVideo", "send"}
      PROVE  GoesOnAs(r, [r EXCEPT !.pc = point])
  BY <1>3, <1>9 DEF GoesOnAs, AtHand
<1>10. ASSUME NEW out, NEW t, out # "videoReceived",
              s.cvReceived => t.cvReceived
       PROVE  GoesOnAs(r, [r EXCEPT !.pc = "send", !.out = out, !.sess = t])
  BY <1>3, <1>10 DEF GoesOnAs, AtHand, s
<1>11. CASE Capture!SaveSession(h)
  <2>1. capture'[h].pc = "idle"
    BY <1>1, <1>11 DEF Capture!SaveSession, Capture!Becomes, Capture!Idle,
       Capture!Entering
  <2>2. UNCHANGED sessions \/ sessions' = [sessions EXCEPT ![r.cand] = r.sess]
    BY <1>11 DEF Capture!SaveSession, Capture!Upsert, Capture!sessionVars, r
  <2>3. QED
    BY <1>7, <1>11, <2>1, <2>2
       DEF CopyKnows, Capture!SaveSession, Capture!crmVars
<1>12. CASE Capture!CallRejects(h)
  <2>1. NoOtherVideo(r)
    BY <1>12 DEF Capture!CallRejects, Capture!OpeningEvents, NoOtherVideo
  <2>2. QED
    BY <1>6, <1>9, <1>12, <2>1
       DEF Capture!CallRejects, Capture!sessionVars, r
<1>13. CASE Capture!SendAssistantText(h)
  <2> DEFINE next == [r EXCEPT !.pc = Capture!AfterSending(r.out)]
  <2>1. GoesOnAs(r, next)
    BY <1>3, <1>13 DEF Capture!SendAssistantText, Capture!AfterSending,
       Capture!At, GoesOnAs, AtHand, r
  <2>2. Capture!Becomes(h, next) /\ UNCHANGED <<sessions, events>>
    BY <1>13 DEF Capture!SendAssistantText, Capture!sessionVars, r
  <2> HIDE DEF next
  <2>3. QED
    BY <1>6, <1>7, <2>1, <2>2
<1>14. CASE Capture!ProcessInboundText(h)
  <2>1. UNCHANGED <<sessions, events>>
    BY <1>14 DEF Capture!ProcessInboundText, Capture!sessionVars,
       Capture!crmVars
  <2>2. \/ Capture!Becomes(h, [r EXCEPT !.pc = "send", !.out = "notice"])
        \/ Capture!Becomes(h, [r EXCEPT !.pc = "send", !.out = "cvRequest",
                                        !.sess.cvRequested = TRUE])
        \/ Capture!Becomes(h, [r EXCEPT !.pc = "agent"])
    BY <1>14 DEF Capture!ProcessInboundText, r
  <2>3. /\ GoesOnAs(r, [r EXCEPT !.pc = "send", !.out = "notice"])
        /\ GoesOnAs(r, [r EXCEPT !.pc = "send", !.out = "cvRequest",
                                 !.sess.cvRequested = TRUE])
    BY <1>3, <1>5 DEF GoesOnAs, AtHand, s
  <2>4. QED
    BY <1>6, <1>7, <1>9, <2>1, <2>2, <2>3
<1>15. CASE Capture!AgentReplies(h) \/ Capture!AgentCallsTools(h)
  <2>1. UNCHANGED <<sessions, events>>
    BY <1>15 DEF Capture!AgentReplies, Capture!AgentCallsTools,
       Capture!sessionVars, Capture!crmVars
  <2>2. \/ Capture!Becomes(h, [r EXCEPT !.pc = "send", !.out = "notice"])
        \/ Capture!Becomes(h, [r EXCEPT !.pc = "save"])
        \/ \E n : Capture!Becomes(h, [r EXCEPT !.pc = "tools", !.calls = n])
    BY <1>15 DEF Capture!AgentReplies, Capture!AgentCallsTools, r
  <2>3. /\ GoesOnAs(r, [r EXCEPT !.pc = "send", !.out = "notice"])
        /\ \A n : GoesOnAs(r, [r EXCEPT !.pc = "tools", !.calls = n])
    BY <1>3 DEF GoesOnAs, AtHand
  <2>4. QED
    BY <1>6, <1>7, <1>9, <2>1, <2>2, <2>3
<1>16. ASSUME NEW name, NEW action, NEW item, NEW t,
              Capture!ToolCall(h, name, action, item, t),
              action # "recruiting.video_received",
              s.cvReceived => t.cvReceived
       PROVE  CopyKnows(h, r)
  <2>1. \/ Capture!Becomes(h, [r EXCEPT !.sess = t, !.calls = @ - 1])
        \/ Capture!Becomes(h, [r EXCEPT !.sess = t, !.pc = "save"])
    BY <1>16 DEF Capture!ToolCall, Capture!Emit, Capture!Tells, r
  <2>2. r.pc = "tools"
    BY <1>16 DEF Capture!ToolCall, Capture!At, r
  <2>3. /\ GoesOnAs(r, [r EXCEPT !.sess = t, !.calls = @ - 1])
        /\ GoesOnAs(r, [r EXCEPT !.sess = t, !.pc = "save"])
    BY <1>3, <1>16, <2>2 DEF GoesOnAs, AtHand, s
  <2>4. \/ events' = events
        \/ events' = events \cup {[action |-> action, cand |-> r.cand,
                                   item |-> item]}
    BY <1>16 DEF Capture!ToolCall, Capture!Emit, Capture!Tells, r
  <2>5. NoOtherVideo(r)
    BY <1>7, <1>8, <1>16, <2>4
  <2>6. UNCHANGED sessions
    BY <1>16 DEF Capture!ToolCall, Capture!sessionVars
  <2>7. QED
    BY <1>6, <2>1, <2>3, <2>5, <2>6
<1>17. CASE Capture!SaveCapturedField(h)
  <2>1. PICK f \in Fields :
           Capture!ToolCall(h, "saveCapturedField",
                            "recruiting.field_captured", f,
                            [s EXCEPT !.captured = @ \cup {f}])
    BY <1>17 DEF Capture!SaveCapturedField, r, s
  <2>2. s.cvReceived => [s EXCEPT !.captured = @ \cup {f}].cvReceived
    BY <1>5
  <2>3. QED
    BY <1>16, <2>1, <2>2
<1>18. CASE Capture!MarkDataComplete(h)
  <2>1. PICK stage :
           Capture!ToolCall(h, "markDataComplete",
                            "recruiting.data_complete", None,
                            [s EXCEPT !.dataComplete = TRUE, !.stage = stage])
    BY <1>18 DEF Capture!MarkDataComplete, r, s
  <2>2. s.cvReceived => [s EXCEPT !.dataComplete = TRUE,
                                  !.stage = stage].cvReceived
    BY <1>5
  <2>3. QED
    BY <1>16, <2>1, <2>2
<1>19. CASE Capture!MarkInterviewAccepted(h)
  <2>1. Capture!ToolCall(h, "markInterviewAccepted",
                         "recruiting.interview_accepted", None,
                         [s EXCEPT !.interviewAccepted = TRUE])
    BY <1>19 DEF Capture!MarkInterviewAccepted, r, s
  <2>2. s.cvReceived => [s EXCEPT !.interviewAccepted = TRUE].cvReceived
    BY <1>5
  <2>3. QED
    BY <1>16, <2>1, <2>2
<1>20. CASE Capture!UselessToolCall(h)
  <2>1. r.pc = "tools" /\ UNCHANGED <<sessions, events>>
           /\ Capture!Becomes(h, [r EXCEPT !.calls = @ - 1])
    BY <1>20 DEF Capture!UselessToolCall, Capture!At, Capture!sessionVars,
       Capture!crmVars, r
  <2>2. GoesOnAs(r, [r EXCEPT !.calls = @ - 1])
    BY <1>3, <2>1 DEF GoesOnAs, AtHand
  <2>3. QED
    BY <1>6, <1>7, <2>1, <2>2
<1>21. CASE Capture!EndRound(h)
  <2> DEFINE q == Capture!StageRequest(s)
  <2>1. /\ s.cvReceived => q.sess.cvReceived
        /\ q.text # "videoReceived"
    BY <1>5 DEF Capture!StageRequest
  <2>2. \/ Capture!Becomes(h, [r EXCEPT !.pc = "send", !.out = q.text,
                                        !.sess = q.sess])
        \/ \E n : Capture!Becomes(h, [r EXCEPT !.pc = "agent", !.round = n])
        \/ Capture!Becomes(h, [r EXCEPT !.pc = "save"])
    BY <1>21 DEF Capture!EndRound, r, s
  <2>3. UNCHANGED <<sessions, events>>
    BY <1>21 DEF Capture!EndRound, Capture!sessionVars, Capture!crmVars
  <2> HIDE DEF q
  <2>4. /\ GoesOnAs(r, [r EXCEPT !.pc = "send", !.out = q.text,
                                 !.sess = q.sess])
        /\ \A n : GoesOnAs(r, [r EXCEPT !.pc = "agent", !.round = n])
    BY <1>3, <2>1 DEF GoesOnAs, AtHand, s
  <2>5. QED
    BY <1>6, <1>7, <1>9, <2>2, <2>3, <2>4
<1>22. CASE Capture!StoreCv(h)
  <2> DEFINE t == [s EXCEPT !.cvReceived = TRUE]
             asked == [t EXCEPT !.stage = "awaiting_video"]
             sends == [r EXCEPT !.pc = "send", !.out = "videoRequest",
                                !.sess = asked]
             turns == [r EXCEPT !.pc = "agent", !.sess = t]
  <2>1. t.cvReceived /\ asked.cvReceived
    BY <1>5
  <2>2. \/ Capture!Becomes(h, sends) \/ Capture!Becomes(h, turns)
        \/ Capture!Becomes(h, [r EXCEPT !.pc = "save"])
    BY <1>22 DEF Capture!StoreCv, Capture!Emit, Capture!Tells, r, s
  <2>3. \/ events' = events
        \/ events' = events \cup {[action |-> "recruiting.cv_received",
                                   cand |-> r.cand, item |-> r.media]}
    BY <1>22 DEF Capture!StoreCv, Capture!Emit, Capture!Tells, r
  <2>4. UNCHANGED sessions
    BY <1>22 DEF Capture!StoreCv, Capture!sessionVars
  <2> HIDE DEF t, asked
  <2>5. GoesOnAs(r, sends) /\ GoesOnAs(r, turns)
    BY <1>3, <2>1 DEF GoesOnAs, AtHand, s
  <2>6. NoOtherVideo(r)
    BY <1>7, <1>8, <2>3
  <2> HIDE DEF sends, turns
  <2>7. QED
    BY <1>6, <1>9, <2>2, <2>4, <2>5, <2>6
<1>23. CASE Capture!AcceptVideo(h)
  <2> DEFINE next == [r EXCEPT !.pc = "send", !.out = "videoReceived",
                               !.sess.stage = "done"]
  <2>1. r.pc = "video" /\ UNCHANGED <<sessions, events>>
           /\ Capture!Becomes(h, next)
    BY <1>23 DEF Capture!AcceptVideo, Capture!At, Capture!sessionVars,
       Capture!crmVars, r
  <2>2. GoesOnAs(r, next)
    BY <1>3, <1>5, <2>1 DEF GoesOnAs, AtHand, s
  <2> HIDE DEF next
  <2>3. QED
    BY <1>6, <1>7, <2>1, <2>2
<1>24. CASE Capture!ReportVideo(h)
  <2>1. r.pc = "reportVideo" /\ UNCHANGED sessions
           /\ Capture!Becomes(h, [r EXCEPT !.pc = "save"])
    BY <1>24 DEF Capture!ReportVideo, Capture!Emit, Capture!Tells, Capture!At,
       Capture!sessionVars, r
  <2>2. \/ events' = events
        \/ events' = events \cup {[action |-> "recruiting.video_received",
                                   cand |-> r.cand, item |-> r.media]}
    BY <1>24 DEF Capture!ReportVideo, Capture!Emit, Capture!Tells, r
  <2>3. NoOtherVideo(r)
    BY <2>1, <2>2 DEF NoOtherVideo
  <2>4. QED
    BY <1>6, <1>9, <2>1, <2>3
<1>25. CASE Capture!SendSessionOpening(h)
  <2>1. UNCHANGED sessions /\ Capture!Becomes(h, [r EXCEPT !.pc = "save"])
    BY <1>25 DEF Capture!SendSessionOpening, Capture!sessionVars, r
  <2>2. NoOtherVideo(r)
    BY <1>25
       DEF Capture!SendSessionOpening, Capture!OpeningEvents, NoOtherVideo
  <2>3. QED
    BY <1>6, <1>9, <2>1, <2>2
<1>26. CASE Capture!ProcessInboundMedia(h)
  BY <1>12, <1>26 DEF Capture!ProcessInboundMedia
<1>27. QED
  BY <1>11, <1>12, <1>13, <1>14, <1>15, <1>17, <1>18, <1>19, <1>20, <1>21,
     <1>22, <1>23, <1>24, <1>25, <1>26 DEF Capture!Progress


\* A step of the capture's handler that is no lookup.
LEMMA CopyKeeps ==
    ASSUME OneHandler, CP!IInv, CP!SInv, VideoInv, NEW h \in Handlers,
           capture[h].pc # "idle", CopyKnows(h, capture[h]),
           UNCHANGED earlier, faulty => faulty',
           ~faulty' => PresentGrows(WithMedia)
    PROVE  HandOK' /\ LateOK'
<1> DEFINE r == capture[h]
           next == capture'[h]
<1>1. \A g \in Handlers : g = h
  BY DEF OneHandler
<1>2. /\ r.cand \in Candidates /\ CP!LocalOK(r, sessions)
      /\ r.sess \in CP!Session
      /\ AtHand(r) => /\ r.media \in WithMedia
                      /\ NumberOf[LineOf[r.media]] = PhoneOf[r.cand]
      /\ r.pc = "reportVideo" => r.sess.cvReceived
      /\ sessions \in [Candidates -> CP!Session \cup {None}]
  BY HandlerKnows
<1>3. HandOK'
  <2> SUFFICES ASSUME AtHand(next)
               PROVE  /\ sessions'[next.cand] # None
                      /\ sessions'[next.cand].cvReceived
                      /\ ~faulty' => next.media \in Present'
    BY <1>1 DEF HandOK, AtHand
  <2>1. next.pc # "idle"
    BY DEF AtHand
  <2>2. AtHand(r) /\ next.cand = r.cand /\ next.media = r.media
           /\ UNCHANGED sessions
    BY <2>1 DEF CopyKnows, GoesOnAs
  <2>3. QED
    BY <1>2, <2>2 DEF VideoInv, HandOK, PresentGrows
<1>4. ASSUME NEW m \in WithMedia, Told(m)'
      PROVE  \/ Told(m)
             \/ r.pc = "reportVideo" /\ m = r.media
  BY <1>4 DEF Told, ToldOf, CopyKnows, NoOtherVideo
<1>5. ASSUME NEW m \in WithMedia, Told(m)'
      PROVE  /\ PhoneOf[r.cand] = NumberOf[LineOf[m]] => r.sess.cvReceived
             /\ \A c \in Candidates :
                   PhoneOf[c] = NumberOf[LineOf[m]] /\ sessions[c] # None
                       => sessions[c].cvReceived
             /\ ~faulty' => m \in Present'
  <2>1. CASE Told(m)
    BY <2>1 DEF VideoInv, LateOK, PresentGrows
  <2>2. CASE r.pc = "reportVideo" /\ m = r.media
    <3>1. AtHand(r)
      BY <2>2 DEF AtHand
    <3>2. /\ sessions[r.cand].cvReceived
          /\ ~faulty => r.media \in Present
      BY <3>1 DEF VideoInv, HandOK
    <3>3. \A d \in Candidates \ {r.cand} :
              PhoneOf[d] = PhoneOf[r.cand] => sessions[d] = None
      BY <1>2 DEF CP!LocalOK
    <3>4. QED
      BY <1>2, <2>2, <3>1, <3>2, <3>3 DEF PresentGrows
  <2>3. QED
    BY <1>4, <1>5, <2>1, <2>2
<1>6. LateOK'
  <2> SUFFICES ASSUME NEW m \in WithMedia, Told(m)'
               PROVE  /\ \A c \in Candidates :
                            PhoneOf[c] = NumberOf[LineOf[m]]
                               /\ sessions'[c] # None
                                => sessions'[c].cvReceived
                      /\ next.pc # "idle"
                            /\ PhoneOf[next.cand] = NumberOf[LineOf[m]]
                             => next.sess.cvReceived
                      /\ ~faulty' => m \in Present'
    BY <1>1 DEF LateOK
  <2>1. ASSUME next.pc # "idle"
        PROVE  next.cand = r.cand
                  /\ (r.sess.cvReceived => next.sess.cvReceived)
    BY <2>1 DEF CopyKnows, GoesOnAs
  <2>2. \A c \in Candidates :
            \/ sessions'[c] = sessions[c]
            \/ c = r.cand /\ sessions'[c] = r.sess
    BY <1>2 DEF CopyKnows
  <2>3. /\ PhoneOf[r.cand] = NumberOf[LineOf[m]] => r.sess.cvReceived
        /\ \A c \in Candidates :
              PhoneOf[c] = NumberOf[LineOf[m]] /\ sessions[c] # None
                  => sessions[c].cvReceived
        /\ ~faulty' => m \in Present'
    BY <1>5
  <2> HIDE DEF r, next
  <2>4. ASSUME NEW c \in Candidates, PhoneOf[c] = NumberOf[LineOf[m]],
               sessions'[c] # None
        PROVE  sessions'[c].cvReceived
    BY <2>2, <2>3, <2>4
  <2>5. QED
    BY <2>1, <2>3, <2>4
<1>7. QED
  BY <1>3, <1>6

\* What becomes of a file that was looked up, again.
LEMMA TakenFile ==
    ASSUME CP!IInv, NEW h \in Handlers, NEW found,
           Capture!TakeMedia(h, found)
    PROVE  /\ capture'[h].cand = capture[h].cand
           /\ capture'[h].sess = capture[h].sess
           /\ capture'[h].media = capture[h].media
           /\ AtHand(capture'[h]) =>
                 /\ found /\ KindOf[capture[h].media] = "video"
                 /\ ~Capture!WantsCv(capture[h].sess)
<1> DEFINE r == capture[h]
           f == found /\ KindOf[r.media] = "video" /\ ~Capture!WantsCv(r.sess)
<1>1. r \in CP!HandlerState /\ capture \in [Handlers -> CP!HandlerState]
  BY CaptureKnows
<1>2. r = [pc |-> r.pc, job |-> r.job, cand |-> r.cand, sess |-> r.sess,
           media |-> r.media, out |-> r.out, round |-> r.round,
           calls |-> r.calls]
  BY <1>1 DEF CP!HandlerState
<1>3. \/ Capture!Becomes(h, [r EXCEPT !.pc = "save"])
      \/ Capture!Becomes(h, [r EXCEPT !.pc = "video"]) /\ f
      \/ Capture!Becomes(h, [r EXCEPT !.pc = "send", !.out = "notice"])
      \/ Capture!Becomes(h, [r EXCEPT !.pc = "cv"])
  BY DEF Capture!TakeMedia
<1> HIDE DEF r, f
<1>4. \A point : /\ [r EXCEPT !.pc = point].cand = r.cand
                 /\ [r EXCEPT !.pc = point].sess = r.sess
                 /\ [r EXCEPT !.pc = point].media = r.media
                 /\ [r EXCEPT !.pc = point].pc = point
  BY <1>2
<1>5. /\ [r EXCEPT !.pc = "send", !.out = "notice"].cand = r.cand
      /\ [r EXCEPT !.pc = "send", !.out = "notice"].sess = r.sess
      /\ [r EXCEPT !.pc = "send", !.out = "notice"].media = r.media
      /\ ~AtHand([r EXCEPT !.pc = "send", !.out = "notice"])
  BY <1>2 DEF AtHand
<1>6. \A next : Capture!Becomes(h, next) => capture'[h] = next
  BY <1>1 DEF Capture!Becomes
<1>7. /\ capture'[h].cand = r.cand /\ capture'[h].sess = r.sess
      /\ capture'[h].media = r.media
      /\ AtHand(capture'[h]) => f
  <2>1. CASE Capture!Becomes(h, [r EXCEPT !.pc = "send", !.out = "notice"])
    BY <1>5, <1>6, <2>1, Zenon
  <2>2. ASSUME NEW point, Capture!Becomes(h, [r EXCEPT !.pc = point]),
               point \in {"save", "cv"} \/ f
        PROVE  /\ capture'[h].cand = r.cand /\ capture'[h].sess = r.sess
               /\ capture'[h].media = r.media
               /\ AtHand(capture'[h]) => f
    <3>1. capture'[h] = [r EXCEPT !.pc = point]
      BY <1>6, <2>2
    <3>2. QED
      BY <1>4, <2>2, <3>1 DEF AtHand
  <2>3. QED
    BY <1>3, <2>1, <2>2
<1>8. QED
  BY <1>7 DEF r, f


\* The store's handler at a discard, and at the end of one.
LEMMA DiscardSteps ==
    ASSUME IInv, NEW h \in Handlers, Progress(h)
    PROVE  /\ faulty => faulty'
           /\ Discarding(h)' => Discarding(h)
           /\ Discarding(h)' => handler'[h].msg = handler[h].msg
           /\ Discarding(h) /\ ~Discarding(h)' =>
                 /\ handler'[h] = Idle
                 /\ handler[h].msg \in Wamids =>
                       LET m == handler[h].msg
                       IN  rows'[m] = None \/ ~rows'[m].linked
<1> DEFINE r == handler[h]
<1>1. /\ r \in HandlerState /\ handler \in [Handlers -> HandlerState]
      /\ rows \in [Wamids -> Row \cup {None}]
  BY DEF IInv, TypeOK
<1>2. r = [pc |-> r.pc, msg |-> r.msg, dup |-> r.dup, chat |-> r.chat,
           linked |-> r.linked, filter |-> r.filter, rm |-> r.rm,
           unread |-> r.unread, latest |-> r.latest]
  BY <1>1 DEF HandlerState
<1>3. CASE UnlinkFile(h)
  <2>1. handler'[h] = Idle /\ ~Discarding(h)'
    BY <1>1, <1>3 DEF UnlinkFile, Becomes, Discarding, Idle, Entering
  <2>2. UNCHANGED faulty
    BY <1>3 DEF UnlinkFile
  <2>3. ASSUME r.msg \in Wamids
        PROVE  rows'[r.msg] = None \/ ~rows'[r.msg].linked
    <3>1. CASE rows[r.msg] = None
      BY <1>3, <3>1 DEF UnlinkFile
    <3>2. CASE rows[r.msg] # None
      <4>1. rows' = [rows EXCEPT ![r.msg].linked = FALSE]
        BY <1>3, <3>2 DEF UnlinkFile
      <4>2. rows[r.msg] \in Row
        BY <1>1, <2>3, <3>2
      <4>3. rows'[r.msg].linked = FALSE
        BY <1>1, <2>3, <4>1, <4>2 DEF Row
      <4>4. QED
        BY <4>3
    <3>3. QED
      BY <3>1, <3>2
  <2>4. QED
    BY <2>1, <2>2, <2>3
<1>4. CASE DiscardFile(h)
  <2>1. handler' = [handler EXCEPT ![h] = [r EXCEPT !.pc = "unlink"]]
           /\ r.pc = "discard" /\ UNCHANGED faulty
    BY <1>4 DEF DiscardFile, Goes, Becomes, At
  <2>2. handler'[h].pc = "unlink" /\ handler'[h].msg = r.msg
    BY <1>1, <1>2, <2>1
  <2>3. QED
    BY <2>1, <2>2 DEF Discarding
<1>5. ASSUME NEW next, Becomes(h, next), ~Discarding(h),
             next.pc \notin {"discard", "unlink"}, faulty => faulty'
      PROVE  ~Discarding(h)'
  BY <1>1, <1>5 DEF Becomes, Discarding
<1>6. ~UnlinkFile(h) /\ ~DiscardFile(h) =>
          ~Discarding(h) /\ ~Discarding(h)' /\ (faulty => faulty')
  <2> SUFFICES ASSUME ~UnlinkFile(h), ~DiscardFile(h)
               PROVE  ~Discarding(h) /\ ~Discarding(h)' /\ (faulty => faulty')
    OBVIOUS
  <2>1. CASE ReadDuplicate(h)
    BY <1>1, <1>2, <2>1 DEF ReadDuplicate, Becomes, At, Discarding
  <2>2. CASE UpsertInboundChat(h) \/ UpsertOutboundChat(h)
    <3>1. \E id : \/ Becomes(h, [r EXCEPT !.chat = id]) /\ r.pc = "lookup"
                  \/ /\ Becomes(h, [[r EXCEPT !.pc = "create"]
                                        EXCEPT !.chat = id])
                     /\ r.pc = "upsert"
      BY <2>2 DEF UpsertInboundChat, UpsertOutboundChat, UpsertChat, At
    <3>2. UNCHANGED faulty
      BY <2>2 DEF UpsertInboundChat, UpsertOutboundChat, UpsertChat
    <3>3. QED
      BY <1>1, <1>2, <3>1, <3>2 DEF Becomes, Discarding
  <2>3. CASE AfterLookup(h) \/ AfterSentLookup(h)
    BY <1>1, <1>2, <2>3
       DEF AfterLookup, AfterSentLookup, Goes, Becomes, At, Discarding, Idle,
           Entering
  <2>4. CASE DownloadMedia(h)
    <3>1. r.pc = "download" /\ (faulty => faulty')
      BY <2>4 DEF DownloadMedia, At
    <3>2. \/ Becomes(h, [r EXCEPT !.pc = "create", !.linked = TRUE])
          \/ Becomes(h, [r EXCEPT !.pc = "create"])
      BY <2>4 DEF DownloadMedia, FailedDownload, Goes
    <3>3. QED
      BY <1>1, <1>2, <3>1, <3>2 DEF Becomes, Discarding
  <2>5. CASE CreateMessage(h) \/ PurgeDone(h)
    BY <1>1, <1>2, <2>5
       DEF CreateMessage, PurgeDone, Becomes, At, Discarding, Idle, Entering
  <2>6. CASE FindMessages(h) \/ FilesRemoved(h) \/ DeleteMessages(h)
    <3>1. r.pc \in {"find", "rm", "deleteMany"} /\ UNCHANGED faulty
      BY <2>6 DEF FindMessages, FilesRemoved, DeleteMessages, At
    <3>2. \/ \E s : Becomes(h, [r EXCEPT !.pc = "rm", !.rm = s])
          \/ Becomes(h, [r EXCEPT !.pc = "deleteMany"])
          \/ \E s : Becomes(h, [r EXCEPT !.pc = "refresh", !.unread = s])
      BY <2>6 DEF FindMessages, FilesRemoved, DeleteMessages, Goes
    <3>3. QED
      BY <1>1, <1>2, <3>1, <3>2 DEF Becomes, Discarding
  <2>7. CASE RemoveFile(h)
    BY <1>1, <1>2, <2>7 DEF RemoveFile, Becomes, At, Discarding
  <2>8. CASE ReadLatest(h) \/ RefreshChat(h)
    <3>1. r.pc = "refresh" /\ UNCHANGED faulty
      BY <2>8 DEF ReadLatest, RefreshChat, At
    <3>2. \E a, b : Becomes(h, [r EXCEPT !.unread = a, !.latest = b])
      <4>1. CASE RefreshChat(h)
        <5>1. PICK b : Becomes(h, [r EXCEPT !.latest = b])
          BY <4>1 DEF RefreshChat
        <5>2. [r EXCEPT !.latest = b]
                 = [r EXCEPT !.unread = r.unread, !.latest = b]
          BY <1>2
        <5>3. QED
          BY <5>1, <5>2
      <4>2. QED
        BY <2>8, <4>1 DEF ReadLatest
    <3>3. QED
      BY <1>1, <1>2, <3>1, <3>2 DEF Becomes, Discarding
  <2>9. QED
    BY <2>1, <2>2, <2>3, <2>4, <2>5, <2>6, <2>7, <2>8 DEF Progress
<1>7. QED
  BY <1>3, <1>4, <1>6

LEMMA KeepsFewer ==
    ASSUME NEW K \in SUBSET WithMedia, NEW L \in SUBSET K, StoreKeeps(K)
    PROVE  StoreKeeps(L)
BY DEF StoreKeeps

\* Nothing is being discarded.
LEMMA AllIntact ==
    ASSUME OneHandler, VideoInv, NEW h \in Handlers, ~Discarding(h), ~faulty
    PROVE  StoreKeeps(WithMedia)
<1>1. {m \in WithMedia : ~Discarded(m)} = WithMedia
  BY DEF OneHandler, Discarded
<1>2. QED
  BY <1>1 DEF VideoInv, Intact

\* The store's handler begins or ends a call.
LEMMA EntersIntact ==
    ASSUME OneHandler, IInv, VideoInv, NEW h \in Handlers, ~Discarding(h),
           NEW point, NEW m, Becomes(h, Entering(point, m)),
           point # "unlink", UNCHANGED <<rows, files, past, faulty>>
    PROVE  Intact' /\ PresentGrows(WithMedia)
<1>1. PresentGrows(WithMedia)
  BY DEF PresentGrows, Present, past
<1>2. ASSUME ~faulty'
      PROVE  StoreKeeps({n \in WithMedia : ~Discarded(n)})'
  <2> DEFINE L == IF point = "discard" THEN WithMedia \ {m} ELSE WithMedia
  <2>1. L \in SUBSET WithMedia /\ (point = "discard" => m \notin L)
    OBVIOUS
  <2>2. StoreKeeps(WithMedia)
    BY <1>2, AllIntact
  <2> HIDE DEF L
  <2>3. StoreKeeps(L)'
    BY <2>1, <2>2, KeepsFewer, StoreEnters
  <2>4. handler'[h] = Entering(point, m)
    BY DEF IInv, TypeOK, Becomes
  <2>5. \A n : Discarded(n)' <=> point = "discard" /\ n = m
    BY <2>4 DEF OneHandler, Discarded, Discarding, Entering
  <2>6. L = {n \in WithMedia : ~Discarded(n)'}
    BY <2>5 DEF L
  <2>7. QED
    BY <2>3, <2>6 DEF StoreKeeps, Present
<1>3. QED
  BY <1>1, <1>2 DEF Intact

\* The store's handler goes on: what is not being discarded is kept.
LEMMA ProgressIntact ==
    ASSUME OneHandler, IInv, VideoInv, NEW h \in Handlers, Progress(h),
           forgotten' = {m \in WithMedia : m \in forgotten \/ Deletes(h, m)}
    PROVE  /\ Intact'
           /\ ~faulty' => \A m \in WithMedia :
                             m \in Present /\ ~Discarded(m) => m \in Present'
<1> SUFFICES ASSUME ~faulty'
             PROVE  /\ StoreKeeps({m \in WithMedia : ~Discarded(m)})'
                    /\ \A m \in WithMedia :
                          m \in Present /\ ~Discarded(m) => m \in Present'
  BY DEF Intact
<1>1. PICK K \in SUBSET WithMedia : K = {m \in WithMedia : ~Discarded(m)}
  OBVIOUS
<1>2. ~faulty
  BY DiscardSteps
<1>3. StoreKeeps(K)
  BY <1>1, <1>2 DEF VideoInv, Intact
<1>4. StoreKeeps(K)' /\ PresentGrows(K)
  BY <1>3, ProgressKeeps
<1>5. \A g \in Handlers : g = h
  BY DEF OneHandler
<1>6. \A m : Discarded(m) <=> Discarding(h) /\ handler[h].msg = m
  BY <1>5 DEF Discarded
<1>7. \A m : Discarded(m)' <=> Discarding(h)' /\ handler'[h].msg = m
  BY <1>5 DEF Discarded
<1>8. CASE \A m : Discarded(m)' <=> Discarded(m)
  <2>1. K = {m \in WithMedia : ~Discarded(m)'}
    BY <1>1, <1>8
  <2>2. QED
    BY <1>1, <1>4, <2>1 DEF StoreKeeps, PresentGrows, Present
<1>9. CASE Discarding(h) /\ ~Discarding(h)'
  <2>1. handler'[h] = Idle
    BY <1>9, DiscardSteps
  <2>2. ASSUME NEW m \in Wamids, m \notin K, m \in WithMedia,
               rows'[m] # None, rows'[m].linked
        PROVE  FALSE
    <3>1. m = handler[h].msg
      BY <1>1, <1>6, <2>2
    <3>2. QED
      BY <1>9, <2>2, <3>1, DiscardSteps
  <2>3. WithMedia = {m \in WithMedia : ~Discarded(m)'}
    BY <1>7, <1>9
  <2>4. StoreKeeps(WithMedia)'
    BY <1>4, <1>5, <2>1, <2>2 DEF StoreKeeps, Idle, Entering
  <2>5. QED
    BY <1>1, <1>4, <2>3, <2>4 DEF StoreKeeps, PresentGrows, Present
<1>10. QED
  BY <1>6, <1>7, <1>8, <1>9, DiscardSteps


LEMMA VideoArrives ==
    ASSUME OneHandler, SlotOK, IInv, CP!IInv, CP!SInv, VideoInv,
           NEW h \in Handlers, Arrives(h)
    PROVE  VideoInv'
<1>1. \A g \in Handlers : g = h
  BY DEF OneHandler
<1>2. /\ capture \in [Handlers -> CP!HandlerState]
      /\ sessions \in [Candidates -> CP!Session \cup {None}]
      /\ None \notin CP!Session
  BY HandlerKnows, CaptureGiven
<1>3. ASSUME NEW m, NEW point, NEW to, handler[h].pc = "idle",
             Becomes(h, Entering(point, m)), point \notin {"discard", "unlink"},
             UNCHANGED <<rows, files, faulty, captureVars, past>>,
             Takes(h, Message(to, m)), to # "discard"
      PROVE  VideoInv'
  <2>1. ~Discarding(h)
    BY <1>3 DEF Discarding
  <2>2. Intact' /\ PresentGrows(WithMedia)
    BY <1>3, <2>1, EntersIntact
  <2>3. HandOK' /\ LateOK'
    BY <1>3, <2>2, CaptureAsIs
       DEF captureVars, sessionState, past, PresentGrows
  <2>4. handler'[h].pc = point /\ slot'[h].at = to
    BY <1>3 DEF IInv, TypeOK, SlotOK, Becomes, Entering, Takes, Message
  <2>5. DiscardOK'
    BY <1>1, <1>3, <2>4 DEF DiscardOK, Discarding
  <2>6. QED
    BY <2>2, <2>3, <2>5 DEF VideoInv
<1>4. ASSUME NEW m \in Inbound, Deliver(h, m)
      PROVE  VideoInv'
  BY <1>3, <1>4 DEF Deliver, ReceiveInbound, At, store
<1>5. ASSUME NEW m \in Outbound, Sent(h, m)
      PROVE  VideoInv'
  BY <1>3, <1>5 DEF Sent, SendAccepted, At, store
<1>6. slot[h].at = "free" => ~Discarding(h)
  BY DEF VideoInv, DiscardOK
<1>7. ASSUME NEW c \in Candidates, NEW prefilled, Start(h, c, prefilled)
      PROVE  VideoInv'
  <2>1. slot[h].at = "free" /\ UNCHANGED <<vars, forgotten, events>>
    BY <1>7 DEF Start, Capture!StartCapture, Capture!crmVars
  <2>2. slot'[h].at = "capture"
    BY <1>7, MovedTo DEF Start, Takes, SlotOK
  <2>3. DiscardOK' /\ Intact'
    BY <1>6, <2>1, <2>2, StoreAsIs
  <2>4. PICK s : Capture!Becomes(h, Capture!Entering("opening", "start", c, s,
                                                     None))
    BY <1>7 DEF Start, Capture!StartCapture
  <2>5. capture'[h].pc = "opening" /\ capture'[h].cand = c
    BY <1>2, <2>4 DEF Capture!Becomes, Capture!Entering
  <2>6. HandOK'
    BY <1>1, <2>5 DEF HandOK, AtHand
  <2>7. \A d \in Candidates : sessions'[d] \in {sessions[d], None}
    BY <1>7 DEF Start, Capture!StartCapture, Capture!DeleteOthersOfPhone
  <2>8. ASSUME NEW m \in WithMedia, Told(m)'
        PROVE  Told(m) /\ NumberOf[LineOf[m]] # PhoneOf[c]
    <3>1. ToldOf("recruiting.video_received", m) /\ m \notin earlier'
      BY <2>1, <2>8 DEF Told, ToldOf
    <3>2. \E e \in events : TellsOf(e, m)
      BY <3>1 DEF ToldOf, TellsOf
    <3>3. QED
      BY <1>7, <3>1, <3>2 DEF Start, Told
  <2>9. LateOK'
    <3> SUFFICES ASSUME NEW m \in WithMedia, Told(m)'
                 PROVE  /\ \A d \in Candidates :
                              PhoneOf[d] = NumberOf[LineOf[m]]
                                 /\ sessions'[d] # None
                                  => sessions'[d].cvReceived
                        /\ PhoneOf[capture'[h].cand] # NumberOf[LineOf[m]]
                        /\ ~faulty' => m \in Present'
      BY <1>1 DEF LateOK
    <3>1. Told(m) /\ NumberOf[LineOf[m]] # PhoneOf[c]
      BY <2>8
    <3>2. /\ \A d \in Candidates :
                PhoneOf[d] = NumberOf[LineOf[m]] /\ sessions[d] # None
                    => sessions[d].cvReceived
          /\ ~faulty => m \in Present
      BY <3>1 DEF VideoInv, LateOK
    <3>3. QED
      BY <2>1, <2>5, <2>7, <3>1, <3>2 DEF Present, vars, store
  <2>10. QED
    BY <2>3, <2>6, <2>9 DEF VideoInv
<1>8. ASSUME NEW c \in Candidates, NEW since \in Sinces,
             PurgeCandidate(h, c, since)
      PROVE  VideoInv'
  <2>1. /\ slot[h].at = "free" /\ capture[h].pc = "idle"
        /\ UNCHANGED <<vars, past, capture, events>>
        /\ sessions' = [sessions EXCEPT ![c] = None]
    BY <1>8 DEF PurgeCandidate, EndSession, Capture!EndSessionForCandidate,
       Capture!crmVars, Capture!At
  <2>2. slot'[h].at = "ended"
    BY <1>8 DEF PurgeCandidate, Takes, SlotOK
  <2>3. DiscardOK' /\ Intact'
    BY <1>6, <2>1, <2>2, StoreAsIs DEF past
  <2>4. HandOK'
    BY <1>1, <2>1 DEF HandOK, AtHand
  <2>5. \A d \in Candidates : sessions'[d] \in {sessions[d], None}
    BY <1>2, <2>1
  <2>6. LateOK'
    BY <1>1, <2>1, <2>5
       DEF VideoInv, LateOK, Told, ToldOf, Present, vars, store, past
  <2>7. QED
    BY <2>3, <2>4, <2>6 DEF VideoInv
<1>9. QED
  BY <1>4, <1>5, <1>7, <1>8 DEF Arrives


LEMMA VideoProceeds ==
    ASSUME OneHandler, SlotOK, IInv, CP!IInv, CP!SInv, VideoInv,
           NEW h \in Handlers, Proceeds(h)
    PROVE  VideoInv'
<1> DEFINE r == capture[h]
<1>1. \A g \in Handlers : g = h
  BY DEF OneHandler
<1>2. /\ capture \in [Handlers -> CP!HandlerState]
      /\ sessions \in [Candidates -> CP!Session \cup {None}]
      /\ handler \in [Handlers -> HandlerState]
      /\ None \notin CP!Session
  BY HandlerKnows, CaptureGiven DEF IInv, TypeOK
<1>3. slot[h].at # "discard" => ~Discarding(h)
  BY DEF VideoInv, DiscardOK
<1>4. CASE StoreRuns(h)
  <2>1. UNCHANGED <<capture, sessions, events, earlier>>
    BY <1>4 DEF StoreRuns, captureVars, sessionState
  <2>2. /\ Intact'
        /\ ~faulty' => \A m \in WithMedia :
                          m \in Present /\ ~Discarded(m) => m \in Present'
    BY <1>4, ProgressIntact DEF StoreRuns
  <2>3. /\ faulty => faulty'
        /\ Discarding(h)' => /\ Discarding(h)
                             /\ handler'[h].msg = handler[h].msg
    BY <1>4, DiscardSteps DEF StoreRuns
  <2>4. HandOK' /\ LateOK'
    BY <2>1, <2>2, <2>3, CaptureAsIs
  <2>5. slot'[h].at = "discard" => slot[h].at = "discard"
    <3>1. CASE UNCHANGED slot
      BY <3>1
    <3>2. CASE Moves(h, AfterStore(slot[h].at))
      BY <1>4, <3>2, MovedTo DEF StoreRuns, AfterStore, Takes, SlotOK
    <3>3. QED
      BY <1>4, <3>1, <3>2 DEF StoreRuns
  <2>6. Discarding(h)' => UNCHANGED slot
    BY <1>4 DEF StoreRuns, Discarding
  <2>7. DiscardOK'
    BY <1>1, <2>1, <2>3, <2>5, <2>6 DEF VideoInv, DiscardOK
  <2>8. QED
    BY <2>2, <2>4, <2>7 DEF VideoInv
<1>5. ASSUME CutOff(h)
      PROVE  faulty' /\ ~Discarding(h)'
  BY <1>2, <1>5 DEF CutOff, Becomes, Idle, Entering, Discarding
<1>6. CASE StoreRejects(h)
  <2>1. UNCHANGED <<capture, sessions, events, earlier>>
    BY <1>6 DEF StoreRejects, captureVars, sessionState, past
  <2>2. faulty' /\ ~Discarding(h)'
    BY <1>5, <1>6 DEF StoreRejects
  <2>3. HandOK' /\ LateOK'
    BY <2>1, <2>2, CaptureAsIs
  <2>4. slot'[h].at # "discard"
    BY <1>6, MovedTo DEF StoreRejects, AfterStore, Takes, SlotOK
  <2>5. QED
    BY <1>1, <2>2, <2>3, <2>4 DEF VideoInv, Intact, DiscardOK
<1>7. CASE Route(h)
  <2>1. UNCHANGED <<vars, past, sessions, events>> /\ slot[h].at = "route"
    BY <1>7 DEF Route, Capture!ReceiveMedia, Capture!ReceiveText,
       Capture!crmVars, Capture!sessionVars, captureVars, sessionState
  <2>2. slot'[h].at # "discard"
    BY <1>7, MovedTo DEF Route, Takes, SlotOK
  <2>3. DiscardOK' /\ Intact'
    BY <1>3, <2>1, <2>2, StoreAsIs DEF past
  <2>4. CASE UNCHANGED capture
    <3>1. HandOK' /\ LateOK'
      BY <2>1, <2>4, CaptureAsIs DEF vars, store, past, Present
    <3>2. QED
      BY <2>3, <3>1 DEF VideoInv
  <2>5. ASSUME NEW point \in {"media", "text"}, NEW c \in Candidates, NEW m,
               sessions[c] # None,
               Capture!Becomes(h, Capture!Entering(point, "reply", c,
                                                   sessions[c], m))
        PROVE  VideoInv'
    <3>1. /\ capture'[h].pc = point /\ capture'[h].cand = c
          /\ capture'[h].sess = sessions[c]
      BY <1>2, <2>5 DEF Capture!Becomes, Capture!Entering
    <3>2. HandOK'
      BY <1>1, <3>1 DEF HandOK, AtHand
    <3>3. LateOK'
      BY <1>1, <2>1, <2>5, <3>1
         DEF VideoInv, LateOK, Told, ToldOf, Present, vars, store, past
    <3>4. QED
      BY <2>3, <3>2, <3>3 DEF VideoInv
  <2>6. ASSUME NEW m, Capture!ReceiveMedia(h, m)
        PROVE  VideoInv'
    <3>1. PICK c \in Candidates :
             /\ sessions[c] # None
             /\ Capture!Becomes(h, Capture!Entering("media", "reply", c,
                                                    sessions[c], m))
      BY <2>6
         DEF Capture!ReceiveMedia, Capture!IsSessionOfPhone, Capture!IsActive
    <3>2. QED
      BY <2>5, <3>1
  <2>7. ASSUME NEW phone, Capture!ReceiveText(h, phone)
        PROVE  VideoInv'
    <3>1. PICK c \in Candidates :
             /\ sessions[c] # None
             /\ Capture!Becomes(h, Capture!Entering("text", "reply", c,
                                                    sessions[c], None))
      BY <2>7
         DEF Capture!ReceiveText, Capture!IsSessionOfPhone, Capture!IsActive
    <3>2. QED
      BY <2>5, <3>1
  <2>8. QED
    BY <1>7, <2>4, <2>6, <2>7 DEF Route, captureVars
<1>8. ASSUME r.pc = "media"
      PROVE  /\ r.cand \in Candidates /\ r.media \in WithMedia
             /\ r.sess \in CP!Session /\ sessions[r.cand] = r.sess
             /\ Capture!WantsCv(r.sess) <=> ~r.sess.cvReceived
  <2>1. r.sess \in CP!Session /\ CP!Coherent(r.sess)
    BY <1>8, HandlerKnows
  <2>2. Capture!WantsCv(r.sess) <=> ~r.sess.cvReceived
    BY <2>1, WantsCvMeans
  <2>3. QED
    BY <1>8, <2>1, <2>2, HandlerKnows
<1>9. ASSUME NEW found, Capture!TakeMedia(h, found), r.pc = "media",
             UNCHANGED <<vars, past, sessions, events>>,
             AtHand(capture'[h]) => /\ r.sess.cvReceived
                                    /\ ~faulty => r.media \in Present
      PROVE  HandOK' /\ LateOK'
  <2>1. /\ capture'[h].cand = r.cand /\ capture'[h].sess = r.sess
        /\ capture'[h].media = r.media
    BY <1>9, TakenFile
  <2>2. sessions[r.cand] = r.sess /\ r.sess # None
    BY <1>2, <1>8, <1>9
  <2>3. HandOK'
    BY <1>1, <1>9, <2>1, <2>2
       DEF HandOK, AtHand, Present, vars, store, past
  <2>4. LateOK'
    BY <1>1, <1>9, <2>1
       DEF VideoInv, LateOK, Told, ToldOf, Present, vars, store, past
  <2>5. QED
    BY <2>3, <2>4
<1>10. CASE LookUpFile(h)
  <2>1. /\ UNCHANGED <<vars, past, sessions, events, slot>>
        /\ slot[h].at = "capture" /\ r.pc = "media"
        /\ Capture!TakeMedia(h, HasPath(r.media))
    BY <1>10 DEF LookUpFile, Listens, Capture!At, sessionState
  <2>2. DiscardOK' /\ Intact'
    BY <1>3, <2>1, StoreAsIs DEF past
  <2>3. ASSUME AtHand(capture'[h])
        PROVE  HasPath(r.media) /\ r.sess.cvReceived
    BY <1>8, <2>1, <2>3, TakenFile
  <2>4. ASSUME HasPath(r.media), ~faulty
        PROVE  r.media \in Present
    <3>1. StoreKeeps(WithMedia)
      BY <1>3, <2>1, <2>4, AllIntact
    <3>2. r.media \in WithMedia /\ r.media \in Wamids
      BY <1>8, <2>1, MessagesAssumption DEF Wamids
    <3>3. QED
      BY <2>4, <3>1, <3>2 DEF StoreKeeps, HasPath
  <2>5. HandOK' /\ LateOK'
    BY <1>9, <2>1, <2>3, <2>4
  <2>6. QED
    BY <2>2, <2>5 DEF VideoInv
<1>11. CASE RejectFile(h)
  <2>1. /\ slot[h].at = "capture" /\ r.pc = "media"
        /\ UNCHANGED <<rows, files, faulty, past, capture, sessions, events>>
        /\ Becomes(h, Entering("discard", r.media))
        /\ Capture!WantsCv(r.sess)
    BY <1>11
       DEF RejectFile, Listens, Rejects, StartDiscard, Capture!At, store,
           captureVars, sessionState
  <2>2. Intact' /\ PresentGrows(WithMedia)
    BY <1>3, <2>1, EntersIntact
  <2>3. HandOK' /\ LateOK'
    BY <2>1, <2>2, CaptureAsIs DEF past, PresentGrows
  <2>4. slot'[h].at = "discard"
    BY <1>11, MovedTo DEF RejectFile, Takes, SlotOK
  <2>5. handler'[h].msg = r.media
    BY <1>2, <2>1 DEF Becomes, Entering
  <2>6. ~r.sess.cvReceived
    BY <1>8, <2>1
  <2>7. DiscardOK'
    BY <1>1, <2>1, <2>4, <2>5, <2>6 DEF DiscardOK
  <2>8. QED
    BY <2>2, <2>3, <2>7 DEF VideoInv
<1>12. CASE FileRejected(h)
  <2>1. /\ UNCHANGED <<vars, past, sessions, events>>
        /\ slot[h].at = "discard" /\ r.pc = "media" /\ ~Discarding(h)
        /\ Capture!TakeMedia(h, TRUE)
    BY <1>12 DEF FileRejected, At, Discarding, Capture!At, sessionState
  <2>2. slot'[h].at = "capture"
    BY <1>12, MovedTo DEF FileRejected, Takes, SlotOK
  <2>3. DiscardOK' /\ Intact'
    BY <2>1, <2>2, StoreAsIs DEF past
  <2>4. ~r.sess.cvReceived
    BY <2>1 DEF VideoInv, DiscardOK
  <2>5. ~AtHand(capture'[h])
    BY <1>8, <2>1, <2>4, TakenFile
  <2>6. HandOK' /\ LateOK'
    BY <1>9, <2>1, <2>5
  <2>7. QED
    BY <2>3, <2>6 DEF VideoInv
<1>13. CASE DiscardRejects(h)
  <2>1. faulty' /\ ~Discarding(h)'
    BY <1>5, <1>13 DEF DiscardRejects
  <2>2. Capture!Progress(h) /\ Capture!CallRejects(h) /\ UNCHANGED earlier
    BY <1>13 DEF DiscardRejects, Capture!Progress, past
  <2>3. r.pc # "idle" /\ CopyKnows(h, r)
    BY <2>2, CopyProgress
  <2>4. HandOK' /\ LateOK'
    BY <2>1, <2>2, <2>3, CopyKeeps
  <2>5. slot'[h].at = "capture"
    BY <1>13, MovedTo DEF DiscardRejects, Takes, SlotOK
  <2>6. QED
    BY <1>1, <2>1, <2>4, <2>5 DEF VideoInv, Intact, DiscardOK
<1>14. CASE CaptureRuns(h)
  <2>1. slot[h].at = "capture" /\ UNCHANGED <<vars, past>>
    BY <1>14 DEF CaptureRuns
  <2>2. r.pc # "idle" /\ CopyKnows(h, r)
    BY <1>14, CopyProgress DEF CaptureRuns
  <2>3. HandOK' /\ LateOK'
    BY <2>1, <2>2, CopyKeeps DEF PresentGrows, Present, vars, store, past
  <2>4. slot'[h].at # "discard"
    <3>1. CASE UNCHANGED slot
      BY <2>1, <3>1
    <3>2. CASE Moves(h, "free")
      BY <3>2, MovedTo DEF Takes, SlotOK
    <3>3. QED
      BY <1>14, <3>1, <3>2 DEF CaptureRuns
  <2>5. DiscardOK' /\ Intact'
    BY <1>3, <2>1, <2>4, StoreAsIs DEF past
  <2>6. QED
    BY <2>3, <2>5 DEF VideoInv
<1>15. CASE PurgeMessages(h)
  <2>1. PICK number, since, ids : StartPurge(h, number, since, ids)
    BY <1>15 DEF PurgeMessages
  <2>2. PICK filter : Becomes(h, [Entering("find", None) EXCEPT
                                      !.filter = filter])
    BY <2>1 DEF StartPurge
  <2> DEFINE next == [Entering("find", None) EXCEPT !.filter = filter]
  <2>3. ~next.linked /\ next.pc = "find"
    BY DEF Entering
  <2>4. /\ UNCHANGED <<rows, files, faulty, past, capture, sessions, events>>
        /\ slot[h].at = "ended"
    BY <1>15, <2>1
       DEF PurgeMessages, StartPurge, store, captureVars, sessionState
  <2>5. Becomes(h, next)
    BY <2>2
  <2> HIDE DEF next
  <2>6. ~Discarding(h)'
    BY <1>2, <2>3, <2>5 DEF Becomes, Discarding
  <2>7. ASSUME ~faulty
        PROVE  StoreKeeps(WithMedia)'
    <3>1. StoreKeeps(WithMedia)
      BY <1>3, <2>4, <2>7, AllIntact
    <3>2. QED
      BY <2>3, <2>4, <2>5, <3>1, StoreLocal DEF past
  <2>8. {m \in WithMedia : ~Discarded(m)'} = WithMedia
    BY <1>1, <2>6 DEF Discarded
  <2>9. Intact'
    BY <2>4, <2>7, <2>8 DEF Intact, StoreKeeps, Present
  <2>10. HandOK' /\ LateOK'
    BY <2>4, CaptureAsIs DEF past, Present
  <2>11. slot'[h].at = "purge"
    BY <1>15, MovedTo DEF PurgeMessages, Takes, SlotOK
  <2>12. QED
    BY <1>1, <2>6, <2>9, <2>10, <2>11 DEF VideoInv, DiscardOK
<1>16. CASE NothingToPurge(h)
  <2>1. /\ UNCHANGED <<vars, past, capture, sessions, events>>
        /\ slot[h].at = "ended"
    BY <1>16 DEF NothingToPurge, captureVars, sessionState
  <2>2. slot'[h].at = "free"
    BY <1>16, MovedTo DEF NothingToPurge, Takes, SlotOK
  <2>3. DiscardOK' /\ Intact'
    BY <1>3, <2>1, <2>2, StoreAsIs DEF past
  <2>4. HandOK' /\ LateOK'
    BY <2>1, CaptureAsIs DEF vars, store, past, Present
  <2>5. QED
    BY <2>3, <2>4 DEF VideoInv
<1>17. QED
  BY <1>4, <1>6, <1>7, <1>10, <1>11, <1>12, <1>13, <1>14, <1>15, <1>16
     DEF Proceeds

LEMMA VideoCrash ==
    ASSUME OneHandler, CP!IInv, CP!SInv, VideoInv, Crash
    PROVE  VideoInv'
<1>1. \A h \in Handlers : /\ capture'[h].pc = "idle"
                          /\ slot'[h].at = "free"
                          /\ ~Discarding(h)'
  BY FreeIsSlot
     DEF Crash, Restart, At, Discarding, vars, Idle, Entering, Capture!Crash,
         Capture!At, captureVars, Capture!Idle, Capture!Entering
<1>2. UNCHANGED <<files, sessions, events, past>>
  BY DEF Crash, Restart, vars, store, captureVars, sessionState,
     Capture!Crash, Capture!sessionVars, Capture!crmVars
<1>3. DiscardOK' /\ HandOK'
  BY <1>1 DEF DiscardOK, HandOK, AtHand
<1>4. faulty' \/ /\ UNCHANGED vars
                 /\ \A h \in Handlers : ~Discarding(h)
  BY DEF Crash, Restart, At, Discarding
<1>5. Intact'
  BY <1>4
     DEF VideoInv, Intact, Discarded, Discarding, StoreKeeps, Present, vars,
         store, Crash, past
<1>6. LateOK'
  BY <1>1, <1>2, <1>4
     DEF VideoInv, LateOK, Told, ToldOf, Present, past, vars
<1>7. QED
  BY <1>3, <1>5, <1>6 DEF VideoInv

\* What was left running was left by a call that failed.
LEMMA VideoUndisturbed ==
    ASSUME OneHandler, IInv, CP!IInv, CP!SInv, VideoInv, LooseRuns
    PROVE  VideoInv'
<1>1. faulty = TRUE /\ UNCHANGED <<handler, faulty>>
  BY LooseAfterFault, LooseOnlyRemoves DEF LooseRuns
<1>2. UNCHANGED <<capture, sessions, events, earlier, slot>>
  BY DEF LooseRuns, captureVars, sessionState
<1>3. DiscardOK' /\ Intact'
  BY <1>1, <1>2 DEF VideoInv, DiscardOK, Discarding, Intact
<1>4. HandOK' /\ LateOK'
  BY <1>1, <1>2, CaptureAsIs
<1>5. QED
  BY <1>3, <1>4 DEF VideoInv

\* With one request at a time and until a call fails, a video that the CRM was
\* told of is on disk until a purge deletes it or the number has another
\* capture: what is discarded was rejected as a CV, by a session that has
\* none, and the session of an accepted video has one (rejectNonPdfCv,
\* processVideoMedia).
THEOREM VideoFilesKept ==
    ASSUME OneHandler PROVE FilesSpec => []VideoFilesAreKept
<1>1. FilesInit => VideoInv
  <2> SUFFICES ASSUME FilesInit
               PROVE  VideoInv
    OBVIOUS
  <2>1. \A h \in Handlers : /\ capture[h].pc = "idle" /\ slot[h].at = "free"
                            /\ handler[h].pc = "idle" /\ ~handler[h].linked
    BY FreeIsSlot
       DEF FilesInit, Init, Idle, Entering, Capture!Init, Capture!Idle,
           Capture!Entering
  <2>2. events = {} /\ \A m \in Wamids : rows[m] = None
    BY DEF FilesInit, Capture!Init, Init
  <2>3. DiscardOK /\ HandOK
    BY <2>1 DEF DiscardOK, HandOK, Discarding, AtHand
  <2>4. Intact
    BY <2>1, <2>2 DEF Intact, StoreKeeps
  <2>5. LateOK
    BY <2>2 DEF LateOK, Told, ToldOf
  <2>6. QED
    BY <2>3, <2>4, <2>5 DEF VideoInv
<1>2. /\ SlotOK /\ IInv /\ CP!IInv /\ CP!SInv /\ VideoInv
      /\ [FilesNext]_fileVars
      => VideoInv'
  <2> SUFFICES ASSUME SlotOK, IInv, CP!IInv, CP!SInv, VideoInv,
                      [FilesNext]_fileVars
               PROVE  VideoInv'
    OBVIOUS
  <2>1. CASE UNCHANGED fileVars
    BY <2>1
       DEF fileVars, vars, store, captureVars, sessionState, past, VideoInv,
           DiscardOK, Discarding, Discarded, Intact, StoreKeeps, Present,
           HandOK, AtHand, LateOK, Told, ToldOf
  <2>2. CASE LooseRuns
    BY <2>2, VideoUndisturbed
  <2>3. QED
    BY <2>1, <2>2, VideoArrives, VideoProceeds, VideoCrash DEF FilesNext
<1>3. VideoInv => VideoFilesAreKept
  BY DEF VideoInv, LateOK, Told, VideoFilesAreKept, Present
<1>4. FilesInit /\ [][FilesNext]_fileVars /\ []SlotOK /\ []IInv /\ []CP!IInv
          /\ []CP!SInv => []VideoFilesAreKept
  BY <1>1, <1>2, <1>3, PTL
<1>5. FilesSpec => []IInv
  BY FilesImplementStore, Invariance, PTL
<1>6. FilesSpec => []CP!SInv
  <2>1. CP!OneHandler
    BY DEF OneHandler, CP!OneHandler
  <2>2. CP!Spec => []CP!SInv
    BY <2>1, CaptureGiven, CP!SerialInvariance
       DEF CP!Tools, CP!Session, CP!Texts
  <2>3. QED
    BY <2>2, FilesImplementCapture, SameSpec, PTL
<1>7. QED
  BY <1>4, <1>5, <1>6, SlotsOK, CaptureKnowsAlways, PTL DEF FilesSpec

-----------------------------------------------------------------------------
(* Any number of requests: nothing is deleted but for its own candidate.   *)

\* q looked up a file that is no CV, for a session that awaits one.
Refused(q) == Capture!WantsCv(q.sess) /\ KindOf[q.media] # "pdf"

\* The store purges what slot s was told to, for the candidate of s, and
\* discards what the capture's handler q, which waits for it, has refused.
Warranted(s, r, q) ==
    /\ s.at \in {"ended", "purge"}
          => s.cand \in Candidates /\ s.ids \subseteq Reported(s.cand)
    /\ s.at = "discard" => q.pc = "media" /\ Refused(q)
    /\ r.pc \in PurgePoints =>
          /\ s.at = "purge" /\ r.filter.number = PhoneOf[s.cand]
          /\ r.filter.since = s.since /\ r.filter.ids = s.ids
    /\ r.pc \in {"discard", "unlink"} => s.at = "discard" /\ r.msg = q.media

AllWarranted == \A h \in Handlers : Warranted(slot[h], handler[h], capture[h])

\* The CRM forgets nothing.
LEMMA EventsGrow == Capture!Next => events \subseteq events'
<1>1. ASSUME NEW h, Capture!Progress(h)
      PROVE  events \subseteq events'
  BY <1>1
     DEF Capture!Progress, Capture!SaveSession, Capture!CallRejects,
         Capture!OpeningEvents, Capture!SendAssistantText,
         Capture!ProcessInboundText, Capture!AgentReplies,
         Capture!AgentCallsTools, Capture!SaveCapturedField,
         Capture!MarkDataComplete, Capture!MarkInterviewAccepted,
         Capture!ToolCall, Capture!UselessToolCall, Capture!EndRound,
         Capture!ProcessInboundMedia, Capture!StoreCv, Capture!AcceptVideo,
         Capture!ReportVideo, Capture!SendSessionOpening, Capture!Emit,
         Capture!Tells, Capture!crmVars
<1>2. QED
  BY <1>1
     DEF Capture!Next, Capture!Arrival, Capture!ReceiveText,
         Capture!ReceiveMedia, Capture!StartCapture,
         Capture!EndSessionForCandidate, Capture!Crash, Capture!crmVars

LEMMA EventsStay == ASSUME SlotOK, FilesNext PROVE events \subseteq events'
BY CaptureSteps, EventsGrow DEF CaptureUnchanged

\* A step of slot h.
LEMMA WarrantFrame ==
    ASSUME AllWarranted, NEW h \in Handlers,
           events \subseteq events',
           \A g \in Handlers \ {h} : /\ slot'[g] = slot[g]
                                     /\ handler'[g] = handler[g]
                                     /\ capture'[g] = capture[g],
           Warranted(slot[h], handler[h], capture[h])'
    PROVE  AllWarranted'
<1>1. ASSUME NEW g \in Handlers, g # h
      PROVE  Warranted(slot[g], handler[g], capture[g])'
  <2>1. Warranted(slot[g], handler[g], capture[g])
    BY DEF AllWarranted
  <2>2. /\ slot'[g] = slot[g] /\ handler'[g] = handler[g]
        /\ capture'[g] = capture[g]
    BY <1>1
  <2>3. QED
    BY <2>1, <2>2 DEF Warranted, Refused, Reported
<1>2. QED
  BY <1>1 DEF AllWarranted

\* The store's handlers come to a purge by a command only.
LEMMA PurgeIsCommanded ==
    ASSUME IInv, NEW h \in Handlers, Progress(h),
           handler'[h].pc \in PurgePoints
    PROVE  handler[h].pc \in PurgePoints
<1> DEFINE r == handler[h]
<1>1. r \in HandlerState /\ handler \in [Handlers -> HandlerState]
  BY DEF IInv, TypeOK
<1>2. r = [pc |-> r.pc, msg |-> r.msg, dup |-> r.dup, chat |-> r.chat,
           linked |-> r.linked, filter |-> r.filter, rm |-> r.rm,
           unread |-> r.unread, latest |-> r.latest]
  BY <1>1 DEF HandlerState
<1>3. ASSUME NEW next, Becomes(h, next), next.pc \notin PurgePoints
      PROVE  FALSE
  BY <1>1, <1>3 DEF Becomes
<1>4. Idle.pc \notin PurgePoints
  BY DEF Idle, Entering, PurgePoints
<1>5. ~ReadDuplicate(h)
  BY <1>2, <1>3 DEF ReadDuplicate, At, PurgePoints
<1>6. ~UpsertInboundChat(h) /\ ~UpsertOutboundChat(h)
  <2>1. ASSUME UpsertInboundChat(h) \/ UpsertOutboundChat(h)
        PROVE  FALSE
    <3>1. \E id : \/ Becomes(h, [r EXCEPT !.chat = id]) /\ r.pc = "lookup"
                  \/ /\ Becomes(h, [[r EXCEPT !.pc = "create"]
                                        EXCEPT !.chat = id])
                     /\ r.pc = "upsert"
      BY <2>1 DEF UpsertInboundChat, UpsertOutboundChat, UpsertChat, At
    <3>2. QED
      BY <1>2, <1>3, <3>1 DEF PurgePoints
  <2>2. QED
    BY <2>1
<1>7. ~AfterLookup(h) /\ ~AfterSentLookup(h)
  BY <1>2, <1>3, <1>4 DEF AfterLookup, AfterSentLookup, Goes, At, PurgePoints
<1>8. ~DownloadMedia(h)
  <2>1. ASSUME DownloadMedia(h)
        PROVE  \/ Becomes(h, [r EXCEPT !.pc = "create", !.linked = TRUE])
               \/ Becomes(h, [r EXCEPT !.pc = "create"])
    BY <2>1 DEF DownloadMedia, FailedDownload, Goes
  <2>2. QED
    BY <1>2, <1>3, <2>1 DEF PurgePoints
<1>9. ~CreateMessage(h) /\ ~UnlinkFile(h) /\ ~PurgeDone(h)
  BY <1>3, <1>4 DEF CreateMessage, UnlinkFile, PurgeDone
<1>10. ~DiscardFile(h)
  BY <1>2, <1>3 DEF DiscardFile, Goes, PurgePoints
<1>11. QED
  BY <1>5, <1>6, <1>7, <1>8, <1>9, <1>10
     DEF Progress, FindMessages, RemoveFile, FilesRemoved, DeleteMessages,
         ReadLatest, RefreshChat, At, PurgePoints

\* At these points the store's handler h is neither in a purge nor discarding.
LEMMA NothingUnderWay ==
    ASSUME AllWarranted, NEW h \in Handlers,
           slot[h].at \notin {"discard", "purge"}
    PROVE  handler[h].pc \notin PurgePoints \cup {"discard", "unlink"}
BY DEF AllWarranted, Warranted

\* A step of slot h after which nothing is under way for it.
LEMMA NothingWarranted ==
    ASSUME SlotOK, IInv, AllWarranted, events \subseteq events',
           NEW h \in Handlers, NEW s, Takes(h, s),
           s.at \notin {"discard", "ended", "purge"},
           handler'[h].pc \notin PurgePoints \cup {"discard", "unlink"},
           \A g \in Handlers \ {h} : /\ handler'[g] = handler[g]
                                     /\ capture'[g] = capture[g]
    PROVE  AllWarranted'
<1>1. slot'[h] = s /\ \A g \in Handlers \ {h} : slot'[g] = slot[g]
  BY DEF SlotOK, Takes
<1>2. Warranted(slot[h], handler[h], capture[h])'
  BY <1>1 DEF Warranted
<1>3. QED
  BY <1>1, <1>2, WarrantFrame

\* Handler h of the store is set to r.
LEMMA StoreBecomes ==
    ASSUME IInv, NEW h \in Handlers, NEW r, Becomes(h, r)
    PROVE  handler'[h] = r /\ \A g \in Handlers \ {h} : handler'[g] = handler[g]
BY DEF IInv, TypeOK, Becomes

LEMMA WarrantedArrives ==
    ASSUME SlotOK, IInv, CP!IInv, AllWarranted, events \subseteq events',
           NEW h \in Handlers, Arrives(h)
    PROVE  AllWarranted'
<1>1. ASSUME NEW m, NEW point \in {"lookup", "sent"},
             Becomes(h, Entering(point, m)), UNCHANGED captureVars,
             NEW to \in {"persist", "send"}, Takes(h, Message(to, m))
      PROVE  AllWarranted'
  <2>1. /\ handler'[h].pc = point
        /\ \A g \in Handlers \ {h} : handler'[g] = handler[g]
    BY <1>1, StoreBecomes DEF Entering
  <2>2. Message(to, m).at = to
    BY DEF Message
  <2>3. QED
    BY <1>1, <2>1, <2>2, NothingWarranted DEF captureVars, PurgePoints
<1>2. ASSUME NEW m \in Inbound, Deliver(h, m)
      PROVE  AllWarranted'
  BY <1>1, <1>2 DEF Deliver, ReceiveInbound
<1>3. ASSUME NEW m \in Outbound, Sent(h, m)
      PROVE  AllWarranted'
  BY <1>1, <1>3 DEF Sent, SendAccepted
<1>4. ASSUME NEW c, NEW prefilled, Start(h, c, prefilled)
      PROVE  AllWarranted'
  <2>1. UNCHANGED handler /\ slot[h].at = "free"
    BY <1>4 DEF Start, vars
  <2>2. \A g \in Handlers \ {h} : capture'[g] = capture[g]
    BY <1>4, CaptureKnows DEF Start, Capture!StartCapture, Capture!Becomes
  <2>3. PICK s : Takes(h, s) /\ s.at = "capture"
    BY <1>4, MovedTo DEF Start
  <2>4. QED
    BY <2>1, <2>2, <2>3, NothingUnderWay, NothingWarranted
<1>5. ASSUME NEW c \in Candidates, NEW since, PurgeCandidate(h, c, since)
      PROVE  AllWarranted'
  <2> DEFINE s == [at |-> "ended", msg |-> None, cand |-> c,
                   since |-> since, ids |-> Reported(c)]
  <2>1. s.at = "ended" /\ s.cand = c /\ s.ids = Reported(c)
    OBVIOUS
  <2>2. Takes(h, s) /\ slot[h].at = "free"
    BY <1>5 DEF PurgeCandidate
  <2> HIDE DEF s
  <2>3. slot'[h] = s /\ \A g \in Handlers \ {h} : slot'[g] = slot[g]
    BY <2>2 DEF SlotOK, Takes
  <2>4. UNCHANGED <<handler, capture, events>>
    BY <1>5 DEF PurgeCandidate, EndSession, Capture!EndSessionForCandidate,
       Capture!crmVars, vars
  <2>5. Warranted(slot[h], handler[h], capture[h])'
    BY <2>1, <2>2, <2>3, <2>4, NothingUnderWay DEF Warranted, Reported
  <2>6. QED
    BY <2>3, <2>4, <2>5, WarrantFrame
<1>6. QED
  BY <1>2, <1>3, <1>4, <1>5 DEF Arrives

\* The store goes on with what it was asked for.
LEMMA WarrantedRuns ==
    ASSUME SlotOK, IInv, AllWarranted, events \subseteq events',
           NEW h \in Handlers, StoreRuns(h)
    PROVE  AllWarranted'
<1>1. UNCHANGED <<capture, events>>
  BY DEF StoreRuns, captureVars
<1>2. \A g \in Handlers \ {h} : handler'[g] = handler[g]
  <2>1. PICK r : Becomes(h, r)
    BY DEF StoreRuns, Progress, ReadDuplicate, UpsertInboundChat, UpsertChat,
       AfterLookup, DownloadMedia, FailedDownload, CreateMessage,
       AfterSentLookup, UpsertOutboundChat, DiscardFile, UnlinkFile,
       FindMessages, RemoveFile, FilesRemoved, DeleteMessages, ReadLatest,
       RefreshChat, PurgeDone, Goes
  <2>2. QED
    BY <2>1, StoreBecomes
<1>3. Warranted(slot[h], handler[h], capture[h])
  BY DEF AllWarranted
<1>4. CASE handler'[h].pc = "idle"
  <2>1. PICK s : Takes(h, s) /\ s.at = AfterStore(slot[h].at)
    BY <1>4, MovedTo DEF StoreRuns
  <2>2. slot'[h] = s /\ \A g \in Handlers \ {h} : slot'[g] = slot[g]
    BY <2>1 DEF SlotOK, Takes
  <2>3. s.at \notin {"ended", "purge"}
           /\ (s.at = "discard" => slot[h].at = "discard")
    BY <2>1 DEF StoreRuns, AfterStore
  <2>4. Warranted(slot[h], handler[h], capture[h])'
    BY <1>1, <1>3, <1>4, <2>2, <2>3 DEF Warranted, Refused, PurgePoints
  <2>5. QED
    BY <1>1, <1>2, <2>2, <2>4, WarrantFrame
<1>5. CASE handler'[h].pc # "idle"
  <2>1. UNCHANGED slot /\ Progress(h)
    BY <1>5 DEF StoreRuns
  <2>2. handler'[h].pc \in PurgePoints =>
            /\ handler[h].pc \in PurgePoints
            /\ handler'[h].filter = handler[h].filter
    BY <1>5, <2>1, PurgeIsCommanded, PurgeProgress
  <2>3. Discarding(h)' => Discarding(h) /\ handler'[h].msg = handler[h].msg
    BY <2>1, DiscardSteps
  <2>4. Warranted(slot[h], handler[h], capture[h])'
    BY <1>1, <1>3, <2>1, <2>2, <2>3 DEF Warranted, Refused, Reported, Discarding
  <2>5. QED
    BY <1>1, <1>2, <2>1, <2>4, WarrantFrame
<1>6. QED
  BY <1>4, <1>5

LEMMA WarrantedProceeds ==
    ASSUME SlotOK, IInv, CP!IInv, Keeps, AllWarranted, events \subseteq events',
           NEW h \in Handlers, Proceeds(h)
    PROVE  AllWarranted'
<1>1. Idle.pc \notin PurgePoints \cup {"discard", "unlink"}
  BY DEF Idle, Entering, PurgePoints
<1>2. CASE StoreRejects(h)
  <2>1. handler'[h] = Idle /\ \A g \in Handlers \ {h} : handler'[g] = handler[g]
    BY <1>2, StoreBecomes DEF StoreRejects, CutOff
  <2>2. UNCHANGED capture
    BY <1>2 DEF StoreRejects, captureVars
  <2>3. PICK s : Takes(h, s) /\ s.at \in {"route", "free"}
    BY <1>2, MovedTo DEF StoreRejects, AfterStore
  <2>4. QED
    BY <1>1, <2>1, <2>2, <2>3, NothingWarranted
<1>3. CASE Route(h)
  <2>1. UNCHANGED handler /\ slot[h].at = "route"
    BY <1>3 DEF Route, vars
  <2>2. \A g \in Handlers \ {h} : capture'[g] = capture[g]
    BY <1>3, CaptureKnows
       DEF Route, Capture!ReceiveMedia, Capture!ReceiveText, Capture!Becomes,
           captureVars
  <2>3. PICK s : Takes(h, s) /\ s.at \in {"capture", "free"}
    BY <1>3, MovedTo DEF Route
  <2>4. QED
    BY <2>1, <2>2, <2>3, NothingUnderWay, NothingWarranted
<1>4. CASE LookUpFile(h) \/ CaptureRuns(h)
  <2>1. UNCHANGED handler /\ slot[h].at = "capture"
    BY <1>4 DEF LookUpFile, Listens, CaptureRuns, vars
  <2>2. \A g \in Handlers \ {h} : capture'[g] = capture[g]
    <3>1. CASE LookUpFile(h)
      BY <3>1, TakenMedia DEF LookUpFile
    <3>2. CASE CaptureRuns(h)
      BY <3>2, CaptureStepKeeps DEF CaptureRuns, Keeps, Leaves
    <3>3. QED
      BY <1>4, <3>1, <3>2
  <2>3. \E s : Takes(h, s) /\ s.at \in {"capture", "free"}
    <3>1. UNCHANGED slot => Takes(h, slot[h])
      BY DEF SlotOK, Takes
    <3>2. QED
      BY <1>4, <2>1, <3>1, MovedTo DEF LookUpFile, CaptureRuns
  <2>4. QED
    BY <2>1, <2>2, <2>3, NothingUnderWay, NothingWarranted
<1>5. CASE RejectFile(h)
  <2> DEFINE m == capture[h].media
             s == [slot[h] EXCEPT !.at = "discard"]
  <2>1. /\ handler'[h] = Entering("discard", m)
        /\ \A g \in Handlers \ {h} : handler'[g] = handler[g]
    BY <1>5, StoreBecomes DEF RejectFile, StartDiscard
  <2>2. handler'[h].pc = "discard" /\ handler'[h].msg = m
    BY <2>1 DEF Entering
  <2>3. UNCHANGED <<capture, events>> /\ capture[h].pc = "media"
           /\ Refused(capture[h])
    BY <1>5 DEF RejectFile, Listens, Rejects, Refused, captureVars, Capture!At
  <2>4. s.at = "discard" /\ Takes(h, s)
    BY <1>5 DEF RejectFile, Moves, SlotOK, Slot
  <2> HIDE DEF s
  <2>5. slot'[h] = s /\ \A g \in Handlers \ {h} : slot'[g] = slot[g]
    BY <2>4 DEF SlotOK, Takes
  <2>6. Warranted(slot[h], handler[h], capture[h])'
    BY <2>2, <2>3, <2>4, <2>5 DEF Warranted, Refused, PurgePoints
  <2>7. QED
    BY <2>1, <2>3, <2>5, <2>6, WarrantFrame
<1>6. CASE FileRejected(h)
  <2>1. UNCHANGED handler /\ handler[h].pc = "idle"
    BY <1>6 DEF FileRejected, At, vars
  <2>2. \A g \in Handlers \ {h} : capture'[g] = capture[g]
    BY <1>6, TakenMedia DEF FileRejected
  <2>3. PICK s : Takes(h, s) /\ s.at = "capture"
    BY <1>6, MovedTo DEF FileRejected
  <2>4. QED
    BY <2>1, <2>2, <2>3, NothingWarranted DEF PurgePoints
<1>7. CASE DiscardRejects(h)
  <2>1. handler'[h] = Idle /\ \A g \in Handlers \ {h} : handler'[g] = handler[g]
    BY <1>7, StoreBecomes DEF DiscardRejects, CutOff
  <2>2. \A g \in Handlers \ {h} : capture'[g] = capture[g]
    BY <1>7, CaptureKnows DEF DiscardRejects, Capture!CallRejects,
       Capture!Becomes
  <2>3. PICK s : Takes(h, s) /\ s.at = "capture"
    BY <1>7, MovedTo DEF DiscardRejects
  <2>4. QED
    BY <1>1, <2>1, <2>2, <2>3, NothingWarranted
<1>8. CASE PurgeMessages(h)
  <2> DEFINE s == slot[h]
             number == PhoneOf[s.cand]
             next == [s EXCEPT !.at = "purge"]
  <2>1. /\ s.at = "ended" /\ StartPurge(h, number, s.since, s.ids)
        /\ UNCHANGED <<capture, events>> /\ Takes(h, next)
    BY <1>8 DEF PurgeMessages, captureVars, Moves
  <2>2. PICK found :
            Becomes(h, [Entering("find", None) EXCEPT
                           !.filter = [number |-> number, chats |-> found,
                                       since |-> s.since, ids |-> s.ids]])
    BY <2>1 DEF StartPurge
  <2> DEFINE r == [Entering("find", None) EXCEPT
                      !.filter = [number |-> number, chats |-> found,
                                  since |-> s.since, ids |-> s.ids]]
  <2>3. /\ r.pc = "find" /\ r.filter.number = number
        /\ r.filter.since = s.since /\ r.filter.ids = s.ids
    BY DEF Entering
  <2> HIDE DEF r
  <2>4. handler'[h] = r /\ \A g \in Handlers \ {h} : handler'[g] = handler[g]
    BY <2>2, StoreBecomes DEF r
  <2>5. /\ next.at = "purge" /\ next.cand = s.cand /\ next.since = s.since
        /\ next.ids = s.ids
    BY DEF SlotOK, Slot
  <2> HIDE DEF next
  <2>6. slot'[h] = next /\ \A g \in Handlers \ {h} : slot'[g] = slot[g]
    BY <2>1 DEF SlotOK, Takes
  <2>7. Warranted(s, handler[h], capture[h])
    BY DEF AllWarranted
  <2>8. Warranted(slot[h], handler[h], capture[h])'
    BY <2>1, <2>3, <2>4, <2>5, <2>6, <2>7
       DEF Warranted, Reported, PurgePoints
  <2>9. QED
    BY <2>1, <2>4, <2>6, <2>8, WarrantFrame
<1>9. CASE NothingToPurge(h)
  <2>1. UNCHANGED <<handler, capture>> /\ slot[h].at = "ended"
    BY <1>9 DEF NothingToPurge, captureVars, vars
  <2>2. PICK s : Takes(h, s) /\ s.at = "free"
    BY <1>9, MovedTo DEF NothingToPurge
  <2>3. QED
    BY <2>1, <2>2, NothingUnderWay, NothingWarranted
<1>10. QED
  BY <1>2, <1>3, <1>4, <1>5, <1>6, <1>7, <1>8, <1>9, WarrantedRuns
     DEF Proceeds

LEMMA WarrantedAlways == FilesSpec => []AllWarranted
<1>1. FilesInit => AllWarranted
  BY FreeIsSlot
     DEF FilesInit, Init, Idle, Entering, AllWarranted, Warranted, PurgePoints
<1>2. /\ SlotOK /\ IInv /\ CP!IInv /\ Keeps /\ AllWarranted
      /\ [FilesNext]_fileVars
      => AllWarranted'
  <2> SUFFICES ASSUME SlotOK, IInv, CP!IInv, Keeps, AllWarranted,
                      [FilesNext]_fileVars
               PROVE  AllWarranted'
    OBVIOUS
  <2>1. CASE UNCHANGED fileVars
    BY <2>1
       DEF fileVars, vars, captureVars, AllWarranted, Warranted, Refused,
           Reported
  <2>2. CASE Crash
    <3>1. \A h \in Handlers : slot'[h].at = "free" /\ handler'[h].pc = "idle"
      BY <2>2, FreeIsSlot DEF Crash, Restart, At, Idle, Entering, vars
    <3>2. QED
      BY <3>1 DEF AllWarranted, Warranted, PurgePoints
  <2>3. CASE LooseRuns
    BY <2>3, LooseOnlyRemoves
       DEF LooseRuns, captureVars, AllWarranted, Warranted, Refused, Reported
  <2>4. QED
    BY <2>1, <2>2, <2>3, WarrantedArrives, WarrantedProceeds, EventsStay DEF FilesNext
<1>3. FilesSpec => []IInv
  BY FilesImplementStore, Invariance, PTL
<1>4. QED
  BY <1>1, <1>2, <1>3, KeepsAlways, SlotsOK, CaptureKnowsAlways, PTL
     DEF FilesSpec

\* A purge of m's candidate: since a time, and of what the CRM was told of.
PurgesOwn(h, m) ==
    LET s == slot[h] IN
    /\ s.at = "purge"
    /\ NumberOf[LineOf[m]] = PhoneOf[s.cand]
    /\ TimeOf[m] >= s.since \/ m \in Reported(s.cand)

\* m's candidate sent it where a CV is awaited, and it is no PDF.
RefusesOwn(h, m) ==
    LET q == capture[h] IN
    /\ slot[h].at = "discard"
    /\ q.media = m /\ Refused(q)
    /\ NumberOf[LineOf[m]] = PhoneOf[q.cand]

DeletedForItsOwn(m) ==
    /\ rows[m] # None /\ rows'[m] = None => \E h \in Handlers : PurgesOwn(h, m)
    /\ m \in files /\ m \notin files' =>
          \/ m \in loose.rm
          \/ \E h \in Handlers : PurgesOwn(h, m) \/ RefusesOwn(h, m)
    /\ m \in loose'.rm /\ m \notin loose.rm =>
          \E h \in Handlers : PurgesOwn(h, m)

\* Whatever overlaps, fails or is repeated, no request deletes a message or a
\* file of another number; a message goes with a purge of its own candidate, a
\* file with one too, though the purge itself may have been cut off and left
\* the deletion running, or when it is refused as the CV
\* (purgeRecruitingMessages, rejectNonPdfCv).
THEOREM FilesGoForTheirOwn ==
    FilesSpec => [][\A m \in Wamids : DeletedForItsOwn(m)]_fileVars
<1>1. /\ CP!IInv /\ AllWarranted
      /\ [\A m \in Wamids : DeletesItsOwn(m)]_vars
      => \A m \in Wamids : DeletedForItsOwn(m)
  <2> SUFFICES ASSUME CP!IInv, AllWarranted, NEW m \in Wamids,
                      DeletesItsOwn(m) \/ UNCHANGED vars
               PROVE  DeletedForItsOwn(m)
    OBVIOUS
  <2>1. CASE UNCHANGED vars
    BY <2>1 DEF vars, store, DeletedForItsOwn
  <2>2. ASSUME NEW h \in Handlers, handler[h].pc \in PurgePoints,
               Reaches(handler[h].filter, m)
        PROVE  PurgesOwn(h, m)
    BY <2>2 DEF AllWarranted, Warranted, Reaches, PurgesOwn
  <2>3. ASSUME NEW h \in Handlers, handler[h].pc = "discard",
               handler[h].msg = m
        PROVE  RefusesOwn(h, m)
    <3>1. /\ slot[h].at = "discard" /\ capture[h].media = m
          /\ capture[h].pc = "media" /\ Refused(capture[h])
      BY <2>3 DEF AllWarranted, Warranted
    <3>2. m \in WithMedia /\ NumberOf[LineOf[m]] = PhoneOf[capture[h].cand]
      BY <3>1 DEF CP!IInv, CP!TypeOK, CP!HandlerOK, CP!OwnMedia
    <3>3. QED
      BY <3>1, <3>2 DEF RefusesOwn
  <2>4. QED
    BY <2>1, <2>2, <2>3 DEF DeletesItsOwn, DeletedForItsOwn, At, PurgePoints
<1>2. FilesSpec => [][\A m \in Wamids : DeletesItsOwn(m)]_vars
  BY FilesImplementStore, PurgesReachTheirOwn, PTL
<1>3. QED
  BY <1>1, <1>2, WarrantedAlways, CaptureKnowsAlways, PTL

\* The composed system makes both promises, of what the CRM reads back and of
\* what the CRM and the candidate are told: neither part breaks the other's.
THEOREM FilesKeepBothPromises ==
    FilesSpec => ImplementsArchive /\ CP!ImplementsReports
<1>1. CP!Spec => CP!ImplementsReports
  BY CaptureGiven, CP!CaptureImplementsReports
     DEF CP!Tools, CP!Session, CP!Texts
<1>2. QED
  BY <1>1, FilesImplementStore, StoreImplementsArchive,
     FilesImplementCapture, SameSpec, PTL
=============================================================================
