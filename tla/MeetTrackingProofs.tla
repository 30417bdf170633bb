------------------------- MODULE MeetTrackingProofs -------------------------
(***************************************************************************)
(* Theorems about MeetTracking, for any number of commands, messages and   *)
(* webhooks in flight.                                                     *)
(*                                                                         *)
(* The inductive invariant says what a command knows at each point: from   *)
(* "persist" on that Meta gave it its wamid, at "tell" that the row is     *)
(* there or has expired, and before "end" that nothing was told.  A row,   *)
(* and a webhook that has read one, names the candidate of the command     *)
(* that sent the message; Meta never gives a wamid to a second command.    *)
(***************************************************************************)
EXTENDS MeetTracking, TLAPS

Mapped(k, m) ==
    /\ senderOf[m] = k
    /\ rows[m] = CandidateOf[k] \/ m \in expired

\* The message m was sent for candidate c.
SentFor(m, c) == senderOf[m] # None /\ CandidateOf[senderOf[m]] = c

CommandOK(k) ==
    /\ command[k].pc \in {"persist", "track", "tell"} =>
          command[k].msg \in Messages /\ senderOf[command[k].msg] = k
    /\ command[k].pc \in {"track", "tell"} => CandidateOf[k] # None
    /\ command[k].pc = "tell" => Mapped(k, command[k].msg)
    /\ command[k].pc # "end" => ~Told(k, "sent") /\ ~Told(k, "failed")

WebhookOK(w) ==
    /\ webhook[w].pc # "idle" => webhook[w].msg \in Messages
    /\ webhook[w].pc = "tell" =>
          /\ webhook[w].cand \in Candidates
          /\ SentFor(webhook[w].msg, webhook[w].cand)

RowsAreOwn == \A m \in Messages : rows[m] # None => SentFor(m, rows[m])

IInv ==
    /\ TypeOK
    /\ \A k \in Commands : CommandOK(k)
    /\ \A w \in Webhooks : WebhookOK(w)
    /\ RowsAreOwn
    /\ OneResult /\ SentIsTracked /\ StatusesAreOwn

-----------------------------------------------------------------------------

LEMMA InitOK == Init => IInv
<1> SUFFICES ASSUME Init
             PROVE  IInv
  OBVIOUS
<1>1. /\ IdleWebhook \in WebhookState /\ IdleWebhook.pc = "idle"
      /\ [pc |-> "queued", msg |-> None] \in CommandState
  BY DEF IdleWebhook, WebhookState, TRACKED_WEBHOOK_STATUSES, CommandState,
         Points
<1>2. TypeOK
  BY <1>1 DEF Init, TypeOK
<1>3. \A k \in Commands : CommandOK(k)
  BY DEF Init, CommandOK, Told
<1>4. \A w \in Webhooks : WebhookOK(w)
  BY <1>1 DEF Init, WebhookOK
<1>5. RowsAreOwn /\ OneResult /\ SentIsTracked /\ StatusesAreOwn
  BY DEF Init, RowsAreOwn, OneResult, SentIsTracked, StatusesAreOwn, Told
<1>6. QED
  BY <1>2, <1>3, <1>4, <1>5 DEF IInv

\* A step of command k to another point that tells the CRM nothing, writes no
\* row, and keeps what Meta has accepted.
LEMMA CommandFrame ==
    ASSUME IInv, NEW k \in Commands, NEW point \in Points,
           NEW msg \in Messages \cup {None},
           Moves(k, point, msg), command[k].pc # "end",
           senderOf' \in [Messages -> Commands \cup {None}],
           \A m \in Messages : senderOf[m] # None => senderOf'[m] = senderOf[m],
           point \in {"persist", "track"} =>
               msg \in Messages /\ senderOf'[msg] = k,
           point = "track" => CandidateOf[k] # None,
           point # "tell",
           UNCHANGED <<store, webhook, crm>>, unnamed' \subseteq Commands,
           faulty' \in BOOLEAN
    PROVE  IInv'
<1>1. UNCHANGED <<rows, expired, results, statuses>>
  BY DEF store, crm
<1>2. TypeOK'
  BY <1>1 DEF IInv, TypeOK, Moves, CommandState
<1>3. /\ command'[k] = [pc |-> point, msg |-> msg]
      /\ \A j \in Commands \ {k} : command'[j] = command[j]
  BY DEF IInv, TypeOK, Moves
<1>4. CommandOK(k)'
  BY <1>1, <1>3 DEF IInv, CommandOK, Told
<1>5. ASSUME NEW j \in Commands, j # k
      PROVE  CommandOK(j)'
  <2>1. CommandOK(j) /\ command'[j] = command[j]
    BY <1>3, <1>5 DEF IInv
  <2>2. j # None
    BY CandidatesAssumption
  <2>3. QED
    BY <1>1, <2>1, <2>2 DEF CommandOK, Told, Mapped
<1>6. \A m \in Messages : \A c : SentFor(m, c) => SentFor(m, c)'
  BY DEF SentFor
<1>7. RowsAreOwn' /\ \A w \in Webhooks : WebhookOK(w)'
  BY <1>1, <1>6 DEF IInv, RowsAreOwn, WebhookOK
<1>8. OneResult'
  BY <1>1 DEF IInv, OneResult, Told
<1>9. SentIsTracked'
  BY <1>1, CandidatesAssumption DEF IInv, SentIsTracked, Told
<1>10. StatusesAreOwn'
  BY <1>1 DEF IInv, TypeOK, Status, StatusesAreOwn
<1>11. QED
  BY <1>2, <1>4, <1>5, <1>7, <1>8, <1>9, <1>10 DEF IInv

LEMMA TakeCommandKeeps ==
    ASSUME IInv, NEW k \in Commands, TakeCommand(k)
    PROVE  IInv'
<1>1. command[k].pc = "queued" /\ command[k].msg \in Messages \cup {None}
      /\ senderOf \in [Messages -> Commands \cup {None}] /\ faulty \in BOOLEAN
      /\ unnamed \subseteq Commands
  BY DEF TakeCommand, At, IInv, TypeOK, CommandState
<1>2. QED
  BY <1>1, CommandFrame DEF TakeCommand, Goes, Points

LEMMA SendTemplateKeeps ==
    ASSUME IInv, NEW k \in Commands, SendTemplate(k)
    PROVE  IInv'
<1>1. command[k].pc = "send" /\ command[k].msg \in Messages \cup {None}
      /\ senderOf \in [Messages -> Commands \cup {None}] /\ faulty \in BOOLEAN
      /\ unnamed \subseteq Commands
  BY DEF SendTemplate, At, IInv, TypeOK, CommandState
<1>2. CASE Refused(k) /\ UNCHANGED <<senderOf, unnamed, faulty>>
  BY <1>1, <1>2, CommandFrame DEF SendTemplate, Refused, Goes, Points
<1>3. ASSUME NEW m \in Messages, senderOf[m] = None,
             senderOf' = [senderOf EXCEPT ![m] = k],
             \/ Moves(k, "persist", m) /\ UNCHANGED <<unnamed, faulty>>
             \/ /\ Goes(k, "end")
                /\ unnamed' = unnamed \cup {k} /\ UNCHANGED faulty
             \/ Refused(k) /\ faulty' = TRUE /\ UNCHANGED unnamed
      PROVE  IInv'
  <2>1. /\ senderOf' \in [Messages -> Commands \cup {None}]
        /\ senderOf'[m] = k
        /\ \A n \in Messages : senderOf[n] # None => senderOf'[n] = senderOf[n]
    BY <1>1, <1>3
  <2>2. QED
    BY <1>1, <1>3, <2>1, CommandFrame DEF SendTemplate, Refused, Goes, Points
<1>4. QED
  BY <1>2, <1>3 DEF SendTemplate

LEMMA PersistTemplateKeeps ==
    ASSUME IInv, NEW k \in Commands, PersistTemplate(k)
    PROVE  IInv'
<1>1. command[k].pc = "persist" /\ command[k].msg \in Messages
      /\ senderOf[command[k].msg] = k
      /\ senderOf \in [Messages -> Commands \cup {None}] /\ faulty \in BOOLEAN
      /\ unnamed \subseteq Commands
  BY DEF PersistTemplate, At, IInv, TypeOK, CommandOK
<1>2. QED
  BY <1>1, CommandFrame
     DEF PersistTemplate, AfterPersisting, Refused, Goes, Points

LEMMA TrackTemplateKeeps ==
    ASSUME IInv, NEW k \in Commands, TrackTemplate(k)
    PROVE  IInv'
<1> DEFINE m == command[k].msg
           c == CandidateOf[k]
<1>1. /\ command[k].pc = "track" /\ m \in Messages /\ senderOf[m] = k
      /\ c # None /\ c \in Candidates
      /\ senderOf \in [Messages -> Commands \cup {None}] /\ faulty \in BOOLEAN
      /\ unnamed \subseteq Commands
  BY CandidatesAssumption
     DEF TrackTemplate, At, IInv, TypeOK, CommandOK
<1>2. CASE Refused(k) /\ faulty' = TRUE /\ UNCHANGED rows
  BY <1>1, <1>2, CommandFrame
     DEF TrackTemplate, Refused, Goes, Points, store
<1>3. CASE Track(m, c) /\ Goes(k, "tell") /\ UNCHANGED faulty
  <2>1. /\ UNCHANGED <<expired, senderOf, unnamed, webhook, results>>
        /\ UNCHANGED <<statuses, faulty>>
    BY <1>3 DEF TrackTemplate, crm
  <2>2. /\ command'[k] = [pc |-> "tell", msg |-> m]
        /\ \A j \in Commands \ {k} : command'[j] = command[j]
    BY <1>3 DEF Goes, Moves, IInv, TypeOK
  <2>3. /\ rows'[m] = c
        /\ \A n \in Messages \ {m} : rows'[n] = rows[n]
    BY <1>1, <1>3 DEF Track, IInv, TypeOK
  <2>4. TypeOK'
    <3>1. rows' \in [Messages -> Candidates \cup {None}]
      BY <1>1, <1>3 DEF Track, IInv, TypeOK
    <3>2. [pc |-> "tell", msg |-> m] \in CommandState
      BY <1>1 DEF CommandState, Points
    <3>3. command' \in [Commands -> CommandState]
      BY <1>3, <3>2 DEF Goes, Moves, IInv, TypeOK
    <3>4. QED
      BY <2>1, <3>1, <3>3 DEF IInv, TypeOK
  <2>5. CommandOK(k)'
    BY <1>1, <2>1, <2>2, <2>3 DEF IInv, CommandOK, Mapped, Told
  <2>6. ASSUME NEW j \in Commands, j # k
        PROVE  CommandOK(j)'
    <3>1. CommandOK(j) /\ command'[j] = command[j]
      BY <2>2, <2>6 DEF IInv
    <3>2. QED
      BY <1>1, <2>1, <2>3, <2>6, <3>1 DEF CommandOK, Mapped, Told
  <2>7. RowsAreOwn' /\ (\A w \in Webhooks : WebhookOK(w)')
    BY <1>1, <2>1, <2>3, CandidatesAssumption
       DEF IInv, RowsAreOwn, WebhookOK, SentFor
  <2>8. OneResult' /\ StatusesAreOwn'
    BY <2>1 DEF IInv, OneResult, StatusesAreOwn, Told
  <2>9. SentIsTracked'
    BY <1>1, <2>1, <2>3 DEF IInv, SentIsTracked, Told
  <2>10. QED
    BY <2>4, <2>5, <2>6, <2>7, <2>8, <2>9 DEF IInv
<1>4. QED
  BY <1>2, <1>3 DEF TrackTemplate

\* A command ends, having told the CRM at most one result, which is true.
LEMMA TellFrame ==
    ASSUME IInv, NEW k \in Commands, NEW result \in {"sent", "failed"},
           Goes(k, "end"), command[k].pc # "end",
           result = "sent" => command[k].pc = "tell",
           results' \in {results, results \cup {[cmd |-> k, result |-> result]}},
           UNCHANGED <<store, senderOf, unnamed, webhook, statuses>>,
           faulty' \in BOOLEAN
    PROVE  IInv'
<1>1. UNCHANGED <<rows, expired, senderOf, unnamed, webhook, statuses>>
  BY DEF store
<1>2. /\ command'[k].pc = "end"
      /\ \A j \in Commands \ {k} : command'[j] = command[j]
  BY DEF Goes, Moves, IInv, TypeOK
<1>3. ~Told(k, "sent") /\ ~Told(k, "failed")
  BY DEF IInv, CommandOK
<1>4. /\ Told(k, "sent")' => result = "sent"
      /\ Told(k, "failed")' => result = "failed"
      /\ \A j \in Commands \ {k} :
            /\ Told(j, "sent")' <=> Told(j, "sent")
            /\ Told(j, "failed")' <=> Told(j, "failed")
  BY <1>3 DEF Told
<1>5. TypeOK'
  BY <1>1 DEF IInv, TypeOK, Goes, Moves, CommandState, Points, Result
<1>6. \A j \in Commands : CommandOK(j)'
  BY <1>1, <1>2, <1>4 DEF IInv, CommandOK, Mapped
<1>7. RowsAreOwn' /\ (\A w \in Webhooks : WebhookOK(w)') /\ StatusesAreOwn'
  BY <1>1 DEF IInv, RowsAreOwn, WebhookOK, SentFor, StatusesAreOwn
<1>8. OneResult'
  BY <1>4 DEF IInv, OneResult
<1>9. SentIsTracked'
  <2>1. result = "sent" =>
            command[k].msg \in Messages /\ Mapped(k, command[k].msg)
    BY DEF IInv, CommandOK
  <2>2. QED
    BY <1>1, <1>4, <2>1 DEF IInv, SentIsTracked, Mapped
<1>10. QED
  BY <1>5, <1>6, <1>7, <1>8, <1>9 DEF IInv

LEMMA TellSentKeeps ==
    ASSUME IInv, NEW k \in Commands, TellSent(k)
    PROVE  IInv'
<1>1. command[k].pc = "tell" /\ faulty \in BOOLEAN
  BY DEF TellSent, At, IInv, TypeOK
<1>2. QED
  BY <1>1, TellFrame DEF TellSent, EmissionRejected

LEMMA TellFailedKeeps ==
    ASSUME IInv, NEW k \in Commands, TellFailed(k)
    PROVE  IInv'
<1>1. command[k].pc = "fail" /\ faulty \in BOOLEAN
  BY DEF TellFailed, At, IInv, TypeOK
<1>2. QED
  BY <1>1, TellFrame DEF TellFailed

-----------------------------------------------------------------------------

\* A step of webhook w to the state r that tells the CRM nothing.
LEMMA WebhookFrame ==
    ASSUME IInv, NEW w \in Webhooks, NEW r \in WebhookState, Becomes(w, r),
           r.pc # "idle" => r.msg \in Messages,
           r.pc = "tell" => r.cand \in Candidates /\ SentFor(r.msg, r.cand),
           UNCHANGED <<store, senderOf, unnamed, command, results>>,
           statuses' \subseteq Status, StatusesAreOwn', faulty' \in BOOLEAN
    PROVE  IInv'
<1>1. UNCHANGED <<rows, expired, senderOf, unnamed, command, results>>
  BY DEF store
<1>2. /\ webhook'[w] = r
      /\ \A v \in Webhooks \ {w} : webhook'[v] = webhook[v]
  BY DEF Becomes, IInv, TypeOK
<1>3. TypeOK'
  BY <1>1 DEF IInv, TypeOK, Becomes
<1>4. \A v \in Webhooks : WebhookOK(v)'
  BY <1>1, <1>2 DEF IInv, WebhookOK, SentFor
<1>5. RowsAreOwn' /\ OneResult' /\ SentIsTracked'
      /\ \A k \in Commands : CommandOK(k)'
  BY <1>1
     DEF IInv, RowsAreOwn, SentFor, OneResult, SentIsTracked, Told, CommandOK,
         Mapped
<1>6. QED
  BY <1>3, <1>4, <1>5 DEF IInv

LEMMA IdleOK == IdleWebhook \in WebhookState /\ IdleWebhook.pc = "idle"
BY DEF IdleWebhook, WebhookState, TRACKED_WEBHOOK_STATUSES

LEMMA ReceiveStatusKeeps ==
    ASSUME IInv, NEW w \in Webhooks, NEW m \in Messages,
           NEW raw \in RawStatuses, NEW spamCode \in BOOLEAN,
           ReceiveStatus(w, m, raw, spamCode)
    PROVE  IInv'
<1> DEFINE r == [pc |-> "lookup", msg |-> m, raw |-> raw,
                 spamCode |-> spamCode, cand |-> None]
<1>1. r \in WebhookState
  BY CandidatesAssumption DEF WebhookState
<1>2. statuses' \subseteq Status /\ StatusesAreOwn' /\ faulty' \in BOOLEAN
  BY DEF ReceiveStatus, crm, IInv, TypeOK, StatusesAreOwn
<1>3. QED
  BY <1>1, <1>2, WebhookFrame DEF ReceiveStatus, crm

LEMMA LookUpStatusKeeps ==
    ASSUME IInv, NEW w \in Webhooks, LookUpStatus(w)
    PROVE  IInv'
<1> DEFINE m == webhook[w].msg
           c == rows[m]
           r == [webhook[w] EXCEPT !.pc = "tell", !.cand = c]
<1>1. webhook[w] \in WebhookState /\ m \in Messages
      /\ rows \in [Messages -> Candidates \cup {None}]
  BY DEF LookUpStatus, IInv, TypeOK, WebhookOK
<1>2. statuses' \subseteq Status /\ StatusesAreOwn' /\ faulty' \in BOOLEAN
      /\ UNCHANGED <<store, senderOf, unnamed, command, results>>
  BY DEF LookUpStatus, crm, IInv, TypeOK, StatusesAreOwn
<1>3. CASE Becomes(w, IdleWebhook)
  BY <1>2, <1>3, IdleOK, WebhookFrame
<1>4. CASE c # None /\ Becomes(w, r)
  <2>1. c \in Candidates /\ SentFor(m, c)
    BY <1>1, <1>4 DEF IInv, RowsAreOwn
  <2>2. r \in WebhookState /\ r.msg = m /\ r.cand = c
    BY <1>1, <2>1 DEF WebhookState
  <2> HIDE DEF r
  <2>3. QED
    BY <1>1, <1>2, <1>4, <2>1, <2>2, WebhookFrame
<1>5. QED
  BY <1>3, <1>4 DEF LookUpStatus, Found, Followed

LEMMA TellStatusKeeps ==
    ASSUME IInv, NEW w \in Webhooks, TellStatus(w)
    PROVE  IInv'
<1> DEFINE s == [cand |-> webhook[w].cand, msg |-> webhook[w].msg,
                 status |-> MapStatus(webhook[w])]
<1>1. webhook[w] \in WebhookState /\ webhook[w].pc = "tell"
  BY DEF TellStatus, IInv, TypeOK
<1>2. s \in Status /\ SentFor(s.msg, s.cand)
  BY <1>1 DEF IInv, WebhookOK, WebhookState, Status, MapStatus
<1>3. statuses' \in {statuses, statuses \cup {s}} /\ faulty' \in BOOLEAN
      /\ UNCHANGED <<store, senderOf, unnamed, command, results>>
  BY DEF TellStatus, IInv, TypeOK
<1> HIDE DEF s
<1>4. statuses' \subseteq Status /\ StatusesAreOwn'
  BY <1>2, <1>3 DEF IInv, TypeOK, StatusesAreOwn, SentFor
<1>5. QED
  BY <1>3, <1>4, IdleOK, WebhookFrame DEF TellStatus

LEMMA ExpireKeeps ==
    ASSUME IInv, NEW m \in Messages, Expire(m)
    PROVE  IInv'
<1>1. /\ UNCHANGED <<senderOf, unnamed, command, webhook, results>>
      /\ UNCHANGED <<statuses, faulty>>
  BY DEF Expire, crm
<1>2. /\ rows'[m] = None /\ expired' = expired \cup {m}
      /\ \A n \in Messages \ {m} : rows'[n] = rows[n]
  BY DEF Expire, IInv, TypeOK
<1>3. TypeOK'
  BY <1>1 DEF Expire, IInv, TypeOK
<1>4. \A k \in Commands : CommandOK(k)'
  BY <1>1, <1>2 DEF IInv, CommandOK, Mapped, Told
<1>5. RowsAreOwn' /\ (\A w \in Webhooks : WebhookOK(w)')
  BY <1>1, <1>2 DEF IInv, RowsAreOwn, WebhookOK, SentFor
<1>6. OneResult' /\ StatusesAreOwn'
  BY <1>1 DEF IInv, OneResult, StatusesAreOwn, Told
<1>7. SentIsTracked'
  BY <1>1, <1>2 DEF IInv, SentIsTracked, Told
<1>8. QED
  BY <1>3, <1>4, <1>5, <1>6, <1>7 DEF IInv

LEMMA CrashKeeps ==
    ASSUME IInv, Crash
    PROVE  IInv'
<1>1. UNCHANGED <<rows, expired, senderOf, unnamed, results, statuses>>
  BY DEF Crash, store, crm
<1>2. ASSUME NEW k \in Commands
      PROVE  /\ command'[k] \in CommandState
             /\ \/ command'[k].pc = "end"
                \/ command'[k] = command[k] /\ command[k].pc = "queued"
  BY DEF Crash, At, IInv, TypeOK, CommandState, Points
<1>3. TypeOK'
  <2>1. command' \in [Commands -> CommandState]
    BY <1>2 DEF Crash
  <2>2. QED
    BY <1>1, <2>1, IdleOK DEF Crash, IInv, TypeOK
<1>4. \A k \in Commands : CommandOK(k)'
  BY <1>1, <1>2 DEF IInv, CommandOK, Mapped, Told
<1>5. \A w \in Webhooks : WebhookOK(w)'
  BY IdleOK DEF Crash, WebhookOK
<1>6. RowsAreOwn' /\ OneResult' /\ StatusesAreOwn' /\ SentIsTracked'
  BY <1>1
     DEF IInv, RowsAreOwn, SentFor, OneResult, StatusesAreOwn, SentIsTracked,
         Told
<1>7. QED
  BY <1>3, <1>4, <1>5, <1>6 DEF IInv

LEMMA StutterKeeps == IInv /\ UNCHANGED vars => IInv'
BY DEF IInv, TypeOK, CommandOK, WebhookOK, RowsAreOwn, SentFor, Mapped, Told,
       OneResult, SentIsTracked, StatusesAreOwn, vars, store, crm

LEMMA Invariance == Spec => []IInv
<1>1. IInv /\ [Next]_vars => IInv'
  <2> SUFFICES ASSUME IInv, [Next]_vars
               PROVE  IInv'
    OBVIOUS
  <2>1. CASE UNCHANGED vars
    BY <2>1, StutterKeeps
  <2>2. ASSUME NEW k \in Commands, Obey(k)
        PROVE  IInv'
    BY <2>2, TakeCommandKeeps, SendTemplateKeeps, PersistTemplateKeeps,
       TrackTemplateKeeps, TellSentKeeps, TellFailedKeeps DEF Obey
  <2>3. ASSUME NEW w \in Webhooks, Report(w)
        PROVE  IInv'
    BY <2>3, LookUpStatusKeeps, TellStatusKeeps DEF Report
  <2>4. QED
    BY <2>1, <2>2, <2>3, ReceiveStatusKeeps, ExpireKeeps, CrashKeeps DEF Next
<1>2. QED
  BY <1>1, InitOK, PTL DEF Spec

\* Rows, commands, webhooks and events keep their types.
THEOREM MeetTypeCorrect == Spec => []TypeOK
<1>1. IInv => TypeOK
  BY DEF IInv
<1>2. QED
  BY <1>1, Invariance, PTL

\* handleRecruitingMeetTemplate reports one result: after the event of a sent
\* template nothing can lead to its catch.
THEOREM ResultsDoNotContradict == Spec => []OneResult
<1>1. IInv => OneResult
  BY DEF IInv
<1>2. QED
  BY <1>1, Invariance, PTL

\* reportTemplateSent stores the row before it tells the CRM, and nothing but
\* its expiry takes it away or changes its candidate.
THEOREM SentTemplatesAreTracked == Spec => []SentIsTracked
<1>1. IInv => SentIsTracked
  BY DEF IInv
<1>2. QED
  BY <1>1, Invariance, PTL

\* reportWebhookStatusIfTracked reports a status with the candidate to whom
\* the message was sent, however webhooks and commands overlap.
THEOREM StatusesReachTheirCandidate == Spec => []StatusesAreOwn
<1>1. IInv => StatusesAreOwn
  BY DEF IInv
<1>2. QED
  BY <1>1, Invariance, PTL


-----------------------------------------------------------------------------
(* Failures that are true.                                                 *)

\* Without a fault, a command that has not been accepted, or whose handler is
\* about to report a failure or has, has no message.
Unsent ==
    ~faulty => \A k \in Commands :
        command[k].pc \in {"queued", "send", "fail"} \/ Told(k, "failed") =>
            \A m \in Messages : senderOf[m] # k

\* A step of one command, to which Meta gives no message.
LEMMA UnsentFrame ==
    ASSUME IInv, Unsent, NEW k \in Commands, NEW point \in Points,
           Goes(k, point), UNCHANGED <<senderOf, results>>,
           faulty' \in BOOLEAN, ~faulty' => ~faulty,
           ~faulty' /\ point \in {"queued", "send", "fail"} =>
               command[k].pc \in {"queued", "send", "fail"}
    PROVE  Unsent'
<1>1. /\ command'[k].pc = point
      /\ \A j \in Commands \ {k} : command'[j] = command[j]
  BY DEF Goes, Moves, IInv, TypeOK
<1>2. \A j \in Commands : Told(j, "failed")' <=> Told(j, "failed")
  BY DEF Told
<1> QED  BY <1>1, <1>2 DEF Unsent

LEMMA ObeyUnsent ==
    ASSUME IInv, Unsent, NEW k \in Commands, Obey(k)
    PROVE  Unsent'
<1>1. /\ faulty \in BOOLEAN /\ TypeOK /\ CommandOK(k)
      /\ senderOf \in [Messages -> Commands \cup {None}]
  BY DEF IInv, TypeOK
<1>2. CASE TakeCommand(k)
  BY <1>1, <1>2, UnsentFrame DEF TakeCommand, At, crm, Points
<1>3. CASE SendTemplate(k)
  <2>1. CASE Refused(k) /\ UNCHANGED <<senderOf, unnamed, faulty>>
    BY <1>1, <1>3, <2>1, UnsentFrame DEF SendTemplate, Refused, At, crm, Points
  <2>2. CASE faulty' = TRUE
    BY <2>2 DEF Unsent
  <2>3. ASSUME NEW m \in Messages, senderOf' = [senderOf EXCEPT ![m] = k],
               NEW point \in {"persist", "end"},
               NEW msg \in Messages \cup {None},
               Moves(k, point, msg), UNCHANGED faulty
        PROVE  Unsent'
    <3>1. /\ command'[k].pc = point
          /\ \A j \in Commands \ {k} : command'[j] = command[j]
      BY <1>1, <2>3 DEF Moves, TypeOK
    <3>2. \A n \in Messages : senderOf'[n] = k \/ senderOf'[n] = senderOf[n]
      BY <1>1, <2>3
    <3>3. ~Told(k, "failed")' /\ \A j \in Commands :
             Told(j, "failed")' <=> Told(j, "failed")
      BY <1>1, <1>3 DEF SendTemplate, At, CommandOK, crm, Told
    <3> QED  BY <2>3, <3>1, <3>2, <3>3 DEF Unsent
  <2>4. command[k].msg \in Messages \cup {None}
    BY <1>1 DEF TypeOK, CommandState
  <2> QED  BY <1>3, <2>1, <2>2, <2>3, <2>4 DEF SendTemplate, Goes
<1>4. CASE PersistTemplate(k) \/ TrackTemplate(k)
  <2>1. CASE faulty' = TRUE
    BY <2>1 DEF Unsent
  <2>2. ASSUME NEW point \in {"end", "track", "tell"}, Goes(k, point),
               UNCHANGED faulty
        PROVE  Unsent'
    <3>1. UNCHANGED <<senderOf, results>>
      BY <1>4 DEF PersistTemplate, TrackTemplate, crm
    <3> QED  BY <1>1, <2>2, <3>1, UnsentFrame DEF Points
  <2>3. CASE PersistTemplate(k)
    BY <2>1, <2>2, <2>3 DEF PersistTemplate, AfterPersisting
  <2>4. CASE TrackTemplate(k)
    BY <2>1, <2>2, <2>4 DEF TrackTemplate
  <2> QED  BY <1>4, <2>3, <2>4
<1>5. CASE TellSent(k)
  <2>1. /\ command'[k].pc = "end" /\ senderOf' = senderOf
        /\ \A j \in Commands \ {k} : command'[j] = command[j]
    BY <1>1, <1>5 DEF TellSent, EmissionRejected, Goes, Moves, TypeOK
  <2>2. \A j \in Commands : Told(j, "failed")' <=> Told(j, "failed")
    BY <1>5 DEF TellSent, Told
  <2>3. faulty' = faulty \/ faulty' = TRUE
    BY <1>5 DEF TellSent
  <2>4. CASE faulty' = TRUE
    BY <2>4 DEF Unsent
  <2>5. CASE faulty' = faulty
    BY <2>1, <2>2, <2>5 DEF Unsent
  <2> QED  BY <2>3, <2>4, <2>5
<1>6. CASE TellFailed(k)
  <2>1. /\ command'[k].pc = "end" /\ senderOf' = senderOf
        /\ \A j \in Commands \ {k} : command'[j] = command[j]
        /\ command[k].pc = "fail"
    BY <1>1, <1>6 DEF TellFailed, At, Goes, Moves, TypeOK
  <2>2. \A j \in Commands \ {k} : Told(j, "failed")' <=> Told(j, "failed")
    BY <1>6 DEF TellFailed, Told
  <2>3. faulty' = faulty \/ faulty' = TRUE
    BY <1>6 DEF TellFailed
  <2>4. CASE faulty' = TRUE
    BY <2>4 DEF Unsent
  <2>5. CASE faulty' = faulty
    BY <2>1, <2>2, <2>5 DEF Unsent
  <2> QED  BY <2>3, <2>4, <2>5
<1> QED  BY <1>2, <1>3, <1>4, <1>5, <1>6 DEF Obey

\* A step that no command makes.
Aside ==
    /\ UNCHANGED <<senderOf, command, results>>
    /\ faulty' = faulty \/ faulty' = TRUE

\* A template that Meta accepted is reported as failed only after a rejected
\* call or a restart, for any number of commands and webhooks.
THEOREM FailuresAreTrue == Spec => []FailedMeansUnsent
<1>1. Init => Unsent
  BY CandidatesAssumption DEF Init, Unsent, Told
<1>2. ASSUME IInv, Unsent, [Next]_vars
      PROVE  Unsent'
  <2>1. ASSUME NEW w \in Webhooks, Report(w)
        PROVE  Aside
    BY <2>1 DEF Aside, Report, LookUpStatus, TellStatus, crm
  <2>2. CASE Aside
    <3>1. \A k \in Commands : Told(k, "failed")' <=> Told(k, "failed")
      BY <2>2 DEF Aside, Told
    <3>2. CASE faulty' = TRUE
      BY <3>2 DEF Unsent
    <3>3. CASE faulty' = faulty
      BY <1>2, <2>2, <3>1, <3>3 DEF Aside, Unsent
    <3> QED  BY <2>2, <3>2, <3>3 DEF Aside
  <2>3. CASE Crash
    BY <2>3 DEF Crash, Unsent
  <2>4. ASSUME NEW w \in Webhooks, NEW m \in Messages, NEW raw \in RawStatuses,
               NEW spamCode \in BOOLEAN, ReceiveStatus(w, m, raw, spamCode)
        PROVE  Aside
    BY <2>4 DEF Aside, ReceiveStatus, crm
  <2>5. ASSUME NEW m \in Messages, Expire(m)
        PROVE  Aside
    BY <2>5 DEF Aside, Expire, crm
  <2>6. CASE UNCHANGED vars
    BY <2>2, <2>6 DEF Aside, vars, crm
  <2> QED  BY <1>2, <2>1, <2>2, <2>3, <2>4, <2>5, <2>6, ObeyUnsent DEF Next
<1>3. Unsent => FailedMeansUnsent
  BY DEF Unsent, FailedMeansUnsent
<1> QED  BY <1>1, <1>2, <1>3, Invariance, PTL DEF Spec
=============================================================================
