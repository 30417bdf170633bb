---------------------------- MODULE MeetTracking ----------------------------
(***************************************************************************)
(* The Meet templates of recruiting groups: the CRM's command that sends   *)
(* one (handleRecruitingMeetTemplate), the collection that maps its wamid  *)
(* to the candidate, and Meta's status webhooks                            *)
(* (recruiting-meet-message.service.ts).                                   *)
(*                                                                         *)
(* A command and a webhook are calls in flight; the code between two       *)
(* awaits is one action.  The queue is consumed without acknowledgements,  *)
(* so a restart loses the commands in flight.                              *)
(*                                                                         *)
(* Data left out: the template and its parameters, error texts.            *)
(***************************************************************************)
EXTENDS Naturals

CONSTANTS
    Commands,       \* send.recruiting_meet_template commands
    Candidates,     \* candidateId values
    CandidateOf,    \* the candidate of each command, None if it names none
    Messages,       \* wamids that Meta may give: bounds what is accepted
    Webhooks,       \* slots for status webhooks in flight
    RawStatuses,    \* statuses Meta sends: bounds the webhooks
    None            \* no value

\* Others are ignored.
TRACKED_WEBHOOK_STATUSES == {"sent", "delivered", "read", "failed"}

ASSUME CandidatesAssumption ==
    /\ RawStatuses \subseteq TRACKED_WEBHOOK_STATUSES
    /\ CandidateOf \in [Commands -> Candidates \cup {None}]
    /\ None \notin Candidates \cup Commands \cup Messages

VARIABLES
    rows,       \* collection recruitingmeetmessages: candidate by wamid
    expired,    \* history: wamids whose row has expired
    senderOf,   \* Meta: the command whose template became this wamid
    command,    \* what each command is doing
    webhook,    \* what each webhook is doing
    results,    \* meet_template_sent and _failed events emitted to the CRM
    statuses,   \* meet_template_status events emitted to the CRM
    unnamed,    \* history: commands whose template Meta accepted with no wamid
    faulty      \* history: a call rejected, or the process restarted

store == <<rows, expired>>
crm   == <<results, statuses>>
vars  == <<store, senderOf, unnamed, command, webhook, crm, faulty>>

Points == {"queued", "send", "persist", "track", "tell", "fail", "end"}

CommandState == [pc : Points, msg : Messages \cup {None}]

WebhookState ==
    [pc : {"idle", "lookup", "tell"}, msg : Messages \cup {None},
     raw : TRACKED_WEBHOOK_STATUSES, spamCode : BOOLEAN,
     cand : Candidates \cup {None}]

Result == [cmd : Commands, result : {"sent", "failed"}]

Status == [cand : Candidates, msg : Messages,
           status : TRACKED_WEBHOOK_STATUSES \cup {"spam"}]

IdleWebhook == [pc |-> "idle", msg |-> None, raw |-> "sent",
                spamCode |-> FALSE, cand |-> None]

Init ==
    /\ rows = [m \in Messages |-> None] /\ expired = {}
    /\ senderOf = [m \in Messages |-> None] /\ unnamed = {}
    /\ command = [k \in Commands |-> [pc |-> "queued", msg |-> None]]
    /\ webhook = [w \in Webhooks |-> IdleWebhook]
    /\ results = {} /\ statuses = {}
    /\ faulty = FALSE

-----------------------------------------------------------------------------
(* The command.                                                            *)

At(k, point) == command[k].pc = point

Moves(k, point, m) ==
    command' = [command EXCEPT ![k] = [pc |-> point, msg |-> m]]

Goes(k, point) == Moves(k, point, command[k].msg)

\* A number, a template name and a code are needed.
TakeCommand(k) ==
    /\ At(k, "queued")
    /\ Goes(k, "send") \/ Goes(k, "fail")
    /\ UNCHANGED <<store, senderOf, unnamed, webhook, crm, faulty>>

\* Mutant: the refusal is not reported.
RefusedSilently(k) == Goes(k, "end")

\* msgTemplate rejects: the catch reports it.
Refused(k) == Goes(k, "fail")

\* Meta accepts the template and answers its wamid, or accepts it and names
\* none (the handler returns), or accepts it and the answer is lost; or Meta
\* refuses it.
SendTemplate(k) ==
    /\ At(k, "send")
    /\ \/ \E m \in Messages :
             /\ senderOf[m] = None
             /\ senderOf' = [senderOf EXCEPT ![m] = k]
             /\ \/ Moves(k, "persist", m) /\ UNCHANGED <<unnamed, faulty>>
                \/ /\ Goes(k, "end")
                   /\ unnamed' = unnamed \cup {k} /\ UNCHANGED faulty
                \/ Refused(k) /\ faulty' = TRUE /\ UNCHANGED unnamed
       \/ Refused(k) /\ UNCHANGED <<senderOf, unnamed, faulty>>
    /\ UNCHANGED <<store, webhook, crm>>

\* Mutant: what the row needs is checked only now, and its absence throws.
ChecksLate(k) == IF CandidateOf[k] = None THEN Goes(k, "end")
                 ELSE Goes(k, "track") \/ Goes(k, "fail")

\* Without a candidate there is nothing to report.
AfterPersisting(k) == Goes(k, IF CandidateOf[k] = None THEN "end" ELSE "track")

\* persistOutboundAfterSend, inside msgTemplate: its rejection looks like one
\* of the send.
PersistTemplate(k) ==
    /\ At(k, "persist")
    /\ \/ /\ AfterPersisting(k)
          /\ UNCHANGED faulty
       \/ /\ Refused(k)
          /\ faulty' = TRUE
    /\ UNCHANGED <<store, senderOf, unnamed, webhook, crm>>

\* Mutant: the row is found by the candidate, who then has only one.
TrackByCandidate(m, c) ==
    rows' = [n \in Messages |-> IF n = m THEN c
                                ELSE IF rows[n] = c THEN None ELSE rows[n]]

\* updateOne({whatsappMessageId}, {candidateId}, {upsert}).
Track(m, c) == rows' = [rows EXCEPT ![m] = c]

TrackTemplate(k) ==
    /\ At(k, "track")
    /\ \/ /\ Track(command[k].msg, CandidateOf[k])
          /\ Goes(k, "tell")
          /\ UNCHANGED faulty
       \/ /\ Refused(k)
          /\ faulty' = TRUE
          /\ UNCHANGED rows
    /\ UNCHANGED <<expired, senderOf, unnamed, webhook, crm>>

\* Mutant: emitToCrm does not catch.
EmissionThrows(k) == Goes(k, "fail")

\* A rejected emission is logged.
EmissionRejected(k) == Goes(k, "end")

\* emitToCrm: the event reaches the queue or not, and the emission may reject
\* in either case.
TellSent(k) ==
    /\ At(k, "tell")
    /\ \/ /\ Goes(k, "end")
          /\ results' = results \cup {[cmd |-> k, result |-> "sent"]}
          /\ UNCHANGED faulty
       \/ /\ EmissionRejected(k)
          /\ faulty' = TRUE
          /\ results' \in {results,
                           results \cup {[cmd |-> k, result |-> "sent"]}}
    /\ UNCHANGED <<store, senderOf, unnamed, webhook, statuses>>

\* reportMeetTemplateFailed: nobody to report it for, or emitToCrm, as above.
TellFailed(k) ==
    /\ At(k, "fail")
    /\ Goes(k, "end")
    /\ \/ /\ CandidateOf[k] = None
          /\ UNCHANGED <<results, faulty>>
       \/ /\ CandidateOf[k] # None
          /\ results' = results \cup {[cmd |-> k, result |-> "failed"]}
          /\ UNCHANGED faulty
       \/ /\ CandidateOf[k] # None
          /\ faulty' = TRUE
          /\ results' \in {results,
                           results \cup {[cmd |-> k, result |-> "failed"]}}
    /\ UNCHANGED <<store, senderOf, unnamed, webhook, statuses>>

-----------------------------------------------------------------------------
(* Meta's status webhooks: reportWebhookStatusIfTracked.                   *)

Becomes(w, r) == webhook' = [webhook EXCEPT ![w] = r]

\* Meta reports a status of a message it accepted, as soon as it likes, in
\* any order and repeatedly.
ReceiveStatus(w, m, raw, spamCode) ==
    /\ webhook[w].pc = "idle"
    /\ senderOf[m] # None
    /\ spamCode => raw = "failed"
    /\ Becomes(w, [pc |-> "lookup", msg |-> m, raw |-> raw,
                   spamCode |-> spamCode, cand |-> None])
    /\ UNCHANGED <<store, senderOf, unnamed, command, crm, faulty>>

\* Mutant: the filter is empty.
FoundAnywhere(m) == {rows[n] : n \in Messages}

\* findOne({whatsappMessageId}): the candidate, or None.
Found(m) == {rows[m]}

\* A status of a message that is not tracked is left to the other receivers.
Followed(w, c) ==
    IF c = None THEN Becomes(w, IdleWebhook)
    ELSE Becomes(w, [webhook[w] EXCEPT !.pc = "tell", !.cand = c])

LookUpStatus(w) ==
    /\ webhook[w].pc = "lookup"
    /\ \/ /\ \E c \in Found(webhook[w].msg) : Followed(w, c)
          /\ UNCHANGED faulty
       \/ /\ Becomes(w, IdleWebhook)
          /\ faulty' = TRUE
    /\ UNCHANGED <<store, senderOf, unnamed, command, crm>>

\* mapStatus: a failure with one of SPAM_ERROR_CODES is spam.
MapStatus(r) == IF r.raw = "failed" /\ r.spamCode THEN "spam" ELSE r.raw

TellStatus(w) ==
    /\ webhook[w].pc = "tell"
    /\ \/ /\ statuses' = statuses \cup
                {[cand |-> webhook[w].cand, msg |-> webhook[w].msg,
                  status |-> MapStatus(webhook[w])]}
          /\ UNCHANGED faulty
       \/ /\ faulty' = TRUE
          /\ UNCHANGED statuses
    /\ Becomes(w, IdleWebhook)
    /\ UNCHANGED <<store, senderOf, unnamed, command, results>>

-----------------------------------------------------------------------------

\* createdAt expires: the row goes, RECRUITING_MEET_MESSAGE_TTL_SECONDS later.
Expire(m) ==
    /\ rows[m] # None
    /\ rows' = [rows EXCEPT ![m] = None]
    /\ expired' = expired \cup {m}
    /\ UNCHANGED <<senderOf, unnamed, command, webhook, crm, faulty>>

\* A restart: commands and webhooks in flight are lost.
Crash ==
    /\ command' = [k \in Commands |->
           IF At(k, "queued") THEN command[k]
           ELSE [command[k] EXCEPT !.pc = "end"]]
    /\ webhook' = [w \in Webhooks |-> IdleWebhook]
    /\ faulty' = TRUE
    /\ UNCHANGED <<store, senderOf, unnamed, crm>>

Obey(k) ==
    \/ TakeCommand(k) \/ SendTemplate(k) \/ PersistTemplate(k)
    \/ TrackTemplate(k) \/ TellSent(k) \/ TellFailed(k)

Report(w) == LookUpStatus(w) \/ TellStatus(w)

Next ==
    \/ \E k \in Commands : Obey(k)
    \/ \E w \in Webhooks :
          \/ Report(w)
          \/ \E m \in Messages, raw \in RawStatuses, spamCode \in BOOLEAN :
                ReceiveStatus(w, m, raw, spamCode)
    \/ \E m \in Messages : Expire(m)
    \/ Crash

Spec == Init /\ [][Next]_vars

\* Commands in the queue are consumed and every call settles.
FairSpec ==
    /\ Spec
    /\ \A k \in Commands : WF_vars(Obey(k))
    /\ \A w \in Webhooks : WF_vars(Report(w))

-----------------------------------------------------------------------------

Told(k, result) == [cmd |-> k, result |-> result] \in results

\* The type of every variable.
TypeOK ==
    /\ rows \in [Messages -> Candidates \cup {None}]
    /\ expired \subseteq Messages
    /\ senderOf \in [Messages -> Commands \cup {None}]
    /\ unnamed \subseteq Commands
    /\ command \in [Commands -> CommandState]
    /\ webhook \in [Webhooks -> WebhookState]
    /\ results \subseteq Result
    /\ statuses \subseteq Status
    /\ faulty \in BOOLEAN

\* The CRM never hears that a template was sent and that it failed: the only
\* call after the event is caught by emitToCrm, not by the handler.
OneResult == \A k \in Commands : ~(Told(k, "sent") /\ Told(k, "failed"))

\* A template the CRM knows to be sent can be followed: its message is mapped
\* to the candidate for as long as the row lives.
SentIsTracked ==
    \A k \in Commands : Told(k, "sent") =>
        \E m \in Messages :
            /\ senderOf[m] = k
            /\ rows[m] = CandidateOf[k] \/ m \in expired

\* A status reaches the CRM with the candidate to whom the command sent the
\* message, whenever it comes.
StatusesAreOwn ==
    \A s \in statuses :
        /\ senderOf[s.msg] # None
        /\ CandidateOf[senderOf[s.msg]] = s.cand

\* A template that Meta accepted is never reported as failed, unless a call
\* has rejected or the process has restarted.
FailedMeansUnsent ==
    \A k \in Commands : \A m \in Messages :
        Told(k, "failed") /\ senderOf[m] = k => faulty

\* A command for a candidate gets a result, unless a call rejects, the process
\* restarts, or Meta accepts the template without naming a message: then the
\* handler returns, and the CRM hears of neither success nor failure.
ResultReported ==
    \A k \in Commands : CandidateOf[k] # None =>
        (At(k, "send") ~> \/ faulty \/ k \in unnamed
                          \/ Told(k, "sent") \/ Told(k, "failed"))

\* A webhook brings status raw of message m, which command k sent.
Brings(w, m, k, raw) ==
    /\ webhook[w].pc = "lookup" /\ webhook[w].msg = m
    /\ webhook[w].raw = raw /\ ~webhook[w].spamCode
    /\ senderOf[m] = k

\* The CRM knows status raw of m, if nothing has failed or expired.
Knows(m, raw) ==
    \/ faulty \/ m \in expired
    \/ \E s \in statuses : s.msg = m /\ s.status = raw

\* A status that comes after the CRM was told of the sending is reported,
\* unless something fails or the row has expired.
StatusReported ==
    \A w \in Webhooks, m \in Messages, k \in Commands, raw \in RawStatuses :
        Brings(w, m, k, raw) /\ Told(k, "sent") ~> Knows(m, raw)
=============================================================================
