------------------------------ MODULE Outbound ------------------------------
(***************************************************************************)
(* Requests to send, from whichever queue or route, and what becomes of    *)
(* them: the handlers of SendHandlers, WhatsappCloudService, the copy of   *)
(* each message in the chat history (persistOutboundAfterSend) and the     *)
(* answer to the caller.  The code between two awaits is one action.       *)
(*                                                                         *)
(* Outside: Meta, which accepts a message or refuses it, whatever is in    *)
(* it; the queue; and callers, who ask again when told of a failure or of  *)
(* nothing.  Requests meet in the chat history only: what a purge takes    *)
(* out of it is in ChatStore, and not seen here.                           *)
(***************************************************************************)
EXTENDS SendHandlers, Naturals

CONSTANTS
    Calls,          \* the requests
    Requests,       \* what they may be
    AttemptsMax     \* bound: how often a caller asks

ASSUME OutboundAssumption ==
    /\ Requests \subseteq Request
    /\ AttemptsMax \in Nat

VARIABLES
    request,    \* what each caller asks for
    call,       \* where its handler is
    log,        \* the calls of this attempt that took effect, in order
    stored,     \* <<c, i>>: the message of step i of c was put in the history
    answer,     \* what the caller has been told of this attempt
    attempts,   \* history: how often the caller has asked
    completed,  \* history: attempts whose last step took effect
    slipped     \* history: a call took effect and rejected, or a restart

progress == <<log, stored, completed>>
vars == <<request, call, progress, answer, attempts, slipped>>

Points == {"queued", "resolve", "post", "persist", "perform", "end"}

CallState == [pc : Points, at : Nat]

\* What a step did; id says whether Meta gave the message an id.
Entry == [does : {"send", "emit", "start", "end", "purge"}, id : BOOLEAN]

Answers == {"none", "success", "failure", "refused", "lost"}

Queued == [pc |-> "queued", at |-> 0]

Init ==
    /\ request \in [Calls -> Requests]
    /\ call = [c \in Calls |-> Queued]
    /\ log = [c \in Calls |-> <<>>]
    /\ stored = {}
    /\ answer = [c \in Calls |-> "none"]
    /\ attempts = [c \in Calls |-> 1]
    /\ completed = [c \in Calls |-> 0]
    /\ slipped = [c \in Calls |-> FALSE]

-----------------------------------------------------------------------------

PlanOf(c) == Plan(request[c])
Steps(c)  == PlanOf(c).steps

At(c, point) == call[c].pc = point
Current(c)   == Steps(c)[call[c].at]

Goes(c, point, i) ==
    /\ call' = [call EXCEPT ![c] = [pc |-> point, at |-> i]]
    /\ UNCHANGED answer

Ends(c, a) ==
    /\ call' = [call EXCEPT ![c].pc = "end"]
    /\ answer' = [answer EXCEPT ![c] = a]

\* The handler reaches its step i, or returns.
Reaches(c, i) ==
    IF i > Len(Steps(c)) THEN Ends(c, "success")
    ELSE Goes(c, IF Steps(c)[i].does = "send" THEN "post" ELSE "perform", i)

\* Mutant: errors are logged and the handler answers as if nothing was.
RejectsSilently(c) == Ends(c, "success")

\* The await throws: caught by the handler or not.
Rejects(c) == Ends(c, Current(c).onError)

TakesEffect(c, id) ==
    /\ log' = [log EXCEPT ![c] = Append(@, [does |-> Current(c).does, id |-> id])]
    /\ completed' = [completed EXCEPT ![c] =
           IF call[c].at = Len(Steps(c)) THEN @ + 1 ELSE @]
    /\ UNCHANGED stored

Slips(c) == slipped' = [slipped EXCEPT ![c] = TRUE]

-----------------------------------------------------------------------------

\* Mutant: the handler does not answer a refusal.
RefusedWithoutAnswer(c) == Goes(c, "end", 0)

RefusedAtOnce(c) == Ends(c, "refused")

\* The synchronous part of the handler.
TakeRequest(c) ==
    /\ At(c, "queued")
    /\ \/ PlanOf(c).kind = "refused" /\ RefusedAtOnce(c)
       \/ PlanOf(c).kind = "ignored" /\ Ends(c, "success")
       \/ /\ PlanOf(c).kind = "runs"
          /\ IF PlanOf(c).chat THEN Goes(c, "resolve", 0) ELSE Reaches(c, 1)
    /\ UNCHANGED <<request, progress, attempts, slipped>>

\* getWaIdByChatId: 404 without the chat; the query may reject.
ResolveChat(c) ==
    /\ At(c, "resolve")
    /\ Reaches(c, 1) \/ Ends(c, "refused") \/ Ends(c, "failure")
    /\ UNCHANGED <<request, progress, attempts, slipped>>

\* extractFirstMessageId, where the handler looks.
AfterSending(c, id) ==
    IF id \/ Current(c).withoutId = "goes on" THEN Reaches(c, call[c].at + 1)
    ELSE Ends(c, Current(c).withoutId)

\* Mutant: the handler does not wait for the history.
NotPersisted(c, id) == AfterSending(c, id)

\* A message without an id is not stored.
Accepted(c, id) ==
    IF id /\ Current(c).stored THEN Goes(c, "persist", call[c].at)
    ELSE AfterSending(c, id)

\* The sending method, up to Meta's answer.  Meta accepts the message, with
\* or without an id, or refuses it, or accepts it and the answer is lost (the
\* connection, a body that is not JSON).
PostMessage(c) ==
    /\ At(c, "post")
    /\ \/ /\ Current(c).checks \subseteq request[c].has
          /\ \E id \in BOOLEAN : TakesEffect(c, id) /\ Accepted(c, id)
          /\ UNCHANGED slipped
       \/ /\ Rejects(c)
          /\ UNCHANGED <<progress, slipped>>
       \/ /\ Current(c).checks \subseteq request[c].has
          /\ TakesEffect(c, FALSE)
          /\ Slips(c)
          /\ Rejects(c)
    /\ UNCHANGED <<request, attempts>>

\* Mutant: a rejected persistence is logged.
PersistenceLogged(c) == AfterSending(c, TRUE)

\* It is inside the try of the sending method: the same as a refusal of Meta.
PersistenceRejects(c) == Rejects(c)

\* normalizeWaId leaves something of the recipient; that of a chat is one.
Numbered(r) == r.entry = "chats" \/ {"to", "digits"} \subseteq r.has

\* persistOutboundAfterSend: nothing for a recipient without digits; otherwise
\* two queries and the insertion, each of which may reject, the last one after
\* its effect too.
PersistMessage(c) ==
    /\ At(c, "persist")
    /\ \/ /\ ~Numbered(request[c])
          /\ AfterSending(c, TRUE)
          /\ UNCHANGED <<stored, slipped>>
       \/ /\ Numbered(request[c])
          /\ stored' = stored \cup {<<c, call[c].at>>}
          /\ AfterSending(c, TRUE)
          /\ UNCHANGED slipped
       \/ /\ Numbered(request[c])
          /\ stored' \in {stored, stored \cup {<<c, call[c].at>>}}
          /\ Slips(c)
          /\ PersistenceRejects(c)
    /\ UNCHANGED <<request, log, completed, attempts>>

\* An emission, or a call of the capture or of the store.
Perform(c) ==
    /\ At(c, "perform")
    /\ \/ /\ TakesEffect(c, FALSE)
          /\ Reaches(c, call[c].at + 1)
          /\ UNCHANGED slipped
       \/ /\ Rejects(c)
          /\ UNCHANGED <<progress, slipped>>
       \/ /\ TakesEffect(c, FALSE)
          /\ Slips(c)
          /\ Rejects(c)
    /\ UNCHANGED <<request, attempts>>

Running == {c \in Calls : call[c].pc \notin {"queued", "end"}}

\* A restart: handlers are lost, requests still in the queue are not.
Crash ==
    /\ Running # {}
    /\ call' = [c \in Calls |-> IF c \in Running
                                THEN [call[c] EXCEPT !.pc = "end"] ELSE call[c]]
    /\ answer' = [c \in Calls |-> IF c \in Running THEN "lost" ELSE answer[c]]
    /\ slipped' = [c \in Calls |-> slipped[c] \/ c \in Running]
    /\ UNCHANGED <<request, progress, attempts>>

\* The caller asks for the same again.
AskAgain(c) ==
    /\ answer[c] \in {"failure", "lost"}
    /\ attempts[c] < AttemptsMax
    /\ call' = [call EXCEPT ![c] = Queued]
    /\ log' = [log EXCEPT ![c] = <<>>]
    /\ stored' = {s \in stored : s[1] # c}
    /\ answer' = [answer EXCEPT ![c] = "none"]
    /\ attempts' = [attempts EXCEPT ![c] = @ + 1]
    /\ UNCHANGED <<request, completed, slipped>>

Handle(c) ==
    \/ TakeRequest(c) \/ ResolveChat(c) \/ PostMessage(c)
    \/ PersistMessage(c) \/ Perform(c)

Next == (\E c \in Calls : Handle(c) \/ AskAgain(c)) \/ Crash

Spec == Init /\ [][Next]_vars

\* Requests are taken from the queue, and every call settles.
FairSpec == Spec /\ \A c \in Calls : WF_vars(Handle(c))

-----------------------------------------------------------------------------

\* The type of every variable.
TypeOK ==
    /\ request \in [Calls -> Requests]
    /\ call \in [Calls -> CallState]
    /\ log \in [Calls -> Seq(Entry)]
    /\ stored \subseteq Calls \X Nat
    /\ answer \in [Calls -> Answers]
    /\ attempts \in [Calls -> Nat]
    /\ completed \in [Calls -> Nat]
    /\ slipped \in [Calls -> BOOLEAN]

\* The step after the message tells the CRM of it, or builds on it.
Reported(c, i) ==
    /\ i + 1 \in DOMAIN log[c]
    /\ log[c][i].does = "send" /\ log[c][i + 1].does \in {"emit", "start"}

\* The CRM is told of a message, and a capture starts after its opening, only
\* once the message was put in the chat history, however calls reject.  Only
\* one to which Meta gave no id, or sent to no number, is told of without.
ReportedIsStored ==
    \A c \in Calls : \A i \in DOMAIN log[c] :
        Reported(c, i) /\ log[c][i].id /\ Numbered(request[c])
            => <<c, i>> \in stored

\* Whatever a request is answered, every message that Meta accepted for it
\* with an id, on the lines whose chats are kept, was put in the history,
\* unless something slipped or the recipient has no digits.
SentIsInHistory ==
    \A c \in Calls : \A i \in DOMAIN log[c] :
        /\ answer[c] # "none"
        /\ Steps(c)[i].stored /\ log[c][i].id
        /\ ~slipped[c] /\ Numbered(request[c])
        => <<c, i>> \in stored

\* The routes validate nothing, leads' recipients are not looked at, and a
\* training without a link is announced with '-' for it.
Unchecked(r) ==
    CASE r.entry = "routes" -> Fields
      [] r.entry \in {"leads", "chats"} -> {"to"}
      [] r.entry = "crm" /\ r.action = "sent.training_message" -> {"link"}
      [] OTHER -> {}

\* A command that lacks a parameter of the message it asks for sends nothing,
\* in any of its variants: Meta would refuse the message, or send a hole.  The
\* link of sent.training_message is the only one that may be missing.
ParametersArePresent ==
    \A c \in Calls : \A i \in DOMAIN log[c] :
        Steps(c)[i].needs \subseteq request[c].has \cup Unchecked(request[c])

\* Every request that is taken is answered, or lost to a restart.
EveryRequestEnds == \A c \in Calls : call[c].pc = "queued" ~> answer[c] # "none"

-----------------------------------------------------------------------------
(* Refinement.                                                             *)

Promises == INSTANCE SendPromises WITH
    Calls     <- Calls,
    promise   <- [c \in Calls |-> [steps   |-> Len(Steps(c)),
                                   vouches |-> Vouches(PlanOf(c))]],
    done      <- [c \in Calls |-> Len(log[c])],
    completed <- completed,
    slipped   <- slipped,
    answer    <- answer

\* Every handler keeps what the callers rely on.
ImplementsPromises == Promises!Spec

\* A caller who asks again only after a failure has all of it done once, if
\* nothing slipped.
DoneAtMostOnce == Promises!AtMostOnce
=============================================================================
