-------------------------- MODULE InboundReports ---------------------------
(***************************************************************************)
(* What the webhook promises about the payloads Meta delivers: the CRM     *)
(* hears of a message before anybody acts on it, and a payload is accepted *)
(* (HTTP 200) only when the CRM knows all it should know of it, since Meta *)
(* delivers an accepted payload no more.                                   *)
(*                                                                         *)
(* Webhook implements this specification (its PROPERTY Reports!Spec).      *)
(***************************************************************************)
EXTENDS Naturals, Sequences

CONSTANTS
    Messages,       \* inbound messages, by wamid
    Statuses,       \* delivery statuses of messages that were sent
    Payloads,       \* sequences of messages, then statuses
    DueOf,          \* the event each status must give rise to, or None
    None            \* no value

VARIABLES
    crm,            \* [action, item] events on the queue of the CRM
    answered,       \* messages that the person was answered
    accepted        \* payloads answered with 200

Event(action, x) == [action |-> action, item |-> x]

Received(m) == Event("user_message_received", m) \in crm

\* The CRM knows what it should of x.
Known(x) ==
    /\ x \in Messages => Received(x)
    /\ x \in Statuses /\ DueOf[x] # None => Event(DueOf[x], x) \in crm

-----------------------------------------------------------------------------

Init == crm = {} /\ answered = {} /\ accepted = {}

Emit(action, x) ==
    /\ crm' = crm \cup {Event(action, x)}
    /\ UNCHANGED <<answered, accepted>>

Receive(m) == Emit("user_message_received", m)

\* What a message leads to: a slot, a call to action, an agent's turn.
Follow(action, m) == Received(m) /\ Emit(action, m)

ReportStatus(s) == DueOf[s] # None /\ Emit(DueOf[s], s)

Answer(m) ==
    /\ Received(m)
    /\ answered' = answered \cup {m}
    /\ UNCHANGED <<crm, accepted>>

Accept(p) ==
    /\ \A i \in DOMAIN p : Known(p[i])
    /\ accepted' = accepted \cup {p}
    /\ UNCHANGED <<crm, answered>>

Next ==
    \/ \E m \in Messages :
          \/ Receive(m) \/ Answer(m)
          \/ \E action \in {"training_slot_selected", "cta_clicked",
                            "clicked_call_button",
                            "deepseek_lotes_chat_turn"} : Follow(action, m)
    \/ \E s \in Statuses : ReportStatus(s)
    \/ \E p \in Payloads : Accept(p)

Spec == Init /\ [][Next]_<<crm, answered, accepted>>
=============================================================================
