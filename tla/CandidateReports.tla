-------------------------- MODULE CandidateReports --------------------------
(***************************************************************************)
(* What the recruiting capture promises to the two parties outside it: the *)
(* CRM back end, which reads the events of the queue ws_ms_event, and the  *)
(* candidate, who reads the texts sent on WhatsApp.  No session, handler   *)
(* or failure is visible here: only which events and texts may exist, and  *)
(* which one may come after which.                                         *)
(*                                                                         *)
(* RecruitingCapture implements this specification (its PROPERTY           *)
(* Reports!Spec), whatever the interleaving of its handlers, the calls     *)
(* that fail and the crashes.                                              *)
(***************************************************************************)

CONSTANTS
    Candidates,     \* candidateId values
    PhoneOf,        \* the WhatsApp number of each candidate
    Media,          \* inbound media messages, by wamid
    SenderOf,       \* the number each media message came from
    KindOf,         \* "pdf", "video" or "other"
    Fields,         \* keys of the campaign's capture fields
    None            \* no value

VARIABLES
    events,         \* [action, cand, item] records emitted to the CRM
    texts           \* <<candidate, text>> pairs delivered on WhatsApp

Event(action, c, item) == [action |-> action, cand |-> c, item |-> item]

\* A CV of candidate c was announced to the CRM.
CvReported(c) ==
    \E m \in Media : Event("recruiting.cv_received", c, m) \in events

\* A presentation video of candidate c was announced to the CRM.
VideoReported(c) ==
    \E m \in Media : Event("recruiting.video_received", c, m) \in events

-----------------------------------------------------------------------------

Init == events = {} /\ texts = {}

Emit(action, c, item) ==
    /\ events' = events \cup {Event(action, c, item)}
    /\ UNCHANGED texts

FieldCaptured(c, f) == Emit("recruiting.field_captured", c, f)

DataComplete(c) == Emit("recruiting.data_complete", c, None)

InterviewAccepted(c) == Emit("recruiting.interview_accepted", c, None)

\* Only a PDF that came from the candidate's own number is reported as a CV.
CvReceived(c, m) ==
    /\ KindOf[m] = "pdf"
    /\ SenderOf[m] = PhoneOf[c]
    /\ Emit("recruiting.cv_received", c, m)

\* A video is reported after the CV, and after the candidate was thanked.
VideoReceived(c, m) ==
    /\ KindOf[m] = "video"
    /\ SenderOf[m] = PhoneOf[c]
    /\ CvReported(c)
    /\ <<c, "videoReceived">> \in texts
    /\ Emit("recruiting.video_received", c, m)

\* The video is requested, and the candidate thanked for it, after the CV.
SendText(c, t) ==
    /\ t \in {"videoRequest", "videoReceived"} => CvReported(c)
    /\ texts' = texts \cup {<<c, t>>}
    /\ UNCHANGED events

Next ==
    \E c \in Candidates :
        \/ \E f \in Fields : FieldCaptured(c, f)
        \/ DataComplete(c)
        \/ InterviewAccepted(c)
        \/ \E m \in Media : CvReceived(c, m) \/ VideoReceived(c, m)
        \/ \E t \in {"cvRequest", "videoRequest", "videoReceived"} :
               SendText(c, t)

Spec == Init /\ [][Next]_<<events, texts>>
=============================================================================
