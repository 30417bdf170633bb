------------------------ MODULE MCRecruitingCapture ------------------------
(***************************************************************************)
(* Small instances of RecruitingCapture for TLC.                           *)
(***************************************************************************)
EXTENDS RecruitingCapture, TLC

CONSTANTS ana, beto, phone1, cv, clip, other

\* One candidate.
PhoneOfAna == [c \in {ana} |-> phone1]

\* Two candidates who share a number (the same person applied twice).
PhoneOfBoth == [c \in {ana, beto} |-> phone1]

SenderIsOne == [m \in Media |-> phone1]
KindByName == [m \in Media |-> CASE m = cv -> "pdf" [] m = clip -> "video"
                                 [] OTHER -> "other"]

\* No action and no property of the serial run reads events or texts.
WithoutHistory == <<sessions, newer, handler, heard, faulty>>

HandlerSymmetry == Permutations(Handlers)
=============================================================================
