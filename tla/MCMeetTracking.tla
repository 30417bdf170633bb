--------------------------- MODULE MCMeetTracking ---------------------------
(***************************************************************************)
(* Small instances of MeetTracking for TLC.                                *)
(***************************************************************************)
EXTENDS MeetTracking

CONSTANTS ana, first, again, nobodys

\* Two templates for one candidate, one for nobody.
CandidateOfCommand == [k \in Commands |-> IF k = nobodys THEN None ELSE ana]
=============================================================================
