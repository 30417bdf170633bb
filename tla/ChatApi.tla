------------------------------ MODULE ChatApi ------------------------------
(***************************************************************************)
(* The reading half of whatsapp-chat.controller.ts: the lists and the      *)
(* files.  The two share no state, so a behaviour is of one or the other:  *)
(* interleaving them would only multiply the states.                       *)
(***************************************************************************)
EXTENDS ChatPages, MediaReader

VARIABLE route      \* what the client reads: "lists" or "files"

apiVars == <<pageVars, mediaVars, route>>

Init == PagesInit /\ MediaInit /\ route \in {"lists", "files"}

Lists(action) == route = "lists" /\ action /\ UNCHANGED <<mediaVars, route>>
Files(action) == route = "files" /\ action /\ UNCHANGED <<pageVars, route>>

Next == Lists(PagesNext) \/ Files(MediaNext)

Spec == Init /\ [][Next]_apiVars

\* The client asks for the next page, and a request that is taken settles.
FairSpec ==
    /\ Spec
    /\ WF_apiVars(Lists(Page))
    /\ \A x \in Readers : WF_apiVars(Files(Serve(x)))
=============================================================================
