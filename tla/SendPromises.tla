---------------------------- MODULE SendPromises ----------------------------
(***************************************************************************)
(* What a caller of this service may rely on when it asks for messages to  *)
(* be sent, whoever it is (the CRM, the customers service, an HTTP client) *)
(* and whichever of the handlers answers it.  Outbound implements this.    *)
(*                                                                         *)
(* A request stands for a number of effects, to take place in order.  An   *)
(* answer says something about them, unless something slipped: an effect   *)
(* took place and the service was told that it had not, or could not tell. *)
(***************************************************************************)
EXTENDS Naturals

CONSTANT Calls      \* the requests

VARIABLES
    promise,    \* how many effects each stands for, and whether its answer
                \* of success vouches for all of them
    done,       \* how many have taken place in this attempt
    completed,  \* attempts in which all of them have
    slipped,    \* whether something slipped, in any attempt
    answer      \* what the caller has been told of this attempt

vars == <<promise, done, completed, slipped, answer>>

Answers == {"none", "success", "failure", "refused", "lost"}

Promise == [steps : Nat, vouches : BOOLEAN]

TypeOK ==
    /\ promise \in [Calls -> Promise]
    /\ done \in [Calls -> Nat]
    /\ completed \in [Calls -> Nat]
    /\ slipped \in [Calls -> BOOLEAN]
    /\ answer \in [Calls -> Answers]

Init ==
    /\ promise \in [Calls -> Promise]
    /\ done = [c \in Calls |-> 0]
    /\ completed = [c \in Calls |-> 0]
    /\ slipped = [c \in Calls |-> FALSE]
    /\ answer = [c \in Calls |-> "none"]

Open(c) == answer[c] = "none"

\* The next effect takes place.
Effect(c) ==
    /\ done[c] < promise[c].steps
    /\ done' = [done EXCEPT ![c] = @ + 1]
    /\ completed' = [completed EXCEPT ![c] =
           IF done[c] + 1 = promise[c].steps THEN @ + 1 ELSE @]

\* What is true when the caller is told a.
Justified(c, a) ==
    /\ a = "success" /\ promise[c].vouches => done[c] = promise[c].steps
    /\ a = "failure" => slipped[c] \/ done[c] < promise[c].steps
    /\ a = "refused" => done[c] = 0

\* A step of the handler: an effect or none, and an answer or none yet.
Act(c) ==
    /\ Open(c)
    /\ Effect(c) \/ UNCHANGED <<done, completed>>
    /\ slipped' \in {slipped, [slipped EXCEPT ![c] = TRUE]}
    /\ \/ UNCHANGED answer
       \/ \E a \in {"success", "failure", "refused"} :
             /\ answer' = [answer EXCEPT ![c] = a]
             /\ Justified(c, a)'
    /\ UNCHANGED promise

\* A restart: callers who wait for an answer get none, and cannot tell.
Crash(lost) ==
    /\ \A c \in lost : Open(c)
    /\ slipped' = [c \in Calls |-> slipped[c] \/ c \in lost]
    /\ answer' = [c \in Calls |-> IF c \in lost THEN "lost" ELSE answer[c]]
    /\ UNCHANGED <<promise, done, completed>>

\* A caller who was told of a failure, or nothing, asks again.
Again(c) ==
    /\ answer[c] \in {"failure", "lost"}
    /\ done' = [done EXCEPT ![c] = 0]
    /\ answer' = [answer EXCEPT ![c] = "none"]
    /\ UNCHANGED <<promise, completed, slipped>>

Next ==
    \/ \E c \in Calls : Act(c) \/ Again(c)
    \/ \E lost \in SUBSET Calls : Crash(lost)

Spec == Init /\ [][Next]_vars

-----------------------------------------------------------------------------

\* A caller who asks again only after a failure has its request carried out
\* at most once, unless something slipped.
AtMostOnce == \A c \in Calls : completed[c] > 1 => slipped[c]

\* Success means that all was done, when the answer vouches for it.
SuccessIsComplete ==
    \A c \in Calls : answer[c] = "success" /\ promise[c].vouches =>
        done[c] = promise[c].steps
=============================================================================
