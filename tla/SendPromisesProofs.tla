------------------------- MODULE SendPromisesProofs -------------------------
(***************************************************************************)
(* What the promises of SendPromises come to, proved for every number of   *)
(* requests and of effects.                                                *)
(***************************************************************************)
EXTENDS SendPromises, TLAPS

\* An attempt whose every effect has taken place is the only one, and nothing
\* fails after it, unless something slipped.
OnceInv ==
    \A c \in Calls :
        /\ ~slipped[c] => completed[c] =
              IF promise[c].steps > 0 /\ done[c] = promise[c].steps THEN 1 ELSE 0
        /\ answer[c] \in {"failure", "lost"} =>
              slipped[c] \/ done[c] < promise[c].steps
        /\ answer[c] = "success" /\ promise[c].vouches =>
              done[c] = promise[c].steps

Inv == TypeOK /\ OnceInv

LEMMA InitInv == Init => Inv
BY DEF Init, Inv, TypeOK, OnceInv, Answers, Promise

LEMMA ActInv ==
    ASSUME Inv, NEW c \in Calls, Act(c)
    PROVE  Inv'
<1> USE DEF Inv
<1>1. TypeOK'
  <2>1. done' \in [Calls -> Nat] /\ completed' \in [Calls -> Nat]
    BY DEF Act, Effect, TypeOK, Promise
  <2>2. answer' \in [Calls -> Answers]
    BY DEF Act, TypeOK, Answers
  <2> QED  BY <2>1, <2>2 DEF Act, TypeOK
<1>2. ASSUME NEW d \in Calls, d # c
      PROVE  /\ done'[d] = done[d] /\ completed'[d] = completed[d]
             /\ slipped'[d] = slipped[d] /\ answer'[d] = answer[d]
  BY <1>2 DEF Act, Effect, TypeOK
<1>3. promise' = promise
  BY DEF Act
<1>4. /\ answer'[c] \in {"none", "success", "failure", "refused"}
      /\ answer'[c] = "success" /\ promise[c].vouches =>
            done'[c] = promise[c].steps
      /\ answer'[c] = "failure" => slipped'[c] \/ done'[c] < promise[c].steps
  BY DEF Act, Justified, Open, TypeOK
<1>5. ~slipped'[c] => completed'[c] =
         IF promise[c].steps > 0 /\ done'[c] = promise[c].steps THEN 1 ELSE 0
  <2>1. ~slipped'[c] => ~slipped[c]
    BY DEF Act, TypeOK
  <2>2. CASE Effect(c)
    BY <2>1, <2>2 DEF Effect, TypeOK, OnceInv, Promise
  <2>3. CASE UNCHANGED <<done, completed>>
    BY <2>1, <2>3 DEF OnceInv
  <2> QED  BY <2>2, <2>3 DEF Act
<1> QED  BY <1>1, <1>2, <1>3, <1>4, <1>5 DEF OnceInv

LEMMA AgainInv ==
    ASSUME Inv, NEW c \in Calls, Again(c)
    PROVE  Inv'
BY DEF Inv, TypeOK, OnceInv, Again, Answers, Promise

LEMMA CrashInv ==
    ASSUME Inv, NEW lost \in SUBSET Calls, Crash(lost)
    PROVE  Inv'
BY DEF Inv, TypeOK, OnceInv, Crash, Answers, Promise

LEMMA NextInv == Inv /\ [Next]_vars => Inv'
<1> SUFFICES ASSUME Inv, [Next]_vars PROVE Inv'
  OBVIOUS
<1>1. CASE UNCHANGED vars
  BY <1>1 DEF vars, Inv, TypeOK, OnceInv
<1>2. CASE Next
  BY <1>2, ActInv, AgainInv, CrashInv DEF Next
<1> QED  BY <1>1, <1>2

\* A caller who asks again only after a failure has its request carried out
\* at most once, unless something slipped; and success is complete when the
\* answer vouches for it.  Every implementation inherits it.
THEOREM PromisesKept == Spec => [](AtMostOnce /\ SuccessIsComplete)
<1>1. Inv => AtMostOnce /\ SuccessIsComplete
  <2> SUFFICES ASSUME Inv, NEW c \in Calls
               PROVE  /\ completed[c] > 1 => slipped[c]
                      /\ answer[c] = "success" /\ promise[c].vouches =>
                            done[c] = promise[c].steps
    BY DEF AtMostOnce, SuccessIsComplete
  <2> QED  BY DEF Inv, OnceInv
<1> QED  BY <1>1, InitInv, NextInv, PTL DEF Spec
=============================================================================
