----------------------------- MODULE SwitchBoard -----------------------------
(***************************************************************************)
(* What the automation screen promises about the switches of a house: a    *)
(* switch moves only to a position the user was asked about and confirmed. *)
(* How the question is put, how a confirmed command travels, how often it  *)
(* arrives and what the screen shows is left open.                         *)
(***************************************************************************)
CONSTANT Toggles

Position == [toggle : Toggles, on : BOOLEAN]

VARIABLES
  question,   \* the positions the user is being asked about
  confirmed,  \* the positions the user has confirmed so far
  switch      \* where the switches are

boardVars == <<question, confirmed, switch>>

Init ==
  /\ question = {}
  /\ confirmed = {}
  /\ switch \in [Toggles -> BOOLEAN]

\* Questions are put and withdrawn.
Ask ==
  /\ question' \in SUBSET Position
  /\ UNCHANGED <<confirmed, switch>>

\* One is answered; another dialog may still ask the same.
Confirm ==
  /\ \E p \in question :
       /\ question' \in {question, question \ {p}}
       /\ confirmed' = confirmed \union {p}
  /\ UNCHANGED switch

Move ==
  /\ \E p \in confirmed : switch' = [switch EXCEPT ![p.toggle] = p.on]
  /\ UNCHANGED <<question, confirmed>>

Next == Ask \/ Confirm \/ Move

Spec == Init /\ [][Next]_boardVars
=============================================================================
