------------------------ MODULE HomeAutomationProofs ------------------------
(***************************************************************************)
(* The invariants of the panel and of the channel, for any number of       *)
(* toggles, fingers, parked instances, commands, ports and copies; and of  *)
(* HomeAutomation, which behaves as its two components do: their           *)
(* invariants hold in it, and from them follow the truth of the screen and *)
(* that the whole implements SwitchBoard.                                  *)
(***************************************************************************)
EXTENDS HomeAutomation, TLAPS

-----------------------------------------------------------------------------
(***************************************************************************)
(* The panel.                                                              *)
(***************************************************************************)

\* No flip is pending between two handlers: the shared field is down.
FlagDown ==
  /\ visible => ~panel.toggledProgrammatically
  /\ \A i \in DOMAIN parked : ~parked[i].toggledProgrammatically

\* Until the first tap on a new view, a position that is not confirmed is
\* known to have drifted, even the one an open dialog asks about.
UntappedBacked ==
  visible /\ ~tapped =>
    \A t \in Toggle : panel.checked[t] # confirmed[t] => t \in drifted

\* A question a tap opened about a position already confirmed is about a
\* toggle that had drifted: declining it cannot move a settled toggle.
DeclineBacked ==
  /\ visible /\ panel.showing /\ tapped
  /\ panel.checked[panel.target.toggle] = confirmed[panel.target.toggle]
  => panel.target.toggle \in drifted

\* The inductive invariant.
PanelInv ==
  /\ PanelTypeOK
  /\ FlagDown
  /\ touching # {} \/ panel.showing => visible
  /\ QuestionMatchesDisplay
  /\ UntappedBacked
  /\ DeclineBacked
  /\ PositionsBacked

-----------------------------------------------------------------------------
(***************************************************************************)
(* What the helpers return.                                                *)
(***************************************************************************)

\* A new instance is well formed, with everything off and nothing asked.
LEMMA NewPanelType ==
  /\ NewPanel \in Panels
  /\ AllOff \in [Toggle -> BOOLEAN]
  /\ ~NewPanel.toggledProgrammatically
  /\ ~NewPanel.showing
  /\ NewPanel.checked = AllOff
BY NumTogglesAssumption DEF NewPanel, Panels, NoTarget, AllOff

\* toggle() flips exactly one position; its listener then either swallows the
\* raised field or asks about the new position.
LEMMA ToggledEffect ==
  ASSUME NEW p \in Panels, NEW t \in Toggle
  PROVE  /\ Toggled(p, t) \in Panels
         /\ Toggled(p, t).checked = [p.checked EXCEPT ![t] = ~@]
         /\ ~Toggled(p, t).toggledProgrammatically
         /\ p.toggledProgrammatically =>
              Toggled(p, t).showing = p.showing /\ Toggled(p, t).target = p.target
         /\ ~p.toggledProgrammatically =>
              /\ Toggled(p, t).showing
              /\ Toggled(p, t).target = [toggle |-> t, on |-> Toggled(p, t).checked[t]]
<1> DEFINE q == [p EXCEPT !.checked[t] = ~@]
<1>1. /\ q \in Panels
      /\ q.checked = [p.checked EXCEPT ![t] = ~@]
      /\ q.toggledProgrammatically = p.toggledProgrammatically
      /\ q.showing = p.showing
      /\ q.target = p.target
  BY DEF Panels
<1>2. t \in 0..NumToggles /\ q.checked[t] \in BOOLEAN
  BY <1>1, NumTogglesAssumption DEF Panels, Toggle
<1>3. Toggled(p, t) = CheckedChanged(q, t)
  BY DEF Toggled
<1> HIDE DEF q
<1>4. CASE p.toggledProgrammatically
  <2>1. Toggled(p, t) = [q EXCEPT !.toggledProgrammatically = FALSE]
    BY <1>1, <1>3, <1>4 DEF CheckedChanged
  <2> QED BY <1>1, <1>4, <2>1 DEF Panels
<1>5. CASE ~p.toggledProgrammatically
  <2>1. Toggled(p, t) = [q EXCEPT !.showing = TRUE,
                                  !.target = [toggle |-> t, on |-> q.checked[t]]]
    BY <1>1, <1>3, <1>5 DEF CheckedChanged
  <2>2. [toggle |-> t, on |-> q.checked[t]] \in [toggle : 0..NumToggles, on : BOOLEAN]
    BY <1>2
  <2>3. /\ Toggled(p, t) \in Panels
        /\ Toggled(p, t).checked = q.checked
        /\ Toggled(p, t).toggledProgrammatically = FALSE
        /\ Toggled(p, t).showing
        /\ Toggled(p, t).target = [toggle |-> t, on |-> q.checked[t]]
    BY <1>1, <1>5, <2>1, <2>2 DEF Panels
  <2> QED BY <1>1, <1>5, <2>3
<1> QED BY <1>4, <1>5

\* Declining closes the dialog, flips its toggle back and asks nothing.
LEMMA DeclinedEffect ==
  ASSUME NEW p \in Panels, p.target.toggle \in Toggle
  PROVE  /\ Declined(p) \in Panels
         /\ Declined(p).checked = [p.checked EXCEPT ![p.target.toggle] = ~@]
         /\ ~Declined(p).toggledProgrammatically
         /\ ~Declined(p).showing
<1> DEFINE q == [Dismissed(p) EXCEPT !.toggledProgrammatically = TRUE]
<1>1. /\ q \in Panels
      /\ q.checked = p.checked
      /\ q.toggledProgrammatically
      /\ ~q.showing
  BY DEF Dismissed, Panels
<1>2. PICK t \in Toggle : t = p.target.toggle
  OBVIOUS
<1>3. Declined(p) = Toggled(q, t)
  BY <1>2 DEF Declined
<1> HIDE DEF q
<1>4. /\ Toggled(q, t) \in Panels
      /\ Toggled(q, t).checked = [q.checked EXCEPT ![t] = ~@]
      /\ ~Toggled(q, t).toggledProgrammatically
      /\ Toggled(q, t).showing = q.showing
  BY <1>1, ToggledEffect
<1>5. Declined(p).checked = [p.checked EXCEPT ![p.target.toggle] = ~@]
  BY <1>1, <1>2, <1>3, <1>4
<1> QED BY <1>1, <1>3, <1>4, <1>5

\* A restored view shows the saved positions; if it asks, then about a toggle
\* that is on.
LEMMA RestoreEffect ==
  ASSUME NEW before \in [Toggle -> BOOLEAN], RestoreViewState(before, FALSE)
  PROVE  /\ panel' \in Panels
         /\ panel'.checked = before
         /\ ~panel'.toggledProgrammatically
         /\ panel'.showing => /\ panel'.target.toggle \in Toggle
                              /\ panel'.checked[panel'.target.toggle] = panel'.target.on
<1> DEFINE quiet == [NewPanel EXCEPT !.checked = before,
                                     !.toggledProgrammatically = FALSE]
<1>1. /\ quiet \in Panels
      /\ quiet.checked = before
      /\ ~quiet.toggledProgrammatically
      /\ ~quiet.showing
  BY NewPanelType DEF Panels
<1>2. \/ panel' = quiet
      \/ \E last \in Toggle :
           /\ before[last]
           /\ panel' = [quiet EXCEPT !.showing = TRUE,
                                     !.target = [toggle |-> last, on |-> TRUE]]
  BY DEF RestoreViewState
<1> HIDE DEF quiet
<1>3. CASE panel' = quiet
  BY <1>1, <1>3
<1>4. ASSUME NEW last \in Toggle, before[last],
             panel' = [quiet EXCEPT !.showing = TRUE,
                                    !.target = [toggle |-> last, on |-> TRUE]]
      PROVE  /\ panel' \in Panels
             /\ panel'.checked = before
             /\ ~panel'.toggledProgrammatically
             /\ panel'.target.toggle \in Toggle
             /\ panel'.checked[panel'.target.toggle] = panel'.target.on
  <2>1. last \in 0..NumToggles /\ before[last] = TRUE
    BY <1>4, NumTogglesAssumption DEF Toggle
  <2> QED BY <1>1, <1>4, <2>1 DEF Panels
<1> QED BY <1>2, <1>3, <1>4

\* Dismissing changes nothing but the dialog.
LEMMA DismissedEffect ==
  ASSUME NEW p \in Panels
  PROVE  /\ Dismissed(p) \in Panels
         /\ Dismissed(p).checked = p.checked
         /\ Dismissed(p).toggledProgrammatically = p.toggledProgrammatically
         /\ Dismissed(p).target = p.target
         /\ ~Dismissed(p).showing
BY DEF Dismissed, Panels

\* Whatever becomes of an open dialog, the positions that are not confirmed are
\* known to be adrift.
LEMMA UnansweredBacks ==
  ASSUME PanelInv, visible
  PROVE  /\ Unanswered \in SUBSET Toggle
         /\ \A u \in Toggle : panel.checked[u] # confirmed[u] => u \in Unanswered
<1>1. panel.showing => panel.target.toggle \in Toggle
  BY DEF PanelInv, QuestionMatchesDisplay
<1>2. drifted \in SUBSET Toggle /\ tapped \in BOOLEAN
  BY DEF PanelInv, PanelTypeOK
<1>3. ASSUME NEW u \in Toggle, panel.checked[u] # confirmed[u]
      PROVE  u \in Unanswered
  <2>1. CASE tapped
    BY <1>3, <2>1 DEF PanelInv, PositionsBacked, Unanswered
  <2>2. CASE ~tapped
    BY <1>3, <2>2 DEF PanelInv, UntappedBacked, Unanswered
  <2> QED BY <2>1, <2>2, <1>2
<1> QED BY <1>1, <1>2, <1>3 DEF Unanswered

-----------------------------------------------------------------------------
(***************************************************************************)
(* The invariant holds initially and every action preserves it.            *)
(***************************************************************************)

\* The first view satisfies the invariant.
LEMMA InitPanelInv == PanelInit => PanelInv
<1> SUFFICES ASSUME PanelInit PROVE PanelInv
  OBVIOUS
<1>1. parked \in Seq(Instances)
  BY DEF PanelInit
<1>2. PanelTypeOK
  BY <1>1, NewPanelType DEF PanelInit, PanelTypeOK
<1>3. /\ FlagDown /\ QuestionMatchesDisplay /\ UntappedBacked
      /\ DeclineBacked /\ PositionsBacked
  BY NewPanelType DEF PanelInit, FlagDown, QuestionMatchesDisplay, UntappedBacked,
     DeclineBacked, PositionsBacked
<1> QED BY <1>2, <1>3 DEF PanelInv, PanelInit

\* A tap: the toggle flips and the dialog asks about it.
LEMMA TouchUpInv ==
  ASSUME PanelInv, NEW t \in Toggle, TouchUp(t)
  PROVE  /\ PanelInv'
         /\ panel'.showing
         /\ panel'.target = [toggle |-> t, on |-> panel'.checked[t]]
<1> USE DEF PanelInv
<1>1. panel \in Panels /\ visible /\ ~panel.toggledProgrammatically
  BY DEF PanelTypeOK, TouchUp, FlagDown
<1>2. /\ panel' \in Panels
      /\ panel'.checked = [panel.checked EXCEPT ![t] = ~@]
      /\ ~panel'.toggledProgrammatically
      /\ panel'.showing
      /\ panel'.target = [toggle |-> t, on |-> panel'.checked[t]]
  BY <1>1, ToggledEffect DEF TouchUp
<1>3. Unanswered \in SUBSET Toggle
  BY <1>1, UnansweredBacks
<1>4. PanelTypeOK'
  BY <1>2, <1>3 DEF PanelTypeOK, TouchUp
<1>5. FlagDown' /\ QuestionMatchesDisplay' /\ UntappedBacked'
  BY <1>2 DEF FlagDown, QuestionMatchesDisplay, UntappedBacked, TouchUp
<1>6. PositionsBacked'
  <2>1. ASSUME NEW u \in Toggle, u # t, panel'.checked[u] # confirmed'[u]
        PROVE  u \in drifted'
    <3>1. panel.checked[u] # confirmed[u]
      BY <1>1, <1>2, <2>1 DEF Panels, TouchUp
    <3> QED BY <1>1, <3>1, UnansweredBacks DEF TouchUp
  <2>2. \A i \in DOMAIN parked' : \A u \in Toggle :
          parked'[i].checked[u] # parked'[i].confirmed[u] => u \in parked'[i].drifted
    BY DEF PositionsBacked, TouchUp
  <2> QED BY <1>2, <2>1, <2>2 DEF PositionsBacked
<1>7. DeclineBacked'
  <2> SUFFICES ASSUME panel'.checked[t] = confirmed'[t]
               PROVE  t \in drifted'
    BY <1>2 DEF DeclineBacked
  <2>1. panel.checked[t] # confirmed[t]
    BY <1>1, <1>2 DEF Panels, TouchUp
  <2> QED BY <1>1, <2>1, UnansweredBacks DEF TouchUp
<1> QED BY <1>1, <1>2, <1>4, <1>5, <1>6, <1>7 DEF TouchUp

\* "Toggle" confirms the position the screen shows.
LEMMA ClickToggleInv ==
  ASSUME PanelInv, ClickToggle
  PROVE  PanelInv'
<1> USE DEF PanelInv
<1>1. /\ panel \in Panels /\ visible /\ panel.showing
      /\ panel.target.toggle \in Toggle
      /\ panel.checked[panel.target.toggle] = panel.target.on
  BY DEF PanelTypeOK, ClickToggle, QuestionMatchesDisplay
<1>2. /\ panel' \in Panels
      /\ panel'.checked = panel.checked
      /\ panel'.toggledProgrammatically = panel.toggledProgrammatically
      /\ ~panel'.showing
  BY <1>1, DismissedEffect DEF ClickToggle
<1>3. panel.target.on \in BOOLEAN
  BY <1>1 DEF Panels
<1>4. PanelTypeOK'
  BY <1>1, <1>2, <1>3 DEF PanelTypeOK, ClickToggle
<1>5. FlagDown' /\ QuestionMatchesDisplay'
  BY <1>2 DEF FlagDown, QuestionMatchesDisplay, ClickToggle
<1>6. \A u \in Toggle : u # panel.target.toggle =>
        confirmed'[u] = confirmed[u] /\ (u \in drifted <=> u \in drifted')
  BY DEF ClickToggle, PanelTypeOK
<1>7. confirmed'[panel.target.toggle] = panel'.checked[panel.target.toggle]
  BY <1>1, <1>2 DEF ClickToggle, PanelTypeOK
<1>8. UntappedBacked'
  BY <1>1, <1>2, <1>6, <1>7 DEF UntappedBacked, ClickToggle
<1>9. PositionsBacked'
  BY <1>1, <1>2, <1>6, <1>7 DEF PositionsBacked, ClickToggle
<1> QED BY <1>2, <1>4, <1>5, <1>8, <1>9 DEF ClickToggle, DeclineBacked

\* Declining puts the toggle back where it was before the question.
LEMMA ClickNotToggleInv ==
  ASSUME PanelInv, ClickNotToggle
  PROVE  PanelInv'
<1> USE DEF PanelInv
<1>1. /\ panel \in Panels /\ visible /\ panel.showing
      /\ panel.target.toggle \in Toggle
  BY DEF PanelTypeOK, ClickNotToggle, QuestionMatchesDisplay
<1>2. /\ panel' \in Panels
      /\ panel'.checked = [panel.checked EXCEPT ![panel.target.toggle] = ~@]
      /\ ~panel'.toggledProgrammatically
      /\ ~panel'.showing
  BY <1>1, DeclinedEffect DEF ClickNotToggle
<1>3. PanelTypeOK'
  BY <1>1, <1>2 DEF PanelTypeOK, ClickNotToggle
<1>4. FlagDown' /\ QuestionMatchesDisplay' /\ DeclineBacked'
  BY <1>2 DEF FlagDown, QuestionMatchesDisplay, DeclineBacked, ClickNotToggle
<1>5. ASSUME NEW u \in Toggle, panel'.checked[u] # confirmed'[u]
      PROVE  u \in drifted'
  <2>1. CASE u # panel.target.toggle
    <3>1. panel.checked[u] # confirmed[u]
      BY <1>1, <1>2, <1>5, <2>1 DEF Panels, ClickNotToggle
    <3> QED BY <1>1, <2>1, <3>1 DEF PositionsBacked, ClickNotToggle
  <2>2. CASE u = panel.target.toggle
    <3>1. panel.checked[u] = confirmed[u]
      BY <1>1, <1>2, <1>5, <2>2 DEF Panels, PanelTypeOK, ClickNotToggle
    <3> QED BY <1>1, <2>2, <3>1 DEF DeclineBacked, ClickNotToggle
  <2> QED BY <2>1, <2>2
<1>6. UntappedBacked' /\ PositionsBacked'
  BY <1>5 DEF UntappedBacked, PositionsBacked, ClickNotToggle
<1> QED BY <1>3, <1>4, <1>6 DEF ClickNotToggle

\* The Back key closes the dialog over the flipped toggle.
LEMMA PressBackInv ==
  ASSUME PanelInv, PressBack
  PROVE  PanelInv'
<1> USE DEF PanelInv
<1>1. /\ panel \in Panels /\ visible /\ panel.showing
      /\ panel.target.toggle \in Toggle
  BY DEF PanelTypeOK, PressBack, QuestionMatchesDisplay
<1>2. /\ panel' \in Panels
      /\ panel'.checked = panel.checked
      /\ panel'.toggledProgrammatically = panel.toggledProgrammatically
      /\ ~panel'.showing
  BY <1>1, DismissedEffect DEF PressBack
<1>3. PanelTypeOK'
  BY <1>1, <1>2, UnansweredBacks DEF PanelTypeOK, PressBack
<1>4. FlagDown' /\ QuestionMatchesDisplay' /\ DeclineBacked'
  BY <1>2 DEF FlagDown, QuestionMatchesDisplay, DeclineBacked, PressBack
<1>5. ASSUME NEW u \in Toggle, panel'.checked[u] # confirmed'[u]
      PROVE  u \in drifted'
  BY <1>1, <1>2, <1>5, UnansweredBacks DEF PressBack
<1>6. UntappedBacked' /\ PositionsBacked'
  BY <1>5 DEF UntappedBacked, PositionsBacked, PressBack
<1> QED BY <1>2, <1>3, <1>4, <1>6 DEF PressBack

\* Leaving: what is parked is backed, even under an open dialog.
LEMMA NavigateAwayInv ==
  ASSUME PanelInv, NEW keep \in BOOLEAN, NavigateAway(keep)
  PROVE  PanelInv'
<1> USE DEF PanelInv
<1> DEFINE inst == [checked |-> panel.checked,
                    toggledProgrammatically |-> panel.toggledProgrammatically,
                    confirmed |-> confirmed, drifted |-> Unanswered]
<1>1. /\ panel \in Panels /\ visible
      /\ ~panel.toggledProgrammatically
      /\ parked \in Seq(Instances)
  BY DEF PanelTypeOK, NavigateAway, FlagDown
<1>2. inst \in Instances
  BY <1>1, UnansweredBacks DEF Panels, Instances, PanelTypeOK
<1>3. \A u \in Toggle : inst.checked[u] # inst.confirmed[u] => u \in inst.drifted
  BY <1>1, UnansweredBacks
<1>4. ~inst.toggledProgrammatically
  BY <1>1
<1>5. parked' = IF keep THEN Append(parked, inst) ELSE parked
  BY DEF NavigateAway
<1> HIDE DEF inst
<1>6. parked' \in Seq(Instances)
  BY <1>1, <1>2, <1>5
<1>7. \A i \in DOMAIN parked' : parked'[i] = inst \/ (i \in DOMAIN parked /\ parked'[i] = parked[i])
  BY <1>1, <1>2, <1>5
<1>8. PanelTypeOK'
  <2>1. panel.showing => [target |-> panel.target, kept |-> keep] \in Questions
    BY <1>1 DEF Questions, Panels, QuestionMatchesDisplay
  <2>2. leftover' \subseteq Questions
    BY <2>1 DEF PanelTypeOK, NavigateAway
  <2> QED BY <1>6, <2>2, NewPanelType DEF PanelTypeOK, NavigateAway, NoView
<1>9. FlagDown'
  BY <1>4, <1>7 DEF FlagDown, NavigateAway
<1>10. PositionsBacked'
  BY <1>3, <1>7 DEF PositionsBacked, NavigateAway
<1>11. QuestionMatchesDisplay' /\ UntappedBacked' /\ DeclineBacked'
  BY DEF QuestionMatchesDisplay, UntappedBacked, DeclineBacked, NavigateAway
<1> QED BY <1>8, <1>9, <1>10, <1>11, NewPanelType DEF NavigateAway, NoView

\* A restored instance brings its own history back; nothing is tapped yet.
LEMMA ReturnInv ==
  ASSUME PanelInv, Return
  PROVE  PanelInv'
<1> USE DEF PanelInv
<1> DEFINE back == parked[Len(parked)]
<1>1. parked \in Seq(Instances) /\ Len(parked) \in DOMAIN parked
  BY DEF PanelTypeOK, Return
<1>2. back \in Instances /\ ~back.toggledProgrammatically
  BY <1>1 DEF FlagDown
<1>3. \A u \in Toggle : back.checked[u] # back.confirmed[u] => u \in back.drifted
  BY <1>1 DEF PositionsBacked
<1>4. /\ RestoreViewState(back.checked, back.toggledProgrammatically)
      /\ confirmed' = back.confirmed
      /\ drifted' = back.drifted
  BY DEF Return
<1> HIDE DEF back
<1>5. back.toggledProgrammatically = FALSE /\ back.checked \in [Toggle -> BOOLEAN]
  BY <1>2 DEF Instances
<1>6. /\ panel' \in Panels
      /\ panel'.checked = back.checked
      /\ ~panel'.toggledProgrammatically
      /\ panel'.showing => /\ panel'.target.toggle \in Toggle
                           /\ panel'.checked[panel'.target.toggle] = panel'.target.on
  <2>1. RestoreViewState(back.checked, FALSE)
    BY <1>4, <1>5
  <2> QED BY <1>5, <2>1, RestoreEffect
<1>7. /\ parked' = SubSeq(parked, 1, Len(parked) - 1)
      /\ parked' \in Seq(Instances)
      /\ \A i \in DOMAIN parked' : i \in DOMAIN parked /\ parked'[i] = parked[i]
  BY <1>1 DEF Return
<1>8. PanelTypeOK'
  BY <1>2, <1>4, <1>6, <1>7 DEF PanelTypeOK, Return, Instances
<1>9. FlagDown' /\ QuestionMatchesDisplay'
  BY <1>6, <1>7 DEF FlagDown, QuestionMatchesDisplay
<1>10. UntappedBacked' /\ DeclineBacked'
  BY <1>3, <1>4, <1>6 DEF UntappedBacked, DeclineBacked, Return
<1>11. PositionsBacked'
  BY <1>3, <1>4, <1>6, <1>7 DEF PositionsBacked
<1> QED BY <1>8, <1>9, <1>10, <1>11 DEF Return

\* Making the parked instances anew keeps what they say of positions.
LEMMA ParkedAnewEffect ==
  ASSUME parked \in Seq(Instances), ParkedAnew
  PROVE  /\ parked' \in Seq(Instances)
         /\ DOMAIN parked' = DOMAIN parked
         /\ \A i \in DOMAIN parked :
              /\ ~parked'[i].toggledProgrammatically
              /\ parked'[i].checked = parked[i].checked
              /\ parked'[i].confirmed = parked[i].confirmed
              /\ parked'[i].drifted = parked[i].drifted
<1>1. \A i \in DOMAIN parked : parked[i] \in Instances
  OBVIOUS
<1>2. /\ DOMAIN parked' = DOMAIN parked
      /\ \A i \in DOMAIN parked :
           /\ parked'[i] \in Instances
           /\ ~parked'[i].toggledProgrammatically
           /\ parked'[i].checked = parked[i].checked
           /\ parked'[i].confirmed = parked[i].confirmed
           /\ parked'[i].drifted = parked[i].drifted
  BY <1>1 DEF ParkedAnew, Instances
<1>3. parked' \in [1..Len(parked) -> Instances] /\ Len(parked) \in Nat
  BY <1>2 DEF ParkedAnew
<1> QED BY <1>2, <1>3

\* A configuration change keeps the positions and forgets the question.
LEMMA RecreateInv ==
  ASSUME PanelInv, Recreate
  PROVE  PanelInv'
<1> USE DEF PanelInv
<1>1. panel \in Panels /\ visible /\ parked \in Seq(Instances)
  BY DEF PanelTypeOK, Recreate
<1>2. /\ panel' \in Panels
      /\ panel'.checked = panel.checked
      /\ ~panel'.toggledProgrammatically
      /\ panel'.showing => /\ panel'.target.toggle \in Toggle
                           /\ panel'.checked[panel'.target.toggle] = panel'.target.on
  <2>1. panel.checked \in [Toggle -> BOOLEAN] /\ RestoreViewState(panel.checked, FALSE)
    BY <1>1 DEF Panels, Recreate
  <2> QED BY <2>1, RestoreEffect
<1>3. PanelTypeOK'
  BY <1>1, <1>2, UnansweredBacks, ParkedAnewEffect DEF PanelTypeOK, Recreate
<1>4. FlagDown' /\ QuestionMatchesDisplay'
  BY <1>1, <1>2, ParkedAnewEffect DEF FlagDown, QuestionMatchesDisplay, Recreate
<1>5. ASSUME NEW u \in Toggle, panel'.checked[u] # confirmed'[u]
      PROVE  u \in drifted'
  BY <1>1, <1>2, <1>5, UnansweredBacks DEF Recreate
<1>6. UntappedBacked' /\ DeclineBacked'
  BY <1>5 DEF UntappedBacked, DeclineBacked, Recreate
<1>7. PositionsBacked'
  BY <1>1, <1>5, ParkedAnewEffect DEF PositionsBacked, Recreate
<1> QED BY <1>3, <1>4, <1>6, <1>7 DEF Recreate

\* On another page only what is parked is concerned.
LEMMA RecreateElsewhereInv ==
  ASSUME PanelInv, RecreateElsewhere
  PROVE  PanelInv'
<1> USE DEF PanelInv
<1>1. parked \in Seq(Instances) /\ ~visible /\ ParkedAnew /\ UNCHANGED visible
  BY DEF PanelTypeOK, RecreateElsewhere
<1>2. PanelTypeOK'
  BY <1>1, ParkedAnewEffect DEF PanelTypeOK, RecreateElsewhere, viewVars
<1>3. FlagDown' /\ PositionsBacked'
  BY <1>1, ParkedAnewEffect DEF FlagDown, PositionsBacked
<1>4. QuestionMatchesDisplay' /\ UntappedBacked' /\ DeclineBacked'
  BY <1>1 DEF QuestionMatchesDisplay, UntappedBacked, DeclineBacked
<1> QED BY <1>2, <1>3, <1>4 DEF RecreateElsewhere, viewVars

\* A new instance has nothing to answer for.
LEMMA OpenFreshInv ==
  ASSUME PanelInv, OpenFresh
  PROVE  PanelInv'
<1> USE DEF PanelInv
<1>1. PanelTypeOK'
  BY NewPanelType DEF PanelTypeOK, OpenFresh
<1>2. FlagDown' /\ QuestionMatchesDisplay' /\ UntappedBacked' /\ DeclineBacked'
  BY NewPanelType DEF FlagDown, QuestionMatchesDisplay, UntappedBacked, DeclineBacked,
     OpenFresh
<1>3. PositionsBacked'
  BY NewPanelType DEF PositionsBacked, OpenFresh
<1> QED BY <1>1, <1>2, <1>3 DEF OpenFresh

\* A restart starts from the initial state.
LEMMA RestartInv ==
  ASSUME Restart
  PROVE  PanelInv'
<1>1. parked' \in Seq(Instances)
  BY DEF Restart
<1>2. PanelTypeOK'
  BY <1>1, NewPanelType DEF PanelTypeOK, Restart
<1>3. /\ FlagDown' /\ QuestionMatchesDisplay' /\ UntappedBacked'
      /\ DeclineBacked' /\ PositionsBacked'
  BY NewPanelType DEF FlagDown, QuestionMatchesDisplay, UntappedBacked, DeclineBacked,
     PositionsBacked, Restart
<1> QED BY <1>2, <1>3, NewPanelType DEF PanelInv, Restart

\* Steps that leave the panel, the view and the history alone.
LEMMA QuietPanelInv ==
  ASSUME PanelInv, touching' \in SUBSET Toggle, touching' # {} => visible,
         leftover' \in SUBSET Questions, UNCHANGED <<viewVars, visible, parked>>
  PROVE  PanelInv'
BY DEF viewVars, PanelInv, PanelTypeOK, FlagDown, QuestionMatchesDisplay, UntappedBacked, DeclineBacked,
   PositionsBacked

\* Every step of the panel preserves the inductive invariant.
LEMMA NextPanelInv == PanelInv /\ [PanelNext]_panelVars => PanelInv'
<1> SUFFICES ASSUME PanelInv, [PanelNext]_panelVars
             PROVE  PanelInv'
  OBVIOUS
<1>1. CASE \E t \in Toggle : TouchDown(t)
  BY <1>1, QuietPanelInv DEF TouchDown, PanelInv, PanelTypeOK
<1>2. CASE \E t \in Toggle : TouchUp(t)
  BY <1>2, TouchUpInv
<1>3. CASE LoseFocus
  BY <1>3, QuietPanelInv DEF LoseFocus, PanelInv, PanelTypeOK
<1>4. CASE ClickToggle
  BY <1>4, ClickToggleInv
<1>5. CASE ClickNotToggle
  BY <1>5, ClickNotToggleInv
<1>6. CASE PressBack
  BY <1>6, PressBackInv
<1>7. CASE \E keep \in BOOLEAN : NavigateAway(keep)
  BY <1>7, NavigateAwayInv
<1>8. CASE Return
  BY <1>8, ReturnInv
<1>9. CASE OpenFresh
  BY <1>9, OpenFreshInv
<1>10. CASE Recreate
  BY <1>10, RecreateInv
<1>11. CASE RecreateElsewhere
  BY <1>11, RecreateElsewhereInv
<1>12. CASE Restart
  BY <1>12, RestartInv
<1>13. CASE \E q \in leftover : CloseLeftover(q)
  BY <1>13, QuietPanelInv DEF CloseLeftover, PanelInv, PanelTypeOK
<1>14. CASE UNCHANGED panelVars
  BY <1>14, QuietPanelInv DEF panelVars, PanelInv, PanelTypeOK
<1> QED BY <1>1, <1>2, <1>3, <1>4, <1>5, <1>6, <1>7, <1>8, <1>9, <1>10, <1>11, <1>12,
           <1>13, <1>14 DEF PanelNext

-----------------------------------------------------------------------------
(***************************************************************************)
(* The theorems.                                                           *)
(***************************************************************************)

\* The strengthening is an invariant of the panel.
THEOREM PanelInvariant == PanelSpec => []PanelInv
<1>1. PanelInit => PanelInv
  BY InitPanelInv
<1>2. PanelInv /\ [PanelNext]_panelVars => PanelInv'
  BY NextPanelInv
<1> QED BY <1>1, <1>2, PTL DEF PanelSpec

\* Every variable keeps its type in every reachable state.
THEOREM PanelTypeCorrect == PanelSpec => []PanelTypeOK
<1>1. PanelInv => PanelTypeOK
  BY DEF PanelInv
<1> QED BY <1>1, PanelInvariant, PTL

\* The dialog never asks about a position the screen does not show: what
\* "Toggle" would send is what the user sees (ClickToggle sends panel.target).
THEOREM QuestionTrue == PanelSpec => []QuestionMatchesDisplay
<1>1. PanelInv => QuestionMatchesDisplay
  BY DEF PanelInv
<1> QED BY <1>1, PanelInvariant, PTL

\* A position nobody confirmed is the subject of the open question or of one
\* that was taken away unanswered: no handler loses a flip.
THEOREM Backed == PanelSpec => []PositionsBacked
<1>1. PanelInv => PositionsBacked
  BY DEF PanelInv
<1> QED BY <1>1, PanelInvariant, PTL

\* Every tap asks: the shared field never swallows a tap of the user.
THEOREM TapsAsk == PanelSpec => TapAsks
<1>1. ASSUME PanelInv, NEW t \in Toggle, TouchUp(t)
      PROVE  panel'.showing /\ panel'.target = [toggle |-> t, on |-> panel'.checked[t]]
  BY <1>1, TouchUpInv
<1>2. PanelInv => (\A t \in Toggle : TouchUp(t) =>
          panel'.showing /\ panel'.target = [toggle |-> t, on |-> panel'.checked[t]])
  BY <1>1
<1>3. PanelInv /\ [PanelNext]_panelVars =>
        [\A t \in Toggle : TouchUp(t) =>
          panel'.showing /\ panel'.target = [toggle |-> t, on |-> panel'.checked[t]]]_panelVars
  BY <1>2
<1>4. PanelSpec => []PanelInv /\ [][PanelNext]_panelVars
  BY PanelInvariant, PTL DEF PanelSpec
<1> QED BY <1>3, <1>4, PTL DEF TapAsks

-----------------------------------------------------------------------------
(***************************************************************************)
(* The channel.                                                            *)
(***************************************************************************)

\* Workers not yet started have no traces; started ones are past idle.
Fresh ==
  \A w \in Worker :
    /\ w \in Started => pc[w] # "idle"
    /\ w \notin Started => pc[w] = "idle" /\ data[w] = Null /\ w \notin obeyed

\* A worker holds a port exactly while its socket is open, and alone.
PortsHeld ==
  /\ \A w \in Worker : HasSocket(w) <=> port[w] # NoPort
  /\ \A v, w \in Worker : port[v] = port[w] /\ port[v] # NoPort => v = w

\* A worker is queued in the looper at most once, and only when it has posted.
Posted ==
  /\ \A i \in DOMAIN looper : pc[looper[i]] = "posted"
  /\ \A i, j \in DOMAIN looper : looper[i] = looper[j] => i = j

\* What is in flight was sent by a worker past its Send; an answer in flight
\* was given to an obeyed command.
InFlight ==
  \A d \in net :
    /\ d.worker \in Started
    /\ pc[d.worker] \notin {"opening", "sending"}
    /\ ~d.command => d.worker \in obeyed

\* All traffic of the port a worker opened clean is its own.
CleanPorts ==
  \A w \in Worker : HasSocket(w) /\ w \notin stale =>
    \A d \in net : d.port = port[w] => d.worker = w

\* A command still under way is the latest one of its toggle, or has raced.
UnderWayIsLatest ==
  /\ \A w \in Started :
       pc[w] \in {"opening", "sending"} /\ command[w].toggle \notin raced => Latest(w)
  /\ \A d \in net :
       d.command /\ command[d.worker].toggle \notin raced => Latest(d.worker)

\* The inductive invariant.
ChannelInv ==
  /\ ChannelTypeOK
  /\ Fresh
  /\ PortsHeld
  /\ Posted
  /\ InFlight
  /\ CleanPorts
  /\ AnswerMeansObeyed
  /\ UnderWayIsLatest
  /\ LatestPrevails

-----------------------------------------------------------------------------
\* A worker number is started or above issued, and all are numbers.
LEMMA Workers ==
  ASSUME ChannelTypeOK
  PROVE  /\ issued \in Nat
         /\ Started \subseteq Worker
         /\ \A w \in Worker : w \in Int /\ w # NoPort
BY MaxCommandsAssumption DEF ChannelTypeOK, Started, Worker, NoPort

\* Two workers that are both the latest of one toggle are the same.
LEMMA LatestUnique ==
  ASSUME ChannelTypeOK, NEW v \in Started, NEW w \in Started,
         Latest(v), Latest(w), command[v].toggle = command[w].toggle
  PROVE  v = w
<1>1. v \in Int /\ w \in Int
  BY DEF Started, ChannelTypeOK
<1> QED BY <1>1 DEF Latest

\* NoPort is no port.
LEMMA NoPortIsNone == NoPort \notin Ports
BY PortsAssumption

\* At the start nothing has been sent.
LEMMA InitChannelInv == ChannelInit => ChannelInv
<1> SUFFICES ASSUME ChannelInit PROVE ChannelInv
  OBVIOUS
<1>1. Started = {}
  BY DEF Started, ChannelInit
<1>2. looper \in Seq(Worker)
  BY DEF ChannelInit
<1>3. ChannelTypeOK
  BY <1>1, <1>2, MaxCommandsAssumption DEF ChannelInit, ChannelTypeOK, Stages
<1>4. Fresh /\ PortsHeld /\ Posted
  BY <1>1 DEF ChannelInit, Fresh, PortsHeld, Posted, HasSocket
<1>5. InFlight /\ CleanPorts /\ AnswerMeansObeyed /\ UnderWayIsLatest /\ LatestPrevails
  BY <1>1 DEF ChannelInit, InFlight, CleanPorts, HasSocket, AnswerMeansObeyed, UnderWayIsLatest,
     LatestPrevails
<1> QED BY <1>3, <1>4, <1>5 DEF ChannelInv

\* A new worker is the latest of its toggle; if an older command for the
\* toggle is still under way the toggle has raced.
LEMMA SendMessageInv ==
  ASSUME ChannelInv, NEW t \in Toggle, NEW on \in BOOLEAN, SendMessage(t, on)
  PROVE  ChannelInv'
<1> USE DEF ChannelInv
<1>0. issued + 1 \in Worker /\ issued \in Nat
  BY MaxCommandsAssumption DEF SendMessage, ChannelTypeOK, Worker
<1> PICK n \in Worker : n = issued + 1
  BY <1>0
<1>1. /\ n \notin Started
      /\ Started' = Started \union {n} /\ Started \subseteq Worker
      /\ \A w \in Started : w \in Int /\ w < n
  BY <1>0, MaxCommandsAssumption DEF SendMessage, ChannelTypeOK, Started, Worker
<1>2. /\ command'[n] = [toggle |-> t, on |-> on]
      /\ \A w \in Worker : w # n => command'[w] = command[w] /\ pc'[w] = pc[w]
      /\ pc'[n] = "opening" /\ pc[n] = "idle"
  BY <1>1 DEF SendMessage, ChannelTypeOK, Fresh
<1>3. command'[n] \in Command
  BY <1>2 DEF Command
<1>4. ChannelTypeOK'
  <2>1. issued' \in 0..MaxCommands
    BY <1>0, MaxCommandsAssumption DEF SendMessage, ChannelTypeOK
  <2>2. command' \in [Worker -> Command \union {NoCommand}] /\ pc' \in [Worker -> Stages]
    BY <1>1, <1>3 DEF SendMessage, ChannelTypeOK, Command, Stages
  <2>3. \A w \in Started' : command'[w] \in Command
    BY <1>1, <1>2, <1>3 DEF ChannelTypeOK
  <2> QED BY <2>1, <2>2, <2>3 DEF SendMessage, ChannelTypeOK
<1>5. Fresh'
  BY <1>1, <1>2 DEF Fresh, SendMessage
<1>6. \A w \in Worker : HasSocket(w)' <=> HasSocket(w)
  BY <1>1, <1>2 DEF HasSocket
<1>7. PortsHeld' /\ CleanPorts' /\ Posted'
  <2>1. \A i \in DOMAIN looper : looper[i] \in Worker /\ looper[i] # n
    BY <1>2 DEF Posted, ChannelTypeOK
  <2>2. Posted'
    BY <1>2, <2>1 DEF Posted, SendMessage
  <2> QED BY <1>6, <2>2 DEF PortsHeld, CleanPorts, SendMessage
<1>8. \A d \in net : d.worker \in Started /\ d.worker # n
  BY <1>1 DEF InFlight
<1>9. InFlight'
  BY <1>1, <1>2, <1>8 DEF InFlight, SendMessage
<1>10. AnswerMeansObeyed'
  BY <1>1 DEF AnswerMeansObeyed, Fresh, SendMessage
<1>11. \A w \in Started : command'[w].toggle # t /\ Latest(w) => Latest(w)'
  BY <1>1, <1>2 DEF Latest
<1>12. Latest(n)'
  BY <1>1 DEF Latest
<1>13. \A w \in Started : Latest(w)' => Latest(w)
  BY <1>1, <1>2 DEF Latest
<1>14. \A u : u \notin raced' => u \notin raced /\ (u = t => ~UnderWay(t))
  BY DEF SendMessage
<1>15. UnderWayIsLatest'
  <2>1. ASSUME NEW w \in Started', pc'[w] \in {"opening", "sending"},
               command'[w].toggle \notin raced'
        PROVE  Latest(w)'
    <3>1. CASE w = n
      BY <3>1, <1>12
    <3>2. CASE w # n
      <4>1. w \in Started /\ command[w].toggle # t
        BY <1>1, <1>2, <1>14, <2>1, <3>2 DEF UnderWay
      <4> QED BY <1>1, <1>2, <1>11, <1>14, <2>1, <3>2, <4>1 DEF UnderWayIsLatest
    <3> QED BY <3>1, <3>2
  <2>2. ASSUME NEW d \in net', d.command, command'[d.worker].toggle \notin raced'
        PROVE  Latest(d.worker)'
    <3>1. d \in net
      BY DEF SendMessage
    <3>2. command'[d.worker] = command[d.worker] /\ d.worker \in Started
      BY <1>1, <1>2, <1>8, <3>1
    <3>3. command[d.worker].toggle # t
      BY <1>14, <2>2, <3>1, <3>2 DEF UnderWay
    <3> QED BY <1>11, <1>14, <2>2, <3>1, <3>2, <3>3 DEF UnderWayIsLatest
  <2> QED BY <2>1, <2>2 DEF UnderWayIsLatest
<1>16. LatestPrevails'
  <2> SUFFICES ASSUME NEW w \in Started', Latest(w)', w \in obeyed',
                      command'[w].toggle \notin raced'
               PROVE  device'[command'[w].toggle] = command'[w].on
    BY DEF LatestPrevails
  <2>1. w \in obeyed /\ n \notin obeyed
    BY <1>1 DEF SendMessage, Fresh
  <2>2. w \in Started /\ command'[w] = command[w]
    BY <1>1, <1>2, <2>1
  <2>3. Latest(w) /\ command[w].toggle \notin raced
    BY <1>13, <1>14, <2>2
  <2> QED BY <2>1, <2>2, <2>3 DEF LatestPrevails, SendMessage
<1> QED BY <1>4, <1>5, <1>7, <1>9, <1>10, <1>15, <1>16

\* Only sendMessage changes who is the latest.
LEMMA LatestStays ==
  ASSUME issued' = issued, command' = command
  PROVE  Started' = Started /\ \A w : Latest(w)' <=> Latest(w)
BY DEF Started, Latest

\* The process dies: its ports are free, its traffic stays in flight.
LEMMA ProcessDiesInv ==
  ASSUME ChannelInv, ProcessDies
  PROVE  ChannelInv'
<1> USE DEF ChannelInv
<1>1. Started' = Started /\ \A w : Latest(w)' <=> Latest(w)
  BY LatestStays DEF ProcessDies
<1>2. \A w \in Worker : pc'[w] = IF pc[w] \in {"idle", "shown", "done"} THEN pc[w] ELSE "dead"
  BY DEF ProcessDies
<1>3. ChannelTypeOK'
  <2>1. pc' \in [Worker -> Stages]
    BY DEF ProcessDies, ChannelTypeOK, Stages
  <2>2. port' \in [Worker -> Ports \union {NoPort}]
    BY DEF ProcessDies
  <2>3. looper' \in Seq(Worker)
    BY DEF ProcessDies
  <2> QED BY <1>1, <2>1, <2>2, <2>3 DEF ProcessDies, ChannelTypeOK
<1>4. Fresh'
  BY <1>1, <1>2 DEF Fresh, ProcessDies
<1>5. \A w \in Worker : ~HasSocket(w)' /\ port'[w] = NoPort
  BY <1>2 DEF HasSocket, ProcessDies
<1>6. PortsHeld' /\ CleanPorts' /\ Posted'
  BY <1>5 DEF PortsHeld, CleanPorts, Posted, ProcessDies
<1>7. Started \subseteq Worker
  BY Workers
<1>8. InFlight'
  BY <1>1, <1>2, <1>7 DEF InFlight, ProcessDies
<1>9. AnswerMeansObeyed' /\ LatestPrevails'
  BY <1>1 DEF AnswerMeansObeyed, LatestPrevails, ProcessDies
<1>10. UnderWayIsLatest'
  BY <1>1, <1>2, <1>7 DEF UnderWayIsLatest, ProcessDies
<1> QED BY <1>3, <1>4, <1>6, <1>8, <1>9, <1>10

\* The looper runs a Runnable that has an answer.
LEMMA ShowReplyInv ==
  ASSUME ChannelInv, ShowReply
  PROVE  ChannelInv'
<1> USE DEF ChannelInv
<1>1. Started' = Started /\ \A w : Latest(w)' <=> Latest(w)
  BY LatestStays DEF ShowReply
<1>2. PICK h \in Worker : h = Head(looper) /\ looper # <<>> /\ pc[h] = "posted"
  <2>1. looper # <<>> /\ looper \in Seq(Worker)
    BY DEF ShowReply, ChannelTypeOK
  <2>2. Head(looper) \in Worker /\ 1 \in DOMAIN looper /\ Head(looper) = looper[1]
    BY <2>1
  <2> QED BY <2>1, <2>2 DEF Posted
<1>3. /\ pc'[h] \in {"shown", "done"}
      /\ \A w \in Worker : w # h => pc'[w] = pc[w]
      /\ pc' \in [Worker -> Stages]
  BY <1>2 DEF ShowReply, ChannelTypeOK, Stages
<1>4. /\ looper' = Tail(looper) /\ looper' \in Seq(Worker)
      /\ \A i \in DOMAIN looper' :
           i + 1 \in DOMAIN looper /\ i \in Nat /\ looper'[i] = looper[i + 1] /\ i + 1 # 1
      /\ 1 \in DOMAIN looper /\ looper[1] = h
  BY <1>2 DEF ShowReply, ChannelTypeOK
<1>5. ChannelTypeOK'
  BY <1>1, <1>3, <1>4 DEF ShowReply, ChannelTypeOK
<1>6. Fresh' /\ AnswerMeansObeyed' /\ LatestPrevails'
  BY <1>1, <1>2, <1>3 DEF Fresh, AnswerMeansObeyed, LatestPrevails, ShowReply
<1>7. \A w \in Worker : HasSocket(w)' <=> HasSocket(w)
  BY <1>2, <1>3 DEF HasSocket
<1>8. PortsHeld' /\ CleanPorts'
  BY <1>7 DEF PortsHeld, CleanPorts, ShowReply
<1>9. Posted'
  <2>1. \A i \in DOMAIN looper' : looper'[i] # h /\ looper'[i] \in Worker
    BY <1>4 DEF Posted
  <2>2. \A i, j \in DOMAIN looper' : looper'[i] = looper'[j] => i = j
    BY <1>4 DEF Posted
  <2> QED BY <1>3, <1>4, <2>1, <2>2 DEF Posted
<1>10. Started \subseteq Worker
  BY Workers
<1>11. InFlight' /\ UnderWayIsLatest'
  BY <1>1, <1>2, <1>3, <1>10 DEF InFlight, UnderWayIsLatest, ShowReply
<1> QED BY <1>5, <1>6, <1>8, <1>9, <1>11

\* The socket gets a port nobody holds; a clean one has no traffic at all.
LEMMA OpenSocketInv ==
  ASSUME ChannelInv, NEW w \in Started, OpenSocket(w)
  PROVE  ChannelInv'
<1> USE DEF ChannelInv
<1>1. Started' = Started /\ \A v : Latest(v)' <=> Latest(v)
  BY LatestStays DEF OpenSocket
<1>2. Started \subseteq Worker
  BY Workers
<1>3. PICK p \in Ports :
        /\ \A v \in Worker : port[v] # p
        /\ port' = [port EXCEPT ![w] = p]
        /\ stale' = IF \E d \in net : d.port = p THEN stale \union {w} ELSE stale
  BY DEF OpenSocket
<1>4. /\ pc[w] = "opening" /\ pc'[w] = "sending" /\ port'[w] = p /\ p # NoPort
      /\ \A v \in Worker : v # w => pc'[v] = pc[v] /\ port'[v] = port[v]
      /\ pc' \in [Worker -> Stages]
      /\ port' \in [Worker -> Ports \union {NoPort}]
  BY <1>2, <1>3, NoPortIsNone DEF OpenSocket, ChannelTypeOK, Stages
<1>5. ChannelTypeOK'
  BY <1>1, <1>2, <1>3, <1>4 DEF OpenSocket, ChannelTypeOK
<1>6. Fresh' /\ AnswerMeansObeyed' /\ LatestPrevails'
  BY <1>1, <1>2, <1>3, <1>4 DEF Fresh, AnswerMeansObeyed, LatestPrevails, OpenSocket
<1>7. PortsHeld'
  BY <1>2, <1>3, <1>4 DEF PortsHeld, HasSocket
<1>8. CleanPorts'
  BY <1>2, <1>3, <1>4 DEF CleanPorts, HasSocket, OpenSocket
<1>9. Posted'
  BY <1>2, <1>4 DEF Posted, OpenSocket, ChannelTypeOK
<1>10. InFlight' /\ UnderWayIsLatest'
  BY <1>1, <1>2, <1>4 DEF InFlight, UnderWayIsLatest, OpenSocket
<1> QED BY <1>5, <1>6, <1>7, <1>8, <1>9, <1>10

\* Closing and posting, by a worker that has not posted yet.
LEMMA CloseAndPostEffect ==
  ASSUME ChannelInv, NEW w \in Started, CloseAndPost(w),
         pc[w] \in {"opening", "sending", "receiving"}
  PROVE  /\ pc'[w] = "posted" /\ port'[w] = NoPort
         /\ \A v \in Worker : v # w => pc'[v] = pc[v] /\ port'[v] = port[v]
         /\ pc' \in [Worker -> Stages]
         /\ port' \in [Worker -> Ports \union {NoPort}]
         /\ looper' \in Seq(Worker)
         /\ Posted'
         /\ PortsHeld'
<1> USE DEF ChannelInv
<1>1. w \in Worker
  BY Workers
<1>2. /\ pc'[w] = "posted" /\ port'[w] = NoPort
      /\ \A v \in Worker : v # w => pc'[v] = pc[v] /\ port'[v] = port[v]
      /\ pc' \in [Worker -> Stages]
      /\ port' \in [Worker -> Ports \union {NoPort}]
  BY <1>1 DEF CloseAndPost, ChannelTypeOK, Stages
<1>3. looper' = Append(looper, w) /\ looper \in Seq(Worker) /\ looper' \in Seq(Worker)
  BY <1>1 DEF CloseAndPost, ChannelTypeOK
<1>4. \A i \in DOMAIN looper : looper[i] # w
  BY DEF Posted
<1>5. \A i \in DOMAIN looper' :
        \/ i \in DOMAIN looper /\ looper'[i] = looper[i] /\ looper[i] \in Worker
        \/ i = Len(looper) + 1 /\ looper'[i] = w
  BY <1>1, <1>3
<1>6. Posted'
  BY <1>2, <1>4, <1>5 DEF Posted
<1>7. PortsHeld'
  BY <1>1, <1>2 DEF PortsHeld, HasSocket
<1> QED BY <1>2, <1>3, <1>6, <1>7

\* An exception leaves the answer null.
LEMMA IOFailsInv ==
  ASSUME ChannelInv, NEW w \in Started, IOFails(w)
  PROVE  ChannelInv'
<1> USE DEF ChannelInv
<1>1. Started' = Started /\ \A v : Latest(v)' <=> Latest(v)
  BY LatestStays DEF IOFails
<1>2. Started \subseteq Worker
  BY Workers
<1>3. /\ pc'[w] = "posted" /\ port'[w] = NoPort
      /\ \A v \in Worker : v # w => pc'[v] = pc[v] /\ port'[v] = port[v]
      /\ pc' \in [Worker -> Stages]
      /\ port' \in [Worker -> Ports \union {NoPort}]
      /\ looper' \in Seq(Worker)
      /\ Posted'
      /\ PortsHeld'
  BY CloseAndPostEffect DEF IOFails
<1>4. ChannelTypeOK'
  BY <1>1, <1>3 DEF IOFails, ChannelTypeOK
<1>5. Fresh' /\ AnswerMeansObeyed' /\ LatestPrevails'
  BY <1>1, <1>2, <1>3 DEF Fresh, AnswerMeansObeyed, LatestPrevails, IOFails
<1>6. CleanPorts'
  BY <1>2, <1>3 DEF CleanPorts, HasSocket, IOFails
<1>7. InFlight' /\ UnderWayIsLatest'
  BY <1>1, <1>2, <1>3 DEF InFlight, UnderWayIsLatest, IOFails
<1> QED BY <1>3, <1>4, <1>5, <1>6, <1>7

\* The datagram read came to w's port: clean, it answers w's own command.
LEMMA ReceiveInv ==
  ASSUME ChannelInv, NEW w \in Started, Receive(w)
  PROVE  ChannelInv'
<1> USE DEF ChannelInv
<1>1. Started' = Started /\ \A v : Latest(v)' <=> Latest(v)
  BY LatestStays DEF Receive
<1>2. Started \subseteq Worker
  BY Workers
<1>3. /\ pc'[w] = "posted" /\ port'[w] = NoPort
      /\ \A v \in Worker : v # w => pc'[v] = pc[v] /\ port'[v] = port[v]
      /\ pc' \in [Worker -> Stages]
      /\ port' \in [Worker -> Ports \union {NoPort}]
      /\ looper' \in Seq(Worker)
      /\ Posted'
      /\ PortsHeld'
  BY CloseAndPostEffect DEF Receive
<1>4. PICK d \in net : /\ ~d.command /\ d.port = port[w]
                       /\ data' = [data EXCEPT ![w] = d.answer]
                       /\ net' = net \ {d}
  BY DEF Receive
<1>5. d.answer \in Answer
  BY <1>4 DEF ChannelTypeOK, Datagram
<1>6. ChannelTypeOK'
  BY <1>1, <1>3, <1>4, <1>5 DEF Receive, ChannelTypeOK
<1>7. Fresh' /\ LatestPrevails'
  BY <1>1, <1>2, <1>3, <1>4 DEF Fresh, LatestPrevails, Receive, ChannelTypeOK
<1>8. w \in obeyed \/ w \in stale
  <2>1. HasSocket(w)
    BY DEF Receive, HasSocket
  <2>2. w \notin stale => d.worker = w
    BY <1>2, <1>4, <2>1 DEF CleanPorts
  <2> QED BY <1>4, <2>2 DEF InFlight
<1>9. AnswerMeansObeyed'
  BY <1>1, <1>2, <1>4, <1>8 DEF AnswerMeansObeyed, Receive, ChannelTypeOK
<1>10. CleanPorts'
  BY <1>2, <1>3, <1>4 DEF CleanPorts, HasSocket, Receive
<1>11. InFlight' /\ UnderWayIsLatest'
  BY <1>1, <1>2, <1>3, <1>4 DEF InFlight, UnderWayIsLatest, Receive
<1> QED BY <1>3, <1>6, <1>7, <1>9, <1>10, <1>11

\* The command goes out from w's own port.
LEMMA SendInv ==
  ASSUME ChannelInv, NEW w \in Started, Send(w)
  PROVE  ChannelInv'
<1> USE DEF ChannelInv
<1> DEFINE d == [command |-> TRUE, port |-> port[w], worker |-> w,
                 answer |-> "text", copy |-> 0]
<1>1. Started' = Started /\ \A v : Latest(v)' <=> Latest(v)
  BY LatestStays DEF Send
<1>2. Started \subseteq Worker
  BY Workers
<1>3. /\ pc[w] = "sending" /\ pc'[w] = "receiving"
      /\ \A v \in Worker : v # w => pc'[v] = pc[v]
      /\ pc' \in [Worker -> Stages]
  BY <1>2 DEF Send, ChannelTypeOK, Stages
<1>4. port[w] \in Ports
  BY <1>2, <1>3 DEF PortsHeld, HasSocket, ChannelTypeOK
<1>5. d \in Datagram /\ d.command /\ d.port = port[w] /\ d.worker = w
  BY <1>2, <1>4, MaxCopiesAssumption DEF Datagram, Answer
<1>6. net' = net \union {d}
  BY DEF Send
<1> HIDE DEF d
<1>7. ChannelTypeOK'
  BY <1>1, <1>3, <1>5, <1>6 DEF Send, ChannelTypeOK
<1>8. Fresh' /\ AnswerMeansObeyed' /\ LatestPrevails'
  BY <1>1, <1>2, <1>3 DEF Fresh, AnswerMeansObeyed, LatestPrevails, Send
<1>9. \A v \in Worker : HasSocket(v)' <=> HasSocket(v)
  BY <1>3 DEF HasSocket
<1>10. PortsHeld' /\ Posted'
  BY <1>2, <1>3, <1>9 DEF PortsHeld, Posted, Send, ChannelTypeOK
<1>11. CleanPorts'
  BY <1>2, <1>4, <1>5, <1>6, <1>9, NoPortIsNone DEF CleanPorts, PortsHeld, Send
<1>12. InFlight'
  BY <1>1, <1>2, <1>3, <1>5, <1>6 DEF InFlight, Send
<1>13. UnderWayIsLatest'
  BY <1>1, <1>2, <1>3, <1>5, <1>6 DEF UnderWayIsLatest, Send
<1> QED BY <1>7, <1>8, <1>10, <1>11, <1>12, <1>13

\* Losing datagrams breaks nothing.
LEMMA LoseInv ==
  ASSUME ChannelInv, NEW d \in net, Lose(d)
  PROVE  ChannelInv'
<1> USE DEF ChannelInv
<1>1. Started' = Started /\ \A v : Latest(v)' <=> Latest(v)
  BY LatestStays DEF Lose
<1>2. net' \subseteq net
  BY DEF Lose
<1>3. ChannelTypeOK' /\ Fresh' /\ AnswerMeansObeyed' /\ LatestPrevails'
  BY <1>1, <1>2 DEF ChannelTypeOK, Fresh, AnswerMeansObeyed, LatestPrevails, Lose
<1>4. PortsHeld' /\ Posted' /\ CleanPorts'
  BY <1>2 DEF PortsHeld, HasSocket, Posted, CleanPorts, Lose
<1>5. InFlight' /\ UnderWayIsLatest'
  BY <1>1, <1>2 DEF InFlight, UnderWayIsLatest, Lose
<1> QED BY <1>3, <1>4, <1>5

\* A copy belongs to the exchange of its original.
LEMMA DuplicateInv ==
  ASSUME ChannelInv, NEW d \in net, Duplicate(d)
  PROVE  ChannelInv'
<1> USE DEF ChannelInv
<1> DEFINE c == [d EXCEPT !.copy = @ + 1]
<1>1. Started' = Started /\ \A v : Latest(v)' <=> Latest(v)
  BY LatestStays DEF Duplicate
<1>2. d \in Datagram /\ d.copy < MaxCopies
  BY DEF ChannelTypeOK, Duplicate
<1>3. /\ c \in Datagram /\ c.command = d.command
      /\ c.port = d.port /\ c.worker = d.worker
  BY <1>2, MaxCopiesAssumption DEF Datagram
<1>4. net' = net \union {c}
  BY DEF Duplicate
<1> HIDE DEF c
<1>5. ChannelTypeOK' /\ Fresh' /\ AnswerMeansObeyed' /\ LatestPrevails'
  BY <1>1, <1>3, <1>4 DEF ChannelTypeOK, Fresh, AnswerMeansObeyed, LatestPrevails, Duplicate
<1>6. PortsHeld' /\ Posted' /\ CleanPorts'
  BY <1>3, <1>4 DEF PortsHeld, HasSocket, Posted, CleanPorts, Duplicate
<1>7. InFlight' /\ UnderWayIsLatest'
  BY <1>1, <1>3, <1>4 DEF InFlight, UnderWayIsLatest, Duplicate
<1> QED BY <1>5, <1>6, <1>7

\* The board obeys: unless the toggle has raced, the latest command for it.
LEMMA ObeyInv ==
  ASSUME ChannelInv, NEW d \in net, NEW answer \in Answer, Obey(d, answer)
  PROVE  ChannelInv'
<1> USE DEF ChannelInv
<1> DEFINE r == [d EXCEPT !.command = FALSE, !.answer = answer]
           t == command[d.worker].toggle
<1>1. Started' = Started /\ \A v : Latest(v)' <=> Latest(v)
  BY LatestStays DEF Obey
<1>2. Started \subseteq Worker
  BY Workers
<1>3. d \in Datagram /\ d.command /\ d.worker \in Started
  BY DEF ChannelTypeOK, Obey, InFlight
<1>4. r \in Datagram /\ ~r.command /\ r.port = d.port /\ r.worker = d.worker
  BY <1>3 DEF Datagram
<1>5. net' = (net \ {d}) \union {r} /\ obeyed' = obeyed \union {d.worker}
  BY DEF Obey
<1> HIDE DEF r
<1>6. /\ t \in Toggle /\ command[d.worker].on \in BOOLEAN
      /\ device' \in [Toggle -> BOOLEAN]
      /\ device'[t] = command[d.worker].on
      /\ \A u \in Toggle : u # t => device'[u] = device[u]
  <2>1. command[d.worker] \in Command
    BY <1>3 DEF ChannelTypeOK
  <2>2. t \in Toggle /\ command[d.worker].on \in BOOLEAN
    BY <2>1 DEF Command
  <2> QED BY <2>2 DEF Obey, ChannelTypeOK
<1>7. ChannelTypeOK'
  BY <1>1, <1>2, <1>3, <1>4, <1>5, <1>6 DEF ChannelTypeOK, Obey
<1>8. Fresh' /\ AnswerMeansObeyed'
  BY <1>1, <1>3, <1>5 DEF Fresh, AnswerMeansObeyed, Obey
<1>9. PortsHeld' /\ Posted' /\ CleanPorts'
  BY <1>3, <1>4, <1>5 DEF PortsHeld, HasSocket, Posted, CleanPorts, Obey
<1>10. InFlight'
  BY <1>1, <1>3, <1>4, <1>5 DEF InFlight, Obey
<1>11. UnderWayIsLatest'
  BY <1>1, <1>4, <1>5 DEF UnderWayIsLatest, Obey
<1>12. LatestPrevails'
  <2> SUFFICES ASSUME NEW w \in Started, Latest(w), w \in obeyed',
                      command[w].toggle \notin raced
               PROVE  device'[command[w].toggle] = command[w].on
    BY <1>1 DEF LatestPrevails, Obey
  <2>1. CASE command[w].toggle = t
    <3>1. Latest(d.worker)
      BY <1>3, <2>1 DEF UnderWayIsLatest
    <3>2. w = d.worker
      BY <1>3, <2>1, <3>1, LatestUnique
    <3> QED BY <1>6, <3>2
  <2>2. CASE command[w].toggle # t
    <3>1. w \in obeyed
      BY <1>5, <2>2
    <3>2. command[w].toggle \in Toggle
      BY DEF ChannelTypeOK, Command
    <3> QED BY <1>6, <2>2, <3>1, <3>2 DEF LatestPrevails
  <2> QED BY <2>1, <2>2
<1> QED BY <1>7, <1>8, <1>9, <1>10, <1>11, <1>12

\* Steps that only start or end the process's life.
LEMMA QuietChannelInv ==
  ASSUME ChannelInv, alive' \in BOOLEAN,
         UNCHANGED <<issued, command, pc, port, data, looper, net, device, obeyed,
                     stale, raced>>
  PROVE  ChannelInv'
<1> USE DEF ChannelInv
<1>1. Started' = Started /\ \A v : Latest(v)' <=> Latest(v)
  BY LatestStays
<1>2. ChannelTypeOK' /\ Fresh' /\ PortsHeld' /\ Posted'
  BY <1>1 DEF ChannelTypeOK, Fresh, PortsHeld, HasSocket, Posted
<1>3. InFlight' /\ CleanPorts' /\ UnderWayIsLatest'
  BY <1>1 DEF InFlight, CleanPorts, HasSocket, UnderWayIsLatest
<1>4. AnswerMeansObeyed' /\ LatestPrevails'
  BY <1>1 DEF AnswerMeansObeyed, LatestPrevails
<1> QED BY <1>2, <1>3, <1>4

\* Every step preserves the inductive invariant.
LEMMA NextChannelInv == ChannelInv /\ [ChannelNext]_channelVars => ChannelInv'
<1> SUFFICES ASSUME ChannelInv, [ChannelNext]_channelVars
             PROVE  ChannelInv'
  OBVIOUS
<1>1. CASE \E t \in Toggle, on \in BOOLEAN : SendMessage(t, on)
  BY <1>1, SendMessageInv
<1>2. CASE ShowReply
  BY <1>2, ShowReplyInv
<1>3. CASE NullReply
  BY <1>3, ProcessDiesInv DEF NullReply
<1>4. CASE Kill
  BY <1>4, ProcessDiesInv DEF Kill
<1>5. CASE Relaunch
  BY <1>5, QuietChannelInv DEF Relaunch
<1>6. ASSUME NEW w \in Started, WorkerStep(w)
      PROVE  ChannelInv'
  BY <1>6, OpenSocketInv, IOFailsInv, SendInv, ReceiveInv DEF WorkerStep
<1>7. ASSUME NEW d \in net, NetStep(d)
      PROVE  ChannelInv'
  BY <1>7, LoseInv, DuplicateInv, ObeyInv DEF NetStep
<1>8. CASE UNCHANGED channelVars
  BY <1>8, QuietChannelInv DEF channelVars, ChannelInv, ChannelTypeOK
<1> QED BY <1>1, <1>2, <1>3, <1>4, <1>5, <1>6, <1>7, <1>8 DEF ChannelNext

-----------------------------------------------------------------------------
(***************************************************************************)
(* The theorems.                                                           *)
(***************************************************************************)

\* The strengthening is an invariant of the channel.
THEOREM ChannelInvariant == ChannelSpec => []ChannelInv
<1>1. ChannelInit => ChannelInv
  BY InitChannelInv
<1>2. ChannelInv /\ [ChannelNext]_channelVars => ChannelInv'
  BY NextChannelInv
<1> QED BY <1>1, <1>2, PTL DEF ChannelSpec

\* Every variable keeps its type in every reachable state.
THEOREM ChannelTypeCorrect == ChannelSpec => []ChannelTypeOK
<1>1. ChannelInv => ChannelTypeOK
  BY DEF ChannelInv
<1> QED BY <1>1, ChannelInvariant, PTL

\* sendMessage's worker takes no other command's answer for its own, unless
\* its port came with old traffic.
THEOREM AnswersAreOwn == ChannelSpec => []AnswerMeansObeyed
<1>1. ChannelInv => AnswerMeansObeyed
  BY DEF ChannelInv
<1> QED BY <1>1, ChannelInvariant, PTL

\* Commands of one toggle that do not overlap take effect in their order,
\* although sendMessage numbers nothing and UDP keeps no order.
THEOREM LastWins == ChannelSpec => []LatestPrevails
<1>1. ChannelInv => LatestPrevails
  BY DEF ChannelInv
<1> QED BY <1>1, ChannelInvariant, PTL

-----------------------------------------------------------------------------
(***************************************************************************)
(* The whole.                                                              *)
(***************************************************************************)

\* A step of the whole is a step of the panel or leaves it alone.
LEMMA StepOfPanel == [HomeNext]_homeVars => [PanelNext]_panelVars
<1> SUFFICES ASSUME [HomeNext]_homeVars PROVE [PanelNext]_panelVars
  OBVIOUS
<1>1. CASE Confirm
  BY <1>1 DEF Confirm, PanelNext
<1>2. CASE OnPanel
  BY <1>2 DEF OnPanel, PanelNext
<1>3. CASE OnChannel
  BY <1>3 DEF OnChannel
<1>4. CASE Crash \/ Close
  BY <1>4 DEF Crash, Close
<1>5. CASE Launch
  BY <1>5 DEF Launch, PanelNext
<1>6. CASE UNCHANGED homeVars
  BY <1>6 DEF homeVars
<1>7. CASE ConfirmLeftover
  BY <1>7 DEF ConfirmLeftover, PanelNext
<1> QED BY <1>1, <1>2, <1>3, <1>4, <1>5, <1>6, <1>7 DEF HomeNext

\* A step of the whole is a step of the channel or leaves it alone.
LEMMA StepOfChannel ==
  PanelInv /\ [HomeNext]_homeVars => [ChannelNext]_channelVars
<1> SUFFICES ASSUME PanelInv, [HomeNext]_homeVars PROVE [ChannelNext]_channelVars
  OBVIOUS
<1>1. CASE Confirm
  <2>1. panel.target.toggle \in Toggle
    BY <1>1 DEF Confirm, ClickToggle, PanelInv, QuestionMatchesDisplay
  <2>2. panel.target.on \in BOOLEAN
    BY DEF PanelInv, PanelTypeOK, Panels
  <2> QED BY <1>1, <2>1, <2>2 DEF Confirm, ChannelNext
<1>2. CASE OnPanel
  BY <1>2 DEF OnPanel
<1>3. CASE OnChannel
  BY <1>3 DEF OnChannel, ChannelNext
<1>4. CASE Crash
  BY <1>4 DEF Crash, ToggleWithoutActivity, Kill, ChannelNext
<1>5. CASE Close
  BY <1>5 DEF Close, ChannelNext
<1>6. CASE Launch
  BY <1>6 DEF Launch, ChannelNext
<1>7. CASE UNCHANGED homeVars
  BY <1>7 DEF homeVars
<1>8. CASE ConfirmLeftover
  <2> PICK q \in leftover : SendMessage(q.target.toggle, q.target.on)
    BY <1>8 DEF ConfirmLeftover
  <2>1. q.target.toggle \in Toggle /\ q.target.on \in BOOLEAN
    BY DEF PanelInv, PanelTypeOK, Questions
  <2> QED BY <2>1 DEF ChannelNext
<1> QED BY <1>1, <1>2, <1>3, <1>4, <1>5, <1>6, <1>7, <1>8 DEF HomeNext

\* The invariants of the components hold in the whole.
HomeInv == PanelInv /\ ChannelInv

LEMMA HomeInitInv == HomeInit => HomeInv
BY InitPanelInv, InitChannelInv DEF HomeInit, HomeInv

LEMMA HomeNextInv == HomeInv /\ [HomeNext]_homeVars => HomeInv'
BY StepOfPanel, StepOfChannel, NextPanelInv, NextChannelInv DEF HomeInv

\* The inductive invariant of the whole.
THEOREM HomeInvariant == HomeSpec => []HomeInv
BY HomeInitInv, HomeNextInv, PTL DEF HomeSpec

\* The screen shows where a switch is once its exchange is settled: what the
\* panel keeps (PositionsBacked) meets what the channel keeps (AnswerMeansObeyed
\* and LatestPrevails).
THEOREM ScreenTrue == HomeSpec => []DisplayTrue
<1>1. HomeInv => DisplayTrue
  <2> SUFFICES ASSUME HomeInv, alive, visible,
                      NEW w \in Started, NEW t \in Toggle,
                      t = command[w].toggle,
                      Settled(w),
                      confirmed[t] = command[w].on,
                      t \notin drifted,
                      ~(panel.showing /\ panel.target.toggle = t)
               PROVE  panel.checked[t] = device[t]
    BY DEF DisplayTrue
  <2>1. panel.checked[t] = confirmed[t]
    BY DEF HomeInv, PanelInv, PositionsBacked
  <2>2. w \in obeyed
    BY DEF HomeInv, ChannelInv, AnswerMeansObeyed, Settled
  <2>3. device[t] = command[w].on
    BY <2>2 DEF HomeInv, ChannelInv, LatestPrevails, Settled
  <2> QED BY <2>1, <2>3
<1> QED BY <1>1, HomeInvariant, PTL

-----------------------------------------------------------------------------
(***************************************************************************)
(* The refinement of SwitchBoard.                                          *)
(***************************************************************************)

\* What is asked are positions of switches.
LEMMA QuestionsArePositions ==
  ASSUME PanelInv
  PROVE  question \subseteq Board!Position
<1>1. ASSUME panel.showing
      PROVE  panel.target \in Board!Position
  <2>1. /\ panel.target \in [toggle : 0..NumToggles, on : BOOLEAN]
        /\ panel.target.toggle \in Toggle
    BY <1>1 DEF PanelInv, PanelTypeOK, Panels, QuestionMatchesDisplay
  <2> QED BY <2>1 DEF Board!Position
<1>2. ASSUME NEW q \in leftover
      PROVE  q.target \in Board!Position
  BY DEF PanelInv, PanelTypeOK, Questions, Board!Position
<1> QED BY <1>1, <1>2 DEF question, shown

\* Where the board and the commands stay, at most questions come and go.
LEMMA QuestionStep ==
  ASSUME PanelInv', device' = device, command' = command, issued' = issued
  PROVE  Board!Ask
<1>1. commanded' = commanded
  BY DEF commanded, Started
<1>2. question' \subseteq Board!Position'
  <2>1. PanelInv' => (question \subseteq Board!Position)'
    BY QuestionsArePositions, PTL
  <2> QED BY <2>1
<1>3. Board!Position' = Board!Position
  BY DEF Board!Position, Toggle
<1> QED BY <1>1, <1>2, <1>3 DEF Board!Ask

\* sendMessage adds one command.
LEMMA SendAdds ==
  ASSUME ChannelInv, NEW p, p.toggle \in Toggle, p.on \in BOOLEAN,
         p = [toggle |-> p.toggle, on |-> p.on], SendMessage(p.toggle, p.on)
  PROVE  commanded' = commanded \union {p} /\ device' = device /\ alive' = alive /\ alive
<1>1. /\ issued \in Nat /\ issued + 1 \in Worker
      /\ command \in [Worker -> Command \union {NoCommand}]
  BY MaxCommandsAssumption DEF SendMessage, ChannelInv, ChannelTypeOK, Worker
<1>2. PICK n \in Worker : n = issued + 1
  BY <1>1
<1>3. Started' = Started \union {n} /\ n \notin Started /\ Started \subseteq Worker
  BY <1>1, <1>2, MaxCommandsAssumption DEF SendMessage, Started, ChannelInv, ChannelTypeOK,
     Worker
<1>4. command'[n] = p /\ \A w \in Started : command'[w] = command[w]
  BY <1>1, <1>2, <1>3 DEF SendMessage
<1> QED BY <1>3, <1>4 DEF commanded, SendMessage

\* "Toggle" confirms the question of its dialog, on the page or left over.
LEMMA ConfirmStep ==
  ASSUME HomeInv, Confirm
  PROVE  Board!Confirm
<1> DEFINE p == panel.target
           rest == {q.target : q \in leftover}
<1>1. /\ visible /\ panel.showing /\ panel \in Panels
      /\ leftover' = leftover /\ SendMessage(p.toggle, p.on)
  BY DEF Confirm, ClickToggle, HomeInv, PanelInv, PanelTypeOK
<1>2. p = [toggle |-> p.toggle, on |-> p.on] /\ p.toggle \in Toggle /\ p.on \in BOOLEAN
  BY <1>1 DEF Panels, HomeInv, PanelInv, QuestionMatchesDisplay
<1>3. commanded' = commanded \union {p} /\ device' = device /\ alive' = alive /\ alive
  BY <1>1, <1>2, SendAdds DEF HomeInv
<1>4. question = {p} \union rest
  BY <1>1, <1>3 DEF question, shown
<1>5. question' = rest
  BY <1>1, <1>3, DismissedEffect DEF Confirm, ClickToggle, question, shown
<1> QED BY <1>3, <1>4, <1>5 DEF Board!Confirm

LEMMA ConfirmLeftoverStep ==
  ASSUME HomeInv, ConfirmLeftover
  PROVE  Board!Confirm
<1>1. PICK q \in leftover :
        CloseLeftover(q) /\ SendMessage(q.target.toggle, q.target.on)
  BY DEF ConfirmLeftover
<1> DEFINE p == q.target
<1>2. p = [toggle |-> p.toggle, on |-> p.on] /\ p.toggle \in Toggle /\ p.on \in BOOLEAN
  BY DEF HomeInv, PanelInv, PanelTypeOK, Questions
<1>3. commanded' = commanded \union {p} /\ device' = device /\ alive' = alive /\ alive
  BY <1>1, <1>2, SendAdds DEF HomeInv
<1>4. question = {r.target : r \in leftover}
  BY <1>1, <1>3 DEF question, shown, CloseLeftover
<1>5. question' = {r.target : r \in leftover \ {q}}
  BY <1>1, <1>3 DEF question, shown, CloseLeftover, viewVars
<1>6. question' \in {question, question \ {p}} /\ p \in question
  BY <1>4, <1>5
<1> QED BY <1>3, <1>6 DEF Board!Confirm

\* Of what happens in the network only the board's obeying shows.
LEMMA ChannelStep ==
  ASSUME HomeInv, OnChannel
  PROVE  Board!Move \/ UNCHANGED Board!boardVars
<1>1. UNCHANGED panelVars
  BY DEF OnChannel
<1>2. CASE \E d \in net : \E answer \in Answer : Obey(d, answer)
  <2> PICK d \in net, answer \in Answer : Obey(d, answer)
    BY <1>2
  <2>1. command[d.worker] \in commanded
    BY DEF commanded, HomeInv, ChannelInv, InFlight
  <2>2. device' = [device EXCEPT ![command[d.worker].toggle] = command[d.worker].on]
    BY DEF Obey
  <2>3. commanded' = commanded
    BY DEF commanded, Started, Obey
  <2>4. question' = question
    BY <1>1 DEF question, shown, panelVars, viewVars, Obey
  <2> QED BY <2>1, <2>2, <2>3, <2>4 DEF Board!Move
<1>3. CASE ~\E d \in net : \E answer \in Answer : Obey(d, answer)
  <2>1. alive' = alive /\ device' = device /\ command' = command /\ issued' = issued
    BY <1>3 DEF OnChannel, ShowReply, WorkerStep, OpenSocket, IOFails, Send, Receive,
       NetStep, Lose, Duplicate
  <2>2. commanded' = commanded
    BY <2>1 DEF commanded, Started
  <2>3. question' = question
    BY <1>1, <2>1 DEF question, shown, panelVars, viewVars
  <2> QED BY <2>1, <2>2, <2>3 DEF Board!boardVars
<1> QED BY <1>2, <1>3

\* The screen, the network and the board together implement SwitchBoard.
THEOREM Refinement == HomeSpec => MovesOnlyAsConfirmed
<1>1. HomeInit => Board!Init
  <2> SUFFICES ASSUME HomeInit PROVE Board!Init
    OBVIOUS
  <2>1. Started = {} /\ ~panel.showing
    BY NewPanelType DEF HomeInit, ChannelInit, PanelInit, Started
  <2> QED BY <2>1 DEF Board!Init, HomeInit, ChannelInit, PanelInit, question, shown, commanded
<1>2. HomeInv /\ HomeInv' /\ [HomeNext]_homeVars => [Board!Next]_(Board!boardVars)
  <2> SUFFICES ASSUME HomeInv, HomeInv', [HomeNext]_homeVars
               PROVE  [Board!Next]_(Board!boardVars)
    OBVIOUS
  <2>1. CASE Confirm
    BY <2>1, ConfirmStep DEF Board!Next
  <2>2. CASE OnPanel
    <3>1. device' = device /\ command' = command /\ issued' = issued
      BY <2>2 DEF OnPanel, channelVars
    <3> QED BY <3>1, QuestionStep DEF HomeInv, Board!Next
  <2>3. CASE OnChannel
    BY <2>3, ChannelStep DEF Board!Next
  <2>4. CASE Crash \/ Close \/ Launch
    <3>1. device' = device /\ command' = command /\ issued' = issued
      BY <2>4 DEF Crash, ToggleWithoutActivity, Close, Launch, NullReply, Kill, ProcessDies,
         Relaunch
    <3> QED BY <3>1, QuestionStep DEF HomeInv, Board!Next
  <2>5. CASE UNCHANGED homeVars
    BY <2>5 DEF homeVars, panelVars, viewVars, channelVars, Board!boardVars, question, shown,
       commanded, Started
  <2>6. CASE ConfirmLeftover
    BY <2>6, ConfirmLeftoverStep DEF Board!Next
  <2> QED BY <2>1, <2>2, <2>3, <2>4, <2>5, <2>6 DEF HomeNext
<1> QED BY <1>1, <1>2, HomeInvariant, PTL DEF HomeSpec, MovesOnlyAsConfirmed, Board!Spec

=============================================================================
