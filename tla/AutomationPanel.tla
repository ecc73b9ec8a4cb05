--------------------------- MODULE AutomationPanel ---------------------------
(***************************************************************************)
(* The switches of AutomationFragment and the dialog that asks before a    *)
(* switch is really toggled.                                               *)
(*                                                                         *)
(* A ToggleButton flips as soon as it is tapped; its listener then shows   *)
(* the one popupDialog of the fragment and binds the dialog's buttons to   *)
(* that toggle and that position.  "Toggle" sends the command, "Don't      *)
(* Toggle" and the close mark flip the toggle back; the listener is told   *)
(* to ignore that flip by the one field toggledProgrammatically, which all *)
(* three toggles share.  Every handler runs to its end on the main thread, *)
(* so a handler is one action and the field's rise and fall inside it are  *)
(* the composition of the operators below.                                 *)
(*                                                                         *)
(* What the framework adds, and the code leaves to it: a dialog closes on  *)
(* the Back key (setCancelable is not called); a finger already on a       *)
(* second toggle when the dialog opens still taps it (split touches) if it *)
(* is lifted before the dialog's window takes the focus; the saved state   *)
(* of a view is restored by setChecked after onCreateView has attached the *)
(* listeners; a change of page is executed some time after it was chosen,  *)
(* so a dialog may be left over another page, where getActivity() is null  *)
(* if the fragment is not on the back stack.                               *)
(***************************************************************************)
EXTENDS Toggles, Sequences, FiniteSets

CONSTANTS
  MaxFingers,   \* fingers that can rest on toggles at the same time
  MaxParked     \* bound: fragment instances waiting on the back stack

VARIABLES
  panel,        \* the fragment's fields and its views
  touching,     \* toggles with a finger on them
  visible,      \* the fragment's view exists
  parked,       \* instances on the back stack, the most recent last
  leftover,     \* questions of pages that were left under their dialog
  confirmed,    \* history: the position last answered with "Toggle", per toggle
  tapped,       \* history: the dialog was opened by a tap
  drifted       \* history: toggles left flipped by a question the view saw no
                \* answer to

viewVars == <<panel, confirmed, tapped, drifted>>
panelVars == <<viewVars, touching, visible, parked, leftover>>

AllOff == [t \in Toggle |-> FALSE]

NoTarget == [toggle |-> 0, on |-> FALSE]

(***************************************************************************)
(* The steps handlers are composed of.                                     *)
(***************************************************************************)

\* onCreateView of a new instance: a new dialog, every toggle off.
NewPanel == [checked |-> AllOff, toggledProgrammatically |-> FALSE,
             showing |-> FALSE, target |-> NoTarget]

\* Mutant: the flag is not lowered by the flip it was raised for.
CheckedChanged_flagStays(p, t) ==
  IF p.toggledProgrammatically
  THEN p
  ELSE [p EXCEPT !.showing = TRUE, !.target = [toggle |-> t, on |-> p.checked[t]]]

\* The listener of toggle t, called with the position t has now.
CheckedChanged(p, t) ==
  IF p.toggledProgrammatically
  THEN [p EXCEPT !.toggledProgrammatically = FALSE]
  ELSE [p EXCEPT !.showing = TRUE, !.target = [toggle |-> t, on |-> p.checked[t]]]

\* CompoundButton.toggle(): flip, then call the listener.
Toggled(p, t) == CheckedChanged([p EXCEPT !.checked[t] = ~@], t)

Dismissed(p) == [p EXCEPT !.showing = FALSE]

\* Mutant: the toggle is not flipped back.
Declined_stays(p) == Dismissed(p)

\* Mutant: the dialog is not dismissed.
Declined_open(p) ==
  Toggled([p EXCEPT !.toggledProgrammatically = TRUE], p.target.toggle)

\* btnNotToggle and txtClose: dismiss, raise the field, flip the toggle back.
Declined(p) ==
  Toggled([Dismissed(p) EXCEPT !.toggledProgrammatically = TRUE], p.target.toggle)

(***************************************************************************)
(* The view state of an instance is restored in layout order, one          *)
(* setChecked per toggle that was on; each one calls the toggle's listener.*)
(* The first is ignored if the field is up, the last one keeps the dialog. *)
(***************************************************************************)
RestoreViewState(saved, programmatic) ==
  LET on     == {t \in Toggle : saved[t]}
      asking == {t \in on : programmatic => \E u \in on : u < t}
      quiet  == [NewPanel EXCEPT !.checked = saved,
                                 !.toggledProgrammatically = programmatic /\ on = {}]
  IN \/ asking = {} /\ panel' = quiet
     \/ \E last \in asking :
          /\ \A t \in asking : t <= last
          /\ panel' = [quiet EXCEPT !.showing = TRUE,
                                    !.target = [toggle |-> last, on |-> TRUE]]

(***************************************************************************)
(* Actions.                                                                *)
(***************************************************************************)

PanelInit ==
  /\ panel = NewPanel
  /\ touching = {}
  /\ visible = TRUE
  /\ parked = <<>>
  /\ leftover = {}
  /\ confirmed = AllOff
  /\ tapped = FALSE
  /\ drifted = {}

\* A finger goes down on a toggle; an open dialog covers the toggles.
TouchDown(t) ==
  /\ visible
  /\ ~panel.showing
  /\ leftover = {}
  /\ t \notin touching
  /\ Cardinality(touching) < MaxFingers
  /\ touching' = touching \union {t}
  /\ UNCHANGED <<viewVars, visible, parked, leftover>>

\* The toggles that are adrift if the view never sees the answer of its dialog.
Unanswered ==
  IF panel.showing /\ tapped THEN drifted \union {panel.target.toggle} ELSE drifted

\* It is lifted: the toggle is tapped, even if a dialog has opened meanwhile.
TouchUp(t) ==
  /\ t \in touching
  /\ touching' = touching \ {t}
  /\ panel' = Toggled(panel, t)
  /\ tapped' = TRUE
  /\ drifted' = Unanswered
  /\ UNCHANGED <<visible, parked, leftover, confirmed>>

\* The dialog's window takes the focus: a finger still down taps nothing.
LoseFocus ==
  /\ visible
  /\ panel.showing
  /\ touching # {}
  /\ touching' = {}
  /\ UNCHANGED <<viewVars, visible, parked, leftover>>

\* "Toggle": sendMessage with the position the dialog was bound to.
ClickToggle ==
  /\ visible
  /\ panel.showing
  /\ panel' = Dismissed(panel)
  /\ confirmed' = [confirmed EXCEPT ![panel.target.toggle] = panel.target.on]
  /\ drifted' = drifted \ {panel.target.toggle}
  /\ UNCHANGED <<touching, visible, parked, leftover, tapped>>

\* "Don't Toggle" or the close mark.  A dialog that no tap opened asks about
\* a position already confirmed, so declining it is what moves the switch away.
ClickNotToggle ==
  /\ visible
  /\ panel.showing
  /\ panel' = Declined(panel)
  /\ drifted' = IF tapped THEN drifted ELSE drifted \union {panel.target.toggle}
  /\ UNCHANGED <<touching, visible, parked, leftover, confirmed, tapped>>

\* The Back key: the dialog is dismissed, no listener runs.
PressBack ==
  /\ visible
  /\ panel.showing
  /\ panel' = Dismissed(panel)
  /\ drifted' = Unanswered
  /\ UNCHANGED <<touching, visible, parked, leftover, confirmed, tapped>>

\* Without a view there is nothing on the screen to speak of.
NoView ==
  /\ panel' = NewPanel
  /\ confirmed' = AllOff
  /\ tapped' = FALSE
  /\ drifted' = {}

\* Another fragment replaces this one, which keeps its fields on the back
\* stack (loadFragment) or is dropped (loadHomeFragment).  Both only ask for the
\* change: when it comes the dialog may be open, and stays.
NavigateAway(keep) ==
  /\ visible
  /\ keep => Len(parked) < MaxParked
  /\ visible' = FALSE
  /\ touching' = {}
  /\ parked' = IF keep
               THEN Append(parked, [checked |-> panel.checked,
                      toggledProgrammatically |-> panel.toggledProgrammatically,
                      confirmed |-> confirmed, drifted |-> Unanswered])
               ELSE parked
  /\ leftover' = IF panel.showing
                 THEN leftover \union {[target |-> panel.target, kept |-> keep]}
                 ELSE leftover
  /\ NoView

\* A dialog left over another page is closed.  The Back key runs no listener,
\* and "Don't Toggle" flips a view that is gone and saved no more.
CloseLeftover(q) ==
  /\ q \in leftover
  /\ ~panel.showing
  /\ leftover' = leftover \ {q}
  /\ UNCHANGED <<viewVars, touching, visible, parked>>

\* The back stack is popped: onCreateView again, then the saved view state.  (Not
\* under a dialog of the instance itself, see the README.)
Return ==
  /\ ~visible
  /\ parked # <<>>
  /\ \A q \in leftover : ~q.kept
  /\ LET back == parked[Len(parked)]
     IN /\ RestoreViewState(back.checked, back.toggledProgrammatically)
        /\ confirmed' = back.confirmed
        /\ drifted' = back.drifted
  /\ parked' = SubSeq(parked, 1, Len(parked) - 1)
  /\ visible' = TRUE
  /\ tapped' = FALSE
  /\ UNCHANGED <<touching, leftover>>

\* The navigation bar or the drawer opens a new AutomationFragment.
OpenFresh ==
  /\ ~visible
  /\ visible' = TRUE
  /\ panel' = NewPanel
  /\ confirmed' = AllOff
  /\ tapped' = FALSE
  /\ drifted' = {}
  /\ UNCHANGED <<touching, parked, leftover>>

\* New instances on the back stack: their fields are not saved.
ParkedAnew ==
  parked' = [i \in DOMAIN parked |-> [parked[i] EXCEPT !.toggledProgrammatically = FALSE]]

\* A configuration change: new instances from the saved view state.  Fields
\* and open dialogs are not saved.
Recreate ==
  /\ visible
  /\ RestoreViewState(panel.checked, FALSE)
  /\ ParkedAnew
  /\ leftover' = {}
  /\ touching' = {}
  /\ tapped' = FALSE
  /\ drifted' = Unanswered
  /\ UNCHANGED <<visible, confirmed>>

\* The same on another page.
RecreateElsewhere ==
  /\ ~visible
  /\ ParkedAnew
  /\ leftover' = {}
  /\ UNCHANGED <<viewVars, touching, visible>>

\* The process dies and the app is started anew.  It dies of "Toggle", too, on
\* a dialog whose page is gone: Toast.makeText needs getActivity().
Restart ==
  /\ panel' = NewPanel
  /\ touching' = {}
  /\ visible' = TRUE
  /\ parked' = <<>>
  /\ leftover' = {}
  /\ confirmed' = AllOff
  /\ tapped' = FALSE
  /\ drifted' = {}

PanelNext ==
  \/ \E t \in Toggle : TouchDown(t)
  \/ \E t \in Toggle : TouchUp(t)
  \/ LoseFocus
  \/ ClickToggle
  \/ ClickNotToggle
  \/ PressBack
  \/ \E keep \in BOOLEAN : NavigateAway(keep)
  \/ \E q \in leftover : CloseLeftover(q)
  \/ Return
  \/ OpenFresh
  \/ Recreate
  \/ RecreateElsewhere
  \/ Restart

PanelSpec == PanelInit /\ [][PanelNext]_panelVars

(***************************************************************************)
(* Properties.                                                             *)
(***************************************************************************)

Panels == [checked : [Toggle -> BOOLEAN], toggledProgrammatically : BOOLEAN,
           showing : BOOLEAN, target : [toggle : 0..NumToggles, on : BOOLEAN]]

Instances == [checked : [Toggle -> BOOLEAN], toggledProgrammatically : BOOLEAN,
              confirmed : [Toggle -> BOOLEAN], drifted : SUBSET Toggle]

Questions == [target : [toggle : Toggle, on : BOOLEAN], kept : BOOLEAN]

\* Every variable has its type.
PanelTypeOK ==
  /\ panel \in Panels
  /\ touching \in SUBSET Toggle
  /\ visible \in BOOLEAN
  /\ parked \in Seq(Instances)
  /\ leftover \subseteq Questions
  /\ confirmed \in [Toggle -> BOOLEAN]
  /\ tapped \in BOOLEAN
  /\ drifted \in SUBSET Toggle

\* The question on the screen is about the position the screen shows: while
\* the dialog is open, the toggle its buttons are bound to is in the position
\* "Toggle" would send, whichever toggles were tapped, declined or restored
\* since the buttons were bound.
QuestionMatchesDisplay ==
  visible /\ panel.showing =>
    /\ panel.target.toggle \in Toggle
    /\ panel.checked[panel.target.toggle] = panel.target.on

\* A toggle stands where the user last answered "Toggle" for it, unless the
\* open dialog asks about it or a question about it was taken away unanswered
\* (Back key, a second finger, a new view or page): declining leaves no trace.
PositionsBacked ==
  /\ visible =>
       \A t \in Toggle : panel.checked[t] # confirmed[t] =>
          \/ panel.showing /\ panel.target.toggle = t
          \/ t \in drifted
  /\ \A i \in DOMAIN parked : \A t \in Toggle :
       parked[i].checked[t] # parked[i].confirmed[t] => t \in parked[i].drifted

\* No tap is swallowed: every tap on a toggle leaves the dialog open and bound
\* to that toggle, whatever toggledProgrammatically went through before.
TapAsks ==
  [][\A t \in Toggle : TouchUp(t) =>
       panel'.showing /\ panel'.target = [toggle |-> t, on |-> panel'.checked[t]]]_panelVars
=============================================================================
