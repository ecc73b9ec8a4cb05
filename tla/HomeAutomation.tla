--------------------------- MODULE HomeAutomation ---------------------------
(***************************************************************************)
(* The automation screen as a whole: the panel of AutomationPanel, whose   *)
(* "Toggle" calls the sendMessage of CommandChannel, in one process.  When *)
(* the process ends the panel goes with it; the datagrams do not.          *)
(***************************************************************************)
EXTENDS AutomationPanel, CommandChannel

VARIABLE saved   \* the system holds the saved state of the killed activity

homeVars == <<panelVars, channelVars, saved>>

HomeInit ==
  /\ PanelInit
  /\ ChannelInit
  /\ saved = FALSE

\* Mutant: the ON listener sends the OFF message and the other way round.
Confirm_opposite ==
  /\ ClickToggle
  /\ SendMessage(panel.target.toggle, ~panel.target.on)
  /\ UNCHANGED saved

\* btnToggle's listener: the command is the position the dialog was bound to.
Confirm ==
  /\ ClickToggle
  /\ SendMessage(panel.target.toggle, panel.target.on)
  /\ UNCHANGED saved

\* The same on a dialog left over another page, if its fragment is kept.
ConfirmLeftover ==
  /\ \E q \in leftover :
       /\ q.kept
       /\ CloseLeftover(q)
       /\ SendMessage(q.target.toggle, q.target.on)
  /\ UNCHANGED saved

\* Every other handler of the panel leaves the network alone, as does an
\* activity that is finished and started anew in the same process.
OnPanel ==
  /\ alive
  /\ \/ \E t \in Toggle : TouchDown(t) \/ TouchUp(t)
     \/ LoseFocus
     \/ ClickNotToggle
     \/ PressBack
     \/ \E keep \in BOOLEAN : NavigateAway(keep)
     \/ \E q \in leftover : CloseLeftover(q)
     \/ Return
     \/ OpenFresh
     \/ Recreate
     \/ RecreateElsewhere
     \/ Restart
  /\ UNCHANGED channelVars
  /\ UNCHANGED saved

\* Workers, their Runnables, the network and the board leave the toggles alone.
OnChannel ==
  /\ \/ ShowReply
     \/ \E w \in Started : WorkerStep(w)
     \/ \E d \in net : NetStep(d)
  /\ UNCHANGED panelVars
  /\ UNCHANGED saved

\* "Toggle" on a dialog whose fragment is gone: getActivity() is null.
ToggleWithoutActivity ==
  /\ alive
  /\ ~panel.showing
  /\ \E q \in leftover : ~q.kept
  /\ ProcessDies

\* An exception on the main thread finishes the activity for good.
Crash ==
  /\ NullReply \/ ToggleWithoutActivity
  /\ saved' = FALSE
  /\ UNCHANGED panelVars

\* The system kills the process in the background and keeps the saved state,
\* or the user closes the app.
Close ==
  /\ Kill
  /\ saved' \in BOOLEAN
  /\ UNCHANGED panelVars

\* The app is started anew, or brought back with its saved state.
Launch ==
  /\ Relaunch
  /\ \/ ~saved /\ Restart
     \/ saved /\ Recreate
     \/ saved /\ RecreateElsewhere
  /\ saved' = FALSE

HomeNext == Confirm \/ ConfirmLeftover \/ OnPanel \/ OnChannel \/ Crash \/ Close \/ Launch

HomeSpec == HomeInit /\ [][HomeNext]_homeVars

(***************************************************************************)
(* Properties.                                                             *)
(***************************************************************************)

\* The dialogs and the network together are a SwitchBoard: the questions are
\* those on the screen, what is confirmed are the commands handed to a worker.
shown == IF panel.showing THEN {panel.target} ELSE {}

question == IF alive THEN shown \union {q.target : q \in leftover} ELSE {}

commanded == {command[w] : w \in Started}

Board == INSTANCE SwitchBoard
  WITH Toggles <- Toggle, confirmed <- commanded, switch <- device

\* A switch of the house moves only where the user, asked by the dialog about
\* this very position, answered "Toggle": through second taps, restored views,
\* stale dialogs, copies and late datagrams, crashes and restarts.
MovesOnlyAsConfirmed == Board!Spec

\* The exchange of worker w is over and settles where w's toggle is: no later
\* command, an answer of its own, no overlap with an earlier command.
Settled(w) ==
  /\ Latest(w)
  /\ data[w] # Null
  /\ w \notin stale
  /\ command[w].toggle \notin raced

\* The screen tells the truth about a switch whose exchange is settled: if the
\* shown instance's last answer is that command, the toggle stands where the
\* switch is, unless a question about it is open or was left unanswered.
DisplayTrue ==
  alive /\ visible =>
    \A w \in Started : \A t \in Toggle :
      /\ t = command[w].toggle
      /\ Settled(w)
      /\ confirmed[t] = command[w].on
      /\ t \notin drifted
      /\ ~(panel.showing /\ panel.target.toggle = t)
      => panel.checked[t] = device[t]
=============================================================================
