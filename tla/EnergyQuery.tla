---------------------------- MODULE EnergyQuery ----------------------------
(***************************************************************************)
(* The queries of EnergyFragment: three buttons, one progress dialog, and  *)
(* answers that come back on the main thread when Volley has them.         *)
(*                                                                         *)
(* Every instance of the fragment has one pDialog, made by onCreateView,   *)
(* shown by a query and dismissed at the end of its listener.  The dialog  *)
(* cannot be cancelled, and while it is up the user reaches nothing else.  *)
(* But a page is left in two steps: a choice of the bottom bar, the drawer *)
(* or the Back key is executed by a later message, and an activity that    *)
(* has called finish reacts until it is destroyed.  Nothing cancels a      *)
(* request when the fragment goes: its listener runs on the instance that  *)
(* asked, whatever became of it.                                           *)
(*                                                                         *)
(* External: Volley answers requests in any order, each once; a fragment   *)
(* on the back stack keeps its context, one that left for good has none    *)
(* (Toast.makeText then throws); a dialog stays up when its page goes; the *)
(* dialog of a destroyed activity still says isShowing and throws when it  *)
(* is dismissed; a finger, or the Back key, that is down when a dialog     *)
(* opens still acts if it is lifted before the dialog has the focus, and   *)
(* one that goes down later meets the dialog.                              *)
(*                                                                         *)
(* The texts an answer writes are left out.                                *)
(***************************************************************************)
EXTENDS Integers, FiniteSets

CONSTANTS
  Instances,  \* fragment instances; a gone one is used again
  MaxFingers, \* fingers on the screen at the same time, the Back key included
  Slots,      \* bound: requests in flight
  MaxComing   \* bound: changes of page chosen and not executed

ASSUME QueryAssumption ==
  /\ IsFiniteSet(Instances) /\ IsFiniteSet(Slots)
  /\ MaxFingers \in Nat /\ MaxComing \in Nat

Buttons == {"balance", "consumption", "import"}

\* What leads away from the page: bottom bar, drawer, menu, Back key.
WayOut == "way out"

\* How a request ends: a JSONObject with rows, with an empty "data", one that
\* does not parse, none at all, or a VolleyError.  The import listener reads no
\* "data", the balance listener asks whether there is an object.  What no
\* listener asks is an action of its own, NoObject.
Outcomes(button) ==
  {"rows", "bad", "error"}
    \union (IF button = "import" THEN {} ELSE {"empty"})
    \union (IF button = "balance" THEN {"null"} ELSE {})

NoRequest == [button |-> "none"]

VARIABLES
  running,     \* the process is alive
  finishing,   \* the activity has called finish and is not destroyed yet
  fragment,    \* each instance: "attached" (on screen), "parked", "gone"
  coming,      \* changes of page chosen and not executed
  pDialog,     \* each instance: "hidden", "showing", "leaked"
  orphaned,    \* a dialog is up that no instance refers to any more
  pressed,     \* buttons and ways out under a finger
  inFlight,    \* each slot: the request and the instance that made it
  emptied,     \* history: instances whose dialog outlived an answer without data
  exposed      \* history: since something has been in flight, a query was not
               \* alone (see Query) or the activity was recreated

pageVars == <<finishing, fragment, coming>>
dialogVars == <<pDialog, orphaned, emptied>>
queryVars == <<running, pageVars, dialogVars, pressed, inFlight, exposed>>

Attached == {i \in Instances : fragment[i] = "attached"}
Parked == {i \in Instances : fragment[i] = "parked"}
Live == Attached \union Parked
Showing == {i \in Instances : pDialog[i] = "showing"}
Blocked == orphaned \/ Showing # {}
Waiting == {s \in Slots : inFlight[s] # NoRequest}
WaitingOf(i) == {s \in Waiting : inFlight[s].owner = i}

\* Instances nothing is left of: no request, no dialog.
Unused == {i \in Instances \ Live : i \notin Showing /\ WaitingOf(i) = {}}

(***************************************************************************)
(* The process starts with the energy page opened.                         *)
(***************************************************************************)

StartsWith(i) ==
  /\ running = TRUE
  /\ finishing = FALSE
  /\ fragment = [j \in Instances |-> IF j = i THEN "attached" ELSE "gone"]
  /\ coming = 0
  /\ pDialog = [j \in Instances |-> "hidden"]
  /\ orphaned = FALSE
  /\ pressed = {}
  /\ inFlight = [s \in Slots |-> NoRequest]
  /\ emptied = {}
  /\ exposed = FALSE

QueryInit == \E i \in Instances : StartsWith(i)

(***************************************************************************)
(* The user and the page.                                                  *)
(***************************************************************************)

TouchDown(control) ==
  /\ running
  /\ control \in Buttons => Attached # {}
  /\ ~Blocked
  /\ Cardinality(pressed) < MaxFingers
  /\ pressed' = pressed \union {control}
  /\ UNCHANGED <<running, pageVars, dialogVars, inFlight, exposed>>

\* The dialog takes the focus from the page: nothing is pressed now.
LoseFocus ==
  /\ running
  /\ Blocked
  /\ pressed # {}
  /\ pressed' = {}
  /\ UNCHANGED <<running, pageVars, dialogVars, inFlight, exposed>>

\* A query alone: no other finger is on the page, no change of page is under
\* way and the activity is to stay.
Alone(button) == pressed = {button} /\ coming = 0 /\ ~finishing

\* Mutant of Query: no showpDialog.
Query_noDialog(button) ==
  /\ running
  /\ button \in pressed
  /\ pressed' = pressed \ {button}
  /\ \E i \in Attached, s \in Slots \ Waiting :
       inFlight' = [inFlight EXCEPT ![s] = [button |-> button, owner |-> i]]
  /\ exposed' = (exposed \/ ~Alone(button))
  /\ UNCHANGED <<running, pageVars, dialogVars>>

\* onClick: makeBalanceRequest, makeConsumptionRequest or makeImportRequest.
Query(button) ==
  /\ running
  /\ button \in pressed
  /\ pressed' = pressed \ {button}
  /\ \E i \in Attached, s \in Slots \ Waiting :
       /\ pDialog' = [pDialog EXCEPT ![i] = "showing"]
       /\ inFlight' = [inFlight EXCEPT ![s] = [button |-> button, owner |-> i]]
  /\ exposed' = (exposed \/ ~Alone(button))
  /\ UNCHANGED <<running, pageVars, orphaned, emptied>>

\* The views of the instances in new are created, each with a dialog of its
\* own; a dialog that is up from before has nobody left to dismiss it.
CreateViews(new) ==
  /\ orphaned' = (orphaned \/ new \intersect Showing # {})
  /\ pDialog' = [i \in Instances |-> IF i \in new THEN "hidden" ELSE pDialog[i]]
  /\ emptied' = emptied \ new

\* The bottom bar, the drawer, or Back to the home page: commit and post only
\* ask for the change.
ChoosePage ==
  /\ running
  /\ WayOut \in pressed
  /\ coming < MaxComing
  /\ pressed' = pressed \ {WayOut}
  /\ coming' = coming + 1
  /\ UNCHANGED <<running, finishing, fragment, dialogVars, inFlight, exposed>>

\* The message is executed: the pages of the container go, to the back stack
\* or for good, and another page comes, which may be a new energy page.
ReplacePage ==
  /\ running
  /\ coming > 0
  /\ coming' = coming - 1
  /\ \E kept \in SUBSET Attached, new \in {{}} \union {{i} : i \in Unused} :
       /\ fragment' = [i \in Instances |-> IF i \in new THEN "attached"
                                          ELSE IF i \in kept THEN "parked"
                                          ELSE IF i \in Attached THEN "gone"
                                          ELSE fragment[i]]
       /\ CreateViews(new)
  /\ pressed' = pressed \ Buttons
  /\ UNCHANGED <<running, finishing, inFlight, exposed>>

\* Back: what the newest entry of the back stack added goes for good, what it
\* removed returns, at once.
PopPage ==
  /\ running
  /\ WayOut \in pressed
  /\ \E back \in SUBSET Parked, away \in {{}} \union {{i} : i \in Live} :
       /\ away \intersect back = {}
       /\ fragment' = [i \in Instances |-> IF i \in back THEN "attached"
                                          ELSE IF i \in away THEN "gone"
                                          ELSE fragment[i]]
       /\ CreateViews(back)
  /\ pressed' = {}
  /\ UNCHANGED <<running, finishing, coming, inFlight, exposed>>

\* Logout, pairing, or Back with nothing to pop: finish returns at once, and
\* the activity goes on until the system destroys it.
Finish ==
  /\ running
  /\ WayOut \in pressed
  /\ pressed' = pressed \ {WayOut}
  /\ finishing' = TRUE
  /\ UNCHANGED <<running, fragment, coming, dialogVars, inFlight, exposed>>

\* onDestroy: the fragments go, a dialog that is up is one of a dead activity,
\* and what was posted to the activity finds it gone.
Destroy ==
  /\ running
  /\ finishing
  /\ finishing' = FALSE
  /\ fragment' = [i \in Instances |-> "gone"]
  /\ coming' = 0
  /\ pDialog' = [i \in Instances |-> IF i \in Showing THEN "leaked" ELSE pDialog[i]]
  /\ orphaned' = FALSE
  /\ emptied' = {}
  /\ pressed' = {}
  /\ UNCHANGED <<running, inFlight, exposed>>

\* The activity is destroyed and made again: new instances take the places of
\* the old (an instance with nothing in flight keeps its number: its old self is
\* not heard of again), and a dialog that was up is one of a dead activity.
Recreate ==
  /\ running
  /\ ~finishing
  /\ \E new \in [Live -> Instances] :
       LET Made == {new[i] : i \in Live}
       IN /\ \A i \in Live : IF WaitingOf(i) = {} THEN new[i] = i ELSE new[i] \in Unused
          /\ \A i, j \in Live : new[i] = new[j] => i = j
          /\ fragment' = [k \in Instances |->
                            IF k \in Made THEN fragment[CHOOSE i \in Live : new[i] = k]
                            ELSE "gone"]
          /\ pDialog' = [k \in Instances |->
                           IF k \in Made THEN "hidden"
                           ELSE IF k \in Showing THEN "leaked" ELSE pDialog[k]]
  /\ coming' = 0
  /\ orphaned' = FALSE
  /\ emptied' = {}
  /\ pressed' = {}
  /\ exposed' = (exposed \/ Waiting # {})
  /\ UNCHANGED <<running, finishing, inFlight>>

(***************************************************************************)
(* An answer.                                                              *)
(***************************************************************************)

HasContext(i) == i \in Live

\* An exception that nobody catches, on the main thread.
Throws == running' = FALSE /\ UNCHANGED dialogVars

\* hidepDialog, the end of a listener: a leaked dialog is no window any more
\* (IllegalArgumentException).
Hides(i) ==
  IF pDialog[i] = "leaked"
  THEN Throws
  ELSE /\ pDialog' = [pDialog EXCEPT ![i] = "hidden"]
       /\ emptied' = emptied \ {i}
       /\ UNCHANGED <<running, orphaned>>

\* An early return, before hidepDialog.
Returns(i) ==
  /\ emptied' = emptied \union ({i} \intersect Showing)
  /\ UNCHANGED <<running, pDialog, orphaned>>

\* Mutant of ToastAndHide: the error listener does not hide the dialog.
ToastAndHide_staysUp(i) ==
  IF HasContext(i) THEN UNCHANGED <<running, dialogVars>> ELSE Throws

\* The catch block or onErrorResponse: a toast, which needs a context, then
\* hidepDialog.
ToastAndHide(i) == IF HasContext(i) THEN Hides(i) ELSE Throws

\* onResponse and onErrorResponse.
Deliver(s, outcome) ==
  /\ running
  /\ s \in Waiting
  /\ outcome \in Outcomes(inFlight[s].button)
  /\ inFlight' = [inFlight EXCEPT ![s] = NoRequest]
  /\ LET i == inFlight[s].owner
     IN \/ outcome = "rows" /\ Hides(i)
        \/ outcome \in {"bad", "error"} /\ ToastAndHide(i)
        \/ outcome = "empty" /\ Returns(i)
        \/ outcome = "null" /\ IF HasContext(i) THEN Returns(i) ELSE Throws
  /\ exposed' = (exposed /\ Waiting # {s})
  /\ UNCHANGED <<pageVars, pressed>>

\* (JSONObject) dataArray.get(i) of a row that is none, or response.toString() of
\* no response (balance asks first): the exception is caught by nobody.
NoObject(s) ==
  /\ running
  /\ s \in Waiting
  /\ Throws
  /\ inFlight' = [inFlight EXCEPT ![s] = NoRequest]
  /\ UNCHANGED <<pageVars, pressed, exposed>>

(***************************************************************************)
(* The process.                                                            *)
(***************************************************************************)

Kill ==
  /\ running
  /\ running' = FALSE
  /\ inFlight' = [s \in Slots |-> NoRequest]
  /\ UNCHANGED <<pageVars, dialogVars, pressed, exposed>>

Relaunch ==
  /\ ~running
  /\ running' = TRUE
  /\ finishing' = FALSE
  /\ \E i \in Instances :
       fragment' = [j \in Instances |-> IF j = i THEN "attached" ELSE "gone"]
  /\ coming' = 0
  /\ pDialog' = [j \in Instances |-> "hidden"]
  /\ orphaned' = FALSE
  /\ pressed' = {}
  /\ inFlight' = [s \in Slots |-> NoRequest]
  /\ emptied' = {}
  /\ exposed' = FALSE

DeliverAny(s) == \E outcome \in {"rows", "empty", "null", "bad", "error"} : Deliver(s, outcome)

QueryNext ==
  \/ \E control \in Buttons \union {WayOut} : TouchDown(control)
  \/ LoseFocus
  \/ \E button \in Buttons : Query(button)
  \/ ChoosePage
  \/ ReplacePage
  \/ PopPage
  \/ Finish
  \/ Destroy
  \/ Recreate
  \/ \E s \in Slots : DeliverAny(s) \/ NoObject(s)
  \/ Kill
  \/ Relaunch

QuerySpec == QueryInit /\ [][QueryNext]_queryVars

\* Volley retries a request once and then delivers its error.
FairQuerySpec == QuerySpec /\ \A s \in Slots : WF_queryVars(DeliverAny(s))

(***************************************************************************)
(* Properties.                                                             *)
(***************************************************************************)

\* Every variable has its type.
QueryTypeOK ==
  /\ running \in BOOLEAN
  /\ finishing \in BOOLEAN
  /\ fragment \in [Instances -> {"attached", "parked", "gone"}]
  /\ coming \in 0..MaxComing
  /\ pDialog \in [Instances -> {"hidden", "showing", "leaked"}]
  /\ orphaned \in BOOLEAN
  /\ pressed \subseteq Buttons \union {WayOut}
  /\ inFlight \in [Slots -> {NoRequest} \union [button : Buttons, owner : Instances]]
  /\ emptied \subseteq Instances
  /\ exposed \in BOOLEAN

\* The modal dialog protects the listeners: a query that was alone when it was
\* clicked still finds its context and its dialog when its answer comes, unless
\* the activity was recreated meanwhile, so that no answer made of the
\* objects it should have throws.  Whatever the user does after the click, with the page, the
\* bar, the drawer, the menu or the Back key, comes too late.
ModalProtects ==
  [][ running /\ (\E s \in Slots : DeliverAny(s)) /\ ~exposed => running' ]_queryVars

\* A page waits for something: a dialog that is up, and that a page can still
\* take down, has a request of that page in flight, unless an answer was without
\* data; even if the page was left or replaced under its dialog.
WaitIsExplained ==
  running => \A i \in Showing : WaitingOf(i) # {} \/ i \in emptied

\* The user is let go in the end: a screen that a dialog covers becomes free,
\* unless an answer was without data, or the page was popped back under its own
\* dialog and has a new one.
QueryConcludes ==
  (running /\ Blocked) ~> (~running \/ ~Blocked \/ orphaned \/ emptied # {})
=============================================================================
