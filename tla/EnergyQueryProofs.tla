------------------------- MODULE EnergyQueryProofs -------------------------
(***************************************************************************)
(* The safety properties of EnergyQuery, for any number of fragment        *)
(* instances, fingers, changes of page under way and requests in flight.   *)
(***************************************************************************)
EXTENDS EnergyQuery, TLAPS

\* While a query that was alone waits, it is the only one; its page is on the
\* screen under its dialog; and nothing that could take the page away is left:
\* no finger from before the dialog, no change under way, no end of the activity.
Guarded ==
  running /\ ~exposed =>
    \A s \in Waiting :
      /\ \A u \in Waiting : u = s
      /\ inFlight[s].owner \in Attached \intersect Showing
      /\ pressed = {} /\ coming = 0 /\ ~finishing

\* The inductive invariant.
QueryInv == QueryTypeOK /\ WaitIsExplained /\ Guarded

Requests == [button : Buttons, owner : Instances]

-----------------------------------------------------------------------------
(***************************************************************************)
(* Helpers.                                                                *)
(***************************************************************************)

\* What is chosen and not executed stays within its bound.
LEMMA ComingBounds ==
  /\ 0 \in 0..MaxComing
  /\ \A c \in 0..MaxComing : /\ c < MaxComing => c + 1 \in 0..MaxComing
                             /\ c > 0 => c - 1 \in 0..MaxComing
BY QueryAssumption DEF QueryAssumption

\* The process starts with one page, nothing asked and every dialog hidden.
LEMMA StartInv == ASSUME NEW i \in Instances, StartsWith(i) PROVE QueryInv
<1>1. Waiting = {} /\ Showing = {}
  BY DEF StartsWith, Waiting, Showing
<1>2. QueryTypeOK
  BY ComingBounds DEF StartsWith, QueryTypeOK
<1> QED BY <1>1, <1>2 DEF QueryInv, WaitIsExplained, Guarded

\* A request is told from no request by its button.
LEMMA RequestType ==
  ASSUME QueryTypeOK, NEW s \in Waiting
  PROVE  s \in Slots /\ inFlight[s] \in Requests
BY DEF QueryTypeOK, Waiting, Requests

\* The properties of dialogs and requests depend on nothing else.
LEMMA ExplainedSame ==
  ASSUME WaitIsExplained, running, Showing' \subseteq Showing,
         emptied \intersect Showing' \subseteq emptied', UNCHANGED inFlight
  PROVE  WaitIsExplained'
BY DEF WaitIsExplained, WaitingOf, Waiting

\* While something guarded waits, the page is covered and nobody has a way out.
LEMMA NothingGuarded ==
  ASSUME QueryInv, running, ~exposed, ~Blocked \/ pressed # {} \/ coming # 0 \/ finishing
  PROVE  Waiting = {}
BY DEF QueryInv, Guarded, Blocked

\* What is guarded is lost only by a step that is possible while nothing is.
LEMMA NothingLost ==
  ASSUME QueryInv, running, ~Blocked \/ pressed # {} \/ coming # 0 \/ finishing,
         UNCHANGED <<inFlight, exposed>>
  PROVE  Guarded'
BY NothingGuarded DEF Guarded, Waiting

-----------------------------------------------------------------------------
(***************************************************************************)
(* The user and the page.                                                  *)
(***************************************************************************)

LEMMA TouchDownInv ==
  ASSUME QueryInv, NEW control \in Buttons \union {WayOut}, TouchDown(control)
  PROVE  QueryInv'
<1>1. QueryTypeOK'
  BY DEF TouchDown, pageVars, dialogVars, QueryInv, QueryTypeOK
<1>2. WaitIsExplained'
  BY ExplainedSame DEF TouchDown, dialogVars, QueryInv, Showing
<1>3. Guarded'
  BY NothingLost DEF TouchDown
<1> QED BY <1>1, <1>2, <1>3 DEF QueryInv

LEMMA LoseFocusInv == ASSUME QueryInv, LoseFocus PROVE QueryInv'
<1>1. QueryTypeOK'
  BY DEF LoseFocus, pageVars, dialogVars, QueryInv, QueryTypeOK
<1>2. WaitIsExplained'
  BY ExplainedSame DEF LoseFocus, dialogVars, QueryInv, Showing
<1>3. Guarded'
  BY NothingLost DEF LoseFocus
<1> QED BY <1>1, <1>2, <1>3 DEF QueryInv

\* A query leaves the dialog of its page up, and its request explains why; if it
\* was alone, it is guarded from now on.
LEMMA QueryKeepsInv ==
  ASSUME QueryInv, NEW button \in Buttons, Query(button)
  PROVE  QueryInv'
<1>1. PICK i \in Attached, s \in Slots \ Waiting :
        /\ pDialog' = [pDialog EXCEPT ![i] = "showing"]
        /\ inFlight' = [inFlight EXCEPT ![s] = [button |-> button, owner |-> i]]
  BY DEF Query
<1>2. i \in Instances /\ s \in Slots /\ QueryTypeOK
  BY DEF Attached, QueryInv
<1> DEFINE request == [button |-> button, owner |-> i]
<1>3. request \in Requests /\ request # NoRequest
  BY <1>2 DEF NoRequest, Buttons, Requests
<1>4. QueryTypeOK'
  BY <1>1, <1>2, <1>3 DEF Query, pageVars, QueryTypeOK, Requests
<1>5. /\ Waiting' = Waiting \union {s}
      /\ \A u \in Waiting : inFlight'[u] = inFlight[u]
      /\ inFlight'[s] = request
  BY <1>1, <1>2, <1>3 DEF Waiting, QueryTypeOK
<1>6. Showing' = Showing \union {i} /\ Attached' = Attached
  BY <1>1, <1>2 DEF Showing, Attached, QueryTypeOK, Query, pageVars
<1>7. WaitIsExplained'
  <2> SUFFICES ASSUME NEW j \in Showing' PROVE WaitingOf(j)' # {} \/ j \in emptied'
    BY DEF WaitIsExplained
  <2>1. CASE j = i
    <3>1. s \in WaitingOf(j)'
      BY <2>1, <1>5 DEF WaitingOf
    <3> QED BY <3>1
  <2>2. CASE j # i
    <3>1. j \in Showing /\ running
      BY <2>2, <1>6 DEF Query
    <3>2. WaitingOf(j) \subseteq WaitingOf(j)'
      BY <1>5 DEF WaitingOf
    <3> QED BY <3>1, <3>2 DEF QueryInv, WaitIsExplained, Query
  <2> QED BY <2>1, <2>2
<1>8. Guarded'
  <2> SUFFICES ASSUME ~exposed', NEW u \in Waiting'
               PROVE  /\ \A v \in Waiting' : v = u
                      /\ inFlight'[u].owner \in Attached' \intersect Showing'
                      /\ pressed' = {} /\ coming' = 0 /\ ~finishing'
    BY DEF Guarded
  <2>1. ~exposed /\ pressed = {button} /\ coming = 0 /\ ~finishing
    BY DEF Query, Alone
  <2>2. Waiting = {}
    BY <2>1, NothingGuarded DEF Query
  <2>3. Waiting' = {s} /\ pressed' = {}
    BY <2>1, <2>2, <1>5 DEF Query
  <2>4. inFlight'[s].owner \in Attached' \intersect Showing'
    BY <1>5, <1>6
  <2> QED BY <2>1, <2>3, <2>4 DEF Query, pageVars
<1> QED BY <1>4, <1>7, <1>8 DEF QueryInv

LEMMA ChoosePageInv == ASSUME QueryInv, ChoosePage PROVE QueryInv'
<1>1. QueryTypeOK'
  BY ComingBounds DEF ChoosePage, dialogVars, QueryInv, QueryTypeOK
<1>2. WaitIsExplained'
  BY ExplainedSame DEF ChoosePage, dialogVars, QueryInv, Showing
<1>3. Guarded'
  BY NothingLost DEF ChoosePage
<1> QED BY <1>1, <1>2, <1>3 DEF QueryInv

\* New views come with hidden dialogs, and leave the others as they were.
LEMMA ViewsCreated ==
  ASSUME QueryTypeOK, NEW new \in SUBSET Instances, CreateViews(new)
  PROVE  /\ Showing' = Showing \ new
         /\ emptied' = emptied \ new
         /\ pDialog' \in [Instances -> {"hidden", "showing", "leaked"}]
         /\ orphaned' \in BOOLEAN
BY DEF CreateViews, QueryTypeOK, Showing

LEMMA ReplacePageInv == ASSUME QueryInv, ReplacePage PROVE QueryInv'
<1>1. PICK kept \in SUBSET Attached, new \in {{}} \union {{i} : i \in Unused} :
        /\ fragment' = [i \in Instances |-> IF i \in new THEN "attached"
                                           ELSE IF i \in kept THEN "parked"
                                           ELSE IF i \in Attached THEN "gone"
                                           ELSE fragment[i]]
        /\ CreateViews(new)
  BY DEF ReplacePage
<1>2. new \in SUBSET Instances
  BY DEF Unused
<1>3. fragment' \in [Instances -> {"attached", "parked", "gone"}]
  BY <1>1 DEF QueryInv, QueryTypeOK
<1>4. QueryTypeOK'
  BY <1>1, <1>2, <1>3, ViewsCreated, ComingBounds DEF ReplacePage, QueryInv, QueryTypeOK
<1>5. WaitIsExplained'
  BY <1>1, <1>2, ViewsCreated, ExplainedSame DEF ReplacePage, QueryInv
<1>6. Guarded'
  BY NothingLost DEF ReplacePage
<1> QED BY <1>4, <1>5, <1>6 DEF QueryInv

LEMMA PopPageInv == ASSUME QueryInv, PopPage PROVE QueryInv'
<1>1. PICK back \in SUBSET Parked, away \in {{}} \union {{i} : i \in Live} :
        /\ fragment' = [i \in Instances |-> IF i \in back THEN "attached"
                                           ELSE IF i \in away THEN "gone"
                                           ELSE fragment[i]]
        /\ CreateViews(back)
  BY DEF PopPage
<1>2. back \in SUBSET Instances
  BY DEF Parked
<1>3. fragment' \in [Instances -> {"attached", "parked", "gone"}]
  BY <1>1 DEF QueryInv, QueryTypeOK
<1>4. QueryTypeOK'
  BY <1>1, <1>2, <1>3, ViewsCreated DEF PopPage, QueryInv, QueryTypeOK
<1>5. WaitIsExplained'
  BY <1>1, <1>2, ViewsCreated, ExplainedSame DEF PopPage, QueryInv
<1>6. Guarded'
  BY NothingLost DEF PopPage
<1> QED BY <1>4, <1>5, <1>6 DEF QueryInv

LEMMA FinishInv == ASSUME QueryInv, Finish PROVE QueryInv'
<1>1. QueryTypeOK'
  BY DEF Finish, dialogVars, QueryInv, QueryTypeOK
<1>2. WaitIsExplained'
  BY ExplainedSame DEF Finish, dialogVars, QueryInv, Showing
<1>3. Guarded'
  BY NothingLost DEF Finish
<1> QED BY <1>1, <1>2, <1>3 DEF QueryInv

LEMMA DestroyInv == ASSUME QueryInv, Destroy PROVE QueryInv'
<1>1. QueryTypeOK'
  BY ComingBounds DEF Destroy, QueryInv, QueryTypeOK
<1>2. Showing' = {}
  BY DEF Destroy, Showing
<1>3. Guarded'
  BY NothingLost DEF Destroy
<1> QED BY <1>1, <1>2, <1>3 DEF QueryInv, WaitIsExplained

\* The instances of a recreated activity are as many as the old ones, and no
\* dialog is up.
LEMMA RecreateInv == ASSUME QueryInv, Recreate PROVE QueryInv'
<1>1. PICK new \in [Live -> Instances] :
        LET Made == {new[i] : i \in Live}
        IN /\ fragment' = [k \in Instances |->
                             IF k \in Made THEN fragment[CHOOSE i \in Live : new[i] = k]
                             ELSE "gone"]
           /\ pDialog' = [k \in Instances |->
                            IF k \in Made THEN "hidden"
                            ELSE IF k \in Showing THEN "leaked" ELSE pDialog[k]]
  BY DEF Recreate
<1> DEFINE Made == {new[i] : i \in Live}
           Old(k) == CHOOSE i \in Live : new[i] = k
<1>2. ASSUME NEW k \in Instances PROVE fragment'[k] \in {"attached", "parked", "gone"}
  <2>1. CASE k \in Made
    <3>1. Old(k) \in Live
      BY <2>1
    <3>2. Old(k) \in Instances
      BY <3>1 DEF Live, Attached, Parked
    <3>3. fragment'[k] = fragment[Old(k)]
      BY <1>1, <2>1
    <3> QED BY <3>2, <3>3 DEF QueryInv, QueryTypeOK
  <2>2. CASE k \notin Made
    BY <1>1, <2>2
  <2> QED BY <2>1, <2>2
<1>3. fragment' \in [Instances -> {"attached", "parked", "gone"}]
  <2>1. fragment' = [k \in Instances |-> fragment'[k]]
    BY <1>1
  <2> QED BY <1>2, <2>1
<1>4. /\ pDialog' \in [Instances -> {"hidden", "showing", "leaked"}]
      /\ Showing' = {}
  BY <1>1 DEF QueryInv, QueryTypeOK, Showing
<1>5. QueryTypeOK'
  BY <1>3, <1>4, ComingBounds DEF Recreate, QueryInv, QueryTypeOK
<1>6. Guarded'
  BY DEF Recreate, Guarded, Waiting
<1> QED BY <1>4, <1>5, <1>6 DEF QueryInv, WaitIsExplained

-----------------------------------------------------------------------------
(***************************************************************************)
(* Answers.                                                                *)
(***************************************************************************)

\* What is left to answer once request s is answered.
LEMMA Answered ==
  ASSUME QueryInv, NEW s \in Waiting, inFlight' = [inFlight EXCEPT ![s] = NoRequest]
  PROVE  /\ Waiting' = Waiting \ {s}
         /\ \A u \in Waiting' : inFlight'[u] = inFlight[u]
         /\ inFlight' \in [Slots -> {NoRequest} \union Requests]
BY DEF QueryInv, QueryTypeOK, Waiting, Requests

\* An answer throws, hides the dialog of its page, or says that there are no data
\* and leaves the dialog as it is.
LEMMA DeliverEffect ==
  ASSUME QueryInv, NEW s \in Slots, NEW outcome, Deliver(s, outcome)
  PROVE  LET i == inFlight[s].owner
         IN \/ Throws
            \/ /\ pDialog' = [pDialog EXCEPT ![i] = "hidden"]
               /\ emptied' = emptied \ {i}
               /\ UNCHANGED <<running, orphaned>>
            \/ Returns(i)
BY DEF Deliver, Hides, ToastAndHide

\* When the process is gone only the types are left to keep.
LEMMA GoneInv ==
  ASSUME QueryInv, running' = FALSE,
         inFlight' \in [Slots -> {NoRequest} \union Requests], exposed' \in BOOLEAN,
         UNCHANGED <<pageVars, dialogVars, pressed>>
  PROVE  QueryInv'
BY DEF QueryInv, QueryTypeOK, WaitIsExplained, Guarded, pageVars, dialogVars, Requests

LEMMA DeliverInv ==
  ASSUME QueryInv, NEW s \in Slots, NEW outcome, Deliver(s, outcome)
  PROVE  QueryInv'
<1> DEFINE i == inFlight[s].owner
<1>1. /\ running /\ s \in Waiting /\ QueryTypeOK
      /\ inFlight' = [inFlight EXCEPT ![s] = NoRequest]
      /\ exposed' = (exposed /\ Waiting # {s})
      /\ UNCHANGED <<pageVars, pressed>>
  BY DEF Deliver, QueryInv
<1>2. i \in Instances
  BY <1>1, RequestType DEF Requests
<1>3. exposed' \in BOOLEAN
  BY <1>1 DEF QueryTypeOK
<1>4. /\ Waiting' = Waiting \ {s}
      /\ \A u \in Waiting' : inFlight'[u] = inFlight[u]
      /\ inFlight' \in [Slots -> {NoRequest} \union Requests]
  BY <1>1, Answered
<1>5. CASE Throws
  BY <1>1, <1>3, <1>4, <1>5, GoneInv DEF Throws
<1>6. ASSUME UNCHANGED <<running, orphaned>>,
             \/ pDialog' = [pDialog EXCEPT ![i] = "hidden"] /\ emptied' = emptied \ {i}
             \/ pDialog' = pDialog /\ emptied' = emptied \union ({i} \intersect Showing)
      PROVE  QueryInv'
  <2>1. QueryTypeOK'
    BY <1>1, <1>2, <1>3, <1>4, <1>6 DEF QueryTypeOK, pageVars, Showing, Requests
  <2>2. WaitIsExplained'
    <3> SUFFICES ASSUME NEW j \in Showing' PROVE WaitingOf(j)' # {} \/ j \in emptied'
      BY DEF WaitIsExplained
    <3>1. j \in Showing /\ (j = i \/ j \in emptied => j \in emptied')
      BY <1>1, <1>2, <1>6 DEF Showing, QueryTypeOK
    <3>2. CASE j = i \/ j \in emptied
      BY <3>1, <3>2
    <3>3. CASE j # i /\ j \notin emptied
      <4>1. PICK u \in Waiting : inFlight[u].owner = j
        BY <3>1, <3>3, <1>1 DEF QueryInv, WaitIsExplained, WaitingOf
      <4>2. u \in WaitingOf(j)'
        BY <4>1, <3>3, <1>4 DEF WaitingOf
      <4> QED BY <4>2
    <3> QED BY <3>2, <3>3
  <2>3. Guarded'
    <3> SUFFICES ASSUME ~exposed' PROVE Waiting' = {}
      BY DEF Guarded
    <3>1. CASE Waiting = {s}
      BY <3>1, <1>4
    <3>2. CASE ~exposed
      BY <3>2, <1>1, <1>4 DEF QueryInv, Guarded
    <3> QED BY <3>1, <3>2, <1>1
  <2> QED BY <2>1, <2>2, <2>3 DEF QueryInv
<1>7. CASE Returns(i)
  BY <1>6, <1>7 DEF Returns
<1> QED BY <1>5, <1>6, <1>7, DeliverEffect

-----------------------------------------------------------------------------
(***************************************************************************)
(* The theorems.                                                           *)
(***************************************************************************)

LEMMA QueryStep == QueryInv /\ [QueryNext]_queryVars => QueryInv'
<1> SUFFICES ASSUME QueryInv, [QueryNext]_queryVars PROVE QueryInv'
  OBVIOUS
<1>1. ASSUME NEW control \in Buttons \union {WayOut}, TouchDown(control) PROVE QueryInv'
  BY <1>1, TouchDownInv
<1>2. CASE LoseFocus
  BY <1>2, LoseFocusInv
<1>3. ASSUME NEW button \in Buttons, Query(button) PROVE QueryInv'
  BY <1>3, QueryKeepsInv
<1>4. CASE ChoosePage
  BY <1>4, ChoosePageInv
<1>5. CASE ReplacePage
  BY <1>5, ReplacePageInv
<1>6. CASE PopPage
  BY <1>6, PopPageInv
<1>7. CASE Finish
  BY <1>7, FinishInv
<1>8. CASE Destroy
  BY <1>8, DestroyInv
<1>9. CASE Recreate
  BY <1>9, RecreateInv
<1>10. ASSUME NEW s \in Slots, DeliverAny(s) PROVE QueryInv'
  BY <1>10, DeliverInv DEF DeliverAny
<1>11. ASSUME NEW s \in Slots, NoObject(s) PROVE QueryInv'
  <2>1. exposed' \in BOOLEAN
    BY <1>11 DEF NoObject, QueryInv, QueryTypeOK
  <2> QED BY <1>11, <2>1, GoneInv, Answered DEF NoObject, Throws
<1>12. CASE Kill
  <2>1. /\ exposed' \in BOOLEAN
        /\ inFlight' \in [Slots -> {NoRequest} \union Requests]
    BY <1>12 DEF Kill, QueryInv, QueryTypeOK
  <2> QED BY <1>12, <2>1, GoneInv DEF Kill
<1>13. CASE Relaunch
  <2>1. Waiting' = {} /\ Showing' = {}
    BY <1>13 DEF Relaunch, Waiting, Showing
  <2>2. fragment' \in [Instances -> {"attached", "parked", "gone"}]
    BY <1>13 DEF Relaunch
  <2>3. QueryTypeOK'
    BY <1>13, <2>2, ComingBounds DEF Relaunch, QueryTypeOK
  <2> QED BY <2>1, <2>3 DEF QueryInv, WaitIsExplained, Guarded
<1>14. CASE UNCHANGED queryVars
  BY <1>14 DEF queryVars, pageVars, dialogVars, QueryInv, QueryTypeOK, WaitIsExplained,
               Guarded, Waiting, WaitingOf, Showing, Attached
<1> QED BY <1>1, <1>2, <1>3, <1>4, <1>5, <1>6, <1>7, <1>8, <1>9, <1>10, <1>11, <1>12,
           <1>13, <1>14 DEF QueryNext

THEOREM QueryInvariant == QuerySpec => []QueryInv
<1>1. QueryInit => QueryInv
  BY StartInv DEF QueryInit
<1> QED BY <1>1, QueryStep, PTL DEF QuerySpec

\* Every variable keeps its type, however many instances the back stack, the
\* messages under way and recreation pile up.
THEOREM QueryTypeCorrect == QuerySpec => []QueryTypeOK
<1>1. QueryInv => QueryTypeOK
  BY DEF QueryInv
<1> QED BY <1>1, QueryInvariant, PTL

\* A progress dialog that its page can take down has a request of that page in
\* flight or an answer without data behind it, even if the page was left or
\* replaced under it.
THEOREM WaitExplained == QuerySpec => []WaitIsExplained
<1>1. QueryInv => WaitIsExplained
  BY DEF QueryInv
<1> QED BY <1>1, QueryInvariant, PTL

\* A guarded answer finds its page attached and its dialog up: neither the toast
\* nor hidepDialog throws.
LEMMA GuardedAnswer ==
  ASSUME QueryInv, running, ~exposed, NEW s \in Slots, DeliverAny(s)
  PROVE  running'
<1>1. PICK outcome \in {"rows", "empty", "null", "bad", "error"} : Deliver(s, outcome)
  BY DEF DeliverAny
<1> DEFINE i == inFlight[s].owner
<1>2. s \in Waiting
  BY <1>1 DEF Deliver
<1>3. i \in Attached \intersect Showing
  BY <1>2 DEF QueryInv, Guarded
<1>4. HasContext(i) /\ pDialog[i] # "leaked"
  BY <1>3 DEF HasContext, Live, Showing
<1>5. Hides(i) => running'
  BY <1>4 DEF Hides
<1>6. Returns(i) => running'
  BY DEF Returns
<1>7. ToastAndHide(i) => running'
  BY <1>4, <1>5 DEF ToastAndHide
<1> QED BY <1>1, <1>4, <1>5, <1>6, <1>7 DEF Deliver

\* The modal dialog protects the listeners, for any number of instances, fingers
\* and messages: a query that was alone when it was clicked, in an activity that
\* is not recreated, meets its page and its dialog when its answer comes.
THEOREM DialogProtects == QuerySpec => ModalProtects
<1>1. QueryInv =>
        (running /\ (\E s \in Slots : DeliverAny(s)) /\ ~exposed => running')
  BY GuardedAnswer
<1>2. QueryInv /\ [QueryNext]_queryVars =>
        [running /\ (\E s \in Slots : DeliverAny(s)) /\ ~exposed => running']_queryVars
  BY <1>1
<1>3. QuerySpec => []QueryInv /\ [][QueryNext]_queryVars
  BY QueryInvariant, PTL DEF QuerySpec
<1> QED BY <1>2, <1>3, PTL DEF ModalProtects
=============================================================================
