--------------------------- MODULE MainNavigation ---------------------------
(***************************************************************************)
(* Which fragment MainActivity shows: the bottom bar, the drawer, the Back *)
(* key and the fragments' back stack.                                      *)
(*                                                                         *)
(* The bottom bar replaces the shown fragment by an untagged one and keeps *)
(* the old one on the back stack (loadFragment).  The drawer sets          *)
(* navItemIndex and CURRENT_TAG, presses the bottom bar as well if it has  *)
(* that item, and posts a Runnable that replaces the shown fragment by a   *)
(* tagged one without the back stack (loadHomeFragment); the Runnable      *)
(* reads the two static fields when it runs.                               *)
(*                                                                         *)
(* External, modelled from the calls the code makes: FragmentManager.      *)
(* commit queues a transaction and posts its execution; replace removes    *)
(* every fragment of the container; a fragment a back stack entry mentions *)
(* stays known to findFragmentByTag; popping removes what the entry added  *)
(* and adds what it removed; saving the state executes what is queued; a   *)
(* destroyed manager ignores a commit.                                     *)
(***************************************************************************)
EXTENDS Integers, Sequences, FiniteSets, SequencesExt

CONSTANTS
  BottomItems,  \* items of the bottom bar, by their navItemIndex (0 to 3)
  DrawerItems,  \* items of the drawer that load a fragment (0 to 5)
  MaxFragments, \* bound: fragments shown, on the back stack or to come
  MaxLooper     \* bound: messages in the main looper

Home == 0           \* AutomationFragment, TAG_AUTOMATION
NoTag == -1

ASSUME ItemsAssumption ==
  /\ Home \in BottomItems
  /\ BottomItems \subseteq DrawerItems
  /\ DrawerItems \subseteq Nat
ASSUME NavigationBoundsAssumption == MaxFragments \in Nat /\ MaxLooper \in Nat

VARIABLES
  navItemIndex,  \* static: the drawer item last chosen
  CURRENT_TAG,   \* static: its tag
  drawerOpen,
  added,         \* fragments in frame_container
  backStack,     \* entries: what they added and what they removed
  queue,         \* transactions committed and not executed
  looper,        \* "load": mPendingRunnable; "exec": execution of the queue
  finished,      \* the activity has finished
  dropped,       \* history: a load was posted to an activity that is gone
  chosen         \* history: the item the drawer last set out to load, if
                 \* nothing else was pressed since

navVars == <<navItemIndex, CURRENT_TAG, drawerOpen, added, backStack,
             queue, looper, finished, dropped, chosen>>

Settled == looper = <<>>

(***************************************************************************)
(* Fragments and transactions.                                             *)
(***************************************************************************)

InStack == UNION {{backStack[i].added} \union backStack[i].removed : i \in DOMAIN backStack}
Queued == {queue[i].fragment : i \in DOMAIN queue}

\* Mutant of NewFragment: one cached instance of each kind and tag.
NewFragment_cached(kind, tag) == [id |-> 1, kind |-> kind, tag |-> tag]

\* A new instance takes the least number no known instance has.
NewFragment(kind, tag) ==
  LET used == {f.id : f \in added \union InStack \union Queued}
  IN [id |-> CHOOSE n \in 1..(Cardinality(used) + 1) :
               n \notin used /\ \A m \in 1..(n - 1) : m \in used,
      kind |-> kind, tag |-> tag]

\* findFragmentByTag: shown or on the back stack, but not queued.
Found(tag) == \E f \in added \union InStack : f.tag = tag

State == [added |-> added, backStack |-> backStack]

\* Mutant of Executed: add instead of replace.
Executed_adds(s, t) ==
  [added |-> s.added \union {t.fragment},
   backStack |-> IF t.back
                 THEN Append(s.backStack, [added |-> t.fragment, removed |-> {}])
                 ELSE s.backStack]

\* Executing a replace.
Executed(s, t) ==
  [added |-> {t.fragment},
   backStack |-> IF t.back
                 THEN Append(s.backStack, [added |-> t.fragment, removed |-> s.added])
                 ELSE s.backStack]

AllExecuted == FoldLeft(Executed, State, queue)

\* popBackStackImmediate, of a state without queue.
Popped(s) ==
  LET top == Last(s.backStack)
  IN [added |-> (s.added \ {top.added}) \union top.removed,
      backStack |-> Front(s.backStack)]

Becomes(s) == added' = s.added /\ backStack' = s.backStack

\* commit: the first of a queue posts its execution.
Commit(kind, tag, back) ==
  /\ queue' = Append(queue, [fragment |-> NewFragment(kind, tag), back |-> back])
  /\ looper' = IF queue = <<>> THEN Append(looper, "exec") ELSE looper

\* Bound: a handler that commits or posts adds at most n fragments.
Room(n) ==
  Cardinality(added \union InStack \union Queued)
    + Cardinality({i \in DOMAIN looper : looper[i] = "load"}) + n <= MaxFragments

(***************************************************************************)
(* Actions: the user.                                                      *)
(***************************************************************************)

NavInit ==
  /\ navItemIndex = Home
  /\ CURRENT_TAG = Home
  /\ drawerOpen = FALSE
  /\ added = {}
  /\ backStack = <<>>
  /\ queue = <<>>
  /\ looper = <<"load">>
  /\ finished = FALSE
  /\ dropped = FALSE
  /\ chosen = {Home}

\* mOnNavigationItemSelectedListener and loadFragment.
SelectBottom(item) ==
  /\ ~finished
  /\ ~drawerOpen
  /\ Room(1)
  /\ Len(looper) < MaxLooper
  /\ Commit(item, NoTag, TRUE)
  /\ chosen' = {}
  /\ UNCHANGED <<navItemIndex, CURRENT_TAG, drawerOpen, added, backStack,
                 finished, dropped>>

OpenDrawer ==
  /\ ~finished
  /\ ~drawerOpen
  /\ drawerOpen' = TRUE
  /\ UNCHANGED <<navItemIndex, CURRENT_TAG, added, backStack, queue,
                 looper, finished, dropped, chosen>>

\* loadHomeFragment for an item, after msgs were posted by the same handler:
\* nothing more if its tag is found, else post the Runnable.
LoadHomeFragment(item, msgs) ==
  /\ drawerOpen' = FALSE
  /\ IF Found(item)
     THEN looper' = msgs
     ELSE looper' = Append(msgs, "load")

\* Mutant of SelectDrawer: the index counts the items from one.
SelectDrawer_fromOne(item) ==
  /\ ~finished
  /\ drawerOpen
  /\ Len(looper) + 1 < MaxLooper
  /\ Room(1)
  /\ navItemIndex' = item + 1
  /\ CURRENT_TAG' = item
  /\ LoadHomeFragment(item, looper)
  /\ chosen' = {}
  /\ UNCHANGED <<added, backStack, queue, finished, dropped>>

\* The drawer's listener.
SelectDrawer(item) ==
  /\ ~finished
  /\ drawerOpen
  /\ Len(looper) + 1 < MaxLooper
  /\ navItemIndex' = item
  /\ CURRENT_TAG' = item
  /\ IF item \in BottomItems
     THEN /\ Room(2)
          /\ queue' = Append(queue, [fragment |-> NewFragment(item, NoTag), back |-> TRUE])
          /\ LoadHomeFragment(item, IF queue = <<>> THEN Append(looper, "exec") ELSE looper)
     ELSE /\ Room(1)
          /\ LoadHomeFragment(item, looper)
          /\ UNCHANGED queue
  /\ chosen' = IF Found(item) THEN {} ELSE {item}
  /\ UNCHANGED <<added, backStack, finished, dropped>>

\* onBackPressed
CloseDrawer ==    \* also an item that opens a page of its own
  /\ ~finished
  /\ drawerOpen
  /\ drawerOpen' = FALSE
  /\ UNCHANGED <<navItemIndex, CURRENT_TAG, added, backStack, queue,
                 looper, finished, dropped, chosen>>

\* Mutant of BackToHome: CURRENT_TAG is not reset.
BackToHome_staleTag ==
  /\ ~finished
  /\ ~drawerOpen
  /\ navItemIndex # Home
  /\ Room(1)
  /\ Len(looper) < MaxLooper
  /\ navItemIndex' = Home
  /\ LoadHomeFragment(CURRENT_TAG, looper)
  /\ chosen' = {}
  /\ UNCHANGED <<CURRENT_TAG, added, backStack, queue, finished, dropped>>

BackToHome ==
  /\ ~finished
  /\ ~drawerOpen
  /\ navItemIndex # Home
  /\ Room(1)
  /\ Len(looper) < MaxLooper
  /\ navItemIndex' = Home
  /\ CURRENT_TAG' = Home
  /\ LoadHomeFragment(Home, looper)
  /\ chosen' = IF Found(Home) THEN {} ELSE {Home}
  /\ UNCHANGED <<added, backStack, queue, finished, dropped>>

\* super.onBackPressed: pop, or finish with nothing to pop.
BackPops ==
  /\ ~finished
  /\ ~drawerOpen
  /\ navItemIndex = Home
  /\ IF AllExecuted.backStack # <<>>
     THEN Becomes(Popped(AllExecuted)) /\ UNCHANGED finished
     ELSE Becomes(AllExecuted) /\ finished' = TRUE
  /\ queue' = <<>>
  /\ chosen' = {}
  /\ UNCHANGED <<navItemIndex, CURRENT_TAG, drawerOpen, looper, dropped>>

PressBack == CloseDrawer \/ BackToHome \/ BackPops

(***************************************************************************)
(* Actions: the main looper and the system.                                *)
(***************************************************************************)

\* Mutant of RunLoad: the load goes on the back stack.
RunLoad_addsToBackStack ==
  /\ ~finished
  /\ looper # <<>>
  /\ Head(looper) = "load"
  /\ queue' = Append(queue, [fragment |-> NewFragment(navItemIndex, CURRENT_TAG),
                             back |-> TRUE])
  /\ looper' = IF queue = <<>> THEN Append(Tail(looper), "exec") ELSE Tail(looper)
  /\ UNCHANGED <<navItemIndex, CURRENT_TAG, drawerOpen, added, backStack,
                 finished, dropped, chosen>>

\* mPendingRunnable: getHomeFragment, replace, commitAllowingStateLoss.
RunLoad ==
  /\ ~finished
  /\ looper # <<>>
  /\ Head(looper) = "load"
  /\ queue' = Append(queue, [fragment |-> NewFragment(navItemIndex, CURRENT_TAG),
                             back |-> FALSE])
  /\ looper' = IF queue = <<>> THEN Append(Tail(looper), "exec") ELSE Tail(looper)
  /\ UNCHANGED <<navItemIndex, CURRENT_TAG, drawerOpen, added, backStack,
                 finished, dropped, chosen>>

RunExec ==
  /\ ~finished
  /\ looper # <<>>
  /\ Head(looper) = "exec"
  /\ Becomes(AllExecuted)
  /\ queue' = <<>>
  /\ looper' = Tail(looper)
  /\ UNCHANGED <<navItemIndex, CURRENT_TAG, drawerOpen, finished, dropped,
                 chosen>>

\* A configuration change: the queue is executed, the fragments restored, the
\* posted loads are for the old activity.  onCreate loads nothing.
Recreate ==
  /\ ~finished
  /\ Becomes(AllExecuted)
  /\ queue' = <<>>
  /\ looper' = <<>>
  /\ dropped' = (dropped \/ \E i \in DOMAIN looper : looper[i] = "load")
  /\ chosen' = {}
  /\ UNCHANGED <<navItemIndex, CURRENT_TAG, drawerOpen, finished>>

\* The idle process is killed in the background and brought back: the static
\* fields start over, the fragments do not.
Restore ==
  /\ ~finished
  /\ Settled
  /\ navItemIndex' = Home
  /\ CURRENT_TAG' = Home
  /\ chosen' = {}
  /\ UNCHANGED <<drawerOpen, added, backStack, queue, looper, finished, dropped>>

\* The app is opened again after the activity finished.
Reopen ==
  /\ finished
  /\ navItemIndex' = Home
  /\ CURRENT_TAG' = Home
  /\ drawerOpen' = FALSE
  /\ added' = {}
  /\ backStack' = <<>>
  /\ queue' = <<>>
  /\ looper' = <<"load">>
  /\ finished' = FALSE
  /\ dropped' = FALSE
  /\ chosen' = {Home}

NavNext ==
  \/ \E item \in BottomItems : SelectBottom(item)
  \/ OpenDrawer
  \/ \E item \in DrawerItems : SelectDrawer(item)
  \/ PressBack
  \/ RunLoad
  \/ RunExec
  \/ Recreate
  \/ Restore
  \/ Reopen

NavSpec == NavInit /\ [][NavNext]_navVars

(***************************************************************************)
(* Properties.                                                             *)
(***************************************************************************)

Fragment == [id : Nat \ {0}, kind : DrawerItems, tag : DrawerItems \union {NoTag}]

\* Every variable has its type.
NavTypeOK ==
  /\ navItemIndex \in DrawerItems
  /\ CURRENT_TAG \in DrawerItems
  /\ drawerOpen \in BOOLEAN
  /\ added \subseteq Fragment
  /\ \A i \in DOMAIN backStack :
       backStack[i].added \in Fragment /\ backStack[i].removed \subseteq Fragment
  /\ \A i \in DOMAIN queue : queue[i].fragment \in Fragment /\ queue[i].back \in BOOLEAN
  /\ looper \in Seq({"load", "exec"})
  /\ finished \in BOOLEAN
  /\ dropped \in BOOLEAN
  /\ chosen \subseteq DrawerItems

\* A tag names the fragment's kind: the Runnable reads two static fields that
\* other handlers write between its post and its run.
TagNamesKind ==
  \A f \in added \union InStack \union Queued : f.tag # NoTag => f.tag = f.kind

\* The container is never left blank: with nothing under way it shows a
\* fragment, however selections, loads and pops were interleaved, unless the
\* activity was recreated under a posted load.
NeverBlank == Settled /\ ~finished /\ ~dropped => added # {}

\* No pop can add a fragment that is there already (IllegalStateException):
\* an instance waits in one entry at most, and not while it is shown.
NothingTwice ==
  \A i \in DOMAIN backStack :
    /\ backStack[i].removed \intersect added = {}
    /\ \A j \in DOMAIN backStack :
         i # j => backStack[i].removed \intersect backStack[j].removed = {}

\* An item of the drawer whose load was posted is what the screen shows, alone,
\* once the looper is idle, if nothing else was pressed meanwhile.
ChosenShown ==
  Settled /\ ~finished => \A item \in chosen : {f.kind : f \in added} = {item}
=============================================================================
