---------------------------- MODULE SessionFlow ----------------------------
(***************************************************************************)
(* The activities around the main page: splash, welcome, login, signup,    *)
(* password reset, and the Firebase session they open and close.           *)
(*                                                                         *)
(* The splash screen starts the welcome page from a thread three seconds   *)
(* later, even if it has finished (it finishes when it is paused).  Login  *)
(* and signup send a request and go on in a listener; login goes straight  *)
(* to the main page when it is created with a user signed in.              *)
(*                                                                         *)
(* External: one task of activities, of which the last is on the screen;   *)
(* an activity that was covered or has finished is stopped a little later, *)
(* and until then its buttons and listeners still run; a listener bound to *)
(* an activity is dropped when the activity stops; the session outlives    *)
(* the process; a process killed in the background leaves its task, whose  *)
(* activities are created again when they come to the top.                 *)
(***************************************************************************)
EXTENDS Integers, Sequences, FiniteSets, SequencesExt

CONSTANTS
  Activities,  \* bound: activities that are open or not destroyed yet
  Requests,    \* bound: sign-ins and sign-ups in flight
  MaxTimers    \* bound: splash timers running

ASSUME FlowAssumption ==
  /\ 0 \notin Activities   \* see Idle
  /\ MaxTimers \in Nat

Pages == {"splash", "welcome", "login", "signup", "reset", "main"}
Gone == "gone"
Idle == [from |-> 0, live |-> FALSE]

VARIABLES
  screen,     \* the task and its activities: see Screens
  front,      \* the task is in the foreground
  user,       \* auth.getCurrentUser() is not null
  requests,   \* in flight: the activity that asked, whether its listener is bound
  timers,     \* splash threads still asleep
  loggedOut,  \* history: the user logged out and has asked for nothing since
  raced       \* history: a button or listener of an activity that was leaving ran,
              \* or a splash timer went off elsewhere than on its splash screen

flowVars == <<screen, front, user, requests, timers, loggedOut, raced>>

Screens == [
  task : Seq(Activities),                      \* bottom to top
  page : [Activities -> Pages \union {Gone}],
  created : SUBSET Activities,                 \* objects of this process
  started : SUBSET Activities,                 \* not stopped yet
  spinner : SUBSET Activities]                 \* progressBar is visible

Top == Last(screen.task)
OnScreen == IF front THEN {Top} ELSE {}
OnTop(p) == \E a \in OnScreen : screen.page[a] = p
Leaving(a) == a \notin OnScreen
Free(s) == {a \in Activities : s.page[a] = Gone}
InFlight == {r \in Requests : requests[r] # Idle}

(***************************************************************************)
(* What happens to the screen.                                             *)
(***************************************************************************)

\* Mutant of Paused: SplashScreen does not override onPause.
Paused_staysOpen(s) == s

\* The splash screen calls finish when it is paused.
Paused(s) ==
  IF s.task # <<>> /\ s.page[Last(s.task)] = "splash"
  THEN [s EXCEPT !.task = Front(@)]
  ELSE s

\* startActivity of page p; a login page that finds a user starts the main
\* page and finishes.
Started(s, p, u) ==
  LET a == CHOOSE n \in Free(s) : TRUE
      paused == Paused(s)
  IN [paused EXCEPT
        !.task = Append(@, a),
        !.page[a] = IF p = "login" /\ u THEN "main" ELSE p,
        !.created = @ \union {a},
        !.started = @ \union {a}]

\* Mutant of Resumed: SignupActivity does not override onResume.
Resumed_keepsSpinner(s, u) ==
  IF s.task = <<>> THEN s
  ELSE [s EXCEPT !.created = @ \union {Last(s.task)},
                 !.started = @ \union {Last(s.task)}]

\* The last activity comes to the screen again; onCreate if its process died,
\* onResume of signup hides the progress bar.
Resumed(s, u) ==
  IF s.task = <<>> THEN s
  ELSE LET a == Last(s.task)
           forward == a \notin s.created /\ s.page[a] = "login" /\ u
       IN [s EXCEPT
             !.page[a] = IF forward THEN "main" ELSE @,
             !.created = @ \union {a},
             !.started = @ \union {a},
             !.spinner = IF s.page[a] = "signup" THEN @ \ {a} ELSE @]

\* The task without a.
Without(task, a) ==
  IF a \in ToSet(task) THEN RemoveAt(task, CHOOSE i \in DOMAIN task : task[i] = a) ELSE task

\* finish(): out of the task; the activity itself stops later.
Finished(s, a) == [s EXCEPT !.task = Without(@, a)]

Show(s) == screen' = s /\ front' = (s.task # <<>>)

HasRoom == Free(screen) # {}

(***************************************************************************)
(* The splash screen.                                                      *)
(***************************************************************************)

Empty == [task |-> <<>>, page |-> [a \in Activities |-> Gone],
          created |-> {}, started |-> {}, spinner |-> {}]

FlowInit ==
  /\ screen = Empty
  /\ front = FALSE
  /\ user \in BOOLEAN
  /\ requests = [r \in Requests |-> Idle]
  /\ timers = 0
  /\ loggedOut = FALSE
  /\ raced = FALSE

\* From the launcher: the task as it is, or the splash screen and its timer.
OpenApp ==
  /\ ~front
  /\ IF screen.task # <<>>
     THEN Show(Resumed(screen, user)) /\ UNCHANGED timers
     ELSE /\ HasRoom
          /\ timers < MaxTimers
          /\ Show(Started(screen, "splash", user))
          /\ timers' = timers + 1
  /\ UNCHANGED <<user, requests, loggedOut, raced>>

TimerFires ==
  /\ timers > 0
  /\ HasRoom
  /\ timers' = timers - 1
  /\ Show(Started(screen, "welcome", user))
  /\ raced' = (raced \/ ~OnTop("splash") \/ timers > 1)
  /\ UNCHANGED <<user, requests, loggedOut>>

(***************************************************************************)
(* Buttons.  An activity that is leaving and has not stopped still gets    *)
(* the click that was on its way.                                          *)
(***************************************************************************)

Clicks(p) == {a \in screen.started : screen.page[a] = p}

\* startActivity and finish: launchHomeScreen of welcome and of login, the menu.
Forward(a, p, u) ==
  /\ HasRoom
  /\ Show(Finished(Started(screen, p, u), a))
  /\ raced' = (raced \/ Leaving(a))
  /\ UNCHANGED <<requests, timers>>

LeaveWelcome ==
  /\ \E a \in Clicks("welcome") : Forward(a, "login", user)
  /\ UNCHANGED <<user, loggedOut>>

Skip ==
  /\ \E a \in Clicks("login") : Forward(a, "main", user)
  /\ UNCHANGED <<user, loggedOut>>

\* The signup and reset buttons, which leave the page where it is.
OpenPage ==
  /\ HasRoom
  /\ \E p \in {"signup", "reset"} :
       \E a \in Clicks("login") \union (IF p = "reset" THEN Clicks("signup") ELSE {}) :
         /\ Show(Started(screen, p, user))
         /\ raced' = (raced \/ Leaving(a))
  /\ UNCHANGED <<user, requests, timers, loggedOut>>

\* signInWithEmailAndPassword, createUserWithEmailAndPassword.
Ask(p) ==
  /\ \E a \in Clicks(p), r \in Requests \ InFlight :
       /\ screen' = [screen EXCEPT !.spinner = @ \union {a}]
       /\ requests' = [requests EXCEPT ![r] = [from |-> a, live |-> TRUE]]
       /\ raced' = (raced \/ Leaving(a))
  /\ loggedOut' = FALSE
  /\ UNCHANGED <<front, user, timers>>

SignIn == Ask("login")
SignUp == Ask("signup")

\* Mutant of PressBack: LoginActivity does not override onBackPressed.
PressBack_finishesLogin ==
  /\ front
  /\ Show(Resumed(Finished(screen, Top), user))
  /\ UNCHANGED <<user, requests, timers, loggedOut, raced>>

\* The back key.
PressBack ==
  /\ front
  /\ IF screen.page[Top] = "login"
     THEN front' = FALSE /\ UNCHANGED screen
     ELSE Show(Resumed(Finished(screen, Top), user))
  /\ UNCHANGED <<user, requests, timers, loggedOut, raced>>

\* Mutant of Logout: no finish.
Logout_staysOpen ==
  /\ \E a \in Clicks("main") :
       /\ HasRoom
       /\ Show(Started(screen, "login", FALSE))
       /\ raced' = (raced \/ Leaving(a))
  /\ user' = FALSE
  /\ loggedOut' = TRUE
  /\ UNCHANGED <<requests, timers>>

\* action_logout
Logout ==
  /\ \E a \in Clicks("main") : Forward(a, "login", FALSE)
  /\ user' = FALSE
  /\ loggedOut' = TRUE

\* pair_deivce
Pair ==
  /\ \E a \in Clicks("main") : Forward(a, "welcome", user)
  /\ UNCHANGED <<user, loggedOut>>

(***************************************************************************)
(* Firebase answers; the listener, if it is still bound, runs.             *)
(***************************************************************************)

Answer(r, successful) ==
  /\ r \in InFlight
  /\ requests' = [requests EXCEPT ![r] = Idle]
  /\ user' = (user \/ successful)
  /\ LET a == requests[r].from
         hidden == [screen EXCEPT !.spinner = @ \ {a}]
     IN IF ~requests[r].live
        THEN UNCHANGED <<screen, front, raced>>
        ELSE IF ~successful
        THEN screen' = hidden /\ UNCHANGED <<front, raced>>
        ELSE /\ HasRoom
             /\ Show(Finished(Started(hidden, "main", TRUE), a))
             /\ raced' = (raced \/ Leaving(a))
  /\ UNCHANGED <<timers, loggedOut>>

(***************************************************************************)
(* The system.                                                             *)
(***************************************************************************)

Unbound(gone) ==
  [r \in Requests |->
    IF r \in InFlight /\ requests[r].from \in gone THEN [requests[r] EXCEPT !.live = FALSE]
    ELSE requests[r]]

\* onStop: listeners are dropped; a finished activity is destroyed.
Stop(a) ==
  /\ a \in screen.started
  /\ Leaving(a)
  /\ requests' = Unbound({a})
  /\ LET over == {a} \ ToSet(screen.task)
     IN screen' = [screen EXCEPT
                     !.started = @ \ {a},
                     !.created = @ \ over,
                     !.spinner = @ \ over,
                     !.page = [b \in Activities |-> IF b \in over THEN Gone ELSE @[b]]]
  /\ UNCHANGED <<front, user, timers, loggedOut, raced>>

PressHome ==
  /\ front
  /\ front' = FALSE
  /\ screen' = Paused(screen)
  /\ UNCHANGED <<user, requests, timers, loggedOut, raced>>

\* A configuration change: the last activity is destroyed and made again.
Recreate ==
  /\ front
  /\ screen.page[Top] # "splash"
  /\ screen' = Resumed([screen EXCEPT !.created = @ \ {Top}, !.started = @ \ {Top},
                                      !.spinner = @ \ {Top}], user)
  /\ requests' = Unbound({Top})
  /\ UNCHANGED <<front, user, timers, loggedOut, raced>>

\* The process is killed in the background.
Kill ==
  /\ ~front
  /\ screen' = [screen EXCEPT
                  !.page = [a \in Activities |-> IF a \in ToSet(screen.task) THEN @[a] ELSE Gone],
                  !.created = {}, !.started = {}, !.spinner = {}]
  /\ requests' = [r \in Requests |-> Idle]
  /\ timers' = 0
  /\ UNCHANGED <<front, user, loggedOut, raced>>

FlowNext ==
  \/ OpenApp
  \/ TimerFires
  \/ LeaveWelcome
  \/ Skip
  \/ OpenPage
  \/ SignIn
  \/ SignUp
  \/ PressBack
  \/ Logout
  \/ Pair
  \/ \E r \in Requests : Answer(r, TRUE) \/ Answer(r, FALSE)
  \/ \E a \in Activities : Stop(a)
  \/ PressHome
  \/ Recreate
  \/ Kill

FlowSpec == FlowInit /\ [][FlowNext]_flowVars

(***************************************************************************)
(* Properties.                                                             *)
(***************************************************************************)

\* Every variable has its type; the task's activities are distinct and open,
\* and a splash screen is nowhere but on top.
FlowTypeOK ==
  /\ screen \in Screens
  /\ IsInjective(screen.task)
  /\ \A i \in DOMAIN screen.task :
       /\ screen.page[screen.task[i]] # Gone
       /\ screen.page[screen.task[i]] = "splash" => i = Len(screen.task)
  /\ screen.started \subseteq screen.created
  /\ front => screen.task # <<>> /\ Top \in screen.started
  /\ user \in BOOLEAN
  /\ requests \in [Requests -> {Idle} \union [from : Activities, live : BOOLEAN]]
  /\ timers \in 0..MaxTimers
  /\ loggedOut \in BOOLEAN
  /\ raced \in BOOLEAN

Mains == {a \in ToSet(screen.task) : screen.page[a] = "main"}

\* Every way to the main page closes the one behind it: two are open only if a
\* leaving activity's button or listener ran, or a late splash timer.
OneMain == ~raced => Cardinality(Mains) <= 1

\* "disable going back to the MainActivity": from the login page, whatever lies
\* under it in the task, one comes to a main page just made, to no older one.
NoWayBackToMain ==
  [][OnTop("login") /\ OnTop("main")' => screen.page[Top'] # "main"]_flowVars

\* The signup page on the screen does not spin for a listener that was dropped:
\* onResume hides what onStop left showing.
SignupSpinsForAnswer ==
  OnTop("signup") /\ Top \in screen.spinner
    => \E r \in InFlight : requests[r].from = Top /\ requests[r].live

\* "Logged Out!": nobody is signed in until somebody signs in again.
LoggedOutMeansOut == loggedOut => ~user
=============================================================================
