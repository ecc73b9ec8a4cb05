--------------------------- MODULE MjpegPlayback ---------------------------
(***************************************************************************)
(* The life of MjpegViewDefault: the main thread sets sources, stops and   *)
(* follows the surface; render threads read frames and draw them.          *)
(*                                                                         *)
(* init sets resume, so setSource always makes and starts a new thread.    *)
(* Threads share mRun (volatile), mIn (not volatile) and the lock of the   *)
(* surface's canvas; each frame is read, from the network, while the       *)
(* canvas and the monitor of the surface holder are held.  _stopPlayback   *)
(* clears mRun, joins the last thread for 500 ms and closes the stream,    *)
(* whether the thread has ended or not.                                    *)
(*                                                                         *)
(* External: the surface's callbacks come on the main thread; lockCanvas   *)
(* waits for the canvas and may give none; a read returns a frame, fails,  *)
(* or waits as long as the camera is silent; a read of a closed stream     *)
(* fails.                                                                  *)
(***************************************************************************)
EXTENDS Integers, FiniteSets

CONSTANTS
  Threads,  \* bound: render threads alive; a dead one is used again
  Streams   \* bound: streams in use; one nobody holds is used again

NoThread == 0
NoStream == 0   \* null

ASSUME PlaybackAssumption == Threads \subseteq Nat \ {NoThread} /\ Streams \subseteq Nat \ {NoStream}

VARIABLES
  mRun,
  surfaceDone,
  mIn,         \* the stream to read, or null
  thread,      \* the last thread started, or null (init's is not started)
  main,        \* "idle", "stopping", "destroying" (both in join), "resizing"
  pc,          \* where each thread is
  canvas,      \* the thread that holds the canvas
  monitor,     \* the thread in synchronized (mSurfaceHolder)
  sees,        \* what each thread's next read of mIn may give; then what it reads
  closed,      \* streams that were closed
  crash,       \* "none", "noStream", "badFrame": an uncaught exception
  overlapped,  \* history: a source was set while a thread was alive
  late         \* history: a join ran out of time

playVars == <<mRun, surfaceDone, mIn, thread, main, pc, canvas, monitor, sees,
              closed, crash, overlapped, late>>

Alive == {t \in Threads : pc[t] # "dead"}
Spare == {s \in Streams : s # mIn /\ \A t \in Threads : s \notin sees[t]}
Up == crash = "none"

PlayInit ==
  /\ mRun = FALSE
  /\ surfaceDone = FALSE
  /\ mIn = NoStream
  /\ thread = NoThread
  /\ main = "idle"
  /\ pc = [t \in Threads |-> "dead"]
  /\ canvas = NoThread
  /\ monitor = NoThread
  /\ sees = [t \in Threads |-> {}]
  /\ closed = {}
  /\ crash = "none"
  /\ overlapped = FALSE
  /\ late = FALSE

(***************************************************************************)
(* The main thread.                                                        *)
(***************************************************************************)

\* mIn is not volatile.  mRun is: a thread that finds it set sees the mIn of that
\* moment, and from there until it reads the field, any value written since.
OnItsWay == {"canvas", "monitor", "entered"}

SeeWritten(s) ==
  sees' = [t \in Threads |-> IF pc[t] \in OnItsWay THEN sees[t] \union {s} ELSE sees[t]]

\* setSource, _resumePlayback
SetSource ==
  /\ Up
  /\ main = "idle"
  /\ \E s \in Spare : mIn' = s /\ closed' = closed \ {s} /\ SeeWritten(s)
  /\ mRun' = TRUE
  /\ \E t \in Threads \ Alive : thread' = t /\ pc' = [pc EXCEPT ![t] = "loop"]
  /\ overlapped' = (overlapped \/ Alive # {})
  /\ UNCHANGED <<surfaceDone, main, canvas, monitor, crash, late>>

\* Mutant of Stop: the stream is closed before the join, not after it.
Stop_closesFirst ==
  /\ Up
  /\ main = "idle"
  /\ mRun' = FALSE
  /\ main' = "stopping"
  /\ closed' = IF mIn = NoStream THEN closed ELSE closed \union {mIn}
  /\ mIn' = NoStream
  /\ SeeWritten(NoStream)
  /\ UNCHANGED <<surfaceDone, thread, pc, canvas, monitor, crash, overlapped, late>>

\* stopPlayback, up to the join
Stop ==
  /\ Up
  /\ main = "idle"
  /\ mRun' = FALSE
  /\ main' = "stopping"
  /\ UNCHANGED <<surfaceDone, mIn, thread, pc, canvas, monitor, sees, closed, crash,
                 overlapped, late>>

\* Mutant of SurfaceDestroyed: thread = null before _stopPlayback.
SurfaceDestroyed_forgetsFirst ==
  /\ Up
  /\ main = "idle"
  /\ surfaceDone' = FALSE
  /\ mRun' = FALSE
  /\ thread' = NoThread
  /\ main' = "destroying"
  /\ UNCHANGED <<mIn, pc, canvas, monitor, sees, closed, crash, overlapped, late>>

\* onSurfaceDestroyed, up to the join
SurfaceDestroyed ==
  /\ Up
  /\ main = "idle"
  /\ surfaceDone' = FALSE
  /\ mRun' = FALSE
  /\ main' = "destroying"
  /\ UNCHANGED <<mIn, thread, pc, canvas, monitor, sees, closed, crash, overlapped, late>>

Ended == thread = NoThread \/ pc[thread] = "dead"

\* Mutant of JoinEnds: the stream is not closed, only forgotten.
JoinEnds_leavesOpen ==
  /\ Up
  /\ main \in {"stopping", "destroying"}
  /\ mIn' = NoStream
  /\ thread' = IF main = "destroying" THEN NoThread ELSE thread
  /\ main' = "idle"
  /\ late' = (late \/ ~Ended)
  /\ SeeWritten(NoStream)
  /\ UNCHANGED <<mRun, surfaceDone, pc, canvas, monitor, closed, crash, overlapped>>

\* thread.join(500) returns or runs out of time; the stream is closed.
JoinEnds ==
  /\ Up
  /\ main \in {"stopping", "destroying"}
  /\ closed' = IF mIn = NoStream THEN closed ELSE closed \union {mIn}
  /\ mIn' = NoStream
  /\ thread' = IF main = "destroying" THEN NoThread ELSE thread
  /\ main' = "idle"
  /\ late' = (late \/ ~Ended)
  /\ SeeWritten(NoStream)
  /\ UNCHANGED <<mRun, surfaceDone, pc, canvas, monitor, crash, overlapped>>

SurfaceCreated ==
  /\ Up
  /\ main = "idle"
  /\ surfaceDone' = TRUE
  /\ UNCHANGED <<mRun, mIn, thread, main, pc, canvas, monitor, sees, closed, crash,
                 overlapped, late>>

\* _surfaceChanged, setSurfaceSize: wait for the monitor, enter and leave it.
SurfaceChanged ==
  /\ Up
  /\ main = "idle"
  /\ thread # NoThread
  /\ main' = "resizing"
  /\ UNCHANGED <<mRun, surfaceDone, mIn, thread, pc, canvas, monitor, sees, closed,
                 crash, overlapped, late>>

SetSurfaceSize ==
  /\ Up
  /\ main = "resizing"
  /\ monitor = NoThread
  /\ main' = "idle"
  /\ UNCHANGED <<mRun, surfaceDone, mIn, thread, pc, canvas, monitor, sees, closed,
                 crash, overlapped, late>>

(***************************************************************************)
(* A render thread.                                                        *)
(***************************************************************************)

GoesTo(t, stage) == pc' = [pc EXCEPT ![t] = stage]

\* while (mRun), if (surfaceDone)
Loop(t) ==
  /\ Up
  /\ pc[t] = "loop"
  /\ \/ ~mRun /\ GoesTo(t, "dead") /\ UNCHANGED sees
     \/ mRun /\ surfaceDone /\ GoesTo(t, "canvas") /\ sees' = [sees EXCEPT ![t] = {mIn}]
     \/ mRun /\ ~surfaceDone /\ UNCHANGED <<pc, sees>>
  /\ UNCHANGED <<mRun, surfaceDone, mIn, thread, main, canvas, monitor, closed, crash,
                 overlapped, late>>

\* lockCanvas gives the canvas, or none and the loop goes on.
LockCanvas(t) ==
  /\ Up
  /\ pc[t] = "canvas"
  /\ canvas = NoThread
  /\ \/ canvas' = t /\ GoesTo(t, "monitor") /\ UNCHANGED sees
     \/ canvas' = canvas /\ GoesTo(t, "loop") /\ sees' = [sees EXCEPT ![t] = {}]
  /\ UNCHANGED <<mRun, surfaceDone, mIn, thread, main, monitor, closed, crash, overlapped,
                 late>>

\* synchronized (mSurfaceHolder)
Enter(t) ==
  /\ Up
  /\ pc[t] = "monitor"
  /\ monitor = NoThread
  /\ monitor' = t
  /\ GoesTo(t, "entered")
  /\ UNCHANGED <<mRun, surfaceDone, mIn, thread, main, canvas, sees, closed, crash,
                 overlapped, late>>

\* mIn.readMjpegFrame: the call
BeginRead(t) ==
  /\ Up
  /\ pc[t] = "entered"
  /\ \/ \E s \in sees[t] \ {NoStream} :
          sees' = [sees EXCEPT ![t] = {s}] /\ GoesTo(t, "reading") /\ UNCHANGED crash
     \/ NoStream \in sees[t] /\ crash' = "noStream" /\ UNCHANGED <<pc, sees>>
  /\ UNCHANGED <<mRun, surfaceDone, mIn, thread, main, canvas, monitor, closed,
                 overlapped, late>>

Read(t) ==
  /\ Up
  /\ pc[t] = "reading"
  /\ sees' = [sees EXCEPT ![t] = {}]
  /\ monitor' = NoThread
  /\ GoesTo(t, "drawn")
  /\ UNCHANGED <<mRun, surfaceDone, mIn, thread, main, canvas, closed, crash, overlapped,
                 late>>

\* A frame is read and drawn, or an IOException is caught.
FrameRead(t) == sees[t] \cap closed = {} /\ Read(t)

ReadFails(t) == sees[t] \subseteq closed /\ Read(t)

\* No marker within reach, or a picture that cannot be decoded: the exception
\* is not an IOException and nothing catches it.
BadFrame(t) ==
  /\ Up
  /\ pc[t] = "reading"
  /\ sees[t] \cap closed = {}
  /\ crash' = "badFrame"
  /\ UNCHANGED <<mRun, surfaceDone, mIn, thread, main, pc, canvas, monitor, sees, closed,
                 overlapped, late>>

\* finally: unlockCanvasAndPost
Unlock(t) ==
  /\ Up
  /\ pc[t] = "drawn"
  /\ canvas' = NoThread
  /\ GoesTo(t, "loop")
  /\ UNCHANGED <<mRun, surfaceDone, mIn, thread, main, monitor, sees, closed, crash,
                 overlapped, late>>

Render(t) ==
  Loop(t) \/ LockCanvas(t) \/ Enter(t) \/ BeginRead(t) \/ ReadFails(t) \/ Unlock(t)

\* The exception ended the process; the app is opened again.
Relaunch ==
  /\ ~Up
  /\ mRun' = FALSE
  /\ surfaceDone' = FALSE
  /\ mIn' = NoStream
  /\ thread' = NoThread
  /\ main' = "idle"
  /\ pc' = [t \in Threads |-> "dead"]
  /\ canvas' = NoThread
  /\ monitor' = NoThread
  /\ sees' = [t \in Threads |-> {}]
  /\ closed' = {}
  /\ crash' = "none"
  /\ overlapped' = FALSE
  /\ late' = FALSE

PlayNext ==
  \/ SetSource
  \/ Stop
  \/ SurfaceDestroyed
  \/ JoinEnds
  \/ SurfaceCreated
  \/ SurfaceChanged
  \/ SetSurfaceSize
  \/ \E t \in Threads : Render(t) \/ FrameRead(t) \/ BadFrame(t)
  \/ Relaunch

PlaySpec == PlayInit /\ [][PlayNext]_playVars

\* Threads run, and join comes back after 500 ms.  Nothing is assumed of the
\* camera, but a closed stream ends a read.
FairPlaySpec ==
  /\ PlaySpec
  /\ WF_playVars(JoinEnds)
  /\ \A t \in Threads : WF_playVars(Render(t))

(***************************************************************************)
(* Properties.                                                             *)
(***************************************************************************)

Typed ==
  /\ mRun \in BOOLEAN
  /\ surfaceDone \in BOOLEAN
  /\ mIn \in Streams \union {NoStream}
  /\ thread \in Threads \union {NoThread}
  /\ main \in {"idle", "stopping", "destroying", "resizing"}
  /\ pc \in [Threads -> {"dead", "loop", "canvas", "monitor", "entered", "reading", "drawn"}]
  /\ sees \in [Threads -> SUBSET (Streams \union {NoStream})]
  /\ closed \subseteq Streams
  /\ crash \in {"none", "noStream", "badFrame"}
  /\ overlapped \in BOOLEAN
  /\ late \in BOOLEAN

\* What a thread holds is told by where its code is.
Holding ==
  /\ canvas \in Threads \union {NoThread}
  /\ monitor \in Threads \union {NoThread}
  /\ \A t \in Threads :
       /\ canvas = t <=> pc[t] \in {"monitor", "entered", "reading", "drawn"}
       /\ monitor = t <=> pc[t] \in {"entered", "reading"}
       /\ sees[t] # {} <=> pc[t] \in OnItsWay \union {"reading"}

\* Every variable has its type; the canvas and the monitor are held by the
\* thread whose code is between taking and giving them back, and by one alone.
PlayTypeOK == Typed /\ Holding

\* A thread calls readMjpegFrame on null only if some stop gave up waiting for a
\* thread, or waited for one of two.
NullOnlyAfterGivingUp == crash = "noStream" => overlapped \/ late

\* When a stop has come back in time no thread reads or draws any more, as long
\* as sources were set one after the other.
StoppedMeansStopped ==
  ~mRun /\ main = "idle" /\ ~overlapped /\ ~late => Alive = {}

\* Once nothing is to be shown any more every thread ends, one that a stop gave
\* up on too, even if the camera never speaks again: its stream is closed.
RenderingEnds ==
  []~overlapped /\ <>[](~mRun /\ Up) => <>[](Alive = {})
=============================================================================
