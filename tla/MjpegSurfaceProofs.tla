------------------------- MODULE MjpegSurfaceProofs -------------------------
(***************************************************************************)
(* The safety properties of the two camera views, each alone and both      *)
(* under their surface, for any number of threads, streams and sizes.      *)
(***************************************************************************)
EXTENDS MjpegSurface, TLAPS

-----------------------------------------------------------------------------
(***************************************************************************)
(* The default view: MjpegPlayback.                                        *)
(***************************************************************************)

Orderly == ~overlapped /\ ~late

Joining == main \in {"stopping", "destroying"}

\* mRun is set with a stream to read, and is cleared before the join begins.
RunningHasStream ==
  /\ mRun => mIn # NoStream
  /\ Joining => ~mRun

\* While stops come back in time and sources do not overlap, the only thread
\* alive is the one the next stop will join, none is left once it has, and no
\* thread can come to read null.
OneThread ==
  Orderly =>
    /\ Alive \subseteq {thread}
    /\ ~mRun /\ ~Joining => Alive = {}
    /\ \A t \in Threads : NoStream \notin sees[t]

\* The inductive invariant.
PlayInv == PlayTypeOK /\ RunningHasStream /\ OneThread /\ NullOnlyAfterGivingUp

\* No thread is called NoThread.
LEMMA ThreadsNamed == NoThread \notin Threads /\ NoStream \notin Streams
BY PlaybackAssumption

-----------------------------------------------------------------------------
(***************************************************************************)
(* The main thread.                                                        *)
(***************************************************************************)

\* A written value becomes visible to the threads on their way and to no other.
LEMMA WrittenType ==
  ASSUME Typed, Holding, NEW s \in Streams \union {NoStream}, SeeWritten(s)
  PROVE  /\ sees' \in [Threads -> SUBSET (Streams \union {NoStream})]
         /\ \A t \in Threads : sees'[t] # {} <=> sees[t] # {}
         /\ \A t \in Threads : sees'[t] \subseteq sees[t] \union {s}
         /\ \A t \in Threads : pc[t] = "dead" => sees'[t] = sees[t]
<1>1. \A t \in Threads :
        sees'[t] = IF pc[t] \in OnItsWay THEN sees[t] \union {s} ELSE sees[t]
  BY DEF SeeWritten
<1>2. sees' \in [Threads -> SUBSET (Streams \union {NoStream})]
  BY DEF SeeWritten, Typed
<1>3. \A t \in Threads : pc[t] \in OnItsWay => sees[t] # {}
  BY DEF Holding
<1>4. \A t \in Threads : pc[t] = "dead" => pc[t] \notin OnItsWay
  BY DEF OnItsWay
<1> QED BY <1>1, <1>2, <1>3, <1>4

LEMMA SetSourceInv == ASSUME PlayInv, SetSource PROVE PlayInv'
<1>1. Typed /\ Holding /\ RunningHasStream /\ OneThread /\ NullOnlyAfterGivingUp
  BY DEF PlayInv, PlayTypeOK
<1>2. PICK s \in Streams : mIn' = s /\ closed' = closed \ {s} /\ SeeWritten(s)
  BY DEF SetSource, Spare
<1>3. PICK t \in Threads \ Alive : thread' = t /\ pc' = [pc EXCEPT ![t] = "loop"]
  BY DEF SetSource
<1>4. pc[t] = "dead" /\ t \in Threads
  BY <1>3 DEF Alive
<1>5. Typed'
  BY <1>1, <1>2, <1>3, WrittenType DEF Typed, SetSource
<1>6. Holding'
  <2> SUFFICES ASSUME NEW u \in Threads
               PROVE  /\ canvas' = u <=> pc'[u] \in {"monitor", "entered", "reading", "drawn"}
                      /\ monitor' = u <=> pc'[u] \in {"entered", "reading"}
                      /\ sees'[u] # {} <=> pc'[u] \in OnItsWay \union {"reading"}
    BY <1>1 DEF Holding, SetSource
  <2>1. pc'[u] = IF u = t THEN "loop" ELSE pc[u]
    BY <1>1, <1>3 DEF Typed
  <2>2. sees'[u] # {} <=> sees[u] # {}
    BY <1>1, <1>2, WrittenType
  <2> QED BY <2>1, <2>2, <1>1, <1>4 DEF Holding, SetSource, OnItsWay
<1>7. RunningHasStream'
  BY <1>2, ThreadsNamed DEF RunningHasStream, SetSource, Joining
<1>8. OneThread'
  <2> SUFFICES ASSUME Orderly'
               PROVE  /\ Alive' \subseteq {thread'}
                      /\ \A u \in Threads : NoStream \notin sees'[u]
    BY DEF OneThread, SetSource
  <2>1. Alive = {} /\ Orderly
    BY DEF Orderly, SetSource
  <2>2. Alive' \subseteq {t}
    BY <2>1, <1>1, <1>3 DEF Alive, Typed
  <2>3. \A u \in Threads : sees'[u] \subseteq sees[u] \union {s}
    BY <1>1, <1>2, WrittenType
  <2> QED BY <2>1, <2>2, <2>3, <1>1, <1>2, <1>3, ThreadsNamed DEF OneThread
<1>9. NullOnlyAfterGivingUp'
  BY <1>1 DEF NullOnlyAfterGivingUp, SetSource, Up
<1> QED BY <1>5, <1>6, <1>7, <1>8, <1>9 DEF PlayInv, PlayTypeOK

\* The join returns: in time when its thread is dead, and then none is alive.
LEMMA JoinEndsInv == ASSUME PlayInv, JoinEnds PROVE PlayInv'
<1>1. Typed /\ Holding /\ RunningHasStream /\ OneThread /\ NullOnlyAfterGivingUp
  BY DEF PlayInv, PlayTypeOK
<1>2. SeeWritten(NoStream) /\ NoStream \in Streams \union {NoStream}
  BY DEF JoinEnds
<1>3. Typed'
  <2>1. closed' \subseteq Streams /\ mIn' = NoStream
    BY <1>1 DEF Typed, JoinEnds
  <2>2. late' \in BOOLEAN /\ main' = "idle" /\ thread' \in Threads \union {NoThread}
    BY <1>1 DEF Typed, JoinEnds, Ended
  <2> QED BY <1>1, <1>2, <2>1, <2>2, WrittenType DEF Typed, JoinEnds
<1>4. Holding'
  BY <1>1, <1>2, WrittenType DEF Holding, JoinEnds
<1>5. RunningHasStream'
  BY <1>1 DEF RunningHasStream, JoinEnds, Joining
<1>6. OneThread'
  <2> SUFFICES ASSUME Orderly'
               PROVE  Alive' = {} /\ \A t \in Threads : NoStream \notin sees'[t]
    BY DEF OneThread
  <2>1. Ended /\ Orderly
    BY DEF Orderly, JoinEnds
  <2>2. Alive = {}
    BY <2>1, <1>1, ThreadsNamed DEF OneThread, Ended, Alive
  <2>3. \A t \in Threads : pc[t] = "dead"
    BY <2>2 DEF Alive
  <2>4. \A t \in Threads : sees'[t] = sees[t]
    BY <2>3, <1>1, <1>2, WrittenType
  <2>5. Alive' = {}
    BY <2>2 DEF Alive, JoinEnds
  <2> QED BY <2>1, <2>4, <2>5, <1>1 DEF OneThread
<1>7. NullOnlyAfterGivingUp'
  BY DEF NullOnlyAfterGivingUp, JoinEnds, Up
<1> QED BY <1>3, <1>4, <1>5, <1>6, <1>7 DEF PlayInv, PlayTypeOK

\* Stops, the surface's callbacks and setSurfaceSize.
LEMMA MainInv ==
  ASSUME PlayInv, Stop \/ SurfaceDestroyed \/ SurfaceCreated \/ SurfaceChanged \/ SetSurfaceSize
  PROVE  PlayInv'
<1> USE DEF PlayInv, PlayTypeOK, Typed, Holding, RunningHasStream, OneThread, NullOnlyAfterGivingUp, Orderly,
            Joining, Alive, Up
<1>1. CASE Stop
  BY <1>1 DEF Stop
<1>2. CASE SurfaceDestroyed
  BY <1>2 DEF SurfaceDestroyed
<1>3. CASE SurfaceCreated
  BY <1>3 DEF SurfaceCreated
<1>4. CASE SurfaceChanged
  BY <1>4 DEF SurfaceChanged
<1>5. CASE SetSurfaceSize
  BY <1>5 DEF SetSurfaceSize
<1> QED BY <1>1, <1>2, <1>3, <1>4, <1>5

-----------------------------------------------------------------------------
(***************************************************************************)
(* A render thread.                                                        *)
(***************************************************************************)

\* A thread that goes on, without ending what the main thread wrote, keeps the
\* invariant if it keeps the locks and never comes to see null in an orderly run.
LEMMA ThreadInv ==
  ASSUME PlayInv, NEW t \in Threads, pc[t] # "dead",
         NEW stage \in {"dead", "loop", "canvas", "monitor", "entered", "reading", "drawn"},
         pc' = [pc EXCEPT ![t] = stage],
         NEW seen \in SUBSET (Streams \union {NoStream}), sees' = [sees EXCEPT ![t] = seen],
         Holding', Orderly => NoStream \notin seen,
         UNCHANGED <<mRun, surfaceDone, mIn, thread, main, closed, crash, overlapped, late>>
  PROVE  PlayInv'
<1>1. Typed /\ RunningHasStream /\ OneThread /\ NullOnlyAfterGivingUp
  BY DEF PlayInv, PlayTypeOK
<1>2. Typed'
  BY <1>1 DEF Typed
<1>3. Alive' \subseteq Alive
  BY <1>1 DEF Alive, Typed
<1>4. OneThread'
  BY <1>1, <1>3 DEF OneThread, Orderly, Joining, Typed
<1>5. RunningHasStream' /\ NullOnlyAfterGivingUp'
  BY <1>1 DEF RunningHasStream, NullOnlyAfterGivingUp, Joining
<1> QED BY <1>2, <1>4, <1>5 DEF PlayInv, PlayTypeOK

LEMMA LoopInv == ASSUME PlayInv, NEW t \in Threads, Loop(t) PROVE PlayInv'
<1>1. Typed /\ Holding /\ RunningHasStream /\ OneThread
  BY DEF PlayInv, PlayTypeOK
<1>2. pc[t] = "loop" /\ sees[t] = {}
  BY <1>1 DEF Loop, Holding, OnItsWay
<1>3. CASE ~mRun
  <2>1. pc' = [pc EXCEPT ![t] = "dead"] /\ sees' = [sees EXCEPT ![t] = {}]
    BY <1>1, <1>2, <1>3 DEF Loop, GoesTo, Typed
  <2>2. Holding'
    BY <1>1, <1>2, <2>1 DEF Holding, Loop, Typed, OnItsWay
  <2> QED BY <1>2, <2>1, <2>2, ThreadInv DEF Loop
<1>4. CASE mRun /\ surfaceDone
  <2>1. pc' = [pc EXCEPT ![t] = "canvas"] /\ sees' = [sees EXCEPT ![t] = {mIn}]
    BY <1>4 DEF Loop, GoesTo
  <2>2. Holding'
    BY <1>1, <1>2, <2>1 DEF Holding, Loop, Typed, OnItsWay
  <2>3. NoStream \notin {mIn} /\ {mIn} \in SUBSET (Streams \union {NoStream})
    BY <1>1, <1>4 DEF RunningHasStream, Typed
  <2> QED BY <1>2, <2>1, <2>2, <2>3, ThreadInv DEF Loop
<1>5. CASE mRun /\ ~surfaceDone
  <2>1. pc' = [pc EXCEPT ![t] = "loop"] /\ sees' = [sees EXCEPT ![t] = {}]
    BY <1>1, <1>2, <1>5 DEF Loop, Typed
  <2>2. Holding'
    BY <1>1, <1>2, <2>1 DEF Holding, Loop, Typed, OnItsWay
  <2> QED BY <1>2, <2>1, <2>2, ThreadInv DEF Loop
<1> QED BY <1>3, <1>4, <1>5

LEMMA LockCanvasInv == ASSUME PlayInv, NEW t \in Threads, LockCanvas(t) PROVE PlayInv'
<1>1. Typed /\ Holding /\ OneThread
  BY DEF PlayInv, PlayTypeOK
<1>2. pc[t] = "canvas" /\ canvas = NoThread
  BY DEF LockCanvas
<1>3. CASE canvas' = t /\ GoesTo(t, "monitor") /\ UNCHANGED sees
  <2>1. pc' = [pc EXCEPT ![t] = "monitor"] /\ sees' = [sees EXCEPT ![t] = sees[t]]
    BY <1>1, <1>3 DEF GoesTo, Typed
  <2>2. Holding'
    BY <1>1, <1>2, <1>3, <2>1, ThreadsNamed DEF Holding, LockCanvas, Typed, OnItsWay
  <2>3. sees[t] \in SUBSET (Streams \union {NoStream}) /\ (Orderly => NoStream \notin sees[t])
    BY <1>1 DEF Typed, OneThread
  <2> QED BY <1>2, <2>1, <2>2, <2>3, ThreadInv DEF LockCanvas
<1>4. CASE canvas' = canvas /\ GoesTo(t, "loop") /\ sees' = [sees EXCEPT ![t] = {}]
  <2>1. Holding'
    BY <1>1, <1>2, <1>4 DEF Holding, LockCanvas, Typed, OnItsWay, GoesTo
  <2>2. pc' = [pc EXCEPT ![t] = "loop"] /\ {} \in SUBSET (Streams \union {NoStream})
    BY <1>4 DEF GoesTo
  <2> QED BY <1>2, <1>4, <2>1, <2>2, ThreadInv DEF LockCanvas
<1> QED BY <1>3, <1>4 DEF LockCanvas

LEMMA EnterInv == ASSUME PlayInv, NEW t \in Threads, Enter(t) PROVE PlayInv'
<1>1. Typed /\ Holding /\ OneThread
  BY DEF PlayInv, PlayTypeOK
<1>2. pc' = [pc EXCEPT ![t] = "entered"] /\ sees' = [sees EXCEPT ![t] = sees[t]]
  BY <1>1 DEF Enter, GoesTo, Typed
<1>3. Holding'
  BY <1>1, <1>2, ThreadsNamed DEF Holding, Enter, Typed, OnItsWay
<1>4. sees[t] \in SUBSET (Streams \union {NoStream}) /\ (Orderly => NoStream \notin sees[t])
  BY <1>1 DEF Typed, OneThread
<1> QED BY <1>2, <1>3, <1>4, ThreadInv DEF Enter

LEMMA BeginReadInv == ASSUME PlayInv, NEW t \in Threads, BeginRead(t) PROVE PlayInv'
<1>1. Typed /\ Holding /\ OneThread /\ NullOnlyAfterGivingUp /\ RunningHasStream
  BY DEF PlayInv, PlayTypeOK
<1>2. CASE \E s \in sees[t] \ {NoStream} :
             sees' = [sees EXCEPT ![t] = {s}] /\ GoesTo(t, "reading") /\ UNCHANGED crash
  <2>1. PICK s \in sees[t] \ {NoStream} :
          sees' = [sees EXCEPT ![t] = {s}] /\ GoesTo(t, "reading") /\ UNCHANGED crash
    BY <1>2
  <2>2. {s} \in SUBSET (Streams \union {NoStream}) /\ NoStream \notin {s}
    BY <1>1 DEF Typed
  <2>3. Holding'
    BY <1>1, <2>1 DEF Holding, BeginRead, Typed, OnItsWay, GoesTo
  <2> QED BY <2>1, <2>2, <2>3, ThreadInv DEF BeginRead, GoesTo
<1>3. CASE NoStream \in sees[t] /\ crash' = "noStream" /\ UNCHANGED <<pc, sees>>
  <2>1. ~Orderly
    BY <1>1, <1>3 DEF OneThread
  <2>2. Typed' /\ Holding'
    BY <1>1, <1>3 DEF Typed, Holding, BeginRead
  <2>3. RunningHasStream' /\ OneThread' /\ NullOnlyAfterGivingUp'
    BY <2>1, <1>1, <1>3
       DEF RunningHasStream, OneThread, NullOnlyAfterGivingUp, Orderly, Joining, BeginRead
  <2> QED BY <2>2, <2>3 DEF PlayInv, PlayTypeOK
<1> QED BY <1>2, <1>3 DEF BeginRead

LEMMA ReadInv == ASSUME PlayInv, NEW t \in Threads, Read(t) PROVE PlayInv'
<1>1. Typed /\ Holding
  BY DEF PlayInv, PlayTypeOK
<1>2. Holding'
  BY <1>1, ThreadsNamed DEF Holding, Read, Typed, OnItsWay, GoesTo
<1> QED BY <1>2, ThreadInv DEF Read, GoesTo

LEMMA BadFrameInv == ASSUME PlayInv, NEW t \in Threads, BadFrame(t) PROVE PlayInv'
BY DEF BadFrame, PlayInv, PlayTypeOK, Typed, Holding, RunningHasStream, OneThread, NullOnlyAfterGivingUp,
       Orderly, Joining, Alive

LEMMA UnlockInv == ASSUME PlayInv, NEW t \in Threads, Unlock(t) PROVE PlayInv'
<1>1. Typed /\ Holding
  BY DEF PlayInv, PlayTypeOK
<1>2. pc[t] = "drawn" /\ sees[t] = {}
  BY <1>1 DEF Holding, Unlock, OnItsWay
<1>3. sees' = [sees EXCEPT ![t] = {}]
  BY <1>1, <1>2 DEF Unlock, Typed
<1>4. Holding'
  BY <1>1, <1>2, ThreadsNamed DEF Holding, Unlock, Typed, OnItsWay, GoesTo
<1> QED BY <1>2, <1>3, <1>4, ThreadInv DEF Unlock, GoesTo

-----------------------------------------------------------------------------

\* Nothing has been set, started or closed.
LEMMA PlayStart == PlayInit => PlayInv
BY ThreadsNamed DEF PlayInit, PlayInv, PlayTypeOK, Typed, Holding, RunningHasStream, OneThread,
                    NullOnlyAfterGivingUp, Orderly, Joining, Alive, OnItsWay

LEMMA PlayStep == PlayInv /\ [PlayNext]_playVars => PlayInv'
<1> SUFFICES ASSUME PlayInv, [PlayNext]_playVars PROVE PlayInv'
  OBVIOUS
<1>1. CASE SetSource
  BY <1>1, SetSourceInv
<1>2. CASE Stop \/ SurfaceDestroyed \/ SurfaceCreated \/ SurfaceChanged \/ SetSurfaceSize
  BY <1>2, MainInv
<1>3. CASE JoinEnds
  BY <1>3, JoinEndsInv
<1>4. ASSUME NEW t \in Threads, Render(t) PROVE PlayInv'
  BY <1>4, LoopInv, LockCanvasInv, EnterInv, BeginReadInv, ReadInv, UnlockInv
     DEF Render, ReadFails
<1>5. ASSUME NEW t \in Threads, FrameRead(t) PROVE PlayInv'
  BY <1>5, ReadInv DEF FrameRead
<1>6. ASSUME NEW t \in Threads, BadFrame(t) PROVE PlayInv'
  BY <1>6, BadFrameInv
<1>7. CASE Relaunch
  BY <1>7, ThreadsNamed DEF Relaunch, PlayInv, PlayTypeOK, Typed, Holding, RunningHasStream, OneThread,
     NullOnlyAfterGivingUp, Orderly, Joining, Alive, OnItsWay
<1>8. CASE UNCHANGED playVars
  BY <1>8 DEF playVars, PlayInv, PlayTypeOK, Typed, Holding, RunningHasStream, OneThread,
     NullOnlyAfterGivingUp, Orderly, Joining, Alive
<1> QED BY <1>1, <1>2, <1>3, <1>4, <1>5, <1>6, <1>7, <1>8 DEF PlayNext

\* The invariant that carries all three properties of the default view.
THEOREM PlayInvariant == PlaySpec => []PlayInv
BY PlayStart, PlayStep, PTL DEF PlaySpec

\* Every variable keeps its type, and the canvas and the monitor are each held by
\* the one thread whose code is between taking and giving them back.
THEOREM PlayTypeCorrect == PlaySpec => []PlayTypeOK
<1>1. PlayInv => PlayTypeOK
  BY DEF PlayInv
<1> QED BY <1>1, PlayInvariant, PTL

\* Only a stop that gave up on a thread, or knew of one of two, lets one read null.
THEOREM NullExplained == PlaySpec => []NullOnlyAfterGivingUp
<1>1. PlayInv => NullOnlyAfterGivingUp
  BY DEF PlayInv
<1> QED BY <1>1, PlayInvariant, PTL

\* A stop that came back in time leaves no thread that reads or draws.
THEOREM StopStops == PlaySpec => []StoppedMeansStopped
<1>1. PlayInv => StoppedMeansStopped
  BY DEF PlayInv, OneThread, StoppedMeansStopped, Orderly, Joining
<1> QED BY <1>1, PlayInvariant, PTL

-----------------------------------------------------------------------------
(***************************************************************************)
(* The native view: MjpegNativePlayback.                                   *)
(***************************************************************************)

\* A view that is to be resumed, or that waits in a join, does not run.
Halted == suspending \/ nMain # "idle" => ~nRun

\* A thread that has gone beyond the loop has a bitmap.
Beyond == Stages \ {"new", "dead", "loop", "spinning"}
HasBitmap == \A t \in Workers : nPc[t] \in Beyond => bmp # NoSize

\* Once a picture had a size, it is there or was given back; so it is where
\* rows are written or copied.
Kept == rgb # NoSize \/ freed
PictureKept ==
  /\ IMG # NoSize => Kept
  /\ \A t \in Workers : nPc[t] \in {"filling", "misfitting", "endless", "copying"} => Kept

NativeInv == NativeTypeOK /\ OneRenders /\ PictureThere /\ Halted /\ HasBitmap /\ PictureKept

USE DEF NoWorker, NoSize

LEMMA NativeStart == NativeInit => NativeInv
BY NativeAssumption DEF NativeInit, NativeInv, NativeTypeOK, Stages, OneRenders, nAlive, PictureThere,
     Halted, HasBitmap, Beyond, PictureKept, Kept

\* A new view: nothing runs, nothing is drawn.
LEMMA NewViewInv ==
  ASSUME NativeInv, NewView, UNCHANGED <<rgb, IMG, nCrash, freed>>
           \/ (rgb' = NoSize /\ IMG' = NoSize /\ nCrash' = "none" /\ freed' = FALSE)
  PROVE NativeInv'
BY NativeAssumption DEF NewView, NativeInv, NativeTypeOK, Stages, OneRenders, nAlive, PictureThere,
     Halted, HasBitmap, Beyond, PictureKept, Kept

\* The main thread.
LEMMA NativeSourceInv == NativeInv /\ (StartPlayback \/ ResumePlayback) => NativeInv'
<1> SUFFICES ASSUME NativeInv, StartPlayback \/ ResumePlayback PROVE NativeInv'
  OBVIOUS
<1>1. nMain = "idle" /\ nIn' = TRUE /\ nRun' = TRUE /\ suspending' = FALSE
  /\ UNCHANGED <<nSurfaceDone, nMain, resolution, bmp, rgb, IMG, freed>>
  BY DEF StartPlayback, ResumePlayback, NativeInv, NativeTypeOK
<1>2. CASE nCrash' = "started" /\ UNCHANGED <<nThread, nPc>>
  BY <1>1, <1>2 DEF NativeInv, NativeTypeOK, Stages, OneRenders, nAlive, PictureThere, Halted, HasBitmap,
       Beyond, PictureKept, Kept
<1>3. CASE /\ nAlive = {} /\ UNCHANGED nCrash
           /\ \E t \in Workers : nThread' = t /\ nGoesTo(t, "loop")
  <2> PICK t \in Workers : nThread' = t /\ nPc' = [nPc EXCEPT ![t] = "loop"]
    BY <1>3 DEF nGoesTo
  <2>1. nAlive' \subseteq {t}
    BY <1>3 DEF nAlive, NativeInv, NativeTypeOK
  <2> QED
    BY <1>1, <1>3, <2>1 DEF NativeInv, NativeTypeOK, Stages, OneRenders, PictureThere, Halted,
         HasBitmap, Beyond, PictureKept, Kept
<1>4. CASE StartPlayback
  <2>1. CASE nThread = NoWorker
    <3>1. nAlive = {}
      BY <2>1, NativeAssumption DEF NativeInv, OneRenders, nAlive
    <3> QED
      BY <1>3, <1>4, <2>1, <3>1 DEF StartPlayback, Start
  <2>2. CASE nThread # NoWorker /\ nPc[nThread] = "new"
    <3>1. nAlive = {} /\ nThread \in Workers
      BY <2>2 DEF NativeInv, NativeTypeOK, OneRenders, nAlive
    <3>2. nThread' = nThread /\ nGoesTo(nThread, "loop") /\ UNCHANGED nCrash
      BY <1>4, <2>2 DEF StartPlayback, Start
    <3>3. \E t \in Workers : nThread' = t /\ nGoesTo(t, "loop")
      BY <3>1, <3>2
    <3> QED
      BY <1>3, <3>1, <3>2, <3>3
  <2>3. CASE nThread # NoWorker /\ nPc[nThread] # "new"
    BY <1>2, <1>4, <2>3 DEF StartPlayback, Start
  <2> QED
    BY <2>1, <2>2, <2>3
<1>5. CASE ResumePlayback
  <2>1. nAlive = {}
    BY <1>5 DEF ResumePlayback, NativeInv, Halted, OneRenders
  <2> QED
    BY <1>3, <1>5, <2>1 DEF ResumePlayback
<1> QED
  BY <1>4, <1>5

LEMMA NativeJoinInv == NativeInv /\ NativeJoinEnds => NativeInv'
<1> SUFFICES ASSUME NativeInv, NativeJoinEnds PROVE NativeInv'
  OBVIOUS
<1>1. nAlive = {}
  <2>1. CASE nThread = NoWorker
    BY <2>1, NativeAssumption DEF NativeInv, OneRenders, nAlive
  <2>2. CASE nThread # NoWorker
    BY <2>2 DEF NativeJoinEnds, Joined, NativeInv, OneRenders, nAlive
  <2> QED
    BY <2>1, <2>2
<1>2. nAlive' = {}
  BY <1>1 DEF NativeJoinEnds, nAlive, NativeInv, NativeTypeOK
<1> QED
  BY <1>2 DEF NativeJoinEnds, NativeInv, NativeTypeOK, Stages, OneRenders, PictureThere, Halted, HasBitmap,
       Beyond, PictureKept, Kept

LEMMA NativeMainInv ==
  NativeInv /\ ((\E why \in {"stopping", "destroying"} : NativeStop(why)) \/ NativeSurfaceCreated
                \/ SetResolution \/ FreeCameraMemory) => NativeInv'
<1> SUFFICES ASSUME NativeInv PROVE ((\E why \in {"stopping", "destroying"} : NativeStop(why))
               \/ NativeSurfaceCreated \/ SetResolution \/ FreeCameraMemory) => NativeInv'
  OBVIOUS
<1>1. ASSUME NEW why \in {"stopping", "destroying"}, NativeStop(why) PROVE NativeInv'
  <2>1. /\ nSurfaceDone' \in BOOLEAN /\ suspending' \in BOOLEAN /\ nRun' = FALSE
        /\ nMain' = why /\ why # "idle"
        /\ UNCHANGED <<nIn, nThread, nPc, resolution, bmp, rgb, IMG, nCrash, freed>>
    BY <1>1 DEF NativeStop, NativeInv, NativeTypeOK
  <2> QED
    BY <2>1 DEF NativeInv, NativeTypeOK, OneRenders, nAlive, PictureThere, Halted, HasBitmap,
         PictureKept, Kept
<1>2. ASSUME NativeSurfaceCreated \/ SetResolution PROVE NativeInv'
  <2>1. /\ nSurfaceDone' \in BOOLEAN /\ resolution' \in Sizes
        /\ UNCHANGED <<nRun, nIn, suspending, nThread, nMain, nPc, bmp, rgb, IMG, nCrash, freed>>
    BY <1>2 DEF NativeSurfaceCreated, SetResolution, NativeInv, NativeTypeOK
  <2> QED
    BY <2>1 DEF NativeInv, NativeTypeOK, OneRenders, nAlive, PictureThere, Halted, HasBitmap,
         PictureKept, Kept
<1>3. ASSUME FreeCameraMemory PROVE NativeInv'
  <2>1. Kept => Kept'
    BY <1>3 DEF FreeCameraMemory, Kept
  <2>2. PictureKept'
    BY <1>3, <2>1 DEF FreeCameraMemory, NativeInv, PictureKept
  <2>3. OneRenders' /\ Halted' /\ HasBitmap' /\ PictureThere'
    BY <1>3 DEF FreeCameraMemory, viewVars, NativeInv, OneRenders, nAlive, Halted, HasBitmap, PictureThere
  <2>4. NativeTypeOK'
    BY <1>3 DEF FreeCameraMemory, viewVars, NativeInv, NativeTypeOK
  <2> QED
    BY <2>2, <2>3, <2>4 DEF NativeInv
<1> QED
  BY <1>1, <1>2, <1>3

\* A render thread that is alive and goes on, or ends, disturbs nobody.
LEMMA ThreadKeeps ==
  ASSUME NativeInv, NEW t \in Workers, nPc[t] \notin {"new", "dead"}, UNCHANGED viewVars,
         NEW stage \in Stages, nPc' = [nPc EXCEPT ![t] = stage]
  PROVE OneRenders' /\ Halted' /\ nPc' \in [Workers -> Stages]
BY DEF NativeInv, NativeTypeOK, OneRenders, nAlive, viewVars, Halted

LEMMA NativeLoopInv == ASSUME NativeInv, NEW t \in Workers, NativeLoop(t) PROVE NativeInv'
<1>1. \E stage \in Stages : nPc' = [nPc EXCEPT ![t] = stage]
  BY DEF NativeLoop, nGoesTo, Stages, NativeInv, NativeTypeOK
<1>2. OneRenders' /\ Halted' /\ nPc' \in [Workers -> Stages]
  BY <1>1, ThreadKeeps DEF NativeLoop
<1>3. bmp' \in Sizes \union {NoSize} /\ (bmp' = bmp \/ bmp' # NoSize)
  BY NativeAssumption DEF NativeLoop, NativeInv, NativeTypeOK
<1>4. HasBitmap'
  BY <1>3, NativeAssumption DEF NativeLoop, nGoesTo, NativeInv, NativeTypeOK, Stages, HasBitmap, Beyond
<1>5. PictureKept'
  BY DEF NativeLoop, nGoesTo, NativeInv, NativeTypeOK, PictureKept, Kept
<1> QED
  BY <1>2, <1>3, <1>4, <1>5 DEF NativeLoop, viewVars, NativeInv, NativeTypeOK, PictureThere

LEMMA NativeReadInv ==
  ASSUME NativeInv, NEW t \in Workers, NativeFrame(t) \/ NativeNoFrame(t) \/ NativeBadFrame(t)
  PROVE NativeInv'
<1>1. CASE NativeFrame(t) \/ NativeNoFrame(t)
  <2>1. \E stage \in Stages : nPc' = [nPc EXCEPT ![t] = stage]
    BY <1>1 DEF NativeFrame, NativeNoFrame, nGoesTo, Stages
  <2>2. OneRenders' /\ Halted' /\ nPc' \in [Workers -> Stages]
    BY <1>1, <2>1, ThreadKeeps DEF NativeFrame, NativeNoFrame
  <2>3. HasBitmap' /\ PictureKept'
    BY <1>1 DEF NativeFrame, NativeNoFrame, nGoesTo, NativeInv, NativeTypeOK, Stages, HasBitmap, Beyond,
         PictureKept, Kept
  <2> QED
    BY <1>1, <2>2, <2>3 DEF NativeFrame, NativeNoFrame, viewVars, NativeInv, NativeTypeOK, PictureThere
<1>2. CASE NativeBadFrame(t)
  BY <1>2 DEF NativeBadFrame, viewVars, NativeInv, NativeTypeOK, OneRenders, nAlive, PictureThere, Halted,
       HasBitmap, PictureKept, Kept
<1> QED
  BY <1>1, <1>2

LEMMA DecodeInv == ASSUME NativeInv, NEW t \in Workers, Decode(t) PROVE NativeInv'
<1>1. \E stage \in Stages : nPc' = [nPc EXCEPT ![t] = stage]
  BY DEF Decode, nGoesTo, Stages
<1>2. OneRenders' /\ Halted' /\ nPc' \in [Workers -> Stages]
  BY <1>1, ThreadKeeps DEF Decode
<1>3. /\ rgb' \in Sizes \union {NoSize} /\ IMG' \in Sizes \union {NoSize}
      /\ rgb' # NoSize => rgb' = IMG'
      /\ rgb # NoSize => rgb' # NoSize
      /\ nPc'[t] # "checking" => rgb' # NoSize
      /\ IMG' # NoSize => Kept'
  BY NativeAssumption DEF Decode, nGoesTo, NativeInv, NativeTypeOK, PictureThere, PictureKept, Kept
<1>4. HasBitmap'
  BY DEF Decode, nGoesTo, NativeInv, NativeTypeOK, Stages, HasBitmap, Beyond
<1>5. PictureKept'
  <2>1. Kept => Kept'
    BY <1>3 DEF Kept, Decode
  <2>2. ASSUME NEW u \in Workers, nPc'[u] \in {"filling", "misfitting", "endless", "copying"} PROVE Kept'
    <3>1. CASE u = t
      BY <1>3, <2>2, <3>1 DEF Kept
    <3>2. CASE u # t
      BY <1>1, <2>1, <2>2, <3>2 DEF NativeInv, NativeTypeOK, PictureKept
    <3> QED
      BY <3>1, <3>2
  <2> QED
    BY <1>3, <2>2 DEF PictureKept
<1> QED
  BY <1>2, <1>3, <1>4, <1>5 DEF Decode, viewVars, NativeInv, NativeTypeOK, PictureThere

LEMMA UseInv ==
  ASSUME NativeInv, NEW t \in Workers, Fill(t) \/ Overrun(t) \/ Check(t) \/ Copy(t) \/ Draw(t)
  PROVE NativeInv'
<1> DEFINE Moves == \E stage \in Stages : nPc' = [nPc EXCEPT ![t] = stage]
<1>1. /\ Moves \/ UNCHANGED nPc
      /\ nPc[t] \in {"filling", "misfitting", "endless", "checking", "copying", "drawing"}
      /\ UNCHANGED <<viewVars, bmp, rgb, IMG, freed>>
  BY DEF Fill, Overrun, Check, Copy, Draw, Survives, nGoesTo, Stages
<1>2. OneRenders' /\ Halted' /\ nPc' \in [Workers -> Stages]
  <2>1. CASE Moves
    BY <1>1, <2>1, ThreadKeeps
  <2>2. CASE UNCHANGED nPc
    BY <1>1, <2>2 DEF viewVars, NativeInv, NativeTypeOK, OneRenders, nAlive, Halted
  <2> QED
    BY <1>1, <2>1, <2>2
<1>3. nCrash' \in {nCrash, "buffer", "beyond", "noCanvas"} /\ (nCrash' = "buffer" => nCrash = "buffer" \/ freed)
  BY DEF Fill, Overrun, Check, Copy, Draw, Survives, NativeInv, PictureKept, Kept
<1>4. HasBitmap'
  BY <1>1 DEF Fill, Overrun, Check, Copy, Draw, Survives, nGoesTo, NativeInv, NativeTypeOK, HasBitmap, Beyond, Stages
<1>5. PictureKept'
  <2>1. nPc'[t] = "copying" => Kept
    BY NativeAssumption DEF Fill, Overrun, Check, Copy, Draw, Survives, nGoesTo, NativeInv, NativeTypeOK, HasBitmap,
         Beyond, Stages, PictureKept, Kept
  <2>2. nPc'[t] \in {"filling", "misfitting", "endless"} => Kept
    BY DEF Fill, Overrun, Check, Copy, Draw, Survives, nGoesTo, NativeInv, NativeTypeOK, PictureKept
  <2>3. \A u \in Workers : u # t => nPc'[u] = nPc[u]
    BY <1>1 DEF NativeInv, NativeTypeOK
  <2> QED
    BY <1>1, <2>1, <2>2, <2>3 DEF NativeInv, PictureKept, Kept
<1> QED
  BY <1>1, <1>2, <1>3, <1>4, <1>5 DEF viewVars, NativeInv, NativeTypeOK, PictureThere

LEMMA NativeStep == NativeInv /\ [NativeNext]_nativeVars => NativeInv'
<1> SUFFICES ASSUME NativeInv, [NativeNext]_nativeVars PROVE NativeInv'
  OBVIOUS
<1>1. CASE UNCHANGED nativeVars
  BY <1>1 DEF nativeVars, viewVars, NativeInv, NativeTypeOK, OneRenders, nAlive, PictureThere, Halted,
       HasBitmap, PictureKept, Kept
<1>2. CASE AnotherView \/ NativeRelaunch
  BY <1>2, NewViewInv DEF AnotherView, NativeRelaunch
<1>3. ASSUME NEW t \in Workers, Work(t) \/ NativeFrame(t) \/ NativeNoFrame(t) \/ NativeBadFrame(t) \/ Overrun(t)
      PROVE NativeInv'
  BY <1>3, NativeLoopInv, NativeReadInv, DecodeInv, UseInv DEF Work
<1> QED
  BY <1>1, <1>2, <1>3, NativeSourceInv, NativeJoinInv, NativeMainInv DEF NativeNext

\* The invariant that carries all three properties of the native view.
THEOREM NativeInvariant == NativeSpec => []NativeInv
BY NativeStart, NativeStep, PTL DEF NativeSpec

\* Every variable of the native view keeps its type.
THEOREM NativeTypeCorrect == NativeSpec => []NativeTypeOK
BY NativeInvariant, PTL DEF NativeInv

\* One render thread at most, and none after a stop.
THEOREM OneThreadRenders == NativeSpec => []OneRenders
BY NativeInvariant, PTL DEF NativeInv

\* No picture is missed that was not given back, and its size is the recorded one.
THEOREM PictureExplained == NativeSpec => []PictureThere
BY NativeInvariant, PTL DEF NativeInv

-----------------------------------------------------------------------------
(***************************************************************************)
(* Both under their surface.                                               *)
(***************************************************************************)

\* A step of the surface is a step of one view and leaves the other alone.
LEMMA StepOfOne ==
  ASSUME [SurfaceNext]_surfaceVars
  PROVE  [PlayNext]_playVars /\ [NativeNext]_nativeVars
<1>1. CASE AsDefault(PlayNext)
  BY <1>1 DEF AsDefault
<1>2. CASE AsNative(NativeNext)
  BY <1>2 DEF AsNative
<1>3. CASE UNCHANGED surfaceVars
  BY <1>3 DEF surfaceVars
<1> QED BY <1>1, <1>2, <1>3 DEF SurfaceNext

\* Under the surface each view does what it does alone: the attribute "type"
\* takes nothing from either and adds nothing to it (MjpegSurfaceView).
THEOREM ViewsAsAlone == SurfaceSpec => PlaySpec /\ NativeSpec
<1>1. SurfaceInit => PlayInit /\ NativeInit
  BY DEF SurfaceInit
<1>2. [SurfaceNext]_surfaceVars => [PlayNext]_playVars
  BY StepOfOne
<1>3. [SurfaceNext]_surfaceVars => [NativeNext]_nativeVars
  BY StepOfOne
<1> QED BY <1>1, <1>2, <1>3, PTL DEF SurfaceSpec, PlaySpec, NativeSpec

\* What holds of each view alone holds of the whole.
THEOREM SurfaceSafe ==
  SurfaceSpec => [](/\ PlayTypeOK /\ NullOnlyAfterGivingUp /\ StoppedMeansStopped
                    /\ NativeTypeOK /\ OneRenders /\ PictureThere)
BY ViewsAsAlone, PlayTypeCorrect, NullExplained, StopStops, NativeTypeCorrect,
   OneThreadRenders, PictureExplained, PTL
=============================================================================
