------------------------ MODULE MjpegNativePlayback ------------------------
(***************************************************************************)
(* The life of MjpegViewNative, and of the picture that ImageProc.c keeps  *)
(* for the whole process.                                                  *)
(*                                                                         *)
(* The main thread sets sources, stops, frees the picture and follows the  *)
(* surface.  A render thread reads a frame (MjpegInputStreamNative), has   *)
(* ImageProc decode it into rgb and copy rgb into the view's bitmap, and   *)
(* draws the bitmap.  _stopPlayback waits for the thread without a limit   *)
(* and closes the stream only then.  rgb, IMG_WIDTH and IMG_HEIGHT are     *)
(* globals: no lock guards them, the first picture fixes their size, and   *)
(* they survive the view.  One view is alive at a time.                    *)
(*                                                                         *)
(* A size stands for a width and a height.  What a frame's bytes are is    *)
(* left to the decoder: here it is decoded, refused or decoded for ever.   *)
(***************************************************************************)
EXTENDS Integers, FiniteSets

CONSTANTS
  Workers,  \* bound: render threads at a time; a dead one is used again
  Sizes     \* bound: sizes of pictures and bitmaps

NoWorker == 0
NoSize == 0     \* rgb == NULL, bmp == null; as IMG: the -1 of the start

ASSUME NativeAssumption == Workers \subseteq Nat \ {NoWorker} /\ Sizes \subseteq Nat \ {NoSize}

VARIABLES
  nRun,         \* mRun (not volatile)
  nSurfaceDone, \* surfaceDone
  nIn,          \* mIn # null
  suspending,
  nThread,      \* thread, or null
  nMain,        \* "idle", "stopping", "destroying" (both in join)
  nPc,          \* where each thread is; "new": made, not started
  bmp,          \* the size of the bitmap, or NoSize
  resolution,   \* the view's IMG_WIDTH and IMG_HEIGHT
  rgb,          \* ImageProc: the size that was allocated, or NoSize
  IMG,          \* ImageProc: IMG_WIDTH and IMG_HEIGHT
  nCrash,       \* what ended the process, or "none"
  freed         \* history: freeCameraMemory freed the picture

viewVars == <<nRun, nSurfaceDone, nIn, suspending, nThread, nMain, resolution>>
nativeVars == <<viewVars, nPc, bmp, rgb, IMG, nCrash, freed>>

nAlive == {t \in Workers : nPc[t] \notin {"new", "dead"}}
nUp == nCrash = "none"
nGoesTo(t, stage) == nPc' = [nPc EXCEPT ![t] = stage]

\* init: the view's fields, and a thread that is made and not started
NewView ==
  /\ nRun' = FALSE
  /\ nSurfaceDone' = FALSE
  /\ nIn' = FALSE
  /\ suspending' = FALSE
  /\ nMain' = "idle"
  /\ \E t \in Workers : nThread' = t /\ nPc' = [w \in Workers |-> IF w = t THEN "new" ELSE "dead"]
  /\ bmp' = NoSize
  /\ resolution' \in Sizes

NativeInit ==
  /\ nRun = FALSE
  /\ nSurfaceDone = FALSE
  /\ nIn = FALSE
  /\ suspending = FALSE
  /\ nMain = "idle"
  /\ \E t \in Workers : nThread = t /\ nPc = [w \in Workers |-> IF w = t THEN "new" ELSE "dead"]
  /\ bmp = NoSize
  /\ resolution \in Sizes
  /\ rgb = NoSize
  /\ IMG = NoSize
  /\ nCrash = "none"
  /\ freed = FALSE

(***************************************************************************)
(* The main thread.                                                        *)
(***************************************************************************)

Made(t) == nPc[t] = "dead" /\ t # nThread

\* thread.start(): a thread starts once.
Start ==
  IF nThread = NoWorker
  THEN \E t \in Workers : Made(t) /\ nThread' = t /\ nGoesTo(t, "loop") /\ UNCHANGED nCrash
  ELSE /\ UNCHANGED nThread
       /\ IF nPc[nThread] = "new"
          THEN nGoesTo(nThread, "loop") /\ UNCHANGED nCrash
          ELSE nCrash' = "started" /\ UNCHANGED nPc

\* _setSource, _startPlayback
StartPlayback ==
  /\ nUp /\ nMain = "idle" /\ ~suspending
  /\ nIn' = TRUE
  /\ nRun' = TRUE
  /\ Start
  /\ UNCHANGED <<nSurfaceDone, suspending, nMain, resolution, bmp, rgb, IMG, freed>>

\* _setSource, _resumePlayback
ResumePlayback ==
  /\ nUp /\ nMain = "idle" /\ suspending
  /\ nIn' = TRUE
  /\ nRun' = TRUE
  /\ \E t \in Workers : Made(t) /\ nThread' = t /\ nGoesTo(t, "loop")
  /\ suspending' = FALSE
  /\ UNCHANGED <<nSurfaceDone, nMain, resolution, bmp, rgb, IMG, nCrash, freed>>

\* _stopPlayback up to the join; _surfaceDestroyed clears surfaceDone first.
NativeStop(why) ==
  /\ nUp /\ nMain = "idle"
  /\ nSurfaceDone' = (nSurfaceDone /\ why # "destroying")
  /\ suspending' = (suspending \/ nRun)
  /\ nRun' = FALSE
  /\ nMain' = why
  /\ UNCHANGED <<nIn, nThread, nPc, resolution, bmp, rgb, IMG, nCrash, freed>>

\* A thread that was not started has nothing to wait for.
Joined == nThread # NoWorker => nPc[nThread] \in {"new", "dead"}

\* Mutant of NativeJoinEnds: a join that gives up, as MjpegViewDefault's does.
NativeJoinEnds_givesUp ==
  /\ nUp /\ nMain \in {"stopping", "destroying"}
  /\ nThread' = NoWorker
  /\ nPc' = [t \in Workers |-> IF nPc[t] = "new" THEN "dead" ELSE nPc[t]]
  /\ nIn' = FALSE
  /\ nMain' = "idle"
  /\ UNCHANGED <<nRun, nSurfaceDone, suspending, resolution, bmp, rgb, IMG, nCrash, freed>>

\* thread.join() returns; thread = null, the stream is closed.
NativeJoinEnds ==
  /\ nUp /\ nMain \in {"stopping", "destroying"}
  /\ Joined
  /\ nThread' = NoWorker
  /\ nPc' = [t \in Workers |-> IF nPc[t] = "new" THEN "dead" ELSE nPc[t]]
  /\ nIn' = FALSE
  /\ nMain' = "idle"
  /\ UNCHANGED <<nRun, nSurfaceDone, suspending, resolution, bmp, rgb, IMG, nCrash, freed>>

NativeSurfaceCreated ==
  /\ nUp /\ nMain = "idle"
  /\ nSurfaceDone' = TRUE
  /\ UNCHANGED <<nRun, nIn, suspending, nThread, nMain, nPc, resolution, bmp, rgb, IMG, nCrash,
                 freed>>

SetResolution ==
  /\ nUp /\ nMain = "idle"
  /\ resolution' \in Sizes
  /\ UNCHANGED <<nRun, nSurfaceDone, nIn, suspending, nThread, nMain, nPc, bmp, rgb, IMG, nCrash,
                 freed>>

\* _freeCameraMemory: through the stream, so only while there is one
FreeCameraMemory ==
  /\ nUp /\ nMain = "idle" /\ nIn
  /\ rgb' = NoSize
  /\ freed' = (freed \/ rgb # NoSize)
  /\ UNCHANGED <<viewVars, nPc, bmp, IMG, nCrash>>

\* Another view of the same process, once the surface and the threads of this one
\* have gone.  Two views at the same time, which would decode into the one rgb side
\* by side, are not modelled.
AnotherView ==
  /\ nUp /\ nMain = "idle" /\ ~nSurfaceDone /\ nAlive = {}
  /\ NewView
  /\ UNCHANGED <<rgb, IMG, nCrash, freed>>

(***************************************************************************)
(* A render thread.                                                        *)
(***************************************************************************)

\* Mutant of NativeLoop: mRun is looked at only where there is no surface.
NativeLoop_forEver(t) ==
  /\ nUp /\ nPc[t] = "loop"
  /\ \/ ~nSurfaceDone /\ nGoesTo(t, IF nRun THEN "loop" ELSE "dead") /\ UNCHANGED bmp
     \/ /\ nSurfaceDone /\ nGoesTo(t, "reading")
        /\ bmp' = IF bmp = NoSize THEN resolution ELSE bmp
  /\ UNCHANGED <<viewVars, rgb, IMG, nCrash, freed>>

\* while (mRun), if (surfaceDone), the bitmap.  The loop without a surface
\* reads two plain fields and calls nothing: a compiler may read them once.
NativeLoop(t) ==
  /\ nUp /\ nPc[t] = "loop"
  /\ \/ ~nRun /\ nGoesTo(t, "dead") /\ UNCHANGED bmp
     \/ nRun /\ ~nSurfaceDone /\ UNCHANGED <<nPc, bmp>>
     \/ nRun /\ ~nSurfaceDone /\ nGoesTo(t, "spinning") /\ UNCHANGED bmp
     \/ /\ nRun /\ nSurfaceDone /\ nGoesTo(t, "reading")
        /\ bmp' = IF bmp = NoSize THEN resolution ELSE bmp
  /\ UNCHANGED <<viewVars, rgb, IMG, nCrash, freed>>

\* readMjpegFrame: a frame comes.
NativeFrame(t) ==
  /\ nUp /\ nPc[t] = "reading"
  /\ nGoesTo(t, "decoding")
  /\ UNCHANGED <<viewVars, bmp, rgb, IMG, nCrash, freed>>

\* readMjpegFrame: the connection ends.  Within the search for the header that is -1,
\* and run returns with mRun as it is; an IOException from elsewhere is swallowed.
NativeNoFrame(t) ==
  /\ nUp /\ nPc[t] = "reading"
  /\ \E stage \in {"dead", "loop"} : nGoesTo(t, stage)
  /\ UNCHANGED <<viewVars, bmp, rgb, IMG, nCrash, freed>>

\* readMjpegFrame: no marker, and an exception that is not an IOException
NativeBadFrame(t) ==
  /\ nUp /\ nPc[t] = "reading"
  /\ nCrash' = "badFrame"
  /\ UNCHANGED <<viewVars, nPc, bmp, rgb, IMG, freed>>

\* processimage up to the loop over the rows: a refused frame leaves no trace.
\* Only the first picture brings its size; a later one of another size is
\* written by the size that is recorded, and for as many rows as it has.
Decode(t) ==
  /\ nUp /\ nPc[t] = "decoding"
  /\ \/ nGoesTo(t, "checking") /\ UNCHANGED <<rgb, IMG>>
     \/ \E size \in Sizes :
          /\ \/ nGoesTo(t, IF rgb \in {NoSize, size} THEN "filling" ELSE "misfitting")
             \/ nGoesTo(t, "endless")
          /\ rgb' = IF rgb = NoSize THEN size ELSE rgb
          /\ IMG' = IF rgb = NoSize THEN size ELSE IMG
  /\ UNCHANGED <<viewVars, bmp, nCrash, freed>>

\* What the C code does with memory it has given back is undefined.
Survives(t, stage) ==
  \/ nGoesTo(t, stage) /\ UNCHANGED nCrash
  \/ rgb = NoSize /\ nCrash' = "buffer" /\ UNCHANGED nPc

\* processimage: the rows are written through outp.
Fill(t) ==
  /\ nUp /\ nPc[t] \in {"filling", "misfitting"}
  /\ Survives(t, "checking")
  /\ UNCHANGED <<viewVars, bmp, rgb, IMG, freed>>

\* processimage: the row pointer leaves rgb, with a picture that has more rows
\* or whose data end early; what that does is undefined.
Overrun(t) ==
  /\ nUp /\ nPc[t] \in {"misfitting", "endless"}
  /\ nCrash' = "beyond"
  /\ UNCHANGED <<viewVars, nPc, bmp, rgb, IMG, freed>>

\* Mutant of Check: pixeltobmp does not compare the sizes.
Check_not(t) ==
  /\ nUp /\ nPc[t] = "checking"
  /\ nGoesTo(t, "copying")
  /\ UNCHANGED <<viewVars, bmp, rgb, IMG, nCrash, freed>>

\* pixeltobmp: "Bitmap size differs !" is -1, and run returns with mRun as it is.
Check(t) ==
  /\ nUp /\ nPc[t] = "checking"
  /\ nGoesTo(t, IF bmp = IMG THEN "copying" ELSE "dead")
  /\ UNCHANGED <<viewVars, bmp, rgb, IMG, nCrash, freed>>

\* pixeltobmp: rgb is copied into the bitmap.
Copy(t) ==
  /\ nUp /\ nPc[t] = "copying"
  /\ Survives(t, "drawing")
  /\ UNCHANGED <<viewVars, bmp, rgb, IMG, freed>>

\* lockCanvas and what is drawn; without a canvas c.drawColor throws.
Draw(t) ==
  /\ nUp /\ nPc[t] = "drawing"
  /\ \/ nGoesTo(t, "loop") /\ UNCHANGED nCrash
     \/ nCrash' = "noCanvas" /\ UNCHANGED nPc
  /\ UNCHANGED <<viewVars, bmp, rgb, IMG, freed>>

Work(t) == NativeLoop(t) \/ Decode(t) \/ Fill(t) \/ Check(t) \/ Copy(t) \/ Draw(t)

\* The process ended, by an exception, or because the system or the user ended
\* it; the app is opened again.
NativeRelaunch ==
  /\ NewView
  /\ rgb' = NoSize
  /\ IMG' = NoSize
  /\ nCrash' = "none"
  /\ freed' = FALSE

NativeNext ==
  \/ StartPlayback
  \/ ResumePlayback
  \/ \E why \in {"stopping", "destroying"} : NativeStop(why)
  \/ NativeJoinEnds
  \/ NativeSurfaceCreated
  \/ SetResolution
  \/ FreeCameraMemory
  \/ AnotherView
  \/ \E t \in Workers :
       Work(t) \/ NativeFrame(t) \/ NativeNoFrame(t) \/ NativeBadFrame(t) \/ Overrun(t)
  \/ NativeRelaunch

NativeSpec == NativeInit /\ [][NativeNext]_nativeVars

\* Threads run, and a join returns once the thread has ended.  Nothing is
\* assumed of the camera.
FairNativeSpec ==
  /\ NativeSpec
  /\ WF_nativeVars(NativeJoinEnds)
  /\ \A t \in Workers : WF_nativeVars(Work(t))

(***************************************************************************)
(* Properties.                                                             *)
(***************************************************************************)

Stages == {"new", "dead", "loop", "spinning", "reading", "decoding", "filling", "misfitting",
           "endless", "checking", "copying", "drawing"}

\* Every variable has its type.
NativeTypeOK ==
  /\ nRun \in BOOLEAN
  /\ nSurfaceDone \in BOOLEAN
  /\ nIn \in BOOLEAN
  /\ suspending \in BOOLEAN
  /\ nThread \in Workers \union {NoWorker}
  /\ nMain \in {"idle", "stopping", "destroying"}
  /\ nPc \in [Workers -> Stages]
  /\ bmp \in Sizes \union {NoSize}
  /\ resolution \in Sizes
  /\ rgb \in Sizes \union {NoSize}
  /\ IMG \in Sizes \union {NoSize}
  /\ nCrash \in {"none", "started", "badFrame", "buffer", "beyond", "noCanvas"}
  /\ freed \in BOOLEAN

\* However sources, stops and surfaces follow each other, only the thread of the
\* field is alive, and none is once a stop has returned: no two threads share rgb.
OneRenders ==
  /\ nAlive \subseteq {nThread}
  /\ ~nRun /\ nMain = "idle" => nAlive = {}

\* rgb is missed only after freeCameraMemory gave it back, never because no frame
\* was good yet; and while it is there the recorded size is its own, whatever
\* pictures, cameras and views have come since.
PictureThere ==
  /\ nCrash = "buffer" => freed
  /\ rgb # NoSize => rgb = IMG

\* A stop that never returns waits for a camera that says nothing, for a frame
\* that is decoded for ever, or for a thread whose loop does not look any more.
StopsOnlyOn(stages) ==
  <>[](nMain # "idle" /\ nUp) => <>[](nThread # NoWorker /\ nPc[nThread] \in stages)

StopReturns == StopsOnlyOn({"reading", "endless", "spinning"})
=============================================================================
