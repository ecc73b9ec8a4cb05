--------------------------- MODULE MjpegSurface ----------------------------
(***************************************************************************)
(* MjpegSurfaceView: the attribute "type" decides which of the two views   *)
(* does the work; the other one does not exist.                            *)
(***************************************************************************)
EXTENDS MjpegPlayback, MjpegNativePlayback

VARIABLE type   \* "default" or "native"

surfaceVars == <<type, playVars, nativeVars>>

SurfaceInit ==
  /\ type \in {"default", "native"}
  /\ PlayInit
  /\ NativeInit

AsDefault(step) == type = "default" /\ step /\ UNCHANGED <<type, nativeVars>>
AsNative(step) == type = "native" /\ step /\ UNCHANGED <<type, playVars>>

SurfaceNext == AsDefault(PlayNext) \/ AsNative(NativeNext)

SurfaceSpec == SurfaceInit /\ [][SurfaceNext]_surfaceVars

\* The fairness of the view that exists
FairSurfaceSpec ==
  /\ SurfaceSpec
  /\ WF_surfaceVars(AsDefault(JoinEnds))
  /\ WF_surfaceVars(AsNative(NativeJoinEnds))
  /\ \A t \in Threads : WF_surfaceVars(AsDefault(Render(t)))
  /\ \A t \in Workers : WF_surfaceVars(AsNative(Work(t)))
=============================================================================
