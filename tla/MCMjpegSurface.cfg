\* The default view with three render threads and two streams, the native
\* view with two threads and two sizes of pictures.
CONSTANTS
  Threads = {1, 2, 3}
  Streams = {1, 2}
  Workers = {1, 2}
  Sizes = {1, 2}
SPECIFICATION FairSurfaceSpec
INVARIANTS
  NullOnlyAfterGivingUp
  StoppedMeansStopped
  OneRenders
  PictureThere
PROPERTIES
  RenderingEnds
  StopReturns
