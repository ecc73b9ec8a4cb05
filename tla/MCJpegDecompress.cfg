SPECIFICATION Spec
CONSTANTS
  DCTSIZE = 2
  Pictures <- AllPictures
  Modes <- AllModes
INVARIANTS
  JpegTypeOK
  LinesInPlace
  LinesComplete
  NeighboursThere
  NothingSkipped
  SuspendedForWant
