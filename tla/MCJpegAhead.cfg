SPECIFICATION Spec
CONSTANTS
  DCTSIZE = 2
  Pictures <- AheadPictures
  Modes <- AheadModes
INVARIANT NoTableNoData
