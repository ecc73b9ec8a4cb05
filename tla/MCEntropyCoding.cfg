SPECIFICATION Spec
CONSTANTS
  EOBRUN_LIMIT = 3
  CORR_LIMIT = 5
  Jobs <- AllJobs
  Losses = 2
INVARIANTS
  EntropyTypeOK
  CoefficientsSurvive
  LossIsLocal
  CodesComplete
  NeverStarved
CHECK_DEADLOCK FALSE
