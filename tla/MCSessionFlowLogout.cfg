CONSTANTS
  Activities = {1, 2, 3}
  Requests = {1}
  MaxTimers = 1
SPECIFICATION FlowSpec
INVARIANT LoggedOutMeansOut
