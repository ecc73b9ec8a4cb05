\* Three activities, one request in flight, two splash timers.
CONSTANTS
  Activities = {1, 2, 3}
  Requests = {1}
  MaxTimers = 2
SPECIFICATION FlowSpec
INVARIANTS
  FlowTypeOK
  OneMain
  SignupSpinsForAnswer
PROPERTY NoWayBackToMain
