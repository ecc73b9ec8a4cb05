\* One toggle, its commands one after the other or overlapping.
CONSTANTS
  NumToggles = 1
  MaxFingers = 1
  MaxParked = 1
  MaxCommands = 2
  Ports = {1024}
  MaxCopies = 0
SPECIFICATION HomeSpec
INVARIANT DisplayTrue
PROPERTY MovesOnlyAsConfirmed
