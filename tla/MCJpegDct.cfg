CONSTANTS
  Sizes <- AllSizes
  Frequencies <- Corners
  Levels <- SomeLevels
SPECIFICATION DctSpec
INVARIANTS
  DctTypeOK
  Reproduced
  EquallyBright
