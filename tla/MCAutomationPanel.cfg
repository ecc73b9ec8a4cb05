\* Two toggles, a finger for each, one instance on the back stack.
CONSTANTS
  NumToggles = 2
  MaxFingers = 2
  MaxParked = 1
SPECIFICATION PanelSpec
INVARIANTS
  QuestionMatchesDisplay
  PositionsBacked
PROPERTY TapAsks
