\* Three instances, two fingers, two requests in flight, one change of page under way.
CONSTANTS
  Instances = {1, 2, 3}
  MaxFingers = 2
  Slots = {1, 2}
  MaxComing = 1
SPECIFICATION FairQuerySpec
INVARIANTS
  WaitIsExplained
PROPERTIES
  ModalProtects
  QueryConcludes
