\* Home and profile in the bottom bar, notifications in the drawer only.
CONSTANTS
  BottomItems = {0, 3}
  DrawerItems = {0, 3, 4}
  MaxFragments = 5
  MaxLooper = 3
SPECIFICATION NavSpec
INVARIANTS
  NavTypeOK
  TagNamesKind
  NeverBlank
  NothingTwice
  ChosenShown
