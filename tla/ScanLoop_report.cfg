SPECIFICATION FairSpec
CONSTANTS
  Plain <- MCThree
  Mod <- MCMod
  Tap <- MCNone
  Right <- MCRight
  None = None
  SLOTS = 2
  HALF = TRUE
  HAS_DISPLAY = FALSE
INVARIANTS
  PressShown
  ReleaseShown
  ModifiersShown
PROPERTY Settles
