SPECIFICATION Spec
CONSTANTS
  Plain <- MCPlain
  Mod <- MCNone
  Tap <- MCTap
  Right <- MCNone
  None = None
  SLOTS = 2
  HALF = FALSE
  HAS_DISPLAY = TRUE
INVARIANTS
  PressIsTracked
  HoldsAreSent
  TapIsReleased
