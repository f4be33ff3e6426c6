SPECIFICATION FairSpec
CONSTANTS
  KEYS = 2
  FIFO = 2
  SILENCE = 1
INVARIANTS
  NoChangeLost
  FrameMakesUp
PROPERTY GoneIsReleased
