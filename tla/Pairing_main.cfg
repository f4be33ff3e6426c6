SPECIFICATION FairSpec
CONSTANTS
  v2d = v2d
  mouse = mouse
  Device <- MCBoth
  Declares <- MCDeclares
  TRIES = 1
  FIFO = 1
  COUNTS = 2
  COMMANDS = 2
  Events <- MCAdverse
  None = None
INVARIANTS
  AckedIsStored
  StoredIsHeard
  SlotsAgree
PROPERTY RadioReturns
