SPECIFICATION FairSpec
CONSTANTS
  m0 = m0
  m1 = m1
  k0 = k0
  k1 = k1
  Mods <- MCMods
  Keys <- MCKeys
  NoMod = m0
  NoKey = k0
  Report <- MCReport
  REPEATS = 1
  DEBOUNCE = 1
  REARM = 0
  LOST = 1
  FIFO = 1
  Environments <- MCEnvironments
  Deaf <- MCDeaf
INVARIANTS
  LostMeansReleased
  SelfHeals
  PromptRelease
PROPERTIES
  RadioRecovers
  IdleFallsSilent
