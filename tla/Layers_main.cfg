SPECIFICATION Spec
CONSTANTS
  shift = shift
  ctrl = ctrl
  Key <- MCKey
  Mod <- MCMod
  LAYERS = 3
  KeyMap <- MCKeyMap
  SLOTS = 3
  ENTRIES = 2
  Asked <- MCAsked
  None = None
INVARIANTS
  HeldModsOwned
  LayerTapRules
  NothingLeft
  LayerReturns
