SPECIFICATION BleSpec
CONSTANT
  EVENTS = 6
INVARIANT
  RadioAgrees
