SPECIFICATION Spec
CONSTANTS
  RETRIES = 1
  SLOTS = {"SIG", "DEC"}
  KEYS = 2
  SIGS = 1
  FAULTS = 1
INVARIANTS
  TriesAreKept
  AnswersAreDurable
  CounterCounts
  ResetIsWhole
