SPECIFICATION FairSpec
CONSTANTS
  COMMANDS = 4
  RESETS = 2
  RETRIES = 1
INVARIANTS
  AnswersMatch
  ControlIsFree
PROPERTY Answered
CHECK_DEADLOCK FALSE
