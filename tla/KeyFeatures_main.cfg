SPECIFICATION FairFeatures
CONSTANTS
  a = a
  b = b
  d1 = d1
  d2 = d2
  lead = lead
  ab = ab
  Plain <- MCPlain
  Dance <- MCDance
  LeaderKey <- MCLeaderKey
  Combos <- MCCombos
  Actions <- MCActions
  LeaderSeqs <- MCLeaderSeqs
  SLOTS = 2
  DEFERRED = 1
  TAPS = 1
  SEQ = 2
  Far <- MCFar
  TapCode = TapCode
  Waiting = {0, 2}
  None = None
INVARIANT ReportAccounted
PROPERTY EnginesRest
