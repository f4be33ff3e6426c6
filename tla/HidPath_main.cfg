SPECIFICATION FairSpec
CONSTANTS
  r0 = r0
  r1 = r1
  Report <- MCReport
  Empty = r0
  NoReport = NoReport
  NoKeys <- MCNoKeys
  QLEN = 2
  TapReports <- MCTaps
INVARIANT
  QuiescentAgreement
PROPERTIES
  Drains
  
