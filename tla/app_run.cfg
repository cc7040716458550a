SPECIFICATION FairSpec
CONSTANTS
  Forms <- MCForms
  HandMade <- MCHandMade
  Fallible <- MCFallible
  NoApp = NoApp
  MaxEdits = 1
  MaxBreaks = 1
  MaxRequests = 1
INVARIANTS
  TypeOK
  NothingMissing
  MadeAccepted
PROPERTIES
  InOrder
  RunEnds
  StatusFollows
CHECK_DEADLOCK FALSE
