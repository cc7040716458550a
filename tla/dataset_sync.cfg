SPECIFICATION FairSpec
CONSTANTS
  s = s
  p = p
  q = q
  Files <- MCFiles
  Specs <- MCSpecs
  MaxRuns = 2
  MaxEdits = 2
  MaxMishaps = 1
INVARIANTS
  Inv
PROPERTIES
  Settles
  Goes
CHECK_DEADLOCK FALSE
