SPECIFICATION FairSpec
CONSTANTS
  MaxPieces = 3
  InitialTimeout = 2
  Timeouts = {1, 3}
  MaxQuiet = 4
PROPERTIES
  EntireStreamCloses
CHECK_DEADLOCK FALSE
