SPECIFICATION FairSpec
CONSTANTS
  NFiles = 1
  Versions = {v1, v2}
  Updates = {"redo", "for-failed"}
  MaxLag = 1
  MaxUploads = 0
  MaxEdits = 1
  MaxUpdates = 1
  MaxFaults = 1
  MaxOutages = 0
  MaxDeletes = 1
  MaxCrashes = 1
PROPERTIES
  Settles
  
CHECK_DEADLOCK FALSE
