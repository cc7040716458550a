SPECIFICATION Spec
CONSTANTS
  NFiles = 2
  Versions = {v1}
  Updates = {"redo"}
  MaxLag = 1
  MaxUploads = 1
  MaxEdits = 0
  MaxUpdates = 2
  MaxFaults = 1
  MaxOutages = 1
  MaxDeletes = 0
  MaxCrashes = 1
INVARIANTS
  TypeOK
  
  
CHECK_DEADLOCK FALSE
