SPECIFICATION Spec
CONSTANTS
  NReqs = 5
  MaxActive = 2
  MaxFaults = 1
  MaxDeletes = 2
INVARIANTS TypeOK Kept Told StaysDeleted
CHECK_DEADLOCK FALSE
