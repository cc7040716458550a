SPECIFICATION Spec
CONSTANTS
  Apps = {a}
  Datasets = {d}
  Metrics = {m,n}
  NJobs = 3
  Edits = {"metrics", "suspend"}
  EditTime = "any"
  MaxEdits = 1
  MaxFaults = 1
  MaxJobFailures = 1
  MaxCrashes = 1
  SlowJobs = FALSE
CHECK_DEADLOCK FALSE
INVARIANTS TypeOK JobsInOrder StorageHeld PassedPhasesRan
PROPERTY PhasesInOrder
