SPECIFICATION FairSpec
CONSTANTS
  Apps = {a,b}
  Datasets = {d}
  Metrics = {m}
  NJobs = 2
  Edits = {"inputs", "claim"}
  EditTime = "ended"
  MaxEdits = 1
  MaxFaults = 1
  MaxJobFailures = 0
  MaxCrashes = 0
  SlowJobs = TRUE
CHECK_DEADLOCK FALSE
INVARIANT OneSpecPerVolume
  
