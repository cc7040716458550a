SPECIFICATION FairSpec
CONSTANTS
  Types = {"embedder", "llm"}
  Names = {n, m}
  MaxEdits = 1
  MaxMishaps = 1
INVARIANT TypeOK
PROPERTIES ShowsPods FollowWorker Goes
CHECK_DEADLOCK FALSE
