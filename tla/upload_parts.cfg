SPECIFICATION FairSpec
CONSTANTS
  a = a  ab = ab  x = x  c1 = c1  c2 = c2
  NoPart = NoPart
  Clients = {c1, c2}
  Names <- MCNames
  Prefixed <- MCPrefixed
  Contents = {x}
  Files <- MCFiles
  Jobs <- MCJobs
  NParts = 2
  MaxUploads = 3
  MaxFaults = 1
  MaxKills = 1
  MaxUsers = 1
INVARIANTS
  Inv
PROPERTIES
  Finishes
CHECK_DEADLOCK FALSE
