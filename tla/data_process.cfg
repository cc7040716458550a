SPECIFICATION Spec
CONSTANTS
  Tasks = {a}
  NParts <- MCParts
  Requests <- MCRequests
  MaxRuns = 2
  MaxFaults = 1
  MaxRare = 1
INVARIANTS
  TypeOK
  
  OnceOnly
  EndsAgree
  
CHECK_DEADLOCK FALSE
