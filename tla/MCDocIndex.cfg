SPECIFICATION FairSpec
CONSTANTS
  a = a  b = b  w1 = w1  w2 = w2
  None = None
  Docs <- MCDocs
  Workers <- MCWorkers
  Bad <- MCBad
  Pictured <- MCPictured
  Id <- MCIds
  RepairLimit = 2
  Guarded = FALSE
  Batch = 2
  MaxAttempts = 2
  MaxVersions <- MCVersions
  MaxMishaps = 1
INVARIANTS TypeOK
PROPERTIES IndexAdvances IndexCatchesUp
CHECK_DEADLOCK FALSE
