SPECIFICATION Spec
CONSTANTS
  j1 = j1  j2 = j2  j3 = j3  w1 = w1  w2 = w2
  NoJob = NoJob  Dead = Dead
  Jobs <- MCJobs
  Workers <- MCWorkers
  Home <- MCHome
  Kinds <- MCManualKinds
  LapsableAt = {}
  MaxCrashes = 0
INVARIANTS OneWriter
