SPECIFICATION FairSpec
CONSTANTS
  q1 = q1  q2 = q2  q3 = q3  ann = ann  d1 = d1  d2 = d2
  r1 = r1  c1 = c1  w1 = w1  w2 = w2  None = None
  Queries <- MCQueries
  Users <- MCUsers
  Sources <- MCSources
  Runs <- MCRuns
  Consents <- MCConsents
  Workers <- MCWorkers
  UserOf <- MCUserOf
  SourceOf <- MCSourceOf
  RunOf <- MCRunOf
  ConsentsOf <- MCConsentsOf
  WorkerOf <- MCWorkerOf
  Reserve <- MCReserve
  Rank <- MCRank
  MaxPerRun = 2
  MaxPerDay = 2
  MaxBytes = 1
  MaxConcurrent = 1
  MaxDays = 2
  MaxMishaps = 1
INVARIANTS Budgets BytesBudget ConsentOnce CancelledWasAsked
PROPERTIES KeepsPromise EveryQueryEnds
CHECK_DEADLOCK FALSE
