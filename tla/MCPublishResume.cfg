SPECIFICATION Spec
CONSTANTS
  t1 = t1  t2 = t2
  Tables <- MCTables
  Designs = {0, 1}
  EditsDuring = {"idle"}
  CrashesDuring = {}
  RaisesDuring = {}
  Reverts = FALSE
  MaxSyncs = 2
  MaxEdits = 1
  MaxStops = 1
  MaxCrashes = 0
INVARIANTS ServedAsDesigned
CHECK_DEADLOCK FALSE
