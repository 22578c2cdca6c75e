SPECIFICATION FairSpec
CONSTANTS
  t1 = t1  t2 = t2
  Tables <- MCTables
  Designs = {0, 1}
  EditsDuring = {"idle", "choose", "plan", "building", "retire", "validate", "check", "settle"}
  CrashesDuring = {"choose", "plan", "building", "validate", "check", "pin", "settle"}
  RaisesDuring = {"choose", "plan", "building", "validate", "check", "pin", "settle"}
  Reverts = FALSE
  MaxSyncs = 3
  MaxEdits = 1
  MaxStops = 1
  MaxCrashes = 1
INVARIANTS TypeOK PublishedServable OneCurrent RefusedNotServed
PROPERTIES PublishedFrozen PinnedUnjudged PinnedAsDesigned SyncSettles
CHECK_DEADLOCK FALSE
