CONSTANTS
  Submits = {1, 2, 3, 4}
  report = report ann = ann ben = ben k1 = k1 k2 = k2
  Links = {report}
  LinkOf <- MCLinkOf
  ViewerOf <- MCViewerOf
  KeyOf <- MCKeyOf
  MaxRunning = 1
  None = None
  MaxMishaps = 1
SPECIFICATION Spec
INVARIANTS LinkCeiling
PROPERTIES KeepsPromise EverySubmitEnds
CHECK_DEADLOCK FALSE
