CONSTANTS
  Jobs = {j1, j2}
  Workers = {w1, w2}
  Pages = 2
  MaxAttempts = 2
  None = None
  MaxMishaps = 2
SPECIFICATION Spec
INVARIANTS OneRenderer ServedWhole
PROPERTY JobsEnd
CHECK_DEADLOCK FALSE
