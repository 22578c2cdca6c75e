CONSTANTS
  Views = {v1, v2, v3}
  Publishers = {p1, p2}
  MaxVersion = 2
  None = None
  MaxMishaps = 1
SPECIFICATION CacheSpec
INVARIANTS OneBuild NextViewNew
PROPERTIES OldGoes
CHECK_DEADLOCK FALSE
