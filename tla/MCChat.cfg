CONSTANTS
  Submits = {1, 2, 3}
  a = a shared = shared k1 = k1 k2 = k2
  Users = {a}
  UserOf <- MCUserOf
  ConversationOf <- MCConversationOf
  KeyOf <- MCKeyOf
  MaxRunning = 2 PerDay = 2
  None = None
  MaxMishaps = 1
SPECIFICATION Spec
INVARIANTS TypeOK OneAtATime
PROPERTIES KeepsPromise EveryTurnEnds
CHECK_DEADLOCK FALSE
