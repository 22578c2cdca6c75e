CONSTANTS
  c1 = c1 c2 = c2 c3 = c3 other = other
  Calls <- MCCalls
  global = global turn = turn next = next
  Accounts = {global, turn, next}
  AccountsOf <- MCAccountsOf
  Turns = {turn, next}
  Limit <- MCLimit
  MaxCalls = 2
  Worst <- MCWorst
  MaxBill = 3
  None = None
  Span = 1
  MaxTime = 3
  MaxMishaps = 2
SPECIFICATION Spec
INVARIANTS CeilingsHold TurnCalls NeverFree
SYMMETRY Alike
CHECK_DEADLOCK FALSE
