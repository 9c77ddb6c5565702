SPECIFICATION Spec
CONSTANTS
  c1 = c1  c2 = c2  k = k
  Conversations = {c1, c2}
  Requests = {1, 2}
  Keys = {k}
  NoKey = nokey
  Inputs <- FirstAndOther
  MaxFaults = 0
  MaxRestarts = 0
INVARIANTS DeletedLeavesNoContent
CHECK_DEADLOCK FALSE
