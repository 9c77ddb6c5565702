SPECIFICATION Spec
CONSTANTS
  r1 = r1  r2 = r2  r3 = r3  k1 = k1  k2 = k2
  Requests = {r1, r2, r3}
  Kids = {k1, k2}
  Interval = 3
  NegativeTTL = 3
  NegativeMax = 1
  FetchWait = 2
  FetchTime = 2
  Delay = 1
  Horizon = 7
SYMMETRY RequestSymmetry
INVARIANTS FetchesAreFew RidersAreReleased
PROPERTIES VerdictIsFresh
CHECK_DEADLOCK FALSE
