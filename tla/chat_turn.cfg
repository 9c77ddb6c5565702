SPECIFICATION FairSpec
CONSTANTS
  c1 = c1  c2 = c2  k = k
  Conversations = {c1, c2}
  Requests = {1, 2}
  Keys = {k}
  NoKey = nokey
  Inputs <- FirstAndOther
  MaxFaults = 1
  MaxRestarts = 1
INVARIANTS PersistedBeforeTerminal ExecutedOnce
           ReplayIsFaithful LogAgreesWithStream TitledByItsFirstTurn DeletionRedacts
PROPERTIES StreamEnds
CHECK_DEADLOCK FALSE
