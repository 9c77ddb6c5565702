SPECIFICATION DocSpec
CONSTANTS
  c1 = c1  c2 = c2  t1 = t1  t2 = t2  u1 = u1  w1 = w1
  Conversations = {c1, c2}
  Turns = {t1, t2}
  ConversationOf <- OneEach
  Workers = {w1}
  IdleMinutes = 0
  MaxAttempts = 1
  MinUserTurns = 1
  BatchSize = 2
  TouchWindow = 0
  LastTurnClock = 0
  Horizon = 1
  MaxFaults = 1
  Users = {u1}
  OwnerOf <- OneOwner
  Facts = {f1, f2}
  Malformed = bad
  MaxEntries = 2
  KeepVersions = 2
  MaxVersions = 3
SYMMETRY Alike
INVARIANTS WrittenBeforeDone
PROPERTIES OneClickRestore ProvenanceSurvives
CHECK_DEADLOCK FALSE
