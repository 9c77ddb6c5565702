SPECIFICATION FairSpec
CONSTANTS
  c1 = c1  c2 = c2  t1 = t1  t2 = t2  t3 = t3  w1 = w1
  Conversations = {c1, c2}
  Turns = {t1, t2, t3}
  ConversationOf <- TwoThenOne
  Workers = {w1}
  IdleMinutes = 1
  MaxAttempts = 2
  MinUserTurns = 2
  BatchSize = 2
  TouchWindow = 1
  LastTurnClock = 3
  Horizon = 5
  MaxFaults = 1
INVARIANTS NoSwallowedTurn AttemptsLadder AnswersAreBilled
PROPERTIES KeepsPromise PendingSettles
CHECK_DEADLOCK FALSE
