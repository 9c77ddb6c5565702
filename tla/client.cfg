SPECIFICATION MCSpec
CONSTANTS
  Convs = {"c1", "c2", "c3"}
  Old <- Messages
  MessageLimit = 2
  ListLimit = 1
  Scripts <- Turns
  MaxCalls = 3
  MaxSends = 1
  Keys = {"sub", "address"}
  Threads = {"t1", "t2"}
  Capacity = 2
  EvictEvery = 2
  MaxDelay = 1
  MaxClock = 4
  MaxChecks = 5
  Tabs = {"here", "there"}
  Comments = {"no comment", "why"}
  Answer = "run"
  MaxAsks = 3
INVARIANTS NoMessageTwice ThumbsFollowTheOpener SettledShowsTheTurn ChunksWellFormed AdmittedWithinRate SettledVoteIsRecorded
CHECK_DEADLOCK FALSE
