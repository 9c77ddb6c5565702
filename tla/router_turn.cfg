SPECIFICATION Spec
CONSTANTS
  Skills <- MCSkills
  Streaming <- MCStreaming
  Prose <- MCProse
  Refused <- MCRefused
  MaxIterations = 2
  MaxCalls = 2
  MaxParts = 2
INVARIANTS DispatchShowsItsParts OneCorrectionEach MessageFollowsTheTurn
CHECK_DEADLOCK FALSE
