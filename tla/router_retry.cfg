SPECIFICATION Spec
CONSTANTS
  Skills <- MCSkills
  Streaming <- MCStreaming
  Prose <- MCProse
  Refused <- MCRefused
  MaxIterations = 2
  MaxCalls = 2
  MaxParts = 2
INVARIANT RetryShowsPartsOnce
CHECK_DEADLOCK FALSE
