CONSTANTS
  MaxTurns = 2
  MaxAgentDepth = 1
  ToolLimit = 1
  Profiles <- MCProfiles
  Replies <- MCReplies
  ReuseIds = FALSE
SPECIFICATION RunnerSpec
CHECK_DEADLOCK FALSE
INVARIANT FailureIsStructured
