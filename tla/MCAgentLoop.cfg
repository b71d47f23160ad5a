CONSTANTS
  MaxTurns = 2
  MaxAgentDepth = 1
  ToolLimit = 2
  Profiles <- MCProfiles
  Replies <- MCReplies
  ReuseIds = FALSE
SPECIFICATION Spec
CHECK_DEADLOCK FALSE
INVARIANTS UsageConserved CallsPaired WorkBounded
PROPERTIES ImplementsAgent
