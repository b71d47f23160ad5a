CONSTANTS
  Protocols = {"plain", "agui"}
  MaxMessages = 3
  MaxItems = 1
  Capacity = 1
  Threshold = 2
  MaxCrashes = 1
  MaxTurns = 2
  MaxAgentDepth = 1
  ToolLimit = 1
  Profiles <- MCProfiles
  Replies <- MCReplies
  ReuseIds = FALSE
SPECIFICATION ServedSpec
INVARIANTS NothingForgotten TurnsInOrder
  PersistedBeforeExposed PersistedCallsAnswered VerdictFollowsStream
PROPERTIES MessageServed CancelEndsRun
