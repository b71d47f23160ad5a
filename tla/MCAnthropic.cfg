CONSTANTS
  MaxItems = 8
  MaxCalls = 3
SPECIFICATION RequestSpec
INVARIANT ResultsJoinOneTurn
