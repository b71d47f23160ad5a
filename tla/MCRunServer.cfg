SPECIFICATION Spec
CONSTANTS
  r1 = r1
  r2 = r2
  r3 = r3
  k1 = k1
  Runs <- MCRuns
  Keys <- MCKeys
  Key <- MCKey
  Anonymous = Anonymous
  None = None
  MaxInFlight = 1
  MaxRuns = 1
  Ttl = 1
  MaxRunDuration = 1
  MaxTime = 2
INVARIANTS RegistryExact OneRunPerSession
PROPERTIES SweepIsOrderly SlotsReclaimed
CHECK_DEADLOCK FALSE
