SPECIFICATION TaskSpec
CONSTANTS
  None = None
  Tasks = {t1, t2}
  Messages = {m1, m2}
  Cancels = {c1}
  Subs = {s1}
  MaxTasks = 1
  MaxLog = 2
  MaxArtifacts = 1
INVARIANT LastFrameIsFinal
CHECK_DEADLOCK FALSE
