CONSTANTS
  None = None
  Tasks = {t1, t2}
  Messages = {m1, m2}
  Cancels = {c1}
  Subs = {s1}
  MaxTasks = 1
  MaxLog = 2
  MaxArtifacts = 1
  a = a
  b = b
  NoCall = NoCall
  Kinds = {"sequential", "parallel", "loop", "graph", "swarm"}
  AgentsOf <- MCAgentsOf
  MaxIterations = 2
  MaxHandoffs = 2
  CandidateEdges <- MCEdges
  CallsOf <- MCCallsOf
  BodiesOf <- MCBodiesOf
  MaxEvents <- MCMaxEvents
SYMMETRY MessageSymmetry
SPECIFICATION AgentCoreSpec
INVARIANTS
  CancelIsTruthful FinalFrameIsStoredState SleepersMissNothing
  AgentsAccounted ClientView
PROPERTIES StreamsDrain ImplementsAgent
