SPECIFICATION HostedSpec
CONSTANTS
  Creator = creator
  Observers = {o1}
  Subs = {creator, o1}
  MaxEvents = 2
  MaxEmitted = 4
  c1 = c1
  c2 = c2
  c3 = c3
  k1 = k1
  k2 = k2
  Clients = {c1, c2, c3}
  SessionKeys = {k1, k2}
  KeyOf <- MCKeyOf
  Nameless = Nameless
  NoSession = NoSession
  MaxSessions = 1
  NoContext = {c2, c3}
  FrameCapacity = 1
  MaxYield = 2
INVARIANTS HonestEnding PoolExact AnswersTruthful
PROPERTIES OnlyEvictionSkips TransportsEnd ImplementsReplay DisconnectPersists
CHECK_DEADLOCK FALSE
