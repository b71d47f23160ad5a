CONSTANTS
  MaxTurns = 2
  ToolLimit = 2
  Plans <- MCPlans
  Replies <- MCReplies
  MaxCrashes = 1
  Absent = Absent
  DefaultDepth = 2
  Roots <- MCRoots
  Calls <- MCCalls
  Effects <- MCEffects
  MaxNesting = 2
  Outputs <- MCOutputs
  EnvSecrets = {"env"}
  Lengths <- MCLengths
  CommonWords = {"digits"}
  NoCode = NoCode
  Timeout = 2
  Grace = 1
  OutputCap = 1
  MaxBytes = 3
  PipeSize = 1
  NoBox = NoBox
  NoDate = NoDate
  Runs = {r1, r2}
  Boxes = {b1, b2}
  ForeignBox = foreign
  RunTimeout = 1
  ControlTimeout = 1
  ReapAge = 2
  MaxClock = 3
  AnyHost = AnyHost
  NoUrl = NoUrl
  Policies <- MCPolicies
  DomainNames = {"good", "bad"}
  Literals = {"ip_public", "ip_private"}
  PublicIps = {"ip_public"}
  PrivateIps = {"ip_private"}
  Fetches = {f1, f2}
  Tunnels = {t1}
  MaxUses = 1
  MaxRedirects = 1
  MaxBodyBytes = 1
  BodyLength = 2
  MaxItems = 8
  MaxCalls = 3
SPECIFICATION ActivitiesSpec
INVARIANTS
  CallsAnswered DurableVerdict
  ToolContract ExecContract SandboxesSafe PolicyHolds RequestsFaithful
