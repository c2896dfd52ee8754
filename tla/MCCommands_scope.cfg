CONSTANTS
  V4 = {"a", "b"}
  V6 = {"x"}
  Commands <- SessionCommands
  MaxWorkers = 1
  MaxSessions = 2
  Clients = {"c1", "c2"}
  Total = 2
  Requests = {{}, {"token", "out of scope"}}
  MaxScans = 2
  Jobs = {"j1", "j2", "j3"}
  Size <- Sizes
  Cap = 3
  MaxRuns = 3
  DiskMayFail = TRUE
  Processes = {"c1", "c2"}
  Executable = "exe"
  Modules = {"m"}
  Versions = {"v1", "v2"}
  MaxStarts = 3
  Listeners = {"e1"}
  Keys = {"k1", "k2"}
  MaxCommands = 4
  Policies <- ThreePolicies
  Vantages = {"lan", "wifi"}
  NetPorts = {1, 2}
  Resolves <- Hosts
  Scopes = {{"h1", "h2"}, {"h1"}}
  MaxChecks = 3
  Scripts = {"s1", "s2"}
  MaxProbes = 1
  AllResults <- ThreeResults
  Unused = Unused
  NotThere = NotThere
  CutShort = CutShort
  None = None
SPECIFICATION Spec
INVARIANT OnlyAuthorizedProbed
CHECK_DEADLOCK FALSE
