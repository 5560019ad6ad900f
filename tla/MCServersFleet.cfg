\* Expected to fail: the handler takes the tokens of probes that still run.
SPECIFICATION SumSpec
CONSTANTS
  Users = {a, b}
  Nobody = Nobody
  Handlers = {h1, h2}
  TTL = 2
  Things = {a, b}
  SshKeys = {"k1", "k2"}
  KeyNames = {"key", "known_hosts"}
  TrustFile = "known_hosts"
  MoreTroubles = 2
  Ids = {"t"}
  Addrs = {"local", "remote"}
  Remote = {"remote"}
  MaxLive = 3
  Servers = {a, b, c}
  Parallel = 2
  Containers = {"c"}
  MaxTroubles = 1
  Monitored = {a, b}
  MaxParallel = 1
  MaxFailures = 3
  Testers = {}
  NoTest = NoTest
  MaxCrashes = 0
  MaxFaults = 0
  Machines = {"local", "s"}
  Local = "local"
  Requests = {h1, h2}
  Registered = {"s"}
  Names = {"n"}
  Paths = {a, b}
  NoFile = NoFile
  Parts = 2
  MaxMoves = 2
  MaxCuts = 1
SYMMETRY Symmetry
CONSTRAINT NoOverlap
INVARIANTS
  FleetAnswersLast
CHECK_DEADLOCK FALSE
