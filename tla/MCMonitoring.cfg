\* Two projects or channels, two rounds at most, two callers, a failing statement or
\* restart; two published hosts, a container and an app to discover; rings of two
\* samples; one rule, one environment.
SPECIFICATION SumSpec
CONSTANTS
  Projects = {p1, p2}
  Effective <- SmallEffective
  Interval = 2
  Jitter = 1
  MaxRound = 1
  Limit = 1
  MaxTroubles = 1
  Ingress <- SmallIngress
  Containers <- SmallContainers
  Apps <- SmallApps
  NoRow = NoRow
  Capacity = 2
  TickEvery = 6
  CaptureMax = 1
  EmitEvery = 3
  MaxNow = 20
  MoreTroubles = 2
  Rules = {1}
  For <- SmallFor
  Cooldown <- SmallCooldown
  MaxLag = 1
  Placed = {"a"}
  Envs = {"production"}
  Severities = {1, 2}
  Default <- SmallDefault
  Refresh = 1
  MaxCall = 1
  Channels = {p1, p2}
  Callers = {"g1", "g2"}
  Hurried = {"g2"}
  Deadline = 1
  Burst = 1
  MaxTokens = 2
SYMMETRY Symmetry
INVARIANTS
  HealthIsTrue
  DiscoveryIsExact
  SamplesAreWhole
  ChannelsAreKept
PROPERTIES
  NoFalseDown
  AlertsAreEarned
  FloorIsRecent
CHECK_DEADLOCK FALSE
