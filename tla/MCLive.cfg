\* What comes to an end, and what is always true of the same instances: one server,
\* one rule, one tunnel, two commands, two requests to configure, two failing
\* statements or restarts, a day of 23 hours and one of 25.
SPECIFICATION FairSpec
CONSTANTS
  Polled = {s}
  Requests = {r1, r2}
  Handlers = {h1, h2}
  NoTest = NoTest
  Size = 1
  MaxLines = 2
  Versions = {1, 2, 3}
  Attempts = 3
  MaxTroubles = 2
  Days = 3
  ShortDays = {1}
  LongDays = {2}
  Hour = 3
INVARIANTS
  StreamIsTrue
  OncePerDay
  StartRecovers
PROPERTIES
  ServersAreWatched
  LastingOutageIsDelivered
  NothingHangs
CHECK_DEADLOCK FALSE
