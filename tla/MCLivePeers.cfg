\* Expected to fail: a server that never completes a handshake holds the round, and every server with it.
SPECIFICATION OwnSpec
CONSTANTS
  Polled = {s, t}
  Requests = {r1, r2}
  Handlers = {h1, h2}
  NoTest = NoTest
  Size = 1
  MaxLines = 2
  Versions = {1, 2, 3}
  Attempts = 3
  MaxTroubles = 2
  Days = 3
  ShortDays = {1}
  LongDays = {2}
  Hour = 3
PROPERTIES
  StalledHarmsNoOther
CHECK_DEADLOCK FALSE
