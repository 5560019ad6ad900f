\* Expected to fail: two delete requests count before either deletes.
SPECIFICATION Spec
CONSTANTS
  Backups = {b1, b2, b3}
  NoBackup = NoBackup
  Deleters = {r1, r2}
  Keep = 3
  MaxCrashes = 0
  MaxFaults = 0
PROPERTIES
  FallbackRetained
CHECK_DEADLOCK FALSE
