\* Three runs, two delete requests at a time, a crash and a fault; keep one.
SPECIFICATION Spec
CONSTANTS
  Backups = {b1, b2, b3}
  NoBackup = NoBackup
  Deleters = {r1, r2}
  Keep = 1
  MaxCrashes = 1
  MaxFaults = 1
SYMMETRY Symmetry
INVARIANTS
  TypeOK
  NewestRetained
  PrunedWhenQuiet
  OkRowHasFile
CHECK_DEADLOCK FALSE
