\* Two deployments of one project beside one that cannot be deployed, one
\* crash, one failing write; the processes a script leaves behind end.
SPECIFICATION FairSpecHelpersFinish
CONSTANTS
  Projects = {p1, p2}
  Configured = {p1}
  Deployments = {d1, d2}
  NoProject = NoProject
  MaxCrashes = 1
  MaxFaults = 1
INVARIANTS
  TypeOK
  OneRunPerProject
  LockIsOwned
  ChannelIsOwned
  RunsAreRecorded
  OutcomeFitsProcess
PROPERTIES
  LedgerSpec
  LockEventuallyReleased
CHECK_DEADLOCK FALSE
