\* Expected to fail: a process that holds bash's output defeats the deadline.
SPECIFICATION FairSpec
CONSTANTS
  Projects = {p1}
  Configured = {p1}
  Deployments = {d1}
  NoProject = NoProject
  MaxCrashes = 0
  MaxFaults = 0
PROPERTIES
  HardTimeout
CHECK_DEADLOCK FALSE
