SPECIFICATION Spec
CONSTANTS
  Checks = {"cloudTrail"}
  Pods = {p1, p2}
  Timeout = 2
  PodPoll = 2
  EndpointPoll = 1
  MaxCall = 1
  Deployments = {d1, d2}
  MaxRevision = 2
  Providers = {i1, i2}
  Logs <- MCLogs
  MaxPages = 2
  PageSize = 2
  MaxObjects = 2
  MaxSayings = 2
INVARIANTS
  NoDenialInWindow
CHECK_DEADLOCK FALSE
