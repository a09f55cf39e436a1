\* Two executions of any of the five specs, with up to two failing calls.
CONSTANTS
  r1 = r1
  r2 = r2
  Runs = {r1, r2}
  None = None
  Objects = {"deployment", "service", "claim", "pod", "policy"}
  MaxTries = 2
  MaxPolls = 2
  MaxFaults = 2
SPECIFICATION FairSpec
INVARIANTS
  TypeOK
  DeploymentKeepsApart
  LeavesNothing
  UndisturbedPasses
 
CHECK_DEADLOCK FALSE
