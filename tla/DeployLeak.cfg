\* One execution alone, in which every call answers.
CONSTANTS
  r1 = r1
  r2 = r2
  Runs = {r1}
  None = None
  Objects = {"deployment", "service", "claim", "pod", "policy"}
  MaxTries = 2
  MaxPolls = 2
  MaxFaults = 0
SPECIFICATION Spec
INVARIANT DeployLeavesNothing
CHECK_DEADLOCK FALSE
