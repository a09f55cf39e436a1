\* The Classic spec alone, with one call that fails.
CONSTANTS
  Pools = {np1}
  Suite = {"classic"}
  MaxPolls = 2
  MaxFaults = 1
SPECIFICATION Spec
INVARIANT SkippedElsewhere
CHECK_DEADLOCK FALSE
