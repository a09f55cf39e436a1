\* The node pool spec alone, every call answering, on a cluster with two pools.
CONSTANTS
  Pools = {np1, np2}
  Suite = {"nodePool"}
  MaxPolls = 2
  MaxFaults = 0
SPECIFICATION Spec
INVARIANT PoolsUpgraded
CHECK_DEADLOCK FALSE
