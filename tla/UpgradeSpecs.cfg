\* Four specs at once on a cluster of any topology; one node pool more than is upgraded.
CONSTANTS
  Pools = {np1, np2}
  Suite = {"controlPlane", "nodePool", "classic", "operators"}
  MaxPolls = 2
  MaxFaults = 2
SPECIFICATION FairSpec
INVARIANTS
  TypeOK
  PassedMeansUpgraded
  EveryUpgradeWatched
PROPERTY AllEnd
CHECK_DEADLOCK FALSE
