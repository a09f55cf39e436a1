\* Two polls, during which the cluster changes twice.
CONSTANTS
  Nodes = {master, w1, w2}
  Workers = {w1, w2}
  Expected = 2
  Verifiers = {"VerifyAllNodesReady", "VerifyNodeCount"}
  ClusterStates <- MCClusterStates
  Passes <- MCPasses
  MaxChanges = 2
  MaxCalls = 2
SPECIFICATION FairSpec
INVARIANTS
  TypeOK
  SendNeverBlocks
  SucceedMeansEachPassed
  NoGoroutineLeaks
PROPERTIES
  Settles
  ImplementsParallelCheck
CHECK_DEADLOCK FALSE
