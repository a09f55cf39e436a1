\* Both specs; three ticks of the wait before its timeout.
CONSTANT MaxPolls = 3
SPECIFICATION FairSpec
INVARIANTS
  TypeOK
  LeftOnlyByLoss
  
  UndisturbedPasses
PROPERTY Ends
CHECK_DEADLOCK FALSE
