\* One call in a VPC that others change twice, with up to two faulty calls.
CONSTANTS
  e1 = e1
  e2 = e2
  sgDefault = sgDefault
  sgA = sgA
  sgB = sgB
  n1 = n1
  n2 = n2
  Cidr = Cidr
  None = None
  Enis = {e1, e2}
  Sgs = {sgDefault, sgA, sgB}
  Subnets = {n1, n2}
  DefaultSg = sgDefault
  EniSg <- MCEniSg
  EniSubnet <- MCEniSubnet
  Rules <- CycleRules
  MaxOutside = 2
  MaxFaults = 2
  MaxPolls = 2
  MaxTries = 2
SPECIFICATION FairSpec
INVARIANTS
  TypeOK
  OkMeansStartGone
  ErrorNamesWhatIsLeft
  UndisturbedSucceeds
PROPERTIES
  Terminates
  ImplementsCascade
CHECK_DEADLOCK FALSE
