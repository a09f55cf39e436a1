\* The same VPC, left alone, whose default group refers to another group.
CONSTANTS
  e1 = e1
  e2 = e2
  sgDefault = sgDefault
  sgA = sgA
  sgB = sgB
  n1 = n1
  n2 = n2
  Cidr = Cidr
  None = None
  Enis = {e1, e2}
  Sgs = {sgDefault, sgA, sgB}
  Subnets = {n1, n2}
  DefaultSg = sgDefault
  EniSg <- MCEniSg
  EniSubnet <- MCEniSubnet
  Rules <- DefaultRefersRules
  MaxOutside = 0
  MaxFaults = 0
  MaxPolls = 2
  MaxTries = 2
SPECIFICATION Spec
CHECK_DEADLOCK FALSE
INVARIANT UndisturbedSucceeds
