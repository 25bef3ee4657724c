SPECIFICATION Spec
CONSTANTS
  a = a
  b = b
  i1 = i1
  i2 = i2
  x = x
  ip1 = ip1
  ip2 = ip2
  None = None
  Names <- TwoNames
  Images <- ThreeImages
  Sound <- TwoSound
  Addresses <- TwoAddresses
  MaxRequests = 4
  MaxFaults = 1
  MaxKills = 1
SYMMETRY Symmetry
INVARIANTS
  SuspendedStays
  RouteLeadsHome
  RollbackPossible
CHECK_DEADLOCK FALSE
