SPECIFICATION Spec
CONSTANTS
  t1 = t1
  h1 = h1
  h0 = h0
  a1 = a1
  a2 = a2
  d1 = d1
  o1 = o1
  p1 = p1
  Applies <- TwoApplies
  Deploys <- NoJob
  Others <- NoJob
  Trees <- OneTree
  Hosts <- ThreeHosts
  Blocked <- OneBlocked
  Planners <- OnePlanner
  MaxApprovals = 2
  MaxCrashes = 1
  DiskFaults = TRUE
  Prunes = FALSE
SYMMETRY Symmetry
INVARIANT SingleUse
CHECK_DEADLOCK FALSE
