SPECIFICATION FairSpec
CONSTANTS
  b0 = b0
  b1 = b1
  b2 = b2
  f0 = f0
  f1 = f1
  d1 = d1
  d2 = d2
  u1 = u1
  NoBinary = NoBinary
  NoSet = NoSet
  Binaries <- ThreeBinaries
  MaxAttempts = 3
  Sets <- TwoSets
  UnitSet <- f0
  MaxStarts = 3
  Deploys <- OneDeploy
  Upgrades <- OneUpgrade
  Commits <- FourCommits
  Sound <- SoundPairs
  MaxKills = 4
  Overlaps = FALSE
  DiskFaults = TRUE
INVARIANTS
  RestartIsSafe
  RestartsOnceEach
PROPERTIES
  SettlesInTheEnd
  BothOnTrial
CHECK_DEADLOCK FALSE
