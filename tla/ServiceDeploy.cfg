SPECIFICATION PlanFairSpec
CONSTANTS
  i1 = i1
  i2 = i2
  e1 = e1
  e2 = e2
  r1 = r1
  r2 = r2
  n1 = n1
  n2 = n2
  x = x
  y = y
  NoSite = NoSite
  NoEnv = NoEnv
  NoRef = NoRef
  NoRoute = NoRoute
  NoInstance = NoInstance
  NoInit = NoInit
  Images <- TwoImages
  Envs <- TwoEnvs
  Routes <- TwoRoutes
  Refused <- BadRoute
  Addresses <- TwoAddresses
  Inits <- TwoHooks
  Failing <- BadHook
  Sound <- SoundPairs
  Manifests <- Several
  MaxPushes = 2
  MaxFaults = 2
INVARIANTS
  SnapshotFirst
  RolledBackAsItWas
  OkIsTrue
PROPERTIES
  NothingUnannounced
  ConvergesInTheEnd
