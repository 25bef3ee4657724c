SPECIFICATION MCSpec
CONSTANTS
  Hosts <- TwoHosts
  DefaultHost = "a"
  Starts <- AllStarts
  Troubles <- FaultsAndEdits
  Joins <- Joining
  Moves <- Away
  MaxKeys = 4
  HostFleets <- AllHostFleets
  Budgets <- AllBudgets
  AddressLate = FALSE
  Parts = {"daemons", "hosts"}
  Home = "a"
  v1 = v1
  v2 = v2
  None = None
  Torn = Torn
  Volumes <- TwoVolumes
  Overlap = FALSE
  MaxWrites = 0
  MaxRequests = 0
  MaxKills = 0
  MaxDeaths = 0
INVARIANTS
  QuietMeansDone
  OneWriter
  OneDroplet
PROPERTIES
  KeyStays
  FleetDone
  ReconcileWorks
CHECK_DEADLOCK FALSE
