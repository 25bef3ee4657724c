SPECIFICATION MCSpec
CONSTANTS
  Parts = {"migration"}
  v1 = v1
  v2 = v2
  None = None
  Torn = Torn
  Hosts <- TwoHosts
  Home = "a"
  Volumes <- TwoVolumes
  Overlap = FALSE
  MaxWrites = 2
  MaxRequests = 4
  MaxKills = 1
  MaxDeaths = 1
  DefaultHost = "a"
  Starts <- AllStarts
  Troubles <- FaultsAndEdits
  Joins <- Joining
  Moves <- Away
  MaxKeys = 0
  HostFleets <- AllHostFleets
  Budgets <- AllBudgets
  AddressLate = FALSE
INVARIANTS
  NewestKept
  RunsOnce
  SourceBack
CHECK_DEADLOCK FALSE
