SPECIFICATION Spec
CONSTANTS
  v1 = v1
  v2 = v2
  c1 = c1
  c2 = c2
  Gone = Gone
  Short = Short
  Nothing = Nothing
  Volumes <- TwoVolumes
  Containers <- TwoServices
  Mounts <- BothOnFirst
  Suspended <- OneAside
  Legacy <- OnlySecond
  RetainDaily = 2
  RetainMonthly = 0
  RetainDays = 0
  DayLength = 2
  MonthLength = 4
  Times <- AtOne
  MaxWrites = 1
  MaxRequests = 3
  MaxKills = 1
INVARIANTS
  NewestDataKept
  LatestRestorable
  StartedAgain
  ScheduledOnce
CHECK_DEADLOCK FALSE
