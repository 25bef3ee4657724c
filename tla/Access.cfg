SPECIFICATION AccessSpec
CONSTANTS
  Accounts <- TwoPeople
  ApiTokens <- OneToken
  OpenPages <- OnePerson
  p1 = p1
  p2 = p2
  t1 = t1
  s1 = s1
  s2 = s2
  People <- OnePerson
  Slots <- TwoSlots
  MaxClients = 1
  MaxRegister = 2
  MaxCodes = 2
  MaxRefresh = 3
  MaxFaults = 1
  MaxRestarts = 1
  MaxBars = 1
  HostUser = "daemon"
  Callers <- AnyCaller
  Overlap = FALSE
  Updates <- OneSlot
  MaxRequests = 2
  MaxCommands = 1
  Topics = {"status", "plans"}
  Cookie = {}
  MaxSubs = 1
  MaxSigning = 1
  MaxPending = 1
  MaxChanges = 2
  MaxDials = 1
  MaxBreaks = 1
  Digests = {"r1", "r2", "r3"}
  KeepRecipes = 1
  MaxCalls = 5
  MaxFailed = 1
  MaxStarts = 1
INVARIANTS
  EndedStaysEnded
  GrantsInOrder
  NotStranded
  ChangesStand
  RevokedIsRefused
  LiveIsCurrent
  StopEndsAll
  AnswersStand
CHECK_DEADLOCK FALSE
