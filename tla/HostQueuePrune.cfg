SPECIFICATION Spec
CONSTANTS
  a1 = a1
  u1 = u1
  q1 = q1
  q2 = q2
  q3 = q3
  q4 = q4
  q5 = q5
  Changes <- QueuedChanges
  Applies <- NoChange
  Immediate <- OneImmediate
  Scheduled <- OneImmediate
  MaxQueued = 1
  KeepJobs = 4
  MaxStops = 0
  DiskFaults = FALSE
SYMMETRY Symmetry
INVARIANT LastEndedKept
CHECK_DEADLOCK FALSE
