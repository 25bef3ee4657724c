SPECIFICATION FairSpec
CONSTANTS
  a1 = a1
  u1 = u1
  q1 = q1
  q2 = q2
  q3 = q3
  q4 = q4
  q5 = q5
  Changes <- SmallChanges
  Applies <- OneApply
  Immediate <- NoChange
  Scheduled <- OneTimer
  MaxQueued = 2
  KeepJobs = 10
  MaxStops = 1
  DiskFaults = FALSE
PROPERTY EndsAsTold
CHECK_DEADLOCK FALSE
