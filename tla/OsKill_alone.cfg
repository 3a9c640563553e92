CONSTANTS
  Cpus = {c1}
  Loader = ld
  NumProcs = 3
  Workloads <- Sequential
  TimeSlots = {2}
  MaxPrio = 2
  MaxQueueSize = 8
  Horizon = 3
  Killer = 3
  KillAt = 2
  NameSets <- OthersNamed
SPECIFICATION KFairSpec
INVARIANTS KTypeOK OthersKept
PROPERTIES KillIsExact KilledStops OthersEnd
