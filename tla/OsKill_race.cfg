CONSTANTS
  Cpus = {c1, c2}
  Loader = ld
  NumProcs = 4
  Workloads <- Crowd
  TimeSlots = {2}
  MaxPrio = 1
  MaxQueueSize = 8
  Horizon = 1
  Killer = 1
  KillAt = 4
  NameSets <- Second
SPECIFICATION KSpec
INVARIANTS OthersKept
