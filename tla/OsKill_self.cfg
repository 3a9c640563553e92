CONSTANTS
  Cpus = {c1}
  Loader = ld
  NumProcs = 2
  Workloads <- Rivals
  TimeSlots = {2}
  MaxPrio = 1
  MaxQueueSize = 8
  Horizon = 1
  Killer = 2
  KillAt = 2
  NameSets <- Second
SPECIFICATION KSpec
PROPERTIES KilledStops
