CONSTANTS
  Cpus = {c1, c2}
  Loader = ld
  NumProcs = 3
  Workloads <- Three
  TimeSlots = {2}
  MaxPrio = 2
  MaxQueueSize = 1
  Horizon = 2
SPECIFICATION HFairSpec
INVARIANTS NoneLost
