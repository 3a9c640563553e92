CONSTANTS
  Cpus = {c1, c2}
  Loader = ld
  NumProcs = 1
  Workloads <- One
  TimeSlots = {2}
  MaxPrio = 2
  MaxQueueSize = 2
  Horizon = 2
SPECIFICATION HFairSpec
PROPERTIES AllStop
