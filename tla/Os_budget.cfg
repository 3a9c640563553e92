CONSTANTS
  Cpus = {c1}
  Loader = ld
  NumProcs = 2
  Workloads <- Starving
  TimeSlots = {1}
  MaxPrio = 2
  MaxQueueSize = 2
  Horizon = 2
SPECIFICATION HSpec
INVARIANTS SlotBudget
