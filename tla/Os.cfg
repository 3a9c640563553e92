CONSTANTS
  Cpus = {c1, c2}
  Loader = ld
  NumProcs = 4
  Workloads <- Mixed
  TimeSlots = {0, 2}
  MaxPrio = 2
  MaxQueueSize = 3
  Horizon = 4
SPECIFICATION HFairSpec
INVARIANTS TypeOK OneOwner NoneLost NoneAbandoned
PROPERTIES NotBeforeStart EveryProcessEnds BusyCpuStops ImplementsProcessLife
  WorkConserving PriorityFirst FairTurns FullQuantum
