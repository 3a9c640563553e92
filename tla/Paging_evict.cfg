CONSTANTS
  Procs = {p1, p2}
  Regions = {1}
  Values = {0, 1}
  RamFrames = 3
  NumSwaps = 2
  SwapFrames = 1
  MaxPages = 3
  MaxAlloc = 2
  Overrun = 0
SPECIFICATION Spec
INVARIANTS TypeOK FramesExclusive SlotsExclusive FifoOnline
PROPERTIES SwapKeepsData
