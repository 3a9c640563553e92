CONSTANTS
  Procs = {p1, p2}
  Regions = {1, 2}
  Values = {0, 1}
  RamFrames = 4
  NumSwaps = 1
  SwapFrames = 1
  MaxPages = 2
  MaxAlloc = 2
  Overrun = 0
SPECIFICATION Spec
PROPERTIES ZeroMeansMapped ImplementsVirtMem
