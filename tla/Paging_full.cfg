CONSTANTS
  Procs = {p1, p2}
  Regions = {1}
  Values = {0, 1}
  RamFrames = 1
  NumSwaps = 1
  SwapFrames = 1
  MaxPages = 1
  MaxAlloc = 1
  Overrun = 0
SPECIFICATION Spec
PROPERTIES ZeroMeansMapped
