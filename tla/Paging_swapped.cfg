CONSTANTS
  Procs = {p1}
  Regions = {1, 2}
  Values = {0, 1}
  RamFrames = 1
  NumSwaps = 1
  SwapFrames = 2
  MaxPages = 2
  MaxAlloc = 1
  Overrun = 0
SPECIFICATION Spec
PROPERTIES GetsPageInRam
