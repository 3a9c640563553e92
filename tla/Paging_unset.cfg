CONSTANTS
  Procs = {p1}
  Regions = {1}
  Values = {0, 1}
  RamFrames = 2
  NumSwaps = 1
  SwapFrames = 1
  MaxPages = 4
  MaxAlloc = 1
  Overrun = 1
SPECIFICATION Spec
INVARIANTS NothingUnset
