CONSTANTS
  PageSize = 4
  Symbols = 3
  AddrRange = 16
  Sizes = {1, 2}
  RegionIds = {0, 1}
  MaxBreak = 12
SPECIFICATION Spec
INVARIANTS RegionsDisjoint
