CONSTANTS
  PageSize = 4
  Symbols = 3
  AddrRange = 16
  Sizes = {0, 2, 4, 5}
  RegionIds = {0, 1, 2}
  MaxBreak = 12
SPECIFICATION Spec
INVARIANTS TypeOK RegionsDisjoint RegionsBelowBreak
