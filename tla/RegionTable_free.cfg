CONSTANTS
  PageSize = 4
  Symbols = 3
  AddrRange = 16
  Sizes = {2}
  RegionIds = {0, 1}
  MaxBreak = 12
SPECIFICATION Spec
INVARIANTS NoStrayRead
