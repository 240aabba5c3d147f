CONSTANTS
  ENTRIES = 2
  LastFrame = 7
  L1 = 1
  Callers = {a, b}
  Nobody = Nobody
  WalkCache = FALSE
  StoreBuffer = FALSE
  Ranges <- SmallRanges
SPECIFICATION Spec

  
  
PROPERTIES
  IsAddressSpace
