CONSTANTS
  PAGE_SIZE = 4
  HEAP_ALIGN = 2
  HEAP_BASE = 0
  HEAP_MAX_SIZE = 8
  DMA_BASE = 8
  DMA_MAX_SIZE = 12
  NEWLIB_HEAP_BASE = 20
  NEWLIB_HEAP_MAX_SIZE = 8
  LastFrame = 3
  Cores = {c1, c2}
  Nobody = Nobody
  KmallocSizes = {3, 5}
  DmaSizes = {0, 4, 5}
  Increments <- SmallIncrements
  MaxCalls = 2
SPECIFICATION Spec
INVARIANTS
  FramesKept
  DmaBuffersSound
  
PROPERTIES
  CallsReturn
