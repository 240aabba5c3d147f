CONSTANTS
  PAGE_SIZE = 2
  WORD = 3
  WORD_BYTES = 1
  PHYS_MEM_END = 18
  KernelEnds <- SmallKernelEnds
  Callers = {a, b}
  MaxCount = 3
  Nobody = Nobody
SPECIFICATION Spec
INVARIANTS
  
  FramesInMemory
  MeminfoNeverWraps
PROPERTIES
  FailsOnlyWhenFull
  
