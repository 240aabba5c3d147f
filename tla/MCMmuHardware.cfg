CONSTANTS
  ENTRIES = 2
  LastFrame = 5
  L1 = 1
  Callers = {a, b}
  Nobody = Nobody
  WalkCache = TRUE
  StoreBuffer = TRUE
  Ranges <- OneTable
SPECIFICATION Spec
INVARIANT
  MappedPagesTranslate
SYMMETRY Symmetry
