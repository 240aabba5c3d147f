\* Three cores; the boot core takes IRQs; one monitor may be lost.
CONSTANTS
  c0 = c0
  c1 = c1
  c2 = c2
  Cores <- ThreeCores
  Boot = c0
  IrqCores <- BootOnly
  MaxLost = 1
  NoContext = NoContext
SPECIFICATION FairSpec
INVARIANTS
  MutualExclusion
  NoReentry
PROPERTIES
  IsMutex
  FreeLockIsTaken
