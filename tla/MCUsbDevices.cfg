CONSTANTS
  NPorts = 2
  Slots = 2
  Kinds <- MCKinds
  Sessions = 3
  Faults = 1
SPECIFICATION Spec
INVARIANTS SlotsOwned NumbersOwned 
PROPERTIES PortsSettle
CHECK_DEADLOCK FALSE
