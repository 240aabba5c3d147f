CONSTANTS
  VectorDelivered = TRUE
  Trbs <- MCTrbs
  EventTrbs = 3
  MaxEventsPerIntr = 1
  Calls = 2
  Reports = 3
SPECIFICATION Spec
INVARIANTS AnswerIsOwn QueueMatchesRing
PROPERTIES EventsInOrder EventsHandled
CHECK_DEADLOCK FALSE
