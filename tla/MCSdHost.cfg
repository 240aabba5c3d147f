CONSTANTS
  Kinds = {"v1", "sc", "hc"}
  MaxBlocks = 2
  Rcas = {1, 2}
SPECIFICATION Spec
INVARIANTS
  SelectedWhenReady
  ReadsDelivered
  AnswersTheCommand
PROPERTIES
  CallsReturn
