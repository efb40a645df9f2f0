SPECIFICATION Spec
CONSTANTS
  Updates <- UpdatesModel
  MaxRuns = 2
  MaxLines = 2
  MaxAsks = 1
INVARIANTS
  OwnAnswer
  NothingLeftBehind
  HonestResult
PROPERTIES
  CallsEnd
CHECK_DEADLOCK FALSE
