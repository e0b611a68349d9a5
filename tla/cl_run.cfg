CONSTANTS
  Callers = {a, b}
  Keys = {1, 2, 3}
  Scenarios <- MCScenarios
  PartSize = 2
  MaxUnits = 5
  Threshold = 2
  PageSize = 2
  BufferSizes = {1, 2}
SPECIFICATION Spec
INVARIANTS ListingComplete StreamReadIntact
PROPERTIES CommittedIntact CallsEnd
CHECK_DEADLOCK FALSE
