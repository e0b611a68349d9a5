CONSTANTS
  Threads = {t1, t2, t3}
  TotalChunks = 2
  VerifyHash = TRUE
  Overwrite = TRUE
  IOFaults = TRUE
  Duplicates = TRUE
  RelockThrows = TRUE
  MaxCalls = 3
  None = None
SPECIFICATION Spec
SYMMETRY Symmetry
INVARIANT CompletedIntact
CHECK_DEADLOCK FALSE
