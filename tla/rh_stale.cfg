CONSTANTS
  Threads = {t1, t2}
  Ids = {x}
  TotalChunks = 3
  CheckpointInterval = 2
  Batches <- SmallBatches
  Saved <- NewStates
  IOFaults = FALSE
  Restarts = TRUE
  Removals = FALSE
  None = None
SPECIFICATION Spec
PROPERTY MarksStay
